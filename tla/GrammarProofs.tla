--------------------------- MODULE GrammarProofs ---------------------------
(***************************************************************************)
(* Theorems about the grammars of purecard.                                *)
(*                                                                         *)
(* FixedMasksAreExact: the masks of the fixed grammar (GrammarWalk), by    *)
(* the facts AutomatonFacts states of every regular automaton.             *)
(* CompiledSpecsAreJust: the verdict on a supplied grammar                 *)
(* (SpecAutomaton).  A chain of gotos longer than the number of states     *)
(* would meet a state twice, which the acyclicity check has excluded; a    *)
(* state the automaton reaches is one the search without guards finds; and *)
(* a shadowed rule is never the first that matches.                        *)
(* The last part is the classification of tokens by probe (MaskProbe),     *)
(* right for every automaton that is DeltaIsFrameBlind, every vocabulary   *)
(* and every live stack.                                                   *)
(***************************************************************************)
EXTENDS GrammarWalk, SpecAutomaton, MaskProbe, FiniteSetTheorems, CountingInduction, TLAPS

-----------------------------------------------------------------------------
(* The fixed grammar *)

F == INSTANCE AutomatonFacts WITH Start <- "Start", Step <- Table, Terminal <- Final

\* The driver of the walk is the one the facts are about.
LEMMA SameDriver ==
  /\ \A c, b : F!Advance(c, b) = Advance(c, b)
  /\ \A s, t : F!Config(s, t) = Config(s, t)
  /\ \A s : F!Partition(s) = Partition(s)
  /\ \A c, p : F!Mask(c, p) = Mask(c, p)
  /\ \A c : F!Acceptable(c) = Acceptable(c)
<1>1. \A s : F!Top(s) = Top(s)
  BY Zenon DEF F!Top, Top
<1>2. \A s, x : F!Stacked(s, x) = Stacked(s, x)
  BY Zenon DEF F!Stacked, Stacked
<1>3. \A c, b : F!Advance(c, b) = Advance(c, b)
  BY <1>1, <1>2, Zenon DEF F!Advance, Advance
<1>4. \A s, t : F!Config(s, t) = Config(s, t)
  BY Zenon DEF F!Config, Config
<1>5. \A c, bytes : F!Path(c, bytes) = Path(c, bytes)
  BY <1>3, Zenon DEF F!Path, Path
<1>6. \A c, bytes : F!Admits(c, bytes) <=> Admits(c, bytes)
  BY <1>5, Zenon DEF F!Admits, Admits, F!Run, Run
<1>7. F!Tokens = Tokens /\ F!EOS = EOS
  BY DEF F!Tokens, Tokens, F!EOS, EOS
<1>8. \A p, bytes : F!DeathOf(p, bytes) = DeathOf(p, bytes)
  BY Zenon DEF F!DeathOf, DeathOf
<1>9. \A s, bytes : F!ConsultedAmbient(s, bytes) <=> ConsultedAmbient(s, bytes)
  BY <1>4, <1>5, <1>6, <1>8, Zenon DEF F!ConsultedAmbient, ConsultedAmbient
<1>10. \A s : F!Partition(s) = Partition(s)
  BY <1>4, <1>6, <1>7, <1>9 DEF F!Partition, Partition
<1>11. \A c : F!IsAccepting(c) <=> IsAccepting(c)
  BY Zenon DEF F!IsAccepting, IsAccepting
<1>12. \A c, p : F!Mask(c, p) = Mask(c, p)
  BY <1>6, <1>7, <1>11 DEF F!Mask, Mask
<1>13. \A c : F!Acceptable(c) = Acceptable(c)
  BY <1>6, <1>7, <1>11 DEF F!Acceptable, Acceptable
<1> QED BY <1>3, <1>4, <1>10, <1>12, <1>13
\* The table of the fixed grammar is an automaton the facts are about.
LEMMA FixedIsRegular == F!Regular /\ F!StepIsFrameBlind
<1>1. F!Tops = Tops
  BY DEF F!Tops, Tops
<1> QED BY <1>1, TableIsRegular, VocabAssumption
        DEF F!Regular, F!StepIsTotal, StepIsTotal, F!StepIsFrameBlind, StepIsFrameBlind

\* The automaton is where a live one can be.
WalkIsLive == state \in States /\ stack \in Seq(Frames)

\* A byte that is taken leads to a live configuration.
LEMMA FeedKeepsLive ==
  ASSUME WalkIsLive, NEW b \in Bytes, Feed(b)
  PROVE  WalkIsLive'
<1>1. PICK c, next : c = Here /\ next = Advance(Here, b)
  OBVIOUS
<1>2. c \in F!Live
  BY <1>1 DEF Here, Config, F!Live, WalkIsLive
<1>3. next = F!Advance(c, b) /\ next.alive
  BY <1>1, SameDriver DEF Feed
<1>4. next \in F!Configs
  <2>1. F!Live \subseteq F!Configs
    BY DEF F!Live, F!Configs
  <2> QED BY <1>2, <1>3, <2>1, FixedIsRegular, F!AdvanceTyped
<1>5. next.state \in States /\ next.stack \in Seq(Frames)
  BY <1>4 DEF F!Configs
<1> QED BY <1>1, <1>5 DEF Feed, WalkIsLive

\* For the table of the fixed grammar, every vocabulary and nesting of every depth: the
\* mask put together from the cached partition of the state and the deferred tokens
\* holds exactly the tokens that accept_token takes (allowed_mask, build_fixed).
THEOREM FixedMasksAreExact == WalkSpec => []MaskIsExact
<1>1. WalkInit => WalkIsLive
  BY TableIsRegular DEF WalkInit, WalkIsLive
<1>2. WalkIsLive /\ [WalkNext]_walkVars => WalkIsLive'
  <2> SUFFICES ASSUME WalkIsLive, [WalkNext]_walkVars PROVE WalkIsLive'
    OBVIOUS
  <2>1. ASSUME NEW b \in Bytes, Continues(b) PROVE WalkIsLive'
    BY <2>1, FeedKeepsLive DEF Continues
  <2>2. CASE Decides
    BY <2>2 DEF Decides, WalkIsLive
  <2>3. CASE Finishes
    BY <2>3, FeedKeepsLive DEF Finishes
  <2>4. CASE Restarts
    BY <2>4, TableIsRegular DEF Restarts, Reset, WalkIsLive
  <2>5. CASE UNCHANGED walkVars
    BY <2>5 DEF walkVars, WalkIsLive
  <2> QED BY <2>1, <2>2, <2>3, <2>4, <2>5 DEF WalkNext
<1>3. WalkIsLive => MaskIsExact
  <2> SUFFICES ASSUME WalkIsLive PROVE Mask(Here, Cached[state]) = Acceptable(Here)
    BY DEF MaskIsExact
  <2>1. PICK c : c = Here
    OBVIOUS
  <2>2. c \in F!Live /\ c.state = state
    BY <2>1 DEF Here, Config, F!Live, WalkIsLive
  <2>3. F!Mask(c, F!Partition(c.state)) = F!Acceptable(c)
    BY <2>2, FixedIsRegular, F!MaskFromPartition
  <2>4. Cached[state] = Partition(c.state)
    BY <2>2 DEF Cached, WalkIsLive
  <2> QED BY <2>1, <2>3, <2>4, SameDriver
<1> QED BY <1>1, <1>2, <1>3, PTL DEF WalkSpec

-----------------------------------------------------------------------------
(* A supplied grammar: what compile and step compute *)

\* The least element of a set of naturals.
LEMMA MinOf ==
  ASSUME NEW S, S \subseteq Nat, S # {}
  PROVE  Min(S) \in S /\ \A y \in S : Min(S) <= y
<1>1. \E x \in S : \A y \in S : x <= y
  BY Least
<1> QED BY <1>1 DEF Min

\* The rules of a state are numbered from one.
LEMMA RuleNumbers ==
  ASSUME NEW sp \in Specs, NEW s \in DOMAIN sp.states
  PROVE  /\ Len(sp.states[s].rules) \in Nat
         /\ DOMAIN sp.states[s].rules = 1..Len(sp.states[s].rules)
         /\ sp.states[s].rules \in Seq(Range(sp.states[s].rules))
<1>1. sp.states[s].rules \in Seq(Range(sp.states[s].rules))
  BY SpecsAssumption
<1> QED BY <1>1

\* The rules of a spec are those of its states.
LEMMA RuleOfState ==
  ASSUME NEW sp, NEW s \in DOMAIN sp.states, NEW i \in DOMAIN sp.states[s].rules
  PROVE  /\ <<s, i>> \in Rules(sp)
         /\ RuleAt(sp, <<s, i>>) = sp.states[s].rules[i]
BY DEF Rules, RuleAt

\* A state answers with the action of one of its rules, whose guard holds, or is dead.
LEMMA ChosenRule ==
  ASSUME NEW sp \in Specs, NEW s \in DOMAIN sp.states, NEW top, NEW b
  PROVE  \/ Selected(sp, s, top, b) = DeadAction
         \/ \E at \in Rules(sp) :
              /\ at[1] = s
              /\ Selected(sp, s, top, b) = RuleAt(sp, at).action
              /\ GuardMatches(RuleAt(sp, at).guard, top)
<1>1. PICK rules : rules = sp.states[s].rules
  OBVIOUS
<1>2. PICK hits : hits = {i \in DOMAIN rules : b \in BytesOf(rules[i].test) /\ GuardMatches(rules[i].guard, top)}
  OBVIOUS
<1>3. Selected(sp, s, top, b) = IF hits = {} THEN DeadAction ELSE rules[Min(hits)].action
  BY <1>1, <1>2, Zenon DEF Selected
<1>4. CASE hits = {}
  BY <1>3, <1>4
<1>5. CASE hits # {}
  <2>1. hits \subseteq Nat
    BY <1>1, <1>2, RuleNumbers
  <2>2. PICK i : i = Min(hits)
    OBVIOUS
  <2>3. i \in hits
    BY <1>5, <2>1, <2>2, MinOf
  <2>4. i \in DOMAIN rules /\ GuardMatches(rules[i].guard, top)
    BY <1>2, <2>3
  <2>5. <<s, i>> \in Rules(sp) /\ RuleAt(sp, <<s, i>>) = rules[i]
    BY <1>1, <2>4, RuleOfState
  <2>6. Selected(sp, s, top, b) = RuleAt(sp, <<s, i>>).action
    BY <1>3, <1>5, <2>2, <2>5
  <2>7. <<s, i>>[1] = s
    OBVIOUS
  <2> QED BY <2>4, <2>5, <2>6, <2>7
<1> QED BY <1>4, <1>5

\* What a chain of gotos is at each turn.
Solves(chain, sp, s, top, b, m) ==
  /\ chain = [n \in 0..m |-> chain[n]]
  /\ chain[0] = GotoAction(s)
  /\ \A n \in 0..m : n # 0 =>
       chain[n] = IF chain[n - 1].kind = "goto" THEN Selected(sp, chain[n - 1].state, top, b)
                  ELSE chain[n - 1]

\* A chain of any length exists.
LEMMA ChainExists ==
  ASSUME NEW sp, NEW s, NEW top, NEW b, NEW m \in Nat
  PROVE  \E chain : Solves(chain, sp, s, top, b, m)
<1>1. PICK T : T = {n \in Nat : ~\E chain : Solves(chain, sp, s, top, b, n)}
  OBVIOUS
<1>2. 0 \notin T
  <2>1. PICK chain : chain = [n \in 0..0 |-> GotoAction(s)]
    OBVIOUS
  <2>2. Solves(chain, sp, s, top, b, 0)
    BY <2>1 DEF Solves
  <2> QED BY <1>1, <2>2
<1>3. ASSUME NEW n \in Nat, n \notin T PROVE n + 1 \notin T
  <2>1. PICK chain : Solves(chain, sp, s, top, b, n)
    BY <1>1, <1>3
  <2>2. PICK last : last = IF chain[n].kind = "goto" THEN Selected(sp, chain[n].state, top, b) ELSE chain[n]
    OBVIOUS
  <2>3. PICK more : more = [k \in 0..(n + 1) |-> IF k = n + 1 THEN last ELSE chain[k]]
    OBVIOUS
  <2>4. more[n + 1] = last /\ \A k \in 0..n : more[k] = chain[k]
    BY <2>3
  <2>5. more[0] = GotoAction(s)
    BY <2>1, <2>4 DEF Solves
  <2>6. ASSUME NEW k \in 0..(n + 1), k # 0
        PROVE  more[k] = IF more[k - 1].kind = "goto" THEN Selected(sp, more[k - 1].state, top, b) ELSE more[k - 1]
    <3>1. CASE k = n + 1
      <4>1. more[k - 1] = chain[n]
        BY <2>4, <3>1
      <4> QED BY <2>2, <2>4, <3>1, <4>1
    <3>2. CASE k # n + 1
      <4>1. k \in 0..n /\ k - 1 \in 0..n
        BY <2>6, <3>2
      <4>2. more[k] = chain[k] /\ more[k - 1] = chain[k - 1]
        BY <2>4, <4>1
      <4> QED BY <2>1, <2>6, <4>1, <4>2 DEF Solves
    <3> QED BY <3>1, <3>2
  <2>7. more = [k \in 0..(n + 1) |-> more[k]]
    BY <2>3
  <2>8. Solves(more, sp, s, top, b, n + 1)
    BY <2>5, <2>6, <2>7 DEF Solves
  <2> QED BY <1>1, <2>8
<1>4. T = {}
  <2>1. T \subseteq Nat /\ \A n \in Nat : n + 1 \in T => n \in T
    BY <1>1, <1>3
  <2> QED BY <1>2, <2>1, NoCounterexample
<1> QED BY <1>1, <1>4

\* GotoChain is such a chain.
LEMMA ChainDefined ==
  ASSUME NEW sp, NEW s, NEW top, NEW b, Turns(sp) \in Nat
  PROVE  Solves(GotoChain(sp, s, top, b), sp, s, top, b, Turns(sp))
<1>1. PICK m \in Nat : m = Turns(sp)
  OBVIOUS
<1>2. PICK chain : Solves(chain, sp, s, top, b, m)
  BY ChainExists
<1>3. chain = [n \in 0..m |->
                 IF n = 0 THEN GotoAction(s)
                 ELSE IF chain[n - 1].kind = "goto" THEN Selected(sp, chain[n - 1].state, top, b)
                 ELSE chain[n - 1]]
  BY <1>2 DEF Solves
<1>4. PICK whole : whole = GotoChain(sp, s, top, b)
  OBVIOUS
<1>5. whole = CHOOSE c : c = [n \in 0..m |->
                 IF n = 0 THEN GotoAction(s)
                 ELSE IF c[n - 1].kind = "goto" THEN Selected(sp, c[n - 1].state, top, b)
                 ELSE c[n - 1]]
  BY <1>1, <1>4, Zenon DEF GotoChain
<1>6. whole = [n \in 0..m |->
                 IF n = 0 THEN GotoAction(s)
                 ELSE IF whole[n - 1].kind = "goto" THEN Selected(sp, whole[n - 1].state, top, b)
                 ELSE whole[n - 1]]
  BY <1>3, <1>5, Zenon
<1>7. Solves(whole, sp, s, top, b, m)
  <2>1. whole[0] = GotoAction(s)
    BY <1>6
  <2>2. whole = [n \in 0..m |-> whole[n]]
    BY <1>6
  <2>3. \A n \in 0..m : n # 0 =>
         whole[n] = IF whole[n - 1].kind = "goto" THEN Selected(sp, whole[n - 1].state, top, b)
                    ELSE whole[n - 1]
    BY <1>6
  <2> QED BY <2>1, <2>2, <2>3 DEF Solves
<1> QED BY <1>1, <1>4, <1>7

\* A spec has finitely many states, so a chain has a number of turns.
LEMMA TurnsAreFinite ==
  ASSUME NEW sp \in Specs
  PROVE  /\ IsFiniteSet(DOMAIN sp.states)
         /\ Cardinality(DOMAIN sp.states) \in Nat
         /\ Turns(sp) \in Nat /\ Turns(sp) = Cardinality(DOMAIN sp.states) + 1
<1>1. IsFiniteSet(DOMAIN sp.states)
  BY SpecsAssumption
<1>2. Cardinality(DOMAIN sp.states) \in Nat
  BY <1>1, FS_CardinalityType
<1> QED BY <1>1, <1>2 DEF Turns

\* What a closure holds: the nodes it starts from, and with a node all it leads to.
LEMMA ClosureLeads ==
  ASSUME NEW edges, NEW from
  PROVE  /\ from \subseteq Closure(edges, from)
         /\ \A x, y : <<x, y>> \in edges /\ x \in Closure(edges, from) => y \in Closure(edges, from)
<1>1. PICK nodes : nodes = from \cup {e[2] : e \in edges}
  OBVIOUS
<1>2. PICK closed : closed = {X \in SUBSET nodes : from \subseteq X /\ \A e \in edges : e[1] \in X => e[2] \in X}
  OBVIOUS
<1>3. Closure(edges, from) = {node \in nodes : \A X \in closed : node \in X}
  BY <1>1, <1>2, Zenon DEF Closure
<1>4. from \subseteq Closure(edges, from)
  BY <1>1, <1>2, <1>3
<1>5. ASSUME NEW x, NEW y, <<x, y>> \in edges, x \in Closure(edges, from)
      PROVE  y \in Closure(edges, from)
  <2>1. PICK e \in edges : e = <<x, y>>
    BY <1>5
  <2>2. e[1] = x /\ e[2] = y
    BY <2>1
  <2>3. y \in nodes
    BY <1>1, <2>1, <2>2
  <2>4. \A X \in closed : y \in X
    BY <1>2, <1>3, <1>5, <2>1, <2>2
  <2> QED BY <1>3, <2>3, <2>4
<1> QED BY <1>4, <1>5

\* In a spec whose gotos are acyclic a chain that starts at a state of it, and whose
\* gotos name states of it, does not run out of turns: no two turns can be at the same state.
LEMMA ChainEnds ==
  ASSUME NEW sp \in Specs, NEW s \in DOMAIN sp.states, NEW top, NEW b,
         \A at \in Rules(sp) : ~UnknownTarget(sp, RuleAt(sp, at).action),
         GotosAreAcyclic(sp)
  PROVE  Resolved(sp, s, top, b).kind # "goto"
<1> SUFFICES ASSUME Resolved(sp, s, top, b).kind = "goto" PROVE FALSE
  OBVIOUS
<1>1. PICK m \in Nat : m = Turns(sp) /\ m = Cardinality(DOMAIN sp.states) + 1
  BY TurnsAreFinite
<1>2. PICK chain : chain = GotoChain(sp, s, top, b)
  OBVIOUS
<1>3. chain[m].kind = "goto"
  BY <1>1, <1>2 DEF Resolved
<1>4. Solves(chain, sp, s, top, b, m)
  BY <1>1, <1>2, ChainDefined
<1>5. \A n \in 0..(m - 1) : chain[n + 1] =
        IF chain[n].kind = "goto" THEN Selected(sp, chain[n].state, top, b) ELSE chain[n]
  <2> SUFFICES ASSUME NEW n \in 0..(m - 1)
               PROVE  chain[n + 1] = IF chain[n].kind = "goto" THEN Selected(sp, chain[n].state, top, b) ELSE chain[n]
    OBVIOUS
  <2>1. n + 1 \in 0..m /\ n + 1 # 0 /\ (n + 1) - 1 = n
    OBVIOUS
  <2> QED BY <1>4, <2>1 DEF Solves
<1>6. \A n \in 0..m : chain[n].kind = "goto"
  <2>1. PICK S : S = {n \in Nat : n <= m /\ chain[m - n].kind = "goto"}
    OBVIOUS
  <2>2. 0 \in S
    BY <1>3, <2>1
  <2>3. ASSUME NEW n \in 0..(m - 1), n \in S PROVE n + 1 \in S
    <3>1. m - (n + 1) \in 0..(m - 1) /\ (m - (n + 1)) + 1 = m - n
      OBVIOUS
    <3>2. PICK k \in 0..(m - 1) : k = m - (n + 1) /\ k + 1 = m - n
      BY <3>1
    <3>3. chain[k + 1].kind = "goto"
      BY <2>1, <2>3, <3>2
    <3>4. chain[k].kind = "goto"
      BY <1>5, <3>3
    <3> QED BY <2>1, <3>2, <3>4
  <2>4. \A n \in 0..m : n \in S
    BY <2>2, <2>3, UpTo
  <2>5. ASSUME NEW n \in 0..m PROVE chain[n].kind = "goto"
    <3>1. m - n \in 0..m /\ m - (m - n) = n
      OBVIOUS
    <3> QED BY <2>1, <2>4, <3>1
  <2> QED BY <2>5
<1>7. ASSUME NEW n \in 0..(m - 1), chain[n].state \in DOMAIN sp.states
      PROVE  /\ <<chain[n].state, chain[n + 1].state>> \in GotoEdges(sp)
             /\ chain[n + 1].state \in DOMAIN sp.states
  <2>1. PICK q : q = chain[n].state
    OBVIOUS
  <2>2. chain[n].kind = "goto" /\ chain[n + 1].kind = "goto"
    BY <1>6
  <2>3. chain[n + 1] = Selected(sp, q, top, b)
    BY <1>5, <2>1, <2>2
  <2>4. Selected(sp, q, top, b) # DeadAction
    BY <2>2, <2>3 DEF DeadAction
  <2>5. q \in DOMAIN sp.states
    BY <1>7, <2>1
  <2>6. PICK at \in Rules(sp) : at[1] = q /\ Selected(sp, q, top, b) = RuleAt(sp, at).action
    BY <2>4, <2>5, ChosenRule
  <2>7. chain[n + 1] = RuleAt(sp, at).action
    BY <2>3, <2>6
  <2>8. <<at[1], RuleAt(sp, at).action.state>> \in GotoEdges(sp)
    BY <2>2, <2>7 DEF GotoEdges, Edges
  <2>9. chain[n + 1].state \in DOMAIN sp.states
    BY <2>2, <2>7 DEF UnknownTarget
  <2> QED BY <2>1, <2>6, <2>7, <2>8, <2>9
<1>8. \A n \in 0..m : chain[n].state \in DOMAIN sp.states
  <2>1. PICK S : S = {n \in Nat : chain[n].state \in DOMAIN sp.states}
    OBVIOUS
  <2>2. 0 \in S
    BY <1>4, <2>1 DEF Solves, GotoAction
  <2>3. ASSUME NEW n \in 0..(m - 1), n \in S PROVE n + 1 \in S
    <3>1. chain[n + 1].state \in DOMAIN sp.states
      BY <1>7, <2>1, <2>3
    <3> QED BY <2>1, <3>1
  <2>4. \A n \in 0..m : n \in S
    BY <2>2, <2>3, UpTo
  <2> QED BY <2>1, <2>4
<1>9. PICK i \in 0..m, j \in 0..m : i < j /\ chain[i].state = chain[j].state
  <2>1. PICK at : at = [n \in 0..m |-> chain[n].state]
    OBVIOUS
  <2>2. at \in [0..m -> DOMAIN sp.states]
    BY <1>8, <2>1
  <2>3. IsFiniteSet(0..m) /\ Cardinality(0..m) = m + 1
    BY FS_Interval
  <2>4. Cardinality(DOMAIN sp.states) < Cardinality(0..m) /\ IsFiniteSet(DOMAIN sp.states)
    BY <1>1, <2>3, TurnsAreFinite
  <2>5. \E x, y \in 0..m : x # y /\ at[x] = at[y]
    BY <2>2, <2>3, <2>4, FS_PigeonHole
  <2>6. PICK x \in 0..m, y \in 0..m : x # y /\ chain[x].state = chain[y].state
    BY <2>1, <2>5
  <2>7. x < y \/ y < x
    BY <2>6
  <2> QED BY <2>6, <2>7
<1>10. PICK reach : reach = After(GotoEdges(sp), chain[i].state)
  OBVIOUS
<1>11. PICK from : from = {e[2] : e \in {d \in GotoEdges(sp) : d[1] = chain[i].state}}
  OBVIOUS
<1>12. reach = Closure(GotoEdges(sp), from)
  BY <1>10, <1>11 DEF After
<1>13. i \in 0..(m - 1) /\ <<chain[i].state, chain[i + 1].state>> \in GotoEdges(sp)
  BY <1>7, <1>8, <1>9
<1>14. chain[i + 1].state \in reach
  <2>1. PICK e \in GotoEdges(sp) : e = <<chain[i].state, chain[i + 1].state>>
    BY <1>13
  <2>2. e[1] = chain[i].state /\ e[2] = chain[i + 1].state
    BY <2>1
  <2>3. chain[i + 1].state \in from
    BY <1>11, <2>1, <2>2
  <2> QED BY <1>12, <2>3, ClosureLeads
<1>15. PICK d \in Nat : d = j - (i + 1)
  BY <1>9
<1>16. chain[j].state \in reach
  <2>1. PICK S : S = {n \in Nat : chain[(i + 1) + n].state \in reach}
    OBVIOUS
  <2>2. 0 \in S
    <3>1. (i + 1) + 0 = i + 1
      OBVIOUS
    <3> QED BY <1>14, <2>1, <3>1
  <2>3. ASSUME NEW n \in 0..(d - 1), n \in S PROVE n + 1 \in S
    <3>1. (i + 1) + n \in 0..(m - 1) /\ ((i + 1) + n) + 1 = (i + 1) + (n + 1)
      BY <1>9, <1>15
    <3>2. PICK k \in 0..(m - 1) : k = (i + 1) + n /\ k + 1 = (i + 1) + (n + 1)
      BY <3>1
    <3>3. chain[k].state \in reach
      BY <2>1, <2>3, <3>2
    <3>4. k \in 0..m
      OBVIOUS
    <3>5. <<chain[k].state, chain[k + 1].state>> \in GotoEdges(sp)
      BY <1>7, <1>8, <3>4
    <3>6. chain[k + 1].state \in reach
      BY <1>12, <3>3, <3>5, ClosureLeads
    <3> QED BY <2>1, <3>2, <3>6
  <2>4. \A n \in 0..d : n \in S
    BY <2>2, <2>3, UpTo
  <2>5. d \in 0..d /\ (i + 1) + d = j
    BY <1>9, <1>15
  <2>6. d \in S
    BY <2>4, <2>5
  <2> QED BY <2>1, <2>5, <2>6
<1>17. chain[i].state \in reach
  BY <1>9, <1>16
<1>18. PICK e \in GotoEdges(sp) : e[1] = chain[i].state
  <2>1. PICK e \in GotoEdges(sp) : e = <<chain[i].state, chain[i + 1].state>>
    BY <1>13
  <2> QED BY <2>1
<1> QED BY <1>10, <1>17, <1>18 DEF GotosAreAcyclic

\* What resolving a chain can answer: the goto it starts with, nothing, or the action
\* of a rule of a state it leads through.  Its guard holds, and the state it
\* moves to can be reached by the moves of the spec.
Answer(sp, s, top, action) ==
  \/ action = DeadAction
  \/ action = GotoAction(s)
  \/ \E at \in Rules(sp) :
       action = RuleAt(sp, at).action /\ GuardMatches(RuleAt(sp, at).guard, top)

\* Every turn of a chain is at an answer, and each goto it follows is a move.
LEMMA ChainAnswers ==
  ASSUME NEW sp \in Specs, NEW s \in DOMAIN sp.states, NEW top, NEW b, NEW R,
         \A at \in Rules(sp) : ~UnknownTarget(sp, RuleAt(sp, at).action),
         s \in R, \A x, y : <<x, y>> \in MoveEdges(sp) /\ x \in R => y \in R
  PROVE  /\ Answer(sp, s, top, Resolved(sp, s, top, b))
         /\ Resolved(sp, s, top, b).kind # "dead" =>
              /\ Resolved(sp, s, top, b).state \in DOMAIN sp.states
              /\ Resolved(sp, s, top, b).state \in R
<1>1. PICK m \in Nat : m = Turns(sp)
  BY TurnsAreFinite
<1>2. PICK chain : chain = GotoChain(sp, s, top, b)
  OBVIOUS
<1>4. Solves(chain, sp, s, top, b, m)
  BY <1>1, <1>2, ChainDefined
<1>5. \A n \in 0..(m - 1) : chain[n + 1] =
        IF chain[n].kind = "goto" THEN Selected(sp, chain[n].state, top, b) ELSE chain[n]
  <2> SUFFICES ASSUME NEW n \in 0..(m - 1)
               PROVE  chain[n + 1] = IF chain[n].kind = "goto" THEN Selected(sp, chain[n].state, top, b) ELSE chain[n]
    OBVIOUS
  <2>1. n + 1 \in 0..m /\ n + 1 # 0 /\ (n + 1) - 1 = n
    OBVIOUS
  <2> QED BY <1>4, <2>1 DEF Solves
<1> DEFINE Good(action) ==
             /\ Answer(sp, s, top, action)
             /\ action.kind # "dead" => action.state \in DOMAIN sp.states /\ action.state \in R
<1>6. Good(chain[0])
  BY <1>4 DEF Solves, Answer, GotoAction, DeadAction
<1>7. ASSUME NEW n \in 0..(m - 1), Good(chain[n]) PROVE Good(chain[n + 1])
  <2>1. CASE chain[n].kind # "goto"
    BY <1>5, <1>7, <2>1
  <2>2. CASE chain[n].kind = "goto"
    <3>1. PICK q, action : q = chain[n].state /\ action = chain[n + 1]
      OBVIOUS
    <3>2. chain[n].kind # "dead"
      BY <2>2
    <3>3. q \in DOMAIN sp.states /\ q \in R
      BY <1>7, <3>1, <3>2
    <3>4. action = Selected(sp, q, top, b)
      BY <1>5, <2>2, <3>1
    <3>5. CASE action = DeadAction
      BY <3>1, <3>5 DEF Answer, DeadAction
    <3>6. CASE action # DeadAction
      <4>1. PICK at \in Rules(sp) :
              at[1] = q /\ action = RuleAt(sp, at).action /\ GuardMatches(RuleAt(sp, at).guard, top)
        BY <3>3, <3>4, <3>6, ChosenRule
      <4>2. action.kind \in {"next", "push", "pop", "goto", "dead"}
        BY <4>1, SpecsAssumption
      <4>3. CASE action.kind # "dead"
        <5>1. <<q, action.state>> \in MoveEdges(sp)
          BY <4>1, <4>2, <4>3 DEF MoveEdges, Edges
        <5>2. action.state \in R
          BY <3>3, <5>1
        <5>3. action.state \in DOMAIN sp.states
          BY <4>1, <4>3 DEF UnknownTarget
        <5> QED BY <3>1, <4>1, <5>2, <5>3 DEF Answer
      <4>4. CASE action.kind = "dead"
        BY <3>1, <4>1, <4>4 DEF Answer
      <4> QED BY <4>3, <4>4
    <3> QED BY <3>5, <3>6
  <2> QED BY <2>1, <2>2
<1>8. \A n \in 0..m : Good(chain[n])
  <2>1. PICK S : S = {n \in Nat : Good(chain[n])}
    OBVIOUS
  <2>2. 0 \in S
    BY <1>6, <2>1
  <2>3. ASSUME NEW n \in 0..(m - 1), n \in S PROVE n + 1 \in S
    BY <1>7, <2>1, <2>3
  <2> HIDE DEF Good
  <2>4. \A n \in 0..m : n \in S
    BY <2>2, <2>3, UpTo
  <2> QED BY <2>1, <2>4
<1>9. Good(chain[m])
  BY <1>8
<1> QED BY <1>1, <1>2, <1>9 DEF Resolved

\* The errors a part of a spec can be refused for.
LEMMA ErrorsOf ==
  ASSUME NEW sp
  PROVE  /\ \A rule : NameError(sp, rule) \in {NoError, "UnknownFrame", "UnguardedPop", "UnknownTargetState"}
         /\ \A at : ShadowError(sp, at) \in {NoError, "AmbiguousTransition", "UnreachableRule"}
         /\ \A at : ShadowError(sp, at) # NoError => Shadowing(sp, at) # {}
         /\ HeaderError(sp) \in {NoError, "TooManyFrames", "DuplicateFrame", "TooManyStates",
                                 "UnknownStartState", "TooManyTotalRules"}
         /\ GraphError(sp) \in {NoError, "CyclicGoto", "NoReachableAccept"}
<1>1. \A rule : NameError(sp, rule) \in {NoError, "UnknownFrame", "UnguardedPop", "UnknownTargetState"}
  BY DEF NameError
<1>2. \A at : ShadowError(sp, at) \in {NoError, "AmbiguousTransition", "UnreachableRule"}
  BY DEF ShadowError
<1>3. \A at : ShadowError(sp, at) # NoError => Shadowing(sp, at) # {}
  BY DEF ShadowError
<1>4. HeaderError(sp) \in {NoError, "TooManyFrames", "DuplicateFrame", "TooManyStates",
                           "UnknownStartState", "TooManyTotalRules"}
  BY DEF HeaderError
<1>5. GraphError(sp) \in {NoError, "CyclicGoto", "NoReachableAccept"}
  BY DEF GraphError
<1> QED BY <1>1, <1>2, <1>3, <1>4, <1>5

\* A state with an error has too many rules, or a rule with that error.
LEMMA StateErrorIsOfARule ==
  ASSUME NEW sp \in Specs, NEW s \in DOMAIN sp.states
  PROVE  /\ StateError(sp, s) # NoError =>
              \/ StateError(sp, s) = "TooManyRules"
              \/ \E at \in Rules(sp) : RuleError(sp, at) = StateError(sp, s) /\ RuleError(sp, at) # NoError
         /\ StateError(sp, s) = NoError =>
              \A i \in DOMAIN sp.states[s].rules : RuleError(sp, <<s, i>>) = NoError
<1>1. PICK bad : bad = {i \in DOMAIN sp.states[s].rules : RuleError(sp, <<s, i>>) # NoError}
  OBVIOUS
<1>2. StateError(sp, s) =
        IF Len(sp.states[s].rules) > MaxRulesPerState THEN "TooManyRules"
        ELSE IF bad = {} THEN NoError ELSE RuleError(sp, <<s, Min(bad)>>)
  BY <1>1, Zenon DEF StateError
<1>3. bad \subseteq Nat
  BY <1>1, RuleNumbers
<1>4. ASSUME bad # {} PROVE \E i \in bad : i = Min(bad)
  BY <1>3, <1>4, MinOf
<1>5. ASSUME NEW i \in bad
      PROVE  <<s, i>> \in Rules(sp) /\ RuleError(sp, <<s, i>>) # NoError
  BY <1>1, <1>5, RuleOfState
<1>6. StateError(sp, s) # NoError =>
        \/ StateError(sp, s) = "TooManyRules"
        \/ \E at \in Rules(sp) : RuleError(sp, at) = StateError(sp, s) /\ RuleError(sp, at) # NoError
  BY <1>2, <1>4, <1>5
<1>7. StateError(sp, s) = NoError => bad = {}
  <2>1. "TooManyRules" # NoError
    BY DEF NoError
  <2> QED BY <1>2, <1>4, <1>5, <2>1
<1> QED BY <1>1, <1>6, <1>7

\* What it means that compile refuses nothing.
LEMMA CompiledMeans ==
  ASSUME NEW sp \in Specs, NEW answer \in CompileOutcomes(sp), answer \notin SpecErrors
  PROVE  /\ sp.start \in DOMAIN sp.states
         /\ \A at \in Rules(sp) : NameError(sp, RuleAt(sp, at)) = NoError
         /\ GotosAreAcyclic(sp)
<1>1. PICK broken : broken = {StateError(sp, s) : s \in DOMAIN sp.states} \ {NoError}
  OBVIOUS
<1>2. CompileOutcomes(sp) =
        IF HeaderError(sp) # NoError THEN {HeaderError(sp)}
        ELSE IF broken # {} THEN broken ELSE {GraphError(sp)}
  BY <1>1, Zenon DEF CompileOutcomes
<1>3. HeaderError(sp) = NoError
  BY <1>2, ErrorsOf DEF SpecErrors
<1>4. broken \subseteq SpecErrors
  <2> SUFFICES ASSUME NEW s \in DOMAIN sp.states, StateError(sp, s) # NoError
               PROVE  StateError(sp, s) \in SpecErrors
    BY <1>1
  <2>1. CASE StateError(sp, s) = "TooManyRules"
    BY <2>1 DEF SpecErrors
  <2>2. CASE \E at \in Rules(sp) : RuleError(sp, at) = StateError(sp, s) /\ RuleError(sp, at) # NoError
    BY <2>2, ErrorsOf DEF RuleError, SpecErrors
  <2> QED BY <2>1, <2>2, StateErrorIsOfARule
<1>5. broken = {} /\ GraphError(sp) = NoError
  BY <1>2, <1>3, <1>4, ErrorsOf DEF SpecErrors
<1>6. \A s \in DOMAIN sp.states : StateError(sp, s) = NoError
  BY <1>1, <1>5
<1>7. ASSUME NEW at \in Rules(sp) PROVE NameError(sp, RuleAt(sp, at)) = NoError
  <2>1. PICK s \in DOMAIN sp.states : \E i \in DOMAIN sp.states[s].rules : at = <<s, i>>
    BY <1>7 DEF Rules
  <2>2. RuleError(sp, at) = NoError
    BY <1>6, <2>1, StateErrorIsOfARule
  <2> QED BY <2>2 DEF RuleError
<1>8. sp.start \in DOMAIN sp.states
  BY <1>3 DEF HeaderError, NoError
<1>9. GotosAreAcyclic(sp)
  BY <1>5 DEF GraphError, NoError
<1> QED BY <1>7, <1>8, <1>9

\* A spec that compiles names only what it declares.
LEMMA CompiledIsDrivable ==
  ASSUME NEW sp \in Specs, NEW answer \in CompileOutcomes(sp), answer \notin SpecErrors
  PROVE  Drivable(sp)
<1>1. ASSUME NEW at \in Rules(sp)
      PROVE  /\ ~UnknownTarget(sp, RuleAt(sp, at).action)
             /\ ~UnknownFrame(sp, RuleAt(sp, at).action.frame)
             /\ ~UnknownFrame(sp, RuleAt(sp, at).guard.frame)
  <2>1. NameError(sp, RuleAt(sp, at)) = NoError
    BY CompiledMeans
  <2> QED BY <2>1 DEF NameError, NoError
<1> QED BY <1>1, CompiledMeans DEF Drivable

\* A spec refused for a shadowed rule has one.
LEMMA ShadowRefusal ==
  ASSUME NEW sp \in Specs, NEW answer \in CompileOutcomes(sp),
         answer \in {"AmbiguousTransition", "UnreachableRule"}
  PROVE  \E at \in Rules(sp) : Shadowing(sp, at) # {}
<1>1. PICK broken : broken = {StateError(sp, s) : s \in DOMAIN sp.states} \ {NoError}
  OBVIOUS
<1>2. CompileOutcomes(sp) =
        IF HeaderError(sp) # NoError THEN {HeaderError(sp)}
        ELSE IF broken # {} THEN broken ELSE {GraphError(sp)}
  BY <1>1, Zenon DEF CompileOutcomes
<1>3. answer \in broken
  BY <1>2, ErrorsOf DEF NoError
<1>4. PICK s \in DOMAIN sp.states : StateError(sp, s) = answer /\ StateError(sp, s) # NoError
  BY <1>1, <1>3
<1>5. PICK at \in Rules(sp) : RuleError(sp, at) = answer
  BY <1>4, StateErrorIsOfARule
<1>6. ShadowError(sp, at) = answer
  BY <1>5, ErrorsOf DEF RuleError, NoError
<1> QED BY <1>6, ErrorsOf DEF NoError

\* A spec refused for want of an accepting state has none in reach.
LEMMA NoAcceptRefusal ==
  ASSUME NEW sp \in Specs, NEW answer \in CompileOutcomes(sp), answer = "NoReachableAccept"
  PROVE  ~AcceptIsReachable(sp)
<1>1. PICK broken : broken = {StateError(sp, s) : s \in DOMAIN sp.states} \ {NoError}
  OBVIOUS
<1>2. CompileOutcomes(sp) =
        IF HeaderError(sp) # NoError THEN {HeaderError(sp)}
        ELSE IF broken # {} THEN broken ELSE {GraphError(sp)}
  BY <1>1, Zenon DEF CompileOutcomes
<1>3. answer \notin broken
  <2> SUFFICES ASSUME NEW s \in DOMAIN sp.states, StateError(sp, s) # NoError
               PROVE  StateError(sp, s) # answer
    BY <1>1
  <2>1. CASE StateError(sp, s) = "TooManyRules"
    BY <2>1
  <2>2. CASE \E at \in Rules(sp) : RuleError(sp, at) = StateError(sp, s) /\ RuleError(sp, at) # NoError
    BY <2>2, ErrorsOf DEF RuleError
  <2> QED BY <2>1, <2>2, StateErrorIsOfARule
<1>4. GraphError(sp) = "NoReachableAccept"
  BY <1>2, <1>3, ErrorsOf DEF NoError
<1> QED BY <1>4 DEF GraphError, NoError

\* A sequence with one element taken out.
LEMMA TakenOut ==
  ASSUME NEW S, NEW seq \in Seq(S), NEW j \in 1..Len(seq)
  PROVE  /\ RemoveAt(seq, j) \in Seq(S)
         /\ Len(RemoveAt(seq, j)) = Len(seq) - 1
         /\ \A k \in 1..(Len(seq) - 1) : RemoveAt(seq, j)[k] = IF k < j THEN seq[k] ELSE seq[k + 1]
<1>1. PICK front, back : front = SubSeq(seq, 1, j - 1) /\ back = SubSeq(seq, j + 1, Len(seq))
  OBVIOUS
<1>2. front \in Seq(S) /\ Len(front) = j - 1 /\ \A k \in 1..(j - 1) : front[k] = seq[k]
  BY <1>1
<1>3. back \in Seq(S) /\ Len(back) = Len(seq) - j /\ \A k \in 1..(Len(seq) - j) : back[k] = seq[j + k]
  BY <1>1
<1>4. RemoveAt(seq, j) = front \o back
  BY <1>1 DEF RemoveAt
<1>5. front \o back \in Seq(S) /\ Len(front \o back) = Len(seq) - 1
  BY <1>2, <1>3
<1>6. ASSUME NEW k \in 1..(Len(seq) - 1)
      PROVE  (front \o back)[k] = IF k < j THEN seq[k] ELSE seq[k + 1]
  <2>1. CASE k < j
    BY <1>2, <1>3, <2>1
  <2>2. CASE ~(k < j)
    <3>1. k - (j - 1) \in 1..(Len(seq) - j) /\ j + (k - (j - 1)) = k + 1 /\ ~(k <= j - 1)
      BY <2>2
    <3>2. (front \o back)[k] = back[k - (j - 1)]
      BY <1>2, <1>3, <3>1
    <3> QED BY <1>3, <2>2, <3>1, <3>2
  <2> QED BY <2>1, <2>2
<1> QED BY <1>4, <1>5, <1>6

\* The spec without a rule has the others of that state in their order.
LEMMA RulesWithout ==
  ASSUME NEW sp \in Specs, NEW s \in DOMAIN sp.states, NEW j
  PROVE  WithoutRule(sp, <<s, j>>).states[s].rules = RemoveAt(sp.states[s].rules, j)
<1>1. PICK st, states : st = sp.states[s] /\ states = sp.states
  OBVIOUS
<1>2. st = [accepting |-> st.accepting, rules |-> st.rules]
  BY <1>1, SpecsAssumption
<1>3. states = [x \in DOMAIN states |-> states[x]] /\ s \in DOMAIN states
  BY <1>1, SpecsAssumption
<1>4. sp = [start |-> sp.start, frames |-> sp.frames, states |-> states]
  BY <1>1, SpecsAssumption
<1>5. PICK fewer : fewer = RemoveAt(st.rules, j)
  OBVIOUS
<1>6. PICK short : short = [st EXCEPT !.rules = fewer]
  OBVIOUS
<1>7. short.rules = fewer
  BY <1>2, <1>6
<1>8. PICK all : all = [states EXCEPT ![s] = short]
  OBVIOUS
<1>9. all[s] = short
  BY <1>3, <1>8
<1>10. PICK out : out = [sp EXCEPT !.states = all]
  OBVIOUS
<1>11. out.states = all
  BY <1>4, <1>10
<1>12. WithoutRule(sp, <<s, j>>) = out
  BY <1>1, <1>5, <1>6, <1>8, <1>10 DEF WithoutRule
<1> QED BY <1>1, <1>5, <1>7, <1>9, <1>11, <1>12

\* A rule that an earlier one shadows is never the first that matches.
LEMMA ShadowedNeverChosen ==
  ASSUME NEW sp \in Specs, NEW at \in Rules(sp), Shadowing(sp, at) # {}, NEW top, NEW b
  PROVE  Selected(sp, at[1], top, b) = Selected(WithoutRule(sp, at), at[1], top, b)
<1>1. PICK s \in DOMAIN sp.states : \E i \in DOMAIN sp.states[s].rules : at = <<s, i>>
  BY DEF Rules
<1>2. PICK j \in DOMAIN sp.states[s].rules : at = <<s, j>>
  BY <1>1
<1>3. PICK rules, L :
        /\ rules = sp.states[s].rules /\ L = Len(rules) /\ L \in Nat
        /\ DOMAIN rules = 1..L /\ rules \in Seq(Range(rules))
  <2>1. PICK rules : rules = sp.states[s].rules
    OBVIOUS
  <2>2. Len(rules) \in Nat /\ DOMAIN rules = 1..Len(rules) /\ rules \in Seq(Range(rules))
    BY <2>1, RuleNumbers
  <2> QED BY <2>1, <2>2
<1>4. j \in 1..L
  BY <1>2, <1>3
<1>5. PICK removed : removed = RemoveAt(rules, j)
  OBVIOUS
<1>6. /\ Len(removed) = L - 1 /\ DOMAIN removed = 1..(L - 1)
      /\ \A k \in 1..(L - 1) : removed[k] = IF k < j THEN rules[k] ELSE rules[k + 1]
  <2>1. removed \in Seq(Range(rules)) /\ Len(removed) = L - 1
    BY <1>3, <1>4, <1>5, TakenOut
  <2>2. \A k \in 1..(L - 1) : removed[k] = IF k < j THEN rules[k] ELSE rules[k + 1]
    BY <1>3, <1>4, <1>5, TakenOut
  <2> QED BY <2>1, <2>2
<1> DEFINE Hit(rule) == b \in BytesOf(rule.test) /\ GuardMatches(rule.guard, top)
<1>7. PICK hits, left : hits = {i \in DOMAIN rules : Hit(rules[i])} /\ left = {k \in DOMAIN removed : Hit(removed[k])}
  OBVIOUS
<1>8. Selected(sp, s, top, b) = IF hits = {} THEN DeadAction ELSE rules[Min(hits)].action
  BY <1>3, <1>7, Zenon DEF Selected
<1>9. Selected(WithoutRule(sp, at), s, top, b) = IF left = {} THEN DeadAction ELSE removed[Min(left)].action
  <2>1. WithoutRule(sp, at).states[s].rules = removed
    BY <1>2, <1>3, <1>5, RulesWithout
  <2> QED BY <1>7, <2>1, Zenon DEF Selected
<1>10. ASSUME j \in hits PROVE \E i \in hits : i < j
  <2>1. at[1] = s /\ at[2] = j /\ RuleAt(sp, at) = rules[j]
    BY <1>2, <1>3 DEF RuleAt
  <2>2. PICK i \in 1..(j - 1) :
          rules[i].guard = rules[j].guard /\ BytesOf(rules[j].test) \subseteq BytesOf(rules[i].test)
    BY <1>3, <2>1 DEF Shadowing
  <2>3. Hit(rules[i])
    BY <1>7, <1>10, <2>2
  <2>4. i \in DOMAIN rules /\ i < j
    BY <1>3, <1>4, <2>2
  <2> QED BY <1>7, <2>3, <2>4
<1>11. hits \subseteq 1..L /\ left \subseteq 1..(L - 1)
  BY <1>3, <1>6, <1>7
<1>12. \A k \in 1..(L - 1) : k \in left <=> IF k < j THEN k \in hits ELSE k + 1 \in hits
  <2> SUFFICES ASSUME NEW k \in 1..(L - 1)
               PROVE  k \in left <=> IF k < j THEN k \in hits ELSE k + 1 \in hits
    OBVIOUS
  <2>1. k \in DOMAIN removed /\ k \in DOMAIN rules /\ k + 1 \in DOMAIN rules
    BY <1>3, <1>6
  <2>2. k \in left <=> Hit(removed[k])
    BY <1>7, <2>1
  <2>3. CASE k < j
    <3>1. removed[k] = rules[k]
      BY <1>6, <2>3
    <3> QED BY <1>7, <2>1, <2>2, <2>3, <3>1
  <2>4. CASE ~(k < j)
    <3>1. removed[k] = rules[k + 1]
      BY <1>6, <2>4
    <3>2. k + 1 \in hits <=> Hit(rules[k + 1])
      BY <1>7, <2>1
    <3> QED BY <2>2, <2>4, <3>1, <3>2
  <2> QED BY <2>3, <2>4
<1> HIDE DEF Hit
<1>13. CASE hits = {}
  <2>1. left = {}
    BY <1>11, <1>12, <1>13
  <2> QED BY <1>2, <1>8, <1>9, <1>13, <2>1
<1>14. CASE hits # {}
  <2>1. PICK m : m = Min(hits)
    OBVIOUS
  <2>2. m \in hits /\ \A y \in hits : m <= y
    <3>1. hits \subseteq Nat
      BY <1>11
    <3> QED BY <1>14, <2>1, <3>1, MinOf
  <2>3. m \in 1..L /\ m # j
    BY <1>4, <1>10, <1>11, <2>2
  <2>4. PICK n \in 1..(L - 1) : n = IF m < j THEN m ELSE m - 1
    <3>1. CASE m < j
      BY <1>3, <1>4, <2>3, <3>1
    <3>2. CASE ~(m < j)
      <4>1. m - 1 \in 1..(L - 1)
        BY <1>3, <1>4, <2>3, <3>2
      <4> QED BY <3>2, <4>1
    <3> QED BY <3>1, <3>2
  <2>5. n \in left
    BY <1>4, <1>12, <2>2, <2>3, <2>4
  <2>6. \A k \in left : n <= k
    <3> SUFFICES ASSUME NEW k \in left PROVE n <= k
      OBVIOUS
    <3>1. k \in 1..(L - 1)
      BY <1>11
    <3>2. IF k < j THEN k \in hits ELSE k + 1 \in hits
      BY <1>12, <3>1
    <3>3. IF k < j THEN m <= k ELSE m <= k + 1
      BY <2>2, <3>2
    <3> QED BY <1>4, <2>3, <2>4, <3>1, <3>3
  <2>7. Min(left) = n
    <3>1. left \subseteq Nat /\ left # {}
      BY <1>11, <2>5
    <3>2. PICK k : k = Min(left)
      OBVIOUS
    <3>3. k \in left /\ \A y \in left : k <= y
      BY <3>1, <3>2, MinOf
    <3>4. k <= n /\ n <= k /\ k \in Nat
      BY <2>5, <2>6, <3>1, <3>3
    <3> QED BY <3>2, <3>4
  <2>8. removed[n] = rules[m]
    BY <1>4, <1>6, <2>3, <2>4
  <2>9. left # {}
    BY <2>5
  <2> QED BY <1>2, <1>8, <1>9, <1>14, <2>1, <2>7, <2>8, <2>9
<1> QED BY <1>13, <1>14

-----------------------------------------------------------------------------
(* A supplied grammar: the automaton in motion *)

\* Where the automaton of a spec can be: in reach of the start by the moves of the
\* spec, whatever their guards, and at a state of it if its names resolve.
SpecInv ==
  /\ spec \in Specs
  /\ refusal \in CompileOutcomes(spec)
  /\ rtnState \in Closure(MoveEdges(spec), {spec.start})
  /\ Drivable(spec) => rtnState \in DOMAIN spec.states

\* A byte that is taken moves along an edge of the spec.
LEMMA FeedStaysInReach ==
  ASSUME SpecInv, NEW b \in SpecBytes, SpecFeed(b)
  PROVE  SpecInv'
<1>1. PICK sp, s, top : sp = spec /\ s = rtnState /\ top = RtnTop
  OBVIOUS
<1>2. PICK R : R = Closure(MoveEdges(sp), {sp.start})
  OBVIOUS
<1>3. PICK action : action = Resolved(sp, s, top, b)
  OBVIOUS
<1>4. /\ Drivable(sp) /\ sp \in Specs /\ s \in DOMAIN sp.states /\ s \in R
      /\ SpecStep(sp, s, top, b).do # "Dead" /\ rtnState' = SpecStep(sp, s, top, b).to
      /\ spec' = sp /\ refusal' = refusal
  BY <1>1, <1>2 DEF SpecInv, SpecFeed
<1>5. action.kind # "dead" /\ SpecStep(sp, s, top, b).to = action.state
  BY <1>3, <1>4 DEF SpecStep
<1>6. \A x, y : <<x, y>> \in MoveEdges(sp) /\ x \in R => y \in R
  BY <1>2, ClosureLeads
<1>7. \A at \in Rules(sp) : ~UnknownTarget(sp, RuleAt(sp, at).action)
  BY <1>4 DEF Drivable
<1>8. action.state \in DOMAIN sp.states /\ action.state \in R
  BY <1>3, <1>4, <1>5, <1>6, <1>7, ChainAnswers
<1>9. rtnState' \in R /\ rtnState' \in DOMAIN sp.states
  BY <1>4, <1>5, <1>8
<1>10. refusal' \in CompileOutcomes(sp)
  BY <1>1, <1>4 DEF SpecInv
<1> QED BY <1>2, <1>4, <1>9, <1>10 DEF SpecInv

\* What a compiled spec promises, and what a refused one would have done.
LEMMA JustInReach ==
  ASSUME SpecInv PROVE CompileIsJust
<1>1. ASSUME refusal \notin SpecErrors, NEW b \in SpecBytes
      PROVE  /\ Resolved(spec, rtnState, RtnTop, b).kind # "goto"
             /\ Resolved(spec, rtnState, RtnTop, b).kind = "pop" => rtnStack # <<>>
  <2>1. PICK sp, s, top : sp = spec /\ s = rtnState /\ top = RtnTop
    OBVIOUS
  <2>2. PICK action : action = Resolved(sp, s, top, b)
    OBVIOUS
  <2>3. sp \in Specs /\ refusal \in CompileOutcomes(sp)
    BY <2>1 DEF SpecInv
  <2>4. Drivable(sp) /\ GotosAreAcyclic(sp)
    BY <1>1, <2>3, CompiledMeans, CompiledIsDrivable
  <2>5. s \in DOMAIN sp.states
    BY <2>1, <2>4 DEF SpecInv
  <2>6. \A at \in Rules(sp) : ~UnknownTarget(sp, RuleAt(sp, at).action)
    BY <2>4 DEF Drivable
  <2>7. action.kind # "goto"
    BY <2>2, <2>3, <2>4, <2>5, <2>6, ChainEnds
  <2>8. ASSUME action.kind = "pop" PROVE rtnStack # <<>>
    <3>1. PICK R : R = Closure(MoveEdges(sp), {s})
      OBVIOUS
    <3>2. s \in R /\ \A x, y : <<x, y>> \in MoveEdges(sp) /\ x \in R => y \in R
      BY <3>1, ClosureLeads
    <3>3. Answer(sp, s, top, action)
      BY <2>2, <2>3, <2>5, <2>6, <3>2, ChainAnswers
    <3>4. PICK at \in Rules(sp) :
            action = RuleAt(sp, at).action /\ GuardMatches(RuleAt(sp, at).guard, top)
      BY <2>8, <3>3 DEF Answer, DeadAction, GotoAction
    <3>5. PICK guard : guard = RuleAt(sp, at).guard
      OBVIOUS
    <3>6. guard.kind \in {"stack_top_is", "stack_non_empty"}
      <4>1. NameError(sp, RuleAt(sp, at)) = NoError
        BY <1>1, <2>3, CompiledMeans
      <4> QED BY <2>8, <3>4, <3>5, <4>1 DEF NameError, NoError
    <3>7. guard.kind = "stack_top_is" => guard.frame # NoFrame
      BY <2>3, <3>5, SpecsAssumption
    <3>8. top # NoFrame
      BY <3>4, <3>5, <3>6, <3>7 DEF GuardMatches
    <3> QED BY <2>1, <3>8 DEF RtnTop
  <2> QED BY <2>1, <2>2, <2>7, <2>8
<1>2. ASSUME refusal = "NoReachableAccept" PROVE ~Completes
  <2>1. ~AcceptIsReachable(spec)
    BY <1>2, NoAcceptRefusal DEF SpecInv
  <2> QED BY <2>1 DEF SpecInv, AcceptIsReachable, Completes
<1>3. ASSUME refusal \in {"AmbiguousTransition", "UnreachableRule"}
      PROVE  \E at \in Rules(spec) : Shadowing(spec, at) # {} /\
               \A b \in SpecBytes :
                 Selected(spec, at[1], RtnTop, b) = Selected(WithoutRule(spec, at), at[1], RtnTop, b)
  <2>1. spec \in Specs /\ refusal \in CompileOutcomes(spec)
    BY DEF SpecInv
  <2>2. PICK at \in Rules(spec) : Shadowing(spec, at) # {}
    BY <1>3, <2>1, ShadowRefusal
  <2>3. \A b \in SpecBytes :
          Selected(spec, at[1], RtnTop, b) = Selected(WithoutRule(spec, at), at[1], RtnTop, b)
    BY <2>1, <2>2, ShadowedNeverChosen
  <2> QED BY <2>2, <2>3
<1> QED BY <1>1, <1>2, <1>3 DEF CompileIsJust

\* For every supplied grammar and stacks of every depth: no byte runs a compiled
\* automaton out of goto turns or pops an empty stack, a spec refused for want of an
\* accepting state never completes, and a spec refused for a shadowed rule behaves as
\* if the rule were not there (CompiledAutomaton::compile and step).
THEOREM CompiledSpecsAreJust == SpecBehaviour => []CompileIsJust
<1>1. SpecInit => SpecInv
  <2> SUFFICES ASSUME SpecInit PROVE SpecInv
    OBVIOUS
  <2>1. rtnState \in {spec.start} /\ {spec.start} \subseteq Closure(MoveEdges(spec), {spec.start})
    BY ClosureLeads DEF SpecInit
  <2>2. Drivable(spec) => rtnState \in DOMAIN spec.states
    BY DEF SpecInit, Drivable
  <2> QED BY <2>1, <2>2 DEF SpecInit, SpecInv
<1>2. SpecInv /\ [SpecNext]_specVars => SpecInv'
  <2> SUFFICES ASSUME SpecInv, [SpecNext]_specVars PROVE SpecInv'
    OBVIOUS
  <2>1. CASE SpecNext
    BY <2>1, FeedStaysInReach DEF SpecNext
  <2>2. CASE UNCHANGED specVars
    BY <2>2 DEF specVars, SpecInv
  <2> QED BY <2>1, <2>2
<1>3. SpecInv => CompileIsJust
  BY JustInReach
<1> QED BY <1>1, <1>2, <1>3, PTL DEF SpecBehaviour

-----------------------------------------------------------------------------
(* The classification by probe *)

\* The top of a stack laid on another is its own, unless it is empty.
LEMMA TopOfConcat ==
  ASSUME NEW a \in Seq(Gamma), NEW s \in Seq(Gamma)
  PROVE  /\ s # <<>> => ProbeTop(a \o s) = ProbeTop(s)
         /\ s = <<>> => ProbeTop(a \o s) = ProbeTop(a)
  <1>1. CASE s = <<>>
    <2>1. a \o s = a
      BY <1>1
    <2> QED
      BY <1>1, <2>1
  <1>2. CASE s # <<>>
    <2>1. Len(s) \in Nat /\ Len(s) > 0 /\ Len(a) \in Nat
      BY <1>2
    <2>2. Len(a \o s) = Len(a) + Len(s) /\ a \o s # <<>>
      BY <2>1
    <2>3. (a \o s)[Len(a) + Len(s)] = s[Len(s)]
      BY <2>1
    <2> QED
      BY <1>2, <2>2, <2>3 DEF ProbeTop
  <1> QED
    BY <1>1, <1>2

\* A top is a frame exactly when there is something on the stack.
LEMMA TopType ==
  ASSUME NEW s \in Seq(Gamma)
  PROVE  /\ ProbeTop(s) \in ProbeTops
         /\ s # <<>> => ProbeTop(s) \in Gamma
         /\ ProbeTop(s) = Bottom => s = <<>>
  BY FramesAssumption DEF ProbeTop, ProbeTops

\* A push or pop of the upper stack is the same push or pop of both.
LEMMA StackedConcat ==
  ASSUME NEW a \in Seq(Gamma), NEW s \in Seq(Gamma), NEW step,
         step.do = "Push" => step.frame \in Gamma,
         step.do = "Pop" => s # <<>>
  PROVE  /\ ProbeStacked(s, step) \in Seq(Gamma)
         /\ ProbeStacked(a \o s, step) = a \o ProbeStacked(s, step)
  <1>1. CASE step.do = "Push"
    <2>1. step.frame \in Gamma
      BY <1>1
    <2>2. Append(s, step.frame) \in Seq(Gamma)
      BY <2>1
    <2>3. Append(a \o s, step.frame) = a \o Append(s, step.frame)
      BY <2>1
    <2>4. ProbeStacked(s, step) = Append(s, step.frame)
      BY <1>1 DEF ProbeStacked
    <2>5. ProbeStacked(a \o s, step) = Append(a \o s, step.frame)
      BY <1>1 DEF ProbeStacked
    <2> QED
      BY <2>2, <2>3, <2>4, <2>5
  <1>2. CASE step.do = "Pop"
    <2>1. Len(s) \in Nat /\ Len(s) > 0 /\ Len(a) \in Nat /\ Len(a \o s) = Len(a) + Len(s)
      BY <1>2
    <2>2. SubSeq(s, 1, Len(s) - 1) \in Seq(Gamma)
      BY <2>1
    <2>3. SubSeq(a \o s, 1, Len(a \o s) - 1) = a \o SubSeq(s, 1, Len(s) - 1)
      BY <2>1, <2>2
    <2> QED
      BY <1>2, <2>2, <2>3 DEF ProbeStacked
  <1>3. CASE step.do \notin {"Push", "Pop"}
    BY <1>3 DEF ProbeStacked
  <1> QED
    BY <1>1, <1>2, <1>3

\* What probe and the live run are told by a byte: the same step if probe is
\* not told to die.
LEMMA SameStep ==
  ASSUME DeltaIsFrameBlind, NEW s \in Q, NEW b \in Sigma,
         NEW above \in Seq(Gamma), NEW below \in Seq(Gamma),
         Delta[<<s, ProbeTop(above), b>>].do # "Dead"
  PROVE  Delta[<<s, ProbeTop(below \o above), b>>] = Delta[<<s, ProbeTop(above), b>>]
  <1>1. CASE above # <<>>
    BY <1>1, TopOfConcat
  <1>2. CASE above = <<>>
    <2>1. ProbeTop(below \o above) = ProbeTop(below) /\ ProbeTop(above) = Bottom
      BY <1>2, TopOfConcat DEF ProbeTop
    <2>2. ProbeTop(below) \in ProbeTops
      BY TopType
    <2> QED
      BY <2>1, <2>2 DEF DeltaIsFrameBlind, ProbeTops
  <1> QED
    BY <1>1, <1>2

IInv == ProbeTypeOK /\ ProbeTracksLive /\ DropsAreDead

\* The classification is inductive.
LEMMA ByteKeepsIInv ==
  ASSUME DeltaIsFrameBlind, IInv, NEW b \in Sigma, Byte(b)
  PROVE  IInv'
  <1> DEFINE mine == Delta[<<probeState, ProbeTop(scratch), b>>]
             theirs == Delta[<<liveState, ProbeTop(live), b>>]
  <1>1. /\ verdict = "running" /\ liveVerdict = "running" /\ liveState = probeState
        /\ live = ambient \o scratch /\ ambient' = ambient
        /\ ProbeByte(b) /\ LiveByte(b)
    BY DEF IInv, Byte, ProbeTracksLive
  <1>2. /\ probeState \in Q /\ scratch \in Seq(Gamma) /\ ambient \in Seq(Gamma)
        /\ live \in Seq(Gamma)
    BY DEF IInv, ProbeTypeOK
  <1>3. ProbeTop(scratch) \in ProbeTops /\ ProbeTop(live) \in ProbeTops
    BY <1>2, TopType
  <1>4. CASE mine.do # "Dead"
    <2>1. theirs = mine
      BY <1>1, <1>2, <1>4, SameStep
    <2>2. mine.to \in Q /\ (mine.do = "Push" => mine.frame \in Gamma)
      BY <1>2, <1>3, <1>4, DeltaAssumption
    <2>3. mine.do = "Pop" => scratch # <<>>
      <3>1. mine.do = "Pop" => ProbeTop(scratch) # Bottom
        BY <1>2, <1>3, DeltaAssumption
      <3> QED
        BY <3>1 DEF ProbeTop
    <2>4. probeState' = mine.to /\ scratch' = ProbeStacked(scratch, mine) /\ verdict' = verdict
      BY <1>1, <1>4 DEF ProbeByte
    <2>5. liveState' = mine.to /\ live' = ProbeStacked(live, mine) /\ liveVerdict' = liveVerdict
      BY <1>1, <1>4, <2>1 DEF LiveByte
    <2>6. scratch' \in Seq(Gamma) /\ live' = ambient \o scratch'
      <3> HIDE DEF mine
      <3>1. /\ ProbeStacked(scratch, mine) \in Seq(Gamma)
            /\ ProbeStacked(ambient \o scratch, mine) = ambient \o ProbeStacked(scratch, mine)
        BY <1>2, <2>2, <2>3, StackedConcat
      <3> QED
        BY <1>1, <2>4, <2>5, <3>1
    <2> HIDE DEF mine, theirs
    <2>7. live' \in Seq(Gamma)
      BY <1>2, <2>6
    <2> QED
      BY <1>1, <1>2, <2>2, <2>4, <2>5, <2>6, <2>7
      DEF IInv, ProbeTypeOK, ProbeTracksLive, DropsAreDead
  <1>5. CASE mine.do = "Dead"
    <2>1. probeState' = probeState /\ scratch' = scratch
      BY <1>1, <1>5 DEF ProbeByte
    <2>2. verdict' = IF Consulted(b) THEN "deferred" ELSE "dead"
      BY <1>1, <1>5 DEF ProbeByte
    <2>3. theirs.do = "Dead" => liveVerdict' = "dead" /\ liveState' = liveState /\ live' = live
      BY <1>1 DEF LiveByte
    <2>4. verdict' = "dead" => theirs.do = "Dead"
      <3>1. CASE scratch # <<>>
        BY <1>1, <1>2, <1>5, <3>1, TopOfConcat
      <3>2. CASE scratch = <<>>
        <4>1. ProbeTop(live) = ProbeTop(ambient) /\ ProbeTop(scratch) = Bottom
          BY <1>1, <1>2, <3>2, TopOfConcat DEF ProbeTop
        <4>2. ~Consulted(b) => \A f \in Gamma : Delta[<<probeState, f, b>>].do = "Dead"
          BY <3>2 DEF Consulted
        <4>3. ProbeTop(ambient) \in ProbeTops
          BY <1>2, TopType
        <4> QED
          BY <1>1, <1>5, <2>2, <4>1, <4>2, <4>3 DEF ProbeTops
      <3> QED
        BY <3>1, <3>2
    <2>5. verdict' = "deferred" /\ ambient = <<>> => theirs.do = "Dead"
      <3>1. ambient = <<>> => live = scratch
        BY <1>1, <1>2
      <3> QED
        BY <1>1, <1>5, <3>1
    <2>6. liveState' \in Q /\ live' \in Seq(Gamma) /\ liveVerdict' \in {"running", "dead"}
      <3>1. CASE theirs.do = "Dead"
        BY <1>1, <1>2, <2>3, <3>1
      <3>2. CASE theirs.do # "Dead"
        <4>1. theirs.to \in Q /\ (theirs.do = "Push" => theirs.frame \in Gamma)
          BY <1>1, <1>2, <1>3, <3>2, DeltaAssumption
        <4>2. theirs.do = "Pop" => live # <<>>
          <5>1. theirs.do = "Pop" => ProbeTop(live) # Bottom
            BY <1>1, <1>2, <1>3, DeltaAssumption
          <5> QED
            BY <5>1 DEF ProbeTop
        <4>3. liveState' = theirs.to /\ live' = ProbeStacked(live, theirs) /\ liveVerdict' = liveVerdict
          BY <1>1, <3>2 DEF LiveByte
        <4> HIDE DEF theirs
        <4>4. ProbeStacked(live, theirs) \in Seq(Gamma)
          BY <1>2, <4>1, <4>2, StackedConcat
        <4> QED
          BY <1>1, <4>1, <4>3, <4>4
      <3> QED
        BY <3>1, <3>2
    <2> HIDE DEF mine, theirs
    <2>7. verdict' \in {"dead", "deferred"}
      BY <2>2
    <2> QED
      BY <1>1, <1>2, <2>1, <2>3, <2>4, <2>5, <2>6, <2>7
      DEF IInv, ProbeTypeOK, ProbeTracksLive, DropsAreDead
  <1> QED
    BY <1>4, <1>5

\* For every automaton whose moves over the empty stack are blind to a frame
\* beneath, every token and every live stack: probe (pda.rs, compile.rs) never
\* loses track of the live run while the token is alive, and what it drops is
\* admissible nowhere.
THEOREM ProbeDecides ==
  ASSUME DeltaIsFrameBlind
  PROVE  ProbeSpec => []ProbePredicts
  <1>1. ProbeInit => IInv
    <2> SUFFICES ASSUME ProbeInit PROVE IInv
      OBVIOUS
    <2>1. ambient \in Seq(Gamma) /\ scratch \in Seq(Gamma) /\ ambient \o scratch = ambient
      BY AmbientsAssumption DEF ProbeInit
    <2> QED
      BY <2>1 DEF ProbeInit, IInv, ProbeTypeOK, ProbeTracksLive, DropsAreDead
  <1>2. IInv /\ [ProbeNext]_probeVars => IInv'
    <2> SUFFICES ASSUME IInv, [ProbeNext]_probeVars PROVE IInv'
      OBVIOUS
    <2>1. CASE ProbeNext
      BY <2>1, ByteKeepsIInv DEF ProbeNext
    <2>2. CASE UNCHANGED probeVars
      BY <2>2 DEF probeVars, IInv, ProbeTypeOK, ProbeTracksLive, DropsAreDead
    <2> QED
      BY <2>1, <2>2
  <1>3. IInv => ProbePredicts
    BY DEF IInv, ProbePredicts
  <1> QED
    BY <1>1, <1>2, <1>3, PTL DEF ProbeSpec
=============================================================================
