---------------------------- MODULE GrammarSpec ----------------------------
(***************************************************************************)
(* A grammar supplied as data and its lowering to an automaton:            *)
(* crates/pure-analyzer-purecard/src/grammar/spec.rs and compile.rs.       *)
(*                                                                         *)
(*   spec  = [start, frames, states], frames a sequence of names, states a *)
(*           function from state names to [accepting, rules]               *)
(*   rule  = [test, guard, action]: test [kind, bytes], guard [kind,       *)
(*           frame], action [kind, state, frame]                           *)
(*                                                                         *)
(* The names of states have an order in the code (a BTreeMap) and none     *)
(* here: of several bad states any may be the one that is reported.        *)
(***************************************************************************)
EXTENDS Naturals, Sequences, FiniteSets, FiniteSetsExt, SequencesExt

CONSTANTS
  SpecBytes,       \* " " is whitespace, "0" a digit, "a" a letter, others none of these
  NoFrame,         \* the top of an empty stack; no state, no frame
  BoundaryByte,
  MaxStates, MaxRulesPerState, MaxTotalRules, MaxFrames

\* SpecError, the parse error aside: the reasons to refuse a spec.
NoError == "none"
SpecErrors ==
  {"UnknownStartState", "UnknownTargetState", "UnknownFrame", "TooManyStates", "TooManyRules",
   "TooManyTotalRules", "TooManyFrames", "DuplicateFrame", "AmbiguousTransition",
   "UnreachableRule", "UnguardedPop", "CyclicGoto", "NoReachableAccept"}

\* ByteTest: a class of bytes has no list of its own.
ClassTest(class) == [kind |-> class, bytes |-> {}]
ListTest(kind, bytes) == [kind |-> kind, bytes |-> bytes]

\* ByteTest::matches: the bytes a test admits.
BytesOf(test) ==
  CASE test.kind = "whitespace" -> SpecBytes \cap {" "}
    [] test.kind = "ident_start" -> SpecBytes \cap {"a"}
    [] test.kind = "ident_tail" -> SpecBytes \cap {"a", "0"}
    [] test.kind = "digit" -> SpecBytes \cap {"0"}
    [] test.kind \in {"exact", "one_of"} -> test.bytes
    [] test.kind = "none_of" -> SpecBytes \ test.bytes
    [] test.kind = "any" -> SpecBytes

\* Guard
FreeGuard(kind) == [kind |-> kind, frame |-> NoFrame]
TopGuard(kind, frame) == [kind |-> kind, frame |-> frame]

\* CompiledGuard::matches
GuardMatches(guard, top) ==
  CASE guard.kind = "always" -> TRUE
    [] guard.kind = "stack_top_is" -> top = guard.frame
    [] guard.kind = "stack_top_is_not" -> top # NoFrame /\ top # guard.frame
    [] guard.kind = "stack_non_empty" -> top # NoFrame
    [] guard.kind = "stack_empty" -> top = NoFrame

\* Action
NextAction(s) == [kind |-> "next", state |-> s, frame |-> NoFrame]
PushAction(frame, s) == [kind |-> "push", state |-> s, frame |-> frame]
PopAction(s) == [kind |-> "pop", state |-> s, frame |-> NoFrame]
GotoAction(s) == [kind |-> "goto", state |-> s, frame |-> NoFrame]
DeadAction == [kind |-> "dead", state |-> NoFrame, frame |-> NoFrame]

-----------------------------------------------------------------------------
(* CompiledAutomaton::step *)

\* The action of the first rule that matches.
Selected(spec, s, top, b) ==
  LET rules == spec.states[s].rules
      hits == {i \in DOMAIN rules : b \in BytesOf(rules[i].test) /\ GuardMatches(rules[i].guard, top)}
  IN IF hits = {} THEN DeadAction ELSE rules[Min(hits)].action

\* A chain of gotos is followed for at most one more turn than there are states.
Turns(spec) == Cardinality(DOMAIN spec.states) + 1
GotoChain(spec, s, top, b) ==
  LET chain[n \in 0..Turns(spec)] ==
        IF n = 0 THEN GotoAction(s)
        ELSE LET before == chain[n - 1]
             IN IF before.kind = "goto" THEN Selected(spec, before.state, top, b) ELSE before
  IN chain
Resolved(spec, s, top, b) == GotoChain(spec, s, top, b)[Turns(spec)]

Outcomes == [next |-> "Next", push |-> "Push", pop |-> "Pop"]
SpecStep(spec, s, top, b) ==
  LET action == Resolved(spec, s, top, b) IN
    IF action.kind \in {"dead", "goto"} \/ (action.kind = "pop" /\ top = NoFrame)
    THEN [do |-> "Dead", to |-> NoFrame, frame |-> NoFrame]
    ELSE [do |-> Outcomes[action.kind], to |-> action.state, frame |-> action.frame]

\* is_accepting_state
IsAcceptingState(spec, s) ==
  \/ spec.states[s].accepting
  \/ LET landed == SpecStep(spec, s, NoFrame, BoundaryByte)
     IN landed.do = "Next" /\ spec.states[landed.to].accepting

-----------------------------------------------------------------------------
(* CompiledAutomaton::compile *)

Rules(spec) ==
  UNION {{<<s, i>> : i \in DOMAIN spec.states[s].rules} : s \in DOMAIN spec.states}
RuleAt(spec, at) == spec.states[at[1]].rules[at[2]]

\* A frame or a state that no one declared.
UnknownFrame(spec, frame) == frame # NoFrame /\ frame \notin Range(spec.frames)
UnknownTarget(spec, action) == action.kind # "dead" /\ action.state \notin DOMAIN spec.states

\* compile_guard, then compile_action.
NameError(spec, rule) ==
  IF UnknownFrame(spec, rule.guard.frame) THEN "UnknownFrame"
  ELSE IF rule.action.kind = "pop" /\ rule.guard.kind \notin {"stack_top_is", "stack_non_empty"}
  THEN "UnguardedPop"
  ELSE IF UnknownFrame(spec, rule.action.frame) THEN "UnknownFrame"
  ELSE IF UnknownTarget(spec, rule.action) THEN "UnknownTargetState"
  ELSE NoError

\* check_shadowing: the first rule before it with the same guard that has the same
\* test, or admits every byte it admits.
Shadowing(spec, at) ==
  {i \in 1..at[2] - 1 :
     LET earlier == spec.states[at[1]].rules[i] IN
       /\ earlier.guard = RuleAt(spec, at).guard
       /\ BytesOf(RuleAt(spec, at).test) \subseteq BytesOf(earlier.test)}
ShadowError(spec, at) ==
  IF Shadowing(spec, at) = {} THEN NoError
  ELSE IF spec.states[at[1]].rules[Min(Shadowing(spec, at))].test = RuleAt(spec, at).test
  THEN "AmbiguousTransition" ELSE "UnreachableRule"

RuleError(spec, at) ==
  LET unnamed == NameError(spec, RuleAt(spec, at)) IN
    IF unnamed # NoError THEN unnamed ELSE ShadowError(spec, at)

\* What compile_v1 finds wrong with a state: its first bad rule.
StateError(spec, s) ==
  LET bad == {i \in DOMAIN spec.states[s].rules : RuleError(spec, <<s, i>>) # NoError} IN
    IF Len(spec.states[s].rules) > MaxRulesPerState THEN "TooManyRules"
    ELSE IF bad = {} THEN NoError ELSE RuleError(spec, <<s, Min(bad)>>)

\* The edges check_goto_acyclic searches, and check_reachable_accept.
Edges(spec, kinds) ==
  {<<at[1], RuleAt(spec, at).action.state>> :
     at \in {r \in Rules(spec) : RuleAt(spec, r).action.kind \in kinds}}
GotoEdges(spec) == Edges(spec, {"goto"})
MoveEdges(spec) == Edges(spec, {"next", "push", "pop", "goto"})

\* The nodes an edge relation leads to from the given ones: those in every set that
\* has the given ones and does not lead out of itself.
Closure(edges, from) ==
  LET nodes == from \cup {e[2] : e \in edges}
      closed == {X \in SUBSET nodes : from \subseteq X /\ \A e \in edges : e[1] \in X => e[2] \in X}
  IN {node \in nodes : \A X \in closed : node \in X}
After(edges, node) == Closure(edges, {e[2] : e \in {d \in edges : d[1] = node}})

\* Variant used to test the properties: only a goto to its own state is seen.
GotosSelfFree(spec) == \A e \in GotoEdges(spec) : e[1] # e[2]

GotosAreAcyclic(spec) == \A e \in GotoEdges(spec) : e[1] \notin After(GotoEdges(spec), e[1])

\* check_reachable_accept, blind to the guards.
AcceptIsReachable(spec) ==
  \E s \in Closure(MoveEdges(spec), {spec.start}) : IsAcceptingState(spec, s)

\* The declarations, before any rule is looked at.
HeaderError(spec) ==
  IF Len(spec.frames) > MaxFrames THEN "TooManyFrames"
  ELSE IF ~IsInjective(spec.frames) THEN "DuplicateFrame"
  ELSE IF Cardinality(DOMAIN spec.states) > MaxStates THEN "TooManyStates"
  ELSE IF spec.start \notin DOMAIN spec.states THEN "UnknownStartState"
  ELSE IF Cardinality(Rules(spec)) > MaxTotalRules THEN "TooManyTotalRules"
  ELSE NoError

\* check_goto_acyclic and check_reachable_accept, once every name resolves.
GraphError(spec) ==
  IF ~GotosAreAcyclic(spec) THEN "CyclicGoto"
  ELSE IF ~AcceptIsReachable(spec) THEN "NoReachableAccept"
  ELSE NoError

\* compile_v1: what it may answer.
CompileOutcomes(spec) ==
  LET broken == {StateError(spec, s) : s \in DOMAIN spec.states} \ {NoError} IN
    IF HeaderError(spec) # NoError THEN {HeaderError(spec)}
    ELSE IF broken # {} THEN broken
    ELSE {GraphError(spec)}

\* Does every name the automaton would follow resolve?
Drivable(spec) ==
  /\ spec.start \in DOMAIN spec.states
  /\ \A at \in Rules(spec) :
       /\ ~UnknownTarget(spec, RuleAt(spec, at).action)
       /\ ~UnknownFrame(spec, RuleAt(spec, at).action.frame)
       /\ ~UnknownFrame(spec, RuleAt(spec, at).guard.frame)
=============================================================================
