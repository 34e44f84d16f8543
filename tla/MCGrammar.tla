----------------------------- MODULE MCGrammar -----------------------------
(***************************************************************************)
(* The automata of purecard, one at a time: a stream through the fixed     *)
(* grammar, a supplied grammar compiled and driven, and a token probed     *)
(* over an empty and over a live stack.  While one part runs the others    *)
(* rest.                                                                   *)
(***************************************************************************)
EXTENDS GrammarWalk, SpecAutomaton, MaskProbe

\* Tokens that open, close and separate across several frames at once.
MCVocab ==
  << <<")">>, <<"]">>, <<"}">>, <<",">>, <<";">>, <<"*">>, <<":">>, <<"|">>, <<" ">>, <<"x">>,
     <<"0">>, <<"'">>, <<"(", ")">>, <<"(", "]">>, <<")", ")">>, <<"]", ")">>, <<")", "]", ")">>,
     <<")", "}", ")">>, <<"}", ";">>, <<")", ";", "}">>, <<")", ",">>, <<"]", ",", "x">>,
     <<"x", ")">>, <<"x", ",", "~">>, <<"'", ")">>, <<"0", "]", "|">>, <<"*", "]">>,
     <<":", ":", "x">>, <<":", " ", "x">>, <<":", "{", "x">>, <<"|", "x", ")">>, <<"[", "]">>,
     <<"~", "[", "x", "]", ")">>, <<"{", "|">>, <<")", "-", ">">>, <<"=", "=", "'">>,
     <<".", "x", "(", ")">>, <<"%", "0", ")">>, <<")", ".", "x">> >>

\* The probe runs over the fixed grammar: every state, over no frame and over
\* each one.
FixedAmbients == BoundedSeq(Frames, 1)
ASSUME FixedIsFrameBlind == DeltaIsFrameBlind

\* Grammars of two states with at most two rules in the first and one in the
\* second, over two bytes and one frame.
Guards ==
  {FreeGuard("always"), TopGuard("stack_top_is", "f"), TopGuard("stack_top_is_not", "f"),
   FreeGuard("stack_non_empty"), FreeGuard("stack_empty")}
Actions ==
  {NextAction("q"), DeadAction, PushAction("f", "q"), PushAction("undeclared", "q"),
   PopAction("p"), GotoAction("p"), GotoAction("q")}
RulesOf(tests) == [test : tests, guard : Guards, action : Actions]
FirstRules == RulesOf({ListTest("exact", {"a"}), ClassTest("any")})
NextRules == RulesOf({ClassTest("ident_start"), ClassTest("any")})
\* The rules of the second state fire always, or pop on a frame.
OtherRules ==
  {r \in RulesOf({ListTest("one_of", {"a"}), ListTest("none_of", {})}) :
     \/ r.guard.kind = "always"
     \/ r.guard.kind = "stack_top_is" /\ r.action.kind = "pop"}

State(accepting, rules) == [accepting |-> accepting, rules |-> rules]
SmallSpecs ==
  {[start |-> "p", frames |-> <<"f">>, states |-> [p |-> State(FALSE, r), q |-> State(TRUE, s)]] :
     r \in {<<>>} \cup [1..1 -> FirstRules] \cup {<<i, j>> : i \in FirstRules, j \in NextRules},
     s \in BoundedSeq(OtherRules, 1)}

\* One past each limit, and names that nothing declares.
Move(test) == [test |-> test, guard |-> FreeGuard("always"), action |-> NextAction("q")]
ThreeMoves == <<Move(ClassTest("whitespace")), Move(ClassTest("ident_tail")), Move(ClassTest("digit"))>>
Broken(start, frames, p, q) ==
  [start |-> start, frames |-> frames, states |-> [p |-> State(FALSE, p), q |-> State(TRUE, q)]]
Two == SubSeq(ThreeMoves, 1, 2)
BrokenSpecs ==
  {Broken("p", <<"f", "g">>, Two, <<>>), Broken("p", <<"f", "f", "f">>, Two, <<>>),
   Broken("p", <<"f", "f">>, Two, <<>>), Broken("r", <<"f">>, Two, <<>>),
   Broken("p", <<"f">>, ThreeMoves, <<>>), Broken("p", <<"f">>, Two, Two),
   Broken("p", <<"f">>, <<[Move(ClassTest("any")) EXCEPT !.action = NextAction("r")]>>, <<>>),
   [start |-> "p", frames |-> <<>>,
    states |-> [s \in {"p", "q", "r"} |-> State(s = "q", <<>>)]]}

MCSpecs == SmallSpecs \cup BrokenSpecs

-----------------------------------------------------------------------------

VARIABLE part
allVars == <<part, walkVars, specVars, probeVars>>

WalkRests == state = None /\ stack = <<>> /\ open = <<>> /\ quoted = FALSE /\ finishing = FALSE
IdleSpec == [start |-> "p", frames |-> <<>>, states |-> [p |-> [accepting |-> TRUE, rules |-> <<>>]]]
SpecRests == spec = IdleSpec /\ refusal = NoError /\ rtnState = "p" /\ rtnStack = <<>>
ProbeRests ==
  /\ probeState = "Start" /\ scratch = <<>> /\ verdict = "running"
  /\ liveState = "Start" /\ live = <<>> /\ liveVerdict = "running" /\ ambient = <<>>

WalkPart == part = "walk" /\ UNCHANGED <<part, specVars, probeVars>>
SpecPart == part = "spec" /\ SpecNext /\ UNCHANGED <<part, walkVars, probeVars>>
ProbePart == part = "probe" /\ ProbeNext /\ UNCHANGED <<part, walkVars, specVars>>

PartInit ==
  \/ part = "walk" /\ WalkInit /\ SpecRests /\ ProbeRests
  \/ part = "spec" /\ WalkRests /\ SpecInit /\ ProbeRests
  \/ part = "probe" /\ WalkRests /\ SpecRests /\ ProbeInit
PartNext == (WalkPart /\ WalkNext) \/ SpecPart \/ ProbePart

GrammarBehaviour == PartInit /\ [][PartNext]_allVars /\ WF_allVars(WalkPart /\ Finishes)
=============================================================================
