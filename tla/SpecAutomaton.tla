--------------------------- MODULE SpecAutomaton ---------------------------
(***************************************************************************)
(* A supplied grammar is compiled and its automaton driven: the verdict of *)
(* CompiledAutomaton::compile against what RtnPda then does (compile.rs).  *)
(* A rejected spec is driven too, to hold the rejection against what the   *)
(* automaton would have done.                                              *)
(***************************************************************************)
EXTENDS GrammarSpec

CONSTANTS
  Specs,     \* the supplied grammars
  MaxSpecDepth   \* the deepest rtnStack explored

\* GrammarSpecV1 as it is deserialised: finitely many states, each with its rules in
\* order, and a name in every test of the stack's top.
ASSUME SpecsAssumption ==
  \A sp \in Specs :
    /\ sp = [start |-> sp.start, frames |-> sp.frames, states |-> sp.states]
    /\ IsFiniteSet(DOMAIN sp.states)
    /\ sp.states = [s \in DOMAIN sp.states |-> sp.states[s]]
    /\ \A s \in DOMAIN sp.states :
         /\ sp.states[s] = [accepting |-> sp.states[s].accepting, rules |-> sp.states[s].rules]
         /\ sp.states[s].rules \in Seq(Range(sp.states[s].rules))
    /\ \A at \in Rules(sp) :
         /\ RuleAt(sp, at).guard.kind = "stack_top_is" => RuleAt(sp, at).guard.frame # NoFrame
         /\ RuleAt(sp, at).action.kind \in {"next", "push", "pop", "goto", "dead"}

VARIABLES
  spec,          \* the grammar
  refusal,       \* the error compile answered, or NoError
  rtnState, rtnStack   \* RtnPda

specVars == <<spec, refusal, rtnState, rtnStack>>

RtnTop == IF rtnStack = <<>> THEN NoFrame ELSE Last(rtnStack)
Completes == rtnStack = <<>> /\ IsAcceptingState(spec, rtnState)

SpecInit ==
  /\ spec \in Specs
  /\ refusal \in CompileOutcomes(spec)
  /\ rtnState = spec.start
  /\ rtnStack = <<>>

\* advance
SpecFeed(b) ==
  /\ Drivable(spec)
  /\ LET step == SpecStep(spec, rtnState, RtnTop, b) IN
       /\ step.do # "Dead"
       /\ step.do = "Push" => Len(rtnStack) < MaxSpecDepth
       /\ rtnState' = step.to
       /\ rtnStack' = CASE step.do = "Push" -> Append(rtnStack, step.frame)
                        [] step.do = "Pop" -> Front(rtnStack)
                        [] OTHER -> rtnStack
  /\ UNCHANGED <<spec, refusal>>

SpecNext == \E b \in SpecBytes : SpecFeed(b)

SpecBehaviour == SpecInit /\ [][SpecNext]_specVars

-----------------------------------------------------------------------------
(* Properties *)

WithoutRule(sp, at) == [sp EXCEPT !.states[at[1]].rules = RemoveAt(@, at[2])]

\* The answer of compile is borne out by every run of the automaton.  In a spec
\* that compiled "a chain can revisit each state at most once", so no byte runs
\* out of goto turns, and the arm that guards a pop of an empty stack is "not a
\* reachable path"; a spec refused for want of an accepting state never
\* completes, and one with a shadowed rule behaves as if the rule were not there
\* (check_goto_acyclic, check_reachable_accept, check_shadowing, step).
CompileIsJust ==
  /\ refusal \notin SpecErrors =>
       \A b \in SpecBytes :
         LET action == Resolved(spec, rtnState, RtnTop, b) IN
           action.kind # "goto" /\ (action.kind = "pop" => rtnStack # <<>>)
  /\ refusal = "NoReachableAccept" => ~Completes
  /\ refusal \in {"AmbiguousTransition", "UnreachableRule"} /\ Drivable(spec) =>
       \E at \in Rules(spec) : Shadowing(spec, at) # {} /\
         \A b \in SpecBytes :
           Selected(spec, at[1], RtnTop, b) = Selected(WithoutRule(spec, at), at[1], RtnTop, b)
=============================================================================
