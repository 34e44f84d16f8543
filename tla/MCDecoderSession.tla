-------------------------- MODULE MCDecoderSession --------------------------
(***************************************************************************)
(* Sessions over two supplied grammars: nested calls and lists of words,   *)
(* and the same with a statement separator that is taken at top level only.*)
(* The automaton of a grammar is the table compile.rs makes of it.         *)
(***************************************************************************)
EXTENDS DecoderSession

CONSTANT Grammar   \* which of the two

MCBytes == {"(", ")", "[", "]", ",", ";", "x"}

G == INSTANCE GrammarSpec
       WITH SpecBytes <- Bytes, NoFrame <- None, BoundaryByte <- "x",
            MaxStates <- 3, MaxRulesPerState <- 5, MaxTotalRules <- 10, MaxFrames <- 2

Always == G!FreeGuard("always")
TopIs(f) == G!TopGuard("stack_top_is", f)
Empty == G!FreeGuard("stack_empty")
Open(f) == G!PushAction(f, "value")
Shut == G!PopAction("after")
Go(s) == G!NextAction(s)
Rule(b, guard, action) == [test |-> G!ListTest("exact", {b}), guard |-> guard, action |-> action]

Lists(separator) ==
  [start |-> "value", frames |-> <<"paren", "list">>,
   states |->
     [value |-> [accepting |-> FALSE,
                 rules |-> <<Rule("(", Always, Open("paren")), Rule("[", Always, Open("list")),
                             Rule("x", Always, Go("word"))>>],
      word |-> [accepting |-> TRUE,
                rules |-> <<[test |-> G!ClassTest("any"), guard |-> Always,
                             action |-> G!GotoAction("after")]>>],
      after |-> [accepting |-> TRUE,
                 rules |-> <<Rule(")", TopIs("paren"), Shut), Rule("]", TopIs("list"), Shut),
                             Rule(",", TopIs("list"), Go("value"))>>
                           \o separator]]]

NestedLists == Lists(<<>>)
Statements == Lists(<<Rule(";", Empty, Go("value"))>>)

Source == IF Grammar = "lists" THEN NestedLists ELSE Statements
ASSUME BothCompile ==
  /\ G!CompileOutcomes(NestedLists) = {G!NoError}
  /\ G!CompileOutcomes(Statements) = {G!NoError}

MCStates == DOMAIN Source.states
MCFrames == {"paren", "list"}
MCStep ==
  [s \in MCStates, top \in MCFrames \cup {None}, b \in Bytes |-> G!SpecStep(Source, s, top, b)]
MCTerminal == {s \in MCStates : G!IsAcceptingState(Source, s)}
MCVocab ==
  << <<"x">>, <<")">>, <<"]">>, <<",">>, <<";">>, <<"x", ")">>, <<")", ")">>, <<"]", ",">>,
     <<"(", "x">>, <<"[", "(">>, <<"(", ")">>, <<")", "]">>, <<")", ";">> >>

ASSUME ListsAreFrameBlind == Grammar = "lists" => StepIsFrameBlind
ASSUME StatementsAreNot == Grammar = "statements" => ~StepIsFrameBlind

Alike == Permutations(Sessions)
=============================================================================
