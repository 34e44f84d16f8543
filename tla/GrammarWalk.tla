---------------------------- MODULE GrammarWalk ----------------------------
(***************************************************************************)
(* A stream of bytes through the fixed grammar of purecard: the Pda driver *)
(* of crates/pure-analyzer-purecard/src/grammar/pda.rs over the table of   *)
(* PureGrammar, with the token masks the compiled grammar caches per state *)
(* (compiled.rs).  Next to it runs a scanner that knows nothing of the     *)
(* grammar: it only matches delimiters outside quotes.                     *)
(***************************************************************************)
EXTENDS PureGrammar, Naturals, SequencesExt

CONSTANTS
  Table, Final,  \* Step and Terminal of PureGrammar, tabulated
  Vocab,         \* token -> its bytes
  MaxDepth       \* the deepest nesting explored

ASSUME TableAssumption == Table = Step /\ Final = Terminal

VARIABLES
  state, stack,   \* Pda; state is None while there is no stream
  open,           \* the scanner's unclosed delimiters, outermost first
  quoted,         \* whether the scanner is inside a string
  finishing       \* whether the decoder has decided to bring the query to an end

walkVars == <<state, stack, open, quoted, finishing>>

INSTANCE PushdownAutomaton WITH Start <- "Start", Step <- Table, Terminal <- Final

ASSUME TableIsRegular ==
  StepIsTotal /\ StepIsFrameBlind /\ "Start" \in States /\ None \notin States \cup Frames
ASSUME VocabAssumption == Vocab \in Seq(Seq(Bytes))

Here == Config(state, stack)

\* Variant used to test the properties: open frames are not looked at.
CompleteInside == state \in Terminal

\* is_accepting, here
Complete == stack = <<>> /\ state \in Terminal

\* The per-state cache of CompiledGrammar, completely filled.
Cached == [s \in States |-> Partition(s)]

Openers == {"(", "[", "{"}
Partner == [b \in Openers |-> CASE b = "(" -> ")" [] b = "[" -> "]" [] b = "{" -> "}"]

-----------------------------------------------------------------------------

WalkInit == state = "Start" /\ stack = <<>> /\ open = <<>> /\ quoted = FALSE /\ finishing = FALSE

Scan(b) ==
  /\ quoted' = IF b = "'" THEN ~quoted ELSE quoted
  /\ open' = CASE ~quoted /\ b \in Openers -> Append(open, b)
               [] ~quoted /\ open # <<>> /\ b = Partner[Last(open)] -> Front(open)
               [] OTHER -> open

\* advance: a dead byte leaves the automaton where it was.
Feed(b) ==
  LET next == Advance(Here, b) IN
    /\ next.alive
    /\ state' = next.state
    /\ stack' = next.stack
    /\ Scan(b)

\* reset
Reset ==
  /\ state' = "Start" /\ stack' = <<>> /\ open' = <<>> /\ quoted' = FALSE
  /\ finishing' = FALSE

-----------------------------------------------------------------------------
(* The decoder: it emits any byte the automaton takes, until it decides to *)
(* finish.  Then it closes the innermost frame where the closer is taken,  *)
(* and otherwise emits the byte that leads towards such a place.           *)

Finisher ==
  On({"ExpectSource", "BlockStmt", "SourceColon2", "ExpectBinder", "AfterDot", "AfterDollar",
      "AfterArrow", "ExpectBraceBinder", "ExpectValueReq", "ExpectLambdaBody", "AfterColon2",
      "AfterColonWs", "AfterValueColon", "AfterRelColColon", "BinderTypeColon2",
      "ExpectRelColSpecReq", "SawTilde", "SawDash", "SawGt", "SawLt"}, "x")
  @@ On({"InSourceIdent", "InBinderValueIdent", "LetL", "LetLe", "LetLet"}, ".")
  @@ On({"SourceColon", "AfterColon", "BinderTypeColon"}, ":")
  @@ On({"Start", "AfterBraceOpen", "InRelColLambdaBinder", "AfterRelColLambdaBinder",
         "InRelAggReduceBinder", "AfterRelAggReduceBinder", "InBinderType", "AfterBinderType",
         "AfterBinderMult", "SawPipe", "SawValuePipe"}, "|")
  @@ On({"InBinder", "AfterBinder", "SawEq", "SawBang"}, "=")
  @@ On({"SawPercent", "SawNumSign", "NeedFracDigit", "SawExp", "NeedExpDigit", "DateSep",
         "DateTimeSep", "DateFrac"}, "0")
  @@ On({"InArrowIdent", "AfterArrowName"}, "(")
  @@ On({"InBinderTypePath", "AfterBinderTypePath"}, "[")
  @@ On({"InStrLit", "InRelColStrLit"}, "'")
  @@ [SourceDash |-> ">", ExpectBinderValue |-> "%", ExpectBinderMult |-> "*", SawAmp |-> "&",
      MilestoneL |-> "a", MilestoneLa |-> "t", MilestoneLat |-> "e", MilestoneLate |-> "s",
      MilestoneLates |-> "t"]

Closes == stack # <<>> /\ Table[state, Top(stack), Closer[Top(stack)]].do = "Pop"
FinishingByte ==
  IF Closes \/ state \notin DOMAIN Finisher
  THEN IF stack = <<>> THEN " " ELSE Closer[Top(stack)]
  ELSE Finisher[state]

Continues(b) ==
  /\ ~finishing
  /\ Feed(b)
  /\ Len(stack') <= MaxDepth
  /\ UNCHANGED finishing

Decides == ~finishing /\ finishing' = TRUE /\ UNCHANGED <<state, stack, open, quoted>>

Finishes ==
  finishing /\ ~Complete /\ (\E b \in Bytes \cap {FinishingByte} : Feed(b)) /\ UNCHANGED finishing

Restarts == (finishing => Complete) /\ Reset

WalkNext == (\E b \in Bytes : Continues(b)) \/ Decides \/ Finishes \/ Restarts

WalkSpec == WalkInit /\ [][WalkNext]_walkVars

-----------------------------------------------------------------------------
(* Properties *)

\* The mask allowed_mask assembles from the cached partition of the state and
\* the re-probed deferred tokens is exactly the set of tokens accept_token
\* takes, whatever lies on the stack and however many delimiters a token
\* opens and closes on its way.
MaskIsExact == state # None => Mask(Here, Cached[state]) = Acceptable(Here)

\* No admitted prefix is a dead end: a decoder that sets out to finish closes
\* every frame and completes the query, wherever it is, so sampling from the
\* mask never leads into a prefix without a continuation; and what is_accepting
\* calls complete is balanced, by a scanner that only matches delimiters.
EveryPrefixCompletes == finishing ~> (Complete /\ open = <<>> /\ ~quoted)
=============================================================================
