---------------------------- MODULE PureGrammar ----------------------------
(***************************************************************************)
(* The fixed grammar of purecard: the transition function `step` of        *)
(* crates/pure-analyzer-purecard/src/grammar/pda.rs as a table.            *)
(*                                                                         *)
(* A byte is one of the classes `step` tells apart: whitespace, a digit,   *)
(* the letters that some state spells ("x" is any other identifier start), *)
(* each delimiter and operator byte, and "?" for every other byte.  The    *)
(* string states carry their `escaped` flag in their name: InStrLitPending   *)
(* is InStrLit { escaped: true }.                                          *)
(***************************************************************************)
EXTENDS Sequences, FiniteSets, TLC

Letters == {"l", "a", "t", "e", "s", "T", "E", "x"}
Ws == {" "}
Digit == {"0"}
IdentStart == Letters
IdentTail == Letters \cup Digit
Operators == {"-", ">", "<", "=", "!", "&", "|", "+", "*", "/", ".", ":", ",", ";",
              "(", ")", "[", "]", "{", "}", "'", "%", "$", "~"}
Bytes == Letters \cup Ws \cup Digit \cup Operators \cup {"?"}

Frames == {"Paren", "Group", "Bracket", "Brace", "BraceLambda", "RelColBracket"}
None == "none"

-----------------------------------------------------------------------------
(* What a byte does *)

To(s) == [do |-> "Next", to |-> s, frame |-> None]
Push(f, s) == [do |-> "Push", to |-> s, frame |-> f]
Pop(s) == [do |-> "Pop", to |-> s, frame |-> None]
Dead == [do |-> "Dead", to |-> None, frame |-> None]

SeparatesElements(top) == top \in {"Paren", "Bracket", "BraceLambda", "RelColBracket"}
HoldsALambdaSlot(top) == SeparatesElements(top) \/ top = "Group"

Closer == [Paren |-> ")", Group |-> ")", Bracket |-> "]", RelColBracket |-> "]",
           Brace |-> "}", BraceLambda |-> "}"]
Closers == {")", "]", "}"}

CloseTo(top, b, resume) ==
  IF top # None /\ b \in Closers /\ b = Closer[IF top = None THEN "Paren" ELSE top]
  THEN Pop(resume) ELSE Dead

-----------------------------------------------------------------------------
(* The transitions that do not read the stack: per state, byte -> state.   *)
(* In f @@ g the entries of f come first, as the arms of a match do.       *)

On(bytes, s) == [b \in bytes |-> s]
Nowhere == On({}, None)

\* Identifier and classpath positions of the pipeline source.
SourceIdent(self) ==
  On(IdentTail, self) @@ On({"."}, "AfterDot") @@ On({"-"}, "SourceDash") @@ On({":"}, "SourceColon")

ValuePosition(ws) ==
  On(Ws, ws) @@ On(IdentStart, "InIdent") @@ On(Digit, "InNumberInt") @@ On({"-"}, "SawNumSign")
  @@ On({"."}, "NeedFracDigit") @@ On({"'"}, "InStrLit") @@ On({"%"}, "SawPercent")
  @@ On({"$"}, "AfterDollar") @@ On({"~"}, "SawTilde") @@ On({"|", "!"}, "ExpectValueReq")

RelColSpecPosition(ws) ==
  On(Ws, ws) @@ On(IdentStart, "InRelColIdent") @@ On({"'"}, "InRelColStrLit")

BlockStatement(ws) ==
  On(Ws, ws) @@ On({"l"}, "LetL") @@ On(IdentStart, "InSourceIdent") @@ On({"$"}, "AfterDollar")

OpenerMoves ==
  [Start |-> On(Ws, "Start") @@ On({"|"}, "ExpectSource"),
   ExpectSource |-> On(Ws, "ExpectSource") @@ On(IdentStart, "InSourceIdent"),
   AfterBraceOpen |-> On(Ws, "AfterBraceOpen") @@ On({"|"}, "BlockStmt"),
   BlockStmt |-> BlockStatement("BlockStmt"),
   BlockStmtClose |-> BlockStatement("BlockStmtClose"),
   ExpectValue |-> ValuePosition("ExpectValue"),
   ExpectValueReq |-> ValuePosition("ExpectValueReq"),
   ExpectRelColSpec |-> RelColSpecPosition("ExpectRelColSpec"),
   ExpectRelColSpecReq |-> RelColSpecPosition("ExpectRelColSpecReq")]

SourceMoves ==
  [InSourceIdent |-> SourceIdent("InSourceIdent"),
   InBinderValueIdent |-> SourceIdent("InBinderValueIdent"),
   SourceColon |-> On({":"}, "SourceColon2"),
   SourceColon2 |-> On(IdentStart, "InSourceIdent"),
   SourceDash |-> On({">"}, "AfterArrow"),
   LetL |-> On({"e"}, "LetLe"),
   LetLe |-> On({"t"}, "LetLet"),
   LetLet |-> On(Ws, "ExpectBinder"),
   ExpectBinder |-> On(Ws, "ExpectBinder") @@ On(IdentStart, "InBinder"),
   InBinder |-> On(IdentTail, "InBinder") @@ On(Ws, "AfterBinder") @@ On({"="}, "ExpectBinderValue"),
   AfterBinder |-> On(Ws, "AfterBinder") @@ On({"="}, "ExpectBinderValue"),
   ExpectBinderValue |-> On(Ws, "ExpectBinderValue") @@ On(IdentStart, "InBinderValueIdent")
                         @@ On({"%"}, "SawPercent"),
   ExpectBinderCallClose |-> On(Ws, "ExpectBinderCallClose")]

\* Completed terms and the names that lead to them.
AfterMoves ==
  [AfterValue |-> On(Ws, "AfterValue") @@ On({"-"}, "SawDash") @@ On({">"}, "SawGt")
                  @@ On({"<"}, "SawLt") @@ On({"="}, "SawEq") @@ On({"!"}, "SawBang")
                  @@ On({"&"}, "SawAmp") @@ On({"|"}, "SawValuePipe")
                  @@ On({"+", "*", "/"}, "ExpectValueReq") @@ On({"."}, "AfterDot"),
   InIdent |-> On(IdentTail, "InIdent"),
   InMemberIdent |-> On(IdentTail, "InMemberIdent"),
   InArrowIdent |-> On(IdentTail, "InArrowIdent"),
   AfterName |-> On(Ws, "AfterName") @@ On({"|"}, "SawPipe") @@ On({":"}, "AfterColon"),
   AfterMemberName |-> On(Ws, "AfterMemberName"),
   AfterArrowName |-> On(Ws, "AfterArrowName"),
   AfterStrLit |-> On(Ws, "AfterStrLit") @@ On({"|"}, "SawPipe") @@ On({":"}, "AfterColon")]

\* Columns of a relation: `~name`, `~[a, b: x|..]`, and their binders.
ColumnMoves ==
  [InRelColIdent |-> On(IdentTail, "InRelColIdent"),
   InRelColStrLit |-> On({"'"}, "InRelColStrLitPending") @@ On(Bytes, "InRelColStrLit"),
   InRelColStrLitPending |-> On({"'"}, "InRelColStrLit"),
   AfterRelColName |-> On(Ws, "AfterRelColName") @@ On({":"}, "AfterRelColColon"),
   AfterRelColColon |-> On(Ws, "AfterRelColColon") @@ On(IdentStart, "InRelColLambdaBinder"),
   InRelColLambdaBinder |-> On(IdentTail, "InRelColLambdaBinder"),
   AfterRelColLambdaBinder |-> On(Ws, "AfterRelColLambdaBinder") @@ On({"|"}, "SawPipe"),
   AfterValueColon |-> On(Ws, "AfterValueColon") @@ On(IdentStart, "InRelAggReduceBinder"),
   InRelAggReduceBinder |-> On(IdentTail, "InRelAggReduceBinder"),
   AfterRelAggReduceBinder |-> On(Ws, "AfterRelAggReduceBinder") @@ On({"|"}, "SawPipe")]

\* Numbers.
NumberMoves ==
  [SawNumSign |-> On(Digit, "InNumberInt") @@ On({"."}, "NeedFracDigit"),
   InNumberInt |-> On(Digit, "InNumberInt") @@ On({"."}, "NeedFracDigit"),
   NeedFracDigit |-> On(Digit, "InNumberFrac"),
   InNumberFrac |-> On(Digit, "InNumberFrac") @@ On({"e", "E"}, "SawExp"),
   SawExp |-> On({"+", "-"}, "NeedExpDigit") @@ On(Digit, "InExp"),
   NeedExpDigit |-> On(Digit, "InExp"),
   InExp |-> On(Digit, "InExp")]

\* Strings, dates and the milestone %latest.
LiteralMoves ==
  [InStrLit |-> On({"'"}, "InStrLitPending") @@ On(Bytes, "InStrLit"),
   InStrLitPending |-> On({"'"}, "InStrLit"),
   SawPercent |-> On(Digit, "InDateLit") @@ On({"l"}, "MilestoneL"),
   InDateLit |-> On(Digit, "InDateLit") @@ On({"-", "T"}, "DateSep") @@ On({":"}, "DateTimeSep"),
   DateSep |-> On(Digit, "InDateLit"),
   DateTimeSep |-> On(Digit, "InDateTime"),
   InDateTime |-> On(Digit, "InDateTime") @@ On({"-", ":"}, "DateTimeSep") @@ On({"."}, "DateFrac"),
   DateFrac |-> On(Digit, "InDateFrac"),
   InDateFrac |-> On(Digit, "InDateFrac"),
   MilestoneL |-> On({"a"}, "MilestoneLa"),
   MilestoneLa |-> On({"t"}, "MilestoneLat"),
   MilestoneLat |-> On({"e"}, "MilestoneLate"),
   MilestoneLate |-> On({"s"}, "MilestoneLates"),
   MilestoneLates |-> On({"t"}, "InMilestoneLit"),
   InMilestoneLit |-> Nowhere]

\* After $, a dot, an arrow or a colon.
NavigationMoves ==
  [AfterDollar |-> On(IdentStart, "InMemberIdent"),
   AfterDot |-> On(Ws, "AfterDot") @@ On(IdentStart, "InMemberIdent") @@ On({"'"}, "InStrLit"),
   AfterArrow |-> On(Ws, "AfterArrow") @@ On(IdentStart, "InArrowIdent"),
   AfterColon |-> On({":"}, "AfterColon2"),
   AfterColonWs |-> On(Ws, "AfterColonWs") @@ On(IdentStart, "InBinderType"),
   AfterColon2 |-> On(IdentStart, "InIdent")]

\* Typed binders.
BinderMoves ==
  [ExpectBraceBinder |-> On(Ws, "ExpectBraceBinder") @@ On(IdentStart, "InIdent"),
   InMultiplicity |-> Nowhere,
   InBinderType |-> On(IdentTail, "InBinderType") @@ On({":"}, "BinderTypeColon")
                    @@ On(Ws, "AfterBinderType") @@ On({"|"}, "ExpectLambdaBody"),
   AfterBinderType |-> On(Ws, "AfterBinderType") @@ On({":"}, "BinderTypeColon")
                       @@ On({"|"}, "ExpectLambdaBody"),
   BinderTypeColon |-> On({":"}, "BinderTypeColon2"),
   BinderTypeColon2 |-> On(IdentStart, "InBinderTypePath"),
   InBinderTypePath |-> On(IdentTail, "InBinderTypePath") @@ On({":"}, "BinderTypeColon")
                        @@ On(Ws, "AfterBinderTypePath"),
   AfterBinderTypePath |-> On(Ws, "AfterBinderTypePath") @@ On({":"}, "BinderTypeColon"),
   ExpectBinderMult |-> On(Ws, "ExpectBinderMult") @@ On(Digit, "InBinderMult")
                        @@ On({"*"}, "AfterBinderMultToken"),
   InBinderMult |-> On(Digit, "InBinderMult") @@ On(Ws, "AfterBinderMultToken"),
   AfterBinderMultToken |-> On(Ws, "AfterBinderMultToken"),
   AfterBinderMult |-> On(Ws, "AfterBinderMult") @@ On({"|"}, "ExpectLambdaBody"),
   ExpectLambdaBody |-> Nowhere]

\* Operators one byte in.
OperatorMoves ==
  [SawDash |-> On({">"}, "AfterArrow"),
   SawPipe |-> On({"|"}, "ExpectValueReq"),
   SawValuePipe |-> On({"|"}, "ExpectValueReq"),
   SawEq |-> On({"="}, "ExpectValueReq"),
   SawBang |-> On({"="}, "ExpectValueReq"),
   SawGt |-> On({"="}, "ExpectValueReq"),
   SawLt |-> On({"="}, "ExpectValueReq"),
   SawAmp |-> On({"&"}, "ExpectValueReq"),
   SawTilde |-> On({"'"}, "InRelColStrLit") @@ On(IdentStart, "InRelColIdent")]

Moves ==
  OpenerMoves @@ SourceMoves @@ AfterMoves @@ ColumnMoves @@ NumberMoves @@ LiteralMoves
  @@ NavigationMoves @@ BinderMoves @@ OperatorMoves

\* State: the queries and their statements, completed terms and names, literals,
\* navigation and typed binders, operators one byte in, columns of a relation.
QueryStates == DOMAIN OpenerMoves \cup DOMAIN SourceMoves
TermStates == DOMAIN AfterMoves
LiteralStates == DOMAIN NumberMoves \cup DOMAIN LiteralMoves
TypedBinderStates == DOMAIN NavigationMoves \cup DOMAIN BinderMoves
OperatorStates == DOMAIN OperatorMoves
ColumnStates == DOMAIN ColumnMoves
States ==
  QueryStates \cup TermStates \cup LiteralStates \cup TypedBinderStates \cup OperatorStates
  \cup ColumnStates

-----------------------------------------------------------------------------
(* The openers: <<state, byte>> -> the frame pushed and the state inside.  *)

Opens ==
  [p \in {"Start"} \X {"{"} |-> Push("Brace", "AfterBraceOpen")]
  @@ [p \in {"ExpectValue", "ExpectValueReq"} \X {"("} |-> Push("Group", "ExpectValue")]
  @@ [p \in {"ExpectValue", "ExpectValueReq"} \X {"["} |-> Push("Bracket", "ExpectValue")]
  @@ [p \in {"ExpectValue", "ExpectValueReq", "AfterRelColColon", "AfterColonWs"} \X {"{"} |->
        Push("BraceLambda", "ExpectBraceBinder")]
  @@ [p \in {"AfterName", "AfterMemberName", "AfterArrowName"} \X {"("} |-> Push("Paren", "ExpectValue")]
  @@ [p \in {"InBinderValueIdent"} \X {"("} |-> Push("Paren", "ExpectBinderCallClose")]
  @@ [p \in {"InBinderType", "AfterBinderType", "InBinderTypePath", "AfterBinderTypePath"} \X {"["} |->
        Push("Bracket", "ExpectBinderMult")]
  @@ [p \in {"SawTilde"} \X {"["} |-> Push("RelColBracket", "ExpectRelColSpec")]

(* The transitions that read the stack.  Pass: this state has no arm for b. *)

Pass == [do |-> "Pass", to |-> None, frame |-> None]
Guarded(condition, outcome) == IF condition THEN outcome ELSE Dead

ReadsStack(s, top, b) ==
  CASE s = "ExpectValue" /\ b = "*" -> Guarded(top = "Bracket", To("InMultiplicity"))
    [] s \in {"ExpectValue", "AfterValue"} /\ b \in Closers -> CloseTo(top, b, "AfterValue")
    [] s = "AfterValue" /\ b = ":" -> Guarded(HoldsALambdaSlot(top), To("AfterValueColon"))
    [] s = "AfterValue" /\ b = "," ->
         IF top = "RelColBracket" THEN To("ExpectRelColSpecReq")
         ELSE Guarded(SeparatesElements(top), To("ExpectValueReq"))
    [] s = "AfterValue" /\ b = ";" -> Guarded(top = "Brace", To("BlockStmtClose"))
    [] s \in {"ExpectRelColSpec", "InMultiplicity"} /\ b = "]" -> CloseTo(top, b, "AfterValue")
    [] s = "BlockStmtClose" /\ b = "}" -> CloseTo(top, b, "AfterValue")
    [] s = "ExpectBinderCallClose" /\ b = ")" -> CloseTo(top, b, "AfterValue")
    [] s \in {"InBinderMult", "AfterBinderMultToken"} /\ b = "]" -> CloseTo(top, b, "AfterBinderMult")
    [] s = "AfterBinderMult" /\ b = "," -> Guarded(top = "BraceLambda", To("ExpectBraceBinder"))
    [] s = "AfterColon" /\ b \in Ws -> Guarded(HoldsALambdaSlot(top), To("AfterColonWs"))
    [] s = "AfterColon" /\ b \in IdentStart -> Guarded(HoldsALambdaSlot(top), To("InBinderType"))
    [] s = "AfterColon" /\ b = "{" ->
         Guarded(HoldsALambdaSlot(top), Push("BraceLambda", "ExpectBraceBinder"))
    [] s = "SawPipe" /\ ~HoldsALambdaSlot(top) -> Dead
    [] s \in {"AfterRelColName", "ExpectLambdaBody"} /\ b = "|" -> Dead
    [] OTHER -> Pass

Own(s, top, b) ==
  IF b \in DOMAIN Moves[s] THEN To(Moves[s][b])
  ELSE IF <<s, b>> \in DOMAIN Opens THEN Opens[<<s, b>>]
  ELSE ReadsStack(s, top, b)

\* The state a byte without an arm of its own is handed to.
Delegate ==
  On({"AfterName", "AfterMemberName", "AfterStrLit", "AfterRelColName", "InNumberInt",
      "InNumberFrac", "InExp", "InDateLit", "InDateTime", "InDateFrac", "InMilestoneLit"},
     "AfterValue")
  @@ On({"ExpectLambdaBody", "SawDash", "SawPipe", "SawGt", "SawLt"}, "ExpectValueReq")
  @@ On({"LetL", "LetLe", "LetLet"}, "InSourceIdent")
  @@ [InIdent |-> "AfterName", InMemberIdent |-> "AfterMemberName",
      InArrowIdent |-> "AfterArrowName", InStrLitPending |-> "AfterStrLit",
      InRelColIdent |-> "AfterRelColName", InRelColStrLitPending |-> "AfterRelColName",
      InRelColLambdaBinder |-> "AfterRelColLambdaBinder",
      InRelAggReduceBinder |-> "AfterRelAggReduceBinder"]

\* A byte is delegated at most twice: InIdent, AfterName, AfterValue.
DelegatedTo(s) == IF s \in DOMAIN Delegate THEN Delegate[s] ELSE s
Responsible(s, top, b) ==
  LET first == DelegatedTo(s) IN
    IF Own(s, top, b) # Pass THEN s
    ELSE IF Own(first, top, b) # Pass THEN first ELSE DelegatedTo(first)
StepFrom(s, top, b) ==
  LET own == Own(Responsible(s, top, b), top, b) IN IF own = Pass THEN Dead ELSE own

Step == [s \in States, top \in Frames \cup {None}, b \in Bytes |-> StepFrom(s, top, b)]

\* completes_a_term, and what is_accepting asks of the state.
CompletesATerm == {"AfterValue", "AfterName", "AfterMemberName", "AfterStrLit", "AfterRelColName"}
Terminal ==
  {s \in States : Step[s, None, " "].do = "Next" /\ Step[s, None, " "].to \in CompletesATerm}

\* lexeme_kind: the lexeme a state is inside.
LexemeKind ==
  On({"InIdent", "InMemberIdent", "InSourceIdent", "InBinderValueIdent", "InBinder", "InBinderType",
      "SourceColon", "SourceColon2", "BinderTypeColon", "BinderTypeColon2", "InBinderTypePath",
      "LetL", "LetLe", "LetLet", "InRelColIdent", "InRelColLambdaBinder", "InArrowIdent",
      "InRelAggReduceBinder"}, "Ident")
  @@ On({"SawNumSign", "InNumberInt", "NeedFracDigit", "InNumberFrac", "SawExp", "NeedExpDigit",
         "InExp"}, "Number")
  @@ On({"SawPercent", "InDateLit", "DateSep", "InDateTime", "DateTimeSep", "DateFrac", "InDateFrac",
         "MilestoneL", "MilestoneLa", "MilestoneLat", "MilestoneLate", "MilestoneLates",
         "InMilestoneLit"}, "Date")
  @@ On({"InStrLit", "InStrLitPending", "InRelColStrLit", "InRelColStrLitPending"}, "Str")
  @@ On(States, None)

\* The states where a $ opens the name of a variable, and the bytes that end a term.
OpensRefvarSigil ==
  {"ExpectValue", "ExpectValueReq", "ExpectLambdaBody", "BlockStmt", "BlockStmtClose", "SawDash",
   "SawPipe", "SawLt", "SawGt"}
TermEndBytes == {")", ",", ";", "]", "}"}
=============================================================================
