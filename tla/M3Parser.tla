------------------------------ MODULE M3Parser ------------------------------
(***************************************************************************)
(* The lossless query parser (crates/pure-analyzer-parser: m3.rs) and the  *)
(* builder that folds its events into a tree (crates/pure-analyzer-syntax: *)
(* builder.rs).  A source is the sequence of its token kinds, written one *)
(* token at a time; after every token the whole source is parsed.          *)
(*                                                                         *)
(* A parser is a record p: the tokens t, the index i of the next one, the  *)
(* events so far, the recursion depth, the tokens a diagnostic was pushed  *)
(* at ("diags"), the coverage gaps (the Domain parser's) and the answer of *)
(* the last function that gives one ("ok").                                *)
(* An event is the kind of an opened node, "advance" or "close".  The      *)
(* linked arena of EventStream is the sequence it flattens to: an anchor   *)
(* is a position, and no insertion moves a position at or before it.  The  *)
(* loops' exits for an index that did not move are kept where a token may  *)
(* really be left in place and left out where the loop has just bumped.    *)
(***************************************************************************)
EXTENDS Naturals, SequencesExt, FiniteSets

CONSTANTS MaxRecursionDepth,        \* MAX_RECURSION_DEPTH (256 in the code)
          MaxUnaryOperators,        \* MAX_UNARY_OPERATOR_COUNT (256)
          MaxRetroactiveWraps,      \* MAX_RETROACTIVE_WRAP_DEPTH (256)
          Drafts                    \* what sources are written from: the tokens they start with
                                    \* ("opening"), the "kinds" to go on with, how many ("room"),
                                    \* and the tokens that end them ("closing")

VARIABLES draft, source

parserVars == <<draft, source>>

-----------------------------------------------------------------------------
(* Tokens *)

Trivia == {"ws"}

\* is_name.
NameKinds == {"id", "x", "all", "allVersions", "allVersionsInRange", "let",
              "Class", "Association", "Profile", "extends", "stereotypes", "tags", "import"}

Literals == {"int", "string"}

KindAt(t, i) == IF i <= Len(t) THEN t[i] ELSE "eof"

\* next_significant_index_from; past the end when there is none.
SignificantFrom(t, from) ==
  CHOOSE i \in from..(Len(t) + 1) :
    KindAt(t, i) \notin Trivia /\ \A j \in from..(i - 1) : t[j] \in Trivia

RawKind(p) == KindAt(p.t, p.i)

AtEof(p) == p.i > Len(p.t)

SignificantIndex(p) == IF AtEof(p) THEN p.i ELSE SignificantFrom(p.t, p.i)

SignificantKind(p) == KindAt(p.t, SignificantIndex(p))

At(p, kind) == SignificantKind(p) = kind

\* next_significant_kind after the next significant token.
FollowingKind(p) ==
  IF SignificantIndex(p) >= Len(p.t) THEN "eof"
  ELSE KindAt(p.t, SignificantFrom(p.t, SignificantIndex(p) + 1))

\* error_current, at the next token or at the end.
Error(p) == [p EXCEPT !.diags = @ \cup {p.i}]

Answer(p, ok) == [p EXCEPT !.ok = ok]

\* The answer of this step and of an earlier one.
Both(earlier, p) == [p EXCEPT !.ok = earlier /\ @]

Opening(p, kind) == [p EXCEPT !.events = Append(@, kind)]

Closing(p) == [p EXCEPT !.events = Append(@, "close")]

\* wrap_from: the node opens right after the anchor.
WrapFrom(p, anchor, kind) ==
  [p EXCEPT !.events = SubSeq(@, 1, anchor) \o <<kind>> \o SubSeq(@, anchor + 1, Len(@))]

\* bump; an unrecognized token is reported when it is consumed.
Bump(p) ==
  IF AtEof(p) THEN Answer(p, FALSE)
  ELSE [p EXCEPT !.events = Append(@, "advance"), !.i = @ + 1, !.ok = TRUE,
                 !.diags = IF RawKind(p) = "error" THEN @ \cup {p.i} ELSE @]

RECURSIVE ConsumeTrivia(_), SkipTo(_, _)

ConsumeTrivia(p) == IF RawKind(p) \in Trivia THEN ConsumeTrivia(Bump(p)) ELSE p

TakeIf(p, kinds) == IF RawKind(p) \in kinds THEN Bump(p) ELSE Answer(p, FALSE)

ConsumeIf(p, kind) == TakeIf(ConsumeTrivia(p), {kind})

ReportMissing(p) == IF p.ok THEN p ELSE Error(p)

Expect(p, kind) == ReportMissing(ConsumeIf(p, kind))

ConsumeName(p) == ReportMissing(TakeIf(ConsumeTrivia(p), NameKinds))

\* recover_until leaves its boundary in place.
SkipTo(p, stops) ==
  IF AtEof(p) \/ SignificantKind(p) \in stops THEN p ELSE SkipTo(Bump(p), stops)

RecoverUntil(p, stops) == Closing(SkipTo(Opening(p, "ERROR_NODE"), stops))

RecoverOne(p) == Closing(Bump(Opening(p, "ERROR_NODE")))

\* An error and the skipped tokens, unless the last function succeeded.
OrRecover(p, stops) == IF p.ok THEN p ELSE RecoverUntil(Error(p), stops)

ExpressionBoundaries == {",", ")", "]", "}", ";"}

CodeBlockBoundaries == {"}", ",", ")", "]"}

-----------------------------------------------------------------------------
(* Lookahead *)

RECURSIVE HasPipe(_, _, _, _)

\* typed_short_lambda_has_pipe: a `|` outside the type's own brackets, before
\* anything that ends the parameter.
HasPipe(t, from, angles, brackets) ==
  IF from > Len(t) THEN FALSE
  ELSE LET kind == t[from]
           top == angles = 0 /\ brackets = 0 IN
    IF kind = "|" /\ top THEN TRUE
    ELSE IF kind \in {",", ";", "}", ")", "]"} /\ top THEN FALSE
    ELSE HasPipe(t, from + 1,
                 IF kind = "<" THEN angles + 1
                 ELSE IF kind = ">" /\ angles > 0 THEN angles - 1 ELSE angles,
                 IF kind = "[" THEN brackets + 1
                 ELSE IF kind = "]" /\ brackets > 0 THEN brackets - 1 ELSE brackets)

\* is_short_lambda_start.
ShortLambdaStarts(p) ==
  /\ SignificantKind(p) \in NameKinds
  /\ \/ FollowingKind(p) = "|"
     \/ /\ FollowingKind(p) = ":"
        /\ HasPipe(p.t, SignificantFrom(p.t, SignificantIndex(p) + 1) + 1, 0, 0)

\* is_lambda_body_start.
LambdaBodyStarts(p) == SignificantKind(p) \in {"{", "|"} \/ ShortLambdaStarts(p)

\* is_named_argument_start.
NamedArgumentStarts(p) == SignificantKind(p) \in NameKinds /\ FollowingKind(p) = "="

\* dot_starts_all_expression.
DotStartsAll(p) == FollowingKind(p) \in {"all", "allVersions", "allVersionsInRange"}

\* binary_precedence; 0 is none.
Precedence(kind) ==
  CASE kind \in {"==", "<", ">"} -> 1
    [] kind \in {"+", "-"} -> 2
    [] kind = "*" -> 3
    [] OTHER -> 0

-----------------------------------------------------------------------------
(* Names, types and multiplicities *)

RECURSIVE NameTail(_), NextName(_), ParseTypeReference(_), TypeArgumentLoop(_), ColumnInfoLoop(_)

\* parse_qualified_name; the answer is that of the last name, and a first name
\* that is missing does not end it.
NextName(p) == IF p.ok THEN NameTail(p) ELSE p

AfterPathSeparator(p, valid) == IF p.ok THEN NextName(ConsumeName(p)) ELSE Answer(p, valid)

NameTail(p) == AfterPathSeparator(ConsumeIf(p, "::"), p.ok)

ParseQualifiedName(p) ==
  Closing(NameTail(ConsumeName(ConsumeIf(Opening(p, "QUALIFIED_NAME"), "::"))))

Bound(p) == ReportMissing(TakeIf(ConsumeTrivia(p), {"int", "*"}))

RangeTail(p) == IF p.ok THEN Bound(Expect(p, ".")) ELSE p

\* parse_multiplicity, when one starts here.
OptionalMultiplicity(p) ==
  IF At(p, "[")
    THEN Closing(Expect(RangeTail(ConsumeIf(Bound(Expect(Opening(p, "MULTIPLICITY"), "[")), ".")), "]"))
    ELSE p

ColumnInfo(p) ==
  Closing(OptionalMultiplicity(ParseTypeReference(
    Expect(ConsumeName(Opening(p, "COLUMN_INFO")), ":"))))

AfterColumnInfo(p, before) == IF p.i = before \/ ~p.ok THEN p ELSE ColumnInfoLoop(p)

ColumnInfoLoop(p) == AfterColumnInfo(ConsumeIf(ColumnInfo(p), ","), p.i)

RelationColumns(p) == IF At(p, ")") THEN p ELSE ColumnInfoLoop(p)

RelationType(p) ==
  Closing(Expect(RelationColumns(Expect(Opening(p, "RELATION_TYPE"), "(")), ")"))

AfterTypeArgument(p, before) == IF p.i = before \/ ~p.ok THEN p ELSE TypeArgumentLoop(p)

TypeArgumentLoop(p) == AfterTypeArgument(ConsumeIf(ParseTypeReference(p), ","), p.i)

TypeArguments(p) == IF At(p, "(") THEN RelationType(p) ELSE TypeArgumentLoop(p)

AfterAngle(p, valid) ==
  IF p.ok THEN Both(valid, Expect(TypeArguments(p), ">")) ELSE Answer(p, valid)

GenericTail(p) == AfterAngle(ConsumeIf(p, "<"), p.ok)

Enter(p) == [p EXCEPT !.depth = @ + 1]

Leave(p) == [p EXCEPT !.depth = @ - 1]

ParseTypeReference(p) ==
  IF p.depth >= MaxRecursionDepth THEN Answer(Error(p), FALSE)
  ELSE Leave(Closing(GenericTail(ParseQualifiedName(Opening(Enter(p), "TYPE_REF")))))

\* parse_optional_parameter_type.
ParameterType(p) ==
  IF p.ok THEN OptionalMultiplicity(ParseTypeReference(p)) ELSE p

-----------------------------------------------------------------------------
(* Islands: raw tokens up to the end of the island *)

RECURSIVE BracedIsland(_, _), HashIsland(_)

Unterminated(p) == Answer(Closing(Closing(Closing(Opening(Error(p), "ERROR_NODE")))), FALSE)

\* parse_braced_opaque_island; "stack" holds the delimiters still open.
BracedIsland(p, stack) ==
  LET kind == RawKind(p)
      top == stack[Len(stack)]
      popped == SubSeq(stack, 1, Len(stack) - 1) IN
  IF kind = "eof" THEN Unterminated(p)
  ELSE IF kind \in {"#{", "#>{"} THEN BracedIsland(Bump(p), Append(stack, "island"))
  ELSE IF kind = "{" THEN BracedIsland(Bump(p), Append(stack, "brace"))
  ELSE IF kind = "}" /\ top = "brace" THEN BracedIsland(Bump(p), popped)
  ELSE IF kind = "}#" /\ top = "island"
    THEN IF popped = <<>> THEN Closing(Closing(Bump(p))) ELSE BracedIsland(Bump(p), popped)
  ELSE BracedIsland(Bump(p), stack)

\* parse_hash_opaque_island.
HashIsland(p) ==
  CASE RawKind(p) = "eof" -> Unterminated(p)
    [] RawKind(p) \in {"#", "}#"} -> Closing(Closing(Bump(p)))
    [] OTHER -> HashIsland(Bump(p))

\* The end of a table pointer: an unterminated one is skipped to its end.
PointerEnd(p) ==
  IF p.ok THEN p
  ELSE Answer(Closing(ConsumeIf(SkipTo(Opening(Closing(Opening(Error(p), "ERROR_NODE")), "ERROR_NODE"),
                                     {"}#", ";"}), "}#")), FALSE)

PointerName(p) == Both(p.ok, ConsumeName(p))
PointerDot(p) == Both(p.ok, Expect(p, "."))
PointerClose(p) == Both(p.ok, PointerEnd(ConsumeIf(p, "}#")))

\* parse_store_table_pointer: every part is tried, whichever is missing.
StorePointer(p) ==
  Closing(Closing(PointerClose(PointerName(PointerDot(ParseQualifiedName(
    Expect(Opening(Opening(p, "ISLAND"), "STORE_TABLE_POINTER"), "#>{")))))))

ParseIsland(p) ==
  CASE RawKind(p) = "#>{" -> StorePointer(p)
    [] RawKind(p) = "#{" -> BracedIsland(Bump(Opening(Opening(p, "ISLAND"), "OPAQUE_ISLAND")), <<"island">>)
    [] RawKind(p) = "#/" -> Closing(Closing(Bump(Opening(Opening(p, "ISLAND"), "NAV_PATH_ISLAND"))))
    [] RawKind(p) = "#" -> HashIsland(Bump(Opening(Opening(p, "ISLAND"), "OPAQUE_ISLAND")))

-----------------------------------------------------------------------------
(* Expressions *)

RECURSIVE ParseExpression(_, _), BinaryLoop(_, _, _, _), UnaryLoop(_, _), PostfixLoop(_, _, _),
          ParsePrimary(_), ParenLoop(_), ListLoop(_, _), Statements(_), ParameterLoop(_), CloseAll(_, _)

CloseAll(p, n) == IF n = 0 THEN p ELSE CloseAll(Closing(p), n - 1)

\* The members of a bracketed list: arguments, collection items, column
\* specifications.
Closer(what) == IF what \in {"arguments", "named arguments"} THEN ")" ELSE "]"

Stops(what) == {",", Closer(what), ";"}

\* The `:` parts of a column specification: a lambda, or a type and a lambda.
MapLambda(p) == IF LambdaBodyStarts(p) THEN ParsePrimary(p) ELSE Error(p)

ReduceTail(p) == IF p.ok THEN MapLambda(p) ELSE p

ColumnBody(p) ==
  IF LambdaBodyStarts(p) THEN ParsePrimary(p) ELSE OptionalMultiplicity(ParseTypeReference(p))

BodyIfColon(p) == IF p.ok THEN ReduceTail(ConsumeIf(ColumnBody(p), ":")) ELSE p

NameColumn(p) ==
  IF RawKind(p) \in NameKinds \cup {"string"}
    THEN Answer(Closing(Bump(Opening(p, "COLUMN_NAME"))), TRUE)
    ELSE Answer(Error(p), FALSE)

\* parse_column_spec; the answer is whether it has a name.
ColumnTail(p) == Answer(Closing(BodyIfColon(ConsumeIf(p, ":"))), p.ok)

ColumnSpec(p, tilde) ==
  LET opened == Opening(p, "COLUMN_SPEC") IN
  ColumnTail(NameColumn(ConsumeTrivia(IF tilde THEN Expect(opened, "~") ELSE opened)))

ArgumentName(p) == IF NamedArgumentStarts(p) THEN Expect(ConsumeName(p), "=") ELSE p

ListMember(p, what) ==
  CASE what = "columns" -> ColumnSpec(p, FALSE)
    [] what = "named arguments" -> OrRecover(ParseExpression(ArgumentName(p), 0), Stops(what))
    [] OTHER -> OrRecover(ParseExpression(p, 0), Stops(what))

\* A member must follow a comma.
AfterSeparator(p, what) ==
  IF At(p, Closer(what)) \/ (what = "columns" /\ AtEof(p)) THEN Error(p) ELSE ListLoop(p, what)

\* Where the skipped tokens of a malformed member end.
AfterSkip(p, what, before, start) ==
  IF At(p, ";") THEN p
  ELSE IF Closer(what) = ")" THEN IF p.i = before THEN p ELSE ListLoop(p, what)
  ELSE IF At(p, "]") \/ AtEof(p) \/ p.i = start THEN p
  ELSE AfterSeparator(ConsumeIf(p, ","), what)

\* A column specification that consumed nothing: only a comma starts another.
AfterNoColumn(p) == IF At(p, ",") THEN AfterSeparator(Bump(ConsumeTrivia(p)), "columns") ELSE p

AfterComma(p, what, before) ==
  IF p.i = before
    THEN IF what = "columns" THEN AfterNoColumn(RecoverUntil(p, Stops(what))) ELSE p
  ELSE IF p.ok THEN AfterSeparator(p, what)
  ELSE IF At(p, Closer(what)) \/ AtEof(p) THEN p
  ELSE AfterSkip(RecoverUntil(Error(p), Stops(what)), what, before, p.i)

AfterListMember(p, what, before) ==
  IF At(p, ";") THEN p ELSE AfterComma(ConsumeIf(p, ","), what, before)

ListLoop(p, what) == AfterListMember(ConsumeTrivia(ListMember(p, what)), what, p.i)

ListMembers(p, what) == IF At(p, Closer(what)) THEN p ELSE ListLoop(p, what)

ArgumentsIfOpen(p, what) == IF p.ok THEN ListMembers(p, what) ELSE p

CallArguments(p, what) ==
  Closing(Expect(ArgumentsIfOpen(Expect(Opening(p, "CALL_ARGS"), "("), what), ")"))

\* Arguments that must follow.
ArgumentsRequired(p) == IF At(p, "(") THEN CallArguments(p, "arguments") ELSE Error(p)

ArgumentsOptional(p, what) == IF At(p, "(") THEN CallArguments(p, what) ELSE p

-----------------------------------------------------------------------------

\* parse_query_expression.
QueryEnd(p) == IF p.ok THEN p ELSE RecoverOne(Error(p))

ParseQuery(p) == Closing(QueryEnd(ParseExpression(Opening(p, "QUERY_EXPR"), 0)))

\* parse_let_statement.
ParseLet(p) ==
  Closing(OrRecover(ParseExpression(
    Expect(ConsumeName(Expect(Opening(p, "LET_STMT"), "let")), "="), 0), ExpressionBoundaries))

\* parse_code_block.
AfterStatement(p, before) == IF p.i = before \/ ~p.ok THEN p ELSE Statements(ConsumeTrivia(p))

Statements(p) ==
  IF AtEof(p) \/ SignificantKind(p) \in CodeBlockBoundaries THEN p
  ELSE AfterStatement(ConsumeIf(ConsumeTrivia(IF At(p, "let") THEN ParseLet(p) ELSE ParseQuery(p)),
                                ";"), p.i)

CodeBlock(p) == Closing(Statements(Opening(p, "CODE_BLOCK")))

\* The body of a lambda after its `|`, and for a braced one its `}`.
BracedBody(p) == Both(p.ok, Expect(CodeBlock(p), "}"))

PlainBody(p) == Answer(CodeBlock(p), p.ok)

Parameter(p) == Answer(ParameterType(ConsumeIf(p, ":")), p.ok)

AfterParameter(p, named, before) ==
  IF p.i = before \/ ~named \/ ~p.ok THEN p ELSE ParameterLoop(p)

NextParameter(p, before) == AfterParameter(ConsumeIf(p, ","), p.ok, before)

NamedParameter(p) == Parameter(ConsumeName(p))

ParameterLoop(p) == NextParameter(NamedParameter(p), p.i)

LambdaParameters(p) ==
  IF At(p, "|") THEN p ELSE Closing(ParameterLoop(Opening(p, "LAMBDA_PARAMS")))

BracedLambda(p) ==
  Closing(BracedBody(Expect(LambdaParameters(Expect(Opening(p, "LAMBDA_EXPR"), "{")), "|")))

ShortLambda(p) ==
  Closing(PlainBody(Expect(Closing(NamedParameter(Opening(Opening(p, "LAMBDA_EXPR"), "LAMBDA_PARAMS"))), "|")))

BareLambda(p) == Closing(PlainBody(Expect(Opening(p, "LAMBDA_EXPR"), "|")))

-----------------------------------------------------------------------------

\* parse_parenthesized_items.
AfterParenItem(p, before) ==
  IF p.i = before \/ ~p.ok THEN p
  ELSE IF At(p, ")") THEN Error(p)
  ELSE ParenLoop(p)

ParenLoop(p) == AfterParenItem(ConsumeIf(OrRecover(ParseExpression(p, 0), {",", ")", ";"}), ","), p.i)

ParenItems(p) == IF At(p, ")") THEN p ELSE ParenLoop(p)

Parenthesized(p) == Closing(Expect(ParenItems(Expect(Opening(p, "PAREN_EXPR"), "(")), ")"))

Collection(p) ==
  Closing(Expect(ListMembers(Expect(Opening(p, "COLLECTION_LITERAL"), "["), "collection"), "]"))

\* parse_column_spec_array: a separator ends even a malformed array.
ArrayEnd(p) == Answer(p, p.ok \/ At(p, ";"))

ColumnSpecArray(p) ==
  ArrayEnd(Closing(Expect(ListMembers(Expect(Expect(Opening(p, "COLUMN_SPEC_ARRAY"), "~"), "["),
                                    "columns"), "]")))

VariableName(p) == Both(p.ok, ConsumeName(p))

Variable(p) == Closing(VariableName(Expect(Opening(p, "VARIABLE_EXPR"), "$")))

\* parse_new_instance_expression.
InstanceTarget(p) == IF At(p, "$") THEN Variable(p) ELSE ParseQualifiedName(p)

InstanceArguments(p) == Answer(ArgumentsOptional(p, "named arguments"), p.ok)

NewInstance(p) ==
  Closing(InstanceArguments(InstanceTarget(Expect(Opening(p, "NEW_INSTANCE_EXPR"), "^"))))

Cast(p) == Closing(ParseTypeReference(Expect(Opening(p, "CAST_EXPR"), "@")))

\* parse_primary_expression, once its trivia is consumed.
PrimaryAt(p) ==
  LET kind == RawKind(p) IN
  CASE kind = "$" -> Variable(p)
    [] kind \in Literals -> Closing(Bump(Opening(p, "LITERAL_EXPR")))
    [] kind = "(" -> Parenthesized(p)
    [] kind = "[" -> Collection(p)
    [] kind = "{" -> BracedLambda(p)
    [] kind = "|" -> BareLambda(p)
    [] kind = "~" -> IF FollowingKind(p) = "[" THEN ColumnSpecArray(p) ELSE ColumnSpec(p, TRUE)
    [] kind = "^" -> NewInstance(p)
    [] kind = "@" -> Cast(p)
    [] kind \in {"#>{", "#{", "#/", "#"} -> ParseIsland(p)
    [] kind = "error" -> Closing(Bump(Opening(p, "ERROR_NODE")))
    [] kind \in NameKinds /\ ShortLambdaStarts(p) -> ShortLambda(p)
    [] kind \in NameKinds \cup {"::"} /\ ~ShortLambdaStarts(p) -> ParseQualifiedName(p)
    [] OTHER -> Answer(p, FALSE)

ParsePrimary(p) == PrimaryAt(ConsumeTrivia(p))

\* parse_all_expression: allVersions takes no arguments.
AllName(p) ==
  CASE RawKind(p) \in {"all", "allVersionsInRange"} -> ArgumentsRequired(Bump(p))
    [] RawKind(p) = "allVersions" -> Bump(p)

AllExpression(p, anchor) ==
  Closing(AllName(ConsumeTrivia(Expect(WrapFrom(p, anchor, "ALL_EXPR"), "."))))

PropertyNavigation(p) ==
  Closing(ArgumentsOptional(ConsumeName(Expect(Opening(p, "PROPERTY_NAV"), ".")), "arguments"))

ArrowCall(p) ==
  Closing(ArgumentsRequired(ParseQualifiedName(Expect(Opening(p, "ARROW_CALL"), "->"))))

FunctionCall(p, anchor) ==
  Closing(CallArguments(WrapFrom(p, anchor, "FUNCTION_CALL"), "arguments"))

IndexItem(p) ==
  IF At(p, "]") THEN p ELSE OrRecover(ParseExpression(p, 0), {"]", ";"})

BracketIndex(p) == Closing(Expect(IndexItem(Expect(Opening(p, "BRACKET_INDEX"), "[")), "]"))

\* parse_postfix_expression: "wraps" is the budget reserve_retroactive_wrap takes
\* from; the chain ends, and stands, when it is spent.
PostfixLoop(p, anchor, wraps) ==
  LET kind == SignificantKind(p)
      wrapping == kind = "(" \/ (kind = "." /\ DotStartsAll(p)) IN
  IF wrapping /\ wraps >= MaxRetroactiveWraps THEN Answer(Error(p), TRUE)
  ELSE IF wrapping
    THEN PostfixLoop(IF kind = "(" THEN FunctionCall(p, anchor) ELSE AllExpression(p, anchor),
                     anchor, wraps + 1)
  ELSE IF kind = "." THEN PostfixLoop(PropertyNavigation(p), anchor, wraps)
  ELSE IF kind = "->" THEN PostfixLoop(ArrowCall(p), anchor, wraps)
  ELSE IF kind = "[" THEN PostfixLoop(BracketIndex(p), anchor, wraps)
  ELSE Answer(p, TRUE)

AfterPrimary(p, anchor) == IF p.ok THEN PostfixLoop(p, anchor, 0) ELSE p

ParsePostfix(p) == AfterPrimary(ParsePrimary(p), Len(p.events))

\* parse_unary_expression: the operator is looked for past trivia, and the next
\* token, trivia or not, is bumped.
UnaryOperand(p, n) == CloseAll(IF p.ok \/ n = 0 THEN p ELSE Error(p), n)

UnaryLoop(p, n) ==
  IF SignificantKind(p) \in {"+", "-"}
    THEN IF n = MaxUnaryOperators THEN Answer(CloseAll(Error(p), n), FALSE)
         ELSE UnaryLoop(Bump(Opening(p, "UNARY_EXPR")), n + 1)
    ELSE UnaryOperand(ParsePostfix(p), n)

\* One precedence goes on in the open node; another closes it and wraps it.
Wrapped(p, anchor, active, precedence) ==
  IF active = precedence THEN p
  ELSE WrapFrom(IF active = 0 THEN p ELSE Closing(p), anchor, "BINARY_EXPR")

\* An operator of the same precedence may follow on the right.
OperandMinimumSame(precedence) == precedence

\* The right operand of a left-associative operator binds tighter.
OperandMinimum(precedence) == precedence + 1

\* parse_expression_at_depth.
BinaryLoop(p, anchor, minimum, active) ==
  LET precedence == Precedence(SignificantKind(p)) IN
  IF precedence = 0 \/ precedence < minimum
    THEN Answer(IF active = 0 THEN p ELSE Closing(p), TRUE)
  ELSE BinaryLoop(
         OrRecover(ParseExpression(Bump(ConsumeTrivia(Wrapped(p, anchor, active, precedence))),
                                   OperandMinimum(precedence)),
                   ExpressionBoundaries),
         anchor, minimum, precedence)

AfterOperand(p, anchor, minimum) == IF p.ok THEN BinaryLoop(p, anchor, minimum, 0) ELSE p

ParseExpression(p, minimum) ==
  IF p.depth >= MaxRecursionDepth THEN Answer(Error(p), FALSE)
  ELSE Leave(AfterOperand(UnaryLoop(ConsumeTrivia(Enter(p)), 0), Len(p.events), minimum))

-----------------------------------------------------------------------------
(* The source, and the tree *)

RECURSIVE ParseSource(_)

\* consume_source_separator.
SourceSeparator(p) ==
  IF AtEof(p) \/ RawKind(p) = ";" THEN ConsumeIf(p, ";")
  ELSE ConsumeIf(RecoverUntil(Error(p), {";"}), ";")

AfterSourceQuery(p, before) == IF p.i = before THEN p ELSE ParseSource(ConsumeTrivia(p))

\* parse_source, past its leading trivia.
ParseSource(p) ==
  IF AtEof(p) THEN p
  ELSE IF RawKind(p) = ";" THEN ParseSource(ConsumeTrivia(Bump(p)))
  ELSE AfterSourceQuery(SourceSeparator(ConsumeTrivia(ParseQuery(p))), p.i)

Fresh(t) == [t |-> t, i |-> 1, events |-> <<>>, depth |-> 0, diags |-> {}, gaps |-> <<>>, ok |-> TRUE]

Parse(t) == Closing(ParseSource(ConsumeTrivia(Opening(Fresh(t), "ROOT"))))

\* fold_events: the nodes still open (each a sequence of its children under a
\* kind, with the number of tokens before it), the finished roots, the tokens
\* taken, and the first BuildError.
Node(kind, from) == [kind |-> kind, leaf |-> FALSE, children |-> <<>>, from |-> from, to |-> from]

Leaf(kind, from) ==
  [kind |-> kind, leaf |-> TRUE, children |-> <<>>, from |-> from, to |-> from + 1]

AddChild(stack, child) == [stack EXCEPT ![Len(stack)].children = Append(@, child)]

OpenNode(b, kind) ==
  IF kind = "ROOT" /\ b.stack # <<>> THEN [b EXCEPT !.error = "nested root"]
  ELSE [b EXCEPT !.stack = Append(@, Node(kind, b.taken))]

AdvanceToken(b, t) ==
  IF b.stack = <<>> THEN [b EXCEPT !.error = "advance outside a node"]
  ELSE IF b.taken >= Len(t) THEN [b EXCEPT !.error = "advance past the tokens"]
  ELSE [b EXCEPT !.stack = AddChild(@, Leaf(t[b.taken + 1], b.taken)), !.taken = @ + 1]

CloseNode(b) ==
  IF b.stack = <<>> THEN [b EXCEPT !.error = "close without open"]
  ELSE LET node == [b.stack[Len(b.stack)] EXCEPT !.to = b.taken]
           below == SubSeq(b.stack, 1, Len(b.stack) - 1) IN
    IF below = <<>> THEN [b EXCEPT !.stack = below, !.roots = Append(@, node)]
    ELSE [b EXCEPT !.stack = AddChild(below, node)]

ApplyEvent(b, event, t) ==
  IF b.error # "none" THEN b
  ELSE CASE event = "advance" -> AdvanceToken(b, t)
         [] event = "close" -> CloseNode(b)
         [] OTHER -> OpenNode(b, event)

\* finish_root.
Finished(b, t) ==
  IF b.error # "none" THEN b
  ELSE [b EXCEPT !.error =
          IF b.stack # <<>> THEN "unclosed nodes"
          ELSE IF b.taken # Len(t) THEN "unconsumed tokens"
          ELSE IF b.roots = <<>> THEN "missing root"
          ELSE IF Len(b.roots) # 1 THEN "multiple roots"
          ELSE IF b.roots[1].kind # "ROOT" THEN "expected root" ELSE "none"]

Build(t, events) ==
  Finished(FoldLeft(LAMBDA b, event : ApplyEvent(b, event, t),
                    [stack |-> <<>>, roots |-> <<>>, taken |-> 0, error |-> "none"], events), t)

-----------------------------------------------------------------------------
(* A source is written *)

ParserInit == draft \in Drafts /\ source = draft.opening

Written == source \o draft.closing

WriteToken ==
  /\ Len(source) < Len(draft.opening) + draft.room
  /\ \E kind \in draft.kinds : source' = Append(source, kind)
  /\ UNCHANGED draft

-----------------------------------------------------------------------------
(* Properties *)

RECURSIVE Nodes(_)

\* Every node of a tree.
Nodes(node) == {node} \cup UNION {Nodes(node.children[i]) : i \in DOMAIN node.children}

\* The tokens a reader of the grammar sees: trivia and the insides of opaque
\* islands left out.
RECURSIVE Visible(_)

Visible(node) ==
  IF node.leaf THEN IF node.kind \in Trivia THEN <<>> ELSE <<node.kind>>
  ELSE IF node.kind = "OPAQUE_ISLAND" THEN <<>>
  ELSE FoldLeft(LAMBDA tokens, child : tokens \o Visible(child), <<>>, node.children)

Openers == "(" :> ")" @@ "[" :> "]" @@ "{" :> "}" @@ "#>{" :> "}#"

\* Delimiters nest and match; "?" marks a mismatch.
Delimiters(tokens) ==
  FoldLeft(LAMBDA stack, kind :
             IF kind \in DOMAIN Openers THEN Append(stack, Openers[kind])
             ELSE IF kind \notin {")", "]", "}", "}#"} THEN stack
             ELSE IF stack # <<>> /\ stack[Len(stack)] = kind THEN SubSeq(stack, 1, Len(stack) - 1)
             ELSE Append(stack, "?"),
           <<>>, tokens)

IsOperator(child) == child.leaf /\ Precedence(child.kind) # 0

\* The precedence of a binary node is that of its operators.
Operators(node) == {Precedence(child.kind) : child \in {c \in ToSet(node.children) : IsOperator(c)}}

\* ParseAlwaysBuilds: whatever the tokens, the events nest, name every token
\* once and in order and make one ROOT, so that parse_query never fails on its
\* own events and the tree holds the whole source; the recursion budget is
\* handed back on every path.
ParseAlwaysBuilds ==
  \A p \in {Parse(Written)} : Build(Written, p.events).error = "none" /\ p.depth = 0

\* SilenceMeansWellFormed: a source parsed without a diagnostic has no skipped
\* token, its delimiters match, and its operators bind as their precedences
\* say: the operators of a binary node have one precedence,
\* and a binary node directly under it binds tighter.  No malformed source
\* passes in silence through a recovery, a lookahead or a budget.
SilenceMeansWellFormed ==
  \A p \in {Parse(Written)} : p.diags = {} =>
    \A root \in {Build(Written, p.events).roots[1]} :
      /\ Delimiters(Visible(root)) = <<>>
      /\ \A node \in Nodes(root) :
           /\ node.kind # "ERROR_NODE"
           /\ node.kind = "BINARY_EXPR" =>
                /\ Cardinality(Operators(node)) = 1
                /\ \A child \in ToSet(node.children) : child.kind = "BINARY_EXPR" =>
                     \A outer \in Operators(node), inner \in Operators(child) : outer < inner

=============================================================================
