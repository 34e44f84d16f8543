---------------------------- MODULE ScopeTracker ----------------------------
(***************************************************************************)
(* The scope machine of the schema overlay:                                *)
(* crates/pure-analyzer-purecard/src/schema/scope.rs.  It follows the      *)
(* lexemes of a query, whichever tokens they arrive in, and says at every  *)
(* point which rule of the overlay narrows what may come next.             *)
(*                                                                         *)
(* The tracker is a record with the fields of ScopeTracker; its Boolean    *)
(* fields are the members of the set `flags`.  NoName and NoType stand for *)
(* None.  A method, keyword or primitive type is known by its spelling.    *)
(***************************************************************************)
EXTENDS PureGrammar, SchemaModel

CONSTANTS
  Table,     \* Step of PureGrammar, tabulated
  Schema,
  Spelling   \* the names of the tables below that can occur -> their bytes

Named(bytes) ==
  IF \E n \in DOMAIN Spelling : Spelling[n] = bytes
  THEN CHOOSE n \in DOMAIN Spelling : Spelling[n] = bytes ELSE "other"

SourceMethod == "all"
StoreMethods == [tableReference |-> 2]
RelationReceiverMethods ==
  {"asOfJoin", "extend", "join", "olapGroupBy", "pivot", "renameColumns", "restrict",
   "tableReference", "tableToTDS"}
ExtentOnlyDeniedMethods ==
  {"agg", "average", "between", "endsWith", "in", "pair", "parseFloat", "startsWith", "substring",
   "sum", "toLower", "toString", "year"}
ExtentMethodArgs == [groupBy |-> "Function", limit |-> "Integer"]
ReceiverOnlyMethods == {"count", "isEmpty", "isNotEmpty", "size", "toOne"}
EstablishingMethods == {"project", "groupBy", "olapGroupBy"}
RefMethods ==
  {"getInteger", "getFloat", "getString", "getBoolean", "sort", "asc", "desc", "restrict"}
TypePreservingMethods == {"toOne"}
FixedReturns ==
  [getInteger |-> "Numeric", getFloat |-> "Numeric", getString |-> "Str", getBoolean |-> "Boolean",
   count |-> "Numeric", isEmpty |-> "Boolean", isNotEmpty |-> "Boolean", size |-> "Numeric"]
NestedSourceMinDepth == 2

\* call_return_type
CallReturnType(method, receiver) ==
  CASE method \in TypePreservingMethods -> receiver
    [] method \in DOMAIN FixedReturns -> FixedReturns[method]
    [] OTHER -> NoType

-----------------------------------------------------------------------------
(* Lexemes *)

TwoByteOps ==
  {<<"-", ">">>, <<"=", "=">>, <<"!", "=">>, <<"<", "=">>, <<">", "=">>, <<"&", "&">>, <<"|", "|">>}
LogicalOperators == {<<"&", "&">>, <<"|", "|">>}
StepDash == <<"-">>

FixedLexemes ==
  On({<<"-", ">">>}, "Arrow") @@ On({<<".">>}, "Dot") @@ On({<<"$">>}, "Dollar") @@ On({<<"|">>}, "Pipe")
  @@ On({<<",">>}, "Comma") @@ On({<<"(">>, <<"[">>, <<"{">>}, "Open")
  @@ On({<<")">>, <<"]">>, <<"}">>}, "Close")
  @@ On({<<"=", "=">>, <<"!", "=">>, <<"<", "=">>, <<">", "=">>, <<"<">>, <<">">>}, "Cmp")

Classify(bytes) ==
  CASE \A i \in 1..Len(bytes) : bytes[i] \in Ws -> "Ws"
    [] bytes \in DOMAIN FixedLexemes -> FixedLexemes[bytes]
    [] bytes[1] = "'" -> "Str"
    [] bytes[1] = "%" -> "Date"
    [] bytes[1] \in Digit \/ (bytes[1] = "-" /\ Len(bytes) > 1 /\ bytes[2] \in Digit) -> "Number"
    [] bytes[1] \in IdentStart -> "Ident"
    [] OTHER -> "Other"

\* pending_operator_byte: the first byte of an operator the automaton is inside.
PendingOperatorByte ==
  [SawDash |-> <<"-">>, SourceDash |-> <<"-">>, SawEq |-> <<"=">>, SawBang |-> <<"!">>,
   SawGt |-> <<">">>, SawLt |-> <<"<">>, SawPipe |-> <<"|">>]
Joined(bytes, anchor) ==
  IF anchor \in DOMAIN PendingOperatorByte /\ Len(bytes) = 1
  THEN PendingOperatorByte[anchor] \o bytes ELSE bytes

\* classify_at and is_logical_operator: a lone second byte is read with the first.
ClassifyAt(bytes, anchor) ==
  Classify(IF Joined(bytes, anchor) \in TwoByteOps THEN Joined(bytes, anchor) ELSE bytes)
IsLogicalOperator(bytes, anchor) == {bytes, Joined(bytes, anchor)} \cap LogicalOperators # {}

\* unquote: without the outer quotes, and one quote for two.
Unquote(bytes) ==
  LET inner == IF Len(bytes) > 1 /\ Last(bytes) = "'" THEN SubSeq(bytes, 2, Len(bytes) - 1) ELSE bytes
      take(r, b) == IF b = "'" /\ r.quote THEN [r EXCEPT !.quote = FALSE]
                    ELSE [text |-> Append(r.text, b), quote |-> b = "'"]
  IN FoldLeft(take, [text |-> <<>>, quote |-> FALSE], inner).text

-----------------------------------------------------------------------------
(* The tracker *)

\* L2Position, with every payload a variant may carry.
Position(at) ==
  [at |-> at, class |-> NoName, type |-> NoType, required |-> NotTemporal, seen |-> 0,
   flag |-> FALSE, state |-> None]
Nowhere2 == Position("None")

\* A slot of a call that owes dates, and the place after one of its arguments.
DateSlot(at, required, seen) == [Position(at) EXCEPT !.required = required, !.seen = seen]
AfterDate(at, remaining, state) == [Position(at) EXCEPT !.flag = remaining, !.state = state]
\* The same of a store method, whose arguments are strings.
StoreSlot == Position("StoreMethodArg")
AfterStoreArg(remaining) == [Position("StoreMethodArgSep") EXCEPT !.flag = remaining]
\* A completed term that takes a step: was the dash of the arrow emitted?
StepOff(at, afterDash) == [Position(at) EXCEPT !.flag = afterDash]
\* What may follow a logical operator, and a class extent: its methods and their arguments.
LogicalOperand == Position("LogicalOperand")
ExtentMethod == Position("ExtentMethod")
ExtentMethodArg(shape) == [Position("ExtentMethodArg") EXCEPT !.type = shape]
\* A member of a class, and what the type on the left decides.
Member(class) == [Position("Member") EXCEPT !.class = class]
OfType(at, type) == [Position(at) EXCEPT !.type = type]
OrderedOperand == Position("OrderedOperand")
ScalarMethod(type) == OfType("ScalarMethod", type)
\* A variable, and a bare word that must turn into something.
RefVar == Position("RefVar")
ValueIdent == Position("ValueIdent")

NotPending == [kind |-> None, buf |-> <<>>, anchor |-> None, pos |-> Nowhere2]
NoBinder == [name |-> NoName, type |-> NoType, class |-> NoName]
NoArity == 0
Nothing == [n \in {} |-> NoName]

\* The fields of ScopeTracker: what is navigated and bound, which calls are open,
\* what is awaited, and the names the stream has brought.
FreshNavigation ==
  [pending |-> NotPending, cur_class |-> NoName, var_class |-> Nothing, pending_refvar |-> NoName,
   dot_base |-> NoName, nav_cursor |-> NoName, last_nav |-> NoType, last_nav_class |-> NoName,
   cmp_pending |-> NoType, var_reducer_type |-> Nothing, pending_binder_element |-> NoBinder,
   pending_binder_class |-> NoBinder, awaiting_reducer |-> NoType, last_call_type |-> NoType,
   pending_arrow_type |-> NoType, awaiting_scalar_method |-> NoType, call_return |-> <<>>,
   lambda_first_ident |-> NoName, pending_arrow_receiver |-> {}, paren_receiver |-> <<>>,
   est_stack |-> <<>>, ref_stack |-> <<>>, depth |-> 0, last_ident |-> NoName, tilde_open |-> <<>>,
   brace_binder_open |-> <<>>, relation_row_vars |-> {}]
FreshCalls ==
  [binder_saves |-> <<>>, scope_saves |-> <<>>, source_path_seen |-> None, store_call_arity |-> NoArity,
   store_call_commas |-> 0, source_method_required |-> NotTemporal, source_method_commas |-> 0,
   property_method_required |-> NotTemporal, property_method_commas |-> 0]
FreshAwaits == [extent_call_arg |-> None, flags |-> {}]
FreshNames == [emitted_strings |-> <<>>, bound_vars |-> <<>>]

\* ScopeTracker::new
FreshTracker == FreshNavigation @@ FreshCalls @@ FreshAwaits @@ FreshNames

Has(t, flag) == flag \in t.flags
Raised(condition, flag) == IF condition THEN {flag} ELSE {}
Lookup(f, name, default) == IF name \in DOMAIN f THEN f[name] ELSE default
\* An entry whose value is `absent` reads as no entry.
Put(f, name, value, absent) ==
  [n \in {m \in DOMAIN f \cup {name} : m # name \/ value # absent} |->
    IF n = name THEN value ELSE f[n]]
PopLast(s) == IF s = <<>> THEN s ELSE Front(s)
TopOf(s, default) == IF s = <<>> THEN default ELSE Last(s)

\* bind_var
BindVar(vars, name) ==
  IF Range(name) \subseteq IdentTail /\ name \notin Range(vars) THEN Append(vars, name) ELSE vars

InMilestoningDateArg(t) == Has(t, "in_source_method_args") \/ Has(t, "in_property_method_args")

\* in_tilde_key, in_open_brace_binder_list, in_column_arg
InTildeKey(t, state) ==
  state \in {"ExpectRelColSpec", "ExpectRelColSpecReq"} /\ TopOf(t.tilde_open, FALSE)
InOpenBraceBinderList(t) == TopOf(t.brace_binder_open, FALSE)
InColumnArg(t) == t.ref_stack # <<>> /\ Has(t, "rel_explicit") /\ t.est_stack = <<>>

-----------------------------------------------------------------------------
(* What each lexeme does *)

\* resolve_member, and the result it leaves for last_nav.
ResolveMember(t, ident) ==
  LET m == Resolve(Schema, t.dot_base, ident) IN
    CASE Has(t, "awaiting_source_method") -> [t EXCEPT !.flags = @ \ {"awaiting_source_method"}]
      [] ~Has(t, "awaiting_source_method") /\ Has(t, "dot_is_column") ->
           [t EXCEPT !.flags = @ \ {"dot_is_column"}, !.nav_cursor = NoName, !.last_nav_class = NoName]
      [] OTHER ->
           IF t.dot_base = NoName THEN t
           ELSE [t EXCEPT !.dot_base = NoName, !.nav_cursor = m.path, !.last_nav_class = m.path,
                          !.flags = @ \cup Raised(m.kind = "class" /\ ~m.one, "nav_to_many")]

NavResult(t, ident) ==
  LET m == Resolve(Schema, t.dot_base, ident) IN
    CASE {"awaiting_source_method", "dot_is_column"} \cap t.flags # {} \/ t.dot_base = NoName -> NoType
      [] m.kind = "class" -> "NonScalar"
      [] m.kind = "primitive" ->
           IF Has(t, "nav_to_many") \/ ~m.one THEN "NonScalar" ELSE TypeClass[m.prim]
      [] OTHER -> NoType

\* The identifier positions that name a binder.
BinderStates ==
  {"ExpectValue", "ExpectValueReq", "ExpectBraceBinder", "AfterRelColColon", "AfterValueColon"}
Annotates(text) == Named(text) \in DOMAIN TypeClass \/ HasClass(Schema, text)

OnIdentAt(t, text, pre) ==
  LET first == pre \in BinderStates \/ (pre \in {"AfterColon", "AfterColonWs"} /\ ~Annotates(text))
      annotated == pre \in {"AfterColon", "AfterColonWs"} /\ t.lambda_first_ident # NoName
  IN CASE pre = "AfterDollar" ->
            IF InMilestoningDateArg(t) THEN t ELSE [t EXCEPT !.pending_refvar = text]
       [] pre = "AfterDot" -> ResolveMember(t, text)
       [] pre = "ExpectBinder" -> [t EXCEPT !.bound_vars = BindVar(@, text)]
       [] first -> [t EXCEPT !.lambda_first_ident = text, !.bound_vars = BindVar(@, text)]
       [] annotated /\ Named(text) \in DOMAIN TypeClass ->
            [t EXCEPT !.pending_binder_element =
               [NoBinder EXCEPT !.name = t.lambda_first_ident, !.type = TypeClass[Named(text)]]]
       [] annotated /\ Named(text) \notin DOMAIN TypeClass /\ HasClass(Schema, text) ->
            [t EXCEPT !.pending_binder_class =
               [NoBinder EXCEPT !.name = t.lambda_first_ident, !.class = text]]
       [] OTHER -> t

\* on_ident
OnIdent(t, text, pre) ==
  LET source == pre \in {"ExpectSource", "BlockStmt", "BlockStmtClose"} /\ text \in SourcePaths(Schema)
      s == [t EXCEPT !.cur_class = IF HasClass(Schema, text) THEN text ELSE @,
                     !.source_path_seen = IF ~source THEN None
                                          ELSE IF HasClass(Schema, text) THEN "Class" ELSE "Store"]
      u == OnIdentAt(s, text, pre)
  IN [u EXCEPT !.emitted_strings =
                 IF pre = "SawTilde" \/ InTildeKey(u, pre) THEN Append(@, text) ELSE @,
               !.last_ident = text,
               !.flags = (@ \ {"last_ident_after_arrow", "last_ident_on_extent"})
                         \cup Raised(pre = "AfterArrow", "last_ident_after_arrow")
                         \cup Raised(Has(t, "awaiting_extent_method"), "last_ident_on_extent")]

\* on_dot
OnDot(t) ==
  LET var == t.pending_refvar
      row == var # NoName /\ var \in t.relation_row_vars
      chained == var = NoName /\ t.nav_cursor # NoName
      extent == var = NoName /\ ~chained /\ Has(t, "awaiting_extent_step")
  IN [t EXCEPT
        !.pending_refvar = NoName, !.source_path_seen = None,
        !.dot_base = CASE var # NoName -> IF row THEN NoName ELSE Lookup(t.var_class, var, NoName)
                       [] chained -> t.nav_cursor
                       [] extent -> t.cur_class
                       [] OTHER -> NoName,
        !.flags = (@ \ {"dot_is_column", "awaiting_source_method", "nav_to_many"})
                  \cup Raised(t.source_path_seen # None, "awaiting_source_method")
                  \cup Raised(row, "dot_is_column")
                  \cup Raised(extent \/ (chained /\ Has(t, "nav_to_many")), "nav_to_many")]

\* arrow_receiver_type
ArrowReceiverType(t) ==
  CASE Has(t, "awaiting_str_operator") -> "Str"
    [] ~Has(t, "awaiting_str_operator") /\ t.last_call_type # NoType -> t.last_call_type
    [] OTHER -> IF t.last_nav = "NonScalar" THEN NoType ELSE t.last_nav

\* on_arrow
OnArrow(t) ==
  [t EXCEPT
     !.flags = (@ \ {"awaiting_store_method", "awaiting_extent_method"})
               \cup Raised(t.source_path_seen = "Store", "awaiting_store_method")
               \cup Raised(Has(t, "awaiting_extent_step"), "awaiting_extent_method"),
     !.awaiting_reducer = Lookup(t.var_reducer_type, t.pending_refvar, @),
     !.pending_arrow_type = ArrowReceiverType(t), !.awaiting_scalar_method = ArrowReceiverType(t),
     !.pending_arrow_receiver = {IF t.last_nav_class # NoName THEN t.last_nav_class ELSE t.cur_class},
     !.source_path_seen = None, !.last_nav_class = NoName, !.pending_refvar = NoName,
     !.nav_cursor = NoName, !.last_ident = NoName]

BinderSave(t, name) ==
  [depth |-> t.depth, name |-> name, class |-> Lookup(t.var_class, name, NoName),
   row |-> name \in t.relation_row_vars, reducer |-> Lookup(t.var_reducer_type, name, NoType)]

\* The binder of a lambda, with what it shadows saved.
BindClass(t, binder) ==
  [t EXCEPT !.pending_binder_class = NoBinder,
            !.lambda_first_ident = IF @ = binder.name THEN NoName ELSE @,
            !.binder_saves = Append(@, BinderSave(t, binder.name)),
            !.relation_row_vars = @ \ {binder.name},
            !.var_reducer_type = Put(@, binder.name, NoType, NoType),
            !.var_class = Put(@, binder.name, binder.class, NoName)]

BindReceiver(t, name) ==
  LET receiver == TopOf(t.paren_receiver, NoName)
      row == receiver = NoName /\ {"rel_explicit", "saw_tilde_bracket"} \subseteq t.flags
  IN [t EXCEPT !.lambda_first_ident = NoName, !.pending_binder_element = NoBinder,
               !.binder_saves = Append(@, BinderSave(t, name)),
               !.relation_row_vars = IF row THEN @ \cup {name} ELSE @ \ {name},
               !.var_class = Put(@, name, receiver, NoName),
               !.var_reducer_type = Put(@, name, t.pending_binder_element.type, NoType)]

\* The element type of a binder that another binder's name has overwritten.
BindElement(t, binder) ==
  [t EXCEPT !.pending_binder_element = NoBinder,
            !.binder_saves = Append(@, [BinderSave(t, binder.name) EXCEPT !.class = NoName, !.row = FALSE]),
            !.var_reducer_type = Put(@, binder.name, binder.type, NoType)]

\* on_pipe: the pipe of a query's own opening binds nothing.
OnPipe(t, pre) ==
  LET s == [t EXCEPT
              !.brace_binder_open = IF @ = <<>> THEN @ ELSE [@ EXCEPT ![Len(@)] = FALSE],
              !.scope_saves = Append(@, [depth |-> t.depth, cur_class |-> t.cur_class,
                                         flags |-> t.flags \cap {"rel_explicit", "saw_tilde_bracket"}])]
  IN CASE pre \in {"Start", "ExpectSource"} -> t
       [] OTHER ->
            IF t.pending_binder_class # NoBinder THEN BindClass(s, t.pending_binder_class)
            ELSE IF t.lambda_first_ident # NoName THEN BindReceiver(s, t.lambda_first_ident)
            ELSE IF t.pending_binder_element # NoBinder THEN BindElement(s, t.pending_binder_element)
            ELSE s

\* on_open
OnOpen(t, pre, opener) ==
  LET method == Named(t.last_ident)
      source == method = SourceMethod
      property == t.last_ident # NoName /\ ~source /\ t.last_nav # NoType
      extent == IF Has(t, "last_ident_on_extent") THEN method ELSE "other"
      nested == source /\ t.depth + 1 >= NestedSourceMinDepth
      tilde == pre = "SawTilde"
      depth == t.depth + 1
  IN [t EXCEPT
        !.last_ident = NoName, !.depth = depth, !.lambda_first_ident = NoName,
        !.source_method_required = IF source THEN Arity(Schema, t.cur_class) ELSE NotTemporal,
        !.source_method_commas = 0,
        !.property_method_required = IF property THEN Arity(Schema, t.last_nav_class) ELSE NotTemporal,
        !.property_method_commas = 0,
        !.store_call_arity = IF method \in DOMAIN StoreMethods THEN StoreMethods[method] ELSE NoArity,
        !.store_call_commas = 0,
        !.extent_call_arg = IF extent \in DOMAIN ExtentMethodArgs THEN ExtentMethodArgs[extent] ELSE None,
        !.tilde_open = Append(@, tilde), !.brace_binder_open = Append(@, opener = "{"),
        !.est_stack = IF method \in EstablishingMethods THEN Append(@, depth) ELSE @,
        !.ref_stack = IF method \in RefMethods THEN Append(@, depth) ELSE @,
        !.paren_receiver =
           Append(@, IF t.pending_arrow_receiver = {} THEN t.cur_class
                     ELSE CHOOSE r \in t.pending_arrow_receiver : TRUE),
        !.pending_arrow_receiver = {},
        !.call_return = Append(@, CallReturnType(method, t.pending_arrow_type)),
        !.pending_arrow_type = NoType,
        !.flags =
           (((@ \ {"in_source_method_args", "in_property_method_args", "receiver_only_call",
                   "extent_call_preserves_class"})
             \cup Raised(tilde, "saw_tilde_bracket"))
            \ (IF nested THEN {"rel_explicit", "saw_tilde_bracket"} ELSE {}))
           \cup Raised(source, "in_source_method_args")
           \cup Raised(property, "in_property_method_args")
           \cup Raised(Has(t, "last_ident_after_arrow") /\ method \in ReceiverOnlyMethods,
                       "receiver_only_call")
           \cup Raised(extent \in TypePreservingMethods, "extent_call_preserves_class")]

\* The saves made at the present depth, at the end of the list.
SavedHere(saves, depth) ==
  LET deeper == {i \in 1..Len(saves) : saves[i].depth # depth}
      from == IF deeper = {} THEN 1 ELSE 1 + CHOOSE i \in deeper : \A j \in deeper : j <= i
  IN SubSeq(saves, from, Len(saves))
LeftBelow(saves, depth) == SubSeq(saves, 1, Len(saves) - Len(SavedHere(saves, depth)))

RestoreBinder(save, t) ==
  [t EXCEPT !.var_class = Put(@, save.name, save.class, NoName),
            !.relation_row_vars = IF save.row THEN @ \cup {save.name} ELSE @ \ {save.name},
            !.var_reducer_type = Put(@, save.name, save.reducer, NoType)]

RestoreScope(save, t) ==
  [t EXCEPT !.cur_class = save.cur_class,
            !.flags = (@ \ {"rel_explicit", "saw_tilde_bracket"}) \cup save.flags]

\* Variant used to test the properties: the binders of a closed call stay as they are.
RestoredNot(t) == [t EXCEPT !.binder_saves = LeftBelow(@, t.depth), !.scope_saves = LeftBelow(@, t.depth)]

\* What the lambdas opened at this depth shadowed comes back, the last save first.
Restored(t) ==
  LET s == FoldRight(RestoreBinder, SavedHere(t.binder_saves, t.depth), t)
      u == FoldRight(RestoreScope, SavedHere(t.scope_saves, t.depth), s)
  IN [u EXCEPT !.binder_saves = LeftBelow(@, t.depth), !.scope_saves = LeftBelow(@, t.depth)]

\* Variant used to test the properties: a closer lowers the depth and no more.
OnCloseShallow(t) == [Restored(t) EXCEPT !.depth = IF @ = 0 THEN 0 ELSE @ - 1]

\* on_close
OnClose(t) ==
  LET r == Restored(t)
      establishes == TopOf(t.est_stack, 0) = t.depth /\ t.est_stack # <<>>
  IN [r EXCEPT
        !.source_method_required = NotTemporal, !.property_method_required = NotTemporal,
        !.store_call_arity = NoArity, !.extent_call_arg = None,
        !.tilde_open = PopLast(@), !.brace_binder_open = PopLast(@), !.paren_receiver = PopLast(@),
        !.ref_stack = IF @ # <<>> /\ Last(@) = t.depth THEN Front(@) ELSE @,
        !.est_stack = IF establishes THEN Front(@) ELSE @,
        !.cur_class = IF establishes THEN NoName ELSE @,
        !.last_call_type = TopOf(t.call_return, NoType), !.call_return = PopLast(@),
        !.depth = IF @ = 0 THEN 0 ELSE @ - 1,
        !.pending_arrow_receiver = {},
        !.flags =
           (@ \ {"awaiting_extent_step", "in_source_method_args", "in_property_method_args",
                 "awaiting_store_result", "receiver_only_call", "awaiting_class_call_result",
                 "extent_call_preserves_class"})
           \cup Raised(Has(t, "in_source_method_args"), "awaiting_extent_step")
           \cup Raised(t.store_call_arity # NoArity, "awaiting_store_result")
           \cup Raised(Has(t, "extent_call_preserves_class"), "awaiting_class_call_result")
           \cup Raised(establishes, "rel_explicit")]

\* on_comma
OnComma(t) ==
  [t EXCEPT !.lambda_first_ident = NoName, !.last_ident = NoName,
            !.pending_binder_element = NoBinder, !.pending_binder_class = NoBinder,
            !.store_call_commas = IF t.store_call_arity # NoArity THEN @ + 1 ELSE @,
            !.source_method_commas = IF Has(t, "in_source_method_args") THEN @ + 1 ELSE @,
            !.property_method_commas = IF Has(t, "in_property_method_args") THEN @ + 1 ELSE @]

OnLexeme(t, lex, bytes, pre) ==
  CASE lex = "Ident" -> OnIdent(t, bytes, pre)
    [] lex = "Dot" -> OnDot(t)
    [] lex = "Arrow" -> OnArrow(t)
    [] lex = "Cmp" ->
         IF t.last_nav \in {NoType, "NonScalar"} THEN t ELSE [t EXCEPT !.cmp_pending = t.last_nav]
    [] lex = "Pipe" -> OnPipe(t, pre)
    [] lex = "Open" -> OnOpen(t, pre, bytes[1])
    [] lex = "Close" -> OnClose(t)
    [] lex = "Comma" -> OnComma(t)
    [] lex = "Str" -> [t EXCEPT !.emitted_strings = Append(@, Unquote(bytes)), !.last_ident = NoName,
                                !.flags = @ \cup {"awaiting_str_operator"}]
    [] OTHER -> [t EXCEPT !.last_ident = NoName,
                          !.flags = @ \cup Raised(IsLogicalOperator(bytes, pre), "logical_pending")]

\* The flags that live for one lexeme only.
Expired(lex, bytes, pre) ==
  (IF lex = "Arrow" THEN {} ELSE {"awaiting_store_method", "awaiting_extent_method"})
  \cup (IF lex = "Close" THEN {} ELSE {"awaiting_class_call_result"})
  \cup (IF IsLogicalOperator(bytes, pre) THEN {} ELSE {"logical_pending"})
  \cup (IF lex = "Close" \/ bytes = StepDash THEN {} ELSE {"awaiting_extent_step", "awaiting_store_result"})
  \cup (IF lex = "Str" \/ bytes = StepDash THEN {} ELSE {"awaiting_str_operator"})

\* dispatch_token
DispatchToken(t, bytes, pre) ==
  LET lex == ClassifyAt(bytes, pre)
      s == OnLexeme(t, lex, bytes, pre)
  IN IF lex = "Ws" THEN t
     ELSE [s EXCEPT
             !.last_nav = IF lex = "Ident" /\ pre = "AfterDot" THEN NavResult(t, bytes) ELSE NoType,
             !.cmp_pending = IF lex = "Cmp" THEN @ ELSE NoType,
             !.awaiting_reducer = IF lex = "Arrow" THEN @ ELSE NoType,
             !.awaiting_scalar_method = IF lex = "Arrow" THEN @ ELSE NoType,
             !.last_call_type = IF lex = "Close" THEN @ ELSE NoType,
             !.flags = @ \ Expired(lex, bytes, pre)]
=============================================================================
