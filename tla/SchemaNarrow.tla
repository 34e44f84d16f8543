---------------------------- MODULE SchemaNarrow ----------------------------
(***************************************************************************)
(* The rules of the schema overlay: which tokens a position keeps,         *)
(* crates/pure-analyzer-purecard/src/schema/narrow.rs over the byte trie   *)
(* of schema/trie.rs.  A trie is the function from its names to what each  *)
(* admits once whole; a node is the bytes that lead to it.                 *)
(***************************************************************************)
EXTENDS ScopePosition

Free == "free"   \* NameClose::Free; any other close is the byte that must follow

NamesOf(set) == [n \in set |-> Free]

-----------------------------------------------------------------------------
(* trie.rs *)

Child(trie, node, b) == \E n \in DOMAIN trie : IsPrefix(Append(node, b), n)
IsTerminal(trie, node) == node \in DOMAIN trie
CloseAdmits(close, b) == close = Free \/ close = b

\* NameShape::continues
ShapeContinues(shape, b) == b \in IdentTail \/ (shape = "ClassPath" /\ b = ":")

Stay(node) == [end |-> "Stay", at |-> node, boundary |-> None]
Complete(node, b) == [end |-> "Complete", at |-> node, boundary |-> b]
Diverge == [end |-> "Diverge", at |-> <<>>, boundary |-> None]

\* walk: an edge is preferred to the end of a name.
Walk(trie, node, bytes, shape) ==
  LET down(w, b) ==
        IF w.end # "Stay" THEN w
        ELSE IF Child(trie, w.at, b) THEN Stay(Append(w.at, b))
        ELSE IF IsTerminal(trie, w.at) /\ ~ShapeContinues(shape, b) THEN Complete(w.at, b)
        ELSE Diverge
  IN FoldLeft(down, Stay(node), bytes)

-----------------------------------------------------------------------------
(* The rules that hold a name to a set of names *)

Quote(content) ==
  <<"'">> \o FlattenSeq([i \in 1..Len(content) |->
                           IF content[i] = "'" THEN <<"'", "'">> ELSE <<content[i]>>]) \o <<"'">>

SpelledAll(names) == {Spelling[n] : n \in names \cap DOMAIN Spelling}

\* source_close: a class owes its `.all()`, the store its `->`.
SourceNames ==
  (<<"l", "e", "t">> :> Free)
  @@ [p \in SourcePaths(Schema) |-> IF HasClass(Schema, p) THEN "." ELSE "-"]

TrieKinds ==
  [SourceIdent |-> "ClassPath", BinderValueSourceIdent |-> "ClassPathContinuation",
   SourceMethod |-> "IdentOrStr", StoreMethod |-> "IdentOrStr", Member |-> "IdentOrStr",
   Column |-> "Str", RelationColumn |-> "Ident", RefVar |-> "Ident"]
KindShape(kind) == IF kind \in {"ClassPath", "ClassPathContinuation"} THEN "ClassPath" ELSE "Plain"

\* TrieRule::of: without bound variables RefVar is no rule.
HasTrieRule(pos, vars) == pos.at \in DOMAIN TrieKinds /\ (pos.at = "RefVar" => vars # <<>>)

\* Names::build
TrieOf(pos, columns, vars) ==
  LET members == MemberNames(Schema, pos.class) IN
    CASE pos.at \in {"SourceIdent", "BinderValueSourceIdent"} -> SourceNames
      [] pos.at = "SourceMethod" -> [n \in SpelledAll({SourceMethod}) |-> "("]
      [] pos.at = "StoreMethod" -> [n \in SpelledAll(DOMAIN StoreMethods) |-> "("]
      [] pos.at = "Member" -> NamesOf(members \cup {Quote(n) : n \in members})
      [] pos.at = "Column" -> NamesOf({Quote(c) : c \in Range(columns)})
      [] pos.at = "RelationColumn" -> NamesOf(Range(columns))
      [] pos.at = "RefVar" -> NamesOf(Range(vars))

\* name_point and NamePoint::admits_eos
NamePoint(trie, node) ==
  IF node = <<>> THEN "Anchor" ELSE IF ~IsTerminal(trie, node) THEN "Partial"
  ELSE IF trie[node] = Free THEN "Whole" ELSE "WholeMustFollow"
PointAdmitsEos(point) == point \in {"Anchor", "Whole"}

\* keeps_candidate
KeepsCandidate(trie, node, bytes, shape) ==
  LET w == Walk(trie, node, bytes, shape) IN
    w.end = "Stay" \/ (w.end = "Complete" /\ CloseAdmits(trie[w.at], w.boundary))

\* is_candidate
IsCandidate(bytes, kind, mid) ==
  /\ bytes # <<>>
  /\ CASE kind = "Ident" -> bytes[1] \in IdentTail
       [] kind = "ClassPath" -> bytes[1] \in IdentTail \cup {":"}
       [] kind = "ClassPathContinuation" -> ":" \in Range(bytes)
       [] kind = "Str" -> bytes[1] = "'" \/ mid
       [] kind = "IdentOrStr" -> bytes[1] \in IdentTail \cup {"'"} \/ mid

\* skip_leading_ws
RECURSIVE SkipLeadingWs(_)
SkipLeadingWs(bytes) == IF bytes # <<>> /\ bytes[1] \in Ws THEN SkipLeadingWs(Tail(bytes)) ELSE bytes

\* fill_trie, keeps_anchor_noncandidate
TrieKeeps(trie, node, kind, bytes) ==
  LET point == NamePoint(trie, node)
      rest == SkipLeadingWs(bytes)
  IN IF IsCandidate(bytes, kind, point # "Anchor") THEN KeepsCandidate(trie, node, bytes, KindShape(kind))
     ELSE IF kind = "ClassPathContinuation" THEN TRUE
     ELSE CASE point = "Partial" -> FALSE
            [] point = "WholeMustFollow" -> bytes[1] = trie[node]
            [] point = "Whole" -> TRUE
            [] point = "Anchor" ->
                 IsCandidate(rest, kind, FALSE) => KeepsCandidate(trie, <<>>, rest, KindShape(kind))

-----------------------------------------------------------------------------
(* The rules that deny or admit tokens by their shape *)

OpensWith(bytes, set) == bytes[1] \in set
NumberOpeners == {".", "-"}
OrderedComparators == {<<"<">>, <<">">>, <<"<", "=">>, <<">", "=">>}
StringOnlyMethods == {"toLower", "toUpper", "startsWith", "endsWith"}

\* keeps_operand, keeps_number_opener
KeepsOperand(lex, type) ==
  (lex = "Str" => type = "Str") /\ (lex = "Number" => type = "Numeric") /\ (lex = "Date" => type = "Temporal")
KeepsNumberOpener(bytes, accepted) == accepted \/ ~OpensWith(bytes, NumberOpeners)

\* fill_operand
OperandKeeps(bytes, type) ==
  KeepsOperand(Classify(bytes), type) /\ KeepsNumberOpener(bytes, KeepsOperand("Number", type))

\* fill_extent_method_arg
ExtentArgKeeps(bytes, arg) ==
  /\ Classify(bytes) \notin {"Str", "Date"}
  /\ Classify(bytes) = "Number" => arg = "Integer"
  /\ KeepsNumberOpener(bytes, arg = "Integer")

\* fill_source_method_arg
MethodArgKeeps(bytes, required, seen) ==
  CASE Classify(bytes) = "Ws" -> TRUE
    [] Classify(bytes) = "Close" -> required = NotTemporal \/ seen >= required
    [] Classify(bytes) \in {"Date", "Dollar"} -> required = NotTemporal \/ seen < required
    [] OTHER -> FALSE

\* continues_open_lexeme
ContinuesOpenLexeme(state, b) ==
  /\ Kind(state) # None
  /\ Table[state, None, b].do = "Next" /\ Kind(Table[state, None, b].to) = Kind(state)

\* fill_source_method_arg_sep, fill_store_method_arg_sep
Owed(remaining) == IF remaining THEN "," ELSE ")"
MethodArgSepKeeps(bytes, remaining, state) ==
  OpensWith(bytes, Ws \cup {Owed(remaining)}) \/ ContinuesOpenLexeme(state, bytes[1])
StoreArgSepKeeps(bytes, remaining) == OpensWith(bytes, Ws \cup {Owed(remaining), "'"})

\* opens_step_arrow, completes_step_arrow
OpensStepArrow(bytes) == Len(bytes) = 1 \/ IsPrefix(<<"-", ">">>, bytes)
CompletesStepArrow(bytes) == bytes[1] = ">"

\* Variant used to test the properties: only what continues the source is admitted.
SourceExtentKeepsSteps(bytes, afterDash) ==
  IF afterDash THEN CompletesStepArrow(bytes)
  ELSE OpensWith(bytes, Ws \cup {"."}) \/ (bytes[1] = "-" /\ OpensStepArrow(bytes))

\* keeps_source_extent
SourceExtentKeeps(bytes, afterDash) ==
  IF afterDash THEN CompletesStepArrow(bytes)
  ELSE OpensWith(bytes, Ws \cup {"."} \cup TermEndBytes) \/ (bytes[1] = "-" /\ OpensStepArrow(bytes))

\* keeps_after_completed_term
AfterTermKeeps(bytes, afterDash, denied) ==
  IF afterDash THEN CompletesStepArrow(bytes)
  ELSE IF bytes[1] = "-" THEN OpensStepArrow(bytes) ELSE bytes[1] \notin denied

\* keeps_value_ident
ValueIdentKeeps(bytes) ==
  OpensWith(bytes, IdentTail \cup {".", ":", "("}) \/ (bytes[1] = "|" /\ ~IsPrefix(<<"|", "|">>, bytes))

\* EXTENT_DENY, SCALAR_DENY, deny_cursor: no rule once the name cannot be denied.
DenyTrie(pos) ==
  NamesOf(SpelledAll(RelationReceiverMethods
                     \cup (IF pos.at = "ExtentMethod" THEN ExtentOnlyDeniedMethods ELSE {})))
DenyCursor(pos, prefix) == Walk(DenyTrie(pos), <<>>, prefix, "Plain")

\* fill_denied_method
DeniedKeeps(pos, prefix, bytes) ==
  /\ Walk(DenyTrie(pos), prefix, bytes, "Plain").end # "Complete"
  /\ pos.at = "ScalarMethod" /\ pos.type # "Str" => Named(bytes) \notin StringOnlyMethods

\* keeps_reducer
ReducerKeeps(bytes, type) == Named(bytes) \in {"sum", "average"} => type = "Numeric"

-----------------------------------------------------------------------------
(* narrow_into, and the two passes after it *)

DenyRule(pos) == pos.at \in {"ExtentMethod", "ScalarMethod"}

\* Whether a rule narrows here at all.
Narrows(pos, prefix, columns, vars) ==
  CASE HasTrieRule(pos, vars) ->
         Walk(TrieOf(pos, columns, vars), <<>>, prefix, KindShape(TrieKinds[pos.at])).end = "Stay"
    [] DenyRule(pos) -> DenyCursor(pos, prefix).end = "Stay"
    [] pos.at = "ReValue" -> pos.type \notin {"Boolean", "Temporal"}
    [] pos.at = "Comparator" -> pos.type \notin {"Numeric", "Temporal"}
    [] OTHER -> pos.at \notin DOMAIN TrieKinds \cup {"None"}

\* What a position that narrows keeps of the tokens.
Keeps(pos, prefix, columns, vars, bytes) ==
  CASE HasTrieRule(pos, vars) -> TrieKeeps(TrieOf(pos, columns, vars), prefix, TrieKinds[pos.at], bytes)
    [] DenyRule(pos) -> DeniedKeeps(pos, prefix, bytes)
    [] pos.at = "ReValue" -> OperandKeeps(bytes, pos.type)
    [] pos.at = "LogicalOperand" -> OperandKeeps(bytes, "Boolean") /\ ~OpensWith(bytes, {"|"})
    [] pos.at = "Comparator" -> bytes \notin OrderedComparators
    [] pos.at = "OrderedOperand" ->
         bytes \notin OrderedComparators /\ ~OpensWith(bytes, {"&", "|", "*", "/"})
    [] pos.at = "Reducer" -> ReducerKeeps(bytes, pos.type)
    [] pos.at \in {"SourceMethodArg", "PropertyMethodArg"} -> MethodArgKeeps(bytes, pos.required, pos.seen)
    [] pos.at \in {"SourceMethodArgSep", "PropertyMethodArgSep"} ->
         MethodArgSepKeeps(bytes, pos.flag, pos.state)
    [] pos.at = "StoreMethodArg" -> OpensWith(bytes, Ws \cup {"'"})
    [] pos.at = "StoreMethodArgSep" -> StoreArgSepKeeps(bytes, pos.flag)
    [] pos.at = "SourceExtent" -> SourceExtentKeeps(bytes, pos.flag)
    [] pos.at = "ExtentMethodArg" -> ExtentArgKeeps(bytes, pos.type)
    [] pos.at = "ReceiverOnlyArg" -> OpensWith(bytes, Ws \cup {")"})
    [] pos.at = "StoreResult" -> AfterTermKeeps(bytes, pos.flag, {"&", "|", "<", ">", "+", "*", "/"})
    [] pos.at = "StrOperator" -> AfterTermKeeps(bytes, pos.flag, {"*", "/"})
    [] pos.at = "ValueIdent" -> ValueIdentKeeps(bytes)

\* The end-of-stream bit of a position that narrows.
KeepsEos(pos, prefix, columns, vars) ==
  CASE HasTrieRule(pos, vars) -> PointAdmitsEos(NamePoint(TrieOf(pos, columns, vars), prefix))
    [] DenyRule(pos) -> ~IsTerminal(DenyTrie(pos), prefix)
    [] OTHER -> pos.at # "ValueIdent"

\* admits_eos: the same verdict without a mask.
AdmitsEos(pos, prefix, columns, vars) ==
  CASE DenyRule(pos) ->
         DenyCursor(pos, prefix).end # "Stay" \/ ~IsTerminal(DenyTrie(pos), prefix)
    [] HasTrieRule(pos, vars) ->
         LET trie == TrieOf(pos, columns, vars) IN
           Walk(trie, <<>>, prefix, KindShape(TrieKinds[pos.at])).end = "Stay"
             => PointAdmitsEos(NamePoint(trie, prefix))
    [] OTHER -> pos.at # "ValueIdent"

\* fused_post_dot and fill_fused_trie
FusedKeeps(fused, columns, bytes) ==
  LET trie == NamesOf(IF fused.at = "Member" THEN MemberNames(Schema, fused.class) ELSE Range(columns)) IN
    Len(bytes) > 1 /\ bytes[1] = "." /\ bytes[2] \in IdentStart
      => Walk(trie, <<>>, Tail(bytes), "Plain").end # "Diverge"
=============================================================================
