--------------------------- MODULE ScopePosition ---------------------------
(***************************************************************************)
(* How the scope tracker sees tokens, and what it answers: observe and     *)
(* position of crates/pure-analyzer-purecard/src/schema/scope.rs.  A token *)
(* is driven through the automaton again and cut where a lexeme opens or   *)
(* closes; a lexeme left open is kept until a later token closes it.       *)
(***************************************************************************)
EXTENDS ScopeTracker

Kind(state) == LexemeKind[state]

\* flush_gap: what lies between lexemes, cut into operators, delimiters and words.
\* Every piece is dispatched with the state before the whole gap.
RECURSIVE FlushGap(_, _, _)
FlushGap(t, gap, anchor) ==
  LET word == {n \in 1..Len(gap) : \A i \in 1..n : gap[i] \in IdentTail}
      n == CASE Len(gap) >= 2 /\ SubSeq(gap, 1, 2) \in TwoByteOps -> 2
             [] gap[1] \in IdentStart -> Cardinality(word)
             [] OTHER -> 1
      rest == SubSeq(gap, n + 1, Len(gap))
  IN IF gap = <<>> THEN t
     ELSE IF gap[1] \in Ws THEN FlushGap(t, Tail(gap), anchor)
     ELSE FlushGap(DispatchToken(t, SubSeq(gap, 1, n), anchor), rest, anchor)

\* emit_lexeme
EmitLexeme(t, seg, anchor, continuing) ==
  LET done == [t EXCEPT !.pending = NotPending] IN
    IF continuing /\ t.pending # NotPending
    THEN DispatchToken(done, t.pending.buf \o seg, t.pending.anchor)
    ELSE DispatchToken(t, seg, anchor)

-----------------------------------------------------------------------------
(* Positions *)

Decided(state) == state \in CompletesATerm

\* store_method_arg_sep, source_method_arg_sep, property_method_arg_sep
DateOrNameOpen == {"InDateLit", "InDateTime", "InDateFrac", "InMilestoneLit", "InMemberIdent"}
StoreArgSep(t, state) ==
  t.store_call_arity # NoArity /\ (Decided(state) \/ state = "InStrLitPending")
SourceArgSep(t, state) ==
  /\ Has(t, "in_source_method_args") /\ t.source_method_required # NotTemporal
  /\ Decided(state) \/ state \in DateOrNameOpen
PropertyArgSep(t, state) ==
  /\ Has(t, "in_property_method_args") /\ t.property_method_required # NotTemporal
  /\ Decided(state) \/ state \in DateOrNameOpen

\* completed_term_position
CompletedTermPosition(t) ==
  CASE Has(t, "awaiting_store_result") -> StepOff("StoreResult", FALSE)
    [] ~Has(t, "awaiting_store_result") /\ Has(t, "awaiting_str_operator") -> StepOff("StrOperator", FALSE)
    [] OTHER ->
         CASE t.last_nav = "NonScalar" \/ (t.last_nav = NoType /\ Has(t, "awaiting_class_call_result")) ->
                OrderedOperand
           [] t.last_nav = NoType /\ ~Has(t, "awaiting_class_call_result") -> Nowhere2
           [] OTHER -> OfType("Comparator", t.last_nav)

\* value_opening_position: the first rule that claims the operand.
ValueOpeningPosition(t, state) ==
  IF Has(t, "in_source_method_args")
  THEN DateSlot("SourceMethodArg", t.source_method_required, t.source_method_commas)
  ELSE IF Has(t, "in_property_method_args")
  THEN DateSlot("PropertyMethodArg", t.property_method_required, t.property_method_commas)
  ELSE IF t.store_call_arity # NoArity THEN StoreSlot
  ELSE IF Has(t, "receiver_only_call") THEN Position("ReceiverOnlyArg")
  ELSE IF state = "ExpectValue" /\ t.extent_call_arg # None
  THEN ExtentMethodArg(t.extent_call_arg)
  ELSE IF Has(t, "logical_pending") THEN LogicalOperand
  ELSE IF t.cmp_pending # NoType THEN OfType("ReValue", t.cmp_pending)
  ELSE IF InColumnArg(t) THEN Position("Column")
  ELSE IF InTildeKey(t, state) \/ InOpenBraceBinderList(t) THEN Nowhere2
  ELSE ValueIdent

AfterDotPosition(t) ==
  IF Has(t, "awaiting_source_method") THEN Position("SourceMethod")
  ELSE IF Has(t, "dot_is_column") THEN Position("RelationColumn")
  ELSE IF t.dot_base # NoName THEN Member(t.dot_base)
  ELSE Nowhere2

AfterArrowPosition(t) ==
  IF Has(t, "awaiting_store_method") THEN Position("StoreMethod")
  ELSE IF Has(t, "awaiting_extent_method") THEN ExtentMethod
  ELSE IF t.awaiting_reducer # NoType THEN OfType("Reducer", t.awaiting_reducer)
  ELSE IF t.awaiting_scalar_method # NoType
  THEN ScalarMethod(t.awaiting_scalar_method)
  ELSE Nowhere2

AfterDashPosition(t) ==
  IF Has(t, "awaiting_extent_step") THEN StepOff("SourceExtent", TRUE)
  ELSE IF Has(t, "awaiting_store_result") THEN StepOff("StoreResult", TRUE)
  ELSE IF Has(t, "awaiting_str_operator") THEN StepOff("StrOperator", TRUE)
  ELSE ValueIdent

\* opening_position
OpeningPosition(t, state) ==
  CASE state \in {"ExpectSource", "BlockStmt", "BlockStmtClose"} -> Position("SourceIdent")
    [] state = "ExpectBinderValue" -> Position("BinderValueSourceIdent")
    [] state = "AfterDollar" -> IF InMilestoningDateArg(t) THEN Nowhere2 ELSE RefVar
    [] state = "AfterDot" -> AfterDotPosition(t)
    [] state \in {"ExpectValue", "ExpectValueReq", "ExpectRelColSpec", "ExpectRelColSpecReq"} ->
         ValueOpeningPosition(t, state)
    [] state = "SawDash" -> AfterDashPosition(t)
    [] state \in {"SawPipe", "SawLt", "SawGt"} -> ValueIdent
    [] state \in CompletesATerm ->
         IF state = "AfterValue" /\ Has(t, "awaiting_extent_step") THEN StepOff("SourceExtent", FALSE)
         ELSE CompletedTermPosition(t)
    [] state = "AfterArrow" -> AfterArrowPosition(t)
    [] OTHER -> Nowhere2

\* value_ident_narrows: an identifier is open and is not a keyword yet.
ValueIdentNarrows(t) ==
  t.pending.kind = "Ident" /\ t.pending.buf # <<>> /\ Named(t.pending.buf) \notin {"true", "false"}

\* position
PositionAt(t, state) ==
  LET pos == IF Kind(state) # None THEN t.pending.pos ELSE OpeningPosition(t, state)
      narrowed == IF pos.at = "ValueIdent" /\ ~ValueIdentNarrows(t) THEN Nowhere2 ELSE pos
  IN IF StoreArgSep(t, state)
     THEN AfterStoreArg(t.store_call_commas + 1 < t.store_call_arity)
     ELSE IF SourceArgSep(t, state)
     THEN AfterDate("SourceMethodArgSep",
                    t.source_method_commas + 1 < t.source_method_required, state)
     ELSE IF PropertyArgSep(t, state)
     THEN AfterDate("PropertyMethodArgSep",
                    t.property_method_commas + 1 < t.property_method_required, state)
     ELSE IF narrowed.at = "None" /\ state = "InStrLitPending" THEN StepOff("StrOperator", FALSE)
     ELSE narrowed

\* masks_unbound_sigil
MasksUnboundSigil(t, state) ==
  state \in OpensRefvarSigil /\ t.bound_vars = <<>> /\ ~InMilestoningDateArg(t)

\* nav_from_var, nav_from_member, fused_nav_position
NavFromVar(t, var) ==
  IF var \in t.relation_row_vars THEN Position("RelationColumn")
  ELSE IF Lookup(t.var_class, var, NoName) = NoName THEN Nowhere2
  ELSE Member(t.var_class[var])
NavToClass(class) == IF class = NoName THEN Nowhere2 ELSE Member(class)
FusedNavPosition(t) ==
  IF t.pending # NotPending
  THEN CASE t.pending.kind = "Ident" /\ t.pending.anchor = "AfterDollar" -> NavFromVar(t, t.pending.buf)
         [] t.pending.kind = "Ident" /\ t.pending.anchor = "AfterDot" /\ t.dot_base # NoName ->
              NavToClass(Resolve(Schema, t.dot_base, t.pending.buf).path)
         [] OTHER -> Nowhere2
  ELSE IF t.pending_refvar # NoName THEN NavFromVar(t, t.pending_refvar)
  ELSE NavToClass(t.nav_cursor)

-----------------------------------------------------------------------------
(* observe *)

\* buffer_trailing: the lexeme left open, with the rule it was opened under.
BufferTrailing(t, kind, seg, anchor, continuing) ==
  LET opened == OpeningPosition(t, anchor)
      pos == CASE kind = "Ident" /\ opened.at \in {"ReValue", "ExtentMethodArg"} -> ValueIdent
               [] (kind # "Ident" /\ opened.at \in {"ReValue", "ExtentMethodArg"})
                  \/ opened.at \in {"SourceMethodArg", "PropertyMethodArg", "StoreMethodArg"} -> Nowhere2
               [] OTHER -> opened
  IN IF continuing THEN [t EXCEPT !.pending.buf = @ \o seg]
     ELSE [t EXCEPT !.pending = [kind |-> kind, buf |-> seg, anchor |-> anchor, pos |-> pos]]

\* One byte of the token: a segment ends where a lexeme opens or closes.
Moved(o, step) ==
  [o EXCEPT !.state = step.to,
            !.stack = CASE step.do = "Push" -> Append(@, step.frame)
                        [] step.do = "Pop" -> Front(@)
                        [] OTHER -> @]
ObserveByte(o, b) ==
  LET step == Table[o.state, IF o.stack = <<>> THEN None ELSE Last(o.stack), b]
      prev == Kind(o.state)
      cut(t) == [Moved(o, step) EXCEPT !.t = t, !.seg = <<b>>, !.anchor = o.state, !.continuing = FALSE]
  IN IF prev # None /\ Kind(step.to) # prev THEN cut(EmitLexeme(o.t, o.seg, o.anchor, o.continuing))
     ELSE IF prev = None /\ Kind(step.to) # None THEN cut(FlushGap(o.t, o.seg, o.anchor))
     ELSE [Moved(o, step) EXCEPT !.seg = Append(@, b)]

\* The state of a token's observation at its start, and what its end leaves.
Continues(t, state) == t.pending # NotPending /\ Kind(state) = t.pending.kind
Begun(t, state, stack) ==
  [t |-> IF Continues(t, state) \/ t.pending = NotPending THEN t
         ELSE DispatchToken([t EXCEPT !.pending = NotPending], t.pending.buf, t.pending.anchor),
   state |-> state, stack |-> stack, seg |-> <<>>, continuing |-> Continues(t, state),
   anchor |-> IF Continues(t, state) THEN t.pending.anchor ELSE state]
Ended(o) ==
  IF Kind(o.state) # None THEN BufferTrailing(o.t, Kind(o.state), o.seg, o.anchor, o.continuing)
  ELSE FlushGap(o.t, o.seg, o.anchor)

\* observe
Observe(t, bytes, state, stack) == Ended(FoldLeft(ObserveByte, Begun(t, state, stack), bytes))
=============================================================================
