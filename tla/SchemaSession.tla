--------------------------- MODULE SchemaSession ---------------------------
(***************************************************************************)
(* A decode session under a schema: allowed_mask, accept_token, reset and  *)
(* is_complete of crates/pure-analyzer-purecard/src/session.rs with the    *)
(* overlay of src/schema.  The mask is the predicate Allowed on tokens, so *)
(* the vocabulary holds every sequence of bytes.                           *)
(*                                                                         *)
(* The host follows a query that is well typed under the schema, in tokens *)
(* of up to MaxToken bytes that stay inside a lexeme or cross a seam that  *)
(* real vocabularies fuse, or leaves it and takes up to MaxStrays single   *)
(* bytes of the published mask.                                            *)
(***************************************************************************)
EXTENDS SchemaNarrow

CONSTANTS
  Final,      \* Terminal of PureGrammar, tabulated
  Queries, MaxToken, MaxStrays

ASSUME TableAssumption == Table = Step /\ Final = Terminal

VARIABLES
  state, stack,   \* the byte automaton
  tracker,        \* the scope machine
  l2_eos,         \* the cached end-of-stream verdict
  query,          \* the query the host follows
  taken,          \* how much of it the session has accepted
  strays          \* how many bytes the host has taken since it left the query

vars == <<state, stack, tracker, l2_eos, query, taken, strays>>

INSTANCE PushdownAutomaton WITH Start <- "Start", Step <- Table, Terminal <- Final, Vocab <- <<>>

Here == Config(state, stack)
Columns == tracker.emitted_strings
Vars == tracker.bound_vars
Prefix == tracker.pending.buf

-----------------------------------------------------------------------------
(* allowed_mask *)

\* The three passes of the overlay over what the grammar admits: the rule of the
\* position, the sigil that needs a bound variable, the dot fused with a name.
Passes(bytes, pos, fused) ==
  /\ Admits(Here, bytes)
  /\ Narrows(pos, Prefix, Columns, Vars) => Keeps(pos, Prefix, Columns, Vars, bytes)
  /\ MasksUnboundSigil(tracker, state) => bytes[1] # "$"
  /\ fused.at # "None" => FusedKeeps(fused, Columns, bytes)
PassingOf(tokens, pos, fused) == {bytes \in tokens : Passes(bytes, pos, fused)}

\* The tokens among `tokens` that the published mask admits, and its end-of-stream bit.
Allowed(tokens) == PassingOf(tokens, PositionAt(tracker, state), FusedNavPosition(tracker))
EosAt(pos) ==
  IsAccepting(Here) /\ (Narrows(pos, Prefix, Columns, Vars) => KeepsEos(pos, Prefix, Columns, Vars))
AllowedEos == EosAt(PositionAt(tracker, state))

\* is_complete
IsComplete == IsAccepting(Here) /\ l2_eos

-----------------------------------------------------------------------------

\* refresh_l2_eos, at the position the tracker and the automaton have reached
EosVerdict(t, s) ==
  AdmitsEos(PositionAt(t, s), t.pending.buf, t.emitted_strings, t.bound_vars)

\* accept_token: the tracker re-reads the token from the configuration before it.
AcceptToken(bytes) ==
  \E next \in {Run(Here, bytes)}, t \in {Observe(tracker, bytes, state, stack)} :
    /\ next.alive
    /\ state' = next.state
    /\ stack' = next.stack
    /\ tracker' = t
    /\ l2_eos' = EosVerdict(t, next.state)

\* reset
Reset ==
  /\ state' = "Start" /\ stack' = <<>> /\ tracker' = FreshTracker /\ l2_eos' = TRUE
  /\ query' \in Queries /\ taken' = 0 /\ strays' = 0

Init ==
  /\ state = "Start" /\ stack = <<>> /\ tracker = FreshTracker /\ l2_eos = TRUE
  /\ query \in Queries /\ taken = 0 /\ strays = 0

\* The seams between lexemes that a token may straddle (tests/bpe_split_soundness.rs,
\* seam_matches): a closing quote and its delimiter, a dot and the name after it,
\* an open parenthesis and the quote after it.
Fuses(left, right) ==
  \/ left = "'" /\ right \in {")", ","}
  \/ left = "." /\ right \in Letters
  \/ left = "(" /\ right = "'"

\* The tokens that carry the query on from here, as how many bytes they take.
NextTokens ==
  {n \in 1..MaxToken :
     /\ strays = 0 /\ taken + n <= Len(query.bytes)
     /\ \A p \in (taken + 1)..(taken + n - 1) :
          p \in query.ends => Fuses(query.bytes[p], query.bytes[p + 1])}
NextToken(n) == SubSeq(query.bytes, taken + 1, taken + n)

SingleBytes == {<<b>> : b \in Bytes}
OffTheQuery == IF strays < MaxStrays THEN Allowed(SingleBytes) ELSE {}

\* The host takes the query's next token, or a byte of the mask that leaves it.
Follows == {[bytes |-> NextToken(n), taken |-> taken + n, strays |-> 0] : n \in NextTokens}
Strays == {[bytes |-> bytes, taken |-> taken, strays |-> strays + 1] : bytes \in OffTheQuery}
Accept ==
  \E choice \in Follows \cup Strays :
    /\ AcceptToken(choice.bytes)
    /\ taken' = choice.taken
    /\ strays' = choice.strays
    /\ UNCHANGED query

Next == Accept \/ Reset
Spec == Init /\ [][Next]_vars

-----------------------------------------------------------------------------
(* Properties *)

\* "Soundness must hold at BPE granularity, not merely at lexeme granularity"
\* (tests/bpe_split_soundness.rs): whichever way a well-typed query is cut into
\* tokens of those shapes, no token that carries it on is ever masked, and at its end the mask
\* lets it end.
QueriesAreAdmitted ==
  strays = 0 =>
    /\ Allowed({NextToken(n) : n \in NextTokens}) = {NextToken(n) : n \in NextTokens}
    /\ taken = Len(query.bytes) => AllowedEos

\* "the schema overlay may narrow the per-step mask, but it may never empty it -
\* nor, at a term it agrees is already whole, mask away every way of ending that
\* term" (tests/l2_liveness.rs): at every position the masks lead to there is a
\* byte to go on with or the end of the stream, and whatever ends a whole term in
\* the grammar ends it under the overlay too.
NeverStuck ==
  \A pos \in {PositionAt(tracker, state)}, mask \in {Allowed(SingleBytes)} :
    /\ EosAt(pos) \/ mask # {}
    /\ pos.at \in {"SourceExtent", "StoreResult", "StrOperator"} /\ ~pos.flag =>
         /\ \A b \in TermEndBytes : Admits(Here, <<b>>) => <<b>> \in mask
         /\ IsAccepting(Here) => EosAt(pos)

\* The tracker and the automaton stay in step however the bytes were cut: the
\* tracker is as deep as the automaton's stack, every per-call record has that
\* depth, and what lambdas saved belongs to calls still open.  is_complete and
\* the end-of-stream bit of the mask never disagree, although one is remembered
\* from the last token and the other computed anew.
TrackerInStep ==
  /\ IsComplete <=> AllowedEos
  /\ tracker.depth = Len(stack)
  /\ Len(tracker.paren_receiver) = Len(stack) /\ Len(tracker.call_return) = Len(stack)
  /\ Len(tracker.tilde_open) = Len(stack) /\ Len(tracker.brace_binder_open) = Len(stack)
  /\ \A s \in Range(tracker.binder_saves) : s.depth <= Len(stack)
  /\ \A s \in Range(tracker.scope_saves) : s.depth <= Len(stack)
  /\ \A d \in Range(tracker.est_stack) \cup Range(tracker.ref_stack) : d <= Len(stack)
=============================================================================
