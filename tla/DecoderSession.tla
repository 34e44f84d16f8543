--------------------------- MODULE DecoderSession ---------------------------
(***************************************************************************)
(* Decode sessions over one compiled grammar:                              *)
(* crates/pure-analyzer-purecard/src/session.rs without a schema, with the *)
(* lazily filled per-state cache of grammar/compiled.rs that every session *)
(* of the grammar shares.  The automaton is a parameter, so the sessions   *)
(* stand for those over the fixed grammar and over a supplied one.         *)
(***************************************************************************)
EXTENDS PushdownAutomaton, TLC

CONSTANTS
  Sessions,
  MaxOffset   \* the longest stream explored

ASSUME StepAssumption == StepIsTotal
ASSUME StackAssumption == None \notin Frames /\ Start \in States
ASSUME VocabAssumption == Vocab \in Seq(Seq(Bytes))

VARIABLES
  cache,    \* CompiledGrammar::cache: visited state -> its partition
  cursor,   \* session -> configuration of its automaton
  offset,   \* session -> bytes consumed
  mask,     \* session -> the reused mask buffer
  fresh,    \* the sessions whose buffer was filled at their present position
  fed       \* session -> the bytes it has consumed since the last reset

vars == <<cache, cursor, offset, mask, fresh, fed>>

Home == Config(Start, <<>>)

Init ==
  /\ cache = [s \in {} |-> Partition(s)]
  /\ cursor = [i \in Sessions |-> Home]
  /\ offset = [i \in Sessions |-> 0]
  /\ mask = [i \in Sessions |-> {}]
  /\ fresh = {}
  /\ fed = [i \in Sessions |-> <<>>]

-----------------------------------------------------------------------------

\* Variant used to test the properties: the tokens are probed over the stack of
\* the session that happens to visit the state first.
BuiltLive(i) ==
  [indep |-> {t \in Tokens : Admits(cursor[i], Vocab[t])}, deferred |-> {}]

\* get_or_init: the partition of the state, over an empty stack.
Built(i) == Partition(cursor[i].state)

Lookup(i) ==
  IF cursor[i].state \in DOMAIN cache THEN cache[cursor[i].state] ELSE Built(i)

\* allowed_mask
AllowedMask(i) ==
  /\ cache' = [s \in DOMAIN cache \cup {cursor[i].state} |->
                IF s = cursor[i].state THEN Lookup(i) ELSE cache[s]]
  /\ mask' = [mask EXCEPT ![i] = Mask(cursor[i], Lookup(i))]
  /\ fresh' = fresh \cup {i}
  /\ UNCHANGED <<cursor, offset, fed>>

\* The stream of i advances by bytes to the configuration next.
Commit(i, next, bytes) ==
  /\ cursor' = [cursor EXCEPT ![i] = next]
  /\ offset' = [offset EXCEPT ![i] = @ + Len(bytes)]
  /\ fed' = [fed EXCEPT ![i] = @ \o bytes]
  /\ fresh' = fresh \ {i}
  /\ UNCHANGED <<cache, mask>>

\* Variant used to test the properties: the bytes are fed to the live automaton
\* and stay there when a later byte of the token dies.
AcceptTokenInPlace(i, t) ==
  LET next == Run(cursor[i], Vocab[t]) IN
    IF next.alive THEN Commit(i, next, Vocab[t])
    ELSE /\ cursor' = [cursor EXCEPT ![i] = [next EXCEPT !.alive = TRUE]]
         /\ UNCHANGED <<cache, offset, mask, fresh, fed>>

\* accept_token of a vocabulary token: a clone takes the bytes and replaces the
\* automaton only if all of them survive.
AcceptToken(i, t) ==
  LET next == Run(cursor[i], Vocab[t]) IN
    IF next.alive THEN Commit(i, next, Vocab[t]) ELSE UNCHANGED vars

\* accept_byte
AcceptByte(i, b) ==
  LET next == Advance(cursor[i], b) IN
    IF next.alive THEN Commit(i, next, <<b>>) ELSE UNCHANGED vars

\* reset: the buffer keeps its bits.
Reset(i) ==
  /\ cursor' = [cursor EXCEPT ![i] = Home]
  /\ offset' = [offset EXCEPT ![i] = 0]
  /\ fed' = [fed EXCEPT ![i] = <<>>]
  /\ fresh' = fresh \ {i}
  /\ UNCHANGED <<cache, mask>>

\* The derived clone: j becomes a copy of i.
Clone(i, j) ==
  /\ cursor' = [cursor EXCEPT ![j] = cursor[i]]
  /\ offset' = [offset EXCEPT ![j] = offset[i]]
  /\ mask' = [mask EXCEPT ![j] = mask[i]]
  /\ fed' = [fed EXCEPT ![j] = fed[i]]
  /\ fresh' = IF i \in fresh THEN fresh \cup {j} ELSE fresh \ {j}
  /\ UNCHANGED cache

Next ==
  \E i \in Sessions :
    \/ AllowedMask(i)
    \/ Reset(i)
    \/ \E t \in Tokens : offset[i] + Len(Vocab[t]) <= MaxOffset /\ AcceptToken(i, t)
    \/ \E b \in Bytes : offset[i] < MaxOffset /\ AcceptByte(i, b)
    \/ \E j \in Sessions \ {i} : Clone(i, j)

Spec == Init /\ [][Next]_vars

-----------------------------------------------------------------------------
(* Properties *)

\* "tokens that keep the stream inside the recognizer": the mask a session
\* publishes holds exactly the tokens accept_token takes at that position,
\* whichever session filled the cache and over whichever stack.
PublishedMaskIsExact == \A i \in fresh : mask[i] = Acceptable(cursor[i])

\* A session is where the bytes it accepted lead: a rejected token leaves no
\* trace, accepting a token is accepting its bytes one by one, and the offset
\* counts them.
SessionsReplay ==
  \A i \in Sessions : cursor[i] = Run(Home, fed[i]) /\ offset[i] = Len(fed[i])
=============================================================================
