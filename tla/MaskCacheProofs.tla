-------------------------- MODULE MaskCacheProofs --------------------------
(***************************************************************************)
(* Decode sessions over every compiled grammar and every vocabulary: a     *)
(* session is where the bytes it accepted lead, and, if the table is       *)
(* StepIsFrameBlind, the masks it publishes are exact, however the         *)
(* sessions share the cache.                                               *)
(*                                                                         *)
(* The memo of the schema overlay, keyed by a count, is exact within a     *)
(* stream: every trie in it was built from the first names of the present  *)
(* list, as many as its key says, so the trie found under the present      *)
(* count is the present list.                                              *)
(***************************************************************************)
EXTENDS DecoderSession, NarrowCache, AutomatonFacts

\* The grammars of the sessions are such automata.
LEMMA SessionsRegular == Regular
  BY StepAssumption, StackAssumption, VocabAssumption DEF Regular

-----------------------------------------------------------------------------
(* Where a session is *)

Streams ==
  /\ cursor = [i \in Sessions |-> cursor[i]]
  /\ offset = [i \in Sessions |-> offset[i]]
  /\ fed \in [Sessions -> Seq(Bytes)]

ReplayInv == Streams /\ SessionsReplay

\* A stream that advances by bytes to where they lead is still the replay of what
\* it consumed.
LEMMA CommitReplays ==
  ASSUME ReplayInv, NEW i \in Sessions, NEW bytes \in Seq(Bytes),
         Commit(i, Run(cursor[i], bytes), bytes)
  PROVE  ReplayInv'
<1>1. /\ fed[i] \in Seq(Bytes) /\ fed[i] \o bytes \in Seq(Bytes)
      /\ Len(fed[i] \o bytes) = Len(fed[i]) + Len(bytes)
  BY DEF ReplayInv, Streams
<1>2. cursor[i] = Run(Home, fed[i]) /\ offset[i] = Len(fed[i])
  BY DEF ReplayInv, SessionsReplay
<1>3. Run(cursor[i], bytes) = Run(Home, fed[i] \o bytes)
  BY <1>1, <1>2, RunConcat
<1>4. Streams'
  BY <1>1 DEF Commit, ReplayInv, Streams
<1>5. ASSUME NEW j \in Sessions PROVE cursor'[j] = Run(Home, fed'[j]) /\ offset'[j] = Len(fed'[j])
  <2>1. CASE j = i
    BY <1>1, <1>2, <1>3, <2>1 DEF Commit, ReplayInv, Streams
  <2>2. CASE j # i
    BY <2>2 DEF Commit, ReplayInv, Streams, SessionsReplay
  <2> QED BY <2>1, <2>2
<1>6. SessionsReplay'
  BY <1>5 DEF SessionsReplay, Home, Config
<1> QED BY <1>4, <1>6 DEF ReplayInv

\* ReplayInv is inductive.
LEMMA ReplayStep == ReplayInv /\ [Next]_vars => ReplayInv'
<1> SUFFICES ASSUME ReplayInv, [Next]_vars PROVE ReplayInv'
  OBVIOUS
<1>1. ASSUME UNCHANGED <<cursor, offset, fed>> PROVE ReplayInv'
  BY <1>1 DEF ReplayInv, Streams, SessionsReplay, Home, Config
<1>2. ASSUME NEW i \in Sessions, AllowedMask(i) PROVE ReplayInv'
  BY <1>1, <1>2 DEF AllowedMask
<1>3. ASSUME NEW i \in Sessions, Reset(i) PROVE ReplayInv'
  <2>1. Run(Home, <<>>) = Home /\ Len(<<>>) = 0 /\ <<>> \in Seq(Bytes)
    BY RunShort
  <2>2. Streams'
    <3>1. PICK empty : empty = <<>>
      OBVIOUS
    <3>2. fed' = [fed EXCEPT ![i] = empty] /\ empty \in Seq(Bytes)
      BY <1>3, <2>1, <3>1 DEF Reset
    <3>3. fed' \in [Sessions -> Seq(Bytes)]
      BY <3>2 DEF ReplayInv, Streams
    <3> QED BY <1>3, <3>3 DEF Reset, ReplayInv, Streams
  <2>3. ASSUME NEW j \in Sessions PROVE cursor'[j] = Run(Home, fed'[j]) /\ offset'[j] = Len(fed'[j])
    BY <1>3, <2>1 DEF Reset, ReplayInv, Streams, SessionsReplay
  <2> QED BY <2>2, <2>3 DEF ReplayInv, SessionsReplay, Home, Config
<1>4. ASSUME NEW i \in Sessions, NEW t \in Tokens, AcceptToken(i, t) PROVE ReplayInv'
  <2>1. CASE Commit(i, Run(cursor[i], Vocab[t]), Vocab[t])
    BY <2>1, SessionsRegular, TokenBytes, CommitReplays
  <2>2. CASE UNCHANGED vars
    BY <1>1, <2>2 DEF vars
  <2> QED BY <1>4, <2>1, <2>2 DEF AcceptToken
<1>5. ASSUME NEW i \in Sessions, NEW b \in Bytes, AcceptByte(i, b) PROVE ReplayInv'
  <2>1. CASE Commit(i, Advance(cursor[i], b), <<b>>)
    <3>1. <<b>> \in Seq(Bytes) /\ Run(cursor[i], <<b>>) = Advance(cursor[i], b)
      BY RunShort
    <3> QED BY <2>1, <3>1, CommitReplays
  <2>2. CASE UNCHANGED vars
    BY <1>1, <2>2 DEF vars
  <2> QED BY <1>5, <2>1, <2>2 DEF AcceptByte
<1>6. ASSUME NEW i \in Sessions, NEW j \in Sessions, Clone(i, j) PROVE ReplayInv'
  <2>1. Streams'
    BY <1>6 DEF Clone, ReplayInv, Streams
  <2>2. ASSUME NEW k \in Sessions PROVE cursor'[k] = Run(Home, fed'[k]) /\ offset'[k] = Len(fed'[k])
    BY <1>6 DEF Clone, ReplayInv, Streams, SessionsReplay
  <2> QED BY <2>1, <2>2 DEF ReplayInv, SessionsReplay, Home, Config
<1>7. CASE UNCHANGED vars
  BY <1>1, <1>7 DEF vars
<1> QED BY <1>2, <1>3, <1>4, <1>5, <1>6, <1>7 DEF Next

\* For every automaton, vocabulary and set of sessions, a session is where the bytes
\* it accepted lead: a rejected token or byte leaves no trace, a token is its bytes one
\* by one, and a clone or a reset session is no different (accept_token, accept_byte,
\* reset).
THEOREM SessionsAreReplays == Spec => []SessionsReplay
<1>1. Init => ReplayInv
  <2> SUFFICES ASSUME Init PROVE ReplayInv
    OBVIOUS
  <2>1. Run(Home, <<>>) = Home /\ Len(<<>>) = 0 /\ <<>> \in Seq(Bytes)
    BY RunShort
  <2> QED BY <2>1 DEF Init, ReplayInv, Streams, SessionsReplay
<1>2. ReplayInv => SessionsReplay
  BY DEF ReplayInv
<1> QED BY <1>1, <1>2, ReplayStep, PTL DEF Spec

-----------------------------------------------------------------------------
(* Masks *)

\* The sessions are where live automata are, and the cache holds for each state it
\* knows the partition over an empty stack, whoever visited it.
CursorsLive == cursor \in [Sessions -> Live]
CacheIsPartition == \A s \in DOMAIN cache : cache[s] = Partition(s)
MasksTyped == mask = [i \in Sessions |-> mask[i]] /\ fresh \subseteq Sessions

MaskInv == CursorsLive /\ CacheIsPartition /\ MasksTyped /\ PublishedMaskIsExact

\* The automaton starts alive.
LEMMA HomeLive == Home \in Live
  BY StackAssumption DEF Home, Config, Live

\* What survives a token or a byte is a live automaton.
LEMMA RunLive ==
  ASSUME NEW c \in Live, NEW bytes \in Seq(Bytes), Run(c, bytes).alive
  PROVE  Run(c, bytes) \in Live
  BY SessionsRegular, AdmitsLive DEF Admits, Run

\* A session that moves on to a live automaton publishes nothing.
LEMMA CommitMasks ==
  ASSUME MaskInv, NEW i \in Sessions, NEW next \in Live, NEW bytes, Commit(i, next, bytes)
  PROVE  MaskInv'
<1>1. cursor' \in [Sessions -> Live]
  BY DEF Commit, MaskInv, CursorsLive
<1>2. \A j \in fresh' : j # i /\ j \in fresh /\ j \in Sessions /\ cursor'[j] = cursor[j] /\ mask'[j] = mask[j]
  BY DEF Commit, MaskInv, MasksTyped, CursorsLive
<1>3. PublishedMaskIsExact'
  BY <1>2 DEF MaskInv, PublishedMaskIsExact
<1>4. CacheIsPartition' /\ MasksTyped'
  BY DEF Commit, MaskInv, CacheIsPartition, MasksTyped
<1> QED BY <1>1, <1>3, <1>4 DEF MaskInv, CursorsLive

\* MaskInv is inductive.
LEMMA MaskStep == StepIsFrameBlind /\ MaskInv /\ [Next]_vars => MaskInv'
<1> SUFFICES ASSUME StepIsFrameBlind, MaskInv, [Next]_vars PROVE MaskInv'
  OBVIOUS
<1>1. ASSUME UNCHANGED vars PROVE MaskInv'
  BY <1>1 DEF vars, MaskInv, CursorsLive, CacheIsPartition, MasksTyped, PublishedMaskIsExact
<1>2. ASSUME NEW i \in Sessions, AllowedMask(i) PROVE MaskInv'
  <2>1. PICK c \in Live : c = cursor[i]
    BY DEF MaskInv, CursorsLive
  <2>2. Lookup(i) = Partition(c.state)
    BY <2>1 DEF Lookup, Built, MaskInv, CacheIsPartition
  <2>3. cache' = [s \in DOMAIN cache \cup {c.state} |->
                    IF s = c.state THEN Partition(c.state) ELSE cache[s]]
    BY <1>2, <2>1, <2>2 DEF AllowedMask
  <2>4. CacheIsPartition'
    <3>1. ASSUME NEW s \in DOMAIN cache' PROVE cache'[s] = Partition(s)
      BY <2>3, <3>1 DEF MaskInv, CacheIsPartition
    <3> QED BY <3>1 DEF CacheIsPartition
  <2>5. mask' = [mask EXCEPT ![i] = Acceptable(c)]
    BY <1>2, <2>1, <2>2, SessionsRegular, MaskFromPartition DEF AllowedMask
  <2>6. cursor' = cursor /\ fresh' = fresh \cup {i}
    BY <1>2 DEF AllowedMask
  <2>7. \A j \in fresh' : mask'[j] = Acceptable(cursor[j])
    BY <2>1, <2>5, <2>6 DEF MaskInv, MasksTyped, PublishedMaskIsExact
  <2>8. PublishedMaskIsExact'
    BY <2>6, <2>7 DEF PublishedMaskIsExact
  <2> QED BY <2>4, <2>5, <2>6, <2>8 DEF MaskInv, CursorsLive, MasksTyped
<1>3. ASSUME NEW i \in Sessions, Reset(i) PROVE MaskInv'
  <2>1. cursor' \in [Sessions -> Live]
    BY <1>3, HomeLive DEF Reset, MaskInv, CursorsLive
  <2>2. \A j \in fresh' : j # i /\ j \in fresh /\ j \in Sessions /\ cursor'[j] = cursor[j] /\ mask'[j] = mask[j]
    BY <1>3 DEF Reset, MaskInv, MasksTyped, CursorsLive
  <2>3. PublishedMaskIsExact'
    BY <2>2 DEF MaskInv, PublishedMaskIsExact
  <2> QED BY <1>3, <2>1, <2>3 DEF Reset, MaskInv, CursorsLive, CacheIsPartition, MasksTyped
<1>4. ASSUME NEW i \in Sessions, NEW t \in Tokens, AcceptToken(i, t) PROVE MaskInv'
  <2>1. CASE Run(cursor[i], Vocab[t]).alive /\ Commit(i, Run(cursor[i], Vocab[t]), Vocab[t])
    <3>1. cursor[i] \in Live /\ Vocab[t] \in Seq(Bytes)
      BY SessionsRegular, TokenBytes DEF MaskInv, CursorsLive
    <3>2. Run(cursor[i], Vocab[t]) \in Live
      BY <2>1, <3>1, RunLive
    <3> QED BY <2>1, <3>2, CommitMasks
  <2>2. CASE UNCHANGED vars
    BY <1>1, <2>2
  <2> QED BY <1>4, <2>1, <2>2 DEF AcceptToken
<1>5. ASSUME NEW i \in Sessions, NEW b \in Bytes, AcceptByte(i, b) PROVE MaskInv'
  <2>1. CASE Advance(cursor[i], b).alive /\ Commit(i, Advance(cursor[i], b), <<b>>)
    <3>1. cursor[i] \in Live /\ <<b>> \in Seq(Bytes) /\ Run(cursor[i], <<b>>) = Advance(cursor[i], b)
      BY RunShort DEF MaskInv, CursorsLive
    <3>2. Advance(cursor[i], b) \in Live
      BY <2>1, <3>1, RunLive
    <3> QED BY <2>1, <3>2, CommitMasks
  <2>2. CASE UNCHANGED vars
    BY <1>1, <2>2
  <2> QED BY <1>5, <2>1, <2>2 DEF AcceptByte
<1>6. ASSUME NEW i \in Sessions, NEW j \in Sessions, Clone(i, j) PROVE MaskInv'
  <2>1. cursor' \in [Sessions -> Live]
    BY <1>6 DEF Clone, MaskInv, CursorsLive
  <2>2. \A k \in fresh' : mask'[k] = Acceptable(cursor'[k])
    BY <1>6 DEF Clone, MaskInv, MasksTyped, CursorsLive, PublishedMaskIsExact
  <2>3. PublishedMaskIsExact'
    BY <2>2 DEF PublishedMaskIsExact
  <2> QED BY <1>6, <2>1, <2>3 DEF Clone, MaskInv, CursorsLive, CacheIsPartition, MasksTyped
<1> QED BY <1>1, <1>2, <1>3, <1>4, <1>5, <1>6 DEF Next

\* For every automaton in which what is alive over the empty stack does the same over
\* every frame, every vocabulary and every set of sessions: the mask a session publishes
\* holds exactly what accept_token takes there, whichever session filled the shared cache
\* and over whichever stack (allowed_mask, build_fixed, build_spec).
THEOREM MasksAreExact == StepIsFrameBlind => (Spec => []PublishedMaskIsExact)
<1> SUFFICES ASSUME StepIsFrameBlind PROVE Spec => []PublishedMaskIsExact
  OBVIOUS
<1>1. Init => MaskInv
  BY HomeLive DEF Init, MaskInv, CursorsLive, CacheIsPartition, MasksTyped, PublishedMaskIsExact
<1>2. MaskInv => PublishedMaskIsExact
  BY DEF MaskInv
<1>3. MaskInv /\ [Next]_vars => MaskInv'
  BY MaskStep
<1> QED BY <1>1, <1>2, <1>3, PTL DEF Spec

-----------------------------------------------------------------------------
(* The memo of the schema overlay *)

\* The names of a rule's list.
Read(rule) == lists[ListOf[rule]]

ListsTyped == lists \in [Lists -> Seq(Names)]

\* A trie's key counts its names, and they are the first ones of the list.
TriesArePrefixes ==
  \A rule \in Rules, n \in Nat :
    <<rule, n>> \in DOMAIN tries =>
      /\ tries[<<rule, n>>] \in Seq(Names)
      /\ Len(tries[<<rule, n>>]) = n
      /\ n <= Len(Read(rule))
      /\ \A i \in 1..n : tries[<<rule, n>>][i] = Read(rule)[i]

\* A memoised mask is the one its key's trie gives.
MasksAreOfTries ==
  \A rule \in Rules, n \in Nat, prefix \in Typed :
    << <<rule, n>>, prefix>> \in DOMAIN masks =>
      /\ <<rule, n>> \in DOMAIN tries
      /\ masks[<< <<rule, n>>, prefix>>] = Fill(rule, tries[<<rule, n>>], prefix)

\* What the buffer shows, spelled out.
ShownIsFresh ==
  shown # Blank =>
    \E rule \in Rules, prefix \in Typed : shown = <<rule, prefix, Fill(rule, Read(rule), prefix)>>

CacheInv == ListsTyped /\ TriesArePrefixes /\ MasksAreOfTries /\ ShownIsFresh

\* Two lists of names with the same length and the same entries are equal.
LEMMA SameNames ==
  ASSUME NEW s \in Seq(Names), NEW t \in Seq(Names), Len(s) = Len(t), \A i \in 1..Len(s) : s[i] = t[i]
  PROVE  s = t
  OBVIOUS

\* The trie a rule uses is built from the present list, found or new.
LEMMA BuiltIsPresent ==
  ASSUME ListsTyped, TriesArePrefixes, NEW rule \in Rules
  PROVE  BuiltTrie(rule) = Read(rule) /\ Read(rule) \in Seq(Names) /\ Len(Read(rule)) \in Nat
<1>1. Read(rule) \in Seq(Names) /\ Len(Read(rule)) \in Nat
  BY ListsAssumption DEF ListsTyped, Read
<1>2. CASE Key(rule) \in DOMAIN tries
  <2>1. <<rule, Len(Read(rule))>> \in DOMAIN tries
    BY <1>2 DEF Key, Read
  <2>2. /\ tries[<<rule, Len(Read(rule))>>] \in Seq(Names)
        /\ Len(tries[<<rule, Len(Read(rule))>>]) = Len(Read(rule))
        /\ \A i \in 1..Len(Read(rule)) : tries[<<rule, Len(Read(rule))>>][i] = Read(rule)[i]
    BY <1>1, <2>1 DEF TriesArePrefixes
  <2>3. tries[<<rule, Len(Read(rule))>>] = Read(rule)
    BY <1>1, <2>2, SameNames
  <2>. QED BY <1>1, <1>2, <2>3 DEF BuiltTrie, Key, Read
<1>3. CASE Key(rule) \notin DOMAIN tries
  BY <1>1, <1>3 DEF BuiltTrie, Read
<1>. QED BY <1>2, <1>3

\* The mask a rule shows is the one the present list gives, found or new.
LEMMA FilledIsFresh ==
  ASSUME ListsTyped, TriesArePrefixes, MasksAreOfTries, NEW rule \in Rules, NEW prefix \in Typed
  PROVE  Filled(rule, prefix) = Fill(rule, Read(rule), prefix)
<1>1. BuiltTrie(rule) = Read(rule) /\ Len(Read(rule)) \in Nat
  BY BuiltIsPresent
<1>2. CASE Slot(rule, prefix) \in DOMAIN masks
  <2>1. << <<rule, Len(Read(rule))>>, prefix>> \in DOMAIN masks
    BY <1>2 DEF Slot, Key, Read
  <2>2. /\ Key(rule) \in DOMAIN tries
        /\ masks[Slot(rule, prefix)] = Fill(rule, tries[Key(rule)], prefix)
    BY <1>1, <2>1 DEF MasksAreOfTries, Slot, Key, Read
  <2>3. tries[Key(rule)] = Read(rule)
    BY <1>1, <2>2 DEF BuiltTrie
  <2>. QED BY <1>2, <2>2, <2>3 DEF Filled
<1>3. CASE Slot(rule, prefix) \notin DOMAIN masks
  BY <1>1, <1>3 DEF Filled
<1>. QED BY <1>2, <1>3

\* A new name lengthens a list and leaves its first names alone.
LEMMA EmitKeeps ==
  ASSUME CacheInv, NEW list \in Lists, NEW name \in Names, Emit(list, name)
  PROVE  CacheInv'
<1>1. /\ lists' = [lists EXCEPT ![list] = Append(@, name)]
      /\ tries' = tries /\ masks' = masks /\ shown' = Blank
  BY DEF Emit
<1>2. ListsTyped'
  BY <1>1 DEF CacheInv, ListsTyped
<1>3. ASSUME NEW rule \in Rules
      PROVE  /\ Len(Read(rule)) \in Nat /\ Len(Read(rule)') \in Nat /\ Len(Read(rule)) <= Len(Read(rule)')
             /\ \A i \in 1..Len(Read(rule)) : Read(rule)'[i] = Read(rule)[i]
  <2>1. Read(rule) \in Seq(Names) /\ ListOf[rule] \in Lists
    BY ListsAssumption DEF CacheInv, ListsTyped, Read
  <2>2. Read(rule)' = IF ListOf[rule] = list THEN Append(Read(rule), name) ELSE Read(rule)
    BY <1>1, <2>1 DEF CacheInv, ListsTyped, Read
  <2>. QED BY <2>1, <2>2
<1>4. TriesArePrefixes'
  <2>1. SUFFICES ASSUME NEW rule \in Rules, NEW n \in Nat, <<rule, n>> \in DOMAIN tries
                 PROVE  /\ tries[<<rule, n>>] \in Seq(Names)
                        /\ Len(tries[<<rule, n>>]) = n
                        /\ n <= Len(Read(rule)')
                        /\ \A i \in 1..n : tries[<<rule, n>>][i] = Read(rule)'[i]
    BY <1>1 DEF TriesArePrefixes
  <2>2. /\ tries[<<rule, n>>] \in Seq(Names) /\ Len(tries[<<rule, n>>]) = n /\ n <= Len(Read(rule))
        /\ \A i \in 1..n : tries[<<rule, n>>][i] = Read(rule)[i]
    BY <2>1 DEF CacheInv, TriesArePrefixes
  <2>3. n <= Len(Read(rule)') /\ \A i \in 1..n : Read(rule)'[i] = Read(rule)[i]
    BY <1>3, <2>2
  <2>. QED BY <2>2, <2>3
<1>5. MasksAreOfTries' /\ ShownIsFresh'
  BY <1>1 DEF CacheInv, MasksAreOfTries, ShownIsFresh
<1>. QED BY <1>2, <1>4, <1>5 DEF CacheInv

\* Asking for a mask adds entries that agree with the present lists.
LEMMA NarrowKeeps ==
  ASSUME CacheInv, NEW rule \in Rules, NEW prefix \in Typed, Narrow(rule, prefix)
  PROVE  CacheInv'
<1>1. /\ lists' = lists
      /\ tries' = [k \in DOMAIN tries \cup {Key(rule)} |-> IF k = Key(rule) THEN BuiltTrie(rule) ELSE tries[k]]
      /\ masks' = [s \in DOMAIN masks \cup {Slot(rule, prefix)} |->
                     IF s = Slot(rule, prefix) THEN Filled(rule, prefix) ELSE masks[s]]
      /\ shown' = <<rule, prefix, Filled(rule, prefix)>>
  BY DEF Narrow
<1>2. /\ BuiltTrie(rule) = Read(rule) /\ Read(rule) \in Seq(Names) /\ Len(Read(rule)) \in Nat
      /\ Filled(rule, prefix) = Fill(rule, Read(rule), prefix)
      /\ Key(rule) = <<rule, Len(Read(rule))>> /\ Slot(rule, prefix) = <<Key(rule), prefix>>
  BY BuiltIsPresent, FilledIsFresh DEF CacheInv, Key, Slot, Read
<1>3. \A r \in Rules : Read(r)' = Read(r)
  BY <1>1 DEF Read
<1>4. ListsTyped'
  BY <1>1 DEF CacheInv, ListsTyped
<1>5. TriesArePrefixes'
  <2>1. SUFFICES ASSUME NEW r \in Rules, NEW n \in Nat, <<r, n>> \in DOMAIN tries'
                 PROVE  /\ tries'[<<r, n>>] \in Seq(Names)
                        /\ Len(tries'[<<r, n>>]) = n
                        /\ n <= Len(Read(r))
                        /\ \A i \in 1..n : tries'[<<r, n>>][i] = Read(r)[i]
    BY <1>3 DEF TriesArePrefixes
  <2>2. CASE <<r, n>> = Key(rule)
    <3>1. r = rule /\ n = Len(Read(rule)) /\ tries'[<<r, n>>] = Read(rule)
      BY <1>1, <1>2, <2>2
    <3>. QED BY <1>2, <3>1
  <2>3. CASE <<r, n>> # Key(rule)
    <3>1. <<r, n>> \in DOMAIN tries /\ tries'[<<r, n>>] = tries[<<r, n>>]
      BY <1>1, <2>1, <2>3
    <3>. QED BY <3>1 DEF CacheInv, TriesArePrefixes
  <2>. QED BY <2>2, <2>3
<1>6. MasksAreOfTries'
  <2>1. SUFFICES ASSUME NEW r \in Rules, NEW n \in Nat, NEW p \in Typed,
                        << <<r, n>>, p>> \in DOMAIN masks'
                 PROVE  /\ <<r, n>> \in DOMAIN tries'
                        /\ masks'[<< <<r, n>>, p>>] = Fill(r, tries'[<<r, n>>], p)
    BY DEF MasksAreOfTries
  <2>2. CASE << <<r, n>>, p>> = Slot(rule, prefix)
    <3>1. r = rule /\ p = prefix /\ <<r, n>> = Key(rule)
      BY <1>2, <2>2
    <3>2. tries'[Key(rule)] = Read(rule) /\ Key(rule) \in DOMAIN tries'
      BY <1>1, <1>2
    <3>3. masks'[<< <<r, n>>, p>>] = Fill(rule, Read(rule), prefix)
      BY <1>1, <1>2, <2>1, <2>2
    <3>. QED BY <3>1, <3>2, <3>3
  <2>3. CASE << <<r, n>>, p>> # Slot(rule, prefix)
    <3>1. << <<r, n>>, p>> \in DOMAIN masks /\ masks'[<< <<r, n>>, p>>] = masks[<< <<r, n>>, p>>]
      BY <1>1, <2>1, <2>3
    <3>2. <<r, n>> \in DOMAIN tries /\ masks[<< <<r, n>>, p>>] = Fill(r, tries[<<r, n>>], p)
      BY <3>1 DEF CacheInv, MasksAreOfTries
    <3>3. tries'[<<r, n>>] = tries[<<r, n>>] /\ <<r, n>> \in DOMAIN tries'
      <4>1. Key(rule) \in DOMAIN tries => BuiltTrie(rule) = tries[Key(rule)]
        BY DEF BuiltTrie
      <4>. QED BY <1>1, <3>2, <4>1
    <3>. QED BY <3>1, <3>2, <3>3
  <2>. QED BY <2>2, <2>3
<1>7. ShownIsFresh'
  BY <1>1, <1>2, <1>3 DEF ShownIsFresh
<1>. QED BY <1>4, <1>5, <1>6, <1>7 DEF CacheInv

\* The memo never shows a mask of other names than the stream's own, however
\* streams follow one another: DecoderSession::reset and narrow_trie.
THEOREM MemoIsExact == CacheSpec => []MaskIsFresh
<1>1. CacheInit => CacheInv
  BY DEF CacheInit, CacheInv, ListsTyped, TriesArePrefixes, MasksAreOfTries, ShownIsFresh, Blank
<1>2. CacheInv /\ [CacheNext]_cacheVars => CacheInv'
  <2>1. SUFFICES ASSUME CacheInv, [CacheNext]_cacheVars PROVE CacheInv'
    OBVIOUS
  <2>2. CASE Clear
    BY <2>2 DEF Clear, CacheInv, ListsTyped, TriesArePrefixes, MasksAreOfTries, ShownIsFresh, Blank
  <2>3. CASE UNCHANGED cacheVars
    BY <2>1, <2>3 DEF cacheVars, CacheInv, ListsTyped, TriesArePrefixes, MasksAreOfTries, ShownIsFresh, Read
  <2>. QED BY <2>1, <2>2, <2>3, EmitKeeps, NarrowKeeps DEF CacheNext
<1>3. CacheInv => MaskIsFresh
  <2>1. SUFFICES ASSUME CacheInv, shown # Blank
                 PROVE  shown[3] = Fill(shown[1], lists[ListOf[shown[1]]], shown[2])
    BY DEF MaskIsFresh
  <2>2. PICK rule \in Rules, prefix \in Typed :
          shown = <<rule, prefix, Fill(rule, Read(rule), prefix)>>
    BY <2>1 DEF CacheInv, ShownIsFresh
  <2>3. shown[1] = rule /\ shown[2] = prefix /\ shown[3] = Fill(rule, Read(rule), prefix)
    BY <2>2
  <2>. QED BY <2>3 DEF Read
<1>. QED BY <1>1, <1>2, <1>3, PTL DEF CacheSpec
=============================================================================
