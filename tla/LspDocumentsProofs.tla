------------------------- MODULE LspDocumentsProofs -------------------------
(***************************************************************************)
(* For every set of documents, texts, changes and settings and every       *)
(* counter width: a snapshot is never current by mistake, the server's     *)
(* documents never drift from the client's, and the diagnostics shown are  *)
(* those of the current documents.                                         *)
(*                                                                         *)
(* For every set of characters, whatever each takes in UTF-8 and in        *)
(* UTF-16, and every length of text (Utf16Text): a change the server       *)
(* accepts does to the client's array of code units what it does to the    *)
(* text, and the edit sent for a fix gives exactly the fixed text.         *)
(***************************************************************************)
EXTENDS LspDocuments, Utf16Text, FiniteSetTheorems, CountingInduction, TLAPS

CountersOK == revision \in 0..MaxRevision /\ cfgRevision \in 0..MaxRevision

\* A snapshot was captured at or before the current counters.
SnapshotOK(s) ==
  /\ s.revision \in Nat /\ s.revision <= revision
  /\ s.cfgRevision \in Nat /\ s.cfgRevision <= cfgRevision
  /\ s.revision = revision /\ s.cfgRevision = cfgRevision =>
       s.docs = docs /\ s.models = OpenRoutes(docs, models)

\* CurrentMeansUnchanged is not inductive alone: a snapshot from the future
\* would match the counters later.  No snapshot is ahead of them.
Inv == CountersOK /\ \A s \in snapshots : SnapshotOK(s)

\* What a handler may do to the store and the configuration.
Same == UNCHANGED <<docs, revision, models, cfgRevision>>
NewDocuments == revision < MaxRevision /\ revision' = revision + 1 /\ UNCHANGED <<models, cfgRevision>>
NewSettings == cfgRevision # MaxRevision /\ cfgRevision' = cfgRevision + 1 /\ UNCHANGED <<docs, revision>>
Moves == Same \/ NewDocuments \/ NewSettings

\* A step that leaves the snapshots alone, or drops some of them, keeps Inv when
\* the counters move as the handlers move them.
LEMMA MovesKeepInv ==
  ASSUME Inv, Moves, snapshots' \subseteq snapshots
  PROVE  Inv'
<1>1. CountersOK'
  BY RevisionAssumption DEF Inv, CountersOK, Moves, Same, NewDocuments, NewSettings
<1>2. ASSUME NEW s \in snapshots' PROVE SnapshotOK(s)'
  <2>1. SnapshotOK(s)
    BY <1>2 DEF Inv
  <2>2. CASE Same
    BY <2>1, <2>2 DEF SnapshotOK, Same
  <2>3. CASE NewDocuments
    BY <2>1, <2>3, RevisionAssumption DEF SnapshotOK, NewDocuments, Inv, CountersOK
  <2>4. CASE NewSettings
    BY <2>1, <2>4, RevisionAssumption DEF SnapshotOK, NewSettings, Inv, CountersOK
  <2> QED BY <2>2, <2>3, <2>4 DEF Moves
<1> QED BY <1>1, <1>2 DEF Inv

\* Every handler moves the store and the configuration that way.
LEMMA HandlersMove ==
  /\ Ignored => Moves
  /\ \A u, t, v : OpenDocument(u, t, v) => Moves
  /\ \A u, v, b : ChangeDocument(u, v, b) => Moves
  /\ \A u : SaveDocument(u) => Moves
  /\ \A u : CloseDocument(u) => Moves
  /\ \A s : UpdateSettings(s) => Moves
<1>1. Ignored => Moves
  BY DEF Ignored, Moves, Same, store, config
<1>2. ASSUME NEW u, NEW t, NEW v, OpenDocument(u, t, v) PROVE Moves
  BY <1>1, <1>2 DEF OpenDocument, Moves, NewDocuments, NextRevision, config
<1>3. ASSUME NEW u, NEW v, NEW b, ChangeDocument(u, v, b) PROVE Moves
  BY <1>1, <1>3 DEF ChangeDocument, Moves, NewDocuments, NextRevision, config
<1>4. ASSUME NEW u, SaveDocument(u) PROVE Moves
  BY <1>1, <1>4 DEF SaveDocument, Moves, Same, store, config
<1>5. ASSUME NEW u, CloseDocument(u) PROVE Moves
  BY <1>1, <1>5 DEF CloseDocument, Moves, NewDocuments, NextRevision, config
<1>6. ASSUME NEW s, UpdateSettings(s) PROVE Moves
  BY <1>6 DEF UpdateSettings, UpdateConfiguration, Moves, Same, NewSettings, store, config
<1> QED BY <1>1, <1>2, <1>3, <1>4, <1>5, <1>6

\* Inv holds initially: there is no snapshot.
LEMMA InvInit == Init => Inv
BY RevisionAssumption DEF Init, Inv, CountersOK

\* Capturing a snapshot of the current state adds one that is current.
LEMMA CaptureKeepsInv == Inv /\ Requests => Inv'
<1> SUFFICES ASSUME Inv, Requests PROVE Inv'
  OBVIOUS
<1>1. UNCHANGED <<docs, revision, models, cfgRevision>>
  BY DEF Requests, store, config
<1>2. CountersOK'
  BY <1>1 DEF Inv, CountersOK
<1>3. ASSUME NEW s \in snapshots' PROVE SnapshotOK(s)'
  <2>1. CASE s \in snapshots
    BY <1>1, <2>1 DEF Inv, SnapshotOK
  <2>2. CASE s = Capture
    BY <1>1, <2>2 DEF Capture, Inv, CountersOK, SnapshotOK
  <2> QED BY <1>3, <2>1, <2>2 DEF Requests
<1> QED BY <1>2, <1>3 DEF Inv

\* Every handler, request and completion preserves Inv.
LEMMA InvStep == Inv /\ [Next]_vars => Inv'
<1> SUFFICES ASSUME Inv, [Next]_vars PROVE Inv'
  OBVIOUS
<1>1. CASE UNCHANGED vars
  <2>1. Moves /\ snapshots' \subseteq snapshots
    BY <1>1 DEF vars, Moves, Same
  <2> QED BY <2>1, MovesKeepInv
<1>2. ASSUME NEW u \in Uris, NEW t \in Texts, NEW v \in {1, NoVersion}, Opens(u, t, v) PROVE Inv'
  <2>1. Moves /\ snapshots' = snapshots
    BY <1>2, HandlersMove DEF Opens, Sends
  <2> QED BY <2>1, MovesKeepInv
<1>3. ASSUME NEW u \in Uris, NEW b \in Batches, Edits(u, b) PROVE Inv'
  <2>1. Moves /\ snapshots' = snapshots
    BY <1>3, HandlersMove DEF Edits, Sends
  <2> QED BY <2>1, MovesKeepInv
<1>4. ASSUME NEW u \in Uris, NEW b \in Batches, SendsMalformed(u, b) PROVE Inv'
  <2>1. Moves /\ snapshots' = snapshots
    BY <1>4, HandlersMove DEF SendsMalformed, Sends
  <2> QED BY <2>1, MovesKeepInv
<1>5. ASSUME NEW u \in Uris, Saves(u) \/ Closes(u) PROVE Inv'
  <2>1. Moves /\ snapshots' = snapshots
    BY <1>5, HandlersMove DEF Saves, Closes, Sends
  <2> QED BY <2>1, MovesKeepInv
<1>6. ASSUME NEW s \in Settings, Configures(s) PROVE Inv'
  <2>1. Moves /\ snapshots' = snapshots
    BY <1>6, HandlersMove DEF Configures, Sends
  <2> QED BY <2>1, MovesKeepInv
<1>7. CASE Repeats
  <2>1. Moves /\ snapshots' = snapshots
    BY <1>7, HandlersMove DEF Repeats
  <2> QED BY <2>1, MovesKeepInv
<1>8. CASE Requests
  BY <1>8, CaptureKeepsInv
<1>9. ASSUME NEW s \in snapshots, Completes(s) PROVE Inv'
  <2>1. Moves /\ snapshots' \subseteq snapshots
    BY <1>9 DEF Completes, Moves, Same, store, config
  <2> QED BY <2>1, MovesKeepInv
<1> QED BY <1>1, <1>2, <1>3, <1>4, <1>5, <1>6, <1>7, <1>8, <1>9 DEF Next

\* A snapshot whose two revisions are the current ones holds the current
\* documents and routes, so is_current never lets a stale result through.
THEOREM SnapshotsSound == Spec => []CurrentMeansUnchanged
<1>1. Inv => CurrentMeansUnchanged
  BY DEF Inv, SnapshotOK, CurrentMeansUnchanged
<1> QED BY <1>1, InvInit, InvStep, PTL DEF Spec
-----------------------------------------------------------------------------
(* Publication *)

\* The store is total, so a handler that sets one document leaves the others.
StoreOK == docs = [u \in Uris |-> docs[u]]

\* After a handler that publishes, what a document shows is current again.
LEMMA PublishMakesCurrent ==
  ASSUME NEW changed, PublishedIsCurrent, Publish(changed),
         \A u \in Uris : docs'[u] = Absent => docs[u] = Absent \/ u \in changed
  PROVE  PublishedIsCurrent'
  BY DEF Publish, PublishedIsCurrent

\* A handler that changes nothing leaves what is shown current.
LEMMA IgnoredStaysCurrent ==
  ASSUME StoreOK, PublishedIsCurrent, UNCHANGED <<docs, models, published>>
  PROVE  StoreOK' /\ PublishedIsCurrent'
  BY DEF PublishedIsCurrent, StoreOK

\* Every handler leaves the store total and what is shown current.
LEMMA HandlersPublish ==
  ASSUME StoreOK, PublishedIsCurrent
  PROVE  /\ Ignored => StoreOK' /\ PublishedIsCurrent'
         /\ \A u, t, v : OpenDocument(u, t, v) => StoreOK' /\ PublishedIsCurrent'
         /\ \A u, v, b : ChangeDocument(u, v, b) => StoreOK' /\ PublishedIsCurrent'
         /\ \A u : SaveDocument(u) => StoreOK' /\ PublishedIsCurrent'
         /\ \A u : CloseDocument(u) => StoreOK' /\ PublishedIsCurrent'
         /\ \A s : UpdateSettings(s) => StoreOK' /\ PublishedIsCurrent'
<1>1. Ignored => StoreOK' /\ PublishedIsCurrent'
  BY IgnoredStaysCurrent DEF Ignored, store, config
<1>2. ASSUME NEW u, NEW d, docs' = [docs EXCEPT ![u] = d], Publish({u})
      PROVE  StoreOK' /\ PublishedIsCurrent'
  <2>1. StoreOK' /\ \A w \in Uris : w # u => docs'[w] = docs[w]
    BY <1>2 DEF StoreOK
  <2> QED BY <1>2, <2>1, PublishMakesCurrent
<1>3. ASSUME NEW u, NEW t, NEW v, OpenDocument(u, t, v) PROVE StoreOK' /\ PublishedIsCurrent'
  BY <1>1, <1>2, <1>3 DEF OpenDocument
<1>4. ASSUME NEW u, NEW v, NEW b, ChangeDocument(u, v, b) PROVE StoreOK' /\ PublishedIsCurrent'
  BY <1>1, <1>2, <1>4 DEF ChangeDocument
<1>5. ASSUME NEW u, CloseDocument(u) PROVE StoreOK' /\ PublishedIsCurrent'
  BY <1>1, <1>2, <1>5 DEF CloseDocument
<1>6. ASSUME NEW changed, UNCHANGED docs, Publish(changed) PROVE StoreOK' /\ PublishedIsCurrent'
  BY <1>6, PublishMakesCurrent DEF StoreOK
<1>7. ASSUME NEW u, SaveDocument(u) PROVE StoreOK' /\ PublishedIsCurrent'
  BY <1>1, <1>6, <1>7 DEF SaveDocument, store
<1>8. ASSUME NEW s, UpdateSettings(s) PROVE StoreOK' /\ PublishedIsCurrent'
  BY <1>6, <1>8 DEF UpdateSettings, store
<1> QED BY <1>1, <1>3, <1>4, <1>5, <1>7, <1>8

\* No step, of a handler or of a request, leaves old diagnostics on the screen.
LEMMA PublicationStep ==
  StoreOK /\ PublishedIsCurrent /\ [Next]_vars => StoreOK' /\ PublishedIsCurrent'
<1> SUFFICES ASSUME StoreOK, PublishedIsCurrent, [Next]_vars
             PROVE  StoreOK' /\ PublishedIsCurrent'
  OBVIOUS
<1>1. CASE UNCHANGED vars
  BY <1>1, IgnoredStaysCurrent DEF vars
<1>2. ASSUME NEW u \in Uris, NEW t \in Texts, NEW v \in {1, NoVersion}, Opens(u, t, v)
      PROVE  StoreOK' /\ PublishedIsCurrent'
  BY <1>2, HandlersPublish DEF Opens
<1>3. ASSUME NEW u \in Uris, NEW b \in Batches, Edits(u, b) \/ SendsMalformed(u, b)
      PROVE  StoreOK' /\ PublishedIsCurrent'
  BY <1>3, HandlersPublish DEF Edits, SendsMalformed
<1>4. ASSUME NEW u \in Uris, Saves(u) \/ Closes(u) PROVE StoreOK' /\ PublishedIsCurrent'
  BY <1>4, HandlersPublish DEF Saves, Closes
<1>5. ASSUME NEW s \in Settings, Configures(s) PROVE StoreOK' /\ PublishedIsCurrent'
  BY <1>5, HandlersPublish DEF Configures
<1>6. CASE Repeats
  BY <1>6, HandlersPublish DEF Repeats
<1>7. CASE Requests
  BY <1>7, IgnoredStaysCurrent DEF Requests, store, config
<1>8. ASSUME NEW s \in snapshots, Completes(s) PROVE StoreOK' /\ PublishedIsCurrent'
  BY <1>8, IgnoredStaysCurrent DEF Completes, store, config
<1> QED BY <1>1, <1>2, <1>3, <1>4, <1>5, <1>6, <1>7, <1>8 DEF Next

\* Whatever notifications arrive, late, twice or malformed, the diagnostics on
\* the client's screen are those of the documents and routes the server holds,
\* and a closed document shows none (publish_current_diagnostics).
THEOREM DiagnosticsCurrent == Spec => []PublishedIsCurrent
<1>1. Init => StoreOK /\ PublishedIsCurrent
  BY DEF Init, StoreOK, PublishedIsCurrent
<1> QED BY <1>1, PublicationStep, PTL DEF Spec
-----------------------------------------------------------------------------
(* The client's copy *)

IsDocument(d) ==
  d # Absent => /\ d = [text |-> d.text, version |-> d.version]
                /\ d.version \in Nat \cup {NoVersion}

CopiesOK ==
  /\ client = [u \in Uris |-> client[u]]
  /\ \A u \in Uris : IsDocument(client[u])

\* The opening or change that may arrive again says what the client holds, is
\* not newer than it, or is malformed.
RepeatOK ==
  /\ lastSent.method = "didOpen" =>
       /\ lastSent.uri \in Uris
       /\ client[lastSent.uri] = [text |-> lastSent.text, version |-> lastSent.version]
       /\ lastSent.version \in Nat \cup {NoVersion}
  /\ lastSent.method = "didChange" =>
       /\ lastSent.uri \in Uris
       /\ \/ lastSent.version \in Nat /\ client[lastSent.uri].version = lastSent.version
          \/ Meaning(client[lastSent.uri].text, lastSent.batch) = Reject

\* InSync compares versions only, which a step may bring together; while the
\* counter can move the two copies are equal.
Agreement == revision < MaxRevision => docs = client

SyncInv == CountersOK /\ CopiesOK /\ RepeatOK /\ Agreement

\* The server applies a batch as the client means it.
LEMMA SameFold == \A t, batch : ApplyAll(t, batch) = Meaning(t, batch)
  BY Zenon DEF ApplyAll, Meaning

\* A didChange carries at least one change.
LEMMA BatchNotEmpty == \A batch \in Batches : batch # <<>>
<1> SUFFICES ASSUME NEW n \in 1..MaxBatch, NEW batch \in [1..n -> Changes] PROVE batch # <<>>
  BY DEF Batches
<1>1. 1 \in DOMAIN batch
  BY BatchAssumption
<1>2. DOMAIN <<>> = {}
  OBVIOUS
<1> QED BY <1>1, <1>2

\* A step that leaves the copies, or sends nothing that can be repeated.
LEMMA QuietKeepsSync ==
  ASSUME SyncInv, Same, UNCHANGED <<client, lastSent>>
  PROVE  SyncInv'
  BY DEF SyncInv, Same, CountersOK, CopiesOK, RepeatOK, Agreement

\* No notification, repeated or malformed ones included, parts the copies.
LEMMA SyncStep == SyncInv /\ [Next]_vars => SyncInv'
<1> SUFFICES ASSUME SyncInv, [Next]_vars PROVE SyncInv'
  OBVIOUS
<1> USE RevisionAssumption, NoVersionAssumption
<1>a. CountersOK /\ CopiesOK /\ RepeatOK /\ Agreement
  BY DEF SyncInv
<1>b. ASSUME Moves PROVE CountersOK' /\ revision <= revision'
  BY <1>a, <1>b DEF CountersOK, Moves, Same, NewDocuments, NewSettings
<1>c. Once.method = "none"
  BY DEF Once
<1>1. CASE UNCHANGED vars
  BY <1>1, QuietKeepsSync DEF vars, Same
<1>2. ASSUME NEW u \in Uris, NEW t \in Texts, NEW v \in {1, NoVersion}, Opens(u, t, v)
      PROVE  SyncInv'
  <2>1. CountersOK' /\ revision <= revision'
    BY <1>b, <1>2, HandlersMove DEF Opens
  <2>2. CopiesOK'
    BY <1>a, <1>2 DEF Opens, CopiesOK, IsDocument
  <2>3. RepeatOK'
    BY <1>a, <1>2 DEF Opens, Sends, RepeatOK, CopiesOK
  <2>4. ASSUME revision' < MaxRevision PROVE docs' = client'
    <3>1. revision < MaxRevision /\ docs = client /\ docs[u] = Absent
      BY <1>a, <1>2, <2>1, <2>4 DEF Opens, Agreement, CountersOK
    <3> QED BY <1>2, <3>1 DEF Opens, OpenDocument, ReplaceAccepts, NextRevision
  <2> QED BY <2>1, <2>2, <2>3, <2>4 DEF SyncInv, Agreement
<1>3. ASSUME NEW u \in Uris, NEW b \in Batches, Edits(u, b) PROVE SyncInv'
  <2>0. IsDocument(client[u]) /\ NextVersion(u) \in Nat
    BY <1>a, <1>3, BatchAssumption DEF Edits, CopiesOK, Version
  <2>1. CountersOK' /\ revision <= revision'
    BY <1>b, <1>3, HandlersMove DEF Edits
  <2>2. CopiesOK'
    BY <1>a, <1>3, <2>0 DEF Edits, CopiesOK, IsDocument
  <2>3. RepeatOK'
    <3>1. client'[u] = [text |-> Meaning(client[u].text, b), version |-> NextVersion(u)]
      BY <1>a, <1>3 DEF Edits, CopiesOK
    <3>2. client'[u].version = NextVersion(u)
      BY <3>1
    <3>3. lastSent'.method = "didChange" /\ lastSent'.uri = u /\ lastSent'.version = NextVersion(u)
      BY <1>3 DEF Edits, Sends
    <3> QED BY <2>0, <3>2, <3>3 DEF RepeatOK
  <2>4. ASSUME revision' < MaxRevision PROVE docs' = client'
    <3>1. revision < MaxRevision /\ docs = client /\ client[u] # Absent
      BY <1>a, <1>3, <2>1, <2>4 DEF Edits, Agreement, CountersOK
    <3>2. AcceptsVersion(docs[u].version, NextVersion(u))
      BY <2>0, <3>1 DEF AcceptsVersion, NextVersion, IsDocument
    <3>3. ApplyAll(docs[u].text, b) = Meaning(client[u].text, b)
      BY <3>1, SameFold
    <3>4. docs' = [docs EXCEPT ![u] = [text |-> ApplyAll(docs[u].text, b),
                                       version |-> NextVersion(u)]]
      BY <1>3, <3>1, <3>2, <3>3, BatchNotEmpty DEF Edits, ChangeDocument, NextRevision
    <3> QED BY <1>3, <3>1, <3>3, <3>4 DEF Edits
  <2> QED BY <2>1, <2>2, <2>3, <2>4 DEF SyncInv, Agreement
<1>4. ASSUME NEW u \in Uris, NEW b \in Batches, SendsMalformed(u, b) PROVE SyncInv'
  <2>1. CountersOK' /\ revision <= revision'
    BY <1>b, <1>4, HandlersMove DEF SendsMalformed
  <2>2. CopiesOK'
    BY <1>a, <1>4 DEF SendsMalformed, CopiesOK
  <2>3. RepeatOK'
    BY <1>a, <1>4 DEF SendsMalformed, Sends, RepeatOK
  <2>4. ASSUME revision' < MaxRevision PROVE docs' = client'
    <3>1. revision < MaxRevision /\ docs = client
      BY <1>a, <2>1, <2>4 DEF Agreement, CountersOK
    <3>2. ApplyAll(docs[u].text, b) = Reject
      BY <1>4, <3>1, SameFold DEF SendsMalformed
    <3> QED BY <1>4, <3>1, <3>2 DEF SendsMalformed, ChangeDocument, Ignored, store
  <2> QED BY <2>1, <2>2, <2>3, <2>4 DEF SyncInv, Agreement
<1>5. ASSUME NEW u \in Uris, Saves(u) PROVE SyncInv'
  <2>1. Same /\ lastSent' = Once /\ UNCHANGED client
    BY <1>5 DEF Saves, Sends, SaveDocument, Ignored, Same, store, config
  <2> QED BY <1>a, <1>c, <2>1 DEF SyncInv, Same, CountersOK, CopiesOK, RepeatOK, Agreement
<1>6. ASSUME NEW u \in Uris, Closes(u) PROVE SyncInv'
  <2>1. CountersOK' /\ revision <= revision'
    BY <1>b, <1>6, HandlersMove DEF Closes
  <2>2. CopiesOK'
    BY <1>a, <1>6 DEF Closes, CopiesOK, IsDocument
  <2>3. RepeatOK'
    BY <1>6, <1>c DEF Closes, Sends, RepeatOK
  <2>4. ASSUME revision' < MaxRevision PROVE docs' = client'
    <3>1. revision < MaxRevision /\ docs = client
      BY <1>a, <2>1, <2>4 DEF Agreement, CountersOK
    <3> QED BY <1>6, <3>1 DEF Closes, CloseDocument, NextRevision
  <2> QED BY <2>1, <2>2, <2>3, <2>4 DEF SyncInv, Agreement
<1>7. ASSUME NEW s \in Settings, Configures(s) PROVE SyncInv'
  <2>1. CountersOK'
    BY <1>b, <1>7, HandlersMove DEF Configures
  <2>2. UNCHANGED <<docs, revision, client>> /\ lastSent' = Once
    BY <1>7 DEF Configures, UpdateSettings, store, Sends
  <2> QED BY <1>a, <1>c, <2>1, <2>2 DEF SyncInv, CopiesOK, RepeatOK, Agreement
<1>8. CASE Repeats
  <2>1. CountersOK' /\ revision <= revision'
    BY <1>b, <1>8, HandlersMove DEF Repeats
  <2>2. CopiesOK' /\ RepeatOK'
    BY <1>a, <1>8 DEF Repeats, CopiesOK, RepeatOK
  <2>3. ASSUME revision' < MaxRevision PROVE docs' = docs
    <3>1. revision < MaxRevision /\ docs = client
      BY <1>a, <2>1, <2>3 DEF Agreement, CountersOK
    <3>2. CASE lastSent.method = "didOpen"
      <4>1. OpenDocument(lastSent.uri, lastSent.text, lastSent.version)
        BY <1>8, <3>2 DEF Repeats
      <4>2. docs[lastSent.uri] = [text |-> lastSent.text, version |-> lastSent.version]
        BY <1>a, <3>1, <3>2 DEF RepeatOK
      <4>3. docs = [docs EXCEPT ![lastSent.uri] = [text |-> lastSent.text,
                                                   version |-> lastSent.version]]
        BY <1>a, <3>1, <4>2 DEF CopiesOK
      <4> QED BY <4>1, <4>3 DEF OpenDocument, Ignored, store
    <3>3. CASE lastSent.method = "didChange"
      <4>1. ChangeDocument(lastSent.uri, lastSent.version, lastSent.batch)
        BY <1>8, <3>3 DEF Repeats
      <4>2. \/ ~AcceptsVersion(docs[lastSent.uri].version, lastSent.version)
            \/ ApplyAll(docs[lastSent.uri].text, lastSent.batch) = Reject
        BY <1>a, <3>1, <3>3, SameFold DEF RepeatOK, AcceptsVersion
      <4> QED BY <4>1, <4>2 DEF ChangeDocument, Ignored, store
    <3> QED BY <1>8, <3>2, <3>3 DEF Repeats
  <2>4. Agreement'
    BY <1>a, <1>8, <2>1, <2>3 DEF Repeats, Agreement, CountersOK
  <2> QED BY <2>1, <2>2, <2>4 DEF SyncInv
<1>9. CASE Requests
  BY <1>9, QuietKeepsSync DEF Requests, Same, store, config
<1>10. ASSUME NEW s \in snapshots, Completes(s) PROVE SyncInv'
  BY <1>10, QuietKeepsSync DEF Completes, Same, store, config
<1> QED BY <1>1, <1>2, <1>3, <1>4, <1>5, <1>6, <1>7, <1>8, <1>9, <1>10 DEF Next

\* As long as the revision counter can move, no sequence of openings, changes,
\* repeated or malformed notifications and closings makes the server's text of
\* a document differ from the text the client has at that version.
THEOREM DocumentsInSync == Spec => []InSync
<1>1. Init => SyncInv
  BY RevisionAssumption DEF Init, SyncInv, CountersOK, CopiesOK, IsDocument, RepeatOK,
     Agreement, Once
<1>2. SyncInv => InSync
  BY DEF SyncInv, Agreement, InSync
<1> QED BY <1>1, <1>2, SyncStep, PTL DEF Spec

-----------------------------------------------------------------------------
(* Positions and edits: Utf16Text *)

\* The least element of a set of naturals.
LEMMA MinOf ==
  ASSUME NEW S, S \subseteq Nat, S # {}
  PROVE  Min(S) \in S /\ \A y \in S : Min(S) <= y
<1>1. \E x \in S : \A y \in S : x <= y
  BY Least
<1> QED BY <1>1 DEF Min

\* The greatest element of a set of naturals up to a bound.
LEMMA MaxOf ==
  ASSUME NEW m \in Nat, NEW S, S \subseteq 0..m, S # {}
  PROVE  Max(S) \in S /\ \A y \in S : y <= Max(S)
<1>1. PICK T : T = {m - x : x \in S}
  OBVIOUS
<1>2. T \subseteq Nat /\ T # {}
  <2>1. \A x \in S : m - x \in Nat
    OBVIOUS
  <2> QED BY <1>1, <2>1
<1>3. PICK z \in T : \A y \in T : z <= y
  BY <1>2, Least
<1>4. PICK x \in S : z = m - x
  BY <1>1
<1>5. \A y \in S : y <= x
  <2> SUFFICES ASSUME NEW y \in S PROVE y <= x
    OBVIOUS
  <2>1. m - y \in T
    BY <1>1
  <2>2. m - x <= m - y
    BY <1>3, <1>4, <2>1
  <2>3. x \in Int /\ y \in Int
    OBVIOUS
  <2> QED BY <2>2, <2>3
<1>6. \E w \in S : \A y \in S : w >= y
  BY <1>5
<1>7. PICK w : w = Max(S)
  OBVIOUS
<1>8. w \in S /\ \A y \in S : w >= y
  BY <1>6, <1>7 DEF Max
<1>9. \A y \in S : y <= w
  BY <1>8
<1> QED BY <1>7, <1>8, <1>9

-----------------------------------------------------------------------------
\* What the cost of each prefix is.
Sums(cost, len, t, m) ==
  /\ cost = [n \in 0..m |-> cost[n]]
  /\ cost[0] = 0
  /\ \A n \in 0..m : n # 0 => cost[n] = cost[n - 1] + len[t[n]]

\* There is such a function for every number of characters.
LEMMA SumsExist ==
  ASSUME NEW len, NEW t, NEW m \in Nat
  PROVE  \E cost : Sums(cost, len, t, m)
<1>1. PICK T : T = {n \in Nat : ~\E cost : Sums(cost, len, t, n)}
  OBVIOUS
<1>2. 0 \notin T
  <2>1. PICK cost : cost = [n \in 0..0 |-> 0]
    OBVIOUS
  <2>2. Sums(cost, len, t, 0)
    BY <2>1 DEF Sums
  <2> QED BY <1>1, <2>2
<1>3. ASSUME NEW n \in Nat, n \notin T PROVE n + 1 \notin T
  <2>1. PICK cost : Sums(cost, len, t, n)
    BY <1>1, <1>3
  <2>2. PICK last : last = cost[n] + len[t[n + 1]]
    OBVIOUS
  <2>3. PICK more : more = [k \in 0..(n + 1) |-> IF k = n + 1 THEN last ELSE cost[k]]
    OBVIOUS
  <2>4. more[n + 1] = last /\ \A k \in 0..n : more[k] = cost[k]
    BY <2>3
  <2>5. more[0] = 0
    BY <2>1, <2>4 DEF Sums
  <2>6. ASSUME NEW k \in 0..(n + 1), k # 0 PROVE more[k] = more[k - 1] + len[t[k]]
    <3>1. CASE k = n + 1
      <4>1. more[k - 1] = cost[n]
        BY <2>4, <3>1
      <4> QED BY <2>2, <2>4, <3>1, <4>1
    <3>2. CASE k # n + 1
      <4>1. k \in 0..n /\ k - 1 \in 0..n
        BY <2>6, <3>2
      <4>2. more[k] = cost[k] /\ more[k - 1] = cost[k - 1]
        BY <2>4, <4>1
      <4> QED BY <2>1, <2>6, <4>1, <4>2 DEF Sums
    <3> QED BY <3>1, <3>2
  <2>7. more = [k \in 0..(n + 1) |-> more[k]]
    BY <2>3
  <2>8. Sums(more, len, t, n + 1)
    BY <2>5, <2>6, <2>7 DEF Sums
  <2> QED BY <1>1, <2>8
<1>4. T = {}
  <2>1. T \subseteq Nat /\ \A n \in Nat : n + 1 \in T => n \in T
    BY <1>1, <1>3
  <2> QED BY <1>2, <2>1, NoCounterexample
<1> QED BY <1>1, <1>4

\* Costs is that function.
LEMMA CostSteps ==
  ASSUME NEW len, NEW t \in Seq(Chars)
  PROVE  /\ Costs(len, t)[0] = 0
         /\ \A n \in 0..(Len(t) - 1) : Costs(len, t)[n + 1] = Costs(len, t)[n] + len[t[n + 1]]
<1>1. PICK m \in Nat : m = Len(t)
  OBVIOUS
<1>2. PICK cost : Sums(cost, len, t, m)
  BY SumsExist
<1>3. cost = [n \in 0..m |-> IF n = 0 THEN 0 ELSE cost[n - 1] + len[t[n]]]
  BY <1>2 DEF Sums
<1>4. PICK whole : whole = Costs(len, t)
  OBVIOUS
<1>5. whole = CHOOSE c : c = [n \in 0..m |-> IF n = 0 THEN 0 ELSE c[n - 1] + len[t[n]]]
  BY <1>1, <1>4, Zenon DEF Costs
<1>6. whole = [n \in 0..m |-> IF n = 0 THEN 0 ELSE whole[n - 1] + len[t[n]]]
  BY <1>3, <1>5, Zenon
<1>7. whole[0] = 0
  BY <1>6
<1>8. ASSUME NEW n \in 0..(m - 1) PROVE whole[n + 1] = whole[n] + len[t[n + 1]]
  <2>1. n + 1 \in 0..m /\ n + 1 # 0 /\ (n + 1) - 1 = n
    OBVIOUS
  <2> QED BY <1>6, <2>1
<1> QED BY <1>1, <1>4, <1>7, <1>8

\* The lengths of characters in an encoding.
Encoding(len) == len \in [Chars -> Nat] /\ \A c \in Chars : len[c] > 0

\* UTF-8 and UTF-16 are encodings: every character costs something.
LEMMA BothEncode == Encoding(Utf8Len) /\ Encoding(Utf16Len)
BY CharsAssumption DEF Encoding

\* A text costs a number, and more with every character.
LEMMA CostsGrow ==
  ASSUME NEW len, Encoding(len), NEW t \in Seq(Chars)
  PROVE  /\ \A n \in 0..Len(t) : Costs(len, t)[n] \in Nat
         /\ \A m, n \in 0..Len(t) : m < n => Costs(len, t)[m] < Costs(len, t)[n]
<1>1. PICK L \in Nat : L = Len(t)
  OBVIOUS
<1>2. PICK cost : cost = Costs(len, t)
  OBVIOUS
<1>3. cost[0] = 0 /\ \A n \in 0..(L - 1) : cost[n + 1] = cost[n] + len[t[n + 1]]
  BY <1>1, <1>2, CostSteps
<1>4. \A n \in 0..(L - 1) : len[t[n + 1]] \in Nat /\ len[t[n + 1]] > 0
  <2> SUFFICES ASSUME NEW n \in 0..(L - 1) PROVE len[t[n + 1]] \in Nat /\ len[t[n + 1]] > 0
    OBVIOUS
  <2>1. n + 1 \in 1..Len(t)
    BY <1>1
  <2>2. t[n + 1] \in Chars
    BY <2>1
  <2> QED BY <2>2 DEF Encoding
<1>5. \A n \in 0..L : cost[n] \in Nat
  <2>1. PICK S : S = {n \in Nat : cost[n] \in Nat}
    OBVIOUS
  <2>2. 0 \in S
    BY <1>3, <2>1
  <2>3. ASSUME NEW n \in 0..(L - 1), n \in S PROVE n + 1 \in S
    <3>1. cost[n + 1] = cost[n] + len[t[n + 1]] /\ cost[n] \in Nat
      BY <1>3, <2>1, <2>3
    <3>2. cost[n + 1] \in Nat
      BY <1>4, <3>1
    <3> QED BY <2>1, <3>2
  <2>4. \A n \in 0..L : n \in S
    BY <2>2, <2>3, UpTo
  <2> QED BY <2>1, <2>4
<1>6. ASSUME NEW m \in 0..L, NEW n \in 0..L, m < n PROVE cost[m] < cost[n]
  <2>1. PICK d \in Nat : d = n - (m + 1)
    BY <1>6
  <2>2. PICK S : S = {k \in Nat : cost[m] < cost[(m + 1) + k]}
    OBVIOUS
  <2>3. 0 \in S
    <3>1. m \in 0..(L - 1) /\ (m + 1) + 0 = m + 1
      BY <1>6
    <3>2. cost[m + 1] = cost[m] + len[t[m + 1]]
      BY <1>3, <3>1
    <3>3. cost[m] < cost[m + 1]
      BY <1>4, <1>5, <3>1, <3>2
    <3> QED BY <2>2, <3>1, <3>3
  <2>4. ASSUME NEW k \in 0..(d - 1), k \in S PROVE k + 1 \in S
    <3>1. (m + 1) + k \in 0..(L - 1) /\ ((m + 1) + k) + 1 = (m + 1) + (k + 1)
      BY <1>6, <2>1
    <3>2. PICK j \in 0..(L - 1) : j = (m + 1) + k /\ j + 1 = (m + 1) + (k + 1)
      BY <3>1
    <3>3. cost[j + 1] = cost[j] + len[t[j + 1]] /\ cost[j] \in Nat /\ cost[m] \in Nat
      BY <1>3, <1>5, <3>2
    <3>4. cost[m] < cost[j]
      BY <2>2, <2>4, <3>2
    <3>5. cost[m] < cost[j + 1]
      BY <1>4, <3>3, <3>4
    <3> QED BY <2>2, <3>2, <3>5
  <2>5. \A k \in 0..d : k \in S
    BY <2>3, <2>4, UpTo
  <2>6. d \in S /\ (m + 1) + d = n
    BY <2>1, <2>5
  <2> QED BY <2>2, <2>6
<1> QED BY <1>1, <1>2, <1>5, <1>6

\* A part of a text costs the difference of what ends and what starts it.
LEMMA CostOfSlice ==
  ASSUME NEW len, Encoding(len), NEW t \in Seq(Chars), NEW m \in 0..Len(t), NEW n \in m..Len(t)
  PROVE  /\ Slice(t, m, n) \in Seq(Chars) /\ Len(Slice(t, m, n)) = n - m
         /\ \A i \in 1..(n - m) : Slice(t, m, n)[i] = t[m + i]
         /\ Costs(len, Slice(t, m, n))[n - m] = Costs(len, t)[n] - Costs(len, t)[m]
<1>1. PICK s : s = Slice(t, m, n)
  OBVIOUS
<1>2. s \in Seq(Chars) /\ Len(s) = n - m /\ \A i \in 1..(n - m) : s[i] = t[m + i]
  <2>1. s = SubSeq(t, m + 1, n)
    BY <1>1 DEF Slice
  <2>2. m \in Nat /\ n \in Nat /\ Len(t) \in Nat /\ m <= n /\ n <= Len(t)
    OBVIOUS
  <2>3. \A i \in (m + 1)..n : t[i] \in Chars
    BY <2>2
  <2>4. s \in Seq(Chars) /\ Len(s) = n - m
    BY <2>1, <2>2, <2>3
  <2>5. \A i \in 1..(n - m) : s[i] = t[m + i]
    BY <2>1, <2>2
  <2> QED BY <2>4, <2>5
<1>3. PICK whole, part : whole = Costs(len, t) /\ part = Costs(len, s)
  OBVIOUS
<1>4. \A i \in 0..Len(t) : whole[i] \in Nat
  BY <1>3, CostsGrow
<1>5. PICK d \in Nat : d = n - m
  OBVIOUS
<1>6. PICK S : S = {i \in Nat : part[i] = whole[m + i] - whole[m]}
  OBVIOUS
<1>7. 0 \in S
  <2>1. part[0] = 0
    BY <1>2, <1>3, CostSteps
  <2>2. m + 0 = m /\ whole[m] \in Nat
    BY <1>4
  <2> QED BY <1>6, <2>1, <2>2
<1>8. ASSUME NEW i \in 0..(d - 1), i \in S PROVE i + 1 \in S
  <2>1. part[i + 1] = part[i] + len[s[i + 1]]
    BY <1>2, <1>3, <1>5, CostSteps
  <2>2. m + i \in 0..(Len(t) - 1) /\ (m + i) + 1 = m + (i + 1) /\ i + 1 \in 1..(n - m)
    BY <1>5
  <2>3. whole[(m + i) + 1] = whole[m + i] + len[t[(m + i) + 1]]
    BY <1>3, <2>2, CostSteps
  <2>4. s[i + 1] = t[m + (i + 1)]
    BY <1>2, <2>2
  <2>5. len[t[m + (i + 1)]] \in Nat
    <3>1. m + (i + 1) \in 1..Len(t)
      BY <2>2
    <3>2. t[m + (i + 1)] \in Chars
      BY <3>1
    <3> QED BY <3>2 DEF Encoding
  <2>6. whole[m + i] \in Nat /\ whole[m] \in Nat
    BY <1>4, <2>2
  <2>7. part[i] = whole[m + i] - whole[m]
    BY <1>6, <1>8
  <2>8. part[i + 1] = whole[m + (i + 1)] - whole[m]
    BY <2>1, <2>2, <2>3, <2>4, <2>5, <2>6, <2>7
  <2> QED BY <1>6, <2>8
<1>9. \A i \in 0..d : i \in S
  BY <1>7, <1>8, UpTo
<1>10. d \in S /\ m + d = n
  BY <1>5, <1>9
<1>11. part[n - m] = whole[n] - whole[m]
  BY <1>5, <1>6, <1>10
<1> QED BY <1>1, <1>2, <1>3, <1>11

\* A prefix is the slice from the start.
LEMMA PrefixIsSlice ==
  ASSUME NEW t \in Seq(Chars), NEW n \in 0..Len(t)
  PROVE  /\ Prefix(t, n) = Slice(t, 0, n)
         /\ Prefix(t, n) \in Seq(Chars) /\ Len(Prefix(t, n)) = n
         /\ \A i \in 1..n : Prefix(t, n)[i] = t[i]
         /\ Bytes(Prefix(t, n)) = Costs(Utf8Len, t)[n]
         /\ Utf16Length(Prefix(t, n)) = Costs(Utf16Len, t)[n]
<1>1. 0 \in 0..Len(t) /\ n \in 0..Len(t) /\ n - 0 = n /\ 0 + 1 = 1
  OBVIOUS
<1>2. PICK s : s = Prefix(t, n)
  OBVIOUS
<1>3. s = Slice(t, 0, n)
  BY <1>1, <1>2 DEF Slice, Prefix
<1>4. s \in Seq(Chars) /\ Len(s) = n /\ \A i \in 1..n : s[i] = t[0 + i]
  <2>1. PICK d : d = n - 0
    OBVIOUS
  <2>2. s \in Seq(Chars) /\ Len(s) = d /\ \A i \in 1..d : s[i] = t[0 + i]
    BY <1>1, <1>3, <2>1, BothEncode, CostOfSlice
  <2> QED BY <1>1, <2>1, <2>2
<1>5. \A i \in 1..n : s[i] = t[0 + i]
  BY <1>4
<1>6. \A i \in 1..n : s[i] = t[i]
  BY <1>5
<1>7. ASSUME NEW len, Encoding(len) PROVE Costs(len, s)[n] = Costs(len, t)[n]
  <2>1. Costs(len, s)[n] = Costs(len, t)[n] - Costs(len, t)[0]
    <3>1. PICK d : d = n - 0
      OBVIOUS
    <3>2. Costs(len, s)[d] = Costs(len, t)[n] - Costs(len, t)[0]
      BY <1>1, <1>3, <1>7, <3>1, CostOfSlice
    <3> QED BY <1>1, <3>1, <3>2
  <2>2. Costs(len, t)[0] = 0 /\ Costs(len, t)[n] \in Nat
    BY <1>7, CostSteps, CostsGrow
  <2> QED BY <2>1, <2>2
<1>8. Bytes(s) = Costs(Utf8Len, t)[n] /\ Utf16Length(s) = Costs(Utf16Len, t)[n]
  BY <1>4, <1>7, BothEncode DEF Bytes, Utf16Length
<1> QED BY <1>2, <1>3, <1>4, <1>6, <1>8

\* A boundary tells how many characters are before it.
LEMMA BoundaryCounts ==
  ASSUME NEW t \in Seq(Chars), NEW n \in 0..Len(t)
  PROVE  /\ Bytes(Prefix(t, n)) \in Nat
         /\ Bytes(Prefix(t, n)) \in Boundaries(t)
         /\ CharsBefore(t, Bytes(Prefix(t, n))) = n
<1>1. PICK cost : cost = Costs(Utf8Len, t)
  OBVIOUS
<1>2. \A k \in 0..Len(t) : Bytes(Prefix(t, k)) = cost[k]
  BY <1>1, PrefixIsSlice
<1>3. \A k \in 0..Len(t) : cost[k] \in Nat
  BY <1>1, BothEncode, CostsGrow
<1>4. \A j, k \in 0..Len(t) : j < k => cost[j] < cost[k]
  BY <1>1, BothEncode, CostsGrow
<1>5. \A k \in 0..Len(t) : cost[k] = cost[n] => k = n
  <2> SUFFICES ASSUME NEW k \in 0..Len(t), cost[k] = cost[n], k # n PROVE FALSE
    OBVIOUS
  <2>1. k < n \/ n < k
    OBVIOUS
  <2>2. cost[k] < cost[n] \/ cost[n] < cost[k]
    BY <1>4, <2>1
  <2> QED BY <1>3, <2>2
<1>6. PICK at : at = Bytes(Prefix(t, n))
  OBVIOUS
<1>7. at = cost[n]
  BY <1>2, <1>6
<1>8. PICK k : k = CharsBefore(t, at)
  OBVIOUS
<1>9. k = CHOOSE i \in 0..Len(t) : Bytes(Prefix(t, i)) = at
  BY <1>8 DEF CharsBefore
<1>10. \E i \in 0..Len(t) : Bytes(Prefix(t, i)) = at
  BY <1>6
<1>11. k \in 0..Len(t) /\ Bytes(Prefix(t, k)) = at
  BY <1>9, <1>10
<1>12. k = n
  BY <1>2, <1>5, <1>7, <1>11
<1> QED BY <1>3, <1>6, <1>7, <1>8, <1>12 DEF Boundaries

-----------------------------------------------------------------------------
\* The newlines among the first characters of a text.
Breaks(t, n) == {k \in 1..n : t[k] = Newline}

\* They are finitely many, more with every newline and never fewer.
LEMMA BreaksCount ==
  ASSUME NEW t, NEW m \in Nat, NEW n \in Nat, m <= n
  PROVE  /\ IsFiniteSet(Breaks(t, n)) /\ Cardinality(Breaks(t, n)) \in Nat
         /\ Cardinality(Breaks(t, m)) \in Nat
         /\ Cardinality(Breaks(t, m)) <= Cardinality(Breaks(t, n))
         /\ m < n /\ t[n] = Newline => Cardinality(Breaks(t, m)) < Cardinality(Breaks(t, n))
<1>1. \A k \in Nat : IsFiniteSet(Breaks(t, k)) /\ Cardinality(Breaks(t, k)) \in Nat
  <2> SUFFICES ASSUME NEW k \in Nat PROVE IsFiniteSet(Breaks(t, k)) /\ Cardinality(Breaks(t, k)) \in Nat
    OBVIOUS
  <2>1. IsFiniteSet(1..k) /\ Breaks(t, k) \subseteq 1..k
    BY FS_Interval DEF Breaks
  <2>2. IsFiniteSet(Breaks(t, k))
    BY <2>1, FS_Subset
  <2> QED BY <2>2, FS_CardinalityType
<1>2. Breaks(t, m) \subseteq Breaks(t, n)
  BY DEF Breaks
<1>3. Cardinality(Breaks(t, m)) <= Cardinality(Breaks(t, n))
  BY <1>1, <1>2, FS_Subset
<1>4. ASSUME m < n, t[n] = Newline PROVE Cardinality(Breaks(t, m)) < Cardinality(Breaks(t, n))
  <2>1. n \in Breaks(t, n) /\ n \notin Breaks(t, m)
    BY <1>4 DEF Breaks
  <2>2. Breaks(t, m) # Breaks(t, n)
    BY <2>1
  <2>3. Cardinality(Breaks(t, m)) # Cardinality(Breaks(t, n))
    BY <1>1, <1>2, <2>2, FS_Subset
  <2> QED BY <1>1, <1>3, <2>3
<1> QED BY <1>1, <1>3, <1>4

\* The newlines of a prefix, and of the whole.
LEMMA NewlinesOfPrefix ==
  ASSUME NEW t \in Seq(Chars), NEW n \in 0..Len(t)
  PROVE  Newlines(Prefix(t, n)) = Breaks(t, n) /\ Newlines(t) = Breaks(t, Len(t))
<1>1. Len(Prefix(t, n)) = n /\ \A i \in 1..n : Prefix(t, n)[i] = t[i]
  BY PrefixIsSlice
<1> QED BY <1>1 DEF Newlines, Breaks

\* A line starts at one place.
Starts(t, n, line) == (n = 0 \/ t[n] = Newline) /\ Cardinality(Breaks(t, n)) = line

\* No line starts twice.
LEMMA OneStart ==
  ASSUME NEW t, NEW m \in Nat, NEW n \in Nat, NEW line, Starts(t, m, line), Starts(t, n, line)
  PROVE  m = n
<1>1. ASSUME NEW i \in Nat, NEW j \in Nat, Starts(t, i, line), Starts(t, j, line), i < j PROVE FALSE
  <2>1. t[j] = Newline /\ i <= j
    BY <1>1 DEF Starts
  <2>2. Cardinality(Breaks(t, i)) < Cardinality(Breaks(t, j)) /\ Cardinality(Breaks(t, i)) \in Nat
    BY <1>1, <2>1, BreaksCount
  <2> QED BY <1>1, <2>2 DEF Starts
<1>2. m < n \/ n < m \/ m = n
  OBVIOUS
<1> QED BY <1>1, <1>2

\* Where the line of the n-th character starts: after the last newline before.
LastBreak(t, n) == IF Breaks(t, n) = {} THEN 0 ELSE Max(Breaks(t, n))

\* It starts there, and no newline stands between it and the character.
LEMMA LineOf ==
  ASSUME NEW t \in Seq(Chars), NEW n \in 0..Len(t)
  PROVE  /\ LastBreak(t, n) \in 0..n
         /\ Starts(t, LastBreak(t, n), Cardinality(Breaks(t, n)))
         /\ \A k \in Breaks(t, n) : k <= LastBreak(t, n)
<1>1. PICK last : last = LastBreak(t, n)
  OBVIOUS
<1>2. Breaks(t, n) \subseteq 0..n
  BY DEF Breaks
<1>3. CASE Breaks(t, n) = {}
  <2>1. last = 0 /\ Breaks(t, 0) = {}
    BY <1>1, <1>3 DEF LastBreak, Breaks
  <2>2. Starts(t, last, Cardinality(Breaks(t, n)))
    BY <1>3, <2>1 DEF Starts
  <2>3. last \in 0..n /\ \A k \in Breaks(t, n) : k <= last
    BY <1>3, <2>1
  <2> QED BY <1>1, <2>2, <2>3
<1>4. CASE Breaks(t, n) # {}
  <2>1. last = Max(Breaks(t, n))
    BY <1>1, <1>4 DEF LastBreak
  <2>2. last \in Breaks(t, n) /\ \A k \in Breaks(t, n) : k <= last
    BY <1>2, <1>4, <2>1, MaxOf
  <2>3. last \in 1..n /\ t[last] = Newline
    BY <2>2 DEF Breaks
  <2>4. Breaks(t, last) = Breaks(t, n)
    BY <2>2, <2>3 DEF Breaks
  <2> QED BY <1>1, <2>2, <2>3, <2>4 DEF Starts
<1> QED BY <1>3, <1>4

\* The line with that many newlines before it holds the place.
LEMMA BoundsOfLine ==
  ASSUME NEW t \in Seq(Chars), NEW n \in 0..Len(t)
  PROVE  \E e \in n..Len(t) : LineBounds(t, Cardinality(Breaks(t, n))) = <<LastBreak(t, n), e>>
<1>1. PICK L \in Nat : L = Len(t)
  OBVIOUS
<1>2. PICK line, start : line = Cardinality(Breaks(t, n)) /\ start = LastBreak(t, n)
  OBVIOUS
<1>3. start \in 0..n /\ Starts(t, start, line) /\ \A k \in Breaks(t, n) : k <= start
  BY <1>2, LineOf
<1>4. ~(line > Cardinality(Newlines(t)))
  <2>1. Newlines(t) = Breaks(t, L)
    BY <1>1, NewlinesOfPrefix
  <2>2. line <= Cardinality(Breaks(t, L)) /\ line \in Nat /\ Cardinality(Breaks(t, L)) \in Nat
    BY <1>1, <1>2, BreaksCount
  <2> QED BY <2>1, <2>2
<1>5. PICK chosen : chosen = CHOOSE k \in 0..Len(t) :
                               /\ k = 0 \/ t[k] = Newline
                               /\ Cardinality(Newlines(Prefix(t, k))) = line
  OBVIOUS
<1>6. chosen = start
  <2>1. \A k \in 0..Len(t) : Newlines(Prefix(t, k)) = Breaks(t, k)
    BY NewlinesOfPrefix
  <2>2. \E k \in 0..Len(t) : (k = 0 \/ t[k] = Newline) /\ Cardinality(Newlines(Prefix(t, k))) = line
    BY <1>3, <2>1 DEF Starts
  <2>3. /\ chosen \in 0..Len(t) /\ (chosen = 0 \/ t[chosen] = Newline)
        /\ Cardinality(Newlines(Prefix(t, chosen))) = line
    BY <1>5, <2>2
  <2>4. Starts(t, chosen, line)
    BY <2>1, <2>3 DEF Starts
  <2> QED BY <1>3, <2>3, <2>4, OneStart
<1>7. PICK later : later = {k \in Newlines(t) : k > start}
  OBVIOUS
<1>8. PICK e : e = IF later = {} THEN Len(t) ELSE Min(later) - 1
  OBVIOUS
<1>9. LineBounds(t, line) = <<start, e>>
  BY <1>4, <1>5, <1>6, <1>7, <1>8, Zenon DEF LineBounds
<1>10. e \in n..Len(t)
  <2>1. CASE later = {}
    BY <1>8, <2>1
  <2>2. CASE later # {}
    <3>1. later \subseteq 1..L
      BY <1>1, <1>7 DEF Newlines
    <3>2. PICK k : k = Min(later)
      OBVIOUS
    <3>3. k \in later
      <4>1. later \subseteq Nat
        BY <3>1
      <4> QED BY <2>2, <3>2, <4>1, MinOf
    <3>4. k \in 1..L /\ t[k] = Newline /\ k > start
      BY <1>1, <1>7, <3>3 DEF Newlines
    <3>5. ~(k <= n)
      <4>1. ASSUME k <= n PROVE FALSE
        <5>1. k \in Breaks(t, n)
          BY <3>4, <4>1 DEF Breaks
        <5> QED BY <1>3, <3>4, <5>1
      <4> QED BY <4>1
    <3>6. e = k - 1
      BY <1>8, <2>2, <3>2
    <3> QED BY <1>1, <3>4, <3>5, <3>6
  <2> QED BY <2>1, <2>2
<1> QED BY <1>2, <1>9, <1>10

\* The position of the n-th character, whatever the text.
Place(t, n) ==
  [line |-> Cardinality(Breaks(t, n)),
   character |-> Costs(Utf16Len, t)[n] - Costs(Utf16Len, t)[LastBreak(t, n)]]

\* utf16_position answers it at a boundary.
LEMMA PositionIsPlace ==
  ASSUME NEW t \in Seq(Chars), NEW n \in 0..Len(t)
  PROVE  /\ Utf16Position(t, Bytes(Prefix(t, n))) = Place(t, n)
         /\ Place(t, n) \in [line : Nat, character : Nat]
         /\ Place(t, n) # Nothing
<1>1. PICK at, before : at = Bytes(Prefix(t, n)) /\ before = Prefix(t, n)
  OBVIOUS
<1>2. at \in Boundaries(t) /\ CharsBefore(t, at) = n
  BY <1>1, BoundaryCounts
<1>3. /\ before \in Seq(Chars) /\ Len(before) = n /\ Newlines(before) = Breaks(t, n)
      /\ \A i \in 1..n : before[i] = t[i]
  BY <1>1, PrefixIsSlice, NewlinesOfPrefix
<1>4. PICK last : last = LastBreak(t, n)
  OBVIOUS
<1>5. last = IF Newlines(before) = {} THEN 0 ELSE Max(Newlines(before))
  BY <1>3, <1>4 DEF LastBreak
<1>6. Utf16Position(t, at) =
        [line |-> Cardinality(Newlines(before)),
         character |-> Utf16Length(Slice(before, last, Len(before)))]
  BY <1>1, <1>2, <1>5, Zenon DEF Utf16Position
<1>7. last \in 0..n
  BY <1>4, LineOf
<1>8. Utf16Length(Slice(before, last, n)) = Costs(Utf16Len, t)[n] - Costs(Utf16Len, t)[last]
  <2>0. last \in 0..Len(before) /\ n \in last..Len(before)
    BY <1>3, <1>7
  <2>1. Len(Slice(before, last, n)) = n - last
    BY <1>3, <2>0, BothEncode, CostOfSlice
  <2>2. Costs(Utf16Len, Slice(before, last, n))[n - last] = Costs(Utf16Len, before)[n] - Costs(Utf16Len, before)[last]
    <3>1. \A len : Encoding(len) =>
            Costs(len, Slice(before, last, n))[n - last] = Costs(len, before)[n] - Costs(len, before)[last]
      BY <1>3, <2>0, CostOfSlice
    <3> QED BY <3>1, BothEncode
  <2>3. ASSUME NEW k \in 0..n PROVE Costs(Utf16Len, before)[k] = Costs(Utf16Len, t)[k]
    <3>1. Utf16Length(Prefix(before, k)) = Costs(Utf16Len, before)[k]
      BY <1>3, PrefixIsSlice
    <3>2. Utf16Length(Prefix(t, k)) = Costs(Utf16Len, t)[k]
      BY PrefixIsSlice
    <3>3. Prefix(before, k) = Prefix(t, k)
      <4>1. Prefix(before, k) \in Seq(Chars) /\ Len(Prefix(before, k)) = k /\ \A i \in 1..k : Prefix(before, k)[i] = before[i]
        BY <1>3, PrefixIsSlice
      <4>2. Prefix(t, k) \in Seq(Chars) /\ Len(Prefix(t, k)) = k /\ \A i \in 1..k : Prefix(t, k)[i] = t[i]
        <5>1. k \in 0..Len(t)
          OBVIOUS
        <5> QED BY <5>1, PrefixIsSlice
      <4>3. \A i \in 1..k : before[i] = t[i]
        BY <1>3
      <4> QED BY <4>1, <4>2, <4>3
    <3> QED BY <3>1, <3>2, <3>3
  <2>4. n \in 0..n
    OBVIOUS
  <2>5. Costs(Utf16Len, before)[n] = Costs(Utf16Len, t)[n] /\ Costs(Utf16Len, before)[last] = Costs(Utf16Len, t)[last]
    BY <1>7, <2>3, <2>4
  <2> QED BY <2>1, <2>2, <2>5 DEF Utf16Length
<1>9. Utf16Position(t, at) = Place(t, n)
  BY <1>3, <1>4, <1>6, <1>8 DEF Place
<1>10. Place(t, n) \in [line : Nat, character : Nat]
  <2>1. Cardinality(Breaks(t, n)) \in Nat
    BY BreaksCount
  <2>2. Costs(Utf16Len, t)[n] \in Nat /\ Costs(Utf16Len, t)[last] \in Nat
    BY <1>7, BothEncode, CostsGrow
  <2>3. last < n => Costs(Utf16Len, t)[last] < Costs(Utf16Len, t)[n]
    BY <1>7, BothEncode, CostsGrow
  <2>4. Costs(Utf16Len, t)[n] - Costs(Utf16Len, t)[last] \in Nat
    <3>1. last = n \/ last < n
      BY <1>7
    <3> QED BY <2>2, <2>3, <3>1
  <2> QED BY <1>4, <2>1, <2>4 DEF Place
<1> QED BY <1>1, <1>9, <1>10, NothingAssumption

\* The units between two characters.
LEMMA UnitsInLine ==
  ASSUME NEW t \in Seq(Chars), NEW a \in 0..Len(t), NEW e \in a..Len(t), NEW n \in a..e
  PROVE  Utf16Length(Slice(t, a, n)) = Costs(Utf16Len, t)[n] - Costs(Utf16Len, t)[a]
<1>1. n \in a..Len(t)
  OBVIOUS
<1>2. Len(Slice(t, a, n)) = n - a
  BY <1>1, BothEncode, CostOfSlice
<1>3. Costs(Utf16Len, Slice(t, a, n))[n - a] = Costs(Utf16Len, t)[n] - Costs(Utf16Len, t)[a]
  BY <1>1, BothEncode, CostOfSlice
<1> QED BY <1>2, <1>3 DEF Utf16Length

\* byte_offset undoes utf16_position.
LEMMA PlaceRoundTrip ==
  ASSUME NEW t \in Seq(Chars), NEW n \in 0..Len(t)
  PROVE  ByteOffset(t, Place(t, n)) = Bytes(Prefix(t, n))
<1>1. PICK p : p = Place(t, n)
  OBVIOUS
<1>2. p.line = Cardinality(Breaks(t, n))
      /\ p.character = Costs(Utf16Len, t)[n] - Costs(Utf16Len, t)[LastBreak(t, n)]
  BY <1>1 DEF Place
<1>3. PICK e \in n..Len(t) : LineBounds(t, p.line) = <<LastBreak(t, n), e>>
  BY <1>2, BoundsOfLine
<1>4. PICK a : a = LastBreak(t, n)
  OBVIOUS
<1>5. a \in 0..n
  BY <1>4, LineOf
<1>6. PICK line : line = LineBounds(t, p.line)
  OBVIOUS
<1>7. line[1] = a /\ line[2] = e /\ line # Nothing
  <2>1. line = <<a, e>>
    BY <1>3, <1>4, <1>6
  <2>2. a \in Nat /\ e \in Nat
    BY <1>5
  <2>3. <<a, e>> \in Nat \X Nat
    BY <2>2
  <2> QED BY <2>1, <2>3, NothingAssumption
<1>8. PICK here : here = {k \in line[1]..line[2] : Utf16Length(Slice(t, line[1], k)) = p.character}
  OBVIOUS
<1>9. ByteOffset(t, p) = IF here = {} THEN Nothing ELSE Bytes(Prefix(t, Min(here)))
  <2>1. here = IF line = Nothing THEN {}
               ELSE {k \in line[1]..line[2] : Utf16Length(Slice(t, line[1], k)) = p.character}
    BY <1>7, <1>8
  <2> QED BY <1>6, <2>1, Zenon DEF ByteOffset
<1>10. here = {n}
  <2>1. \A k \in a..e : Utf16Length(Slice(t, a, k)) = Costs(Utf16Len, t)[k] - Costs(Utf16Len, t)[a]
    <3>1. a \in 0..Len(t) /\ e \in a..Len(t)
      BY <1>5
    <3> QED BY <3>1, UnitsInLine
  <2>2. PICK cost : cost = Costs(Utf16Len, t)
    OBVIOUS
  <2>3. /\ \A k \in 0..Len(t) : cost[k] \in Nat
        /\ \A j, k \in 0..Len(t) : j < k => cost[j] < cost[k]
    BY <2>2, BothEncode, CostsGrow
  <2>4. \A k \in a..e : k \in here <=> cost[k] - cost[a] = cost[n] - cost[a]
    BY <1>2, <1>4, <1>7, <1>8, <2>1, <2>2
  <2>5. n \in here
    BY <1>5, <2>4
  <2>6. ASSUME NEW k \in here PROVE k = n
    <3>1. k \in a..e /\ k \in 0..Len(t) /\ a \in 0..Len(t)
      BY <1>5, <1>7, <1>8, <2>6
    <3>2. cost[k] - cost[a] = cost[n] - cost[a]
      BY <2>4, <2>6, <3>1
    <3>3. cost[k] = cost[n]
      BY <2>3, <3>1, <3>2
    <3>4. k < n \/ n < k \/ k = n
      BY <3>1
    <3>5. cost[k] \in Nat /\ cost[n] \in Nat /\ (k < n => cost[k] < cost[n]) /\ (n < k => cost[n] < cost[k])
      BY <2>3, <3>1
    <3> QED BY <3>3, <3>4, <3>5
  <2> QED BY <2>5, <2>6
<1>11. Min(here) = n
  <2>1. here \subseteq Nat /\ here # {}
    BY <1>10
  <2>2. Min(here) \in here
    BY <2>1, MinOf
  <2> QED BY <1>10, <2>2
<1> QED BY <1>1, <1>9, <1>10, <1>11

-----------------------------------------------------------------------------
\* The shorter of two lengths.
LEMMA Shorter ==
  ASSUME NEW a \in Nat, NEW b \in Nat
  PROVE  Min({a, b}) \in Nat /\ Min({a, b}) <= a /\ Min({a, b}) <= b
<1>1. {a, b} \subseteq Nat /\ {a, b} # {}
  OBVIOUS
<1>2. Min({a, b}) \in {a, b} /\ \A y \in {a, b} : Min({a, b}) <= y
  BY <1>1, MinOf
<1> QED BY <1>2

\* The shared ends of two texts do not meet in either.
LEMMA SharedEnds ==
  ASSUME NEW before \in Seq(Chars), NEW after \in Seq(Chars), NEW p, NEW s,
         p = SharedPrefix(before, after), s = SharedSuffix(before, after, p)
  PROVE  /\ p \in Nat /\ s \in Nat /\ p + s <= Len(before) /\ p + s <= Len(after)
         /\ Prefix(before, p) = Prefix(after, p)
         /\ Slice(before, Len(before) - s, Len(before)) = Slice(after, Len(after) - s, Len(after))
<1>1. PICK m \in Nat : m = Min({Len(before), Len(after)}) /\ m <= Len(before) /\ m <= Len(after)
  BY Shorter
<1>2. PICK P : P = {n \in 0..m : Prefix(before, n) = Prefix(after, n)}
  OBVIOUS
<1>3. p = Max(P)
  BY <1>1, <1>2 DEF SharedPrefix
<1>4. 0 \in P
  <2>1. Prefix(before, 0) = <<>> /\ Prefix(after, 0) = <<>>
    BY DEF Prefix
  <2> QED BY <1>2, <2>1
<1>5. p \in P
  <2>1. P \subseteq 0..m /\ P # {}
    BY <1>2, <1>4
  <2> QED BY <1>3, <2>1, MaxOf
<1>6. p \in 0..m /\ Prefix(before, p) = Prefix(after, p)
  BY <1>2, <1>5
<1>7. PICK d \in Nat : d = m - p
  BY <1>6
<1>8. PICK S : S = {n \in 0..d : Slice(before, Len(before) - n, Len(before)) = Slice(after, Len(after) - n, Len(after))}
  OBVIOUS
<1>9. s = Max(S)
  BY <1>1, <1>7, <1>8 DEF SharedSuffix
<1>10. 0 \in S
  <2>1. Slice(before, Len(before), Len(before)) = <<>> /\ Slice(after, Len(after), Len(after)) = <<>>
    BY DEF Slice
  <2>2. Len(before) - 0 = Len(before) /\ Len(after) - 0 = Len(after)
    OBVIOUS
  <2> QED BY <1>8, <2>1, <2>2
<1>11. s \in S
  <2>1. S \subseteq 0..d /\ S # {}
    BY <1>8, <1>10
  <2> QED BY <1>9, <2>1, MaxOf
<1>12. s \in 0..d /\ Slice(before, Len(before) - s, Len(before)) = Slice(after, Len(after) - s, Len(after))
  BY <1>8, <1>11
<1>13. p + s <= Len(before) /\ p + s <= Len(after) /\ p \in Nat /\ s \in Nat
  BY <1>1, <1>6, <1>7, <1>12
<1> QED BY <1>6, <1>12, <1>13

\* A text is its three parts.
LEMMA ThreeParts ==
  ASSUME NEW t \in Seq(Chars), NEW m \in 0..Len(t), NEW n \in m..Len(t)
  PROVE  Prefix(t, m) \o Slice(t, m, n) \o Slice(t, n, Len(t)) = t
<1>1. PICK a, b, c : a = Prefix(t, m) /\ b = Slice(t, m, n) /\ c = Slice(t, n, Len(t))
  OBVIOUS
<1>2. a \in Seq(Chars) /\ Len(a) = m /\ \A i \in 1..m : a[i] = t[i]
  BY <1>1, PrefixIsSlice
<1>3. b \in Seq(Chars) /\ Len(b) = n - m /\ \A i \in 1..(n - m) : b[i] = t[m + i]
  BY <1>1, BothEncode, CostOfSlice
<1>4. c \in Seq(Chars) /\ Len(c) = Len(t) - n /\ \A i \in 1..(Len(t) - n) : c[i] = t[n + i]
  <2>1. n \in 0..Len(t) /\ Len(t) \in n..Len(t)
    OBVIOUS
  <2> QED BY <1>1, <2>1, BothEncode, CostOfSlice
<1>5. PICK ab : ab = a \o b
  OBVIOUS
<1>6. ab \in Seq(Chars) /\ Len(ab) = n
  <2>0. a \in Seq(Chars) /\ b \in Seq(Chars)
    BY <1>2, <1>3
  <2>1. ab \in Seq(Chars) /\ Len(ab) = Len(a) + Len(b)
    BY <1>5, <2>0
  <2>2. m + (n - m) = n
    OBVIOUS
  <2> QED BY <1>2, <1>3, <2>1, <2>2
<1>7. \A i \in 1..n : ab[i] = t[i]
  <2> SUFFICES ASSUME NEW i \in 1..n PROVE ab[i] = t[i]
    OBVIOUS
  <2>1. CASE i <= m
    BY <1>2, <1>3, <1>5, <2>1
  <2>2. CASE ~(i <= m)
    <3>1. i - m \in 1..(n - m) /\ m + (i - m) = i
      BY <2>2
    <3>2. ab[i] = b[i - m]
      BY <1>2, <1>3, <1>5, <2>2
    <3> QED BY <1>3, <3>1, <3>2
  <2> QED BY <2>1, <2>2
<1>8. PICK abc : abc = ab \o c
  OBVIOUS
<1>9. abc \in Seq(Chars) /\ Len(abc) = Len(t)
  BY <1>4, <1>6, <1>8
<1>10. \A i \in 1..Len(t) : abc[i] = t[i]
  <2> SUFFICES ASSUME NEW i \in 1..Len(t) PROVE abc[i] = t[i]
    OBVIOUS
  <2>1. CASE i <= n
    BY <1>4, <1>6, <1>7, <1>8, <2>1
  <2>2. CASE ~(i <= n)
    <3>1. i - n \in 1..(Len(t) - n) /\ n + (i - n) = i
      BY <2>2
    <3>2. abc[i] = c[i - n]
      BY <1>4, <1>6, <1>8, <2>2
    <3> QED BY <1>4, <3>1, <3>2
  <2> QED BY <2>1, <2>2
<1>11. abc = t
  BY <1>9, <1>10
<1> QED BY <1>1, <1>5, <1>8, <1>11

\* A change of the range between two places replaces the characters between them.
LEMMA ChangeOfRange ==
  ASSUME NEW t \in Seq(Chars), NEW m \in 0..Len(t), NEW n \in m..Len(t), NEW new, NEW change,
         change.start = Place(t, m), change.end = Place(t, n),
         change.length = Nothing, change.text = new
  PROVE  ApplyChange(t, change) = Prefix(t, m) \o new \o Slice(t, n, Len(t))
<1>1. n \in 0..Len(t)
  OBVIOUS
<1>2. change.start # Nothing
  BY PositionIsPlace
<1>3. PICK start, end : start = Bytes(Prefix(t, m)) /\ end = Bytes(Prefix(t, n))
  OBVIOUS
<1>4. ByteOffset(t, change.start) = start /\ ByteOffset(t, change.end) = end
  BY <1>1, <1>3, PlaceRoundTrip
<1>5. start \in Nat /\ end \in Nat /\ CharsBefore(t, start) = m /\ CharsBefore(t, end) = n
  BY <1>1, <1>3, BoundaryCounts
<1>6. ~(start > end)
  <2>1. start = Costs(Utf8Len, t)[m] /\ end = Costs(Utf8Len, t)[n]
    BY <1>1, <1>3, PrefixIsSlice
  <2>2. m < n => start < end
    BY <1>1, <2>1, BothEncode, CostsGrow
  <2>3. m = n \/ m < n
    OBVIOUS
  <2> QED BY <1>5, <2>1, <2>2, <2>3
<1>7. start # Nothing /\ end # Nothing
  BY <1>5, NothingAssumption
<1>8. LengthAgrees(change.length, Slice(t, m, n))
  BY DEF LengthAgrees
<1> QED BY <1>2, <1>4, <1>5, <1>6, <1>7, <1>8 DEF ApplyChange

\* The edit of a fix makes the fixed text of the one it was computed from.
LEMMA EditReconstructs ==
  ASSUME NEW before \in Seq(Chars), NEW after \in Seq(Chars)
  PROVE  ApplyChange(before, WorkspaceTextEdit(before, after)) = after
<1>1. PICK p : p = SharedPrefix(before, after)
  OBVIOUS
<1>2. PICK s : s = SharedSuffix(before, after, p)
  OBVIOUS
<1>3. /\ p \in Nat /\ s \in Nat /\ p + s <= Len(before) /\ p + s <= Len(after)
      /\ Prefix(before, p) = Prefix(after, p)
      /\ Slice(before, Len(before) - s, Len(before)) = Slice(after, Len(after) - s, Len(after))
  BY <1>1, <1>2, SharedEnds
<1>4. PICK n, k : n = Len(before) - s /\ k = Len(after) - s
  OBVIOUS
<1>5. p \in 0..Len(before) /\ n \in p..Len(before) /\ n \in 0..Len(before)
      /\ p \in 0..Len(after) /\ k \in p..Len(after)
  BY <1>3, <1>4
<1>6. PICK edit, new : edit = WorkspaceTextEdit(before, after) /\ new = Slice(after, p, k)
  OBVIOUS
<1>7. edit = [start |-> Utf16Position(before, Bytes(Prefix(before, p))),
              end |-> Utf16Position(before, Bytes(Prefix(before, n))),
              length |-> Nothing, text |-> new]
  BY <1>1, <1>2, <1>4, <1>6, Zenon DEF WorkspaceTextEdit
<1>8. edit.start = Place(before, p) /\ edit.end = Place(before, n) /\ edit.length = Nothing /\ edit.text = new
  BY <1>5, <1>7, PositionIsPlace
<1>9. ApplyChange(before, edit) = Prefix(before, p) \o new \o Slice(before, n, Len(before))
  BY <1>5, <1>8, ChangeOfRange
<1>10. Prefix(after, p) \o Slice(after, p, k) \o Slice(after, k, Len(after)) = after
  BY <1>5, ThreeParts
<1> QED BY <1>3, <1>4, <1>6, <1>9, <1>10

-----------------------------------------------------------------------------
\* A character adds a newline or none.
LEMMA NextBreak ==
  ASSUME NEW t, NEW n \in Nat
  PROVE  Cardinality(Breaks(t, n + 1)) = Cardinality(Breaks(t, n)) + (IF t[n + 1] = Newline THEN 1 ELSE 0)
<1>1. IsFiniteSet(Breaks(t, n)) /\ Cardinality(Breaks(t, n)) \in Nat
  BY BreaksCount
<1>2. CASE t[n + 1] = Newline
  <2>1. Breaks(t, n + 1) = Breaks(t, n) \cup {n + 1} /\ n + 1 \notin Breaks(t, n)
    BY <1>2 DEF Breaks
  <2>2. Cardinality(Breaks(t, n) \cup {n + 1}) = Cardinality(Breaks(t, n)) + 1
    BY <1>1, <2>1, FS_AddElement
  <2> QED BY <1>2, <2>1, <2>2
<1>3. CASE t[n + 1] # Newline
  <2>1. Breaks(t, n + 1) = Breaks(t, n)
    BY <1>3 DEF Breaks
  <2> QED BY <1>1, <1>3, <2>1
<1> QED BY <1>2, <1>3

\* Every line a text has starts somewhere.
LEMMA LineStartsSomewhere ==
  ASSUME NEW t, NEW L \in Nat, NEW line \in Nat, line <= Cardinality(Breaks(t, L))
  PROVE  \E n \in 0..L : Starts(t, n, line)
<1>1. PICK S : S = {n \in 0..L : line <= Cardinality(Breaks(t, n))}
  OBVIOUS
<1>2. L \in S /\ S \subseteq Nat
  BY <1>1
<1>3. PICK n \in S : \A k \in S : n <= k
  BY <1>2, Least
<1>4. n \in 0..L /\ line <= Cardinality(Breaks(t, n))
  BY <1>1, <1>3
<1>5. CASE n = 0
  <2>1. Breaks(t, 0) = {}
    BY DEF Breaks
  <2>2. Cardinality(Breaks(t, 0)) = 0
    BY <2>1, FS_EmptySet
  <2> QED BY <1>4, <1>5, <2>2 DEF Starts
<1>6. CASE n # 0
  <2>1. PICK k \in Nat : k + 1 = n
    <3>1. n - 1 \in Nat /\ (n - 1) + 1 = n
      BY <1>4, <1>6
    <3> QED BY <3>1
  <2>2. k \in 0..L /\ k \notin S
    BY <1>3, <1>4, <2>1
  <2>3. Cardinality(Breaks(t, k)) \in Nat /\ ~(line <= Cardinality(Breaks(t, k)))
    BY <1>1, <2>2, BreaksCount
  <2>4. Cardinality(Breaks(t, n)) = Cardinality(Breaks(t, k)) + (IF t[n] = Newline THEN 1 ELSE 0)
    BY <2>1, NextBreak
  <2>5. t[n] = Newline /\ Cardinality(Breaks(t, n)) = line
    BY <1>4, <2>3, <2>4
  <2> QED BY <1>4, <2>5 DEF Starts
<1> QED BY <1>5, <1>6

\* An offset that byte_offset answers is that of a character of the line.
Found(t, p, a, n) ==
  /\ a \in 0..Len(t) /\ n \in a..Len(t)
  /\ Starts(t, a, p.line)
  /\ p.character = Costs(Utf16Len, t)[n] - Costs(Utf16Len, t)[a]
  /\ ByteOffset(t, p) = Bytes(Prefix(t, n))

\* Whatever byte_offset answers is found that way.
LEMMA OffsetMeans ==
  ASSUME NEW t \in Seq(Chars), NEW p, p.line \in Nat, ByteOffset(t, p) # Nothing
  PROVE  \E a, n : Found(t, p, a, n)
<1>1. PICK L \in Nat : L = Len(t)
  OBVIOUS
<1>2. PICK line : line = LineBounds(t, p.line)
  OBVIOUS
<1>3. PICK here : here = IF line = Nothing THEN {}
                         ELSE {k \in line[1]..line[2] : Utf16Length(Slice(t, line[1], k)) = p.character}
  OBVIOUS
<1>4. ByteOffset(t, p) = IF here = {} THEN Nothing ELSE Bytes(Prefix(t, Min(here)))
  BY <1>2, <1>3, Zenon DEF ByteOffset
<1>5. here # {} /\ line # Nothing
  BY <1>3, <1>4
<1>6. ~(p.line > Cardinality(Newlines(t)))
  BY <1>2, <1>5 DEF LineBounds
<1>7. p.line <= Cardinality(Breaks(t, L)) 
  <2>1. Newlines(t) = Breaks(t, L)
    BY <1>1, NewlinesOfPrefix
  <2>2. Cardinality(Breaks(t, L)) \in Nat
    BY BreaksCount
  <2> QED BY <1>6, <2>1, <2>2
<1>8. PICK a : a = CHOOSE k \in 0..Len(t) :
                     /\ k = 0 \/ t[k] = Newline
                     /\ Cardinality(Newlines(Prefix(t, k))) = p.line
  OBVIOUS
<1>9. a \in 0..Len(t) /\ Starts(t, a, p.line)
  <2>1. \A k \in 0..Len(t) : Newlines(Prefix(t, k)) = Breaks(t, k)
    BY NewlinesOfPrefix
  <2>2. \E k \in 0..L : Starts(t, k, p.line)
    BY <1>7, LineStartsSomewhere
  <2>3. \E k \in 0..Len(t) : (k = 0 \/ t[k] = Newline) /\ Cardinality(Newlines(Prefix(t, k))) = p.line
    BY <1>1, <2>1, <2>2 DEF Starts
  <2>4. a \in 0..Len(t) /\ (a = 0 \/ t[a] = Newline) /\ Cardinality(Newlines(Prefix(t, a))) = p.line
    BY <1>8, <2>3
  <2> QED BY <2>1, <2>4 DEF Starts
<1>10. PICK later : later = {k \in Newlines(t) : k > a}
  OBVIOUS
<1>11. PICK e : e = IF later = {} THEN Len(t) ELSE Min(later) - 1
  OBVIOUS
<1>12. line = <<a, e>>
  BY <1>2, <1>6, <1>8, <1>10, <1>11, Zenon DEF LineBounds
<1>13. e \in a..Len(t)
  <2>1. CASE later = {}
    BY <1>9, <1>11, <2>1
  <2>2. CASE later # {}
    <3>1. later \subseteq Nat
      BY <1>1, <1>10 DEF Newlines
    <3>2. PICK k : k = Min(later)
      OBVIOUS
    <3>3. k \in later
      BY <2>2, <3>1, <3>2, MinOf
    <3>4. k \in 1..L /\ k > a
      BY <1>1, <1>10, <3>3 DEF Newlines
    <3>5. e = k - 1
      BY <1>11, <2>2, <3>2
    <3> QED BY <1>1, <1>9, <3>4, <3>5
  <2> QED BY <2>1, <2>2
<1>14. PICK n : n = Min(here)
  OBVIOUS
<1>15. here = {k \in a..e : Utf16Length(Slice(t, a, k)) = p.character}
  <2>1. line[1] = a /\ line[2] = e
    BY <1>12
  <2> QED BY <1>3, <1>5, <2>1
<1>16. n \in here
  <2>1. here \subseteq Nat
    BY <1>9, <1>13, <1>15
  <2> QED BY <1>5, <1>14, <2>1, MinOf
<1>17. n \in a..e /\ Utf16Length(Slice(t, a, n)) = p.character
  BY <1>15, <1>16
<1>18. p.character = Costs(Utf16Len, t)[n] - Costs(Utf16Len, t)[a]
  BY <1>9, <1>13, <1>17, UnitsInLine
<1>19. n \in a..Len(t)
  BY <1>13, <1>17
<1>20. ByteOffset(t, p) = Bytes(Prefix(t, n))
  BY <1>4, <1>5, <1>14
<1>21. Found(t, p, a, n)
  BY <1>9, <1>18, <1>19, <1>20 DEF Found
<1> QED BY <1>21

\* What an accepted change of a range is: both its ends are characters of the text.
LEMMA ChangeMeans ==
  ASSUME NEW t \in Seq(Chars), NEW change, change.start # Nothing,
         change.start.line \in Nat, change.end.line \in Nat, ApplyChange(t, change) # Nothing
  PROVE  \E a, m, b, n :
           /\ Found(t, change.start, a, m) /\ Found(t, change.end, b, n)
           /\ m <= n
           /\ LengthAgrees(change.length, Slice(t, m, n))
           /\ ApplyChange(t, change) = Prefix(t, m) \o change.text \o Slice(t, n, Len(t))
<1>1. PICK start, end : start = ByteOffset(t, change.start) /\ end = ByteOffset(t, change.end)
  OBVIOUS
<1>2. PICK first, second : first = CharsBefore(t, start) /\ second = CharsBefore(t, end)
  OBVIOUS
<1>3. ApplyChange(t, change) =
        IF start = Nothing \/ end = Nothing THEN Nothing
        ELSE IF start > end THEN Nothing
        ELSE IF LengthAgrees(change.length, Slice(t, first, second))
             THEN Prefix(t, first) \o change.text \o Slice(t, second, Len(t))
             ELSE Nothing
  BY <1>1, <1>2, Zenon DEF ApplyChange
<1>4. start # Nothing /\ end # Nothing
  BY <1>3
<1>5. PICK a, m : Found(t, change.start, a, m)
  BY <1>1, <1>4, OffsetMeans
<1>6. PICK b, n : Found(t, change.end, b, n)
  BY <1>1, <1>4, OffsetMeans
<1>7. m \in 0..Len(t) /\ n \in 0..Len(t) /\ start = Bytes(Prefix(t, m)) /\ end = Bytes(Prefix(t, n))
  BY <1>1, <1>5, <1>6 DEF Found
<1>8. first = m /\ second = n /\ start \in Nat /\ end \in Nat
  BY <1>2, <1>7, BoundaryCounts
<1>9. ~(start > end)
  BY <1>3, <1>4
<1>10. m <= n
  <2>1. start = Costs(Utf8Len, t)[m] /\ end = Costs(Utf8Len, t)[n]
    BY <1>7, PrefixIsSlice
  <2>2. n < m => end < start
    BY <1>7, <2>1, BothEncode, CostsGrow
  <2> QED BY <1>7, <1>8, <1>9, <2>2
<1>11. LengthAgrees(change.length, Slice(t, m, n))
  BY <1>3, <1>4, <1>8, <1>9
<1>12. ApplyChange(t, change) = Prefix(t, m) \o change.text \o Slice(t, n, Len(t))
  BY <1>3, <1>4, <1>8, <1>9
<1> QED BY <1>5, <1>6, <1>10, <1>11, <1>12

\* A document is a text, or there is none.
TextInv == text \in AllTexts \cup {Nothing}

\* The texts explored are texts.
LEMMA TextsAreTexts ==
  ASSUME NEW t
  PROVE  t \in AllTexts <=> t \in Seq(Chars) /\ Len(t) <= MaxLen
<1>1. ASSUME t \in AllTexts PROVE t \in Seq(Chars) /\ Len(t) <= MaxLen
  <2>1. PICK n \in 0..MaxLen : t \in [1..n -> Chars]
    BY <1>1 DEF AllTexts
  <2>2. n \in Nat /\ n <= MaxLen
    BY CharsAssumption
  <2>3. t \in Seq(Chars) /\ Len(t) = n
    BY <2>1, <2>2
  <2> QED BY <2>2, <2>3
<1>2. ASSUME t \in Seq(Chars), Len(t) <= MaxLen PROVE t \in AllTexts
  <2>1. t \in [1..Len(t) -> Chars] /\ Len(t) \in 0..MaxLen
    BY <1>2, CharsAssumption
  <2> QED BY <2>1 DEF AllTexts
<1> QED BY <1>1, <1>2

\* A change that is received leaves a text.
LEMMA ReceivesText ==
  ASSUME TextInv, NEW change, Receives(change), change.text \in Seq(Chars),
         change.start = Nothing \/ (change.start.line \in Nat /\ change.end.line \in Nat)
  PROVE  TextInv'
<1>1. PICK t, result : t = text /\ result = ApplyChange(text, change)
  OBVIOUS
<1>2. t \in AllTexts /\ result # Nothing /\ Len(result) <= MaxLen /\ text' = result
  BY <1>1 DEF Receives, TextInv
<1>3. t \in Seq(Chars)
  BY <1>2, TextsAreTexts
<1>4. result \in Seq(Chars)
  <2>1. CASE change.start = Nothing
    BY <1>1, <1>2, <2>1 DEF ApplyChange
  <2>2. CASE change.start # Nothing
    <3>0. /\ change.start.line \in Nat /\ change.end.line \in Nat
          /\ ApplyChange(t, change) = result /\ ApplyChange(t, change) # Nothing
      BY <1>1, <1>2, <2>2
    <3>1. PICK a, m, b, n :
            /\ Found(t, change.start, a, m) /\ Found(t, change.end, b, n)
            /\ ApplyChange(t, change) = Prefix(t, m) \o change.text \o Slice(t, n, Len(t))
      BY <1>3, <2>2, <3>0, ChangeMeans, Zenon
    <3>2. m \in 0..Len(t) /\ n \in 0..Len(t) /\ Len(t) \in n..Len(t)
      BY <1>3, <3>1 DEF Found
    <3>3. Prefix(t, m) \in Seq(Chars) /\ Slice(t, n, Len(t)) \in Seq(Chars)
      BY <1>3, <3>2, PrefixIsSlice, BothEncode, CostOfSlice
    <3>4. PICK x, y : x = Prefix(t, m) /\ y = Slice(t, n, Len(t))
      OBVIOUS
    <3>5. x \in Seq(Chars) /\ y \in Seq(Chars) /\ result = x \o change.text \o y
      BY <3>0, <3>1, <3>3, <3>4
    <3>6. x \o change.text \in Seq(Chars)
      BY <3>5
    <3> QED BY <3>5, <3>6
  <2> QED BY <2>1, <2>2
<1>5. result \in AllTexts
  BY <1>2, <1>4, TextsAreTexts
<1> QED BY <1>2, <1>5 DEF TextInv

\* Whatever changes it receives, a document stays a text.
LEMMA TextInvariant == DocumentSpec => []TextInv
<1>1. DocumentInit => TextInv
  BY DEF DocumentInit, TextInv, ShortTexts
<1>2. TextInv /\ [DocumentNext]_text => TextInv'
  <2> SUFFICES ASSUME TextInv, [DocumentNext]_text PROVE TextInv'
    OBVIOUS
  <2>1. \A new \in ShortTexts : new \in Seq(Chars)
    BY TextsAreTexts DEF ShortTexts
  <2>2. CASE ReceivesFull
    <3>1. PICK length \in Lengths, new \in ShortTexts : Receives(FullChange(length, new))
      BY <2>2 DEF ReceivesFull
    <3>2. PICK change : change = FullChange(length, new)
      OBVIOUS
    <3>3. change.text = new /\ change.start = Nothing
      BY <3>2 DEF FullChange, RangeChange
    <3> QED BY <2>1, <3>1, <3>2, <3>3, ReceivesText
  <2>3. CASE ReceivesRange
    <3>1. PICK p \in Positions, q \in Positions, length \in Lengths, new \in ShortTexts :
            Receives(RangeChange(p, q, length, new))
      BY <2>3 DEF ReceivesRange
    <3>2. PICK change : change = RangeChange(p, q, length, new)
      OBVIOUS
    <3>3. change.text = new /\ change.start = p /\ change.end = q
      BY <3>2 DEF RangeChange
    <3>4. p.line \in Nat /\ q.line \in Nat
      BY DEF Positions
    <3> QED BY <2>1, <3>1, <3>2, <3>3, <3>4, ReceivesText
  <2>4. CASE UNCHANGED text
    BY <2>4 DEF TextInv
  <2> QED BY <2>2, <2>3, <2>4 DEF DocumentNext
<1> QED BY <1>1, <1>2, PTL DEF DocumentSpec

\* The edit the server sends for a fix, applied by the rules client and server share,
\* gives exactly the fixed text, for every document and every fixed text, whatever
\* its characters take in UTF-8 and in UTF-16 (replacement_bounds, workspace_text_edit).
THEOREM FixEditsReconstruct == DocumentSpec => []FixEditReconstructs
<1>1. TextInv => FixEditReconstructs
  <2> SUFFICES ASSUME TextInv, text # Nothing, NEW after \in AllTexts
               PROVE  ApplyChange(text, WorkspaceTextEdit(text, after)) = after
    BY DEF FixEditReconstructs
  <2>1. text \in Seq(Chars) /\ after \in Seq(Chars)
    BY TextsAreTexts DEF TextInv
  <2> QED BY <2>1, EditReconstructs
<1> QED BY <1>1, TextInvariant, PTL

-----------------------------------------------------------------------------
(* The client's array of code units *)

Halves == Chars \X (1..2)

\* A character is one or two units of its own.
LEMMA UnitsOfChar ==
  ASSUME NEW c \in Chars
  PROVE  /\ Utf16Len[c] \in 1..2
         /\ UnitsOf(c) \in Seq(Halves) /\ Len(UnitsOf(c)) = Utf16Len[c]
         /\ \A k \in 1..Utf16Len[c] : UnitsOf(c)[k] = <<c, k>>
<1>1. Utf16Len[c] \in 1..2
  BY CharsAssumption
<1>2. PICK d \in Nat : d = Utf16Len[c] /\ d \in 1..2
  BY <1>1
<1>3. UnitsOf(c) = [half \in 1..d |-> <<c, half>>]
  BY <1>2 DEF UnitsOf
<1>4. \A k \in 1..d : <<c, k>> \in Halves
  BY <1>2 DEF Halves
<1>5. [half \in 1..d |-> <<c, half>>] \in Seq(Halves) /\ Len([half \in 1..d |-> <<c, half>>]) = d
  BY <1>4
<1> QED BY <1>1, <1>2, <1>3, <1>5

\* What the units of each prefix are.
Arrays(units, t, m) ==
  /\ units = [n \in 0..m |-> units[n]]
  /\ units[0] = <<>>
  /\ \A n \in 0..m : n # 0 => units[n] = units[n - 1] \o UnitsOf(t[n])

\* There is such a function for every number of characters.
LEMMA ArraysExist ==
  ASSUME NEW t, NEW m \in Nat
  PROVE  \E units : Arrays(units, t, m)
<1>1. PICK T : T = {n \in Nat : ~\E units : Arrays(units, t, n)}
  OBVIOUS
<1>2. 0 \notin T
  <2>1. PICK units : units = [n \in 0..0 |-> <<>>]
    OBVIOUS
  <2>2. Arrays(units, t, 0)
    BY <2>1 DEF Arrays
  <2> QED BY <1>1, <2>2
<1>3. ASSUME NEW n \in Nat, n \notin T PROVE n + 1 \notin T
  <2>1. PICK units : Arrays(units, t, n)
    BY <1>1, <1>3
  <2>2. PICK last : last = units[n] \o UnitsOf(t[n + 1])
    OBVIOUS
  <2>3. PICK more : more = [k \in 0..(n + 1) |-> IF k = n + 1 THEN last ELSE units[k]]
    OBVIOUS
  <2>4. more[n + 1] = last /\ \A k \in 0..n : more[k] = units[k]
    BY <2>3
  <2>5. more[0] = <<>>
    BY <2>1, <2>4 DEF Arrays
  <2>6. ASSUME NEW k \in 0..(n + 1), k # 0 PROVE more[k] = more[k - 1] \o UnitsOf(t[k])
    <3>1. CASE k = n + 1
      <4>1. more[k - 1] = units[n]
        BY <2>4, <3>1
      <4> QED BY <2>2, <2>4, <3>1, <4>1
    <3>2. CASE k # n + 1
      <4>1. k \in 0..n /\ k - 1 \in 0..n
        BY <2>6, <3>2
      <4>2. more[k] = units[k] /\ more[k - 1] = units[k - 1]
        BY <2>4, <4>1
      <4> QED BY <2>1, <2>6, <4>1, <4>2 DEF Arrays
    <3> QED BY <3>1, <3>2
  <2>7. more = [k \in 0..(n + 1) |-> more[k]]
    BY <2>3
  <2>8. Arrays(more, t, n + 1)
    BY <2>5, <2>6, <2>7 DEF Arrays
  <2> QED BY <1>1, <2>8
<1>4. T = {}
  <2>1. T \subseteq Nat /\ \A n \in Nat : n + 1 \in T => n \in T
    BY <1>1, <1>3
  <2> QED BY <1>2, <2>1, NoCounterexample
<1> QED BY <1>1, <1>4

\* UnitsUpTo is that function.
LEMMA UnitSteps ==
  ASSUME NEW t \in Seq(Chars)
  PROVE  /\ UnitsUpTo(t)[0] = <<>>
         /\ \A n \in 0..(Len(t) - 1) : UnitsUpTo(t)[n + 1] = UnitsUpTo(t)[n] \o UnitsOf(t[n + 1])
<1>1. PICK m \in Nat : m = Len(t)
  OBVIOUS
<1>2. PICK units : Arrays(units, t, m)
  BY ArraysExist
<1>3. units = [n \in 0..m |-> IF n = 0 THEN <<>> ELSE units[n - 1] \o UnitsOf(t[n])]
  BY <1>2 DEF Arrays
<1>4. PICK whole : whole = UnitsUpTo(t)
  OBVIOUS
<1>5. whole = CHOOSE u : u = [n \in 0..m |-> IF n = 0 THEN <<>> ELSE u[n - 1] \o UnitsOf(t[n])]
  BY <1>1, <1>4, Zenon DEF UnitsUpTo
<1>6. whole = [n \in 0..m |-> IF n = 0 THEN <<>> ELSE whole[n - 1] \o UnitsOf(t[n])]
  BY <1>3, <1>5, Zenon
<1>7. whole[0] = <<>>
  BY <1>6
<1>8. ASSUME NEW n \in 0..(m - 1) PROVE whole[n + 1] = whole[n] \o UnitsOf(t[n + 1])
  <2>1. n + 1 \in 0..m /\ n + 1 # 0 /\ (n + 1) - 1 = n
    OBVIOUS
  <2> QED BY <1>6, <2>1
<1> QED BY <1>1, <1>4, <1>7, <1>8

\* The units of a prefix are as many as it costs.
LEMMA UnitsTyped ==
  ASSUME NEW t \in Seq(Chars), NEW n \in 0..Len(t)
  PROVE  /\ UnitsUpTo(t)[n] \in Seq(Halves)
         /\ Len(UnitsUpTo(t)[n]) = Costs(Utf16Len, t)[n]
<1>1. PICK L \in Nat : L = Len(t)
  OBVIOUS
<1>2. PICK up, cost : up = UnitsUpTo(t) /\ cost = Costs(Utf16Len, t)
  OBVIOUS
<1>3. PICK S : S = {k \in Nat : up[k] \in Seq(Halves) /\ Len(up[k]) = cost[k]}
  OBVIOUS
<1>4. 0 \in S
  <2>1. up[0] = <<>> /\ cost[0] = 0
    BY <1>2, CostSteps, UnitSteps
  <2>2. <<>> \in Seq(Halves) /\ Len(<<>>) = 0
    OBVIOUS
  <2>3. up[0] \in Seq(Halves) /\ Len(up[0]) = cost[0]
    BY <2>1, <2>2, Zenon
  <2>4. 0 \in Nat
    OBVIOUS
  <2> QED BY <1>3, <2>3, <2>4, Zenon
<1>5. ASSUME NEW k \in 0..(L - 1), k \in S PROVE k + 1 \in S
  <2>1. PICK c : c = t[k + 1]
    OBVIOUS
  <2>2. c \in Chars
    <3>1. k + 1 \in 1..Len(t)
      BY <1>1
    <3> QED BY <2>1, <3>1
  <2>3. up[k + 1] = up[k] \o UnitsOf(c) /\ cost[k + 1] = cost[k] + Utf16Len[c]
    BY <1>1, <1>2, <2>1, CostSteps, UnitSteps
  <2>4. PICK x, y : x = up[k] /\ y = UnitsOf(c)
    OBVIOUS
  <2>5. x \in Seq(Halves) /\ Len(x) = cost[k] /\ y \in Seq(Halves) /\ Len(y) = Utf16Len[c]
    BY <1>3, <1>5, <2>2, <2>4, UnitsOfChar
  <2>6. x \o y \in Seq(Halves) /\ Len(x \o y) = Len(x) + Len(y)
    BY <2>5
  <2>7. up[k + 1] \in Seq(Halves) /\ Len(up[k + 1]) = Len(x) + Len(y)
    BY <2>3, <2>4, <2>6, Zenon
  <2>8. Len(up[k + 1]) = cost[k + 1]
    BY <2>3, <2>5, <2>7, Zenon
  <2>9. k + 1 \in Nat
    OBVIOUS
  <2> QED BY <1>3, <2>7, <2>8, <2>9, Zenon
<1>6. \A k \in 0..L : k \in S
  BY <1>4, <1>5, UpTo
<1> QED BY <1>1, <1>2, <1>3, <1>6

\* Joining arrays is associative, and adding none changes nothing.
LEMMA Joining ==
  ASSUME NEW a \in Seq(Halves), NEW b \in Seq(Halves), NEW c \in Seq(Halves)
  PROVE  (a \o b) \o c = a \o (b \o c) /\ a \o <<>> = a /\ <<>> \o a = a
<1>1. a \o <<>> = a /\ <<>> \o a = a
  OBVIOUS
<1>2. (a \o b) \o c = a \o (b \o c)
  OBVIOUS
<1> QED BY <1>1, <1>2

\* The units up to a character are those up to an earlier one and those between.
LEMMA UnitsOfSlice ==
  ASSUME NEW t \in Seq(Chars), NEW m \in 0..Len(t), NEW n \in m..Len(t)
  PROVE  UnitsUpTo(t)[n] = UnitsUpTo(t)[m] \o Units(Slice(t, m, n))
<1>1. PICK s : s = Slice(t, m, n)
  OBVIOUS
<1>2. s \in Seq(Chars) /\ Len(s) = n - m /\ \A i \in 1..(n - m) : s[i] = t[m + i]
  BY <1>1, BothEncode, CostOfSlice
<1>3. PICK whole, part : whole = UnitsUpTo(t) /\ part = UnitsUpTo(s)
  OBVIOUS
<1>4. PICK d \in Nat : d = n - m
  OBVIOUS
<1>5. PICK S : S = {i \in Nat : whole[m + i] = whole[m] \o part[i]}
  OBVIOUS
<1>6. whole[m] \in Seq(Halves)
  BY <1>3, UnitsTyped
<1>7. 0 \in S
  <2>0. m + 0 = m /\ 0 \in Nat
    OBVIOUS
  <2>1. part[0] = <<>>
    BY <1>2, <1>3, UnitSteps
  <2>2. whole[m] \o <<>> = whole[m]
    BY <1>6, Joining
  <2>3. whole[m + 0] = whole[m] \o part[0]
    BY <2>0, <2>1, <2>2, Zenon
  <2> QED BY <1>5, <2>0, <2>3, Zenon
<1>8. ASSUME NEW i \in 0..(d - 1), i \in S PROVE i + 1 \in S
  <2>1. m + i \in 0..(Len(t) - 1) /\ (m + i) + 1 = m + (i + 1) /\ i + 1 \in 1..(n - m)
        /\ i \in 0..(Len(s) - 1) /\ i \in 0..Len(s)
    BY <1>2, <1>4
  <2>2. PICK c : c = s[i + 1]
    OBVIOUS
  <2>3. c \in Chars /\ c = t[m + (i + 1)]
    BY <1>2, <2>1, <2>2
  <2>4. part[i + 1] = part[i] \o UnitsOf(c)
    BY <1>2, <1>3, <2>1, <2>2, UnitSteps
  <2>5. whole[(m + i) + 1] = whole[m + i] \o UnitsOf(t[(m + i) + 1])
    BY <1>3, <2>1, UnitSteps
  <2>6. whole[m + (i + 1)] = (whole[m] \o part[i]) \o UnitsOf(c)
    BY <1>5, <1>8, <2>1, <2>3, <2>5
  <2>7. part[i] \in Seq(Halves) /\ UnitsOf(c) \in Seq(Halves)
    BY <1>2, <1>3, <2>1, <2>3, UnitsTyped, UnitsOfChar
  <2>8. (whole[m] \o part[i]) \o UnitsOf(c) = whole[m] \o (part[i] \o UnitsOf(c))
    BY <1>6, <2>7, Joining
  <2>9. whole[m + (i + 1)] = whole[m] \o part[i + 1]
    BY <2>4, <2>6, <2>8, Zenon
  <2>10. i + 1 \in Nat
    OBVIOUS
  <2> QED BY <1>5, <2>9, <2>10, Zenon
<1>9. \A i \in 0..d : i \in S
  BY <1>7, <1>8, UpTo
<1>10. d \in S /\ m + d = n
  BY <1>4, <1>9
<1>11. whole[n] = whole[m] \o part[d] /\ part[d] = Units(s)
  BY <1>2, <1>3, <1>4, <1>5, <1>10 DEF Units
<1> QED BY <1>1, <1>3, <1>11

\* The units of a prefix and of what follows it.
LEMMA UnitsOfPrefix ==
  ASSUME NEW t \in Seq(Chars), NEW n \in 0..Len(t)
  PROVE  /\ Units(Prefix(t, n)) = UnitsUpTo(t)[n]
         /\ Units(t) = UnitsUpTo(t)[n] \o Units(Slice(t, n, Len(t)))
<1>1. 0 \in 0..Len(t) /\ n \in 0..Len(t) /\ Len(t) \in n..Len(t)
  OBVIOUS
<1>2. Prefix(t, n) = Slice(t, 0, n) /\ Prefix(t, n) \in Seq(Chars)
  BY PrefixIsSlice
<1>3. UnitsUpTo(t)[n] = UnitsUpTo(t)[0] \o Units(Slice(t, 0, n))
  BY <1>1, UnitsOfSlice
<1>4. UnitsUpTo(t)[0] = <<>>
  BY UnitSteps
<1>5. Units(Prefix(t, n)) \in Seq(Halves)
  <2>1. Len(Prefix(t, n)) \in 0..Len(Prefix(t, n))
    BY <1>2
  <2> QED BY <1>2, <2>1, UnitsTyped DEF Units
<1>6. <<>> \o Units(Prefix(t, n)) = Units(Prefix(t, n))
  BY <1>5, Joining
<1>7. UnitsUpTo(t)[Len(t)] = UnitsUpTo(t)[n] \o Units(Slice(t, n, Len(t)))
  BY <1>1, UnitsOfSlice
<1> QED BY <1>2, <1>3, <1>4, <1>6, <1>7 DEF Units

\* The units of two texts joined are theirs joined.
LEMMA UnitsJoin ==
  ASSUME NEW x \in Seq(Chars), NEW y \in Seq(Chars)
  PROVE  /\ Units(x \o y) = Units(x) \o Units(y)
         /\ x \o y \in Seq(Chars)
         /\ Units(x) \in Seq(Halves) /\ Units(y) \in Seq(Halves)
<1>0. x \o y \in Seq(Chars)
  OBVIOUS
<1>1. PICK t \in Seq(Chars) : t = x \o y
  BY <1>0
<1>2. Len(t) = Len(x) + Len(y) /\ Len(x) \in 0..Len(t)
  BY <1>1
<1>3. Prefix(t, Len(x)) = x
  BY <1>1, <1>2 DEF Prefix
<1>4. Slice(t, Len(x), Len(t)) = y
  BY <1>1, <1>2 DEF Slice
<1>5. Units(Prefix(t, Len(x))) = UnitsUpTo(t)[Len(x)]
      /\ Units(t) = UnitsUpTo(t)[Len(x)] \o Units(Slice(t, Len(x), Len(t)))
  BY <1>2, UnitsOfPrefix
<1>6. Len(x) \in 0..Len(x) /\ Len(y) \in 0..Len(y)
  OBVIOUS
<1>7. Units(x) \in Seq(Halves) /\ Units(y) \in Seq(Halves)
  BY <1>6, UnitsTyped DEF Units
<1>8. Units(t) = Units(x) \o Units(y)
  BY <1>3, <1>4, <1>5, Zenon
<1> QED BY <1>1, <1>7, <1>8

\* Two arrays joined fall apart where they were joined.
LEMMA Splitting ==
  ASSUME NEW a \in Seq(Halves), NEW b \in Seq(Halves)
  PROVE  /\ SubSeq(a \o b, 1, Len(a)) = a
         /\ SubSeq(a \o b, Len(a) + 1, Len(a \o b)) = b
         /\ a \o b \in Seq(Halves) /\ Len(a \o b) = Len(a) + Len(b)
         /\ \A k \in 1..Len(a) : (a \o b)[k] = a[k]
         /\ \A k \in 1..Len(b) : (a \o b)[Len(a) + k] = b[k]
<1>1. a \o b \in Seq(Halves) /\ Len(a \o b) = Len(a) + Len(b)
  OBVIOUS
<1>2. \A k \in 1..Len(a) : (a \o b)[k] = a[k]
  OBVIOUS
<1>3. \A k \in 1..Len(b) : (a \o b)[Len(a) + k] = b[k]
  OBVIOUS
<1>4. SubSeq(a \o b, 1, Len(a)) = a
  OBVIOUS
<1>5. SubSeq(a \o b, Len(a) + 1, Len(a \o b)) = b
  OBVIOUS
<1> QED BY <1>1, <1>2, <1>3, <1>4, <1>5

\* A text's units up to a character, and from it.
LEMMA UnitsSplit ==
  ASSUME NEW t \in Seq(Chars), NEW n \in 0..Len(t)
  PROVE  /\ Units(t) \in Seq(Halves) /\ Len(Units(t)) = Costs(Utf16Len, t)[Len(t)]
         /\ Costs(Utf16Len, t)[n] \in 0..Len(Units(t))
         /\ SubSeq(Units(t), 1, Costs(Utf16Len, t)[n]) = UnitsUpTo(t)[n]
         /\ SubSeq(Units(t), Costs(Utf16Len, t)[n] + 1, Len(Units(t))) = Units(Slice(t, n, Len(t)))
         /\ \A k \in 1..Costs(Utf16Len, t)[n] : Units(t)[k] = UnitsUpTo(t)[n][k]
<1>1. PICK u, a, b : u = Units(t) /\ a = UnitsUpTo(t)[n] /\ b = Units(Slice(t, n, Len(t)))
  OBVIOUS
<1>2. a \in Seq(Halves) /\ Len(a) = Costs(Utf16Len, t)[n]
  BY <1>1, UnitsTyped
<1>3. Slice(t, n, Len(t)) \in Seq(Chars)
  <2>1. Len(t) \in n..Len(t)
    OBVIOUS
  <2> QED BY <2>1, BothEncode, CostOfSlice
<1>4. b \in Seq(Halves)
  BY <1>1, <1>3, UnitsJoin
<1>5. u = a \o b
  BY <1>1, UnitsOfPrefix
<1>6. Len(u) = Costs(Utf16Len, t)[Len(t)]
  <2>1. Len(t) \in 0..Len(t)
    OBVIOUS
  <2> QED BY <1>1, <2>1, UnitsTyped DEF Units
<1>7. /\ SubSeq(u, 1, Len(a)) = a
      /\ SubSeq(u, Len(a) + 1, Len(u)) = b
      /\ u \in Seq(Halves) /\ Len(u) = Len(a) + Len(b)
      /\ \A k \in 1..Len(a) : u[k] = a[k]
  BY <1>2, <1>4, <1>5, Splitting
<1>8. Len(a) \in 0..Len(u)
  BY <1>2, <1>4, <1>7
<1> QED BY <1>1, <1>2, <1>6, <1>7, <1>8, Zenon

\* Where the units of a character stand.
LEMMA UnitAt ==
  ASSUME NEW t \in Seq(Chars), NEW n \in 0..(Len(t) - 1), NEW k \in 1..Utf16Len[t[n + 1]]
  PROVE  /\ Costs(Utf16Len, t)[n] \in Nat
         /\ Costs(Utf16Len, t)[n] + k \in 1..Len(Units(t))
         /\ Units(t)[Costs(Utf16Len, t)[n] + k] = <<t[n + 1], k>>
<1>1. n \in 0..Len(t) /\ n + 1 \in 0..Len(t) /\ n + 1 \in 1..Len(t)
  OBVIOUS
<1>2. PICK c : c = t[n + 1]
  OBVIOUS
<1>3. c \in Chars
  BY <1>1, <1>2
<1>4. PICK u, a, b, z : u = Units(t) /\ a = UnitsUpTo(t)[n] /\ b = UnitsOf(c) /\ z = UnitsUpTo(t)[n + 1]
  OBVIOUS
<1>5. a \in Seq(Halves) /\ Len(a) = Costs(Utf16Len, t)[n] /\ b \in Seq(Halves) /\ Len(b) = Utf16Len[c]
  BY <1>1, <1>3, <1>4, UnitsTyped, UnitsOfChar
<1>6. z = a \o b
  BY <1>2, <1>4, UnitSteps
<1>7. z \in Seq(Halves) /\ Len(z) = Costs(Utf16Len, t)[n + 1]
  BY <1>1, <1>4, UnitsTyped
<1>8. k \in 1..Len(b)
  BY <1>2, <1>5
<1>9. z[Len(a) + k] = b[k] /\ Len(z) = Len(a) + Len(b)
  BY <1>5, <1>6, <1>8, Splitting
<1>10. Len(z) \in 0..Len(u) /\ \A i \in 1..Len(z) : u[i] = z[i]
  BY <1>1, <1>4, <1>7, UnitsSplit
<1>11. u \in Seq(Halves)
  BY <1>1, <1>4, UnitsSplit
<1>12. Len(a) + k \in 1..Len(z) /\ Len(a) + k \in 1..Len(u) /\ Len(a) \in Nat
  BY <1>5, <1>8, <1>9, <1>10, <1>11
<1>13. b[k] = <<c, k>>
  BY <1>2, <1>3, <1>4, UnitsOfChar
<1>14. u[Len(a) + k] = <<c, k>>
  BY <1>9, <1>10, <1>12, <1>13
<1> QED BY <1>2, <1>4, <1>5, <1>12, <1>14, Zenon

\* The characters the units belong to.
Owners(u) == [k \in 1..Len(u) |-> u[k][1]]

\* A character owns the units it stands for.
LEMMA OwnerAt ==
  ASSUME NEW t \in Seq(Chars), NEW n \in 0..(Len(t) - 1), NEW k \in 1..Utf16Len[t[n + 1]]
  PROVE  Owners(Units(t))[Costs(Utf16Len, t)[n] + k] = t[n + 1]
<1>1. PICK u, i : u = Units(t) /\ i = Costs(Utf16Len, t)[n] + k
  OBVIOUS
<1>2. i \in 1..Len(u) /\ u[i] = <<t[n + 1], k>>
  BY <1>1, UnitAt
<1>3. u[i][1] = t[n + 1]
  BY <1>2
<1>4. Owners(u)[i] = u[i][1]
  BY <1>2 DEF Owners
<1> QED BY <1>1, <1>3, <1>4, Zenon

\* As many newlines among the units up to a character as before that character.
LEMMA BreaksAmongUnits ==
  ASSUME NEW t \in Seq(Chars), NEW n \in 0..Len(t)
  PROVE  Cardinality(Breaks(Owners(Units(t)), Costs(Utf16Len, t)[n])) = Cardinality(Breaks(t, n))
<1>1. PICK L \in Nat : L = Len(t)
  OBVIOUS
<1>2. PICK w, cost : w = Owners(Units(t)) /\ cost = Costs(Utf16Len, t)
  OBVIOUS
<1>3. PICK S : S = {k \in Nat : Cardinality(Breaks(w, cost[k])) = Cardinality(Breaks(t, k))}
  OBVIOUS
<1>4. 0 \in S
  <2>1. cost[0] = 0
    BY <1>2, CostSteps
  <2>2. Breaks(w, 0) = {} /\ Breaks(t, 0) = {} /\ 0 \in Nat
    BY DEF Breaks
  <2>3. Cardinality(Breaks(w, cost[0])) = Cardinality(Breaks(t, 0))
    BY <2>1, <2>2, Zenon
  <2> QED BY <1>3, <2>2, <2>3, Zenon
<1>5. ASSUME NEW k \in 0..(L - 1), k \in S PROVE k + 1 \in S
  <2>1. k \in 0..(Len(t) - 1) /\ k + 1 \in 1..Len(t) /\ k \in 0..Len(t) /\ k \in Nat /\ k + 1 \in Nat
    BY <1>1
  <2>2. PICK c : c = t[k + 1]
    OBVIOUS
  <2>3. c \in Chars
    BY <2>1, <2>2
  <2>4. PICK at : at = cost[k]
    OBVIOUS
  <2>5. at \in Nat
    BY <1>2, <2>1, <2>4, BothEncode, CostsGrow
  <2>6. PICK d : d = Utf16Len[c]
    OBVIOUS
  <2>7. d \in 1..2 /\ (c = Newline => d = 1)
    BY <2>3, <2>6, CharsAssumption
  <2>8. cost[k + 1] = at + d
    BY <1>2, <2>1, <2>2, <2>4, <2>6, CostSteps
  <2>9. \A j \in 1..d : w[at + j] = c
    BY <1>2, <2>1, <2>2, <2>4, <2>6, OwnerAt
  <2>10. Cardinality(Breaks(w, at)) = Cardinality(Breaks(t, k)) /\ Cardinality(Breaks(t, k)) \in Nat
    BY <1>3, <1>5, <2>1, <2>4, BreaksCount
  <2>11. Cardinality(Breaks(t, k + 1)) = Cardinality(Breaks(t, k)) + (IF c = Newline THEN 1 ELSE 0)
    BY <2>1, <2>2, NextBreak
  <2>12. Cardinality(Breaks(w, at + 1)) = Cardinality(Breaks(w, at)) + (IF c = Newline THEN 1 ELSE 0)
    <3>1. 1 \in 1..d
      BY <2>7
    <3>2. w[at + 1] = c
      BY <2>9, <3>1
    <3> QED BY <2>5, <3>2, NextBreak
  <2>13. Cardinality(Breaks(w, at + d)) = Cardinality(Breaks(t, k + 1))
    <3>1. CASE d = 1
      BY <2>10, <2>11, <2>12, <3>1
    <3>2. CASE d = 2
      <4>1. 2 \in 1..d /\ c # Newline /\ at + 1 \in Nat /\ (at + 1) + 1 = at + 2
        BY <2>5, <2>7, <3>2
      <4>2. w[(at + 1) + 1] # Newline
        BY <2>9, <4>1
      <4>3. Cardinality(Breaks(w, (at + 1) + 1)) = Cardinality(Breaks(w, at + 1)) + (IF w[(at + 1) + 1] = Newline THEN 1 ELSE 0)
        BY <4>1, NextBreak
      <4> QED BY <2>10, <2>11, <2>12, <3>2, <4>1, <4>2, <4>3
    <3> QED BY <2>7, <3>1, <3>2
  <2>14. Cardinality(Breaks(w, cost[k + 1])) = Cardinality(Breaks(t, k + 1))
    BY <2>8, <2>13, Zenon
  <2> QED BY <1>3, <2>1, <2>14, Zenon
<1>6. \A k \in 0..L : k \in S
  BY <1>4, <1>5, UpTo
<1> QED BY <1>1, <1>2, <1>3, <1>6

\* A line starts among the units where its first character does.
LEMMA LineStartIs ==
  ASSUME NEW t \in Seq(Chars), NEW a \in 0..Len(t), NEW line, Starts(t, a, line)
  PROVE  LineStart(Units(t), line) = Costs(Utf16Len, t)[a]
<1>1. PICK u, w, at : u = Units(t) /\ w = Owners(u) /\ at = Costs(Utf16Len, t)[a]
  OBVIOUS
<1>2. u \in Seq(Halves) /\ at \in 0..Len(u)
  BY <1>1, UnitsSplit
<1>3. Cardinality(Breaks(w, at)) = line
  BY <1>1, BreaksAmongUnits DEF Starts
<1>4. at = 0 \/ w[at] = Newline
  <2>1. CASE a = 0
    BY <1>1, <2>1, CostSteps
  <2>2. CASE a # 0
    <3>1. PICK n \in 0..(Len(t) - 1) : n + 1 = a
      <4>1. a - 1 \in 0..(Len(t) - 1) /\ (a - 1) + 1 = a
        BY <2>2
      <4> QED BY <4>1
    <3>2. t[n + 1] = Newline
      BY <2>2, <3>1 DEF Starts
    <3>3. Utf16Len[t[n + 1]] = 1 /\ 1 \in 1..Utf16Len[t[n + 1]]
      BY <3>2, CharsAssumption
    <3>4. at = Costs(Utf16Len, t)[n] + 1
      BY <1>1, <3>1, <3>3, CostSteps
    <3>5. w[at] = t[n + 1]
      BY <1>1, <3>3, <3>4, OwnerAt
    <3> QED BY <3>2, <3>5
  <2> QED BY <2>1, <2>2
<1>5. \A n \in 0..Len(u) :
        (n = 0 \/ u[n][1] = Newline) /\ Cardinality({k \in 1..n : u[k][1] = Newline}) = line
          <=> Starts(w, n, line)
  <2> SUFFICES ASSUME NEW n \in 0..Len(u)
               PROVE  (n = 0 \/ u[n][1] = Newline) /\ Cardinality({k \in 1..n : u[k][1] = Newline}) = line
                        <=> Starts(w, n, line)
    OBVIOUS
  <2>1. \A k \in 1..n : w[k] = u[k][1]
    BY <1>1, <1>2 DEF Owners
  <2>2. {k \in 1..n : u[k][1] = Newline} = Breaks(w, n)
    BY <2>1 DEF Breaks
  <2>3. n = 0 \/ n \in 1..n
    BY <1>2
  <2>4. (n = 0 \/ u[n][1] = Newline) <=> (n = 0 \/ w[n] = Newline)
    BY <2>1, <2>3
  <2> QED BY <2>2, <2>4, Zenon DEF Starts
<1>6. Starts(w, at, line)
  BY <1>3, <1>4 DEF Starts
<1>7. PICK s : s = LineStart(u, line)
  OBVIOUS
<1>8. s = CHOOSE n \in 0..Len(u) :
            (n = 0 \/ u[n][1] = Newline) /\ Cardinality({k \in 1..n : u[k][1] = Newline}) = line
  BY <1>7 DEF LineStart
<1>9. s \in 0..Len(u) /\ (s = 0 \/ u[s][1] = Newline) /\ Cardinality({k \in 1..s : u[k][1] = Newline}) = line
  BY <1>2, <1>5, <1>6, <1>8, Zenon
<1>10. Starts(w, s, line)
  BY <1>5, <1>9, Zenon
<1>11. s \in Nat /\ at \in Nat
  BY <1>2, <1>9
<1>12. s = at
  BY <1>6, <1>10, <1>11, OneStart
<1> QED BY <1>1, <1>7, <1>12, Zenon

\* The client's offset of a position the server finds is that of the character found.
LEMMA UnitOffsetIs ==
  ASSUME NEW t \in Seq(Chars), NEW p, NEW a, NEW n, Found(t, p, a, n)
  PROVE  UnitOffset(Units(t), p) = Costs(Utf16Len, t)[n]
<1>1. a \in 0..Len(t) /\ n \in 0..Len(t) /\ Starts(t, a, p.line)
      /\ p.character = Costs(Utf16Len, t)[n] - Costs(Utf16Len, t)[a]
  BY DEF Found
<1>2. LineStart(Units(t), p.line) = Costs(Utf16Len, t)[a]
  BY <1>1, LineStartIs
<1>3. PICK i, j : i = Costs(Utf16Len, t)[a] /\ j = Costs(Utf16Len, t)[n]
  OBVIOUS
<1>4. i \in Nat /\ j \in Nat
  BY <1>1, <1>3, BothEncode, CostsGrow
<1>5. UnitOffset(Units(t), p) = i + (j - i)
  BY <1>1, <1>2, <1>3, Zenon DEF UnitOffset
<1> QED BY <1>3, <1>4, <1>5

\* What a change does to the client's array of units.
Splices(t, p, q, length, new) ==
  LET u == Units(t)
      result == ApplyChange(t, RangeChange(p, q, length, new))
      m == UnitOffset(u, p)
      n == UnitOffset(u, q)
  IN /\ m <= n /\ n <= Len(u)
     /\ length = Nothing \/ length = n - m
     /\ Units(result) = SubSeq(u, 1, m) \o Units(new) \o SubSeq(u, n + 1, Len(u))

\* It does to that array what it does to the text.
LEMMA ChangeIsSplice ==
  ASSUME NEW t \in Seq(Chars), NEW p \in Positions, NEW q \in Positions, NEW length,
         NEW new \in Seq(Chars), ApplyChange(t, RangeChange(p, q, length, new)) # Nothing
  PROVE  Splices(t, p, q, length, new)
<1>1. PICK u, result : u = Units(t) /\ result = ApplyChange(t, RangeChange(p, q, length, new))
  OBVIOUS
<1>2. PICK m, n : m = UnitOffset(u, p) /\ n = UnitOffset(u, q)
  OBVIOUS
<1>3. PICK change : change = RangeChange(p, q, length, new)
  OBVIOUS
<1>4. change.start = p /\ change.end = q /\ change.length = length /\ change.text = new
  BY <1>3 DEF RangeChange
<1>5. p \in [line : Nat, character : Nat] /\ p.line \in Nat /\ q.line \in Nat
  BY CharsAssumption DEF Positions
<1>6. p # Nothing
  BY <1>5, NothingAssumption
<1>7. change.start # Nothing /\ change.start.line \in Nat /\ change.end.line \in Nat
      /\ ApplyChange(t, change) = result /\ ApplyChange(t, change) # Nothing
  BY <1>1, <1>3, <1>4, <1>5, <1>6, Zenon
<1>8. PICK a, i, b, j :
        /\ Found(t, p, a, i) /\ Found(t, q, b, j)
        /\ i <= j
        /\ LengthAgrees(length, Slice(t, i, j))
        /\ result = Prefix(t, i) \o new \o Slice(t, j, Len(t))
  <2>1. \E a, i, b, j :
          /\ Found(t, change.start, a, i) /\ Found(t, change.end, b, j)
          /\ i <= j
          /\ LengthAgrees(change.length, Slice(t, i, j))
          /\ ApplyChange(t, change) = Prefix(t, i) \o change.text \o Slice(t, j, Len(t))
    BY <1>7, ChangeMeans, Zenon
  <2> QED BY <1>4, <1>7, <2>1, Zenon
<1>9. i \in 0..Len(t) /\ j \in i..Len(t) /\ j \in 0..Len(t)
  BY <1>8 DEF Found
<1>10. m = Costs(Utf16Len, t)[i] /\ n = Costs(Utf16Len, t)[j]
  BY <1>1, <1>2, <1>8, UnitOffsetIs
<1>11. /\ m \in 0..Len(u) /\ n \in 0..Len(u) /\ u \in Seq(Halves)
       /\ SubSeq(u, 1, m) = UnitsUpTo(t)[i]
       /\ SubSeq(u, n + 1, Len(u)) = Units(Slice(t, j, Len(t)))
  BY <1>1, <1>9, <1>10, UnitsSplit
<1>12. m <= n
  <2>1. CASE i = j
    BY <1>10, <1>11, <2>1
  <2>2. CASE i < j
    <3>1. m < n
      BY <1>9, <1>10, <2>2, BothEncode, CostsGrow
    <3> QED BY <1>11, <3>1
  <2> QED BY <1>9, <2>1, <2>2
<1>13. length = Nothing \/ length = n - m
  <2>1. Len(t) \in i..Len(t) /\ j \in i..Len(t)
    BY <1>9
  <2>2. Utf16Length(Slice(t, i, j)) = n - m
    BY <1>9, <1>10, <2>1, UnitsInLine
  <2> QED BY <1>8, <2>2 DEF LengthAgrees
<1>14. PICK x, y : x = Prefix(t, i) /\ y = Slice(t, j, Len(t))
  OBVIOUS
<1>15. x \in Seq(Chars) /\ y \in Seq(Chars)
  <2>1. Len(t) \in j..Len(t)
    BY <1>9
  <2> QED BY <1>9, <1>14, <2>1, PrefixIsSlice, BothEncode, CostOfSlice
<1>16. x \o new \in Seq(Chars)
  BY <1>15
<1>17. Units(x \o new \o y) = Units(x \o new) \o Units(y) /\ Units(x \o new) = Units(x) \o Units(new)
  BY <1>15, <1>16, UnitsJoin
<1>18. Units(x) = UnitsUpTo(t)[i]
  BY <1>9, <1>14, UnitsOfPrefix
<1>19. Units(result) = SubSeq(u, 1, m) \o Units(new) \o SubSeq(u, n + 1, Len(u))
  BY <1>8, <1>11, <1>14, <1>17, <1>18, Zenon
<1>20. n <= Len(u)
  BY <1>11
<1> QED BY <1>1, <1>2, <1>12, <1>13, <1>19, <1>20, Zenon DEF Splices

\* A change the server accepts does to the text what it does to the client's array of
\* UTF-16 code units: its positions are offsets into that array, in order and within
\* it, its length is theirs, and no surrogate pair is cut (byte_offset, apply_change).
THEOREM ChangesSplice == DocumentSpec => []ChangesAreUnitSplices
<1>1. TextInv => ChangesAreUnitSplices
  <2> SUFFICES ASSUME TextInv, text # Nothing PROVE ChangesAreUnitSplices
    BY DEF ChangesAreUnitSplices
  <2>1. text \in Seq(Chars) /\ \A new \in ShortTexts : new \in Seq(Chars)
    BY TextsAreTexts DEF TextInv, ShortTexts
  <2>2. ASSUME NEW p \in Positions, NEW q \in Positions, NEW length \in Lengths, NEW new \in ShortTexts,
               ApplyChange(text, RangeChange(p, q, length, new)) # Nothing
        PROVE  Splices(text, p, q, length, new)
    BY <2>1, <2>2, ChangeIsSplice
  <2> QED BY <2>2, Zenon DEF ChangesAreUnitSplices, Splices
<1> QED BY <1>1, TextInvariant, PTL
=============================================================================
