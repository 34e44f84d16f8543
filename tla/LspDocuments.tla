---------------------------- MODULE LspDocuments ----------------------------
(***************************************************************************)
(* The documents and the configuration of a language-server session, and   *)
(* what is derived from them: the snapshots requests work on and the       *)
(* diagnostics published (document.rs, workspace.rs and the notification   *)
(* handlers of state.rs in crates/pure-analyzer-lsp/src).                  *)
(*                                                                         *)
(* The coordinator handles one notification at a time, in the order sent   *)
(* (see LspServer), so a handler is one step and the client's own copy of  *)
(* a document changes in the step that sends the change.  A notification   *)
(* may arrive twice, or be malformed.                                      *)
(*                                                                         *)
(* A text is an element of Texts and an incremental change a function on   *)
(* them, with the value Reject where apply_change returns false (a range   *)
(* that is not in the text); Utf16Text says what those functions are.      *)
(***************************************************************************)
EXTENDS Naturals, Sequences, SequencesExt

CONSTANTS
  Uris, Texts,
  Changes,      \* content changes: a set of functions [Texts -> Texts \cup {Reject}]
  Reject,
  Settings,     \* workspace settings: sequences of `modelDocuments` routes
  Absent,       \* no such document, no settings
  NoVersion,    \* a document without a client version
  MaxVersion,   \* bound on client versions
  MaxRevision,  \* u64::MAX in the code: checked_add fails there
  MaxBatch,     \* bound on the changes of one didChange
  MaxSnapshots  \* bound on the snapshots alive at a time

ASSUME TextsAssumption == Reject \notin Texts /\ Changes \subseteq [Texts -> Texts \cup {Reject}]
ASSUME AbsentAssumption == Absent \notin Settings
ASSUME NoVersionAssumption == NoVersion \notin Nat
ASSUME RevisionAssumption == MaxRevision \in Nat
ASSUME BatchAssumption == MaxBatch \in Nat /\ MaxVersion \in Nat

VARIABLES
  docs,        \* DocumentStore.documents: uri -> [text, version] or Absent
  revision,    \* DocumentStore.revision
  settings,    \* WorkspaceConfiguration.settings
  models,      \* WorkspaceConfiguration.model_documents: sequence of routes
  cfgRevision, \* WorkspaceConfiguration.revision
  snapshots,   \* AnalysisSnapshots held by requests in flight
  published,   \* uri -> what its last publishDiagnostics was computed from
  client,      \* the client's own copy: uri -> [text, version] or Absent
  lastSent     \* the opening or change sent last, which may arrive again

store == <<docs, revision>>
config == <<settings, models, cfgRevision>>
vars == <<docs, revision, settings, models, cfgRevision, snapshots, published, client, lastSent>>

-----------------------------------------------------------------------------
(* document.rs *)

Version == 1..MaxVersion

AcceptsVersion(current, incoming) ==
  \/ current = NoVersion
  \/ current # NoVersion /\ incoming # NoVersion /\ incoming > current

\* Variant used to test the properties: the counter saturates and lets the
\* update through.
NextRevisionSaturating == {IF revision < MaxRevision THEN revision + 1 ELSE revision}

\* checked_add: the next revision, or none once the counter is exhausted.
NextRevision == IF revision < MaxRevision THEN {revision + 1} ELSE {}

\* DocumentStore::replace, remove and apply_changes: what each accepts.
ReplaceAccepts(u, version) ==
  docs[u] # Absent => AcceptsVersion(docs[u].version, version)

\* Variant used to test the properties: the changes before a bad one stay.
ApplyAllKeepsPrefix(text, batch) ==
  FoldLeft(LAMBDA t, c : IF c[t] = Reject THEN t ELSE c[t], text, batch)

ApplyAll(text, batch) ==
  FoldLeft(LAMBDA t, c : IF t = Reject THEN Reject ELSE c[t], text, batch)

-----------------------------------------------------------------------------
(* workspace.rs *)

\* model_documents: the first well-formed route of each uri.
ModelDocuments(routes) ==
  FoldLeft(LAMBDA kept, r :
             IF r.kind = "other" \/ r.uri \notin Uris \/ \E k \in ToSet(kept) : k.uri = r.uri
             THEN kept ELSE Append(kept, r),
           <<>>, routes)

\* WorkspaceConfiguration::update: equal settings and an exhausted counter
\* leave everything as it was.
UpdateConfiguration(s) ==
  IF s = settings \/ cfgRevision = MaxRevision
  THEN UNCHANGED config
  ELSE /\ settings' = s
       /\ models' = ModelDocuments(s)
       /\ cfgRevision' = cfgRevision + 1

-----------------------------------------------------------------------------
(* state.rs: snapshots and publication *)

\* AnalysisSnapshot::capture keeps the routes of open documents only.
OpenRoutes(d, m) == SelectSeq(m, LAMBDA r : d[r.uri] # Absent)
Capture ==
  [revision |-> revision, cfgRevision |-> cfgRevision, docs |-> docs,
   models |-> OpenRoutes(docs, models)]

\* request: every open document that is not routed as a model is a query; the
\* models are the routed ones, in the order of the routes.
Queries(d, m) == {u \in Uris : d[u] # Absent /\ \A r \in ToSet(m) : r.uri # u}
ModelInputs(d, m) ==
  LET routes == OpenRoutes(d, m) IN
    [i \in DOMAIN routes |-> [route |-> routes[i], text |-> d[routes[i].uri].text]]

\* What the diagnostics of every document are computed from: lint on the queries
\* over the models, or the validation of the models alone.
Analysed(d, m) ==
  [queries |-> [u \in Queries(d, m) |-> d[u].text], models |-> ModelInputs(d, m)]

\* What the client shows for a document: the analysis its last publication came
\* from and the version it was sent for.  A closed document is published once
\* more, as empty.
Shown(d, m, u) == [version |-> d[u].version, of |-> Analysed(d, m)]
Cleared == [version |-> NoVersion, of |-> "nothing"]

\* Variant used to test the properties: only the changed document is published.
PublishOnly(changed) ==
  published' = [u \in Uris |->
    IF docs'[u] # Absent /\ u \in changed THEN Shown(docs', models', u)
    ELSE IF u \in changed THEN Cleared
    ELSE published[u]]

\* publish_current_diagnostics, after the empty publication of a closed document.
Publish(changed) ==
  published' = [u \in Uris |->
    IF docs'[u] # Absent THEN Shown(docs', models', u)
    ELSE IF u \in changed THEN Cleared
    ELSE published[u]]

-----------------------------------------------------------------------------
(* state.rs: notification handlers *)

Ignored == UNCHANGED <<store, config, published>>

OpenDocument(u, text, version) ==
  IF ReplaceAccepts(u, version) /\ NextRevision # {}
  THEN /\ revision' \in NextRevision
       /\ docs' = [docs EXCEPT ![u] = [text |-> text, version |-> version]]
       /\ UNCHANGED config
       /\ Publish({u})
  ELSE Ignored

ChangeDocument(u, version, batch) ==
  IF /\ batch # <<>>
     /\ docs[u] # Absent
     /\ AcceptsVersion(docs[u].version, version)
     /\ ApplyAll(docs[u].text, batch) # Reject
     /\ NextRevision # {}
  THEN /\ revision' \in NextRevision
       /\ docs' = [docs EXCEPT ![u] = [text |-> ApplyAll(docs[u].text, batch),
                                       version |-> version]]
       /\ UNCHANGED config
       /\ Publish({u})
  ELSE Ignored

SaveDocument(u) ==
  IF docs[u] # Absent
  THEN UNCHANGED <<store, config>> /\ Publish({u})
  ELSE Ignored

CloseDocument(u) ==
  IF docs[u] # Absent /\ NextRevision # {}
  THEN /\ revision' \in NextRevision
       /\ docs' = [docs EXCEPT ![u] = Absent]
       /\ UNCHANGED config
       /\ Publish({u})
  ELSE Ignored

UpdateSettings(s) ==
  /\ UpdateConfiguration(s)
  /\ UNCHANGED store
  /\ Publish({})

-----------------------------------------------------------------------------
(* The client *)

Batches == UNION {[1..n -> Changes] : n \in 1..MaxBatch}

\* What a batch means to the client that sends it: each change applies to the
\* result of the one before.
Meaning(text, batch) ==
  FoldLeft(LAMBDA t, c : IF t = Reject THEN Reject ELSE c[t], text, batch)

Once == [method |-> "none"]
Sends(message) == lastSent' = message /\ UNCHANGED snapshots

Opens(u, text, version) ==
  /\ client[u] = Absent
  /\ client' = [client EXCEPT ![u] = [text |-> text, version |-> version]]
  /\ OpenDocument(u, text, version)
  /\ Sends([method |-> "didOpen", uri |-> u, text |-> text, version |-> version])

NextVersion(u) == IF client[u].version = NoVersion THEN 1 ELSE client[u].version + 1

Edits(u, batch) ==
  /\ client[u] # Absent
  /\ NextVersion(u) \in Version
  /\ Meaning(client[u].text, batch) # Reject
  /\ client' = [client EXCEPT ![u] = [text |-> Meaning(client[u].text, batch),
                                      version |-> NextVersion(u)]]
  /\ ChangeDocument(u, NextVersion(u), batch)
  /\ Sends([method |-> "didChange", uri |-> u, version |-> NextVersion(u), batch |-> batch])

\* A change one of whose ranges is not in the text.
SendsMalformed(u, batch) ==
  /\ client[u] # Absent
  /\ NextVersion(u) \in Version
  /\ Meaning(client[u].text, batch) = Reject
  /\ ChangeDocument(u, NextVersion(u), batch)
  /\ Sends([method |-> "didChange", uri |-> u, version |-> NextVersion(u), batch |-> batch])
  /\ UNCHANGED client

Saves(u) ==
  /\ client[u] # Absent
  /\ SaveDocument(u)
  /\ Sends(Once)
  /\ UNCHANGED client

Closes(u) ==
  /\ client[u] # Absent
  /\ client' = [client EXCEPT ![u] = Absent]
  /\ CloseDocument(u)
  /\ Sends(Once)

Configures(s) ==
  /\ UpdateSettings(s)
  /\ Sends(Once)
  /\ UNCHANGED client

\* The last opening or change arrives once more.
Repeats ==
  /\ \/ /\ lastSent.method = "didOpen"
        /\ OpenDocument(lastSent.uri, lastSent.text, lastSent.version)
     \/ /\ lastSent.method = "didChange"
        /\ ChangeDocument(lastSent.uri, lastSent.version, lastSent.batch)
  /\ UNCHANGED <<snapshots, client, lastSent>>

\* hover_work, definition_work, code_actions_work; the request is answered later.
Requests ==
  /\ Cardinality(snapshots) < MaxSnapshots
  /\ snapshots' = snapshots \cup {Capture}
  /\ UNCHANGED <<store, config, published, client, lastSent>>

Completes(s) ==
  /\ snapshots' = snapshots \ {s}
  /\ UNCHANGED <<store, config, published, client, lastSent>>

Init ==
  /\ docs = [u \in Uris |-> Absent]
  /\ revision = 0
  /\ settings = Absent
  /\ models = <<>>
  /\ cfgRevision = 0
  /\ snapshots = {}
  /\ published = [u \in Uris |-> Cleared]
  /\ client = [u \in Uris |-> Absent]
  /\ lastSent = Once

Next ==
  \/ \E u \in Uris :
       \/ \E text \in Texts, version \in {1, NoVersion} : Opens(u, text, version)
       \/ \E batch \in Batches : Edits(u, batch) \/ SendsMalformed(u, batch)
       \/ Saves(u) \/ Closes(u)
  \/ \E s \in Settings : Configures(s)
  \/ Repeats \/ Requests
  \/ \E s \in snapshots : Completes(s)

Spec == Init /\ [][Next]_vars

-----------------------------------------------------------------------------
(* Properties *)

\* The two revision counters alone tell a snapshot that is out of date: while
\* both are what they were at its capture, every document and every route is
\* (is_current; the counters stop, and the updates with them, at u64::MAX).
CurrentMeansUnchanged ==
  \A s \in snapshots :
    s.revision = revision /\ s.cfgRevision = cfgRevision =>
      s.docs = docs /\ s.models = OpenRoutes(docs, models)

\* A document the server holds at the client's version has the client's text:
\* a repeated or malformed notification never makes them drift apart
\* (accepts_version, apply_changes).  Once the counter is exhausted the store
\* is frozen, and the client can move on without it.
InSync ==
  revision < MaxRevision => \A u \in Uris :
    docs[u] # Absent /\ client[u] # Absent /\ docs[u].version = client[u].version
      => docs[u].text = client[u].text

\* The diagnostics on the client's screen are those of the current documents
\* and routes, and a document that is not open has none
\* (publish_current_diagnostics after every handler that changes something).
PublishedIsCurrent ==
  \A u \in Uris :
    published[u] = IF docs[u] # Absent THEN Shown(docs, models, u) ELSE Cleared

=============================================================================
