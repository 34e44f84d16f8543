----------------------------- MODULE LspServer -----------------------------
(***************************************************************************)
(* The concurrent coordinator of pure-analyzer-lsp: server.rs, dispatch.rs,*)
(* scheduler.rs and cancellation.rs of crates/pure-analyzer-lsp/src.       *)
(*                                                                         *)
(* A reader thread turns client input into events and waits, message by    *)
(* message, for the coordinator's acknowledgement.  The coordinator owns   *)
(* all server state and the output stream; it handles one event at a time. *)
(* Workers of a bounded pool run requests on detached snapshots and report *)
(* through the same event channel.                                         *)
(*                                                                         *)
(* The n-th message read is identified by n.  Payloads are abstract: a     *)
(* message is its kind and its JSON-RPC id, the documents and the          *)
(* configuration are the revision the snapshots are compared by.           *)
(***************************************************************************)
EXTENDS Naturals, Sequences, FiniteSets

CONSTANTS
  Ids,         \* ids RequestId::from_json accepts (strings, 64-bit integers)
  Odd,         \* an id it does not accept (null, a fraction): no cancellation
  None,        \* no id: the message is a notification
  Messages,    \* messages the client may send: a subset of MessageType
  MaxMessages, \* bound on the messages read in a session
  PoolSize,    \* worker threads of the pool
  WriteFaults  \* may a write to the output stream fail?

\* "edit" changes the document store or the configuration, "save" republishes
\* and changes neither.  The id of a "cancel" is the id in its parameters: the
\* notification itself has none.
MessageKinds ==
  {"notObject", "initialize", "shutdown", "exit", "cancel", "edit", "save",
   "request", "badParams", "unknown"}
MessageType == [kind : MessageKinds, id : Ids \cup {Odd, None}]

ASSUME IdsAssumption == Odd \notin Ids /\ None \notin Ids /\ Odd # None
ASSUME MessagesAssumption == Messages \subseteq MessageType
ASSUME BoundsAssumption == MaxMessages \in Nat /\ PoolSize \in Nat \ {0}

VARIABLES
  closed,     \* the client has closed its end of the input
  reader,     \* reader thread: "reading", "waiting" (for an ack), "stopped"
  log,        \* messages read so far
  channel,    \* the mpsc channel of ServerEvents
  lifecycle,  \* "New", "Running", "ShuttingDown"
  rev,        \* revision of documents and configuration together
  terminal,   \* local of serve_events: "None", "Clean", "Unclean"
  serving,    \* serve_events: "running", or how it returned: "ok", "failed"
  exited,     \* thread::scope has joined the reader: serve has returned
  pending,    \* RequestScheduler.pending
  active,     \* CancellationRegistry: id -> its message, 0 when absent
  cancelled,  \* messages whose CancellationToken is set
  job,        \* message -> "none", "queued", "running", "sent", "done"
  snapshot,   \* message -> revision its AnalysisSnapshot was captured at
  replies     \* message -> responses written for it

inputVars == <<closed, reader, log>>
serveVars == <<lifecycle, rev, terminal>>
jobVars   == <<pending, active, cancelled, job, snapshot>>
vars == <<closed, reader, log, channel, lifecycle, rev, terminal, serving, exited,
          pending, active, cancelled, job, snapshot, replies>>

Msg == 1..MaxMessages
Outcomes == {"Completed", "Panicked", "Cancelled"}
Event ==
  [type : {"Input"}, msg : Msg, outcome : {"None"}] \cup
  [type : {"Completed"}, msg : Msg, outcome : Outcomes] \cup
  [type : {"EndOfInput", "InputError"}, msg : {0}, outcome : {"None"}]
ReplyKinds == {"result", "error", "fresh", "stale", "cancelled", "failed"}

Init ==
  /\ closed = FALSE
  /\ reader = "reading"
  /\ log = <<>>
  /\ channel = <<>>
  /\ lifecycle = "New"
  /\ rev = 0
  /\ terminal = "None"
  /\ serving = "running"
  /\ exited = FALSE
  /\ pending = 0
  /\ active = [i \in Ids |-> 0]
  /\ cancelled = {}
  /\ job = [m \in Msg |-> "none"]
  /\ snapshot = [m \in Msg |-> 0]
  /\ replies = [m \in Msg |-> <<>>]

-----------------------------------------------------------------------------
(* The client and the reader thread (read_events).  The receiver of the      *)
(* channel outlives serve_events, so a send succeeds even after it returned. *)

Sent(type, m, outcome) ==
  Append(channel, [type |-> type, msg |-> m, outcome |-> outcome])

ClientCloses ==
  /\ ~closed
  /\ closed' = TRUE
  /\ UNCHANGED <<reader, log, channel, serveVars, serving, exited, jobVars, replies>>

ReadMessage(message) ==
  /\ reader = "reading"
  /\ ~closed
  /\ Len(log) < MaxMessages
  /\ log' = Append(log, message)
  /\ channel' = Sent("Input", Len(log) + 1, "None")
  /\ reader' = "waiting"
  /\ UNCHANGED <<closed, serveVars, serving, exited, jobVars, replies>>

\* read_frame reports the end of the input, or a malformed frame.
ReadEnd ==
  /\ reader = "reading"
  /\ \/ closed /\ channel' = Sent("EndOfInput", 0, "None")
     \/ ~closed /\ channel' = Sent("InputError", 0, "None")
  /\ reader' = "stopped"
  /\ UNCHANGED <<closed, log, serveVars, serving, exited, jobVars, replies>>

-----------------------------------------------------------------------------
(* Workers (the closure spawned by RequestScheduler::schedule) *)

Token(m) == log[m].id \in Ids   \* the request has a cancellation token

\* Variant used to test the properties: a cancelled job is reported and run.
WorkerStartFallsThrough(m) ==
  /\ job[m] = "queued"
  /\ Cardinality({k \in Msg : job[k] = "running"}) < PoolSize
  /\ job' = [job EXCEPT ![m] = "running"]
  /\ IF Token(m) /\ m \in cancelled
     THEN channel' = Sent("Completed", m, "Cancelled")
     ELSE UNCHANGED channel
  /\ UNCHANGED <<inputVars, serveVars, serving, exited, pending, active, cancelled,
                 snapshot, replies>>

\* A pool thread takes a queued job and looks at its token first.
WorkerStart(m) ==
  /\ job[m] = "queued"
  /\ Cardinality({k \in Msg : job[k] = "running"}) < PoolSize
  /\ IF Token(m) /\ m \in cancelled
     THEN /\ job' = [job EXCEPT ![m] = "sent"]
          /\ channel' = Sent("Completed", m, "Cancelled")
     ELSE /\ job' = [job EXCEPT ![m] = "running"]
          /\ UNCHANGED channel
  /\ UNCHANGED <<inputVars, serveVars, serving, exited, pending, active, cancelled,
                 snapshot, replies>>

\* Variant used to test the properties: a panic ends the job without a report.
WorkerFinishUnwinds(m) ==
  /\ job[m] = "running"
  /\ job' = [job EXCEPT ![m] = "sent"]
  /\ channel' = Sent("Completed", m, "Completed") \/ UNCHANGED channel
  /\ UNCHANGED <<inputVars, serveVars, serving, exited, pending, active, cancelled,
                 snapshot, replies>>

\* work.execute() returns or panics, and the completion is sent.
WorkerFinish(m) ==
  /\ job[m] = "running"
  /\ job' = [job EXCEPT ![m] = "sent"]
  /\ \E outcome \in {"Completed", "Panicked"} : channel' = Sent("Completed", m, outcome)
  /\ UNCHANGED <<inputVars, serveVars, serving, exited, pending, active, cancelled,
                 snapshot, replies>>

-----------------------------------------------------------------------------
(* Coordinator steps: how a handled message ends *)

\* A write of a response succeeds, or fails and ends serve_events.
Reply(m, kind) ==
  /\ replies' = [replies EXCEPT ![m] = Append(@, kind)]
  /\ UNCHANGED serving
WriteFails == WriteFaults /\ serving' = "failed" /\ UNCHANGED replies
Silent == UNCHANGED <<replies, serving>>

\* The acknowledgement: Continue, or Stop when the session ends.
Acknowledge ==
  reader' = IF terminal' = "None" /\ serving' = "running" THEN "reading" ELSE "stopped"

\* An error is sent if the message carries an id, and is no notification.
IsRequest(m) == log[m].id # None /\ log[m].kind # "cancel"
ErrorIfRequest(m) == IF IsRequest(m) THEN Reply(m, "error") \/ WriteFails ELSE Silent

-----------------------------------------------------------------------------
(* dispatch::handle *)

\* lifecycle_permits refuses the method in the current lifecycle.
Refused(m) ==
  \/ lifecycle = "New" /\ log[m].kind \notin {"initialize", "exit"}
  \/ lifecycle = "ShuttingDown" /\ log[m].kind \notin {"initialize", "exit", "shutdown"}

\* A message that is no object is answered with a null id before the gate.
HandleNotObject(m) ==
  /\ log[m].kind = "notObject"
  /\ Reply(m, "error") \/ WriteFails
  /\ UNCHANGED <<serveVars, jobVars>>

HandleRefused(m) ==
  /\ log[m].kind # "notObject"
  /\ Refused(m)
  /\ ErrorIfRequest(m)
  /\ UNCHANGED <<serveVars, jobVars>>

\* The lifecycle changes before the response is written.
HandleInitialize(m) ==
  /\ log[m].kind = "initialize"
  /\ IF log[m].id # None /\ lifecycle = "New"
     THEN lifecycle' = "Running" /\ (Reply(m, "result") \/ WriteFails)
     ELSE ErrorIfRequest(m) /\ UNCHANGED lifecycle
  /\ UNCHANGED <<rev, terminal, jobVars>>

HandleShutdown(m) ==
  /\ log[m].kind = "shutdown"
  /\ ~Refused(m)
  /\ IF log[m].id # None /\ lifecycle = "Running"
     THEN lifecycle' = "ShuttingDown" /\ (Reply(m, "result") \/ WriteFails)
     ELSE ErrorIfRequest(m) /\ UNCHANGED lifecycle
  /\ UNCHANGED <<rev, terminal, jobVars>>

HandleExit(m) ==
  /\ log[m].kind = "exit"
  /\ terminal' = IF lifecycle = "ShuttingDown" THEN "Clean" ELSE "Unclean"
  /\ Silent
  /\ UNCHANGED <<lifecycle, rev, jobVars>>

\* state::cancel, CancellationRegistry::cancel: only an active id has a token.
HandleCancel(m) ==
  /\ log[m].kind = "cancel"
  /\ ~Refused(m)
  /\ cancelled' = IF log[m].id \in Ids /\ active[log[m].id] # 0
                  THEN cancelled \cup {active[log[m].id]} ELSE cancelled
  /\ Silent
  /\ UNCHANGED <<serveVars, pending, active, job, snapshot>>

\* didOpen, didChange, didSave, didClose, didChangeConfiguration: the revision
\* moves when something changed, then diagnostics are published synchronously.
HandleEdit(m) ==
  /\ log[m].kind \in {"edit", "save"}
  /\ ~Refused(m)
  /\ rev' = IF log[m].kind = "edit" THEN rev + 1 ELSE rev
  /\ Silent \/ WriteFails
  /\ UNCHANGED <<lifecycle, terminal, jobVars>>

\* RequestScheduler::schedule with CancellationRegistry::begin.
Schedule(m) ==
  /\ job' = [job EXCEPT ![m] = "queued"]
  /\ snapshot' = [snapshot EXCEPT ![m] = rev]
  /\ pending' = pending + 1
  /\ active' = IF Token(m) THEN [active EXCEPT ![log[m].id] = m] ELSE active
  /\ Silent
  /\ UNCHANGED cancelled

\* hover, definition, codeAction through dispatch_work.
HandleRequest(m) ==
  /\ log[m].kind = "request"
  /\ ~Refused(m)
  /\ IF log[m].id # None /\ ~(Token(m) /\ active[log[m].id] # 0)
     THEN Schedule(m)
     ELSE ErrorIfRequest(m) /\ UNCHANGED jobVars   \* duplicate active request id
  /\ UNCHANGED serveVars

\* Invalid parameters, an unknown method, or no method at all.
HandleOther(m) ==
  /\ log[m].kind \in {"badParams", "unknown"}
  /\ ~Refused(m)
  /\ ErrorIfRequest(m)
  /\ UNCHANGED <<serveVars, jobVars>>

-----------------------------------------------------------------------------
(* serve_events *)

MayReturn == terminal # "None" /\ pending = 0

\* The loop receives its next event.
Receives(type) ==
  /\ serving = "running"
  /\ ~MayReturn
  /\ channel # <<>>
  /\ Head(channel).type = type
  /\ channel' = Tail(channel)

HandleInput ==
  /\ Receives("Input")
  /\ LET m == Head(channel).msg IN
       IF terminal # "None" THEN Silent /\ UNCHANGED <<serveVars, jobVars>>
       ELSE \/ HandleNotObject(m) \/ HandleRefused(m) \/ HandleInitialize(m)
            \/ HandleShutdown(m) \/ HandleExit(m) \/ HandleCancel(m) \/ HandleEdit(m)
            \/ HandleRequest(m) \/ HandleOther(m)
  /\ Acknowledge
  /\ UNCHANGED <<closed, log, exited>>

HandleEndOfInput ==
  /\ Receives("EndOfInput")
  /\ terminal' = IF terminal = "None" THEN "Unclean" ELSE terminal
  /\ UNCHANGED <<inputVars, lifecycle, rev, serving, exited, jobVars, replies>>

HandleInputError ==
  /\ Receives("InputError")
  /\ serving' = "failed"
  /\ UNCHANGED <<inputVars, serveVars, exited, jobVars, replies>>

\* Variant used to test the properties: cancellation is looked up by id instead of
\* by token.
WasCancelledById(m) == \E k \in cancelled : log[k].id = log[m].id

\* CancellationRegistry::finish: the entry goes, the token's state is returned.
Finish(m) ==
  active' = [i \in Ids |-> IF Token(m) /\ i = log[m].id /\ active[i] = m THEN 0 ELSE active[i]]
WasCancelled(m) == Token(m) /\ active[log[m].id] = m /\ m \in cancelled

\* Variant used to test the properties: the snapshot is not compared.
CompletionKindUnchecked(m, outcome) ==
  IF WasCancelled(m) \/ outcome = "Cancelled" THEN "cancelled"
  ELSE IF outcome = "Panicked" THEN "failed" ELSE "fresh"

\* RequestScheduler::complete: what is written for a completion.
CompletionKind(m, outcome) ==
  IF WasCancelled(m) \/ outcome = "Cancelled" THEN "cancelled"
  ELSE IF outcome = "Panicked" THEN "failed"
  ELSE IF snapshot[m] = rev THEN "fresh" ELSE "stale"

HandleCompleted ==
  /\ Receives("Completed")
  /\ LET m == Head(channel).msg
         outcome == Head(channel).outcome
     IN /\ Finish(m)
        /\ job' = [job EXCEPT ![m] = "done"]
        /\ Reply(m, CompletionKind(m, outcome)) \/ WriteFails
  /\ pending' = IF pending = 0 THEN 0 ELSE pending - 1
  /\ UNCHANGED <<inputVars, serveVars, exited, cancelled, snapshot>>

\* The loop leaves once it has a terminal result and no request is pending.
ServeReturns ==
  /\ serving = "running"
  /\ MayReturn
  /\ serving' = "ok"
  /\ UNCHANGED <<inputVars, channel, serveVars, exited, jobVars, replies>>

\* thread::scope joins the reader thread before serve returns.
Join ==
  /\ serving # "running"
  /\ reader = "stopped"
  /\ ~exited
  /\ exited' = TRUE
  /\ UNCHANGED <<inputVars, channel, serveVars, serving, jobVars, replies>>

Coordinator ==
  \/ HandleInput \/ HandleEndOfInput \/ HandleInputError \/ HandleCompleted
  \/ ServeReturns \/ Join
Worker(m) == WorkerStart(m) \/ WorkerFinish(m)
Client == ClientCloses \/ \E message \in Messages : ReadMessage(message)

Next == Client \/ ReadEnd \/ Coordinator \/ \E m \in Msg : Worker(m)

\* The reader notices a closed input, the coordinator keeps receiving and the
\* pool keeps running its jobs; nothing obliges the client to do anything.
Fairness ==
  /\ WF_vars(ReadEnd /\ closed)
  /\ WF_vars(Coordinator)
  /\ \A m \in Msg : WF_vars(Worker(m))

Spec == Init /\ [][Next]_vars /\ Fairness

-----------------------------------------------------------------------------
(* Properties *)

\* The values of the variables: the state the threads share and their own.
TypeOK ==
  /\ closed \in BOOLEAN
  /\ reader \in {"reading", "waiting", "stopped"}
  /\ log \in Seq(MessageType) /\ Len(log) <= MaxMessages
  /\ channel \in Seq(Event)
  /\ lifecycle \in {"New", "Running", "ShuttingDown"}
  /\ rev \in Nat
  /\ terminal \in {"None", "Clean", "Unclean"}
  /\ serving \in {"running", "ok", "failed"}
  /\ exited \in BOOLEAN
  /\ pending \in Nat
  /\ active \in [Ids -> 0..MaxMessages]
  /\ cancelled \subseteq Msg
  /\ job \in [Msg -> {"none", "queued", "running", "sent", "done"}]
  /\ snapshot \in [Msg -> Nat]
  /\ replies \in [Msg -> Seq(ReplyKinds)]

Read == 1..Len(log)

\* A request gets at most one response, whatever the worker, a cancellation
\* and an edit do meanwhile, and a notification none (dispatch::handle,
\* RequestScheduler::complete).
AtMostOneReply ==
  \A m \in Msg :
    /\ Len(replies[m]) <= 1
    /\ replies[m] # <<>> => m \in Read /\ (IsRequest(m) \/ log[m].kind = "notObject")

\* A request whose token was set while it was in flight is answered with the
\* cancellation error, however far its worker had got, and no other request is:
\* "a cancellation notification cannot poison a later reuse of an identifier"
\* (CancellationRegistry::cancel and finish, is_cancelled).
CancelHonoured ==
  /\ \A m \in cancelled : replies[m] # <<>> => replies[m] = <<"cancelled">>
  /\ \A m \in Read :
       replies[m] = <<"cancelled">> =>
         \E c \in Read : c > m /\ log[c].kind = "cancel" /\ log[c].id = log[m].id

\* What excuses an edit: it still waits in the channel, or came after `shutdown`.
Unhandled(k) == \E n \in 1..Len(channel) : channel[n].type = "Input" /\ channel[n].msg = k
ShutDownBetween(m, k) ==
  \E s \in m..k : log[s].kind = "shutdown" /\ replies[s] = <<"result">>

\* A worker's result reaches the client only if nothing the analysis read was
\* edited since the request was read; a later edit either was not yet handled,
\* or was refused after `shutdown` (AnalysisSnapshot::is_current).
NoStaleResult ==
  [][\A m \in Read :
       replies[m] = <<>> /\ replies'[m] = <<"fresh">> =>
         \A k \in Read : k > m /\ log[k].kind = "edit" =>
           Unhandled(k) \/ ShutDownBetween(m, k)]_vars

\* "Serve framed JSON-RPC messages until the client exits or closes input":
\* serve returns after either (serve, serve_events, read_events).
SessionEnds == (closed \/ terminal # "None") ~> exited

\* What the coordinator promises its client, as RequestService states it.
Service ==
  INSTANCE RequestService WITH
    Requests <- Msg,
    status <- [m \in Msg |-> IF replies[m] # <<>> THEN "answered"
                             ELSE IF job[m] # "none" THEN "accepted" ELSE "unseen"],
    session <- IF serving = "failed" THEN "aborted"
               ELSE IF serving = "ok" THEN "ended"
               ELSE IF terminal # "None" THEN "closing" ELSE "open"

\* The coordinator implements the request service, its liveness included: every
\* scheduled request is answered, whatever its worker meets, and serve returns once
\* the client has left and nothing is owed, unless the session fails
\* (catch_unwind in schedule, the drain of serve_events).
ImplementsService == Service!Spec
=============================================================================
