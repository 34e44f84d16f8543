-------------------------- MODULE LspServerProofs --------------------------
(***************************************************************************)
(* The coordinator of the language server, for every set of ids and        *)
(* messages, every length of the session and every size of the pool: a     *)
(* request is answered at most once, a cancellation is honoured and        *)
(* touches no other request, no stale result is sent, and every step is a  *)
(* step of RequestService.                                                 *)
(*                                                                         *)
(* None of these is inductive: they rest on what the event channel may     *)
(* hold beside the reader's state, the jobs and the registry.              *)
(***************************************************************************)
EXTENDS LspServer, FiniteSetTheorems, TLAPS

Waiting == {"queued", "running", "sent"}
Inflight == {m \in Msg : job[m] \in Waiting}
Slots == 1..Len(channel)

\* The reader has at most one message under way, its last; once it has met the
\* end of the input, or the session is over, it has none.
InputQueue ==
  /\ \A n \in Slots : channel[n].type = "Input" => reader = "waiting" /\ channel[n].msg = Len(log)
  /\ \A n, k \in Slots : channel[n].type = "Input" /\ channel[k].type = "Input" => n = k
  /\ \A n \in Slots : channel[n].type \in {"EndOfInput", "InputError"} => reader = "stopped"
  /\ terminal # "None" => reader = "stopped"
  /\ reader = "waiting" =>
       Len(log) \in Msg /\ job[Len(log)] = "none" /\ replies[Len(log)] = <<>>

\* A worker reports once, and as cancelled only when its token is set.
CompletionQueue ==
  /\ \A n \in Slots : channel[n].type = "Completed" =>
       /\ job[channel[n].msg] = "sent"
       /\ channel[n].outcome = "Cancelled" => channel[n].msg \in cancelled
  /\ \A n, k \in Slots :
       channel[n].type = "Completed" /\ channel[k].type = "Completed" /\ channel[n].msg = channel[k].msg
         => n = k

\* Jobs are requests that were read; nothing is written for one in flight, and
\* a finished one was answered unless the write failed.
Jobs ==
  \A m \in Msg :
    /\ job[m] # "none" => m \in Read /\ log[m].kind = "request" /\ log[m].id # None
    /\ m \in Inflight => replies[m] = <<>>
    /\ job[m] = "done" /\ replies[m] = <<>> => serving = "failed"

\* The registry holds exactly the requests in flight that have a token.
Registry ==
  /\ \A i \in Ids : active[i] # 0 => active[i] \in Inflight /\ log[active[i]].id = i
  /\ \A m \in Inflight : Token(m) => active[log[m].id] = m

CancelledBy(m) == \E c \in Read : c > m /\ log[c].kind = "cancel" /\ log[c].id = log[m].id

\* A token is set by a later cancellation of the id while the request is in
\* flight, and a cancellation error answers only such a request.
Tokens ==
  /\ \A m \in cancelled : m \in Read /\ Token(m) /\ job[m] # "none" /\ CancelledBy(m)
  /\ \A m \in cancelled : replies[m] # <<>> => replies[m] = <<"cancelled">>
  /\ \A m \in Read : replies[m] = <<"cancelled">> => m \in cancelled

\* A request is in flight only after `initialize`; `shutdown`, which refuses
\* later edits, was answered after the request was read.
Lifecycle ==
  serving = "running" =>
    \A m \in Inflight :
      /\ lifecycle # "New"
      /\ lifecycle = "ShuttingDown" =>
           \E s \in Read : s > m /\ log[s].kind = "shutdown" /\ replies[s] = <<"result">>

\* A snapshot at the current revision has seen every later edit that counts.
Snapshots ==
  /\ \A m \in Inflight : snapshot[m] <= rev
  /\ serving = "running" =>
       \A m \in Inflight : snapshot[m] = rev =>
         \A k \in Read : k > m /\ log[k].kind = "edit" => Unhandled(k) \/ ShutDownBetween(m, k)

Count == pending = Cardinality(Inflight)
-----------------------------------------------------------------------------
(* What one handled message may do *)

\* How the coordinator's own state may move.
KeepsServing == lifecycle' = lifecycle /\ terminal' = terminal /\ rev' = rev

Handlers(m) ==
  \/ HandleNotObject(m) \/ HandleRefused(m) \/ HandleInitialize(m)
  \/ HandleShutdown(m) \/ HandleExit(m) \/ HandleCancel(m) \/ HandleEdit(m)
  \/ HandleRequest(m) \/ HandleOther(m)

Answers(m) ==
  /\ \E kind \in {"error", "result"} : Reply(m, kind)
  /\ IsRequest(m) \/ log[m].kind = "notObject"
  /\ UNCHANGED jobVars

Accepts(m) ==
  /\ log[m].kind = "request" /\ log[m].id # None /\ ~Refused(m)
  /\ Token(m) => active[log[m].id] = 0
  /\ Schedule(m)

\* To jobs, replies and the session: a handler is silent, fails to write,
\* answers its own message, sets a token or schedules its own message.
Effect(m) ==
  \/ Silent /\ UNCHANGED jobVars
  \/ WriteFails /\ UNCHANGED jobVars
  \/ Answers(m)
  \/ HandleCancel(m)
  \/ Accepts(m)

\* To the lifecycle and the revision.
ServeEffect(m) ==
  /\ \/ lifecycle' = lifecycle
     \/ lifecycle = "New" /\ lifecycle' = "Running"
     \/ /\ lifecycle' = "ShuttingDown" /\ log[m].kind = "shutdown"
        /\ Reply(m, "result") \/ serving' = "failed"
  /\ \/ rev' = rev /\ (log[m].kind = "edit" => Refused(m))
     \/ rev' = rev + 1
  /\ terminal' = terminal \/ terminal' \in {"Clean", "Unclean"}
  /\ terminal' # terminal => Silent /\ UNCHANGED jobVars

\* Every handler of dispatch::handle does one of these things.
LEMMA HandlerEffects ==
  ASSUME NEW m, Handlers(m)
  PROVE  Effect(m) /\ ServeEffect(m)
<1>1. CASE HandleNotObject(m)
  BY <1>1 DEF HandleNotObject, Effect, Answers, ServeEffect, serveVars
<1>2. CASE HandleRefused(m)
  BY <1>2 DEF HandleRefused, ErrorIfRequest, Effect, Answers, ServeEffect, serveVars
<1>3. CASE HandleInitialize(m)
  BY <1>3 DEF HandleInitialize, ErrorIfRequest, IsRequest, Effect, Answers, ServeEffect
<1>4. CASE HandleShutdown(m)
  BY <1>4 DEF HandleShutdown, ErrorIfRequest, IsRequest, Effect, Answers, ServeEffect, WriteFails
<1>5. CASE HandleExit(m)
  BY <1>5 DEF HandleExit, Effect, ServeEffect
<1>6. CASE HandleCancel(m)
  BY <1>6 DEF HandleCancel, Effect, ServeEffect, serveVars
<1>7. CASE HandleEdit(m)
  BY <1>7 DEF HandleEdit, Effect, ServeEffect
<1>8. CASE HandleRequest(m)
  BY <1>8 DEF HandleRequest, ErrorIfRequest, Effect, Answers, Accepts, ServeEffect, serveVars
<1>9. CASE HandleOther(m)
  BY <1>9 DEF HandleOther, ErrorIfRequest, Effect, Answers, ServeEffect, serveVars
<1> QED BY <1>1, <1>2, <1>3, <1>4, <1>5, <1>6, <1>7, <1>8, <1>9 DEF Handlers

\* The loop takes the first event of the channel and nothing else.
LEMMA ReceivesHead ==
  ASSUME TypeOK, NEW type, Receives(type)
  PROVE  /\ 1 \in Slots /\ channel[1] = Head(channel) /\ channel[1] \in Event
         /\ channel[1].type = type
         /\ channel' \in Seq(Event)
         /\ Len(channel') = Len(channel) - 1
         /\ \A n \in 1..Len(channel') : n + 1 \in Slots /\ channel'[n] = channel[n + 1]
         /\ serving = "running"
<1>1. channel \in Seq(Event) /\ channel # <<>> /\ channel' = Tail(channel)
  BY DEF TypeOK, Receives
<1> QED BY <1>1 DEF Receives, Slots

\* A thread that reports adds one event behind the others.
LEMMA SentLast ==
  ASSUME TypeOK, NEW type, NEW m, NEW outcome, channel' = Sent(type, m, outcome),
         [type |-> type, msg |-> m, outcome |-> outcome] \in Event
  PROVE  /\ channel' \in Seq(Event)
         /\ Len(channel') = Len(channel) + 1
         /\ \A n \in Slots : channel'[n] = channel[n]
         /\ channel'[Len(channel) + 1] = [type |-> type, msg |-> m, outcome |-> outcome]
  BY DEF TypeOK, Sent, Slots

\* The message a HandleInput step works on is the last one read: the reader is
\* waiting for it, the session is open, and nothing was done for it before.
LEMMA InputIsLast ==
  ASSUME TypeOK, InputQueue, HandleInput
  PROVE  /\ Len(log) \in Msg /\ Handlers(Len(log))
         /\ job[Len(log)] = "none" /\ replies[Len(log)] = <<>>
         /\ terminal = "None" /\ serving = "running" /\ reader = "waiting"
         /\ Receives("Input") /\ channel[1].msg = Len(log) /\ channel[1].type = "Input"
         /\ reader' \in {"reading", "stopped"}
         /\ terminal' # "None" => reader' = "stopped"
         /\ UNCHANGED <<closed, log, exited>>
<1>1. Receives("Input") /\ 1 \in Slots /\ channel[1] = Head(channel) /\ channel[1].type = "Input"
  BY ReceivesHead DEF HandleInput
<1>2. reader = "waiting" /\ channel[1].msg = Len(log)
  BY <1>1 DEF InputQueue
<1>3. terminal = "None" /\ Len(log) \in Msg /\ job[Len(log)] = "none" /\ replies[Len(log)] = <<>>
  BY <1>2 DEF InputQueue
<1>4. Handlers(Len(log))
  BY <1>1, <1>2, <1>3 DEF HandleInput, Handlers
<1>5. reader' \in {"reading", "stopped"} /\ (terminal' # "None" => reader' = "stopped")
  BY DEF HandleInput, Acknowledge
<1> QED BY <1>1, <1>2, <1>3, <1>4, <1>5 DEF HandleInput, Receives
-----------------------------------------------------------------------------
(* Typing *)

\* A response is one more entry of a kind the coordinator writes.
LEMMA ReplyTyped ==
  ASSUME NEW m \in Msg, NEW kind \in ReplyKinds, replies \in [Msg -> Seq(ReplyKinds)],
         Reply(m, kind)
  PROVE  replies' \in [Msg -> Seq(ReplyKinds)] /\ serving' = serving
<1>1. Append(replies[m], kind) \in Seq(ReplyKinds)
  OBVIOUS
<1> QED BY <1>1 DEF Reply

\* Every thread keeps the state well typed.
LEMMA TypeStep == TypeOK /\ InputQueue /\ CompletionQueue /\ [Next]_vars => TypeOK'
<1> SUFFICES ASSUME TypeOK, InputQueue, CompletionQueue, [Next]_vars PROVE TypeOK'
  OBVIOUS
<1> USE BoundsAssumption
<1>a. /\ lifecycle \in {"New", "Running", "ShuttingDown"} /\ rev \in Nat
      /\ terminal \in {"None", "Clean", "Unclean"} /\ serving \in {"running", "ok", "failed"}
      /\ replies \in [Msg -> Seq(ReplyKinds)]
  BY DEF TypeOK
<1>b. /\ pending \in Nat /\ active \in [Ids -> 0..MaxMessages] /\ cancelled \subseteq Msg
      /\ job \in [Msg -> {"none", "queued", "running", "sent", "done"}]
      /\ snapshot \in [Msg -> Nat]
  BY DEF TypeOK
<1>1. CASE ClientCloses
  BY <1>1 DEF ClientCloses, TypeOK, serveVars, jobVars
<1>2. ASSUME NEW message \in Messages, ReadMessage(message) PROVE TypeOK'
  <2>1. [type |-> "Input", msg |-> Len(log) + 1, outcome |-> "None"] \in Event
    BY <1>2 DEF ReadMessage, TypeOK, Event, Msg
  <2>2. channel' \in Seq(Event)
    BY <1>2, <2>1, SentLast DEF ReadMessage
  <2>3. log' \in Seq(MessageType) /\ Len(log') <= MaxMessages
    BY <1>2, MessagesAssumption DEF ReadMessage, TypeOK
  <2> QED BY <1>2, <2>2, <2>3 DEF ReadMessage, TypeOK, serveVars, jobVars
<1>3. CASE ReadEnd
  <2>1. \A t \in {"EndOfInput", "InputError"} : [type |-> t, msg |-> 0, outcome |-> "None"] \in Event
    BY DEF Event
  <2>2. channel' \in Seq(Event)
    BY <1>3, <2>1, SentLast DEF ReadEnd
  <2> QED BY <1>3, <2>2 DEF ReadEnd, TypeOK, serveVars, jobVars
<1>4. CASE HandleInput
  <2>0. /\ Len(log) \in Msg /\ Handlers(Len(log)) /\ Receives("Input")
        /\ reader' \in {"reading", "stopped"} /\ UNCHANGED <<closed, log, exited>>
    BY <1>4, InputIsLast
  <2>1. channel' \in Seq(Event)
    BY <2>0, ReceivesHead
  <2>2. lifecycle' \in {"New", "Running", "ShuttingDown"} /\ rev' \in Nat
        /\ terminal' \in {"None", "Clean", "Unclean"}
    <3>1. ServeEffect(Len(log))
      BY <2>0, HandlerEffects
    <3> QED BY <1>a, <3>1 DEF ServeEffect
  <2>3. serving' \in {"running", "ok", "failed"} /\ replies' \in [Msg -> Seq(ReplyKinds)]
    <3>1. \/ UNCHANGED <<serving, replies>>
          \/ serving' = "failed" /\ UNCHANGED replies
          \/ \E kind \in {"error", "result"} : Reply(Len(log), kind)
      BY <2>0, HandlerEffects DEF Effect, Answers, Accepts, Schedule, HandleCancel, Silent, WriteFails
    <3>2. {"error", "result"} \subseteq ReplyKinds
      BY DEF ReplyKinds
    <3> QED BY <1>a, <2>0, <3>1, <3>2, ReplyTyped
  <2>4. /\ pending' \in Nat
        /\ active' \in [Ids -> 0..MaxMessages]
        /\ cancelled' \subseteq Msg
        /\ job' \in [Msg -> {"none", "queued", "running", "sent", "done"}]
        /\ snapshot' \in [Msg -> Nat]
    <3>1. CASE UNCHANGED jobVars
      BY <3>1 DEF jobVars, TypeOK
    <3>2. CASE HandleCancel(Len(log))
      <4>1. \A i \in Ids : active[i] # 0 => active[i] \in Msg
        BY <1>b DEF Msg
      <4> QED BY <1>b, <3>2, <4>1 DEF HandleCancel
    <3>3. CASE Accepts(Len(log))
      <4>1. Len(log) \in 0..MaxMessages
        BY <2>0 DEF Msg
      <4> QED BY <1>a, <1>b, <2>0, <3>3, <4>1 DEF Accepts, Schedule, Token
    <3> QED BY <2>0, <3>1, <3>2, <3>3, HandlerEffects DEF Effect, Answers
  <2> QED BY <2>0, <2>1, <2>2, <2>3, <2>4 DEF TypeOK
<1>5. CASE HandleEndOfInput
  <2>1. channel' \in Seq(Event)
    BY <1>5, ReceivesHead DEF HandleEndOfInput
  <2> QED BY <1>5, <2>1 DEF HandleEndOfInput, TypeOK, inputVars, jobVars
<1>6. CASE HandleInputError
  <2>1. channel' \in Seq(Event)
    BY <1>6, ReceivesHead DEF HandleInputError
  <2> QED BY <1>6, <2>1 DEF HandleInputError, TypeOK, inputVars, serveVars, jobVars
<1>7. CASE HandleCompleted
  <2>0. /\ channel' \in Seq(Event) /\ channel[1] = Head(channel)
        /\ channel[1] \in Event /\ channel[1].type = "Completed"
    BY <1>7, ReceivesHead DEF HandleCompleted
  <2>1. Head(channel).msg \in Msg
    BY <2>0 DEF Event
  <2>2. active' \in [Ids -> 0..MaxMessages]
    BY <1>7 DEF HandleCompleted, Finish, TypeOK
  <2>3. job' \in [Msg -> {"none", "queued", "running", "sent", "done"}]
    BY <1>7 DEF HandleCompleted, TypeOK
  <2>4. serving' \in {"running", "ok", "failed"} /\ replies' \in [Msg -> Seq(ReplyKinds)]
    <3>1. CompletionKind(Head(channel).msg, Head(channel).outcome) \in ReplyKinds
      BY DEF CompletionKind, ReplyKinds
    <3> QED BY <1>a, <1>7, <2>1, <3>1, ReplyTyped DEF HandleCompleted, WriteFails
  <2>5. pending' \in Nat
    BY <1>7 DEF HandleCompleted, TypeOK
  <2> QED BY <1>7, <2>0, <2>2, <2>3, <2>4, <2>5 DEF HandleCompleted, TypeOK, inputVars, serveVars
<1>8. CASE ServeReturns
  BY <1>8 DEF ServeReturns, TypeOK, inputVars, serveVars, jobVars
<1>9. CASE Join
  BY <1>9 DEF Join, TypeOK, inputVars, serveVars, jobVars
<1>10. ASSUME NEW m \in Msg, Worker(m) PROVE TypeOK'
  <2>1. \A out \in Outcomes : [type |-> "Completed", msg |-> m, outcome |-> out] \in Event
    BY DEF Event
  <2>2. channel' \in Seq(Event)
    BY <1>10, <2>1, SentLast DEF Worker, WorkerStart, WorkerFinish, Outcomes, TypeOK
  <2>3. job' \in [Msg -> {"none", "queued", "running", "sent", "done"}]
    BY <1>10 DEF Worker, WorkerStart, WorkerFinish, TypeOK
  <2> QED BY <1>10, <2>2, <2>3 DEF Worker, WorkerStart, WorkerFinish, TypeOK, inputVars, serveVars
<1>11. CASE UNCHANGED vars
  BY <1>11 DEF vars, TypeOK
<1> QED BY <1>1, <1>2, <1>3, <1>4, <1>5, <1>6, <1>7, <1>8, <1>9, <1>10, <1>11
        DEF Next, Client, Coordinator
-----------------------------------------------------------------------------
(* The steps, by what they change *)

\* The threads' steps that touch no job, no response and no message.
Quiet ==
  /\ UNCHANGED <<log, job, replies, active, cancelled, snapshot, pending, rev, lifecycle>>
  /\ serving' = serving \/ serving' = "failed" \/ (serving = "running" /\ serving' = "ok")

QuietSteps == ClientCloses \/ ReadEnd \/ HandleEndOfInput \/ HandleInputError \/ ServeReturns \/ Join

\* Those steps are quiet.
LEMMA QuietStepsAreQuiet == QuietSteps \/ UNCHANGED vars => Quiet
<1> USE DEF Quiet, serveVars, jobVars, inputVars
<1>1. ClientCloses \/ ReadEnd => Quiet
  BY DEF ClientCloses, ReadEnd
<1>2. HandleEndOfInput \/ HandleInputError => Quiet
  BY DEF HandleEndOfInput, HandleInputError
<1>3. ServeReturns \/ Join => Quiet
  BY DEF ServeReturns, Join
<1>4. UNCHANGED vars => Quiet
  BY DEF vars
<1> QED BY <1>1, <1>2, <1>3, <1>4 DEF QuietSteps

WorkerEffect(m) ==
  /\ job[m] \in {"queued", "running"}
  /\ \/ job' = [job EXCEPT ![m] = "running"] /\ UNCHANGED channel
     \/ /\ job' = [job EXCEPT ![m] = "sent"]
        /\ \E out \in Outcomes :
             /\ channel' = Sent("Completed", m, out)
             /\ out = "Cancelled" => m \in cancelled
  /\ UNCHANGED <<closed, reader, log, lifecycle, rev, terminal, serving, exited, pending, active,
                 cancelled, snapshot, replies>>

\* A worker moves its own job on and reports at its end.
LEMMA WorkerEffects == \A m : Worker(m) => WorkerEffect(m)
  BY DEF Worker, WorkerStart, WorkerFinish, WorkerEffect, Outcomes, inputVars, serveVars

CompletedEffect(m) ==
  /\ m \in Msg
  /\ job[m] = "sent"
  /\ job' = [job EXCEPT ![m] = "done"]
  /\ Finish(m)
  /\ \/ \E kind \in ReplyKinds \ {"result", "error"} : Reply(m, kind)
     \/ serving' = "failed" /\ UNCHANGED replies
  /\ pending' = IF pending = 0 THEN 0 ELSE pending - 1
  /\ UNCHANGED <<closed, reader, log, lifecycle, rev, terminal, exited, cancelled, snapshot>>

\* A completion concerns the job whose worker reported it.
LEMMA CompletedEffects ==
  ASSUME TypeOK, CompletionQueue, HandleCompleted
  PROVE  /\ CompletedEffect(channel[1].msg)
         /\ channel[1] \in Event /\ channel[1].type = "Completed" /\ 1 \in Slots
         /\ Receives("Completed")
         /\ \/ Reply(channel[1].msg, CompletionKind(channel[1].msg, channel[1].outcome))
            \/ WriteFails
<1>1. /\ channel[1] = Head(channel) /\ channel[1] \in Event
      /\ channel[1].type = "Completed" /\ 1 \in Slots /\ Receives("Completed")
  BY ReceivesHead DEF HandleCompleted
<1>2. channel[1].msg \in Msg
  BY <1>1 DEF Event
<1>3. job[channel[1].msg] = "sent"
  BY <1>1 DEF CompletionQueue
<1>4. CompletionKind(channel[1].msg, channel[1].outcome) \in ReplyKinds \ {"result", "error"}
  BY DEF CompletionKind, ReplyKinds
<1>5. \/ Reply(channel[1].msg, CompletionKind(channel[1].msg, channel[1].outcome))
      \/ WriteFails
  BY <1>1 DEF HandleCompleted
<1>6. Finish(channel[1].msg) /\ job' = [job EXCEPT ![channel[1].msg] = "done"]
  BY <1>1 DEF HandleCompleted
<1>7. /\ UNCHANGED <<closed, reader, log, lifecycle, rev, terminal, exited, cancelled, snapshot>>
      /\ pending' = IF pending = 0 THEN 0 ELSE pending - 1
  BY DEF HandleCompleted, inputVars, serveVars
<1> QED BY <1>1, <1>2, <1>3, <1>4, <1>5, <1>6, <1>7 DEF CompletedEffect, WriteFails

\* A response adds one entry for its own message.
LEMMA ReplyTo ==
  ASSUME TypeOK, NEW m \in Msg, NEW kind, Reply(m, kind), replies[m] = <<>>
  PROVE  /\ replies'[m] = <<kind>>
         /\ \A k \in Msg : k # m => replies'[k] = replies[k]
         /\ serving' = serving
<1>1. replies \in [Msg -> Seq(ReplyKinds)]
  BY DEF TypeOK
<1>2. replies'[m] = Append(<<>>, kind)
  BY <1>1 DEF Reply
<1>3. Append(<<>>, kind) = <<kind>>
  OBVIOUS
<1> QED BY <1>1, <1>2, <1>3 DEF Reply

\* What was read stays what it was, and the new message comes last.
LEMMA LogGrows ==
  ASSUME TypeOK, NEW message \in Messages, ReadMessage(message)
  PROVE  /\ Len(log') = Len(log) + 1 /\ Len(log) \in Nat /\ Len(log') \in Msg
         /\ \A k \in Read : log'[k] = log[k] /\ k \in Read'
         /\ \A k \in Read' : k \in Read \/ k = Len(log')
         /\ UNCHANGED <<lifecycle, rev, terminal, serving, pending, active, cancelled, job,
                        snapshot, replies>>
<1>1. log \in Seq(MessageType) /\ Len(log) < MaxMessages /\ log' = Append(log, message)
  BY DEF TypeOK, ReadMessage
<1>2. Len(log') = Len(log) + 1 /\ Len(log) \in Nat /\ \A k \in Read : log'[k] = log[k]
  BY <1>1, MessagesAssumption DEF Read
<1> QED BY <1>1, <1>2, BoundsAssumption DEF ReadMessage, Read, Msg, serveVars, jobVars
-----------------------------------------------------------------------------
(* The channel *)

\* The queue part of the invariant is preserved by every step.
LEMMA InputQueueStep ==
  ASSUME TypeOK, InputQueue, CompletionQueue, Jobs, AtMostOneReply, [Next]_vars
  PROVE  InputQueue'
<1>1. CASE ClientCloses \/ Join \/ ServeReturns \/ UNCHANGED vars
  BY <1>1 DEF ClientCloses, Join, ServeReturns, vars, inputVars, serveVars, jobVars, InputQueue, Slots
<1>2. ASSUME NEW message \in Messages, ReadMessage(message) PROVE InputQueue'
  <2>1. \A n \in Slots : channel[n].type \notin {"Input", "EndOfInput", "InputError"}
    BY <1>2 DEF ReadMessage, InputQueue
  <2>2. reader' = "waiting" /\ terminal' = "None" /\ UNCHANGED <<job, replies>>
    BY <1>2 DEF ReadMessage, InputQueue, serveVars, jobVars
  <2>3. Len(log') = Len(log) + 1 /\ Len(log) \in Nat /\ Len(log') \in Msg
    BY <1>2, LogGrows
  <2>4. [type |-> "Input", msg |-> Len(log'), outcome |-> "None"] \in Event
    BY <2>3 DEF Event
  <2>5. /\ Len(channel') = Len(channel) + 1 /\ \A n \in Slots : channel'[n] = channel[n]
        /\ channel'[Len(channel) + 1] = [type |-> "Input", msg |-> Len(log'), outcome |-> "None"]
    BY <1>2, <2>3, <2>4, SentLast DEF ReadMessage
  <2>6. Len(channel) \in Nat
    BY DEF TypeOK
  <2>7. job[Len(log')] = "none" /\ replies[Len(log')] = <<>>
    BY <2>3 DEF Jobs, AtMostOneReply, Read
  <2>8. \A n \in Slots' : n \in Slots \/ n = Len(channel) + 1
    BY <2>5, <2>6 DEF Slots
  <2> QED BY <2>1, <2>2, <2>3, <2>5, <2>7, <2>8 DEF InputQueue
<1>3. CASE ReadEnd
  <2>1. \A n \in Slots : channel[n].type # "Input"
    BY <1>3 DEF ReadEnd, InputQueue
  <2>2. PICK t \in {"EndOfInput", "InputError"} : channel' = Sent(t, 0, "None")
    BY <1>3 DEF ReadEnd
  <2>3. [type |-> t, msg |-> 0, outcome |-> "None"] \in Event
    BY DEF Event
  <2>4. /\ Len(channel') = Len(channel) + 1 /\ \A n \in Slots : channel'[n] = channel[n]
        /\ channel'[Len(channel) + 1] = [type |-> t, msg |-> 0, outcome |-> "None"]
    BY <2>2, <2>3, SentLast
  <2>5. \A n \in Slots' : n \in Slots \/ n = Len(channel) + 1
    BY <2>4 DEF Slots, TypeOK
  <2>6. \A n \in Slots' : channel'[n].type # "Input"
    BY <2>1, <2>4, <2>5
  <2> QED BY <1>3, <2>6 DEF ReadEnd, InputQueue
<1>4. CASE HandleInput
  <2>1. /\ reader = "waiting" /\ 1 \in Slots /\ channel[1].type = "Input"
        /\ reader' \in {"reading", "stopped"} /\ (terminal' # "None" => reader' = "stopped")
        /\ \A n \in 1..Len(channel') : n + 1 \in Slots /\ channel'[n] = channel[n + 1]
    BY <1>4, InputIsLast, ReceivesHead
  <2>2. \A n \in Slots' : n \in Nat /\ n > 0 /\ channel'[n].type \notin {"Input", "EndOfInput", "InputError"}
    BY <2>1 DEF InputQueue, Slots
  <2> QED BY <2>1, <2>2 DEF InputQueue
<1>5. CASE HandleEndOfInput \/ HandleInputError
  <2>1. /\ \A n \in 1..Len(channel') : n + 1 \in Slots /\ channel'[n] = channel[n + 1]
        /\ 1 \in Slots /\ channel[1].type \in {"EndOfInput", "InputError"}
    BY <1>5, ReceivesHead DEF HandleEndOfInput, HandleInputError
  <2>2. reader = "stopped" /\ reader' = "stopped"
    BY <1>5, <2>1 DEF InputQueue, HandleEndOfInput, HandleInputError, inputVars
  <2>3. \A n \in Slots' : channel'[n].type # "Input"
    BY <2>1, <2>2 DEF InputQueue, Slots
  <2> QED BY <2>2, <2>3 DEF InputQueue
<1>6. CASE HandleCompleted
  <2>1. CompletedEffect(channel[1].msg) /\ Receives("Completed")
    BY <1>6, CompletedEffects
  <2>2. \A n \in 1..Len(channel') : n + 1 \in Slots /\ channel'[n] = channel[n + 1]
    BY <2>1, ReceivesHead
  <2>3. UNCHANGED <<reader, log, terminal>>
    BY <2>1 DEF CompletedEffect
  <2>4. reader = "waiting" => job'[Len(log)] = "none" /\ replies'[Len(log)] = <<>>
    <3> SUFFICES ASSUME reader = "waiting" PROVE job'[Len(log)] = "none" /\ replies'[Len(log)] = <<>>
      OBVIOUS
    <3>1. Len(log) \in Msg /\ job[Len(log)] = "none" /\ replies[Len(log)] = <<>>
      BY DEF InputQueue
    <3>2. channel[1].msg # Len(log) /\ job'[Len(log)] = "none"
      BY <2>1, <3>1 DEF CompletedEffect, TypeOK
    <3>3. replies[channel[1].msg] = <<>>
      BY <2>1 DEF CompletedEffect, Jobs, Inflight, Waiting
    <3> QED BY <2>1, <3>1, <3>2, <3>3, ReplyTo DEF CompletedEffect
  <2>5. \A n \in Slots' : n \in Nat
    BY DEF Slots
  <2>6. \A n, k \in Slots' : channel'[n].type = "Input" /\ channel'[k].type = "Input" => n = k
    BY <2>2, <2>5 DEF InputQueue, Slots
  <2> QED BY <2>2, <2>3, <2>4, <2>6 DEF InputQueue, Slots
<1>7. ASSUME NEW m \in Msg, Worker(m) PROVE InputQueue'
  <2>1. WorkerEffect(m)
    BY <1>7, WorkerEffects
  <2>2. reader' = "waiting" =>
          Len(log') \in Msg /\ job'[Len(log')] = "none" /\ replies'[Len(log')] = <<>>
    BY <2>1 DEF WorkerEffect, InputQueue, TypeOK
  <2>3. CASE UNCHANGED channel
    BY <2>1, <2>2, <2>3 DEF WorkerEffect, InputQueue, Slots
  <2>4. ASSUME NEW out \in Outcomes, channel' = Sent("Completed", m, out) PROVE InputQueue'
    <3>1. [type |-> "Completed", msg |-> m, outcome |-> out] \in Event
      BY DEF Event
    <3>2. /\ Len(channel') = Len(channel) + 1 /\ \A n \in Slots : channel'[n] = channel[n]
          /\ channel'[Len(channel) + 1] = [type |-> "Completed", msg |-> m, outcome |-> out]
      BY <2>4, <3>1, SentLast
    <3>3. \A n \in Slots' : n \in Slots \/ n = Len(channel) + 1
      BY <3>2 DEF Slots, TypeOK
    <3>4. \A n \in Slots' : channel'[n].type \in {"Input", "EndOfInput", "InputError"} =>
                              n \in Slots /\ channel'[n] = channel[n]
      BY <3>2, <3>3
    <3>5. UNCHANGED <<reader, log, terminal>>
      BY <2>1 DEF WorkerEffect
    <3> QED BY <2>2, <3>4, <3>5 DEF InputQueue
  <2> QED BY <2>1, <2>3, <2>4 DEF WorkerEffect
<1> QED BY <1>1, <1>2, <1>3, <1>4, <1>5, <1>6, <1>7 DEF Next, Client, Coordinator

\* The message of a completion is one of the session's.
LEMMA CompletedMessage ==
  ASSUME TypeOK
  PROVE  \A n \in Slots : channel[n].type = "Completed" => channel[n].msg \in Msg
<1>1. \A n \in Slots : channel[n] \in Event
  BY DEF TypeOK, Slots
<1>2. \A e \in Event : e.type = "Completed" => e.msg \in Msg
  BY DEF Event
<1> QED BY <1>1, <1>2

\* No two events report the same job, and a report fits the job.
LEMMA CompletionQueueStep ==
  ASSUME TypeOK, InputQueue, CompletionQueue, [Next]_vars
  PROVE  CompletionQueue'
<1>1. CASE ClientCloses \/ Join \/ ServeReturns \/ UNCHANGED vars
  BY <1>1 DEF ClientCloses, Join, ServeReturns, vars, jobVars, CompletionQueue, Slots
<1>2. ASSUME NEW e \in Event, e.type # "Completed",
             channel' = Sent(e.type, e.msg, e.outcome), UNCHANGED <<job, cancelled>>
      PROVE  CompletionQueue'
  <2>1. [type |-> e.type, msg |-> e.msg, outcome |-> e.outcome] \in Event
    BY DEF Event
  <2>2. /\ Len(channel') = Len(channel) + 1 /\ \A n \in Slots : channel'[n] = channel[n]
        /\ channel'[Len(channel) + 1].type = e.type
    BY <1>2, <2>1, SentLast
  <2>3. \A n \in Slots' : n \in Slots \/ n = Len(channel) + 1
    BY <2>2 DEF Slots, TypeOK
  <2>4. \A n \in Slots' : channel'[n].type = "Completed" => n \in Slots /\ channel'[n] = channel[n]
    BY <1>2, <2>2, <2>3
  <2> QED BY <1>2, <2>4 DEF CompletionQueue
<1>3. ASSUME NEW message \in Messages, ReadMessage(message) PROVE CompletionQueue'
  <2> DEFINE e == [type |-> "Input", msg |-> Len(log) + 1, outcome |-> "None"]
  <2>1. Len(log) + 1 \in Msg
    BY <1>3, LogGrows
  <2>2. e \in Event /\ e.type = "Input" /\ e.msg = Len(log) + 1 /\ e.outcome = "None"
    BY <2>1 DEF Event
  <2>3. channel' = Sent(e.type, e.msg, e.outcome) /\ UNCHANGED <<job, cancelled>>
    BY <1>3, <2>2 DEF ReadMessage, jobVars
  <2> HIDE DEF e
  <2> QED BY <1>2, <2>2, <2>3
<1>4. CASE ReadEnd
  <2>1. PICK t \in {"EndOfInput", "InputError"} : channel' = Sent(t, 0, "None")
    BY <1>4 DEF ReadEnd
  <2> DEFINE e == [type |-> t, msg |-> 0, outcome |-> "None"]
  <2>2. e \in Event /\ e.type = t /\ e.msg = 0 /\ e.outcome = "None"
    BY DEF Event
  <2>3. channel' = Sent(e.type, e.msg, e.outcome) /\ UNCHANGED <<job, cancelled>>
    BY <1>4, <2>1, <2>2 DEF ReadEnd, jobVars
  <2> HIDE DEF e
  <2> QED BY <1>2, <2>2, <2>3
<1>5. ASSUME NEW type, Receives(type), cancelled \subseteq cancelled',
             \A n \in Slots : n # 1 /\ channel[n].type = "Completed" => job'[channel[n].msg] = "sent"
      PROVE  CompletionQueue'
  <2>1. /\ \A n \in Slots' : n + 1 \in Slots /\ channel'[n] = channel[n + 1]
        /\ \A n \in Slots' : n \in Nat /\ n + 1 # 1
    BY <1>5, ReceivesHead DEF Slots
  <2>2. \A n, k \in Slots' :
          channel'[n].type = "Completed" /\ channel'[k].type = "Completed"
          /\ channel'[n].msg = channel'[k].msg => n + 1 = k + 1
    BY <2>1 DEF CompletionQueue
  <2>3. \A n, k \in Slots' : n + 1 = k + 1 => n = k
    BY <2>1
  <2> QED BY <1>5, <2>1, <2>2, <2>3 DEF CompletionQueue
<1>6. CASE HandleInput
  <2>1. /\ Len(log) \in Msg /\ job[Len(log)] = "none" /\ Handlers(Len(log)) /\ Receives("Input")
    BY <1>6, InputIsLast
  <2>2. cancelled \subseteq cancelled' /\ \A m \in Msg : job[m] = "sent" => job'[m] = "sent"
    BY <2>1, HandlerEffects DEF Effect, Answers, Accepts, Schedule, HandleCancel, jobVars, TypeOK
  <2>3. \A n \in Slots : channel[n].type = "Completed" => channel[n].msg \in Msg
    BY CompletedMessage
  <2> QED BY <1>5, <2>1, <2>2, <2>3 DEF CompletionQueue
<1>7. CASE HandleEndOfInput \/ HandleInputError
  BY <1>5, <1>7 DEF HandleEndOfInput, HandleInputError, jobVars, CompletionQueue
<1>8. CASE HandleCompleted
  <2>1. /\ CompletedEffect(channel[1].msg) /\ Receives("Completed")
        /\ 1 \in Slots /\ channel[1].type = "Completed"
    BY <1>8, CompletedEffects
  <2>2. \A n \in Slots : n # 1 /\ channel[n].type = "Completed" => channel[n].msg # channel[1].msg
    BY <2>1 DEF CompletionQueue
  <2>3. \A n \in Slots : channel[n].type = "Completed" => channel[n].msg \in Msg
    BY CompletedMessage
  <2>4. \A n \in Slots : n # 1 /\ channel[n].type = "Completed" => job'[channel[n].msg] = "sent"
    BY <2>1, <2>2, <2>3 DEF CompletedEffect, TypeOK, CompletionQueue
  <2> QED BY <1>5, <2>1, <2>4 DEF CompletedEffect
<1>9. ASSUME NEW m \in Msg, Worker(m) PROVE CompletionQueue'
  <2>1. WorkerEffect(m)
    BY <1>9, WorkerEffects
  <2>2. \A n \in Slots : channel[n].type = "Completed" =>
          channel[n].msg # m /\ channel[n].msg \in Msg /\ job'[channel[n].msg] = "sent"
    <3>1. \A n \in Slots : channel[n].type = "Completed" => channel[n].msg \in Msg
      BY CompletedMessage
    <3> QED BY <2>1, <3>1 DEF WorkerEffect, CompletionQueue, TypeOK
  <2>3. CASE UNCHANGED channel
    BY <2>1, <2>2, <2>3 DEF WorkerEffect, CompletionQueue, Slots
  <2>4. ASSUME NEW out \in Outcomes, channel' = Sent("Completed", m, out), job'[m] = "sent",
               out = "Cancelled" => m \in cancelled
        PROVE  CompletionQueue'
    <3>1. [type |-> "Completed", msg |-> m, outcome |-> out] \in Event
      BY DEF Event
    <3>2. /\ Len(channel') = Len(channel) + 1 /\ \A n \in Slots : channel'[n] = channel[n]
          /\ channel'[Len(channel) + 1] = [type |-> "Completed", msg |-> m, outcome |-> out]
      BY <2>4, <3>1, SentLast
    <3>3. \A n \in Slots' : n \in Slots \/ n = Len(channel) + 1
      BY <3>2 DEF Slots, TypeOK
    <3>4. cancelled' = cancelled
      BY <2>1 DEF WorkerEffect
    <3> QED BY <2>2, <2>4, <3>2, <3>3, <3>4 DEF CompletionQueue
  <2>5. \/ UNCHANGED channel
        \/ \E out \in Outcomes : /\ channel' = Sent("Completed", m, out) /\ job'[m] = "sent"
                                 /\ out = "Cancelled" => m \in cancelled
    BY <2>1 DEF WorkerEffect, TypeOK
  <2> QED BY <2>3, <2>4, <2>5
<1> QED BY <1>1, <1>3, <1>4, <1>6, <1>7, <1>8, <1>9 DEF Next, Client, Coordinator
-----------------------------------------------------------------------------
(* Jobs and responses *)

\* A step that handles one message, answers it at most, and touches no job.
JobFacts == Jobs /\ AtMostOneReply

\* No step answers twice, answers a notification or forgets a job.
LEMMA JobsStep ==
  ASSUME TypeOK, InputQueue, CompletionQueue, JobFacts, [Next]_vars
  PROVE  JobFacts'
<1>0. Jobs /\ AtMostOneReply
  BY DEF JobFacts
<1>1. CASE QuietSteps \/ UNCHANGED vars
  <2>1. Quiet
    BY <1>1, QuietStepsAreQuiet
  <2> QED BY <1>0, <2>1 DEF Quiet, JobFacts, Jobs, AtMostOneReply, Inflight, Read, IsRequest
<1>2. ASSUME NEW message \in Messages, ReadMessage(message) PROVE JobFacts'
  <2>1. /\ \A k \in Read : log'[k] = log[k] /\ k \in Read'
        /\ UNCHANGED <<job, replies, serving>>
    BY <1>2, LogGrows
  <2> QED BY <1>0, <2>1 DEF JobFacts, Jobs, AtMostOneReply, Inflight, IsRequest
<1>3. CASE HandleInput
  <2> DEFINE m == Len(log)
  <2>1. /\ m \in Msg /\ Effect(m) /\ job[m] = "none" /\ replies[m] = <<>>
        /\ serving = "running" /\ log' = log
    BY <1>3, InputIsLast, HandlerEffects
  <2>2. m \in Read /\ Read' = Read
    BY <2>1 DEF Read, Msg
  <2>3. ASSUME UNCHANGED replies
        PROVE  JobFacts'
    <3>1. AtMostOneReply'
      BY <1>0, <2>1, <2>2, <2>3 DEF AtMostOneReply, IsRequest
    <3>2. \A k \in Msg : \/ job'[k] = job[k]
                         \/ k = m /\ job'[k] = "queued" /\ log[m].kind = "request" /\ log[m].id # None
      BY <2>1 DEF Effect, Answers, HandleCancel, Accepts, Schedule, jobVars, TypeOK
    <3>3. Jobs'
      BY <1>0, <2>1, <2>2, <2>3, <3>2 DEF Jobs, Inflight, Waiting
    <3> QED BY <3>1, <3>3 DEF JobFacts
  <2>4. ASSUME NEW kind, Reply(m, kind), UNCHANGED jobVars, IsRequest(m) \/ log[m].kind = "notObject"
        PROVE  JobFacts'
    <3>1. replies'[m] = <<kind>> /\ \A k \in Msg : k # m => replies'[k] = replies[k]
      BY <2>1, <2>4, ReplyTo
    <3>2. Len(<<kind>>) <= 1 /\ <<kind>> # <<>>
      OBVIOUS
    <3>3. AtMostOneReply'
      <4> SUFFICES ASSUME NEW k \in Msg
                   PROVE  /\ Len(replies'[k]) <= 1
                          /\ replies'[k] # <<>> => k \in Read /\ (IsRequest(k) \/ log[k].kind = "notObject")
        BY <2>1, <2>2 DEF AtMostOneReply, IsRequest
      <4>1. CASE k = m
        <5>1. Len(replies'[k]) <= 1
          BY <3>1, <3>2, <4>1, Zenon
        <5> QED BY <2>2, <2>4, <4>1, <5>1 DEF IsRequest
      <4>2. CASE k # m
        BY <1>0, <3>1, <4>2 DEF AtMostOneReply
      <4> QED BY <4>1, <4>2
    <3>4. Jobs'
      BY <1>0, <2>1, <2>2, <2>4, <3>1 DEF Jobs, Inflight, Waiting, jobVars
    <3> QED BY <3>3, <3>4 DEF JobFacts
  <2>5. UNCHANGED replies \/ Answers(m)
    BY <2>1 DEF Effect, Silent, WriteFails, HandleCancel, Accepts, Schedule
  <2> QED BY <2>3, <2>4, <2>5 DEF Answers
<1>4. CASE HandleCompleted
  <2> DEFINE m == channel[1].msg
  <2>1. CompletedEffect(m)
    BY <1>4, CompletedEffects
  <2>2. m \in Msg /\ replies[m] = <<>> /\ m \in Read /\ IsRequest(m)
    BY <1>0, <2>1 DEF CompletedEffect, Jobs, Inflight, Waiting, IsRequest
  <2>3. \A k \in Msg : k # m => job'[k] = job[k]
    BY <2>1 DEF CompletedEffect, TypeOK
  <2>4. job'[m] = "done" /\ UNCHANGED log /\ Read' = Read
    BY <2>1 DEF CompletedEffect, TypeOK, Read
  <2>5. ASSUME \A k \in Msg : k # m => replies'[k] = replies[k],
               Len(replies'[m]) <= 1,
               serving' = "failed" \/ (serving' = serving /\ replies'[m] # <<>>)
        PROVE  JobFacts'
    <3>1. AtMostOneReply'
      <4> SUFFICES ASSUME NEW k \in Msg
                   PROVE  /\ Len(replies'[k]) <= 1
                          /\ replies'[k] # <<>> => k \in Read /\ (IsRequest(k) \/ log[k].kind = "notObject")
        BY <2>4 DEF AtMostOneReply, IsRequest
      <4>1. CASE k = m
        BY <2>2, <2>5, <4>1
      <4>2. CASE k # m
        BY <1>0, <2>5, <4>2 DEF AtMostOneReply
      <4> QED BY <4>1, <4>2
    <3>2. Jobs'
      <4> SUFFICES ASSUME NEW k \in Msg
                   PROVE  /\ job'[k] # "none" => k \in Read /\ log[k].kind = "request" /\ log[k].id # None
                          /\ job'[k] \in Waiting => replies'[k] = <<>>
                          /\ job'[k] = "done" /\ replies'[k] = <<>> => serving' = "failed"
        BY <2>4 DEF Jobs, Inflight
      <4>1. CASE k = m
        <5>1. log[m].kind = "request" /\ log[m].id # None
          BY <1>0, <2>1 DEF CompletedEffect, Jobs
        <5> QED BY <2>2, <2>4, <2>5, <4>1, <5>1 DEF Waiting
      <4>2. CASE k # m
        BY <1>0, <2>3, <2>5, <4>2 DEF Jobs, Inflight
      <4> QED BY <4>1, <4>2
    <3> QED BY <3>1, <3>2 DEF JobFacts
  <2>6. CASE serving' = "failed" /\ UNCHANGED replies
    BY <1>0, <2>2, <2>5, <2>6 DEF AtMostOneReply
  <2>7. ASSUME NEW kind, Reply(m, kind) PROVE JobFacts'
    <3>1. /\ replies'[m] = <<kind>> /\ \A k \in Msg : k # m => replies'[k] = replies[k]
          /\ serving' = serving
      BY <2>2, <2>7, ReplyTo
    <3>2. Len(<<kind>>) <= 1 /\ <<kind>> # <<>>
      OBVIOUS
    <3> QED BY <2>5, <3>1, <3>2
  <2> QED BY <2>1, <2>6, <2>7 DEF CompletedEffect
<1>5. ASSUME NEW m \in Msg, Worker(m) PROVE JobFacts'
  <2>1. WorkerEffect(m)
    BY <1>5, WorkerEffects
  <2>2. \A k \in Msg : k # m => job'[k] = job[k]
    BY <2>1 DEF WorkerEffect, TypeOK
  <2>3. job[m] \in Waiting /\ job'[m] \in Waiting /\ UNCHANGED <<log, replies, serving>>
    BY <2>1 DEF WorkerEffect, TypeOK, Waiting
  <2> QED BY <1>0, <2>2, <2>3 DEF JobFacts, Jobs, AtMostOneReply, Inflight, Waiting, IsRequest, Read
<1> QED BY <1>1, <1>2, <1>3, <1>4, <1>5 DEF Next, Client, Coordinator, QuietSteps

-----------------------------------------------------------------------------
(* The registry and the tokens *)

\* The registry keeps in step with the jobs: an id is active exactly while its
\* request is in flight, whatever is scheduled, cancelled or completed.
LEMMA RegistryStep ==
  ASSUME TypeOK, InputQueue, CompletionQueue, JobFacts, Registry, [Next]_vars
  PROVE  Registry'
<1>0. Jobs
  BY DEF JobFacts
<1>a. \A m \in Inflight : m \in Msg /\ m \in Read
  BY <1>0 DEF Jobs, Inflight, Waiting
<1>1. CASE QuietSteps \/ UNCHANGED vars
  <2>1. Quiet
    BY <1>1, QuietStepsAreQuiet
  <2> QED BY <2>1 DEF Quiet, Registry, Inflight, Token
<1>2. ASSUME NEW message \in Messages, ReadMessage(message) PROVE Registry'
  <2>1. (\A k \in Read : log'[k] = log[k]) /\ UNCHANGED <<job, active>>
    BY <1>2, LogGrows
  <2>2. Inflight' = Inflight
    BY <2>1 DEF Inflight
  <2> QED BY <1>a, <2>1, <2>2 DEF Registry, Token
<1>3. CASE HandleInput
  <2> DEFINE m == Len(log)
  <2>1. m \in Msg /\ Effect(m) /\ job[m] = "none" /\ log' = log
    BY <1>3, InputIsLast, HandlerEffects
  <2>2. CASE UNCHANGED <<job, active>>
    BY <2>1, <2>2 DEF Registry, Inflight, Token
  <2>3. CASE Accepts(m)
    <3>1. m \notin Inflight /\ \A k \in Inflight : k # m
      BY <2>1 DEF Inflight, Waiting
    <3>2. Inflight' = Inflight \cup {m}
      BY <2>1, <2>3 DEF Accepts, Schedule, Inflight, Waiting, TypeOK
    <3>3. active' = IF Token(m) THEN [active EXCEPT ![log[m].id] = m] ELSE active
      BY <2>3 DEF Accepts, Schedule
    <3>4. Token(m) => active[log[m].id] = 0
      BY <2>3 DEF Accepts
    <3>5. active \in [Ids -> 0..MaxMessages]
      BY DEF TypeOK
    <3>6. ASSUME NEW i \in Ids, active'[i] # 0 PROVE active'[i] \in Inflight' /\ log'[active'[i]].id = i
      BY <2>1, <3>2, <3>3, <3>5, <3>6 DEF Registry, Token
    <3>7. ASSUME NEW k \in Inflight, Token(k) PROVE active'[log[k].id] = k
      <4>1. k # 0 /\ active[log[k].id] = k
        BY <1>a, <3>7 DEF Registry, Msg
      <4>2. Token(m) => log[k].id # log[m].id
        BY <3>4, <4>1
      <4> QED BY <3>3, <3>5, <3>7, <4>1, <4>2 DEF Token
    <3>8. Token(m) => active'[log[m].id] = m
      BY <3>3, <3>5 DEF Token
    <3> QED BY <2>1, <3>2, <3>6, <3>7, <3>8 DEF Registry, Token
  <2> QED BY <2>1, <2>2, <2>3 DEF Effect, Answers, HandleCancel, jobVars
<1>4. CASE HandleCompleted
  <2> DEFINE m == channel[1].msg
  <2>1. CompletedEffect(m)
    BY <1>4, CompletedEffects
  <2>2. m \in Inflight /\ Inflight' = Inflight \ {m} /\ log' = log
    BY <2>1 DEF CompletedEffect, Inflight, Waiting, TypeOK
  <2>3. \A i \in Ids : active'[i] = IF Token(m) /\ i = log[m].id /\ active[i] = m THEN 0 ELSE active[i]
    BY <2>1 DEF CompletedEffect, Finish
  <2>4. ASSUME NEW i \in Ids, active'[i] # 0 PROVE active'[i] \in Inflight' /\ log'[active'[i]].id = i
    <3>1. active'[i] = active[i] /\ active[i] \in Inflight /\ log[active[i]].id = i
      BY <2>3, <2>4 DEF Registry
    <3>2. active[i] # m
      BY <2>3, <2>4, <3>1 DEF Token
    <3> QED BY <2>2, <3>1, <3>2
  <2>5. ASSUME NEW k \in Inflight', Token(k) PROVE active'[log[k].id] = k
    <3>1. k \in Inflight /\ k # m /\ log[k].id \in Ids /\ active[log[k].id] = k
      BY <2>2, <2>5 DEF Registry, Token
    <3> QED BY <2>3, <3>1
  <2> QED BY <2>2, <2>4, <2>5 DEF Registry, Token
<1>5. ASSUME NEW m \in Msg, Worker(m) PROVE Registry'
  <2>1. WorkerEffect(m)
    BY <1>5, WorkerEffects
  <2>2. Inflight' = Inflight /\ UNCHANGED <<active, log>>
    BY <2>1 DEF WorkerEffect, Inflight, Waiting, TypeOK
  <2> QED BY <2>2 DEF Registry, Token
<1> QED BY <1>1, <1>2, <1>3, <1>4, <1>5 DEF Next, Client, Coordinator, QuietSteps

\* A set token stays justified by a cancellation, and decides the answer.
LEMMA TokensStep ==
  ASSUME TypeOK, InputQueue, CompletionQueue, JobFacts, Registry, Tokens, [Next]_vars
  PROVE  Tokens'
<1>a. log \in Seq(MessageType) /\ Len(log) <= MaxMessages /\ cancelled \subseteq Msg
  BY DEF TypeOK
<1>b. Read \subseteq Msg
  BY <1>a, BoundsAssumption DEF Read, Msg
<1>0. Jobs /\ AtMostOneReply /\ cancelled \subseteq Msg /\ Read \subseteq Msg
  BY <1>a, <1>b DEF JobFacts
<1>1. CASE QuietSteps \/ UNCHANGED vars
  <2>1. Quiet
    BY <1>1, QuietStepsAreQuiet
  <2> QED BY <2>1 DEF Quiet, Tokens, Token, CancelledBy, Read
<1>2. ASSUME NEW message \in Messages, ReadMessage(message) PROVE Tokens'
  <2>1. /\ \A k \in Read : log'[k] = log[k] /\ k \in Read'
        /\ \A k \in Read' : k \in Read \/ k = Len(log')
        /\ Len(log') = Len(log) + 1 /\ Len(log) \in Nat /\ Len(log') \in Msg
        /\ UNCHANGED <<job, cancelled, replies>>
    BY <1>2, LogGrows
  <2>2. replies[Len(log')] = <<>>
    BY <1>0, <2>1 DEF AtMostOneReply, Read
  <2>3. <<>> # <<"cancelled">>
    OBVIOUS
  <2>4. \A m \in Read : CancelledBy(m) => CancelledBy(m)'
    BY <2>1 DEF CancelledBy
  <2>5. \A m \in cancelled : m \in Read /\ Token(m) /\ job[m] # "none" /\ CancelledBy(m)
    BY DEF Tokens
  <2>6. \A m \in cancelled' : m \in Read' /\ Token(m)' /\ job'[m] # "none" /\ CancelledBy(m)'
    BY <2>1, <2>4, <2>5 DEF Token
  <2>7. \A m \in Read' : replies'[m] = <<"cancelled">> => m \in cancelled'
    BY <2>1, <2>2, <2>3 DEF Tokens
  <2> QED BY <2>1, <2>6, <2>7 DEF Tokens
<1>3. CASE HandleInput
  <2> DEFINE m == Len(log)
  <2>1. /\ m \in Msg /\ Effect(m) /\ job[m] = "none" /\ replies[m] = <<>> /\ log' = log
    BY <1>3, InputIsLast, HandlerEffects
  <2>2. m \in Read /\ Read' = Read
    BY <2>1 DEF Read, Msg
  <2>3. \A k \in Msg : CancelledBy(k)' <=> CancelledBy(k)
    BY <2>1, <2>2 DEF CancelledBy
  <2>4. CASE Answers(m)
    <3>1. PICK kind \in {"error", "result"} : Reply(m, kind)
      BY <2>4 DEF Answers
    <3>2. replies'[m] = <<kind>> /\ \A k \in Msg : k # m => replies'[k] = replies[k]
      BY <2>1, <3>1, ReplyTo
    <3>3. <<kind>> # <<"cancelled">>
      OBVIOUS
    <3>4. \A k \in cancelled : k # m
      BY <2>1 DEF Tokens
    <3>5. UNCHANGED <<job, cancelled>>
      BY <2>4 DEF Answers, jobVars
    <3> QED BY <1>0, <2>1, <2>2, <2>3, <3>2, <3>3, <3>4, <3>5 DEF Tokens, Token
  <2>5. ASSUME UNCHANGED <<replies, cancelled>>, \A k \in Msg : job[k] # "none" => job'[k] # "none"
        PROVE  Tokens'
    BY <1>0, <2>1, <2>2, <2>3, <2>5 DEF Tokens, Token
  <2>6. CASE HandleCancel(m)
    <3> DEFINE i == log[m].id
    <3>1. CASE cancelled' = cancelled
      BY <2>5, <2>6, <3>1 DEF HandleCancel, Silent
    <3>2. CASE i \in Ids /\ active[i] # 0 /\ cancelled' = cancelled \cup {active[i]}
      <4>1. active[i] \in Inflight /\ log[active[i]].id = i
        BY <3>2 DEF Registry
      <4>2. active[i] \in Msg /\ active[i] \in Read /\ job[active[i]] # "none" /\ replies[active[i]] = <<>>
        BY <1>0, <4>1 DEF Jobs, Inflight, Waiting
      <4>3. active[i] < m
        BY <2>1, <4>2 DEF Read, Msg
      <4>4. log[m].kind = "cancel"
        BY <2>6 DEF HandleCancel
      <4>5. CancelledBy(active[i]) /\ Token(active[i])
        BY <2>2, <3>2, <4>1, <4>3, <4>4 DEF CancelledBy, Token
      <4>6. UNCHANGED <<job, replies>>
        BY <2>6 DEF HandleCancel, Silent
      <4> HIDE DEF i
      <4> QED BY <1>0, <2>1, <2>2, <2>3, <3>2, <4>2, <4>5, <4>6 DEF Tokens, Token
    <3> QED BY <2>6, <3>1, <3>2 DEF HandleCancel
  <2>7. CASE Accepts(m)
    BY <2>1, <2>5, <2>7 DEF Accepts, Schedule, Silent, TypeOK
  <2>8. CASE (Silent \/ WriteFails) /\ UNCHANGED jobVars
    BY <2>5, <2>8 DEF Silent, WriteFails, jobVars
  <2> QED BY <2>1, <2>4, <2>6, <2>7, <2>8 DEF Effect
<1>4. CASE HandleCompleted
  <2> DEFINE m == channel[1].msg
             kind == CompletionKind(m, channel[1].outcome)
  <2>1. /\ CompletedEffect(m) /\ channel[1].type = "Completed" /\ 1 \in Slots
        /\ Reply(m, kind) \/ WriteFails
    BY <1>4, CompletedEffects
  <2>2. m \in Msg /\ m \in Inflight /\ m \in Read /\ replies[m] = <<>>
    BY <1>0, <2>1 DEF CompletedEffect, Jobs, Inflight, Waiting
  <2>3. (\A k \in Msg : job[k] # "none" => job'[k] # "none") /\ UNCHANGED <<log, cancelled>> /\ Read' = Read
    BY <2>1 DEF CompletedEffect, TypeOK, Read
  <2>4. \A k \in Msg : CancelledBy(k)' <=> CancelledBy(k)
    BY <2>3 DEF CancelledBy
  <2>5. CASE UNCHANGED replies
    BY <1>0, <2>3, <2>4, <2>5 DEF Tokens, Token
  <2>6. CASE Reply(m, kind)
    <3>1. replies'[m] = <<kind>> /\ \A k \in Msg : k # m => replies'[k] = replies[k]
      BY <2>2, <2>6, ReplyTo
    <3>2. m \in cancelled => kind = "cancelled"
      BY <2>2 DEF Tokens, Registry, CompletionKind, WasCancelled
    <3>3. kind = "cancelled" => m \in cancelled
      BY <2>1 DEF CompletionQueue, CompletionKind, WasCancelled
    <3>4. <<kind>> = <<"cancelled">> => kind = "cancelled"
      OBVIOUS
    <3> HIDE DEF kind, m
    <3> QED BY <1>0, <2>2, <2>3, <2>4, <3>1, <3>2, <3>3, <3>4 DEF Tokens, Token
  <2> QED BY <2>1, <2>5, <2>6 DEF WriteFails
<1>5. ASSUME NEW m \in Msg, Worker(m) PROVE Tokens'
  <2>1. WorkerEffect(m)
    BY <1>5, WorkerEffects
  <2>2. UNCHANGED <<log, cancelled, replies>> /\ \A k \in Msg : job[k] # "none" => job'[k] # "none"
    BY <2>1 DEF WorkerEffect, TypeOK
  <2> QED BY <1>0, <2>2 DEF Tokens, Token, CancelledBy, Read
<1> QED BY <1>1, <1>2, <1>3, <1>4, <1>5 DEF Next, Client, Coordinator, QuietSteps
-----------------------------------------------------------------------------
(* Stale results *)

\* Responses, messages and a failed session are final.
LEMMA Monotone ==
  ASSUME TypeOK, InputQueue, CompletionQueue, JobFacts, [Next]_vars
  PROVE  /\ \A k \in Msg : replies[k] # <<>> => replies'[k] = replies[k]
         /\ \A k \in Read : k \in Read' /\ log'[k] = log[k]
         /\ serving' = "running" => serving = "running"
<1>0. Jobs /\ replies \in [Msg -> Seq(ReplyKinds)] /\ serving \in {"running", "ok", "failed"}
  BY DEF JobFacts, TypeOK
<1>1. CASE QuietSteps \/ UNCHANGED vars
  <2>1. Quiet
    BY <1>1, QuietStepsAreQuiet
  <2> QED BY <1>0, <2>1 DEF Quiet, Read
<1>2. ASSUME NEW message \in Messages, ReadMessage(message)
      PROVE  /\ UNCHANGED <<replies, serving>>
             /\ \A k \in Read : k \in Read' /\ log'[k] = log[k]
  BY <1>2, LogGrows
<1>3. CASE HandleInput
  <2>1. Len(log) \in Msg /\ Effect(Len(log)) /\ replies[Len(log)] = <<>> /\ serving = "running" /\ log' = log
    BY <1>3, InputIsLast, HandlerEffects
  <2>2. UNCHANGED replies \/ \E kind : Reply(Len(log), kind)
    BY <2>1 DEF Effect, Silent, WriteFails, HandleCancel, Accepts, Schedule, Answers
  <2>3. \A k \in Msg : replies[k] # <<>> => replies'[k] = replies[k]
    BY <2>1, <2>2, ReplyTo
  <2> QED BY <2>1, <2>3 DEF Read
<1>4. CASE HandleCompleted
  <2>1. CompletedEffect(channel[1].msg) /\ Receives("Completed")
    BY <1>4, CompletedEffects
  <2>2. replies[channel[1].msg] = <<>> /\ channel[1].msg \in Msg
    BY <1>0, <2>1 DEF CompletedEffect, Jobs, Inflight, Waiting
  <2>3. \A k \in Msg : replies[k] # <<>> => replies'[k] = replies[k]
    BY <2>1, <2>2, ReplyTo DEF CompletedEffect
  <2> QED BY <2>1, <2>3 DEF CompletedEffect, Receives, Read
<1>5. ASSUME NEW m \in Msg, Worker(m) PROVE UNCHANGED <<replies, serving, log>>
  BY <1>5, WorkerEffects DEF WorkerEffect
<1> QED BY <1>1, <1>2, <1>3, <1>4, <1>5 DEF Next, Client, Coordinator, QuietSteps, Read

ShutDownAfter(m) == \E s \in Read : s > m /\ log[s].kind = "shutdown" /\ replies[s] = <<"result">>

\* An answered shutdown stays answered.
LEMMA ShutDownStays ==
  ASSUME TypeOK, InputQueue, CompletionQueue, JobFacts, [Next]_vars
  PROVE  /\ \A m \in Read : ShutDownAfter(m) => ShutDownAfter(m)'
         /\ \A m, k \in Read : ShutDownBetween(m, k) => ShutDownBetween(m, k)'
<1>1. /\ \A k \in Msg : replies[k] # <<>> => replies'[k] = replies[k]
      /\ \A k \in Read : k \in Read' /\ log'[k] = log[k]
  BY Monotone
<1>2. log \in Seq(MessageType) /\ Len(log) <= MaxMessages
  BY DEF TypeOK
<1>3. Len(log) \in Nat /\ \A k \in Read : k \in Msg
  BY <1>2, BoundsAssumption DEF Read, Msg
<1>4. \A k : replies[k] = <<"result">> => replies[k] # <<>>
  OBVIOUS
<1>5. \A m \in Read : ShutDownAfter(m) => ShutDownAfter(m)'
  BY <1>1, <1>3, <1>4 DEF ShutDownAfter
<1>6. ASSUME NEW m \in Read, NEW k \in Read, NEW s \in m..k PROVE s \in Read
  BY <1>3 DEF Read
<1>7. \A m, k \in Read : ShutDownBetween(m, k) => ShutDownBetween(m, k)'
  BY <1>1, <1>3, <1>4, <1>6 DEF ShutDownBetween
<1> QED BY <1>5, <1>7

\* A message waits in the channel until it is handled.
LEMMA UnhandledStays ==
  ASSUME TypeOK, InputQueue, CompletionQueue, [Next]_vars, ~HandleInput, NEW k, Unhandled(k)
  PROVE  Unhandled(k)'
<1>1. PICK n \in Slots : channel[n].type = "Input" /\ channel[n].msg = k
  BY DEF Unhandled, Slots
<1>2. Len(channel) \in Nat /\ channel \in Seq(Event)
  BY DEF TypeOK
<1>3. CASE UNCHANGED channel
  BY <1>3 DEF Unhandled
<1>4. ASSUME NEW e \in Event, channel' = Sent(e.type, e.msg, e.outcome) PROVE Unhandled(k)'
  <2>1. channel'[n] = channel[n] /\ Len(channel') = Len(channel) + 1
    <3>1. [type |-> e.type, msg |-> e.msg, outcome |-> e.outcome] \in Event
      BY DEF Event
    <3> QED BY <1>1, <1>4, <3>1, SentLast
  <2> QED BY <1>1, <1>2, <2>1 DEF Unhandled, Slots
<1>5. ASSUME NEW type, Receives(type), type # "Input" PROVE Unhandled(k)'
  <2>1. /\ channel[1].type # "Input" /\ Len(channel') = Len(channel) - 1
        /\ \A j \in 1..Len(channel') : channel'[j] = channel[j + 1]
    BY <1>5, ReceivesHead
  <2>2. n # 1 /\ n - 1 \in 1..Len(channel') /\ (n - 1) + 1 = n
    BY <1>1, <1>2, <2>1 DEF Slots
  <2> QED BY <1>1, <2>1, <2>2 DEF Unhandled
<1>6. ASSUME NEW message \in Messages, ReadMessage(message) PROVE Unhandled(k)'
  <2> DEFINE e == [type |-> "Input", msg |-> Len(log) + 1, outcome |-> "None"]
  <2>1. Len(log) + 1 \in Msg
    BY <1>6, LogGrows
  <2>2. e \in Event /\ e.type = "Input" /\ e.msg = Len(log) + 1 /\ e.outcome = "None"
    BY <2>1 DEF Event
  <2>3. channel' = Sent(e.type, e.msg, e.outcome)
    BY <1>6, <2>2 DEF ReadMessage
  <2> HIDE DEF e
  <2> QED BY <1>4, <2>2, <2>3
<1>7. CASE ReadEnd
  <2>1. PICK t \in {"EndOfInput", "InputError"} : channel' = Sent(t, 0, "None")
    BY <1>7 DEF ReadEnd
  <2> DEFINE e == [type |-> t, msg |-> 0, outcome |-> "None"]
  <2>2. e \in Event /\ e.type = t /\ e.msg = 0 /\ e.outcome = "None"
    BY DEF Event
  <2> HIDE DEF e
  <2> QED BY <1>4, <2>1, <2>2
<1>8. CASE HandleEndOfInput \/ HandleInputError \/ HandleCompleted
  BY <1>5, <1>8 DEF HandleEndOfInput, HandleInputError, HandleCompleted
<1>9. CASE ClientCloses \/ Join \/ ServeReturns \/ UNCHANGED vars
  BY <1>3, <1>9 DEF ClientCloses, Join, ServeReturns, vars
<1>10. ASSUME NEW m \in Msg, Worker(m) PROVE Unhandled(k)'
  <2>1. ASSUME NEW out \in Outcomes, channel' = Sent("Completed", m, out) PROVE Unhandled(k)'
    <3> DEFINE e == [type |-> "Completed", msg |-> m, outcome |-> out]
    <3>1. e \in Event /\ e.type = "Completed" /\ e.msg = m /\ e.outcome = out
      BY DEF Event
    <3> HIDE DEF e
    <3> QED BY <1>4, <2>1, <3>1
  <2> QED BY <1>3, <1>10, <2>1, WorkerEffects DEF WorkerEffect
<1> QED BY <1>6, <1>7, <1>8, <1>9, <1>10 DEF Next, Client, Coordinator

\* Which jobs are in flight changes only when one is accepted or completed.
LEMMA InflightMoves ==
  ASSUME TypeOK, InputQueue, CompletionQueue, JobFacts, [Next]_vars
  PROVE  \/ HandleInput
         \/ /\ Inflight' \subseteq Inflight
            /\ UNCHANGED <<lifecycle, rev, snapshot>>
<1>1. CASE QuietSteps \/ UNCHANGED vars
  <2>1. Quiet
    BY <1>1, QuietStepsAreQuiet
  <2> QED BY <2>1 DEF Quiet, Inflight
<1>2. ASSUME NEW message \in Messages, ReadMessage(message) PROVE UNCHANGED <<job, lifecycle, rev, snapshot>>
  BY <1>2, LogGrows
<1>3. CASE HandleCompleted
  <2>1. CompletedEffect(channel[1].msg)
    BY <1>3, CompletedEffects
  <2> QED BY <2>1 DEF CompletedEffect, Inflight, Waiting, TypeOK
<1>4. ASSUME NEW m \in Msg, Worker(m) PROVE Inflight' \subseteq Inflight /\ UNCHANGED <<lifecycle, rev, snapshot>>
  <2>1. WorkerEffect(m)
    BY <1>4, WorkerEffects
  <2> QED BY <2>1 DEF WorkerEffect, Inflight, Waiting, TypeOK
<1> QED BY <1>1, <1>2, <1>3, <1>4 DEF Next, Client, Coordinator, QuietSteps, Inflight

\* Requests in flight keep the lifecycle in step.
LEMMA LifecycleStep ==
  ASSUME TypeOK, InputQueue, CompletionQueue, JobFacts, Lifecycle, [Next]_vars
  PROVE  Lifecycle'
<1>0. Jobs /\ \A m \in Inflight : m \in Msg /\ m \in Read
  BY DEF JobFacts, Jobs, Inflight, Waiting
<1> SUFFICES ASSUME serving' = "running", NEW k \in Inflight'
             PROVE  lifecycle' # "New" /\ (lifecycle' = "ShuttingDown" => ShutDownAfter(k)')
  BY DEF Lifecycle, ShutDownAfter
<1>1. serving = "running"
  BY Monotone
<1>2. \A m \in Inflight : lifecycle # "New" /\ (lifecycle = "ShuttingDown" => ShutDownAfter(m))
  BY <1>1 DEF Lifecycle, ShutDownAfter
<1>3. CASE ~HandleInput
  BY <1>0, <1>2, <1>3, InflightMoves, ShutDownStays
<1>4. CASE HandleInput
  <2> DEFINE m == Len(log)
  <2>1. /\ m \in Msg /\ Effect(m) /\ ServeEffect(m) /\ job[m] = "none" /\ replies[m] = <<>> /\ log' = log
    BY <1>4, InputIsLast, HandlerEffects
  <2>2. m \in Read /\ Read' = Read
    BY <2>1 DEF Read, Msg
  <2>3. CASE k \in Inflight
    <3>1. k < m
      BY <1>0, <2>1, <2>3 DEF Read, Msg, Inflight, Waiting
    <3>2. CASE lifecycle' = lifecycle
      BY <1>0, <1>2, <2>3, <3>2, ShutDownStays
    <3>3. CASE lifecycle = "New"
      BY <1>2, <2>3, <3>3
    <3>4. CASE log[m].kind = "shutdown" /\ Reply(m, "result") /\ lifecycle' = "ShuttingDown"
      <4>1. replies'[m] = <<"result">>
        BY <2>1, <3>4, ReplyTo
      <4> QED BY <2>1, <2>2, <3>1, <3>4, <4>1 DEF ShutDownAfter
    <3> QED BY <2>1, <3>2, <3>3, <3>4 DEF ServeEffect
  <2>4. CASE k \notin Inflight
    <3>1. k = m /\ Accepts(m)
      BY <2>1, <2>4 DEF Effect, Answers, HandleCancel, Accepts, Schedule, jobVars, Inflight, TypeOK
    <3>2. lifecycle = "Running"
      BY <3>1 DEF Accepts, Refused, TypeOK
    <3> QED BY <2>1, <3>1, <3>2 DEF ServeEffect, Accepts
  <2> QED BY <2>3, <2>4
<1> QED BY <1>3, <1>4

\* An edit that is handled makes every snapshot taken before it old.
LEMMA SnapshotsStep ==
  ASSUME TypeOK, InputQueue, CompletionQueue, JobFacts, Lifecycle, Snapshots, [Next]_vars
  PROVE  Snapshots'
<1>0. Jobs /\ \A m \in Inflight : m \in Msg /\ m \in Read
  BY DEF JobFacts, Jobs, Inflight, Waiting
<1>a. rev \in Nat /\ snapshot \in [Msg -> Nat] /\ Len(log) \in Nat
  BY DEF TypeOK
<1>1. CASE ~HandleInput
  <2>1. Inflight' \subseteq Inflight /\ rev' = rev /\ snapshot' = snapshot
    BY <1>1, InflightMoves
  <2>2. ASSUME serving' = "running", NEW m \in Inflight', snapshot'[m] = rev',
               NEW k \in Read', k > m, log'[k].kind = "edit"
        PROVE  Unhandled(k)' \/ ShutDownBetween(m, k)'
    <3>1. serving = "running" /\ m \in Inflight /\ m \in Read
      BY <1>0, <2>1, <2>2, Monotone
    <3>2. CASE k \in Read
      <4>1. log'[k] = log[k]
        BY <3>2, Monotone
      <4>2. Unhandled(k) \/ ShutDownBetween(m, k)
        BY <2>1, <2>2, <3>1, <3>2, <4>1 DEF Snapshots
      <4> QED BY <1>1, <3>1, <3>2, <4>2, UnhandledStays, ShutDownStays
    <3>3. CASE k \notin Read
      <4>1. PICK message \in Messages : ReadMessage(message)
        <5>1. Read' # Read
          BY <2>2, <3>3
        <5>2. log' # log
          BY <5>1 DEF Read
        <5>3. ASSUME NEW j \in Msg, Worker(j) PROVE log' = log
          BY <5>3, WorkerEffects DEF WorkerEffect
        <5>4. HandleCompleted => log' = log
          BY DEF HandleCompleted, inputVars
        <5>5. QuietSteps \/ UNCHANGED vars => log' = log
          BY QuietStepsAreQuiet DEF Quiet
        <5> QED BY <1>1, <5>2, <5>3, <5>4, <5>5 DEF Next, Client, Coordinator, QuietSteps
      <4>2. k = Len(log) + 1 /\ k \in Msg
        BY <2>2, <3>3, <4>1, LogGrows
      <4>3. [type |-> "Input", msg |-> k, outcome |-> "None"] \in Event
        BY <4>2 DEF Event
      <4>4. /\ Len(channel') = Len(channel) + 1
            /\ channel'[Len(channel) + 1] = [type |-> "Input", msg |-> k, outcome |-> "None"]
        BY <4>1, <4>2, <4>3, SentLast DEF ReadMessage
      <4>5. Len(channel) \in Nat
        BY DEF TypeOK
      <4>6. Len(channel) + 1 \in 1..Len(channel')
        BY <4>4, <4>5
      <4> QED BY <4>4, <4>6 DEF Unhandled
    <3> QED BY <3>2, <3>3
  <2> QED BY <2>1, <2>2 DEF Snapshots
<1>2. CASE HandleInput
  <2> DEFINE j == Len(log)
  <2>1. /\ j \in Msg /\ Effect(j) /\ ServeEffect(j) /\ job[j] = "none" /\ log' = log
        /\ Receives("Input") /\ channel[1].msg = j /\ channel[1].type = "Input" /\ serving = "running"
    BY <1>2, InputIsLast, HandlerEffects
  <2>2. j \in Read /\ Read' = Read /\ \A k \in Read : k \in Nat /\ k <= j
    BY <1>a, <2>1 DEF Read, Msg
  <2>3. /\ \A m \in Inflight' : m \in Inflight \/ (m = j /\ snapshot'[m] = rev)
        /\ \A m \in Inflight : m # j /\ snapshot'[m] = snapshot[m]
    BY <2>1 DEF Effect, Answers, HandleCancel, Accepts, Schedule, jobVars, Inflight, Waiting, TypeOK
  <2>4. rev' = rev \/ rev' = rev + 1
    BY <2>1 DEF ServeEffect
  <2>5. \A m \in Inflight' : snapshot'[m] <= rev'
    BY <1>0, <1>a, <2>3, <2>4 DEF Snapshots
  <2>6. ASSUME serving' = "running", NEW m \in Inflight', snapshot'[m] = rev',
               NEW k \in Read', k > m, log'[k].kind = "edit"
        PROVE  ShutDownBetween(m, k)'
    <3>1. m \in Inflight /\ m \in Read /\ m # j /\ k \in Read
      BY <1>0, <2>2, <2>3, <2>6
    <3>2. rev' = rev /\ snapshot[m] = rev
      <4>1. snapshot[m] <= rev /\ snapshot[m] \in Nat /\ snapshot[m] = rev'
        BY <1>0, <1>a, <2>3, <2>6, <3>1 DEF Snapshots
      <4> QED BY <1>a, <2>4, <4>1
    <3>3. CASE k = j
      <4>1. Refused(j)
        BY <1>a, <2>1, <2>6, <3>2, <3>3 DEF ServeEffect
      <4>2. lifecycle # "New"
        BY <2>1, <3>1 DEF Lifecycle
      <4>3. lifecycle = "ShuttingDown"
        BY <4>1, <4>2 DEF Refused
      <4>4. ShutDownAfter(m)
        BY <2>1, <3>1, <4>3 DEF Lifecycle, ShutDownAfter
      <4>5. ShutDownBetween(m, k)
        BY <2>2, <3>1, <3>3, <4>4 DEF ShutDownAfter, ShutDownBetween
      <4> QED BY <3>1, <4>5, ShutDownStays
    <3>4. CASE k # j
      <4>1. ~Unhandled(k)
        BY <3>4 DEF Unhandled, InputQueue, Slots
      <4>2. ShutDownBetween(m, k)
        BY <2>1, <2>6, <3>1, <3>2, <4>1 DEF Snapshots
      <4> QED BY <3>1, <4>2, ShutDownStays
    <3> QED BY <3>3, <3>4
  <2> QED BY <2>5, <2>6 DEF Snapshots
<1> QED BY <1>1, <1>2
-----------------------------------------------------------------------------
(* The drain counter *)

\* The scheduler's counter is the number of requests in flight: the session
\* neither ends while an answer is owed nor waits for one that was given.
LEMMA CountStep ==
  ASSUME TypeOK, InputQueue, CompletionQueue, JobFacts, Count, [Next]_vars
  PROVE  Count'
<1>1. IsFiniteSet(Inflight)
  <2>1. IsFiniteSet(Msg)
    BY BoundsAssumption, FS_Interval DEF Msg
  <2> QED BY <2>1, FS_Subset DEF Inflight
<1>2. Cardinality(Inflight) \in Nat /\ pending = Cardinality(Inflight)
  BY <1>1, FS_CardinalityType DEF Count
<1>3. CASE QuietSteps \/ UNCHANGED vars
  <2>1. Quiet
    BY <1>3, QuietStepsAreQuiet
  <2> QED BY <2>1 DEF Quiet, Count, Inflight
<1>4. ASSUME NEW message \in Messages, ReadMessage(message) PROVE Count'
  BY <1>4, LogGrows DEF Count, Inflight
<1>5. CASE HandleInput
  <2>1. Len(log) \in Msg /\ Effect(Len(log)) /\ job[Len(log)] = "none"
    BY <1>5, InputIsLast, HandlerEffects
  <2>2. CASE UNCHANGED <<job, pending>>
    BY <2>2 DEF Count, Inflight
  <2>3. CASE Accepts(Len(log))
    <3>1. Inflight' = Inflight \cup {Len(log)} /\ Len(log) \notin Inflight
      BY <2>1, <2>3 DEF Accepts, Schedule, Inflight, Waiting, TypeOK
    <3>2. pending' = pending + 1
      BY <2>3 DEF Accepts, Schedule
    <3> QED BY <1>1, <1>2, <3>1, <3>2, FS_AddElement DEF Count
  <2> QED BY <2>1, <2>2, <2>3 DEF Effect, Answers, HandleCancel, jobVars
<1>6. CASE HandleCompleted
  <2>1. CompletedEffect(channel[1].msg)
    BY <1>6, CompletedEffects
  <2>2. Inflight' = Inflight \ {channel[1].msg} /\ channel[1].msg \in Inflight
    BY <2>1 DEF CompletedEffect, Inflight, Waiting, TypeOK
  <2>3. pending' = IF pending = 0 THEN 0 ELSE pending - 1
    BY <2>1 DEF CompletedEffect
  <2>4. Cardinality(Inflight) # 0
    BY <1>1, <2>2, FS_EmptySet
  <2>5. Cardinality(Inflight') = Cardinality(Inflight) - 1
    BY <1>1, <2>2, FS_RemoveElement
  <2> QED BY <1>2, <2>3, <2>4, <2>5 DEF Count
<1>7. ASSUME NEW m \in Msg, Worker(m) PROVE Count'
  <2>1. WorkerEffect(m)
    BY <1>7, WorkerEffects
  <2>2. Inflight' = Inflight /\ pending' = pending
    BY <2>1 DEF WorkerEffect, Inflight, Waiting, TypeOK
  <2> QED BY <2>2 DEF Count
<1> QED BY <1>3, <1>4, <1>5, <1>6, <1>7 DEF Next, Client, Coordinator, QuietSteps
-----------------------------------------------------------------------------
(* The theorems *)

Inv ==
  /\ TypeOK
  /\ InputQueue
  /\ CompletionQueue
  /\ JobFacts
  /\ Registry
  /\ Tokens
  /\ Lifecycle
  /\ Snapshots
  /\ Count

\* Inv holds before the first message.
LEMMA InvInit == Init => Inv
<1> SUFFICES ASSUME Init PROVE Inv
  OBVIOUS
<1>a. /\ log \in Seq(MessageType) /\ Len(log) <= MaxMessages
      /\ channel \in Seq(Event) /\ replies \in [Msg -> Seq(ReplyKinds)]
  BY BoundsAssumption DEF Init
<1>b. /\ active \in [Ids -> 0..MaxMessages] /\ cancelled \subseteq Msg
      /\ job \in [Msg -> {"none", "queued", "running", "sent", "done"}]
      /\ snapshot \in [Msg -> Nat]
  BY BoundsAssumption DEF Init
<1>1. TypeOK
  BY <1>a, <1>b DEF Init, TypeOK
<1>2. Len(channel) = 0 /\ Len(log) = 0 /\ Slots = {} /\ Read = {} /\ Inflight = {}
  BY DEF Init, Slots, Read, Inflight, Waiting
<1>3. InputQueue /\ CompletionQueue
  BY <1>2 DEF Init, InputQueue, CompletionQueue
<1>4. JobFacts
  BY DEF Init, JobFacts, Jobs, AtMostOneReply, Inflight, Waiting
<1>5. Registry /\ Tokens /\ Lifecycle /\ Snapshots
  BY <1>2 DEF Init, Registry, Tokens, Lifecycle, Snapshots
<1>6. Count
  BY <1>2, FS_EmptySet DEF Init, Count
<1> QED BY <1>1, <1>3, <1>4, <1>5, <1>6 DEF Inv

\* Every step of every thread preserves Inv.
LEMMA InvStep == Inv /\ [Next]_vars => Inv'
<1> SUFFICES ASSUME Inv, [Next]_vars PROVE Inv'
  OBVIOUS
<1>1. /\ TypeOK /\ InputQueue /\ CompletionQueue /\ JobFacts /\ Registry /\ Tokens /\ Lifecycle
      /\ Snapshots /\ Count /\ Jobs /\ AtMostOneReply
  BY DEF Inv, JobFacts
<1>2. TypeOK' /\ InputQueue' /\ CompletionQueue' /\ JobFacts'
  BY <1>1, TypeStep, InputQueueStep, CompletionQueueStep, JobsStep
<1>3. Registry' /\ Tokens' /\ Lifecycle' /\ Snapshots' /\ Count'
  BY <1>1, RegistryStep, TokensStep, LifecycleStep, SnapshotsStep, CountStep
<1> QED BY <1>2, <1>3 DEF Inv

\* Inv is an invariant of the server.
LEMMA InvHolds == Spec => []Inv
  BY InvInit, InvStep, PTL DEF Spec

\* For every session, every set of ids and every pool: a request is answered at
\* most once, and a notification never (dispatch::handle, scheduler complete).
THEOREM OneReply == Spec => []AtMostOneReply
<1>1. Inv => AtMostOneReply
  BY DEF Inv, JobFacts
<1> QED BY <1>1, InvHolds, PTL

\* A request whose token was set in flight is answered as cancelled, and only
\* such a request is, however often its id is reused.
THEOREM CancellationHonoured == Spec => []CancelHonoured
<1>1. Inv => CancelHonoured
  BY DEF Inv, Tokens, CancelHonoured, CancelledBy
<1> QED BY <1>1, InvHolds, PTL

\* A result that reaches the client was computed from everything edited up to
\* then, whatever the workers and the reader do meanwhile (is_current).
THEOREM ResultsAreCurrent == Spec => NoStaleResult
<1>1. ASSUME Inv, [Next]_vars, NEW m \in Read, replies[m] = <<>>, replies'[m] = <<"fresh">>,
             NEW k \in Read, k > m, log[k].kind = "edit"
      PROVE  Unhandled(k) \/ ShutDownBetween(m, k)
  <2>0. TypeOK /\ InputQueue /\ CompletionQueue /\ JobFacts /\ Jobs /\ Snapshots
    BY <1>1 DEF Inv, JobFacts
  <2>1. m \in Msg
    BY <2>0, <1>1, BoundsAssumption DEF TypeOK, Read, Msg
  <2>2. replies' # replies /\ <<"fresh">> # <<>>
    BY <1>1
  <2>3. ~HandleInput
    <3> SUFFICES ASSUME HandleInput PROVE FALSE
      OBVIOUS
    <3>1. Len(log) \in Msg /\ Effect(Len(log)) /\ replies[Len(log)] = <<>>
      BY <2>0, InputIsLast, HandlerEffects
    <3>2. PICK kind \in {"error", "result"} : Reply(Len(log), kind)
      BY <2>2, <3>1 DEF Effect, Silent, WriteFails, HandleCancel, Accepts, Schedule, Answers
    <3>3. replies'[Len(log)] = <<kind>> /\ \A j \in Msg : j # Len(log) => replies'[j] = replies[j]
      BY <2>0, <3>1, <3>2, ReplyTo
    <3>4. <<kind>> # <<"fresh">>
      OBVIOUS
    <3> QED BY <1>1, <2>1, <2>2, <3>3, <3>4
  <2>4. HandleCompleted
    <3>1. ASSUME NEW message \in Messages, ReadMessage(message) PROVE replies' = replies
      BY <2>0, <3>1, LogGrows
    <3>2. ASSUME NEW j \in Msg, Worker(j) PROVE replies' = replies
      BY <3>2, WorkerEffects DEF WorkerEffect
    <3>3. QuietSteps \/ UNCHANGED vars => replies' = replies
      BY QuietStepsAreQuiet DEF Quiet
    <3> QED BY <1>1, <2>2, <2>3, <3>1, <3>2, <3>3 DEF Next, Client, Coordinator, QuietSteps
  <2> DEFINE c == channel[1].msg
             kind == CompletionKind(c, channel[1].outcome)
  <2>5. CompletedEffect(c) /\ (Reply(c, kind) \/ WriteFails) /\ Receives("Completed")
    BY <2>0, <2>4, CompletedEffects
  <2>6. c \in Inflight /\ replies[c] = <<>> /\ c \in Msg
    BY <2>0, <2>5 DEF CompletedEffect, Jobs, Inflight, Waiting
  <2>7. Reply(c, kind)
    BY <2>2, <2>5 DEF WriteFails
  <2>8. replies'[c] = <<kind>> /\ \A j \in Msg : j # c => replies'[j] = replies[j]
    BY <2>0, <2>6, <2>7, ReplyTo
  <2>9. <<kind>> = <<"fresh">> => kind = "fresh"
    OBVIOUS
  <2>10. m = c /\ kind = "fresh"
    BY <1>1, <2>1, <2>2, <2>8, <2>9
  <2>11. snapshot[m] = rev
    BY <2>10 DEF CompletionKind
  <2>12. serving = "running"
    BY <2>5 DEF Receives
  <2> QED BY <1>1, <2>0, <2>6, <2>10, <2>11, <2>12 DEF Snapshots
<1>2. Inv /\ [Next]_vars =>
        [\A m \in Read :
           replies[m] = <<>> /\ replies'[m] = <<"fresh">> =>
             \A k \in Read : k > m /\ log[k].kind = "edit" =>
               Unhandled(k) \/ ShutDownBetween(m, k)]_vars
  BY <1>1
<1> QED BY <1>2, InvHolds, PTL DEF Spec, NoStaleResult
-----------------------------------------------------------------------------
(* Refinement *)

\* The abstract state, as the refinement mapping of Service computes it.
Status(m) == IF replies[m] # <<>> THEN "answered" ELSE IF job[m] # "none" THEN "accepted" ELSE "unseen"
Session ==
  IF serving = "failed" THEN "aborted"
  ELSE IF serving = "ok" THEN "ended"
  ELSE IF terminal # "None" THEN "closing" ELSE "open"
StatusMap == [m \in Msg |-> Status(m)]

\* Service's actions, in terms of Status and Session.
Stays == StatusMap' = StatusMap /\ Session' = Session
Moves(m, from, to, sessions) ==
  /\ Session \in sessions
  /\ Status(m) = from
  /\ StatusMap' = [StatusMap EXCEPT ![m] = to]
  /\ Session' = Session
Turns(from, to) == Session \in from /\ Session' = to /\ StatusMap' = StatusMap

\* A step of that shape is a step of RequestService, or no step of it at all.
LEMMA ServiceShapes ==
  /\ Stays => UNCHANGED Service!vars
  /\ \A m \in Msg : Moves(m, "unseen", "accepted", {"open"}) => Service!Next
  /\ \A m \in Msg : Moves(m, "unseen", "answered", {"open"}) => Service!Next
  /\ \A m \in Msg : Moves(m, "accepted", "answered", {"open", "closing"}) => Service!Next
  /\ Turns({"open"}, "closing") => Service!Next
  /\ Turns({"open", "closing"}, "aborted") => Service!Next
  /\ (Turns({"closing"}, "ended") /\ \A m \in Msg : Status(m) # "accepted") => Service!Next
<1> USE DEF StatusMap, Status, Session
<1>1. Stays => UNCHANGED Service!vars
  BY DEF Stays, Service!vars
<1>2. ASSUME NEW m \in Msg, Moves(m, "unseen", "accepted", {"open"}) PROVE Service!Next
  <2>1. Service!Accept(m)
    BY <1>2 DEF Moves, Service!Accept
  <2> QED BY <2>1 DEF Service!Next
<1>3. ASSUME NEW m \in Msg, Moves(m, "unseen", "answered", {"open"}) PROVE Service!Next
  <2>1. Service!AnswerAtOnce(m)
    BY <1>3 DEF Moves, Service!AnswerAtOnce
  <2> QED BY <2>1 DEF Service!Next
<1>4. ASSUME NEW m \in Msg, Moves(m, "accepted", "answered", {"open", "closing"}) PROVE Service!Next
  <2>1. Service!Answer(m)
    BY <1>4 DEF Moves, Service!Answer
  <2> QED BY <2>1 DEF Service!Next
<1>5. Turns({"open"}, "closing") => Service!Next
  BY DEF Turns, Service!Leave, Service!Next
<1>6. Turns({"open", "closing"}, "aborted") => Service!Next
  BY DEF Turns, Service!Abort, Service!Next
<1>7. Turns({"closing"}, "ended") /\ (\A m \in Msg : Status(m) # "accepted") => Service!Next
  BY DEF Turns, Service!End, Service!Next
<1> QED BY <1>1, <1>2, <1>3, <1>4, <1>5, <1>6, <1>7

\* Every step of the server is a step of RequestService or leaves it alone.
LEMMA ServiceStep == Inv /\ [Next]_vars => [Service!Next]_(Service!vars)
<1> SUFFICES ASSUME Inv, [Next]_vars PROVE Service!Next \/ UNCHANGED Service!vars
  OBVIOUS
<1>0. TypeOK /\ InputQueue /\ CompletionQueue /\ JobFacts /\ Jobs /\ Count
  BY DEF Inv, JobFacts
<1>a. /\ terminal \in {"None", "Clean", "Unclean"} /\ serving \in {"running", "ok", "failed"}
      /\ job \in [Msg -> {"none", "queued", "running", "sent", "done"}]
      /\ replies \in [Msg -> Seq(ReplyKinds)]
  BY <1>0 DEF TypeOK
<1>b. ASSUME UNCHANGED <<job, replies>> PROVE StatusMap' = StatusMap
  BY <1>b DEF StatusMap, Status
<1>c. ASSUME UNCHANGED <<job, replies, serving, terminal>> PROVE UNCHANGED Service!vars
  BY <1>b, <1>c, ServiceShapes DEF Stays, Session
<1>d. serving = "running" => Session \in {"open", "closing"} /\ (terminal = "None" => Session = "open")
  BY DEF Session
<1>1. CASE ClientCloses \/ ReadEnd \/ Join \/ UNCHANGED vars
  BY <1>1, <1>c DEF ClientCloses, ReadEnd, Join, vars, serveVars, jobVars
<1>2. ASSUME NEW message \in Messages, ReadMessage(message) PROVE UNCHANGED Service!vars
  BY <1>2, <1>c DEF ReadMessage, serveVars, jobVars
<1>3. CASE HandleInput
  <2> DEFINE m == Len(log)
  <2>1. /\ m \in Msg /\ Effect(m) /\ ServeEffect(m) /\ job[m] = "none" /\ replies[m] = <<>>
        /\ terminal = "None" /\ serving = "running"
    BY <1>0, <1>3, InputIsLast, HandlerEffects
  <2>2. Session = "open" /\ Status(m) = "unseen"
    BY <1>d, <2>1 DEF Status
  <2>3. ASSUME UNCHANGED <<job, replies>>, serving' = "failed" PROVE Service!Next
    BY <1>b, <2>2, <2>3, ServiceShapes DEF Turns, Session
  <2>4. ASSUME UNCHANGED <<job, replies, serving>> PROVE Service!Next \/ UNCHANGED Service!vars
    <3>1. CASE terminal' = terminal
      BY <1>c, <2>4, <3>1
    <3>2. CASE terminal' \in {"Clean", "Unclean"}
      <4>1. Session' = "closing"
        BY <2>1, <2>4, <3>2 DEF Session
      <4> QED BY <1>b, <2>2, <2>4, <4>1, ServiceShapes DEF Turns
    <3> QED BY <2>1, <3>1, <3>2 DEF ServeEffect
  <2>5. ASSUME Answers(m) PROVE Service!Next
    <3>1. PICK kind \in {"error", "result"} : Reply(m, kind)
      BY <2>5 DEF Answers
    <3>2. /\ replies'[m] = <<kind>> /\ \A k \in Msg : k # m => replies'[k] = replies[k]
          /\ serving' = serving
      BY <1>0, <2>1, <3>1, ReplyTo
    <3>3. job' = job /\ <<kind>> # <<>>
      BY <2>5 DEF Answers, jobVars
    <3>4. terminal' = terminal
      BY <2>1, <3>2, <3>3 DEF ServeEffect, Silent
    <3>5. StatusMap' = [StatusMap EXCEPT ![m] = "answered"]
      BY <2>1, <3>2, <3>3 DEF StatusMap, Status
    <3>6. Session' = Session
      BY <3>2, <3>4 DEF Session
    <3> QED BY <2>1, <2>2, <3>5, <3>6, ServiceShapes DEF Moves
  <2>6. ASSUME Accepts(m) PROVE Service!Next
    <3>1. job' = [job EXCEPT ![m] = "queued"] /\ UNCHANGED <<replies, serving>>
      BY <2>6 DEF Accepts, Schedule, Silent
    <3>2. job' # job
      BY <1>a, <2>1, <3>1
    <3>3. terminal' = terminal
      BY <2>1, <3>2 DEF ServeEffect, jobVars
    <3>4. StatusMap' = [StatusMap EXCEPT ![m] = "accepted"]
      BY <1>a, <2>1, <3>1 DEF StatusMap, Status
    <3>5. Session' = Session
      BY <3>1, <3>3 DEF Session
    <3> QED BY <2>1, <2>2, <3>4, <3>5, ServiceShapes DEF Moves
  <2> QED BY <2>1, <2>3, <2>4, <2>5, <2>6
          DEF Effect, Silent, WriteFails, HandleCancel, jobVars
<1>4. CASE HandleEndOfInput
  <2>1. UNCHANGED <<job, replies, serving>> /\ serving = "running"
    BY <1>4 DEF HandleEndOfInput, Receives, jobVars
  <2>2. CASE terminal' = terminal
    BY <1>c, <2>1, <2>2
  <2>3. CASE terminal = "None" /\ terminal' = "Unclean"
    <3>1. Session = "open" /\ Session' = "closing"
      BY <2>1, <2>3 DEF Session
    <3> QED BY <1>b, <2>1, <3>1, ServiceShapes DEF Turns
  <2> QED BY <1>4, <2>2, <2>3 DEF HandleEndOfInput
<1>5. CASE HandleInputError
  <2>1. UNCHANGED <<job, replies>> /\ serving = "running" /\ serving' = "failed"
    BY <1>5 DEF HandleInputError, Receives, jobVars
  <2>2. Session \in {"open", "closing"} /\ Session' = "aborted"
    BY <1>d, <2>1 DEF Session
  <2> QED BY <1>b, <2>1, <2>2, ServiceShapes DEF Turns
<1>6. CASE HandleCompleted
  <2>1. PICK m : m = channel[1].msg /\ CompletedEffect(m) /\ Receives("Completed")
    BY <1>0, <1>6, CompletedEffects
  <2>2. /\ m \in Msg /\ job[m] = "sent" /\ job' = [job EXCEPT ![m] = "done"]
        /\ terminal' = terminal /\ serving = "running" /\ replies[m] = <<>>
    BY <1>0, <2>1 DEF CompletedEffect, Receives, Jobs, Inflight, Waiting
  <2>3. Session \in {"open", "closing"} /\ Status(m) = "accepted"
    BY <1>d, <2>2 DEF Status
  <2>4. ASSUME serving' = "failed", UNCHANGED replies PROVE Service!Next
    <3>1. StatusMap' = StatusMap
      BY <1>a, <2>2, <2>4 DEF StatusMap, Status
    <3>2. Session' = "aborted"
      BY <2>4 DEF Session
    <3> QED BY <2>3, <3>1, <3>2, ServiceShapes DEF Turns
  <2>5. ASSUME NEW kind, Reply(m, kind) PROVE Service!Next
    <3>1. /\ replies'[m] = <<kind>> /\ \A k \in Msg : k # m => replies'[k] = replies[k]
          /\ serving' = serving
      BY <1>0, <2>2, <2>5, ReplyTo
    <3>2. <<kind>> # <<>>
      OBVIOUS
    <3>3. \A k \in Msg : k # m => Status(k)' = Status(k)
      BY <1>a, <2>2, <3>1 DEF Status
    <3>4. Status(m)' = "answered"
      BY <3>1, <3>2 DEF Status
    <3>5. StatusMap' = [StatusMap EXCEPT ![m] = "answered"]
      BY <2>2, <3>3, <3>4 DEF StatusMap
    <3>6. Session' = Session
      BY <2>2, <3>1 DEF Session
    <3> QED BY <2>2, <2>3, <3>5, <3>6, ServiceShapes DEF Moves
  <2> QED BY <2>1, <2>4, <2>5 DEF CompletedEffect
<1>7. CASE ServeReturns
  <2>1. /\ UNCHANGED <<job, replies, terminal>> /\ serving = "running" /\ serving' = "ok"
        /\ terminal # "None" /\ pending = 0
    BY <1>7 DEF ServeReturns, MayReturn, serveVars, jobVars
  <2>2. Session = "closing" /\ Session' = "ended"
    BY <2>1 DEF Session
  <2>3. Inflight = {}
    <3>1. IsFiniteSet(Msg)
      BY BoundsAssumption, FS_Interval DEF Msg
    <3>2. IsFiniteSet(Inflight)
      BY <3>1, FS_Subset DEF Inflight
    <3> QED BY <1>0, <2>1, <3>2, FS_EmptySet DEF Count
  <2>4. \A m \in Msg : Status(m) # "accepted"
    BY <1>0, <1>a, <2>1, <2>3 DEF Status, Jobs, Inflight, Waiting
  <2> QED BY <1>b, <2>1, <2>2, <2>4, ServiceShapes DEF Turns
<1>8. ASSUME NEW m \in Msg, Worker(m) PROVE UNCHANGED Service!vars
  <2>1. WorkerEffect(m)
    BY <1>8, WorkerEffects
  <2>2. /\ \A k \in Msg : job'[k] # "none" <=> job[k] # "none"
        /\ UNCHANGED <<replies, serving, terminal>>
    BY <1>a, <2>1 DEF WorkerEffect
  <2>3. StatusMap' = StatusMap /\ Session' = Session
    BY <2>2 DEF StatusMap, Status, Session
  <2> QED BY <2>3, ServiceShapes DEF Stays
<1> QED BY <1>1, <1>2, <1>3, <1>4, <1>5, <1>6, <1>7, <1>8 DEF Next, Client, Coordinator

\* The safety part of ImplementsService.
ServiceSafety == Service!Init /\ [][Service!Next]_(Service!vars)

\* The coordinator implements the request service, step by step: nothing is
\* accepted or answered out of turn, and the session ends only when no answer is
\* owed.  (That every answer is eventually given is ImplementsService's fairness,
\* which the model checker checks.)
THEOREM ServiceRefined == Spec => ServiceSafety
<1>1. Init => Service!Init
  <2> SUFFICES ASSUME Init PROVE Service!Init
    OBVIOUS
  <2>1. \A m \in Msg : Status(m) = "unseen"
    BY DEF Init, Status
  <2>2. Session = "open"
    BY DEF Init, Session
  <2> QED BY <2>1, <2>2 DEF Service!Init, Status, Session
<1> QED BY <1>1, ServiceStep, InvHolds, PTL DEF Spec, ServiceSafety
=============================================================================
