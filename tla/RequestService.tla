--------------------------- MODULE RequestService ---------------------------
(***************************************************************************)
(* What the language server promises about the requests of one session,    *)
(* with no reader, channel, worker or registry: a request is answered      *)
(* once, at once or after having been accepted; after the client leaves    *)
(* nothing new is taken, what was accepted is still answered, and the      *)
(* session ends only then; a failure may abandon everything.               *)
(***************************************************************************)
CONSTANT Requests

VARIABLES
  status,   \* request -> "unseen", "accepted" (answer owed), "answered"
  session   \* "open", "closing", "ended", "aborted"

vars == <<status, session>>

Init ==
  /\ status = [r \in Requests |-> "unseen"]
  /\ session = "open"

Accept(r) ==
  /\ session = "open"
  /\ status[r] = "unseen"
  /\ status' = [status EXCEPT ![r] = "accepted"]
  /\ UNCHANGED session

\* An error, or the answer of a request that needs no analysis.
AnswerAtOnce(r) ==
  /\ session = "open"
  /\ status[r] = "unseen"
  /\ status' = [status EXCEPT ![r] = "answered"]
  /\ UNCHANGED session

Answer(r) ==
  /\ session \in {"open", "closing"}
  /\ status[r] = "accepted"
  /\ status' = [status EXCEPT ![r] = "answered"]
  /\ UNCHANGED session

\* The client exits or closes the input.
Leave ==
  /\ session = "open"
  /\ session' = "closing"
  /\ UNCHANGED status

End ==
  /\ session = "closing"
  /\ \A r \in Requests : status[r] # "accepted"
  /\ session' = "ended"
  /\ UNCHANGED status

\* Malformed input or a failed write.
Abort ==
  /\ session \in {"open", "closing"}
  /\ session' = "aborted"
  /\ UNCHANGED status

Next ==
  \/ \E r \in Requests : Accept(r) \/ AnswerAtOnce(r) \/ Answer(r)
  \/ Leave \/ End \/ Abort

Fairness == WF_vars(End) /\ \A r \in Requests : WF_vars(Answer(r))
Spec == Init /\ [][Next]_vars /\ Fairness
=============================================================================
