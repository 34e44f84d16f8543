--------------------------- MODULE MCConcurrency ---------------------------
(***************************************************************************)
(* The staged writer among an editor, faults and a crash, and a session of *)
(* the language server among its threads, one at a time: while one runs    *)
(* the other rests.                                                        *)
(***************************************************************************)
EXTENDS StagedWrite, LspServer

\* f1, f2 and f3 are files, e1 and e2 the texts an external editor writes, a
\* the id of a request.
CONSTANTS f1, f2, f3, e1, e2, a, Parts

TwoFiles == {f1, f2}
ThreeFiles == {f1, f2, f3}
OneEdit == {e1}
TwoEdits == {e1, e2}

OneId == {a}

M(kind, id) == [kind |-> kind, id |-> id]

\* Requests racing with cancellations and edits, ids reused, an id without a
\* token, and every kind of message the gate and the dispatcher turn away.
Racing ==
  {M("notObject", None), M("initialize", a), M("shutdown", a), M("exit", None), M("cancel", a),
   M("edit", None), M("save", None), M("request", a), M("request", Odd), M("unknown", a)}

\* A session of one id, to its end.
Ending ==
  {M("initialize", a), M("request", a), M("cancel", a), M("shutdown", a), M("exit", None)}

-----------------------------------------------------------------------------

VARIABLE part   \* which of the two this behaviour is about

allVars == <<part, writeVars, vars>>

\* A writer that has nothing to do has ended.
WriterRests ==
  /\ target = [i \in Index |-> CHOOSE f \in Files : TRUE]
  /\ dest = [f \in Files |-> "old"] /\ temp = [i \in Index |-> "gone"] /\ unsynced = {}
  /\ pc = "ok" /\ cur = 0 /\ owned = {} /\ committed = 0 /\ expect = "None"
  /\ named = {} /\ badUndo = {} /\ last = [f \in Files |-> "untouched"]
  /\ edits = 0 /\ faults = 0

PartInit ==
  /\ part \in Parts
  /\ IF part = "write" THEN WriteInit ELSE WriterRests
  /\ Init

WritePart(step) == part = "write" /\ step /\ UNCHANGED <<part, vars>>
ServerPart(step) == part = "server" /\ step /\ UNCHANGED <<part, writeVars>>

PartNext == WritePart(WriteNext) \/ ServerPart(Next)

\* The fairness of each specification, for the part that runs.
PartFairness ==
  /\ WF_allVars(WritePart(Writer))
  /\ WF_allVars(ServerPart(ReadEnd /\ closed))
  /\ WF_allVars(ServerPart(Coordinator))
  /\ \A m \in Msg : WF_allVars(ServerPart(Worker(m)))

PartSpec == PartInit /\ [][PartNext]_allVars /\ PartFairness
=============================================================================
