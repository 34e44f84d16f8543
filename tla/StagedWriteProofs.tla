------------------------- MODULE StagedWriteProofs -------------------------
(***************************************************************************)
(* For every number of replacements, every set of files and every schedule *)
(* of edits, faults and crashes, the staged writer destroys no external    *)
(* edit as long as a directory fsync does not fail after its rename.       *)
(*                                                                         *)
(* NoLostEdit is not inductive: a removal is safe only because of what the *)
(* removed path holds at that point of the program, which the parts of     *)
(* Inv below record.                                                       *)
(*                                                                         *)
(* The second half is about how a run ends: which private files it may     *)
(* leave, what a handled failure restores, and what a crash can show.      *)
(***************************************************************************)
EXTENDS StagedWrite, TLAPS

StagePC    == {"inspect", "verify", "create", "write"}
InstallPC  == {"late", "install", "installSync", "check", "undo", "undoSync", "undoCheck"}
InstallWindow == {"installSync", "check", "undo", "undoSync", "undoCheck"}
RollbackWindow == {"rbSync", "rbCheck", "rbUndo", "rbUndoSync", "rbUndoCheck"}
RollbackPC == {"rbVerify", "rbExchange"} \cup RollbackWindow
SyncPC     == {"installSync", "undoSync", "rbSync", "rbUndoSync"}

\* Where the loop index and the committed prefix stand in each phase.
Position ==
  /\ pc \in StagePC => cur \in Index /\ committed = 0
  /\ pc \in InstallPC => cur \in Index /\ committed = cur - 1
  /\ pc \in RollbackPC => cur <= committed /\ N > 0
  /\ pc \in RollbackPC \ {"rbVerify"} => cur \in Index
  /\ pc = "cleanup" => cur \in Index
  /\ pc = "cleanBackups" => cur \in Index /\ committed = N

\* What the run still owns: the staged prefix while staging, the uncommitted
\* suffix afterwards.
Ownership ==
  /\ pc \in StagePC => \A i \in owned : i < cur
  /\ pc \in InstallPC \cup RollbackPC => \A i \in owned : i > committed
  /\ pc = "cleanBackups" => owned = {}

\* Paths that a later step creates do not exist yet.
NotYetStaged ==
  /\ pc \in {"inspect", "verify", "create"} => \A i \in Index : i >= cur => temp[i] = "gone"
  /\ pc = "write" => temp[cur] = "partial" /\ \A i \in Index : i > cur => temp[i] = "gone"

\* A staging path the run will remove as its own holds the staged text, except
\* between the exchange and the end of its verification.
OwnedHoldsNew ==
  pc \notin Final =>
    \A i \in owned : (i = cur /\ pc \in InstallWindow) \/ temp[i] = "new"

\* A backup the run has not started to restore holds the analysed text.
BackupHoldsOld ==
  \A i \in 1..committed :
    /\ pc \in InstallPC => temp[i] = "old"
    /\ pc \in {"rbVerify", "rbExchange"} /\ i <= cur => temp[i] = "old"
    /\ pc \in RollbackWindow /\ i < cur => temp[i] = "old"
    /\ pc = "cleanBackups" /\ i >= cur => temp[i] = "old"

\* Only the exchange under way can be undone by a crash.
OneUnsynced ==
  pc \notin Final => unsynced \subseteq {cur} /\ (pc \notin SyncPC => unsynced = {})

Inv ==
  /\ WriteTypeOK
  /\ Position
  /\ Ownership
  /\ NotYetStaged
  /\ OwnedHoldsNew
  /\ BackupHoldsOld
  /\ OneUnsynced
  /\ NoLostEdit
-----------------------------------------------------------------------------
(* Typing: the phase the writer is in bounds its loop index. *)

Control == WriteTypeOK /\ Position

\* Control holds initially (the state replace_all starts from).
LEMMA ControlInit == WriteInit => Control
  <1> SUFFICES ASSUME WriteInit PROVE Control
    OBVIOUS
  <1>1. DiskType
    BY DEF WriteInit, DiskType, Content
  <1>2. ControlType /\ Position
    BY NAssumption DEF WriteInit, ControlType, Position, PC, Final, StagePC, InstallPC,
       RollbackPC, RollbackWindow, Index
  <1>3. ArtifactType /\ CounterType
    BY WriteBoundsAssumption DEF WriteInit, ArtifactType, CounterType
  <1>4. QED
    BY <1>1, <1>2, <1>3 DEF Control, WriteTypeOK

\* Every step of the writer, the editor or a crash preserves Control.
LEMMA ControlStep == Control /\ [WriteNext]_writeVars => Control'
  <1> SUFFICES ASSUME Control, [WriteNext]_writeVars
               PROVE  DiskType' /\ (ControlType /\ Position)' /\ ArtifactType' /\ CounterType'
    BY DEF Control, WriteTypeOK
  <1>a. DiskType /\ ControlType /\ Position /\ ArtifactType /\ CounterType
    BY DEF Control, WriteTypeOK
  <1> USE NAssumption, WriteBoundsAssumption
  <1>1. CASE Inspect
    <2>0. cur \in Index
      BY <1>a, <1>1 DEF ControlType, Position, StagePC, InstallPC, RollbackPC,
         RollbackWindow, Index, Inspect
    <2>1. DiskType'
      BY <1>a, <1>1, <2>0 DEF DiskType, Content, Inspect, disk
    <2>2. (ControlType /\ Position)'
      BY <1>a, <1>1 DEF Inspect, Goto, ControlType, Position, PC, Final, StagePC,
         InstallPC, RollbackPC, RollbackWindow, Index
    <2>3. ArtifactType'
      BY <1>a, <1>1, <2>0 DEF ArtifactType, Inspect
    <2>4. CounterType'
      BY <1>a, <1>1 DEF CounterType, Inspect, Fault, Faults, NoFault
    <2>5. QED
      BY <2>1, <2>2, <2>3, <2>4
  <1>2. CASE VerifyBeforeStage
    <2>0. cur \in Index
      BY <1>a, <1>2 DEF ControlType, Position, StagePC, InstallPC, RollbackPC,
         RollbackWindow, Index, VerifyBeforeStage
    <2>1. DiskType'
      BY <1>a, <1>2, <2>0 DEF DiskType, Content, VerifyBeforeStage, disk
    <2>2. (ControlType /\ Position)'
      BY <1>a, <1>2 DEF VerifyBeforeStage, Goto, ControlType, Position, PC, Final,
         StagePC, InstallPC, RollbackPC, RollbackWindow, Index
    <2>3. ArtifactType'
      BY <1>a, <1>2, <2>0 DEF ArtifactType, VerifyBeforeStage
    <2>4. CounterType'
      BY <1>a, <1>2 DEF CounterType, VerifyBeforeStage, Reads, Fault, Faults, NoFault
    <2>5. QED
      BY <2>1, <2>2, <2>3, <2>4
  <1>3. CASE CreateStagingFile
    <2>0. cur \in Index
      BY <1>a, <1>3 DEF ControlType, Position, StagePC, InstallPC, RollbackPC,
         RollbackWindow, Index, CreateStagingFile
    <2>1. DiskType'
      BY <1>a, <1>3, <2>0 DEF DiskType, Content, CreateStagingFile
    <2>2. (ControlType /\ Position)'
      BY <1>a, <1>3 DEF CreateStagingFile, Goto, ControlType, Position, PC, Final,
         StagePC, InstallPC, RollbackPC, RollbackWindow, Index
    <2>3. ArtifactType'
      BY <1>a, <1>3, <2>0 DEF ArtifactType, CreateStagingFile
    <2>4. CounterType'
      BY <1>a, <1>3 DEF CounterType, CreateStagingFile, Fault, Faults, NoFault
    <2>5. QED
      BY <2>1, <2>2, <2>3, <2>4
  <1>4. CASE WriteStaged
    <2>0. cur \in Index
      BY <1>a, <1>4 DEF ControlType, Position, StagePC, InstallPC, RollbackPC,
         RollbackWindow, Index, WriteStaged
    <2>1. DiskType'
      BY <1>a, <1>4, <2>0 DEF DiskType, Content, WriteStaged
    <2>2. (ControlType /\ Position)'
      BY <1>a, <1>4 DEF WriteStaged, Goto, ControlType, Position, PC, Final, StagePC,
         InstallPC, RollbackPC, RollbackWindow, Index
    <2>3. ArtifactType'
      BY <1>a, <1>4, <2>0 DEF ArtifactType, WriteStaged
    <2>4. CounterType'
      BY <1>a, <1>4 DEF CounterType, WriteStaged, NoFault
    <2>5. QED
      BY <2>1, <2>2, <2>3, <2>4
  <1>5. CASE StagingFails
    <2>0. cur \in Index
      BY <1>a, <1>5 DEF ControlType, Position, StagePC, InstallPC, RollbackPC,
         RollbackWindow, Index, StagingFails
    <2>1. DiskType'
      BY <1>a, <1>5, <2>0 DEF DiskType, Content, StagingFails, RemoveOwned
    <2>2. (ControlType /\ Position)'
      BY <1>a, <1>5 DEF StagingFails, Goto, RemoveOwned, ControlType, Position, PC, Final,
         StagePC, InstallPC, RollbackPC, RollbackWindow, Index
    <2>3. ArtifactType'
      BY <1>a, <1>5, <2>0 DEF ArtifactType, StagingFails, RemoveOwned
    <2>4. CounterType'
      BY <1>a, <1>5 DEF CounterType, StagingFails, RemoveOwned, Fault, Faults, NoFault
    <2>5. QED
      BY <2>1, <2>2, <2>3, <2>4
  <1>6. CASE LateVerify
    <2>0. cur \in Index
      BY <1>a, <1>6 DEF ControlType, Position, StagePC, InstallPC, RollbackPC,
         RollbackWindow, Index, LateVerify
    <2>1. DiskType'
      BY <1>a, <1>6, <2>0 DEF DiskType, Content, LateVerify, disk
    <2>2. (ControlType /\ Position)'
      BY <1>a, <1>6 DEF LateVerify, Goto, FailCommit, ControlType, Position, PC, Final,
         StagePC, InstallPC, RollbackPC, RollbackWindow, Index
    <2>3. ArtifactType'
      BY <1>a, <1>6, <2>0 DEF ArtifactType, LateVerify
    <2>4. CounterType'
      BY <1>a, <1>6 DEF CounterType, LateVerify, Reads, Fault, Faults, NoFault
    <2>5. QED
      BY <2>1, <2>2, <2>3, <2>4
  <1>7. CASE Install
    <2>0. cur \in Index
      BY <1>a, <1>7 DEF ControlType, Position, StagePC, InstallPC, RollbackPC,
         RollbackWindow, Index, Install
    <2>1. DiskType'
      BY <1>a, <1>7, <2>0 DEF DiskType, Content, Install, Swap, SwapFails, disk
    <2>2. (ControlType /\ Position)'
      BY <1>a, <1>7 DEF Install, Goto, FailCommit, ControlType, Position, PC, Final,
         StagePC, InstallPC, RollbackPC, RollbackWindow, Index
    <2>3. ArtifactType'
      BY <1>a, <1>7, <2>0 DEF ArtifactType, Install
    <2>4. CounterType'
      BY <1>a, <1>7 DEF CounterType, Install, Swap, SwapFails, Fault, Faults, NoFault
    <2>5. QED
      BY <2>1, <2>2, <2>3, <2>4
  <1>8. CASE InstallSync
    <2>0. cur \in Index
      BY <1>a, <1>8 DEF ControlType, Position, StagePC, InstallPC, RollbackPC,
         RollbackWindow, Index, InstallSync
    <2>1. DiskType'
      BY <1>a, <1>8, <2>0 DEF DiskType, Content, InstallSync, Synced, SyncFails, disk
    <2>2. (ControlType /\ Position)'
      BY <1>a, <1>8 DEF InstallSync, Goto, FailCommit, ControlType, Position, PC, Final,
         StagePC, InstallPC, RollbackPC, RollbackWindow, Index
    <2>3. ArtifactType'
      BY <1>a, <1>8, <2>0 DEF ArtifactType, InstallSync
    <2>4. CounterType'
      BY <1>a, <1>8 DEF CounterType, InstallSync, Synced, SyncFails, Fault, Faults,
         NoFault
    <2>5. QED
      BY <2>1, <2>2, <2>3, <2>4
  <1>9. CASE CheckInstall
    <2>0. cur \in Index
      BY <1>a, <1>9 DEF ControlType, Position, StagePC, InstallPC, RollbackPC,
         RollbackWindow, Index, CheckInstall
    <2>1. DiskType'
      BY <1>a, <1>9, <2>0 DEF DiskType, Content, CheckInstall, disk
    <2>2. (ControlType /\ Position)'
      BY <1>a, <1>9 DEF CheckInstall, Goto, ControlType, Position, PC, Final, StagePC,
         InstallPC, RollbackPC, RollbackWindow, Index
    <2>3. ArtifactType'
      BY <1>a, <1>9, <2>0 DEF ArtifactType, CheckInstall
    <2>4. CounterType'
      BY <1>a, <1>9 DEF CounterType, CheckInstall, Fault, Faults, NoFault, SomeIf
    <2>5. QED
      BY <2>1, <2>2, <2>3, <2>4
  <1>10. CASE Undo
    <2>0. cur \in Index
      BY <1>a, <1>10 DEF ControlType, Position, StagePC, InstallPC, RollbackPC,
         RollbackWindow, Index, Undo
    <2>1. DiskType'
      BY <1>a, <1>10, <2>0 DEF DiskType, Content, Undo, Swap, SwapFails, disk
    <2>2. (ControlType /\ Position)'
      BY <1>a, <1>10 DEF Undo, Goto, FailCommit, Relinquish, ControlType, Position, PC,
         Final, StagePC, InstallPC, RollbackPC, RollbackWindow, Index
    <2>3. ArtifactType'
      BY <1>a, <1>10, <2>0 DEF ArtifactType, Undo, Relinquish
    <2>4. CounterType'
      BY <1>a, <1>10 DEF CounterType, Undo, Swap, SwapFails, Fault, Faults, NoFault
    <2>5. QED
      BY <2>1, <2>2, <2>3, <2>4
  <1>11. CASE UndoSync
    <2>0. cur \in Index
      BY <1>a, <1>11 DEF ControlType, Position, StagePC, InstallPC, RollbackPC,
         RollbackWindow, Index, UndoSync
    <2>1. DiskType'
      BY <1>a, <1>11, <2>0 DEF DiskType, Content, UndoSync, Synced, SyncFails, disk
    <2>2. (ControlType /\ Position)'
      BY <1>a, <1>11 DEF UndoSync, Goto, FailCommit, Relinquish, ControlType, Position,
         PC, Final, StagePC, InstallPC, RollbackPC, RollbackWindow, Index
    <2>3. ArtifactType'
      BY <1>a, <1>11, <2>0 DEF ArtifactType, UndoSync, Relinquish
    <2>4. CounterType'
      BY <1>a, <1>11 DEF CounterType, UndoSync, Synced, SyncFails, Fault, Faults, NoFault
    <2>5. QED
      BY <2>1, <2>2, <2>3, <2>4
  <1>12. CASE UndoCheck
    <2>0. cur \in Index
      BY <1>a, <1>12 DEF ControlType, Position, StagePC, InstallPC, RollbackPC,
         RollbackWindow, Index, UndoCheck
    <2>1. DiskType'
      BY <1>a, <1>12, <2>0 DEF DiskType, Content, UndoCheck, disk
    <2>2. (ControlType /\ Position)'
      BY <1>a, <1>12 DEF UndoCheck, Goto, FailCommit, Relinquish, ControlType, Position,
         PC, Final, StagePC, InstallPC, RollbackPC, RollbackWindow, Index
    <2>3. ArtifactType'
      BY <1>a, <1>12, <2>0 DEF ArtifactType, UndoCheck, Relinquish
    <2>4. CounterType'
      BY <1>a, <1>12 DEF CounterType, UndoCheck, Fault, Faults, NoFault
    <2>5. QED
      BY <2>1, <2>2, <2>3, <2>4
  <1>13. CASE RollbackVerify
    <2>0. cur \in Index
      BY <1>a, <1>13 DEF ControlType, Position, StagePC, InstallPC, RollbackPC,
         RollbackWindow, Index, RollbackVerify
    <2>1. DiskType'
      BY <1>a, <1>13, <2>0 DEF DiskType, Content, RollbackVerify, RemoveOwned
    <2>2. (ControlType /\ Position)'
      BY <1>a, <1>13 DEF RollbackVerify, Goto, NextRollback, RemoveOwned, ControlType,
         Position, PC, Final, StagePC, InstallPC, RollbackPC, RollbackWindow, Index
    <2>3. ArtifactType'
      BY <1>a, <1>13, <2>0 DEF ArtifactType, RollbackVerify, RemoveOwned
    <2>4. CounterType'
      BY <1>a, <1>13 DEF CounterType, RollbackVerify, RemoveOwned, Fault, Faults, NoFault
    <2>5. QED
      BY <2>1, <2>2, <2>3, <2>4
  <1>14. CASE RollbackExchange
    <2>0. cur \in Index
      BY <1>a, <1>14 DEF ControlType, Position, StagePC, InstallPC, RollbackPC,
         RollbackWindow, Index, RollbackExchange
    <2>1. DiskType'
      BY <1>a, <1>14, <2>0 DEF DiskType, Content, RollbackExchange, Swap, SwapFails, disk
    <2>2. (ControlType /\ Position)'
      BY <1>a, <1>14 DEF RollbackExchange, Goto, NextRollback, ControlType, Position,
         PC, Final, StagePC, InstallPC, RollbackPC, RollbackWindow, Index
    <2>3. ArtifactType'
      BY <1>a, <1>14, <2>0 DEF ArtifactType, RollbackExchange
    <2>4. CounterType'
      BY <1>a, <1>14 DEF CounterType, RollbackExchange, Swap, SwapFails, Fault, Faults,
         NoFault
    <2>5. QED
      BY <2>1, <2>2, <2>3, <2>4
  <1>15. CASE RollbackSync
    <2>0. cur \in Index
      BY <1>a, <1>15 DEF ControlType, Position, StagePC, InstallPC, RollbackPC,
         RollbackWindow, Index, RollbackSync
    <2>1. DiskType'
      BY <1>a, <1>15, <2>0 DEF DiskType, Content, RollbackSync, Synced, SyncFails, disk
    <2>2. (ControlType /\ Position)'
      BY <1>a, <1>15 DEF RollbackSync, Goto, NextRollback, ControlType, Position, PC,
         Final, StagePC, InstallPC, RollbackPC, RollbackWindow, Index
    <2>3. ArtifactType'
      BY <1>a, <1>15, <2>0 DEF ArtifactType, RollbackSync
    <2>4. CounterType'
      BY <1>a, <1>15 DEF CounterType, RollbackSync, Synced, SyncFails, Fault, Faults,
         NoFault
    <2>5. QED
      BY <2>1, <2>2, <2>3, <2>4
  <1>16. CASE RollbackCheck
    <2>0. cur \in Index
      BY <1>a, <1>16 DEF ControlType, Position, StagePC, InstallPC, RollbackPC,
         RollbackWindow, Index, RollbackCheck
    <2>1. DiskType'
      BY <1>a, <1>16, <2>0 DEF DiskType, Content, RollbackCheck, RemoveOwned
    <2>2. (ControlType /\ Position)'
      BY <1>a, <1>16 DEF RollbackCheck, Goto, NextRollback, RemoveOwned, ControlType,
         Position, PC, Final, StagePC, InstallPC, RollbackPC, RollbackWindow, Index
    <2>3. ArtifactType'
      BY <1>a, <1>16, <2>0 DEF ArtifactType, RollbackCheck, RemoveOwned
    <2>4. CounterType'
      BY <1>a, <1>16 DEF CounterType, RollbackCheck, RemoveOwned, Fault, Faults,
         NoFault, SomeIf
    <2>5. QED
      BY <2>1, <2>2, <2>3, <2>4
  <1>17. CASE RollbackUndo
    <2>0. cur \in Index
      BY <1>a, <1>17 DEF ControlType, Position, StagePC, InstallPC, RollbackPC,
         RollbackWindow, Index, RollbackUndo
    <2>1. DiskType'
      BY <1>a, <1>17, <2>0 DEF DiskType, Content, RollbackUndo, Swap, SwapFails, disk
    <2>2. (ControlType /\ Position)'
      BY <1>a, <1>17 DEF RollbackUndo, Goto, NextRollback, ControlType, Position, PC,
         Final, StagePC, InstallPC, RollbackPC, RollbackWindow, Index
    <2>3. ArtifactType'
      BY <1>a, <1>17, <2>0 DEF ArtifactType, RollbackUndo
    <2>4. CounterType'
      BY <1>a, <1>17 DEF CounterType, RollbackUndo, Swap, SwapFails, Fault, Faults,
         NoFault
    <2>5. QED
      BY <2>1, <2>2, <2>3, <2>4
  <1>18. CASE RollbackUndoSync
    <2>0. cur \in Index
      BY <1>a, <1>18 DEF ControlType, Position, StagePC, InstallPC, RollbackPC,
         RollbackWindow, Index, RollbackUndoSync
    <2>1. DiskType'
      BY <1>a, <1>18, <2>0 DEF DiskType, Content, RollbackUndoSync, Synced, SyncFails,
         disk
    <2>2. (ControlType /\ Position)'
      BY <1>a, <1>18 DEF RollbackUndoSync, Goto, NextRollback, ControlType, Position,
         PC, Final, StagePC, InstallPC, RollbackPC, RollbackWindow, Index
    <2>3. ArtifactType'
      BY <1>a, <1>18, <2>0 DEF ArtifactType, RollbackUndoSync
    <2>4. CounterType'
      BY <1>a, <1>18 DEF CounterType, RollbackUndoSync, Synced, SyncFails, Fault,
         Faults, NoFault
    <2>5. QED
      BY <2>1, <2>2, <2>3, <2>4
  <1>19. CASE RollbackUndoCheck
    <2>0. cur \in Index
      BY <1>a, <1>19 DEF ControlType, Position, StagePC, InstallPC, RollbackPC,
         RollbackWindow, Index, RollbackUndoCheck
    <2>1. DiskType'
      BY <1>a, <1>19, <2>0 DEF DiskType, Content, RollbackUndoCheck, RemoveOwned
    <2>2. (ControlType /\ Position)'
      BY <1>a, <1>19 DEF RollbackUndoCheck, Goto, NextRollback, RemoveOwned,
         ControlType, Position, PC, Final, StagePC, InstallPC, RollbackPC,
         RollbackWindow, Index
    <2>3. ArtifactType'
      BY <1>a, <1>19, <2>0 DEF ArtifactType, RollbackUndoCheck, RemoveOwned
    <2>4. CounterType'
      BY <1>a, <1>19 DEF CounterType, RollbackUndoCheck, RemoveOwned, Fault, Faults,
         NoFault
    <2>5. QED
      BY <2>1, <2>2, <2>3, <2>4
  <1>20. CASE RollbackDone
    <2>1. DiskType' /\ ArtifactType' /\ CounterType'
      BY <1>a, <1>20 DEF RollbackDone, DiskType, ArtifactType, CounterType, disk
    <2>2. (ControlType /\ Position)'
      BY <1>a, <1>20 DEF RollbackDone, Goto, ControlType, Position, PC, Final, StagePC,
         InstallPC, RollbackPC, RollbackWindow, Index
    <2>3. QED
      BY <2>1, <2>2
  <1>21. CASE Cleanup
    <2>0. cur \in Index
      BY <1>a, <1>21 DEF ControlType, Position, StagePC, InstallPC, RollbackPC,
         RollbackWindow, Index, Cleanup
    <2>1. DiskType'
      BY <1>a, <1>21, <2>0 DEF DiskType, Content, Cleanup, RemoveOwned
    <2>2. (ControlType /\ Position)'
      BY <1>a, <1>21 DEF Cleanup, Goto, RemoveOwned, ControlType, Position, PC, Final,
         StagePC, InstallPC, RollbackPC, RollbackWindow, Index
    <2>3. ArtifactType'
      BY <1>a, <1>21, <2>0 DEF ArtifactType, Cleanup, RemoveOwned
    <2>4. CounterType'
      BY <1>a, <1>21 DEF CounterType, Cleanup, RemoveOwned, Fault, Faults, NoFault
    <2>5. QED
      BY <2>1, <2>2, <2>3, <2>4
  <1>22. CASE CleanBackups
    <2>0. cur \in Index
      BY <1>a, <1>22 DEF ControlType, Position, StagePC, InstallPC, RollbackPC,
         RollbackWindow, Index, CleanBackups
    <2>1. DiskType'
      BY <1>a, <1>22, <2>0 DEF DiskType, Content, CleanBackups, RemoveOwned
    <2>2. (ControlType /\ Position)'
      BY <1>a, <1>22 DEF CleanBackups, Goto, RemoveOwned, ControlType, Position, PC,
         Final, StagePC, InstallPC, RollbackPC, RollbackWindow, Index
    <2>3. ArtifactType'
      BY <1>a, <1>22, <2>0 DEF ArtifactType, CleanBackups, RemoveOwned
    <2>4. CounterType'
      BY <1>a, <1>22 DEF CounterType, CleanBackups, RemoveOwned, Fault, Faults, NoFault
    <2>5. QED
      BY <2>1, <2>2, <2>3, <2>4
  <1>23. ASSUME NEW f \in Files, NEW content \in Edits \cup {"old", "gone"},
               ExternalWrite(f, content)
         PROVE  DiskType' /\ (ControlType /\ Position)' /\ ArtifactType' /\ CounterType'
    <2>1. DiskType'
      BY <1>a, <1>23 DEF DiskType, Content, ExternalWrite
    <2>2. (ControlType /\ Position)'
      BY <1>a, <1>23 DEF ControlType, Position, ExternalWrite
    <2>3. ArtifactType' /\ CounterType'
      BY <1>a, <1>23 DEF ArtifactType, CounterType, Content, ExternalWrite
    <2>4. QED
      BY <2>1, <2>2, <2>3
  <1>24. CASE Crash
    <2>1. DiskType'
      BY <1>a, <1>24 DEF DiskType, Crash
    <2>2. (ControlType /\ Position)'
      BY <1>a, <1>24 DEF Crash, ControlType, Position, PC, Final, StagePC, InstallPC,
         RollbackPC, RollbackWindow, Index
    <2>3. ArtifactType' /\ CounterType'
      BY <1>a, <1>24 DEF ArtifactType, CounterType, Crash
    <2>4. QED
      BY <2>1, <2>2, <2>3
  <1>25. CASE UNCHANGED writeVars
    BY <1>a, <1>25 DEF writeVars, DiskType, ControlType, Position, ArtifactType, CounterType
  <1>26. QED
    BY <1>1, <1>2, <1>3, <1>4, <1>5, <1>6, <1>7, <1>8, <1>9, <1>10, <1>11, <1>12, <1>13,
       <1>14, <1>15, <1>16, <1>17, <1>18, <1>19, <1>20, <1>21, <1>22, <1>23, <1>24,
       <1>25 DEF WriteNext, Writer

\* Every reachable state is well typed, whatever the number of files, edits and
\* faults: in particular the committed prefix and the loop index of `commit`,
\* `rollback` and the cleanup loops stay within the staged vector.
THEOREM Typing == WriteSpec => []WriteTypeOK
  <1>1. WriteSpec => []Control
    BY ControlInit, ControlStep, PTL DEF WriteSpec
  <1>2. Control => WriteTypeOK
    BY DEF Control
  <1>3. QED
    BY <1>1, <1>2, PTL
-----------------------------------------------------------------------------
(* External edits: what an exchange, a removal and a crash do to them. *)

\* The fixed contents are not edits (EditsAssumption).
LEMMA FixedNotEdits == \A c \in Fixed : c \notin Edits
  BY EditsAssumption

\* An exchange moves an edit between the two paths (atomic_exchange).
LEMMA SwapKeeps ==
  ASSUME NEW i \in Index, DiskType, NoLostEdit, Swap(i), UNCHANGED <<target, last>>
  PROVE  NoLostEdit'
  BY DEF DiskType, NoLostEdit, Swap, Staging

\* Rewriting or removing a staging path that holds no edit loses none
\* (create_staging_file, write_staged, remove_owned_file).
LEMMA RewriteKeeps ==
  ASSUME NEW i \in Index, NEW c, DiskType, NoLostEdit, temp[i] \notin Edits,
         temp' = [temp EXCEPT ![i] = c], UNCHANGED <<target, dest, last>>
  PROVE  NoLostEdit'
  BY DEF DiskType, NoLostEdit, Staging

\* A step that leaves the disk alone loses no edit.
LEMMA SameKeeps ==
  ASSUME NoLostEdit, UNCHANGED <<target, dest, temp, last>>
  PROVE  NoLostEdit'
  BY DEF NoLostEdit, Staging

\* remove_owned_file, whether it succeeds or not.
LEMMA RemoveKeeps ==
  ASSUME NEW i \in Index, NEW n, DiskType, NoLostEdit, temp[i] \notin Edits,
         RemoveOwned(i, n), UNCHANGED <<target, dest, last>>
  PROVE  NoLostEdit'
  BY RewriteKeeps, SameKeeps DEF RemoveOwned

-----------------------------------------------------------------------------
(* The inductive step *)

Bookkeeping == Ownership /\ NotYetStaged /\ OneUnsynced
Holdings == OwnedHoldsNew /\ BackupHoldsOld

\* Inv holds initially: nothing is staged and nobody has edited anything.
LEMMA InvInit == WriteInit => Inv
  <1> SUFFICES ASSUME WriteInit PROVE Inv
    OBVIOUS
  <1>1. WriteTypeOK /\ Position
    BY ControlInit DEF Control
  <1>2. Bookkeeping /\ Holdings
    BY DEF WriteInit, Bookkeeping, Holdings, Ownership, NotYetStaged, OneUnsynced,
       OwnedHoldsNew, BackupHoldsOld, StagePC, InstallPC, RollbackPC, RollbackWindow,
       Final
  <1>3. NoLostEdit
    BY FixedNotEdits DEF WriteInit, NoLostEdit, Fixed
  <1>4. QED
    BY <1>1, <1>2, <1>3 DEF Inv, Bookkeeping, Holdings

\* Inv is preserved by every step when no fsync fails after its rename.
LEMMA InvStep == ~SyncFaults /\ Inv /\ [WriteNext]_writeVars => Inv'
  <1> SUFFICES ASSUME ~SyncFaults, Inv, [WriteNext]_writeVars
               PROVE  Bookkeeping' /\ Holdings' /\ NoLostEdit'
    BY ControlStep DEF Inv, Control, Bookkeeping, Holdings
  <1>a. /\ DiskType /\ ControlType /\ ArtifactType /\ CounterType
        /\ Position /\ Bookkeeping /\ Holdings /\ NoLostEdit
    BY DEF Inv, WriteTypeOK, Bookkeeping, Holdings
  <1>b. "old" \notin Edits /\ "new" \notin Edits /\ "partial" \notin Edits /\ "gone" \notin Edits
    BY FixedNotEdits DEF Fixed
  <1> USE NAssumption
  <1>1. CASE Inspect
    <2>0. cur \in Index
      BY <1>a, <1>1 DEF ControlType, Position, StagePC, InstallPC, RollbackPC,
         RollbackWindow, Index, Inspect
    <2>1. Bookkeeping'
      BY <1>a, <1>1, <2>0 DEF Inspect, disk, Goto, DiskType, ControlType, Position,
         ArtifactType, Index, Bookkeeping, Ownership, NotYetStaged, OneUnsynced, SyncPC,
         Final, StagePC, InstallPC, InstallWindow, RollbackPC, RollbackWindow
    <2>2. Holdings'
      BY <1>a, <1>1, <2>0 DEF Inspect, disk, Goto, DiskType, ControlType, Position,
         Index, Ownership, NotYetStaged, Bookkeeping, Holdings, OwnedHoldsNew,
         BackupHoldsOld, Final, StagePC, InstallPC, InstallWindow, RollbackPC,
         RollbackWindow
    <2>3. NoLostEdit'
      BY <1>a, <1>1, SameKeeps DEF Inspect, disk
    <2>4. QED
      BY <2>1, <2>2, <2>3
  <1>2. CASE VerifyBeforeStage
    <2>0. cur \in Index
      BY <1>a, <1>2 DEF ControlType, Position, StagePC, InstallPC, RollbackPC,
         RollbackWindow, Index, VerifyBeforeStage
    <2>1. Bookkeeping'
      BY <1>a, <1>2, <2>0 DEF VerifyBeforeStage, disk, Goto, DiskType, ControlType,
         Position, ArtifactType, Index, Bookkeeping, Ownership, NotYetStaged,
         OneUnsynced, SyncPC, Final, StagePC, InstallPC, InstallWindow, RollbackPC,
         RollbackWindow
    <2>2. Holdings'
      BY <1>a, <1>2, <2>0 DEF VerifyBeforeStage, disk, Goto, DiskType, ControlType,
         Position, Index, Ownership, NotYetStaged, Bookkeeping, Holdings, OwnedHoldsNew,
         BackupHoldsOld, Final, StagePC, InstallPC, InstallWindow, RollbackPC,
         RollbackWindow
    <2>3. NoLostEdit'
      BY <1>a, <1>2, SameKeeps DEF VerifyBeforeStage, disk
    <2>4. QED
      BY <2>1, <2>2, <2>3
  <1>3. CASE CreateStagingFile
    <2>0. cur \in Index
      BY <1>a, <1>3 DEF ControlType, Position, StagePC, InstallPC, RollbackPC,
         RollbackWindow, Index, CreateStagingFile
    <2>1. Bookkeeping'
      BY <1>a, <1>3, <2>0 DEF CreateStagingFile, Goto, DiskType, ControlType, Position,
         ArtifactType, Index, Bookkeeping, Ownership, NotYetStaged, OneUnsynced, SyncPC,
         Final, StagePC, InstallPC, InstallWindow, RollbackPC, RollbackWindow
    <2>a. \A i \in Index : i # cur => temp'[i] = temp[i]
      BY <1>a, <1>3, <2>0 DEF CreateStagingFile, DiskType
    <2>b. OwnedHoldsNew'
      BY <1>a, <1>3, <2>0, <2>a DEF CreateStagingFile, Goto, ControlType, Position,
         ArtifactType, Index, Ownership, Bookkeeping, Holdings, OwnedHoldsNew, Final,
         StagePC, InstallPC, InstallWindow, RollbackPC, RollbackWindow
    <2>c. BackupHoldsOld'
      BY <1>a, <1>3, <2>0, <2>a DEF CreateStagingFile, Goto, ControlType, Position,
         Index, Holdings, BackupHoldsOld, StagePC, InstallPC, InstallWindow, RollbackPC,
         RollbackWindow
    <2>2. Holdings'
      BY <2>b, <2>c DEF Holdings
    <2>3. NoLostEdit'
      <3>1. temp[cur] \notin Edits
        BY <1>a, <1>b, <1>3, <2>0 DEF CreateStagingFile, Bookkeeping, NotYetStaged, Index
      <3>2. CASE temp' = [temp EXCEPT ![cur] = "partial"]
        BY <1>a, <1>3, <2>0, <3>1, <3>2, RewriteKeeps DEF CreateStagingFile
      <3>3. CASE UNCHANGED temp
        BY <1>a, <1>3, <3>3, SameKeeps DEF CreateStagingFile
      <3>4. QED
        BY <1>3, <3>2, <3>3 DEF CreateStagingFile
    <2>4. QED
      BY <2>1, <2>2, <2>3
  <1>4. CASE WriteStaged
    <2>0. cur \in Index
      BY <1>a, <1>4 DEF ControlType, Position, StagePC, InstallPC, RollbackPC,
         RollbackWindow, Index, WriteStaged
    <2>1. Bookkeeping'
      BY <1>a, <1>4, <2>0 DEF WriteStaged, Goto, DiskType, ControlType, Position,
         ArtifactType, Index, Bookkeeping, Ownership, NotYetStaged, OneUnsynced, SyncPC,
         Final, StagePC, InstallPC, InstallWindow, RollbackPC, RollbackWindow
    <2>2. Holdings'
      BY <1>a, <1>4, <2>0 DEF WriteStaged, Goto, DiskType, ControlType, Position, Index,
         Ownership, NotYetStaged, Bookkeeping, Holdings, OwnedHoldsNew, BackupHoldsOld,
         Final, StagePC, InstallPC, InstallWindow, RollbackPC, RollbackWindow
    <2>3. NoLostEdit'
      BY <1>a, <1>b, <1>4, <2>0, RewriteKeeps, SameKeeps DEF WriteStaged, Bookkeeping,
         NotYetStaged
    <2>4. QED
      BY <2>1, <2>2, <2>3
  <1>5. CASE StagingFails
    <2>0. cur \in Index
      BY <1>a, <1>5 DEF ControlType, Position, StagePC, InstallPC, RollbackPC,
         RollbackWindow, Index, StagingFails
    <2>1. Bookkeeping'
      BY <1>a, <1>5, <2>0 DEF StagingFails, RemoveOwned, Goto, DiskType, ControlType,
         Position, ArtifactType, Index, Bookkeeping, Ownership, NotYetStaged,
         OneUnsynced, SyncPC, Final, StagePC, InstallPC, InstallWindow, RollbackPC,
         RollbackWindow
    <2>a. \A i \in Index : i # cur => temp'[i] = temp[i]
      BY <1>a, <1>5, <2>0 DEF StagingFails, RemoveOwned, DiskType
    <2>b. OwnedHoldsNew'
      BY <1>a, <1>5, <2>0, <2>a DEF StagingFails, RemoveOwned, Goto, ControlType,
         Position, ArtifactType, Index, Ownership, Bookkeeping, Holdings, OwnedHoldsNew,
         Final, StagePC, InstallPC, InstallWindow, RollbackPC, RollbackWindow
    <2>c. BackupHoldsOld'
      BY <1>a, <1>5, <2>0, <2>a DEF StagingFails, RemoveOwned, Goto, ControlType,
         Position, Index, Holdings, BackupHoldsOld, StagePC, InstallPC, InstallWindow,
         RollbackPC, RollbackWindow
    <2>2. Holdings'
      BY <2>b, <2>c DEF Holdings
    <2>3. NoLostEdit'
      BY <1>a, <1>b, <1>5, <2>0, RemoveKeeps DEF StagingFails, Bookkeeping, NotYetStaged
    <2>4. QED
      BY <2>1, <2>2, <2>3
  <1>6. CASE LateVerify
    <2>0. cur \in Index
      BY <1>a, <1>6 DEF ControlType, Position, StagePC, InstallPC, RollbackPC,
         RollbackWindow, Index, LateVerify
    <2>1. Bookkeeping'
      BY <1>a, <1>6, <2>0 DEF LateVerify, disk, Goto, FailCommit, DiskType, ControlType,
         Position, ArtifactType, Index, Bookkeeping, Ownership, NotYetStaged,
         OneUnsynced, SyncPC, Final, StagePC, InstallPC, InstallWindow, RollbackPC,
         RollbackWindow
    <2>2. Holdings'
      BY <1>a, <1>6, <2>0 DEF LateVerify, disk, Goto, FailCommit, DiskType, ControlType,
         Position, Index, Ownership, NotYetStaged, Bookkeeping, Holdings, OwnedHoldsNew,
         BackupHoldsOld, Final, StagePC, InstallPC, InstallWindow, RollbackPC,
         RollbackWindow
    <2>3. NoLostEdit'
      BY <1>a, <1>6, SameKeeps DEF LateVerify, disk
    <2>4. QED
      BY <2>1, <2>2, <2>3
  <1>7. CASE Install
    <2>0. cur \in Index
      BY <1>a, <1>7 DEF ControlType, Position, StagePC, InstallPC, RollbackPC,
         RollbackWindow, Index, Install
    <2>1. Bookkeeping'
      BY <1>a, <1>7, <2>0 DEF Install, Swap, SwapFails, disk, Goto, FailCommit,
         DiskType, ControlType, Position, ArtifactType, Index, Bookkeeping, Ownership,
         NotYetStaged, OneUnsynced, SyncPC, Final, StagePC, InstallPC, InstallWindow,
         RollbackPC, RollbackWindow
    <2>a. \A i \in Index : i # cur => temp'[i] = temp[i]
      BY <1>a, <1>7, <2>0 DEF Install, Swap, SwapFails, disk, DiskType
    <2>b. OwnedHoldsNew'
      BY <1>a, <1>7, <2>0, <2>a DEF Install, Goto, FailCommit, Swap, SwapFails, disk,
         ControlType, Position, ArtifactType, Index, Ownership, Bookkeeping, Holdings,
         OwnedHoldsNew, Final, StagePC, InstallPC, InstallWindow, RollbackPC,
         RollbackWindow
    <2>c. BackupHoldsOld'
      BY <1>a, <1>7, <2>0, <2>a DEF Install, Goto, FailCommit, Swap, SwapFails, disk,
         ControlType, Position, Index, Holdings, BackupHoldsOld, StagePC, InstallPC,
         InstallWindow, RollbackPC, RollbackWindow
    <2>2. Holdings'
      BY <2>b, <2>c DEF Holdings
    <2>3. NoLostEdit'
      BY <1>a, <1>7, <2>0, SwapKeeps, SameKeeps DEF Install, SwapFails, disk
    <2>4. QED
      BY <2>1, <2>2, <2>3
  <1>8. CASE InstallSync
    <2>0. cur \in Index
      BY <1>a, <1>8 DEF ControlType, Position, StagePC, InstallPC, RollbackPC,
         RollbackWindow, Index, InstallSync
    <2>1. Bookkeeping'
      BY <1>a, <1>8, <2>0 DEF InstallSync, Synced, SyncFails, disk, Goto, FailCommit,
         DiskType, ControlType, Position, ArtifactType, Index, Bookkeeping, Ownership,
         NotYetStaged, OneUnsynced, SyncPC, Final, StagePC, InstallPC, InstallWindow,
         RollbackPC, RollbackWindow
    <2>2. Holdings'
      BY <1>a, <1>8, <2>0 DEF InstallSync, Synced, SyncFails, disk, Goto, FailCommit,
         DiskType, ControlType, Position, Index, Ownership, NotYetStaged, Bookkeeping,
         Holdings, OwnedHoldsNew, BackupHoldsOld, Final, StagePC, InstallPC,
         InstallWindow, RollbackPC, RollbackWindow
    <2>3. NoLostEdit'
      BY <1>a, <1>8, SameKeeps DEF InstallSync, Synced, SyncFails, disk
    <2>4. QED
      BY <2>1, <2>2, <2>3
  <1>9. CASE CheckInstall
    <2>0. cur \in Index
      BY <1>a, <1>9 DEF ControlType, Position, StagePC, InstallPC, RollbackPC,
         RollbackWindow, Index, CheckInstall
    <2>1. Bookkeeping'
      <3>a. /\ committed = cur - 1 /\ cur \in 1..N /\ N \in Nat
            /\ \A i \in owned : i \in 1..N /\ i > committed
        BY <1>a, <1>9, <2>0 DEF CheckInstall, Position, ArtifactType, Index,
           Bookkeeping, Ownership, InstallPC
      <3>b. \/ /\ committed' = cur
               /\ owned' = owned \ {cur}
               /\ pc' = "late" \/ (pc' = "cleanBackups" /\ cur = N)
            \/ committed' = committed /\ owned' = owned /\ pc' = "undo"
        BY <1>9, <3>a DEF CheckInstall, Goto
      <3>c. \A i \in owned' : i \in 1..N /\ i > committed'
        BY <3>a, <3>b
      <3>1. Ownership'
        BY <3>a, <3>b, <3>c DEF Ownership, StagePC, InstallPC, RollbackPC, RollbackWindow
      <3>2. NotYetStaged' /\ OneUnsynced'
        BY <1>a, <1>9, <2>0 DEF CheckInstall, Goto, disk, Bookkeeping, NotYetStaged,
           OneUnsynced, SyncPC, Final
      <3>3. QED
        BY <3>1, <3>2 DEF Bookkeeping
    <2>2. Holdings'
      BY <1>a, <1>9, <2>0 DEF CheckInstall, disk, Goto, DiskType, ControlType, Position,
         Index, Ownership, NotYetStaged, Bookkeeping, Holdings, OwnedHoldsNew,
         BackupHoldsOld, Final, StagePC, InstallPC, InstallWindow, RollbackPC,
         RollbackWindow
    <2>3. NoLostEdit'
      BY <1>a, <1>9, SameKeeps DEF CheckInstall, disk
    <2>4. QED
      BY <2>1, <2>2, <2>3
  <1>10. CASE Undo
    <2>0. cur \in Index
      BY <1>a, <1>10 DEF ControlType, Position, StagePC, InstallPC, RollbackPC,
         RollbackWindow, Index, Undo
    <2>1. Bookkeeping'
      BY <1>a, <1>10, <2>0 DEF Undo, Swap, SwapFails, disk, Goto, FailCommit,
         Relinquish, DiskType, ControlType, Position, ArtifactType, Index, Bookkeeping,
         Ownership, NotYetStaged, OneUnsynced, SyncPC, Final, StagePC, InstallPC,
         InstallWindow, RollbackPC, RollbackWindow
    <2>a. \A i \in Index : i # cur => temp'[i] = temp[i]
      BY <1>a, <1>10, <2>0 DEF Undo, Swap, SwapFails, disk, DiskType
    <2>b. OwnedHoldsNew'
      BY <1>a, <1>10, <2>0, <2>a DEF Undo, Goto, FailCommit, Relinquish, Swap,
         SwapFails, disk, ControlType, Position, ArtifactType, Index, Ownership,
         Bookkeeping, Holdings, OwnedHoldsNew, Final, StagePC, InstallPC, InstallWindow,
         RollbackPC, RollbackWindow
    <2>c. BackupHoldsOld'
      BY <1>a, <1>10, <2>0, <2>a DEF Undo, Goto, FailCommit, Relinquish, Swap,
         SwapFails, disk, ControlType, Position, Index, Holdings, BackupHoldsOld,
         StagePC, InstallPC, InstallWindow, RollbackPC, RollbackWindow
    <2>2. Holdings'
      BY <2>b, <2>c DEF Holdings
    <2>3. NoLostEdit'
      BY <1>a, <1>10, <2>0, SwapKeeps, SameKeeps DEF Undo, SwapFails, disk
    <2>4. QED
      BY <2>1, <2>2, <2>3
  <1>11. CASE UndoSync
    <2>0. cur \in Index
      BY <1>a, <1>11 DEF ControlType, Position, StagePC, InstallPC, RollbackPC,
         RollbackWindow, Index, UndoSync
    <2>1. Bookkeeping'
      BY <1>a, <1>11, <2>0 DEF UndoSync, Synced, SyncFails, disk, Goto, FailCommit,
         Relinquish, DiskType, ControlType, Position, ArtifactType, Index, Bookkeeping,
         Ownership, NotYetStaged, OneUnsynced, SyncPC, Final, StagePC, InstallPC,
         InstallWindow, RollbackPC, RollbackWindow
    <2>2. Holdings'
      BY <1>a, <1>11, <2>0 DEF UndoSync, Synced, SyncFails, disk, Goto, FailCommit,
         Relinquish, DiskType, ControlType, Position, Index, Ownership, NotYetStaged,
         Bookkeeping, Holdings, OwnedHoldsNew, BackupHoldsOld, Final, StagePC,
         InstallPC, InstallWindow, RollbackPC, RollbackWindow
    <2>3. NoLostEdit'
      BY <1>a, <1>11, SameKeeps DEF UndoSync, Synced, SyncFails, disk
    <2>4. QED
      BY <2>1, <2>2, <2>3
  <1>12. CASE UndoCheck
    <2>0. cur \in Index
      BY <1>a, <1>12 DEF ControlType, Position, StagePC, InstallPC, RollbackPC,
         RollbackWindow, Index, UndoCheck
    <2>1. Bookkeeping'
      BY <1>a, <1>12, <2>0 DEF UndoCheck, disk, Goto, FailCommit, Relinquish, DiskType,
         ControlType, Position, ArtifactType, Index, Bookkeeping, Ownership,
         NotYetStaged, OneUnsynced, SyncPC, Final, StagePC, InstallPC, InstallWindow,
         RollbackPC, RollbackWindow
    <2>2. Holdings'
      BY <1>a, <1>12, <2>0 DEF UndoCheck, disk, Goto, FailCommit, Relinquish, DiskType,
         ControlType, Position, Index, Ownership, NotYetStaged, Bookkeeping, Holdings,
         OwnedHoldsNew, BackupHoldsOld, Final, StagePC, InstallPC, InstallWindow,
         RollbackPC, RollbackWindow
    <2>3. NoLostEdit'
      BY <1>a, <1>12, SameKeeps DEF UndoCheck, disk
    <2>4. QED
      BY <2>1, <2>2, <2>3
  <1>13. CASE RollbackVerify
    <2>0. cur \in Index
      BY <1>a, <1>13 DEF ControlType, Position, StagePC, InstallPC, RollbackPC,
         RollbackWindow, Index, RollbackVerify
    <2>1. Bookkeeping'
      BY <1>a, <1>13, <2>0 DEF RollbackVerify, RemoveOwned, Goto, NextRollback,
         DiskType, ControlType, Position, ArtifactType, Index, Bookkeeping, Ownership,
         NotYetStaged, OneUnsynced, SyncPC, Final, StagePC, InstallPC, InstallWindow,
         RollbackPC, RollbackWindow
    <2>a. \A i \in Index : i # cur => temp'[i] = temp[i]
      BY <1>a, <1>13, <2>0 DEF RollbackVerify, RemoveOwned, DiskType
    <2>b. OwnedHoldsNew'
      BY <1>a, <1>13, <2>0, <2>a DEF RollbackVerify, RemoveOwned, Goto, NextRollback,
         ControlType, Position, ArtifactType, Index, Ownership, Bookkeeping, Holdings,
         OwnedHoldsNew, Final, StagePC, InstallPC, InstallWindow, RollbackPC,
         RollbackWindow
    <2>c. BackupHoldsOld'
      BY <1>a, <1>13, <2>0, <2>a DEF RollbackVerify, RemoveOwned, Goto, NextRollback,
         ControlType, Position, Index, Holdings, BackupHoldsOld, StagePC, InstallPC,
         InstallWindow, RollbackPC, RollbackWindow
    <2>2. Holdings'
      BY <2>b, <2>c DEF Holdings
    <2>3. NoLostEdit'
      BY <1>a, <1>b, <1>13, <2>0, RemoveKeeps, SameKeeps DEF RollbackVerify, Holdings,
         BackupHoldsOld, Position, ControlType, Index, RollbackPC
    <2>4. QED
      BY <2>1, <2>2, <2>3
  <1>14. CASE RollbackExchange
    <2>0. cur \in Index
      BY <1>a, <1>14 DEF ControlType, Position, StagePC, InstallPC, RollbackPC,
         RollbackWindow, Index, RollbackExchange
    <2>1. Bookkeeping'
      BY <1>a, <1>14, <2>0 DEF RollbackExchange, Swap, SwapFails, disk, Goto,
         NextRollback, DiskType, ControlType, Position, ArtifactType, Index,
         Bookkeeping, Ownership, NotYetStaged, OneUnsynced, SyncPC, Final, StagePC,
         InstallPC, InstallWindow, RollbackPC, RollbackWindow
    <2>a. \A i \in Index : i # cur => temp'[i] = temp[i]
      BY <1>a, <1>14, <2>0 DEF RollbackExchange, Swap, SwapFails, disk, DiskType
    <2>b. OwnedHoldsNew'
      BY <1>a, <1>14, <2>0, <2>a DEF RollbackExchange, Goto, NextRollback, Swap,
         SwapFails, disk, ControlType, Position, ArtifactType, Index, Ownership,
         Bookkeeping, Holdings, OwnedHoldsNew, Final, StagePC, InstallPC, InstallWindow,
         RollbackPC, RollbackWindow
    <2>c. BackupHoldsOld'
      BY <1>a, <1>14, <2>0, <2>a DEF RollbackExchange, Goto, NextRollback, Swap,
         SwapFails, disk, ControlType, Position, Index, Holdings, BackupHoldsOld,
         StagePC, InstallPC, InstallWindow, RollbackPC, RollbackWindow
    <2>2. Holdings'
      BY <2>b, <2>c DEF Holdings
    <2>3. NoLostEdit'
      BY <1>a, <1>14, <2>0, SwapKeeps, SameKeeps DEF RollbackExchange, SwapFails, disk
    <2>4. QED
      BY <2>1, <2>2, <2>3
  <1>15. CASE RollbackSync
    <2>0. cur \in Index
      BY <1>a, <1>15 DEF ControlType, Position, StagePC, InstallPC, RollbackPC,
         RollbackWindow, Index, RollbackSync
    <2>1. Bookkeeping'
      BY <1>a, <1>15, <2>0 DEF RollbackSync, Synced, SyncFails, disk, Goto,
         NextRollback, DiskType, ControlType, Position, ArtifactType, Index,
         Bookkeeping, Ownership, NotYetStaged, OneUnsynced, SyncPC, Final, StagePC,
         InstallPC, InstallWindow, RollbackPC, RollbackWindow
    <2>2. Holdings'
      BY <1>a, <1>15, <2>0 DEF RollbackSync, Synced, SyncFails, disk, Goto,
         NextRollback, DiskType, ControlType, Position, Index, Ownership, NotYetStaged,
         Bookkeeping, Holdings, OwnedHoldsNew, BackupHoldsOld, Final, StagePC,
         InstallPC, InstallWindow, RollbackPC, RollbackWindow
    <2>3. NoLostEdit'
      BY <1>a, <1>15, SameKeeps DEF RollbackSync, Synced, SyncFails, disk
    <2>4. QED
      BY <2>1, <2>2, <2>3
  <1>16. CASE RollbackCheck
    <2>0. cur \in Index
      BY <1>a, <1>16 DEF ControlType, Position, StagePC, InstallPC, RollbackPC,
         RollbackWindow, Index, RollbackCheck
    <2>1. Bookkeeping'
      BY <1>a, <1>16, <2>0 DEF RollbackCheck, RemoveOwned, Goto, NextRollback, DiskType,
         ControlType, Position, ArtifactType, Index, Bookkeeping, Ownership,
         NotYetStaged, OneUnsynced, SyncPC, Final, StagePC, InstallPC, InstallWindow,
         RollbackPC, RollbackWindow
    <2>a. \A i \in Index : i # cur => temp'[i] = temp[i]
      BY <1>a, <1>16, <2>0 DEF RollbackCheck, RemoveOwned, DiskType
    <2>b. OwnedHoldsNew'
      BY <1>a, <1>16, <2>0, <2>a DEF RollbackCheck, RemoveOwned, Goto, NextRollback,
         ControlType, Position, ArtifactType, Index, Ownership, Bookkeeping, Holdings,
         OwnedHoldsNew, Final, StagePC, InstallPC, InstallWindow, RollbackPC,
         RollbackWindow
    <2>c. BackupHoldsOld'
      BY <1>a, <1>16, <2>0, <2>a DEF RollbackCheck, RemoveOwned, Goto, NextRollback,
         ControlType, Position, Index, Holdings, BackupHoldsOld, StagePC, InstallPC,
         InstallWindow, RollbackPC, RollbackWindow
    <2>2. Holdings'
      BY <2>b, <2>c DEF Holdings
    <2>3. NoLostEdit'
      BY <1>a, <1>b, <1>16, <2>0, RemoveKeeps, SameKeeps DEF RollbackCheck
    <2>4. QED
      BY <2>1, <2>2, <2>3
  <1>17. CASE RollbackUndo
    <2>0. cur \in Index
      BY <1>a, <1>17 DEF ControlType, Position, StagePC, InstallPC, RollbackPC,
         RollbackWindow, Index, RollbackUndo
    <2>1. Bookkeeping'
      BY <1>a, <1>17, <2>0 DEF RollbackUndo, Swap, SwapFails, disk, Goto, NextRollback,
         DiskType, ControlType, Position, ArtifactType, Index, Bookkeeping, Ownership,
         NotYetStaged, OneUnsynced, SyncPC, Final, StagePC, InstallPC, InstallWindow,
         RollbackPC, RollbackWindow
    <2>a. \A i \in Index : i # cur => temp'[i] = temp[i]
      BY <1>a, <1>17, <2>0 DEF RollbackUndo, Swap, SwapFails, disk, DiskType
    <2>b. OwnedHoldsNew'
      BY <1>a, <1>17, <2>0, <2>a DEF RollbackUndo, Goto, NextRollback, Swap, SwapFails,
         disk, ControlType, Position, ArtifactType, Index, Ownership, Bookkeeping,
         Holdings, OwnedHoldsNew, Final, StagePC, InstallPC, InstallWindow, RollbackPC,
         RollbackWindow
    <2>c. BackupHoldsOld'
      BY <1>a, <1>17, <2>0, <2>a DEF RollbackUndo, Goto, NextRollback, Swap, SwapFails,
         disk, ControlType, Position, Index, Holdings, BackupHoldsOld, StagePC,
         InstallPC, InstallWindow, RollbackPC, RollbackWindow
    <2>2. Holdings'
      BY <2>b, <2>c DEF Holdings
    <2>3. NoLostEdit'
      BY <1>a, <1>17, <2>0, SwapKeeps, SameKeeps DEF RollbackUndo, SwapFails, disk
    <2>4. QED
      BY <2>1, <2>2, <2>3
  <1>18. CASE RollbackUndoSync
    <2>0. cur \in Index
      BY <1>a, <1>18 DEF ControlType, Position, StagePC, InstallPC, RollbackPC,
         RollbackWindow, Index, RollbackUndoSync
    <2>1. Bookkeeping'
      BY <1>a, <1>18, <2>0 DEF RollbackUndoSync, Synced, SyncFails, disk, Goto,
         NextRollback, DiskType, ControlType, Position, ArtifactType, Index,
         Bookkeeping, Ownership, NotYetStaged, OneUnsynced, SyncPC, Final, StagePC,
         InstallPC, InstallWindow, RollbackPC, RollbackWindow
    <2>2. Holdings'
      BY <1>a, <1>18, <2>0 DEF RollbackUndoSync, Synced, SyncFails, disk, Goto,
         NextRollback, DiskType, ControlType, Position, Index, Ownership, NotYetStaged,
         Bookkeeping, Holdings, OwnedHoldsNew, BackupHoldsOld, Final, StagePC,
         InstallPC, InstallWindow, RollbackPC, RollbackWindow
    <2>3. NoLostEdit'
      BY <1>a, <1>18, SameKeeps DEF RollbackUndoSync, Synced, SyncFails, disk
    <2>4. QED
      BY <2>1, <2>2, <2>3
  <1>19. CASE RollbackUndoCheck
    <2>0. cur \in Index
      BY <1>a, <1>19 DEF ControlType, Position, StagePC, InstallPC, RollbackPC,
         RollbackWindow, Index, RollbackUndoCheck
    <2>1. Bookkeeping'
      BY <1>a, <1>19, <2>0 DEF RollbackUndoCheck, RemoveOwned, Goto, NextRollback,
         DiskType, ControlType, Position, ArtifactType, Index, Bookkeeping, Ownership,
         NotYetStaged, OneUnsynced, SyncPC, Final, StagePC, InstallPC, InstallWindow,
         RollbackPC, RollbackWindow
    <2>a. \A i \in Index : i # cur => temp'[i] = temp[i]
      BY <1>a, <1>19, <2>0 DEF RollbackUndoCheck, RemoveOwned, DiskType
    <2>b. OwnedHoldsNew'
      BY <1>a, <1>19, <2>0, <2>a DEF RollbackUndoCheck, RemoveOwned, Goto, NextRollback,
         ControlType, Position, ArtifactType, Index, Ownership, Bookkeeping, Holdings,
         OwnedHoldsNew, Final, StagePC, InstallPC, InstallWindow, RollbackPC,
         RollbackWindow
    <2>c. BackupHoldsOld'
      BY <1>a, <1>19, <2>0, <2>a DEF RollbackUndoCheck, RemoveOwned, Goto, NextRollback,
         ControlType, Position, Index, Holdings, BackupHoldsOld, StagePC, InstallPC,
         InstallWindow, RollbackPC, RollbackWindow
    <2>2. Holdings'
      BY <2>b, <2>c DEF Holdings
    <2>3. NoLostEdit'
      BY <1>a, <1>b, <1>19, <2>0, RemoveKeeps, SameKeeps DEF RollbackUndoCheck
    <2>4. QED
      BY <2>1, <2>2, <2>3
  <1>20. CASE RollbackDone
    <2>1. Bookkeeping'
      BY <1>a, <1>20 DEF RollbackDone, disk, Goto, DiskType, ControlType, Position,
         ArtifactType, Index, Bookkeeping, Ownership, NotYetStaged, OneUnsynced, SyncPC,
         Final, StagePC, InstallPC, InstallWindow, RollbackPC, RollbackWindow
    <2>2. Holdings'
      BY <1>a, <1>20 DEF RollbackDone, disk, Goto, DiskType, ControlType, Position,
         Index, Ownership, NotYetStaged, Bookkeeping, Holdings, OwnedHoldsNew,
         BackupHoldsOld, Final, StagePC, InstallPC, InstallWindow, RollbackPC,
         RollbackWindow
    <2>3. NoLostEdit'
      BY <1>a, <1>20, SameKeeps DEF RollbackDone, disk
    <2>4. QED
      BY <2>1, <2>2, <2>3
  <1>21. CASE Cleanup
    <2>0. cur \in Index
      BY <1>a, <1>21 DEF ControlType, Position, StagePC, InstallPC, RollbackPC,
         RollbackWindow, Index, Cleanup
    <2>1. Bookkeeping'
      BY <1>a, <1>21, <2>0 DEF Cleanup, RemoveOwned, Goto, DiskType, ControlType,
         Position, ArtifactType, Index, Bookkeeping, Ownership, NotYetStaged,
         OneUnsynced, SyncPC, Final, StagePC, InstallPC, InstallWindow, RollbackPC,
         RollbackWindow
    <2>a. \A i \in Index : i # cur => temp'[i] = temp[i]
      BY <1>a, <1>21, <2>0 DEF Cleanup, RemoveOwned, DiskType
    <2>b. OwnedHoldsNew'
      BY <1>a, <1>21, <2>0, <2>a DEF Cleanup, RemoveOwned, Goto, ControlType, Position,
         ArtifactType, Index, Ownership, Bookkeeping, Holdings, OwnedHoldsNew, Final,
         StagePC, InstallPC, InstallWindow, RollbackPC, RollbackWindow
    <2>c. BackupHoldsOld'
      BY <1>a, <1>21, <2>0, <2>a DEF Cleanup, RemoveOwned, Goto, ControlType, Position,
         Index, Holdings, BackupHoldsOld, StagePC, InstallPC, InstallWindow, RollbackPC,
         RollbackWindow
    <2>2. Holdings'
      BY <2>b, <2>c DEF Holdings
    <2>3. NoLostEdit'
      BY <1>a, <1>b, <1>21, <2>0, RemoveKeeps, SameKeeps DEF Cleanup, Holdings,
         OwnedHoldsNew, InstallWindow, Final
    <2>4. QED
      BY <2>1, <2>2, <2>3
  <1>22. CASE CleanBackups
    <2>0. cur \in Index
      BY <1>a, <1>22 DEF ControlType, Position, StagePC, InstallPC, RollbackPC,
         RollbackWindow, Index, CleanBackups
    <2>1. Bookkeeping'
      BY <1>a, <1>22, <2>0 DEF CleanBackups, RemoveOwned, Goto, DiskType, ControlType,
         Position, ArtifactType, Index, Bookkeeping, Ownership, NotYetStaged,
         OneUnsynced, SyncPC, Final, StagePC, InstallPC, InstallWindow, RollbackPC,
         RollbackWindow
    <2>2. Holdings'
      BY <1>a, <1>22, <2>0 DEF CleanBackups, RemoveOwned, Goto, DiskType, ControlType,
         Position, Index, Ownership, NotYetStaged, Bookkeeping, Holdings, OwnedHoldsNew,
         BackupHoldsOld, Final, StagePC, InstallPC, InstallWindow, RollbackPC,
         RollbackWindow
    <2>3. NoLostEdit'
      BY <1>a, <1>b, <1>22, <2>0, RemoveKeeps, SameKeeps DEF CleanBackups, Holdings,
         BackupHoldsOld, Position, ControlType, Index, RollbackPC
    <2>4. QED
      BY <2>1, <2>2, <2>3
  <1>23. ASSUME NEW f \in Files, NEW content \in Edits \cup {"old", "gone"},
               ExternalWrite(f, content)
         PROVE  Bookkeeping' /\ Holdings' /\ NoLostEdit'
    <2>1. Bookkeeping' /\ Holdings'
      BY <1>a, <1>23 DEF ExternalWrite, Bookkeeping, Ownership, NotYetStaged,
         OneUnsynced, Holdings, OwnedHoldsNew, BackupHoldsOld
    <2>2. NoLostEdit'
      <3> SUFFICES ASSUME NEW g \in Files, last'[g] \in Edits
                   PROVE  dest'[g] = last'[g] \/ \E i \in Staging(g)' : temp'[i] = last'[g]
        BY DEF NoLostEdit
      <3>1. CASE g = f
        BY <1>a, <1>23, <3>1 DEF ExternalWrite, DiskType, CounterType
      <3>2. CASE g # f
        BY <1>a, <1>23, <3>2 DEF ExternalWrite, NoLostEdit, Staging, DiskType, CounterType
      <3>3. QED
        BY <3>1, <3>2
    <2>3. QED
      BY <2>1, <2>2
  <1>24. CASE Crash
    <2>1. Bookkeeping' /\ Holdings'
      BY <1>24 DEF Crash, Bookkeeping, Ownership, NotYetStaged, OneUnsynced, SyncPC,
         Final, StagePC, InstallPC, InstallWindow, RollbackPC, RollbackWindow, Holdings,
         OwnedHoldsNew, BackupHoldsOld
    <2>2. PICK lost \in SUBSET unsynced :
            /\ dest' = [f \in Files |->
                          IF \E i \in lost : target[i] = f
                          THEN temp[CHOOSE i \in lost : target[i] = f] ELSE dest[f]]
            /\ temp' = [i \in Index |-> IF i \in lost THEN dest[target[i]] ELSE temp[i]]
      BY <1>24 DEF Crash
    <2>a. unsynced \subseteq {cur} /\ unsynced \subseteq Index
      BY <1>a, <1>24 DEF Crash, Bookkeeping, OneUnsynced, DiskType
    <2>3. lost = {} \/ (lost = {cur} /\ cur \in Index)
      BY <2>2, <2>a
    <2>4. UNCHANGED <<target, last>>
      BY <1>24 DEF Crash
    <2>5. CASE lost = {}
      <3> SUFFICES ASSUME NEW g \in Files, last[g] \in Edits
                   PROVE  dest'[g] = last[g] \/ \E i \in Staging(g) : temp'[i] = last[g]
        BY <2>1, <2>4 DEF NoLostEdit, Staging
      <3>1. \A f \in Files : dest'[f] = dest[f]
        BY <2>2, <2>5
      <3>2. \A i \in Index : temp'[i] = temp[i]
        BY <2>2, <2>5
      <3>3. QED
        BY <1>a, <3>1, <3>2 DEF NoLostEdit, Staging
    <2>6. CASE lost = {cur} /\ cur \in Index
      <3> SUFFICES ASSUME NEW g \in Files, last[g] \in Edits
                   PROVE  dest'[g] = last[g] \/ \E i \in Staging(g) : temp'[i] = last[g]
        BY <2>1, <2>4 DEF NoLostEdit, Staging
      <3>1. \A f \in Files : dest'[f] = IF target[cur] = f THEN temp[cur] ELSE dest[f]
        BY <2>2, <2>6
      <3>2. \A i \in Index : temp'[i] = IF i = cur THEN dest[target[i]] ELSE temp[i]
        BY <2>2, <2>6
      <3>3. CASE dest[g] = last[g]
        BY <1>a, <2>6, <3>1, <3>2, <3>3 DEF Staging, DiskType
      <3>4. ASSUME NEW i \in Staging(g), temp[i] = last[g]
            PROVE  dest'[g] = last[g] \/ \E k \in Staging(g) : temp'[k] = last[g]
        BY <2>6, <3>1, <3>2, <3>4 DEF Staging
      <3>5. QED
        BY <1>a, <3>3, <3>4 DEF NoLostEdit
    <2>7. QED
      BY <2>1, <2>3, <2>5, <2>6
  <1>25. CASE UNCHANGED writeVars
    BY <1>a, <1>25, SameKeeps DEF writeVars, Bookkeeping, Ownership, NotYetStaged,
       OneUnsynced, Holdings, OwnedHoldsNew, BackupHoldsOld
  <1>26. QED
    BY <1>1, <1>2, <1>3, <1>4, <1>5, <1>6, <1>7, <1>8, <1>9, <1>10, <1>11, <1>12, <1>13,
       <1>14, <1>15, <1>16, <1>17, <1>18, <1>19, <1>20, <1>21, <1>22, <1>23, <1>24,
       <1>25 DEF WriteNext, Writer

\* For every run, every file set and every interleaving of edits, I/O faults
\* and crashes, the last external edit of a destination stays on disk, provided
\* the directory fsync of atomic_exchange never fails after its rename.
THEOREM EditsSurvive == ~SyncFaults => (WriteSpec => []NoLostEdit)
  <1> SUFFICES ASSUME ~SyncFaults PROVE WriteSpec => []NoLostEdit
    OBVIOUS
  <1>1. Inv /\ [WriteNext]_writeVars => Inv'
    BY InvStep
  <1>2. WriteSpec => []Inv
    BY <1>1, InvInit, PTL DEF WriteSpec
  <1>3. Inv => NoLostEdit
    BY DEF Inv
  <1>4. QED
    BY <1>2, <1>3, PTL

-----------------------------------------------------------------------------
(* The inductive invariants *)

Untouched(i) == last[target[i]] = "untouched"

\* What the staging loop has finished is the run's own until it is installed.
StagedOwned ==
  /\ pc \in StagePC => \A i \in 1..(cur - 1) : i \in owned
  /\ pc \in InstallPC => \A i \in cur..N : i \in owned

\* clean_staged_replacements walks forward and drops what it has passed.
OwnedAhead ==
  /\ pc = "cleanup" => \A i \in owned : i >= cur
  /\ pc \in {"ok", "error"} => owned = {}

\* A later step of the program removes or names the staging file of i.
Pending(i) ==
  \/ i \in owned
  \/ pc = "write" /\ i = cur
  \/ pc \in InstallPC /\ i <= committed
  \/ pc \in RollbackPC /\ i <= cur
  \/ pc = "cleanBackups" /\ i >= cur

Accounted ==
  pc # "crashed" =>
    \A i \in Index : temp[i] = "gone" \/ i \in named \cup badUndo \/ Pending(i)

Ledger == Ownership /\ StagedOwned /\ OwnedAhead /\ Accounted

\* The duplicate-destination check separates the targets staged so far.
DistinctTargets ==
  /\ pc = "inspect" => \A i, j \in 1..(cur - 1) : target[i] = target[j] => i = j
  /\ pc \in {"verify", "create", "write"} =>
       \A i, j \in 1..cur : target[i] = target[j] => i = j
  /\ pc \in InstallPC \cup RollbackPC \cup {"cleanBackups"} =>
       \A i, j \in Index : target[i] = target[j] => i = j

\* The exchange of i has happened and has not been taken back.
InstalledNow(i) ==
  \/ pc \in InstallPC /\ i <= committed
  \/ pc \in {"installSync", "check", "undo"} /\ i = cur
  \/ pc \in RollbackPC /\ i < cur
  \/ pc \in {"rbVerify", "rbExchange"} /\ i = cur
  \/ pc = "cleanBackups"

\* Where nobody else wrote and no restoration failed, the destination holds
\* what the program believes it holds.
Placement ==
  pc \notin Final =>
    \A i \in Index :
      Untouched(i) /\ i \notin badUndo =>
        dest[target[i]] = IF InstalledNow(i) THEN "new" ELSE "old"

\* The other side of the exchange under way.
Displaced ==
  /\ pc \in {"installSync", "check", "undo"} /\ Untouched(cur) /\ cur \notin badUndo
       => temp[cur] = "old"
  /\ pc \in {"rbSync", "rbCheck"} /\ Untouched(cur) /\ cur \notin badUndo
       => temp[cur] = "new"
  /\ pc \in {"rbUndo", "rbUndoSync", "rbUndoCheck"} => ~Untouched(cur) \/ cur \in badUndo

\* What an exchange or a crash may bring to the destination is a whole text.
WholeTexts ==
  pc \in InstallWindow \cup RollbackWindow =>
    /\ temp[cur] # "partial"
    /\ Untouched(cur) => temp[cur] \in {"old", "new"}

Outcome ==
  /\ DistinctTargets
  /\ Placement
  /\ Displaced
  /\ WholeTexts
  /\ OldOrNew
  /\ HandledFailureRestores

-----------------------------------------------------------------------------
(* Frames *)

\* In every phase but the end of the rollback loop, cur names a replacement.
LEMMA CurrentIndex ==
  ASSUME Control, pc \notin Final, pc = "rbVerify" => cur > 0
  PROVE  cur \in Index
  BY NAssumption DEF Control, WriteTypeOK, ControlType, Position, PC, Final, StagePC,
     InstallPC, RollbackPC, RollbackWindow, Index

\* A step of the writer touches no staging path and no destination but those of
\* the replacement it is working on.
LEMMA WriterFrame ==
  ASSUME Control, Writer
  PROVE  /\ UNCHANGED <<target, last>>
         /\ pc \notin Final
         /\ \A i \in Index : i # cur => temp'[i] = temp[i]
         /\ \A f \in Files : f # target[cur] => dest'[f] = dest[f]
  <1>a. DiskType
    BY DEF Control, WriteTypeOK
  <1>1. CASE Inspect
    BY <1>a, <1>1 DEF Inspect, disk, DiskType, Final
  <1>2. CASE VerifyBeforeStage
    BY <1>a, <1>2 DEF VerifyBeforeStage, disk, DiskType, Final
  <1>3. CASE CreateStagingFile
    BY <1>a, <1>3 DEF CreateStagingFile, DiskType, Final
  <1>4. CASE WriteStaged
    BY <1>a, <1>4 DEF WriteStaged, DiskType, Final
  <1>5. CASE StagingFails
    BY <1>a, <1>5 DEF StagingFails, RemoveOwned, DiskType, Final
  <1>6. CASE LateVerify
    BY <1>a, <1>6 DEF LateVerify, disk, FailCommit, DiskType, Final
  <1>7. CASE Install
    BY <1>a, <1>7 DEF Install, Swap, SwapFails, disk, FailCommit, DiskType, Final
  <1>8. CASE InstallSync
    BY <1>a, <1>8 DEF InstallSync, Synced, SyncFails, disk, FailCommit, DiskType, Final
  <1>9. CASE CheckInstall
    BY <1>a, <1>9 DEF CheckInstall, disk, DiskType, Final
  <1>10. CASE Undo
    BY <1>a, <1>10 DEF Undo, Swap, SwapFails, disk, FailCommit, Relinquish, DiskType,
       Final
  <1>11. CASE UndoSync
    BY <1>a, <1>11 DEF UndoSync, Synced, SyncFails, disk, FailCommit, Relinquish,
       DiskType, Final
  <1>12. CASE UndoCheck
    BY <1>a, <1>12 DEF UndoCheck, disk, FailCommit, Relinquish, DiskType, Final
  <1>13. CASE RollbackVerify
    BY <1>a, <1>13 DEF RollbackVerify, RemoveOwned, NextRollback, DiskType, Final
  <1>14. CASE RollbackExchange
    BY <1>a, <1>14 DEF RollbackExchange, Swap, SwapFails, disk, NextRollback, DiskType,
       Final
  <1>15. CASE RollbackSync
    BY <1>a, <1>15 DEF RollbackSync, Synced, SyncFails, disk, NextRollback, DiskType,
       Final
  <1>16. CASE RollbackCheck
    BY <1>a, <1>16 DEF RollbackCheck, RemoveOwned, NextRollback, DiskType, Final
  <1>17. CASE RollbackUndo
    BY <1>a, <1>17 DEF RollbackUndo, Swap, SwapFails, disk, NextRollback, DiskType,
       Final
  <1>18. CASE RollbackUndoSync
    BY <1>a, <1>18 DEF RollbackUndoSync, Synced, SyncFails, disk, NextRollback,
       DiskType, Final
  <1>19. CASE RollbackUndoCheck
    BY <1>a, <1>19 DEF RollbackUndoCheck, RemoveOwned, NextRollback, DiskType, Final
  <1>20. CASE RollbackDone
    BY <1>a, <1>20 DEF RollbackDone, disk, DiskType, Final
  <1>21. CASE Cleanup
    BY <1>a, <1>21 DEF Cleanup, RemoveOwned, DiskType, Final
  <1>22. CASE CleanBackups
    BY <1>a, <1>22 DEF CleanBackups, RemoveOwned, DiskType, Final
  <1>23. QED
    BY <1>1, <1>2, <1>3, <1>4, <1>5, <1>6, <1>7, <1>8, <1>9, <1>10, <1>11, <1>12, <1>13,
       <1>14, <1>15, <1>16, <1>17, <1>18, <1>19, <1>20, <1>21, <1>22 DEF Writer
-----------------------------------------------------------------------------
(* Leftovers *)

Books == Ownership /\ StagedOwned /\ OwnedAhead

\* Ledger holds initially: nothing is staged, nothing is owned.
LEMMA LedgerInit == WriteInit => Ledger
  BY NAssumption DEF WriteInit, Ledger, Ownership, StagedOwned, OwnedAhead, Accounted, StagePC,
     InstallPC, RollbackPC, RollbackWindow, Index

\* Every step keeps the ledger of private files, failing fsyncs included.
LEMMA LedgerStep == Control /\ Ledger /\ [WriteNext]_writeVars => Ledger'
  <1> SUFFICES ASSUME Control, Ledger, [WriteNext]_writeVars
               PROVE  Books' /\ Accounted'
    BY DEF Ledger, Books
  <1>a. /\ DiskType /\ ControlType /\ ArtifactType /\ Position
        /\ Ownership /\ StagedOwned /\ OwnedAhead /\ Accounted
    BY DEF Control, WriteTypeOK, Ledger
  <1> USE NAssumption
  <1>1. CASE Inspect
    <2>0. cur \in Index
      BY CurrentIndex, <1>1 DEF Inspect, Final
    <2>1. Books'
      BY <1>a, <1>1, <2>0 DEF Inspect, Goto, disk, ControlType, Position, ArtifactType,
         Index, Books, Ownership, StagedOwned, OwnedAhead, Final, StagePC, InstallPC,
         RollbackPC, RollbackWindow
    <2>2. \A i \in Index : i # cur => temp'[i] = temp[i]
      BY WriterFrame, <1>1 DEF Writer
    <2>3. Accounted'
      BY <1>a, <1>1, <2>0, <2>2 DEF Inspect, Goto, disk, DiskType, ControlType,
         Position, ArtifactType, Index, Ownership, StagedOwned, OwnedAhead, Accounted,
         Pending, Final, StagePC, InstallPC, RollbackPC, RollbackWindow
    <2>4. QED
      BY <2>1, <2>3
  <1>2. CASE VerifyBeforeStage
    <2>0. cur \in Index
      BY CurrentIndex, <1>2 DEF VerifyBeforeStage, Final
    <2>1. Books'
      BY <1>a, <1>2, <2>0 DEF VerifyBeforeStage, Goto, disk, ControlType, Position,
         ArtifactType, Index, Books, Ownership, StagedOwned, OwnedAhead, Final, StagePC,
         InstallPC, RollbackPC, RollbackWindow
    <2>2. \A i \in Index : i # cur => temp'[i] = temp[i]
      BY WriterFrame, <1>2 DEF Writer
    <2>3. Accounted'
      BY <1>a, <1>2, <2>0, <2>2 DEF VerifyBeforeStage, Goto, disk, DiskType,
         ControlType, Position, ArtifactType, Index, Ownership, StagedOwned, OwnedAhead,
         Accounted, Pending, Final, StagePC, InstallPC, RollbackPC, RollbackWindow
    <2>4. QED
      BY <2>1, <2>3
  <1>3. CASE CreateStagingFile
    <2>0. cur \in Index
      BY CurrentIndex, <1>3 DEF CreateStagingFile, Final
    <2>1. Books'
      BY <1>a, <1>3, <2>0 DEF CreateStagingFile, Goto, ControlType, Position,
         ArtifactType, Index, Books, Ownership, StagedOwned, OwnedAhead, Final, StagePC,
         InstallPC, RollbackPC, RollbackWindow
    <2>2. \A i \in Index : i # cur => temp'[i] = temp[i]
      BY WriterFrame, <1>3 DEF Writer
    <2>3. Accounted'
      BY <1>a, <1>3, <2>0, <2>2 DEF CreateStagingFile, Goto, DiskType, ControlType,
         Position, ArtifactType, Index, Ownership, StagedOwned, OwnedAhead, Accounted,
         Pending, Final, StagePC, InstallPC, RollbackPC, RollbackWindow
    <2>4. QED
      BY <2>1, <2>3
  <1>4. CASE WriteStaged
    <2>0. cur \in Index
      BY CurrentIndex, <1>4 DEF WriteStaged, Final
    <2>1. Books'
      BY <1>a, <1>4, <2>0 DEF WriteStaged, Goto, ControlType, Position, ArtifactType,
         Index, Books, Ownership, StagedOwned, OwnedAhead, Final, StagePC, InstallPC,
         RollbackPC, RollbackWindow
    <2>2. \A i \in Index : i # cur => temp'[i] = temp[i]
      BY WriterFrame, <1>4 DEF Writer
    <2>3. Accounted'
      BY <1>a, <1>4, <2>0, <2>2 DEF WriteStaged, Goto, DiskType, ControlType, Position,
         ArtifactType, Index, Ownership, StagedOwned, OwnedAhead, Accounted, Pending,
         Final, StagePC, InstallPC, RollbackPC, RollbackWindow
    <2>4. QED
      BY <2>1, <2>3
  <1>5. CASE StagingFails
    <2>0. cur \in Index
      BY CurrentIndex, <1>5 DEF StagingFails, Final
    <2>1. Books'
      BY <1>a, <1>5, <2>0 DEF StagingFails, Goto, RemoveOwned, ControlType, Position,
         ArtifactType, Index, Books, Ownership, StagedOwned, OwnedAhead, Final, StagePC,
         InstallPC, RollbackPC, RollbackWindow
    <2>2. \A i \in Index : i # cur => temp'[i] = temp[i]
      BY WriterFrame, <1>5 DEF Writer
    <2>3. Accounted'
      BY <1>a, <1>5, <2>0, <2>2 DEF StagingFails, Goto, RemoveOwned, DiskType,
         ControlType, Position, ArtifactType, Index, Ownership, StagedOwned, OwnedAhead,
         Accounted, Pending, Final, StagePC, InstallPC, RollbackPC, RollbackWindow
    <2>4. QED
      BY <2>1, <2>3
  <1>6. CASE LateVerify
    <2>0. cur \in Index
      BY CurrentIndex, <1>6 DEF LateVerify, Final
    <2>1. Books'
      BY <1>a, <1>6, <2>0 DEF LateVerify, Goto, disk, FailCommit, ControlType, Position,
         ArtifactType, Index, Books, Ownership, StagedOwned, OwnedAhead, Final, StagePC,
         InstallPC, RollbackPC, RollbackWindow
    <2>2. \A i \in Index : i # cur => temp'[i] = temp[i]
      BY WriterFrame, <1>6 DEF Writer
    <2>3. Accounted'
      BY <1>a, <1>6, <2>0, <2>2 DEF LateVerify, Goto, disk, FailCommit, DiskType,
         ControlType, Position, ArtifactType, Index, Ownership, StagedOwned, OwnedAhead,
         Accounted, Pending, Final, StagePC, InstallPC, RollbackPC, RollbackWindow
    <2>4. QED
      BY <2>1, <2>3
  <1>7. CASE Install
    <2>0. cur \in Index
      BY CurrentIndex, <1>7 DEF Install, Final
    <2>1. Books'
      BY <1>a, <1>7, <2>0 DEF Install, Goto, Swap, SwapFails, disk, FailCommit,
         ControlType, Position, ArtifactType, Index, Books, Ownership, StagedOwned,
         OwnedAhead, Final, StagePC, InstallPC, RollbackPC, RollbackWindow
    <2>2. \A i \in Index : i # cur => temp'[i] = temp[i]
      BY WriterFrame, <1>7 DEF Writer
    <2>3. Accounted'
      BY <1>a, <1>7, <2>0, <2>2 DEF Install, Goto, Swap, SwapFails, disk, FailCommit,
         DiskType, ControlType, Position, ArtifactType, Index, Ownership, StagedOwned,
         OwnedAhead, Accounted, Pending, Final, StagePC, InstallPC, RollbackPC,
         RollbackWindow
    <2>4. QED
      BY <2>1, <2>3
  <1>8. CASE InstallSync
    <2>0. cur \in Index
      BY CurrentIndex, <1>8 DEF InstallSync, Final
    <2>1. Books'
      BY <1>a, <1>8, <2>0 DEF InstallSync, Goto, Synced, SyncFails, disk, FailCommit,
         ControlType, Position, ArtifactType, Index, Books, Ownership, StagedOwned,
         OwnedAhead, Final, StagePC, InstallPC, RollbackPC, RollbackWindow
    <2>2. \A i \in Index : i # cur => temp'[i] = temp[i]
      BY WriterFrame, <1>8 DEF Writer
    <2>3. Accounted'
      BY <1>a, <1>8, <2>0, <2>2 DEF InstallSync, Goto, Synced, SyncFails, disk,
         FailCommit, DiskType, ControlType, Position, ArtifactType, Index, Ownership,
         StagedOwned, OwnedAhead, Accounted, Pending, Final, StagePC, InstallPC,
         RollbackPC, RollbackWindow
    <2>4. QED
      BY <2>1, <2>3
  <1>9. CASE CheckInstall
    <2>0. cur \in Index
      BY CurrentIndex, <1>9 DEF CheckInstall, Final
    <2>5. \/ /\ committed' = committed + 1 /\ owned' = owned \ {cur}
             /\ IF cur = N THEN Goto("cleanBackups", 1) ELSE Goto("late", cur + 1)
          \/ Goto("undo", cur) /\ UNCHANGED <<committed, owned>>
      BY <1>9 DEF CheckInstall
    <2>6. \A i \in owned : i \in Index /\ i >= cur
      BY <1>a, <1>9 DEF CheckInstall, ControlType, Position, ArtifactType, Ownership,
         InstallPC, Index
    <2>7. pc' = "cleanBackups" => owned' = {}
      BY <2>0, <2>5, <2>6 DEF Goto, Index
    <2>8. committed' = cur => \A i \in owned' : i > cur
      BY <1>a, <1>9, <2>0, <2>5, <2>6 DEF CheckInstall, Position, InstallPC, Index
    <2>9. pc = "check" /\ committed = cur - 1
      BY <1>a, <1>9 DEF CheckInstall, Position, InstallPC
    <2>a. Ownership'
      BY <2>0, <2>5, <2>6, <2>7, <2>8, <2>9 DEF Goto, Index, Ownership, StagePC, InstallPC,
         RollbackPC, RollbackWindow
    <2>b. StagedOwned'
      BY <1>a, <2>0, <2>5, <2>9 DEF Goto, Index, StagedOwned, StagePC, InstallPC
    <2>c. OwnedAhead'
      BY <2>5, <2>9 DEF Goto, OwnedAhead
    <2>1. Books'
      BY <2>a, <2>b, <2>c DEF Books
    <2>2. \A i \in Index : i # cur => temp'[i] = temp[i]
      BY WriterFrame, <1>9 DEF Writer
    <2>3. Accounted'
      BY <1>a, <1>9, <2>0, <2>2 DEF CheckInstall, Goto, disk, DiskType, ControlType,
         Position, ArtifactType, Index, Ownership, StagedOwned, OwnedAhead, Accounted,
         Pending, Final, StagePC, InstallPC, RollbackPC, RollbackWindow
    <2>4. QED
      BY <2>1, <2>3
  <1>10. CASE Undo
    <2>0. cur \in Index
      BY CurrentIndex, <1>10 DEF Undo, Final
    <2>1. Books'
      BY <1>a, <1>10, <2>0 DEF Undo, Goto, Swap, SwapFails, disk, FailCommit,
         Relinquish, ControlType, Position, ArtifactType, Index, Books, Ownership,
         StagedOwned, OwnedAhead, Final, StagePC, InstallPC, RollbackPC, RollbackWindow
    <2>2. \A i \in Index : i # cur => temp'[i] = temp[i]
      BY WriterFrame, <1>10 DEF Writer
    <2>3. Accounted'
      BY <1>a, <1>10, <2>0, <2>2 DEF Undo, Goto, Swap, SwapFails, disk, FailCommit,
         Relinquish, DiskType, ControlType, Position, ArtifactType, Index, Ownership,
         StagedOwned, OwnedAhead, Accounted, Pending, Final, StagePC, InstallPC,
         RollbackPC, RollbackWindow
    <2>4. QED
      BY <2>1, <2>3
  <1>11. CASE UndoSync
    <2>0. cur \in Index
      BY CurrentIndex, <1>11 DEF UndoSync, Final
    <2>1. Books'
      BY <1>a, <1>11, <2>0 DEF UndoSync, Goto, Synced, SyncFails, disk, FailCommit,
         Relinquish, ControlType, Position, ArtifactType, Index, Books, Ownership,
         StagedOwned, OwnedAhead, Final, StagePC, InstallPC, RollbackPC, RollbackWindow
    <2>2. \A i \in Index : i # cur => temp'[i] = temp[i]
      BY WriterFrame, <1>11 DEF Writer
    <2>3. Accounted'
      BY <1>a, <1>11, <2>0, <2>2 DEF UndoSync, Goto, Synced, SyncFails, disk,
         FailCommit, Relinquish, DiskType, ControlType, Position, ArtifactType, Index,
         Ownership, StagedOwned, OwnedAhead, Accounted, Pending, Final, StagePC,
         InstallPC, RollbackPC, RollbackWindow
    <2>4. QED
      BY <2>1, <2>3
  <1>12. CASE UndoCheck
    <2>0. cur \in Index
      BY CurrentIndex, <1>12 DEF UndoCheck, Final
    <2>1. Books'
      BY <1>a, <1>12, <2>0 DEF UndoCheck, Goto, disk, FailCommit, Relinquish,
         ControlType, Position, ArtifactType, Index, Books, Ownership, StagedOwned,
         OwnedAhead, Final, StagePC, InstallPC, RollbackPC, RollbackWindow
    <2>2. \A i \in Index : i # cur => temp'[i] = temp[i]
      BY WriterFrame, <1>12 DEF Writer
    <2>3. Accounted'
      BY <1>a, <1>12, <2>0, <2>2 DEF UndoCheck, Goto, disk, FailCommit, Relinquish,
         DiskType, ControlType, Position, ArtifactType, Index, Ownership, StagedOwned,
         OwnedAhead, Accounted, Pending, Final, StagePC, InstallPC, RollbackPC,
         RollbackWindow
    <2>4. QED
      BY <2>1, <2>3
  <1>13. CASE RollbackVerify
    <2>0. cur \in Index
      BY CurrentIndex, <1>13 DEF RollbackVerify, Final
    <2>1. Books'
      BY <1>a, <1>13, <2>0 DEF RollbackVerify, Goto, RemoveOwned, NextRollback,
         ControlType, Position, ArtifactType, Index, Books, Ownership, StagedOwned,
         OwnedAhead, Final, StagePC, InstallPC, RollbackPC, RollbackWindow
    <2>2. \A i \in Index : i # cur => temp'[i] = temp[i]
      BY WriterFrame, <1>13 DEF Writer
    <2>3. Accounted'
      BY <1>a, <1>13, <2>0, <2>2 DEF RollbackVerify, Goto, RemoveOwned, NextRollback,
         DiskType, ControlType, Position, ArtifactType, Index, Ownership, StagedOwned,
         OwnedAhead, Accounted, Pending, Final, StagePC, InstallPC, RollbackPC,
         RollbackWindow
    <2>4. QED
      BY <2>1, <2>3
  <1>14. CASE RollbackExchange
    <2>0. cur \in Index
      BY CurrentIndex, <1>14 DEF RollbackExchange, Final
    <2>1. Books'
      BY <1>a, <1>14, <2>0 DEF RollbackExchange, Goto, Swap, SwapFails, disk,
         NextRollback, ControlType, Position, ArtifactType, Index, Books, Ownership,
         StagedOwned, OwnedAhead, Final, StagePC, InstallPC, RollbackPC, RollbackWindow
    <2>2. \A i \in Index : i # cur => temp'[i] = temp[i]
      BY WriterFrame, <1>14 DEF Writer
    <2>3. Accounted'
      BY <1>a, <1>14, <2>0, <2>2 DEF RollbackExchange, Goto, Swap, SwapFails, disk,
         NextRollback, DiskType, ControlType, Position, ArtifactType, Index, Ownership,
         StagedOwned, OwnedAhead, Accounted, Pending, Final, StagePC, InstallPC,
         RollbackPC, RollbackWindow
    <2>4. QED
      BY <2>1, <2>3
  <1>15. CASE RollbackSync
    <2>0. cur \in Index
      BY CurrentIndex, <1>15 DEF RollbackSync, Final
    <2>1. Books'
      BY <1>a, <1>15, <2>0 DEF RollbackSync, Goto, Synced, SyncFails, disk,
         NextRollback, ControlType, Position, ArtifactType, Index, Books, Ownership,
         StagedOwned, OwnedAhead, Final, StagePC, InstallPC, RollbackPC, RollbackWindow
    <2>2. \A i \in Index : i # cur => temp'[i] = temp[i]
      BY WriterFrame, <1>15 DEF Writer
    <2>3. Accounted'
      BY <1>a, <1>15, <2>0, <2>2 DEF RollbackSync, Goto, Synced, SyncFails, disk,
         NextRollback, DiskType, ControlType, Position, ArtifactType, Index, Ownership,
         StagedOwned, OwnedAhead, Accounted, Pending, Final, StagePC, InstallPC,
         RollbackPC, RollbackWindow
    <2>4. QED
      BY <2>1, <2>3
  <1>16. CASE RollbackCheck
    <2>0. cur \in Index
      BY CurrentIndex, <1>16 DEF RollbackCheck, Final
    <2>1. Books'
      BY <1>a, <1>16, <2>0 DEF RollbackCheck, Goto, RemoveOwned, NextRollback,
         ControlType, Position, ArtifactType, Index, Books, Ownership, StagedOwned,
         OwnedAhead, Final, StagePC, InstallPC, RollbackPC, RollbackWindow
    <2>2. \A i \in Index : i # cur => temp'[i] = temp[i]
      BY WriterFrame, <1>16 DEF Writer
    <2>3. Accounted'
      BY <1>a, <1>16, <2>0, <2>2 DEF RollbackCheck, Goto, RemoveOwned, NextRollback,
         DiskType, ControlType, Position, ArtifactType, Index, Ownership, StagedOwned,
         OwnedAhead, Accounted, Pending, Final, StagePC, InstallPC, RollbackPC,
         RollbackWindow
    <2>4. QED
      BY <2>1, <2>3
  <1>17. CASE RollbackUndo
    <2>0. cur \in Index
      BY CurrentIndex, <1>17 DEF RollbackUndo, Final
    <2>1. Books'
      BY <1>a, <1>17, <2>0 DEF RollbackUndo, Goto, Swap, SwapFails, disk, NextRollback,
         ControlType, Position, ArtifactType, Index, Books, Ownership, StagedOwned,
         OwnedAhead, Final, StagePC, InstallPC, RollbackPC, RollbackWindow
    <2>2. \A i \in Index : i # cur => temp'[i] = temp[i]
      BY WriterFrame, <1>17 DEF Writer
    <2>3. Accounted'
      BY <1>a, <1>17, <2>0, <2>2 DEF RollbackUndo, Goto, Swap, SwapFails, disk,
         NextRollback, DiskType, ControlType, Position, ArtifactType, Index, Ownership,
         StagedOwned, OwnedAhead, Accounted, Pending, Final, StagePC, InstallPC,
         RollbackPC, RollbackWindow
    <2>4. QED
      BY <2>1, <2>3
  <1>18. CASE RollbackUndoSync
    <2>0. cur \in Index
      BY CurrentIndex, <1>18 DEF RollbackUndoSync, Final
    <2>1. Books'
      BY <1>a, <1>18, <2>0 DEF RollbackUndoSync, Goto, Synced, SyncFails, disk,
         NextRollback, ControlType, Position, ArtifactType, Index, Books, Ownership,
         StagedOwned, OwnedAhead, Final, StagePC, InstallPC, RollbackPC, RollbackWindow
    <2>2. \A i \in Index : i # cur => temp'[i] = temp[i]
      BY WriterFrame, <1>18 DEF Writer
    <2>3. Accounted'
      BY <1>a, <1>18, <2>0, <2>2 DEF RollbackUndoSync, Goto, Synced, SyncFails, disk,
         NextRollback, DiskType, ControlType, Position, ArtifactType, Index, Ownership,
         StagedOwned, OwnedAhead, Accounted, Pending, Final, StagePC, InstallPC,
         RollbackPC, RollbackWindow
    <2>4. QED
      BY <2>1, <2>3
  <1>19. CASE RollbackUndoCheck
    <2>0. cur \in Index
      BY CurrentIndex, <1>19 DEF RollbackUndoCheck, Final
    <2>1. Books'
      BY <1>a, <1>19, <2>0 DEF RollbackUndoCheck, Goto, RemoveOwned, NextRollback,
         ControlType, Position, ArtifactType, Index, Books, Ownership, StagedOwned,
         OwnedAhead, Final, StagePC, InstallPC, RollbackPC, RollbackWindow
    <2>2. \A i \in Index : i # cur => temp'[i] = temp[i]
      BY WriterFrame, <1>19 DEF Writer
    <2>3. Accounted'
      BY <1>a, <1>19, <2>0, <2>2 DEF RollbackUndoCheck, Goto, RemoveOwned, NextRollback,
         DiskType, ControlType, Position, ArtifactType, Index, Ownership, StagedOwned,
         OwnedAhead, Accounted, Pending, Final, StagePC, InstallPC, RollbackPC,
         RollbackWindow
    <2>4. QED
      BY <2>1, <2>3
  <1>20. CASE RollbackDone
    <2>1. Books'
      BY <1>a, <1>20 DEF RollbackDone, Goto, disk, ControlType, Position, ArtifactType,
         Index, Books, Ownership, StagedOwned, OwnedAhead, Final, StagePC, InstallPC,
         RollbackPC, RollbackWindow
    <2>2. \A i \in Index : i # cur => temp'[i] = temp[i]
      BY WriterFrame, <1>20 DEF Writer
    <2>3. Accounted'
      BY <1>a, <1>20, <2>2 DEF RollbackDone, Goto, disk, DiskType, ControlType,
         Position, ArtifactType, Index, Ownership, StagedOwned, OwnedAhead, Accounted,
         Pending, Final, StagePC, InstallPC, RollbackPC, RollbackWindow
    <2>4. QED
      BY <2>1, <2>3
  <1>21. CASE Cleanup
    <2>0. cur \in Index
      BY CurrentIndex, <1>21 DEF Cleanup, Final
    <2>1. Books'
      BY <1>a, <1>21, <2>0 DEF Cleanup, Goto, RemoveOwned, ControlType, Position,
         ArtifactType, Index, Books, Ownership, StagedOwned, OwnedAhead, Final, StagePC,
         InstallPC, RollbackPC, RollbackWindow
    <2>2. \A i \in Index : i # cur => temp'[i] = temp[i]
      BY WriterFrame, <1>21 DEF Writer
    <2>3. Accounted'
      BY <1>a, <1>21, <2>0, <2>2 DEF Cleanup, Goto, RemoveOwned, DiskType, ControlType,
         Position, ArtifactType, Index, Ownership, StagedOwned, OwnedAhead, Accounted,
         Pending, Final, StagePC, InstallPC, RollbackPC, RollbackWindow
    <2>4. QED
      BY <2>1, <2>3
  <1>22. CASE CleanBackups
    <2>0. cur \in Index
      BY CurrentIndex, <1>22 DEF CleanBackups, Final
    <2>1. Books'
      BY <1>a, <1>22, <2>0 DEF CleanBackups, Goto, RemoveOwned, ControlType, Position,
         ArtifactType, Index, Books, Ownership, StagedOwned, OwnedAhead, Final, StagePC,
         InstallPC, RollbackPC, RollbackWindow
    <2>2. \A i \in Index : i # cur => temp'[i] = temp[i]
      BY WriterFrame, <1>22 DEF Writer
    <2>3. Accounted'
      BY <1>a, <1>22, <2>0, <2>2 DEF CleanBackups, Goto, RemoveOwned, DiskType,
         ControlType, Position, ArtifactType, Index, Ownership, StagedOwned, OwnedAhead,
         Accounted, Pending, Final, StagePC, InstallPC, RollbackPC, RollbackWindow
    <2>4. QED
      BY <2>1, <2>3
  <1>23. ASSUME NEW f \in Files, NEW content \in Edits \cup {"old", "gone"},
                ExternalWrite(f, content)
         PROVE  Books' /\ Accounted'
    BY <1>a, <1>23 DEF ExternalWrite, Books, Ownership, StagedOwned, OwnedAhead, Accounted,
       Pending
  <1>24. CASE Crash
    BY <1>a, <1>24 DEF Crash, Books, Ownership, StagedOwned, OwnedAhead, Accounted,
       StagePC, InstallPC, RollbackPC, RollbackWindow
  <1>25. CASE UNCHANGED writeVars
    BY <1>a, <1>25 DEF writeVars, Books, Ownership, StagedOwned, OwnedAhead, Accounted, Pending
  <1>26. QED
    BY <1>1, <1>2, <1>3, <1>4, <1>5, <1>6, <1>7, <1>8, <1>9, <1>10, <1>11, <1>12, <1>13,
       <1>14, <1>15, <1>16, <1>17, <1>18, <1>19, <1>20, <1>21, <1>22, <1>23, <1>24,
       <1>25 DEF WriteNext, Writer

\* A run that ends by itself has removed every private file it created or named
\* it in its failure, except a backup whose restoration met an I/O fault, for
\* every number of files and with failing fsyncs too.
THEOREM NothingIsHidden == WriteSpec => []LeftoversAreNamed
  <1>1. WriteSpec => [](Control /\ Ledger)
    BY ControlInit, ControlStep, LedgerInit, LedgerStep, PTL DEF WriteSpec
  <1>2. Control /\ Ledger => LeftoversAreNamed
    BY DEF Control, WriteTypeOK, Ledger, OwnedAhead, Accounted, Pending, LeftoversAreNamed,
       InstallPC, RollbackPC, RollbackWindow
  <1>3. QED
    BY <1>1, <1>2, PTL
-----------------------------------------------------------------------------
(* Restoration and crashes *)

All == Inv /\ Ledger /\ Outcome

\* Outcome holds initially: every destination still holds the analysed text.
LEMMA OutcomeInit == WriteInit => Outcome
  <1> SUFFICES ASSUME WriteInit PROVE Outcome
    OBVIOUS
  <1>1. DistinctTargets /\ Displaced /\ WholeTexts
    BY NAssumption DEF WriteInit, DistinctTargets, Displaced, WholeTexts, StagePC, InstallPC,
       InstallWindow, RollbackPC, RollbackWindow
  <1>2. Placement
    BY DEF WriteInit, Placement, InstalledNow, InstallPC, RollbackPC, RollbackWindow, Final,
       Index
  <1>3. OldOrNew /\ HandledFailureRestores
    BY DEF WriteInit, OldOrNew, HandledFailureRestores
  <1>4. QED
    BY <1>1, <1>2, <1>3 DEF Outcome

\* An exchange changes the two paths of one replacement and no other path.
LEMMA SwapPlaces ==
  ASSUME NEW i \in Index, DiskType, Swap(i)
  PROVE  /\ dest'[target[i]] = temp[i]
         /\ temp'[i] = dest[target[i]]
         /\ \A f \in Files : f # target[i] => dest'[f] = dest[f]
  BY DEF DiskType, Swap

\* Only the exchange whose directory is not yet fsynced can be lost in a crash.
LEMMA CrashUndoesOne ==
  ASSUME Inv, Crash
  PROVE  \A f \in Files : \/ dest'[f] = dest[f]
                          \/ f = target[cur] /\ dest'[f] = temp[cur] /\ pc \in SyncPC
  <1>1. PICK lost \in SUBSET unsynced :
          dest' = [f \in Files |-> IF \E i \in lost : target[i] = f
                                   THEN temp[CHOOSE i \in lost : target[i] = f] ELSE dest[f]]
    BY DEF Crash
  <1>2. unsynced \subseteq {cur} /\ (pc \notin SyncPC => unsynced = {})
    BY DEF Inv, OneUnsynced, Crash
  <1>3. CASE lost = {}
    BY <1>1, <1>3
  <1>4. CASE lost = {cur} /\ pc \in SyncPC
    BY <1>1, <1>4
  <1>5. QED
    BY <1>2, <1>3, <1>4

\* Every step preserves Outcome when no fsync fails after its rename.
LEMMA OutcomeStep == ~SyncFaults /\ All /\ [WriteNext]_writeVars => Outcome'
  <1> SUFFICES ASSUME ~SyncFaults, All, [WriteNext]_writeVars
               PROVE  Outcome'
    OBVIOUS
  <1>a. /\ Control /\ DiskType /\ ControlType /\ ArtifactType /\ CounterType /\ Position
        /\ OwnedHoldsNew /\ BackupHoldsOld /\ NotYetStaged /\ StagedOwned /\ DistinctTargets
        /\ Placement /\ Displaced /\ WholeTexts /\ OldOrNew /\ HandledFailureRestores
    BY DEF All, Inv, WriteTypeOK, Control, Ledger, Outcome
  <1> USE NAssumption
  <1>1. CASE Inspect
    <2>0. cur \in Index
      BY CurrentIndex, <1>a, <1>1 DEF Inspect, Final
    <2>1. DistinctTargets'
      BY <1>a, <1>1, <2>0 DEF Inspect, Goto, ControlType, Position, Index,
         DistinctTargets, StagePC, InstallPC, RollbackPC, RollbackWindow
    <2>4. Placement'
      BY <1>a, <1>1, <2>0 DEF Inspect, Goto, disk, DiskType, ControlType, Position,
         Index, Placement, InstalledNow, Displaced, Untouched, Final, StagePC,
         InstallPC, RollbackPC, RollbackWindow, InstallWindow
    <2>5. Displaced' /\ WholeTexts'
      BY <1>a, <1>1, <2>0 DEF Inspect, Goto, disk, DiskType, ControlType, Position,
         Index, Placement, InstalledNow, Displaced, Untouched, WholeTexts, OldOrNew,
         Final, StagePC, InstallPC, RollbackPC, RollbackWindow, InstallWindow
    <2>6. OldOrNew'
      BY <1>a, <1>1, <2>0 DEF Inspect, Goto, disk, DiskType, ControlType, Position,
         Index, WholeTexts, Untouched, OldOrNew, Final, StagePC, InstallPC, RollbackPC,
         RollbackWindow, InstallWindow
    <2>7. HandledFailureRestores'
      BY <1>a, <1>1, <2>0 DEF Inspect, Goto, Position, Index, Placement, InstalledNow,
         Untouched, HandledFailureRestores, Final, StagePC, InstallPC, RollbackPC,
         RollbackWindow
    <2>8. QED
      BY <2>1, <2>4, <2>5, <2>6, <2>7 DEF Outcome
  <1>2. CASE VerifyBeforeStage
    <2>0. cur \in Index
      BY CurrentIndex, <1>a, <1>2 DEF VerifyBeforeStage, Final
    <2>1. DistinctTargets'
      BY <1>a, <1>2, <2>0 DEF VerifyBeforeStage, Goto, ControlType, Position, Index,
         DistinctTargets, StagePC, InstallPC, RollbackPC, RollbackWindow
    <2>4. Placement'
      BY <1>a, <1>2, <2>0 DEF VerifyBeforeStage, Goto, disk, DiskType, ControlType,
         Position, Index, Placement, InstalledNow, Displaced, Untouched, Final, StagePC,
         InstallPC, RollbackPC, RollbackWindow, InstallWindow
    <2>5. Displaced' /\ WholeTexts'
      BY <1>a, <1>2, <2>0 DEF VerifyBeforeStage, Goto, disk, DiskType, ControlType,
         Position, Index, Placement, InstalledNow, Displaced, Untouched, WholeTexts,
         OldOrNew, Final, StagePC, InstallPC, RollbackPC, RollbackWindow, InstallWindow
    <2>6. OldOrNew'
      BY <1>a, <1>2, <2>0 DEF VerifyBeforeStage, Goto, disk, DiskType, ControlType,
         Position, Index, WholeTexts, Untouched, OldOrNew, Final, StagePC, InstallPC,
         RollbackPC, RollbackWindow, InstallWindow
    <2>7. HandledFailureRestores'
      BY <1>a, <1>2, <2>0 DEF VerifyBeforeStage, Goto, Position, Index, Placement,
         InstalledNow, Untouched, HandledFailureRestores, Final, StagePC, InstallPC,
         RollbackPC, RollbackWindow
    <2>8. QED
      BY <2>1, <2>4, <2>5, <2>6, <2>7 DEF Outcome
  <1>3. CASE CreateStagingFile
    <2>0. cur \in Index
      BY CurrentIndex, <1>a, <1>3 DEF CreateStagingFile, Final
    <2>1. DistinctTargets'
      BY <1>a, <1>3, <2>0 DEF CreateStagingFile, Goto, ControlType, Position, Index,
         DistinctTargets, StagePC, InstallPC, RollbackPC, RollbackWindow
    <2>4. Placement'
      BY <1>a, <1>3, <2>0 DEF CreateStagingFile, Goto, DiskType, ControlType, Position,
         Index, Placement, InstalledNow, Displaced, Untouched, Final, StagePC,
         InstallPC, RollbackPC, RollbackWindow, InstallWindow
    <2>5. Displaced' /\ WholeTexts'
      BY <1>a, <1>3, <2>0 DEF CreateStagingFile, Goto, DiskType, ControlType, Position,
         Index, Placement, InstalledNow, Displaced, Untouched, WholeTexts, OldOrNew,
         Final, StagePC, InstallPC, RollbackPC, RollbackWindow, InstallWindow
    <2>6. OldOrNew'
      BY <1>a, <1>3, <2>0 DEF CreateStagingFile, Goto, DiskType, ControlType, Position,
         Index, WholeTexts, Untouched, OldOrNew, Final, StagePC, InstallPC, RollbackPC,
         RollbackWindow, InstallWindow
    <2>7. HandledFailureRestores'
      BY <1>a, <1>3, <2>0 DEF CreateStagingFile, Goto, Position, Index, Placement,
         InstalledNow, Untouched, HandledFailureRestores, Final, StagePC, InstallPC,
         RollbackPC, RollbackWindow
    <2>8. QED
      BY <2>1, <2>4, <2>5, <2>6, <2>7 DEF Outcome
  <1>4. CASE WriteStaged
    <2>0. cur \in Index
      BY CurrentIndex, <1>a, <1>4 DEF WriteStaged, Final
    <2>1. DistinctTargets'
      BY <1>a, <1>4, <2>0 DEF WriteStaged, Goto, ControlType, Position, Index,
         DistinctTargets, StagePC, InstallPC, RollbackPC, RollbackWindow
    <2>4. Placement'
      BY <1>a, <1>4, <2>0 DEF WriteStaged, Goto, DiskType, ControlType, Position, Index,
         Placement, InstalledNow, Displaced, Untouched, Final, StagePC, InstallPC,
         RollbackPC, RollbackWindow, InstallWindow
    <2>5. Displaced' /\ WholeTexts'
      BY <1>a, <1>4, <2>0 DEF WriteStaged, Goto, DiskType, ControlType, Position, Index,
         Placement, InstalledNow, Displaced, Untouched, WholeTexts, OldOrNew, Final,
         StagePC, InstallPC, RollbackPC, RollbackWindow, InstallWindow
    <2>6. OldOrNew'
      BY <1>a, <1>4, <2>0 DEF WriteStaged, Goto, DiskType, ControlType, Position, Index,
         WholeTexts, Untouched, OldOrNew, Final, StagePC, InstallPC, RollbackPC,
         RollbackWindow, InstallWindow
    <2>7. HandledFailureRestores'
      BY <1>a, <1>4, <2>0 DEF WriteStaged, Goto, Position, Index, Placement,
         InstalledNow, Untouched, HandledFailureRestores, Final, StagePC, InstallPC,
         RollbackPC, RollbackWindow
    <2>8. QED
      BY <2>1, <2>4, <2>5, <2>6, <2>7 DEF Outcome
  <1>5. CASE StagingFails
    <2>0. cur \in Index
      BY CurrentIndex, <1>a, <1>5 DEF StagingFails, Final
    <2>1. DistinctTargets'
      BY <1>a, <1>5, <2>0 DEF StagingFails, Goto, ControlType, Position, Index,
         DistinctTargets, StagePC, InstallPC, RollbackPC, RollbackWindow
    <2>4. Placement'
      BY <1>a, <1>5, <2>0 DEF StagingFails, Goto, RemoveOwned, DiskType, ControlType,
         Position, Index, Placement, InstalledNow, Displaced, Untouched, Final, StagePC,
         InstallPC, RollbackPC, RollbackWindow, InstallWindow
    <2>5. Displaced' /\ WholeTexts'
      BY <1>a, <1>5, <2>0 DEF StagingFails, Goto, RemoveOwned, DiskType, ControlType,
         Position, Index, Placement, InstalledNow, Displaced, Untouched, WholeTexts,
         OldOrNew, Final, StagePC, InstallPC, RollbackPC, RollbackWindow, InstallWindow
    <2>6. OldOrNew'
      BY <1>a, <1>5, <2>0 DEF StagingFails, Goto, RemoveOwned, DiskType, ControlType,
         Position, Index, WholeTexts, Untouched, OldOrNew, Final, StagePC, InstallPC,
         RollbackPC, RollbackWindow, InstallWindow
    <2>7. HandledFailureRestores'
      BY <1>a, <1>5, <2>0 DEF StagingFails, Goto, RemoveOwned, Position, Index, Placement,
         InstalledNow, Untouched, HandledFailureRestores, Final, StagePC, InstallPC,
         RollbackPC, RollbackWindow
    <2>8. QED
      BY <2>1, <2>4, <2>5, <2>6, <2>7 DEF Outcome
  <1>6. CASE LateVerify
    <2>0. cur \in Index
      BY CurrentIndex, <1>a, <1>6 DEF LateVerify, Final
    <2>1. DistinctTargets'
      BY <1>a, <1>6, <2>0 DEF LateVerify, Goto, FailCommit, ControlType, Position,
         Index, DistinctTargets, StagePC, InstallPC, RollbackPC, RollbackWindow
    <2>4. Placement'
      BY <1>a, <1>6, <2>0 DEF LateVerify, Goto, disk, FailCommit, DiskType, ControlType,
         Position, Index, Placement, InstalledNow, Displaced, Untouched, Final, StagePC,
         InstallPC, RollbackPC, RollbackWindow, InstallWindow
    <2>5. Displaced' /\ WholeTexts'
      BY <1>a, <1>6, <2>0 DEF LateVerify, Goto, disk, FailCommit, DiskType, ControlType,
         Position, Index, Placement, InstalledNow, Displaced, Untouched, WholeTexts,
         OldOrNew, Final, StagePC, InstallPC, RollbackPC, RollbackWindow, InstallWindow
    <2>6. OldOrNew'
      BY <1>a, <1>6, <2>0 DEF LateVerify, Goto, disk, FailCommit, DiskType, ControlType,
         Position, Index, WholeTexts, Untouched, OldOrNew, Final, StagePC, InstallPC,
         RollbackPC, RollbackWindow, InstallWindow
    <2>7. HandledFailureRestores'
      BY <1>a, <1>6, <2>0 DEF LateVerify, Goto, FailCommit, Position, Index, Placement,
         InstalledNow, Untouched, HandledFailureRestores, Final, StagePC, InstallPC,
         RollbackPC, RollbackWindow
    <2>8. QED
      BY <2>1, <2>4, <2>5, <2>6, <2>7 DEF Outcome
  <1>7. CASE Install
    <2>0. cur \in Index
      BY CurrentIndex, <1>a, <1>7 DEF Install, Final
    <2>1. DistinctTargets'
      BY <1>a, <1>7, <2>0 DEF Install, Goto, FailCommit, ControlType, Position, Index,
         DistinctTargets, StagePC, InstallPC, RollbackPC, RollbackWindow
    <2>2. temp[cur] = "new"
      BY <1>a, <1>7, <2>0 DEF Install, Position, StagedOwned, OwnedHoldsNew,
         BackupHoldsOld, InstallPC, InstallWindow, RollbackPC, RollbackWindow, Final,
         Index, ControlType
    <2>3. \A i \in Index : i # cur => dest'[target[i]] = dest[target[i]]
      BY WriterFrame, <1>a, <1>7, <2>0 DEF Writer, Install, DistinctTargets, InstallPC,
         RollbackPC, RollbackWindow, DiskType
    <2>4. Placement'
      BY <1>a, <1>7, <2>0, <2>2, <2>3 DEF Install, Goto, Swap, SwapFails, disk,
         FailCommit, DiskType, ControlType, Position, Index, Placement, InstalledNow,
         Displaced, Untouched, Final, StagePC, InstallPC, RollbackPC, RollbackWindow,
         InstallWindow
    <2>5. Displaced' /\ WholeTexts'
      BY <1>a, <1>7, <2>0, <2>2, <2>3 DEF Install, Goto, Swap, SwapFails, disk,
         FailCommit, DiskType, ControlType, Position, Index, Placement, InstalledNow,
         Displaced, Untouched, WholeTexts, OldOrNew, Final, StagePC, InstallPC,
         RollbackPC, RollbackWindow, InstallWindow
    <2>6. OldOrNew'
      BY <1>a, <1>7, <2>0, <2>2, <2>3 DEF Install, Goto, Swap, SwapFails, disk,
         FailCommit, DiskType, ControlType, Position, Index, WholeTexts, Untouched,
         OldOrNew, Final, StagePC, InstallPC, RollbackPC, RollbackWindow, InstallWindow
    <2>7. HandledFailureRestores'
      BY <1>a, <1>7, <2>0 DEF Install, Goto, FailCommit, Position, Index, Placement,
         InstalledNow, Untouched, HandledFailureRestores, Final, StagePC, InstallPC,
         RollbackPC, RollbackWindow
    <2>8. QED
      BY <2>1, <2>4, <2>5, <2>6, <2>7 DEF Outcome
  <1>8. CASE InstallSync
    <2>0. cur \in Index
      BY CurrentIndex, <1>a, <1>8 DEF InstallSync, Final
    <2>1. DistinctTargets'
      BY <1>a, <1>8, <2>0 DEF InstallSync, Goto, FailCommit, ControlType, Position,
         Index, DistinctTargets, StagePC, InstallPC, RollbackPC, RollbackWindow
    <2>4. Placement'
      BY <1>a, <1>8, <2>0 DEF InstallSync, Goto, Synced, SyncFails, disk, FailCommit,
         DiskType, ControlType, Position, Index, Placement, InstalledNow, Displaced,
         Untouched, Final, StagePC, InstallPC, RollbackPC, RollbackWindow, InstallWindow
    <2>5. Displaced' /\ WholeTexts'
      BY <1>a, <1>8, <2>0 DEF InstallSync, Goto, Synced, SyncFails, disk, FailCommit,
         DiskType, ControlType, Position, Index, Placement, InstalledNow, Displaced,
         Untouched, WholeTexts, OldOrNew, Final, StagePC, InstallPC, RollbackPC,
         RollbackWindow, InstallWindow
    <2>6. OldOrNew'
      BY <1>a, <1>8, <2>0 DEF InstallSync, Goto, Synced, SyncFails, disk, FailCommit,
         DiskType, ControlType, Position, Index, WholeTexts, Untouched, OldOrNew, Final,
         StagePC, InstallPC, RollbackPC, RollbackWindow, InstallWindow
    <2>7. HandledFailureRestores'
      BY <1>a, <1>8, <2>0 DEF InstallSync, Goto, FailCommit, Position, Index, Placement,
         InstalledNow, Untouched, HandledFailureRestores, Final, StagePC, InstallPC,
         RollbackPC, RollbackWindow
    <2>8. QED
      BY <2>1, <2>4, <2>5, <2>6, <2>7 DEF Outcome
  <1>9. CASE CheckInstall
    <2>0. cur \in Index
      BY CurrentIndex, <1>a, <1>9 DEF CheckInstall, Final
    <2>1. DistinctTargets'
      BY <1>a, <1>9, <2>0 DEF CheckInstall, Goto, ControlType, Position, Index,
         DistinctTargets, StagePC, InstallPC, RollbackPC, RollbackWindow
    <2>4. Placement'
      BY <1>a, <1>9, <2>0 DEF CheckInstall, Goto, disk, DiskType, ControlType, Position,
         Index, Placement, InstalledNow, Displaced, Untouched, Final, StagePC,
         InstallPC, RollbackPC, RollbackWindow, InstallWindow
    <2>5. Displaced' /\ WholeTexts'
      BY <1>a, <1>9, <2>0 DEF CheckInstall, Goto, disk, DiskType, ControlType, Position,
         Index, Placement, InstalledNow, Displaced, Untouched, WholeTexts, OldOrNew,
         Final, StagePC, InstallPC, RollbackPC, RollbackWindow, InstallWindow
    <2>6. OldOrNew'
      BY <1>a, <1>9, <2>0 DEF CheckInstall, Goto, disk, DiskType, ControlType, Position,
         Index, WholeTexts, Untouched, OldOrNew, Final, StagePC, InstallPC, RollbackPC,
         RollbackWindow, InstallWindow
    <2>7. HandledFailureRestores'
      BY <1>a, <1>9, <2>0 DEF CheckInstall, Goto, Position, Index, Placement,
         InstalledNow, Untouched, HandledFailureRestores, Final, StagePC, InstallPC,
         RollbackPC, RollbackWindow
    <2>8. QED
      BY <2>1, <2>4, <2>5, <2>6, <2>7 DEF Outcome
  <1>10. CASE Undo
    <2>0. cur \in Index
      BY CurrentIndex, <1>a, <1>10 DEF Undo, Final
    <2>1. DistinctTargets'
      BY <1>a, <1>10, <2>0 DEF Undo, Goto, FailCommit, Relinquish, ControlType,
         Position, Index, DistinctTargets, StagePC, InstallPC, RollbackPC,
         RollbackWindow
    <2>3. \A i \in Index : i # cur => dest'[target[i]] = dest[target[i]]
      BY WriterFrame, <1>a, <1>10, <2>0 DEF Writer, Undo, DistinctTargets, InstallPC,
         RollbackPC, RollbackWindow, DiskType
    <2>4. Placement'
      BY <1>a, <1>10, <2>0, <2>3 DEF Undo, Goto, Swap, SwapFails, disk, FailCommit,
         Relinquish, DiskType, ControlType, Position, Index, Placement, InstalledNow,
         Displaced, Untouched, Final, StagePC, InstallPC, RollbackPC, RollbackWindow,
         InstallWindow
    <2>5. Displaced' /\ WholeTexts'
      BY <1>a, <1>10, <2>0, <2>3 DEF Undo, Goto, Swap, SwapFails, disk, FailCommit,
         Relinquish, DiskType, ControlType, Position, Index, Placement, InstalledNow,
         Displaced, Untouched, WholeTexts, OldOrNew, Final, StagePC, InstallPC,
         RollbackPC, RollbackWindow, InstallWindow
    <2>6. OldOrNew'
      BY <1>a, <1>10, <2>0, <2>3 DEF Undo, Goto, Swap, SwapFails, disk, FailCommit,
         Relinquish, DiskType, ControlType, Position, Index, WholeTexts, Untouched,
         OldOrNew, Final, StagePC, InstallPC, RollbackPC, RollbackWindow, InstallWindow
    <2>7. HandledFailureRestores'
      BY <1>a, <1>10, <2>0 DEF Undo, Goto, FailCommit, Relinquish, Position, Index,
         Placement, InstalledNow, Untouched, HandledFailureRestores, Final, StagePC,
         InstallPC, RollbackPC, RollbackWindow
    <2>8. QED
      BY <2>1, <2>4, <2>5, <2>6, <2>7 DEF Outcome
  <1>11. CASE UndoSync
    <2>0. cur \in Index
      BY CurrentIndex, <1>a, <1>11 DEF UndoSync, Final
    <2>1. DistinctTargets'
      BY <1>a, <1>11, <2>0 DEF UndoSync, Goto, FailCommit, Relinquish, ControlType,
         Position, Index, DistinctTargets, StagePC, InstallPC, RollbackPC,
         RollbackWindow
    <2>4. Placement'
      BY <1>a, <1>11, <2>0 DEF UndoSync, Goto, Synced, SyncFails, disk, FailCommit,
         Relinquish, DiskType, ControlType, Position, Index, Placement, InstalledNow,
         Displaced, Untouched, Final, StagePC, InstallPC, RollbackPC, RollbackWindow,
         InstallWindow
    <2>5. Displaced' /\ WholeTexts'
      BY <1>a, <1>11, <2>0 DEF UndoSync, Goto, Synced, SyncFails, disk, FailCommit,
         Relinquish, DiskType, ControlType, Position, Index, Placement, InstalledNow,
         Displaced, Untouched, WholeTexts, OldOrNew, Final, StagePC, InstallPC,
         RollbackPC, RollbackWindow, InstallWindow
    <2>6. OldOrNew'
      BY <1>a, <1>11, <2>0 DEF UndoSync, Goto, Synced, SyncFails, disk, FailCommit,
         Relinquish, DiskType, ControlType, Position, Index, WholeTexts, Untouched,
         OldOrNew, Final, StagePC, InstallPC, RollbackPC, RollbackWindow, InstallWindow
    <2>7. HandledFailureRestores'
      BY <1>a, <1>11, <2>0 DEF UndoSync, Goto, FailCommit, Relinquish, Position, Index,
         Placement, InstalledNow, Untouched, HandledFailureRestores, Final, StagePC,
         InstallPC, RollbackPC, RollbackWindow
    <2>8. QED
      BY <2>1, <2>4, <2>5, <2>6, <2>7 DEF Outcome
  <1>12. CASE UndoCheck
    <2>0. cur \in Index
      BY CurrentIndex, <1>a, <1>12 DEF UndoCheck, Final
    <2>1. DistinctTargets'
      BY <1>a, <1>12, <2>0 DEF UndoCheck, Goto, FailCommit, Relinquish, ControlType,
         Position, Index, DistinctTargets, StagePC, InstallPC, RollbackPC,
         RollbackWindow
    <2>4. Placement'
      BY <1>a, <1>12, <2>0 DEF UndoCheck, Goto, disk, FailCommit, Relinquish, DiskType,
         ControlType, Position, Index, Placement, InstalledNow, Displaced, Untouched,
         Final, StagePC, InstallPC, RollbackPC, RollbackWindow, InstallWindow
    <2>5. Displaced' /\ WholeTexts'
      BY <1>a, <1>12, <2>0 DEF UndoCheck, Goto, disk, FailCommit, Relinquish, DiskType,
         ControlType, Position, Index, Placement, InstalledNow, Displaced, Untouched,
         WholeTexts, OldOrNew, Final, StagePC, InstallPC, RollbackPC, RollbackWindow,
         InstallWindow
    <2>6. OldOrNew'
      BY <1>a, <1>12, <2>0 DEF UndoCheck, Goto, disk, FailCommit, Relinquish, DiskType,
         ControlType, Position, Index, WholeTexts, Untouched, OldOrNew, Final, StagePC,
         InstallPC, RollbackPC, RollbackWindow, InstallWindow
    <2>7. HandledFailureRestores'
      BY <1>a, <1>12, <2>0 DEF UndoCheck, Goto, FailCommit, Relinquish, Position, Index,
         Placement, InstalledNow, Untouched, HandledFailureRestores, Final, StagePC,
         InstallPC, RollbackPC, RollbackWindow
    <2>8. QED
      BY <2>1, <2>4, <2>5, <2>6, <2>7 DEF Outcome
  <1>13. CASE RollbackVerify
    <2>0. cur \in Index
      BY CurrentIndex, <1>a, <1>13 DEF RollbackVerify, Final
    <2>1. DistinctTargets'
      BY <1>a, <1>13, <2>0 DEF RollbackVerify, Goto, NextRollback, ControlType,
         Position, Index, DistinctTargets, StagePC, InstallPC, RollbackPC,
         RollbackWindow
    <2>4. Placement'
      BY <1>a, <1>13, <2>0 DEF RollbackVerify, Goto, RemoveOwned, NextRollback,
         DiskType, ControlType, Position, Index, Placement, InstalledNow, Displaced,
         Untouched, Final, StagePC, InstallPC, RollbackPC, RollbackWindow, InstallWindow
    <2>5. Displaced' /\ WholeTexts'
      BY <1>a, <1>13, <2>0 DEF RollbackVerify, Goto, RemoveOwned, NextRollback,
         DiskType, ControlType, Position, Index, Placement, InstalledNow, Displaced,
         Untouched, WholeTexts, OldOrNew, Final, StagePC, InstallPC, RollbackPC,
         RollbackWindow, InstallWindow
    <2>6. OldOrNew'
      BY <1>a, <1>13, <2>0 DEF RollbackVerify, Goto, RemoveOwned, NextRollback,
         DiskType, ControlType, Position, Index, WholeTexts, Untouched, OldOrNew, Final,
         StagePC, InstallPC, RollbackPC, RollbackWindow, InstallWindow
    <2>7. HandledFailureRestores'
      BY <1>a, <1>13, <2>0 DEF RollbackVerify, Goto, RemoveOwned, NextRollback,
         Position, Index, Placement, InstalledNow, Untouched, HandledFailureRestores,
         Final, StagePC, InstallPC, RollbackPC, RollbackWindow
    <2>8. QED
      BY <2>1, <2>4, <2>5, <2>6, <2>7 DEF Outcome
  <1>14. CASE RollbackExchange
    <2>0. cur \in Index
      BY CurrentIndex, <1>a, <1>14 DEF RollbackExchange, Final
    <2>1. DistinctTargets'
      BY <1>a, <1>14, <2>0 DEF RollbackExchange, Goto, NextRollback, ControlType,
         Position, Index, DistinctTargets, StagePC, InstallPC, RollbackPC,
         RollbackWindow
    <2>2. temp[cur] = "old"
      BY <1>a, <1>14, <2>0 DEF RollbackExchange, Position, StagedOwned, OwnedHoldsNew,
         BackupHoldsOld, InstallPC, InstallWindow, RollbackPC, RollbackWindow, Final,
         Index, ControlType
    <2>3. \A i \in Index : i # cur => dest'[target[i]] = dest[target[i]]
      BY WriterFrame, <1>a, <1>14, <2>0 DEF Writer, RollbackExchange, DistinctTargets,
         InstallPC, RollbackPC, RollbackWindow, DiskType
    <2>4. Placement'
      BY <1>a, <1>14, <2>0, <2>2, <2>3 DEF RollbackExchange, Goto, Swap, SwapFails,
         disk, NextRollback, DiskType, ControlType, Position, Index, Placement,
         InstalledNow, Displaced, Untouched, Final, StagePC, InstallPC, RollbackPC,
         RollbackWindow, InstallWindow
    <2>5. Displaced' /\ WholeTexts'
      BY <1>a, <1>14, <2>0, <2>2, <2>3 DEF RollbackExchange, Goto, Swap, SwapFails,
         disk, NextRollback, DiskType, ControlType, Position, Index, Placement,
         InstalledNow, Displaced, Untouched, WholeTexts, OldOrNew, Final, StagePC,
         InstallPC, RollbackPC, RollbackWindow, InstallWindow
    <2>6. OldOrNew'
      BY <1>a, <1>14, <2>0, <2>2, <2>3 DEF RollbackExchange, Goto, Swap, SwapFails,
         disk, NextRollback, DiskType, ControlType, Position, Index, WholeTexts,
         Untouched, OldOrNew, Final, StagePC, InstallPC, RollbackPC, RollbackWindow,
         InstallWindow
    <2>7. HandledFailureRestores'
      BY <1>a, <1>14, <2>0 DEF RollbackExchange, Goto, NextRollback, Position, Index,
         Placement, InstalledNow, Untouched, HandledFailureRestores, Final, StagePC,
         InstallPC, RollbackPC, RollbackWindow
    <2>8. QED
      BY <2>1, <2>4, <2>5, <2>6, <2>7 DEF Outcome
  <1>15. CASE RollbackSync
    <2>0. cur \in Index
      BY CurrentIndex, <1>a, <1>15 DEF RollbackSync, Final
    <2>1. DistinctTargets'
      BY <1>a, <1>15, <2>0 DEF RollbackSync, Goto, NextRollback, ControlType, Position,
         Index, DistinctTargets, StagePC, InstallPC, RollbackPC, RollbackWindow
    <2>4. Placement'
      BY <1>a, <1>15, <2>0 DEF RollbackSync, Goto, Synced, SyncFails, disk,
         NextRollback, DiskType, ControlType, Position, Index, Placement, InstalledNow,
         Displaced, Untouched, Final, StagePC, InstallPC, RollbackPC, RollbackWindow,
         InstallWindow
    <2>5. Displaced' /\ WholeTexts'
      BY <1>a, <1>15, <2>0 DEF RollbackSync, Goto, Synced, SyncFails, disk,
         NextRollback, DiskType, ControlType, Position, Index, Placement, InstalledNow,
         Displaced, Untouched, WholeTexts, OldOrNew, Final, StagePC, InstallPC,
         RollbackPC, RollbackWindow, InstallWindow
    <2>6. OldOrNew'
      BY <1>a, <1>15, <2>0 DEF RollbackSync, Goto, Synced, SyncFails, disk,
         NextRollback, DiskType, ControlType, Position, Index, WholeTexts, Untouched,
         OldOrNew, Final, StagePC, InstallPC, RollbackPC, RollbackWindow, InstallWindow
    <2>7. HandledFailureRestores'
      BY <1>a, <1>15, <2>0 DEF RollbackSync, Goto, NextRollback, Position, Index,
         Placement, InstalledNow, Untouched, HandledFailureRestores, Final, StagePC,
         InstallPC, RollbackPC, RollbackWindow
    <2>8. QED
      BY <2>1, <2>4, <2>5, <2>6, <2>7 DEF Outcome
  <1>16. CASE RollbackCheck
    <2>0. cur \in Index
      BY CurrentIndex, <1>a, <1>16 DEF RollbackCheck, Final
    <2>1. DistinctTargets'
      BY <1>a, <1>16, <2>0 DEF RollbackCheck, Goto, NextRollback, ControlType, Position,
         Index, DistinctTargets, StagePC, InstallPC, RollbackPC, RollbackWindow
    <2>4. Placement'
      BY <1>a, <1>16, <2>0 DEF RollbackCheck, Goto, RemoveOwned, NextRollback, DiskType,
         ControlType, Position, Index, Placement, InstalledNow, Displaced, Untouched,
         Final, StagePC, InstallPC, RollbackPC, RollbackWindow, InstallWindow
    <2>5. Displaced' /\ WholeTexts'
      BY <1>a, <1>16, <2>0 DEF RollbackCheck, Goto, RemoveOwned, NextRollback, DiskType,
         ControlType, Position, Index, Placement, InstalledNow, Displaced, Untouched,
         WholeTexts, OldOrNew, Final, StagePC, InstallPC, RollbackPC, RollbackWindow,
         InstallWindow
    <2>6. OldOrNew'
      BY <1>a, <1>16, <2>0 DEF RollbackCheck, Goto, RemoveOwned, NextRollback, DiskType,
         ControlType, Position, Index, WholeTexts, Untouched, OldOrNew, Final, StagePC,
         InstallPC, RollbackPC, RollbackWindow, InstallWindow
    <2>7. HandledFailureRestores'
      BY <1>a, <1>16, <2>0 DEF RollbackCheck, Goto, RemoveOwned, NextRollback, Position,
         Index, Placement, InstalledNow, Untouched, HandledFailureRestores, Final,
         StagePC, InstallPC, RollbackPC, RollbackWindow
    <2>8. QED
      BY <2>1, <2>4, <2>5, <2>6, <2>7 DEF Outcome
  <1>17. CASE RollbackUndo
    <2>0. cur \in Index
      BY CurrentIndex, <1>a, <1>17 DEF RollbackUndo, Final
    <2>1. DistinctTargets'
      BY <1>a, <1>17, <2>0 DEF RollbackUndo, Goto, NextRollback, ControlType, Position,
         Index, DistinctTargets, StagePC, InstallPC, RollbackPC, RollbackWindow
    <2>3. \A i \in Index : i # cur => dest'[target[i]] = dest[target[i]]
      BY WriterFrame, <1>a, <1>17, <2>0 DEF Writer, RollbackUndo, DistinctTargets,
         InstallPC, RollbackPC, RollbackWindow, DiskType
    <2>4. Placement'
      BY <1>a, <1>17, <2>0, <2>3 DEF RollbackUndo, Goto, Swap, SwapFails, disk,
         NextRollback, DiskType, ControlType, Position, Index, Placement, InstalledNow,
         Displaced, Untouched, Final, StagePC, InstallPC, RollbackPC, RollbackWindow,
         InstallWindow
    <2>5. Displaced' /\ WholeTexts'
      BY <1>a, <1>17, <2>0, <2>3 DEF RollbackUndo, Goto, Swap, SwapFails, disk,
         NextRollback, DiskType, ControlType, Position, Index, Placement, InstalledNow,
         Displaced, Untouched, WholeTexts, OldOrNew, Final, StagePC, InstallPC,
         RollbackPC, RollbackWindow, InstallWindow
    <2>6. OldOrNew'
      BY <1>a, <1>17, <2>0, <2>3 DEF RollbackUndo, Goto, Swap, SwapFails, disk,
         NextRollback, DiskType, ControlType, Position, Index, WholeTexts, Untouched,
         OldOrNew, Final, StagePC, InstallPC, RollbackPC, RollbackWindow, InstallWindow
    <2>7. HandledFailureRestores'
      BY <1>a, <1>17, <2>0 DEF RollbackUndo, Goto, NextRollback, Position, Index,
         Placement, InstalledNow, Untouched, HandledFailureRestores, Final, StagePC,
         InstallPC, RollbackPC, RollbackWindow
    <2>8. QED
      BY <2>1, <2>4, <2>5, <2>6, <2>7 DEF Outcome
  <1>18. CASE RollbackUndoSync
    <2>0. cur \in Index
      BY CurrentIndex, <1>a, <1>18 DEF RollbackUndoSync, Final
    <2>1. DistinctTargets'
      BY <1>a, <1>18, <2>0 DEF RollbackUndoSync, Goto, NextRollback, ControlType,
         Position, Index, DistinctTargets, StagePC, InstallPC, RollbackPC,
         RollbackWindow
    <2>4. Placement'
      BY <1>a, <1>18, <2>0 DEF RollbackUndoSync, Goto, Synced, SyncFails, disk,
         NextRollback, DiskType, ControlType, Position, Index, Placement, InstalledNow,
         Displaced, Untouched, Final, StagePC, InstallPC, RollbackPC, RollbackWindow,
         InstallWindow
    <2>5. Displaced' /\ WholeTexts'
      BY <1>a, <1>18, <2>0 DEF RollbackUndoSync, Goto, Synced, SyncFails, disk,
         NextRollback, DiskType, ControlType, Position, Index, Placement, InstalledNow,
         Displaced, Untouched, WholeTexts, OldOrNew, Final, StagePC, InstallPC,
         RollbackPC, RollbackWindow, InstallWindow
    <2>6. OldOrNew'
      BY <1>a, <1>18, <2>0 DEF RollbackUndoSync, Goto, Synced, SyncFails, disk,
         NextRollback, DiskType, ControlType, Position, Index, WholeTexts, Untouched,
         OldOrNew, Final, StagePC, InstallPC, RollbackPC, RollbackWindow, InstallWindow
    <2>7. HandledFailureRestores'
      BY <1>a, <1>18, <2>0 DEF RollbackUndoSync, Goto, NextRollback, Position, Index,
         Placement, InstalledNow, Untouched, HandledFailureRestores, Final, StagePC,
         InstallPC, RollbackPC, RollbackWindow
    <2>8. QED
      BY <2>1, <2>4, <2>5, <2>6, <2>7 DEF Outcome
  <1>19. CASE RollbackUndoCheck
    <2>0. cur \in Index
      BY CurrentIndex, <1>a, <1>19 DEF RollbackUndoCheck, Final
    <2>1. DistinctTargets'
      BY <1>a, <1>19, <2>0 DEF RollbackUndoCheck, Goto, NextRollback, ControlType,
         Position, Index, DistinctTargets, StagePC, InstallPC, RollbackPC,
         RollbackWindow
    <2>4. Placement'
      BY <1>a, <1>19, <2>0 DEF RollbackUndoCheck, Goto, RemoveOwned, NextRollback,
         DiskType, ControlType, Position, Index, Placement, InstalledNow, Displaced,
         Untouched, Final, StagePC, InstallPC, RollbackPC, RollbackWindow, InstallWindow
    <2>5. Displaced' /\ WholeTexts'
      BY <1>a, <1>19, <2>0 DEF RollbackUndoCheck, Goto, RemoveOwned, NextRollback,
         DiskType, ControlType, Position, Index, Placement, InstalledNow, Displaced,
         Untouched, WholeTexts, OldOrNew, Final, StagePC, InstallPC, RollbackPC,
         RollbackWindow, InstallWindow
    <2>6. OldOrNew'
      BY <1>a, <1>19, <2>0 DEF RollbackUndoCheck, Goto, RemoveOwned, NextRollback,
         DiskType, ControlType, Position, Index, WholeTexts, Untouched, OldOrNew, Final,
         StagePC, InstallPC, RollbackPC, RollbackWindow, InstallWindow
    <2>7. HandledFailureRestores'
      BY <1>a, <1>19, <2>0 DEF RollbackUndoCheck, Goto, RemoveOwned, NextRollback,
         Position, Index, Placement, InstalledNow, Untouched, HandledFailureRestores,
         Final, StagePC, InstallPC, RollbackPC, RollbackWindow
    <2>8. QED
      BY <2>1, <2>4, <2>5, <2>6, <2>7 DEF Outcome
  <1>20. CASE RollbackDone
    <2>1. DistinctTargets'
      BY <1>a, <1>20 DEF RollbackDone, Goto, ControlType, Position, Index,
         DistinctTargets, StagePC, InstallPC, RollbackPC, RollbackWindow
    <2>4. Placement'
      BY <1>a, <1>20 DEF RollbackDone, Goto, disk, DiskType, ControlType, Position,
         Index, Placement, InstalledNow, Displaced, Untouched, Final, StagePC,
         InstallPC, RollbackPC, RollbackWindow, InstallWindow
    <2>5. Displaced' /\ WholeTexts'
      BY <1>a, <1>20 DEF RollbackDone, Goto, disk, DiskType, ControlType, Position,
         Index, Placement, InstalledNow, Displaced, Untouched, WholeTexts, OldOrNew,
         Final, StagePC, InstallPC, RollbackPC, RollbackWindow, InstallWindow
    <2>6. OldOrNew'
      BY <1>a, <1>20 DEF RollbackDone, Goto, disk, DiskType, ControlType, Position,
         Index, WholeTexts, Untouched, OldOrNew, Final, StagePC, InstallPC, RollbackPC,
         RollbackWindow, InstallWindow
    <2>7. HandledFailureRestores'
      BY <1>a, <1>20 DEF RollbackDone, Goto, Position, Index, Placement, InstalledNow,
         Untouched, HandledFailureRestores, Final, StagePC, InstallPC, RollbackPC,
         RollbackWindow
    <2>8. QED
      BY <2>1, <2>4, <2>5, <2>6, <2>7 DEF Outcome
  <1>21. CASE Cleanup
    <2>0. cur \in Index
      BY CurrentIndex, <1>a, <1>21 DEF Cleanup, Final
    <2>1. DistinctTargets'
      BY <1>a, <1>21, <2>0 DEF Cleanup, Goto, ControlType, Position, Index,
         DistinctTargets, StagePC, InstallPC, RollbackPC, RollbackWindow
    <2>4. Placement'
      BY <1>a, <1>21, <2>0 DEF Cleanup, Goto, RemoveOwned, DiskType, ControlType,
         Position, Index, Placement, InstalledNow, Displaced, Untouched, Final, StagePC,
         InstallPC, RollbackPC, RollbackWindow, InstallWindow
    <2>5. Displaced' /\ WholeTexts'
      BY <1>a, <1>21, <2>0 DEF Cleanup, Goto, RemoveOwned, DiskType, ControlType,
         Position, Index, Placement, InstalledNow, Displaced, Untouched, WholeTexts,
         OldOrNew, Final, StagePC, InstallPC, RollbackPC, RollbackWindow, InstallWindow
    <2>6. OldOrNew'
      BY <1>a, <1>21, <2>0 DEF Cleanup, Goto, RemoveOwned, DiskType, ControlType,
         Position, Index, WholeTexts, Untouched, OldOrNew, Final, StagePC, InstallPC,
         RollbackPC, RollbackWindow, InstallWindow
    <2>7. HandledFailureRestores'
      BY <1>a, <1>21, <2>0 DEF Cleanup, Goto, RemoveOwned, Position, Index, Placement,
         InstalledNow, Untouched, HandledFailureRestores, Final, StagePC, InstallPC,
         RollbackPC, RollbackWindow
    <2>8. QED
      BY <2>1, <2>4, <2>5, <2>6, <2>7 DEF Outcome
  <1>22. CASE CleanBackups
    <2>0. cur \in Index
      BY CurrentIndex, <1>a, <1>22 DEF CleanBackups, Final
    <2>1. DistinctTargets'
      BY <1>a, <1>22, <2>0 DEF CleanBackups, Goto, ControlType, Position, Index,
         DistinctTargets, StagePC, InstallPC, RollbackPC, RollbackWindow
    <2>4. Placement'
      BY <1>a, <1>22, <2>0 DEF CleanBackups, Goto, RemoveOwned, DiskType, ControlType,
         Position, Index, Placement, InstalledNow, Displaced, Untouched, Final, StagePC,
         InstallPC, RollbackPC, RollbackWindow, InstallWindow
    <2>5. Displaced' /\ WholeTexts'
      BY <1>a, <1>22, <2>0 DEF CleanBackups, Goto, RemoveOwned, DiskType, ControlType,
         Position, Index, Placement, InstalledNow, Displaced, Untouched, WholeTexts,
         OldOrNew, Final, StagePC, InstallPC, RollbackPC, RollbackWindow, InstallWindow
    <2>6. OldOrNew'
      BY <1>a, <1>22, <2>0 DEF CleanBackups, Goto, RemoveOwned, DiskType, ControlType,
         Position, Index, WholeTexts, Untouched, OldOrNew, Final, StagePC, InstallPC,
         RollbackPC, RollbackWindow, InstallWindow
    <2>7. HandledFailureRestores'
      BY <1>a, <1>22, <2>0 DEF CleanBackups, Goto, RemoveOwned, Position, Index,
         Placement, InstalledNow, Untouched, HandledFailureRestores, Final, StagePC,
         InstallPC, RollbackPC, RollbackWindow
    <2>8. QED
      BY <2>1, <2>4, <2>5, <2>6, <2>7 DEF Outcome
  <1>23. ASSUME NEW f \in Files, NEW content \in Edits \cup {"old", "gone"},
                ExternalWrite(f, content)
         PROVE  Outcome'
    <2>1. /\ dest'[f] = content /\ last'[f] = content /\ content \notin {"untouched", "partial"}
          /\ \A g \in Files : g # f => dest'[g] = dest[g] /\ last'[g] = last[g]
      BY <1>a, <1>23, FixedNotEdits DEF ExternalWrite, DiskType, CounterType, Fixed
    <2>2. DistinctTargets' /\ HandledFailureRestores'
      BY <1>a, <1>23 DEF ExternalWrite, DistinctTargets, HandledFailureRestores, Final
    <2>3. Placement'
      BY <1>a, <1>23, <2>1 DEF ExternalWrite, Placement, InstalledNow, Untouched, DiskType
    <2>4. pc \in InstallWindow \cup RollbackWindow => cur \in Index
      BY <1>a DEF Position, InstallWindow, InstallPC, RollbackPC, RollbackWindow
    <2>5. Displaced' /\ WholeTexts'
      BY <1>a, <1>23, <2>1, <2>4 DEF ExternalWrite, Displaced, WholeTexts, Untouched,
         DiskType, InstallWindow, RollbackWindow
    <2>6. OldOrNew'
      BY <1>a, <2>1 DEF OldOrNew
    <2>7. QED
      BY <2>2, <2>3, <2>5, <2>6 DEF Outcome
  <1>24. CASE Crash
    <2>1. pc' = "crashed" /\ UNCHANGED <<target, last>>
      BY <1>24 DEF Crash
    <2>2. \A f \in Files : \/ dest'[f] = dest[f]
                           \/ f = target[cur] /\ dest'[f] = temp[cur] /\ pc \in SyncPC
      BY <1>24, CrashUndoesOne DEF All
    <2>3. OldOrNew'
      BY <1>a, <2>1, <2>2 DEF OldOrNew, WholeTexts, Untouched, SyncPC, InstallWindow,
         RollbackWindow
    <2>4. DistinctTargets' /\ Placement' /\ Displaced' /\ WholeTexts' /\ HandledFailureRestores'
      BY <2>1 DEF DistinctTargets, Placement, Displaced, WholeTexts, HandledFailureRestores,
         Final, StagePC, InstallPC, InstallWindow, RollbackPC, RollbackWindow
    <2>5. QED
      BY <2>3, <2>4 DEF Outcome
  <1>25. CASE UNCHANGED writeVars
    BY <1>a, <1>25 DEF writeVars, Outcome, DistinctTargets, Placement, InstalledNow, Displaced,
       WholeTexts, Untouched, OldOrNew, HandledFailureRestores
  <1>26. QED
    BY <1>1, <1>2, <1>3, <1>4, <1>5, <1>6, <1>7, <1>8, <1>9, <1>10, <1>11, <1>12, <1>13,
       <1>14, <1>15, <1>16, <1>17, <1>18, <1>19, <1>20, <1>21, <1>22, <1>23, <1>24,
       <1>25 DEF WriteNext, Writer

\* The invariants hold together in every reachable state.
LEMMA AllHold == ~SyncFaults => (WriteSpec => []All)
  <1> SUFFICES ASSUME ~SyncFaults PROVE WriteSpec => []All
    OBVIOUS
  <1>1. WriteInit => All
    BY InvInit, LedgerInit, OutcomeInit DEF All
  <1>2. All /\ [WriteNext]_writeVars => All'
    BY InvStep, LedgerStep, OutcomeStep DEF All, Inv, Control
  <1>3. QED
    BY <1>1, <1>2, PTL DEF WriteSpec

\* Whatever fails while a run of any number of files is being installed, the
\* rollback gives every file nobody else wrote its analysed text back, unless
\* the restoration of that very file met an I/O fault; the assumption is that a
\* directory fsync does not fail after its rename.
THEOREM FailureRestores == ~SyncFaults => (WriteSpec => []HandledFailureRestores)
  <1>1. All => HandledFailureRestores
    BY DEF All, Outcome
  <1>2. QED
    BY <1>1, AllHold, PTL

\* A crash at any moment of a run of any number of files shows complete texts
\* only, and takes back no exchange but the one that is not yet fsynced.
THEOREM CrashesAreSafe == ~SyncFaults => (WriteSpec => CrashSafe)
  <1> SUFFICES ASSUME ~SyncFaults PROVE WriteSpec => CrashSafe
    OBVIOUS
  <1>1. All => OldOrNew
    BY DEF All, Outcome
  <1>2. ASSUME All, [WriteNext]_writeVars
        PROVE  [pc' = "crashed" =>
                  \A i \in Index :
                    dest'[target[i]] # dest[target[i]] =>
                      i = cur /\ pc \in {"installSync", "undoSync", "rbSync", "rbUndoSync"}]_writeVars
    <2>1. CASE Crash
      <3>1. \A f \in Files : \/ dest'[f] = dest[f]
                             \/ f = target[cur] /\ dest'[f] = temp[cur] /\ pc \in SyncPC
        BY <1>2, <2>1, CrashUndoesOne DEF All
      <3>2. pc \in SyncPC => \A i, j \in Index : target[i] = target[j] => i = j
        BY <1>2 DEF All, Outcome, DistinctTargets, SyncPC, InstallPC, RollbackPC,
           RollbackWindow
      <3>3. pc \in SyncPC => cur \in Index
        BY <1>2 DEF All, Inv, Position, SyncPC, InstallPC, RollbackPC, RollbackWindow
      <3>4. target \in [Index -> Files]
        BY <1>2 DEF All, Inv, WriteTypeOK, DiskType
      <3>5. QED
        BY <3>1, <3>2, <3>3, <3>4 DEF SyncPC
    <2>2. CASE UNCHANGED writeVars
      BY <2>2
    <2>3. ASSUME NEW f \in Files, NEW content \in Edits \cup {"old", "gone"},
                 ExternalWrite(f, content)
          PROVE  pc' # "crashed"
      BY <2>3 DEF ExternalWrite, Final
    <2>4. CASE Writer
      <3>1. pc' # "crashed"
        BY <2>4 DEF Writer, Goto, FailCommit, NextRollback,
           Inspect, VerifyBeforeStage, CreateStagingFile, WriteStaged, StagingFails,
           LateVerify, Install, InstallSync, CheckInstall, Undo, UndoSync, UndoCheck,
           RollbackVerify, RollbackExchange, RollbackSync, RollbackCheck,
           RollbackUndo, RollbackUndoSync, RollbackUndoCheck, RollbackDone, Cleanup,
           CleanBackups
      <3>2. QED
        BY <3>1
    <2>5. QED
      BY <1>2, <2>1, <2>2, <2>3, <2>4 DEF WriteNext
  <1>3. QED
    BY <1>1, <1>2, AllHold, PTL DEF WriteSpec, CrashSafe, ConfirmedIsDurable
=============================================================================
