---------------------------- MODULE StagedWrite ----------------------------
(***************************************************************************)
(* The staged multi-file writer behind `fmt` and `lint --fix`              *)
(* (crates/pure-analyzer-cli/src/workflow/write.rs).                       *)
(*                                                                         *)
(* One run replaces the files named by a sequence of N replacements.  Each *)
(* replacement is staged in a private sibling file, then installed by an   *)
(* atomic exchange of the two directory entries; the displaced entry is    *)
(* the backup until the run ends.  Around the run move an external editor  *)
(* (another program writing the same paths), I/O faults of every system    *)
(* call, and a crash.                                                      *)
(*                                                                         *)
(* Contents are abstract: what the replacement was computed from ("old"),  *)
(* its replacement text ("new"), a half-written staging file ("partial"),  *)
(* no such file ("gone"), and whatever the editor writes (Edits; a symlink *)
(* or a directory put in the file's place is one of them: every read of it *)
(* is refused, as a content that differs is).                              *)
(***************************************************************************)
EXTENDS Naturals, FiniteSets

CONSTANTS
  N,          \* number of replacements in the run
  Files,      \* canonical destinations
  Edits,      \* contents an external editor may write
  MaxEdits,   \* bound on external writes
  MaxFaults,  \* bound on injected I/O faults
  SyncFaults  \* may the directory fsync after a completed rename fail?

Fixed == {"old", "new", "partial", "gone", "untouched"}

ASSUME NAssumption == N \in Nat
ASSUME EditsAssumption == Edits \cap Fixed = {}
ASSUME WriteBoundsAssumption == MaxEdits \in Nat /\ MaxFaults \in Nat
ASSUME SyncAssumption == SyncFaults \in BOOLEAN

VARIABLES
  target,    \* replacement index -> canonical destination
  dest,      \* destination -> content at that path
  temp,      \* replacement index -> content at its staging path
  unsynced,  \* indices whose last exchange is not yet fsynced
  pc,        \* where the writer is; "ok", "error" and "crashed" are final
  cur,       \* loop index of the loop the writer is in
  owned,     \* indices whose StagedReplacement still has temporary = Some
  committed, \* length of the committed vector: indices 1..committed
  expect,    \* expected_destination of a restoration: "None" or "Some"
  named,     \* indices whose staging path the failure message names
  badUndo,   \* history: indices whose restoration met an I/O fault
  last,      \* history: last external write to a destination
  edits,     \* number of external writes so far
  faults     \* number of I/O faults so far

disk == <<dest, temp, unsynced>>
writeVars == <<target, dest, temp, unsynced, pc, cur, owned, committed, expect,
          named, badUndo, last, edits, faults>>

Index == 1..N
Content == Edits \cup {"old", "new", "partial", "gone"}
Final == {"ok", "error", "crashed"}
PC == Final \cup
  {"inspect", "verify", "create", "write",
   "late", "install", "installSync", "check",
   "undo", "undoSync", "undoCheck",
   "rbVerify", "rbExchange", "rbSync", "rbCheck",
   "rbUndo", "rbUndoSync", "rbUndoCheck",
   "cleanup", "cleanBackups"}

WriteInit ==
  /\ target \in [Index -> Files]
  /\ dest = [f \in Files |-> "old"]
  /\ temp = [i \in Index |-> "gone"]
  /\ unsynced = {}
  /\ pc = IF N = 0 THEN "ok" ELSE "inspect"
  /\ cur = IF N = 0 THEN 0 ELSE 1
  /\ owned = {}
  /\ committed = 0
  /\ expect = "None"
  /\ named = {}
  /\ badUndo = {}
  /\ last = [f \in Files |-> "untouched"]
  /\ edits = 0
  /\ faults = 0

-----------------------------------------------------------------------------
(* File-system calls *)

\* A step meets n failing system calls, of a bounded total.
Faults(n) == faults + n <= MaxFaults /\ faults' = faults + n
Fault == Faults(1)
NoFault == UNCHANGED faults

\* renameat2(RENAME_EXCHANGE) of a staging path and its destination: the
\* first half of atomic_exchange.  Not durable until the directory is synced.
Swap(i) ==
  /\ dest[target[i]] # "gone"
  /\ dest' = [dest EXCEPT ![target[i]] = temp[i]]
  /\ temp' = [temp EXCEPT ![i] = dest[target[i]]]
  /\ unsynced' = unsynced \cup {i}

\* The exchange reports an error before anything changed on disk.
SwapFails(i) ==
  /\ \/ dest[target[i]] = "gone" /\ NoFault
     \/ Fault
  /\ UNCHANGED disk

\* Variant used to test the properties: the directory is never synced.
SyncedWithoutFsync(i) == NoFault /\ UNCHANGED disk

\* fsync_parent_directory after the exchange: the second half.
Synced(i) == NoFault /\ unsynced' = unsynced \ {i} /\ UNCHANGED <<dest, temp>>
SyncFails == SyncFaults /\ Fault /\ UNCHANGED disk

\* Variant used to test the properties: a failed removal is not reported.
RemoveOwnedSilently(i, n) ==
  /\ \/ temp' = [temp EXCEPT ![i] = "gone"] /\ Faults(n)
     \/ UNCHANGED temp /\ Faults(n + 1)
  /\ UNCHANGED named

\* remove_owned_file on a staging path, in a step that already met n faults;
\* a failure is reported by path.
RemoveOwned(i, n) ==
  \/ temp' = [temp EXCEPT ![i] = "gone"] /\ Faults(n) /\ UNCHANGED named
  \/ Faults(n + 1) /\ named' = named \cup {i} /\ UNCHANGED temp

\* verify_snapshot and its variants: the read fails, or compares contents.
Reads(actual, expected, ok) ==
  \/ ok = (actual = expected) /\ NoFault
  \/ ok = FALSE /\ Fault

-----------------------------------------------------------------------------
(* Staging: replace_all_with_operations, StagedReplacement::stage *)

Goto(p, i) == pc' = p /\ cur' = i

\* ensure_regular_file, canonicalize and the duplicate-destination check.
Inspect ==
  /\ pc = "inspect"
  /\ LET duplicate == \E j \in 1..(cur - 1) : target[j] = target[cur]
         missing   == dest[target[cur]] = "gone"
     IN \/ NoFault /\ IF duplicate \/ missing THEN Goto("cleanup", 1)
                                              ELSE Goto("verify", cur)
        \/ Fault /\ Goto("cleanup", 1)
  /\ UNCHANGED <<target, disk, owned, committed, expect, named, badUndo, last, edits>>

\* verify_snapshot(path, before) before anything is written.
VerifyBeforeStage ==
  /\ pc = "verify"
  /\ \E ok \in BOOLEAN :
       /\ Reads(dest[target[cur]], "old", ok)
       /\ IF ok THEN Goto("create", cur) ELSE Goto("cleanup", 1)
  /\ UNCHANGED <<target, disk, owned, committed, expect, named, badUndo, last, edits>>

\* create_staging_file: create_new under a fresh name, or an error.
CreateStagingFile ==
  /\ pc = "create"
  /\ \/ NoFault /\ temp' = [temp EXCEPT ![cur] = "partial"] /\ Goto("write", cur)
     \/ Fault /\ UNCHANGED temp /\ Goto("cleanup", 1)
  /\ UNCHANGED <<target, dest, unsynced, owned, committed, expect, named, badUndo,
                 last, edits>>

\* write_staged succeeds and the replacement joins the staged vector.
WriteStaged ==
  /\ pc = "write"
  /\ temp' = [temp EXCEPT ![cur] = "new"]
  /\ owned' = owned \cup {cur}
  /\ IF cur = N THEN Goto("late", 1) ELSE Goto("inspect", cur + 1)
  /\ NoFault
  /\ UNCHANGED <<target, dest, unsynced, committed, expect, named, badUndo, last, edits>>

\* write_staged fails; clean_staged_after_failure removes the file.
StagingFails ==
  /\ pc = "write"
  /\ RemoveOwned(cur, 1)
  /\ Goto("cleanup", 1)
  /\ UNCHANGED <<target, dest, unsynced, owned, committed, expect, badUndo, last, edits>>

-----------------------------------------------------------------------------
(* Installation: commit, StagedReplacement::switch *)

\* Variant used to test the properties: no rollback.
FailWithoutRollback == Goto("cleanup", 1)

\* A failed switch enters fail_commit, which rolls back in reverse order.
FailCommit == Goto("rbVerify", committed)

\* The late verify_snapshot, immediately before the exchange.
LateVerify ==
  /\ pc = "late"
  /\ \E ok \in BOOLEAN :
       /\ Reads(dest[target[cur]], "old", ok)
       /\ IF ok THEN Goto("install", cur) ELSE FailCommit
  /\ UNCHANGED <<target, disk, owned, committed, expect, named, badUndo, last, edits>>

Install ==
  /\ pc = "install"
  /\ \/ Swap(cur) /\ NoFault /\ Goto("installSync", cur)
     \/ SwapFails(cur) /\ FailCommit
  /\ UNCHANGED <<target, owned, committed, expect, named, badUndo, last, edits>>

\* An fsync error after the rename reaches `switch` as a failed exchange.
InstallSync ==
  /\ pc = "installSync"
  /\ \/ Synced(cur) /\ Goto("check", cur)
     \/ SyncFails /\ FailCommit
  /\ UNCHANGED <<target, owned, committed, expect, named, badUndo, last, edits>>

\* A restoration expects the displaced text at the destination only when that
\* text passed its own verification.
SomeIf(verified) == IF verified THEN "Some" ELSE "None"

\* verify_displaced_snapshot and verify_installed_snapshot.  The staging path
\* is private to the run, so both reads may be taken at one instant.
CheckInstall ==
  /\ pc = "check"
  /\ LET displaced == temp[cur] = "old"
         installed == dest[target[cur]] = "new"
     IN \/ /\ displaced /\ installed /\ NoFault
           /\ committed' = committed + 1
           /\ owned' = owned \ {cur}
           /\ IF cur = N THEN Goto("cleanBackups", 1) ELSE Goto("late", cur + 1)
           /\ UNCHANGED expect
        \/ /\ \/ ~(displaced /\ installed) /\ NoFault /\ expect' = SomeIf(displaced)
              \/ Fault /\ expect' \in {"None", SomeIf(displaced)}
           /\ Goto("undo", cur)
           /\ UNCHANGED <<committed, owned>>
  /\ UNCHANGED <<target, disk, named, badUndo, last, edits>>

\* Variant used to test the properties: the path stays owned.
RelinquishNothing == owned' = owned /\ named' = named \cup {cur}

\* temporary = None: the staging path is kept and named in the failure.
Relinquish == owned' = owned \ {cur} /\ named' = named \cup {cur}

\* restore_invalid_install: exchange the displaced entry back.
Undo ==
  /\ pc = "undo"
  /\ \/ Swap(cur) /\ NoFault /\ Goto("undoSync", cur) /\ UNCHANGED <<owned, named, badUndo>>
     \/ SwapFails(cur) /\ Relinquish /\ FailCommit /\ badUndo' = badUndo \cup {cur}
  /\ UNCHANGED <<target, committed, expect, last, edits>>

UndoSync ==
  /\ pc = "undoSync"
  /\ \/ Synced(cur) /\ Goto("undoCheck", cur) /\ UNCHANGED <<owned, named, badUndo>>
     \/ SyncFails /\ Relinquish /\ FailCommit /\ badUndo' = badUndo \cup {cur}
  /\ UNCHANGED <<target, committed, expect, last, edits>>

\* The staged text must be back at the staging path and, when the install was
\* what failed verification, the analysed text at the destination.
UndoCheck ==
  /\ pc = "undoCheck"
  /\ LET clean == /\ temp[cur] = "new"
                  /\ expect = "Some" => dest[target[cur]] = "old"
     IN \/ clean /\ NoFault /\ UNCHANGED <<owned, named>>
        \/ ~clean /\ NoFault /\ Relinquish
        \/ Fault /\ Relinquish
  /\ FailCommit
  /\ UNCHANGED <<target, disk, committed, expect, badUndo, last, edits>>

-----------------------------------------------------------------------------
(* Rollback: rollback, rollback_one *)

\* Variant used to test the properties: the loop does not advance.
RollbackStuck == Goto("rbVerify", cur)

NextRollback == Goto("rbVerify", cur - 1)

\* An installed file that no longer holds the run's output is left alone and
\* its backup removed (clean_backup_after_failure).
RollbackVerify ==
  /\ pc = "rbVerify"
  /\ cur > 0
  /\ \/ /\ dest[target[cur]] = "new"
        /\ NoFault
        /\ Goto("rbExchange", cur)
        /\ UNCHANGED <<temp, named, badUndo>>
     \/ /\ dest[target[cur]] # "new"
        /\ RemoveOwned(cur, 0)
        /\ NextRollback
        /\ UNCHANGED badUndo
     \/ /\ RemoveOwned(cur, 1)
        /\ NextRollback
        /\ badUndo' = badUndo \cup {cur}
  /\ UNCHANGED <<target, dest, unsynced, owned, committed, expect, last, edits>>

\* A failed exchange leaves the backup where it is; the message names only
\* the destination.
RollbackExchange ==
  /\ pc = "rbExchange"
  /\ \/ Swap(cur) /\ NoFault /\ Goto("rbSync", cur) /\ UNCHANGED badUndo
     \/ SwapFails(cur) /\ NextRollback /\ badUndo' = badUndo \cup {cur}
  /\ UNCHANGED <<target, owned, committed, expect, named, last, edits>>

RollbackSync ==
  /\ pc = "rbSync"
  /\ \/ Synced(cur) /\ Goto("rbCheck", cur) /\ UNCHANGED badUndo
     \/ SyncFails /\ NextRollback /\ badUndo' = badUndo \cup {cur}
  /\ UNCHANGED <<target, owned, committed, expect, named, last, edits>>

\* verify_rollback_displaced_snapshot, verify_rolled_back_snapshot, and on
\* success the removal of the backup.
RollbackCheck ==
  /\ pc = "rbCheck"
  /\ LET displaced == temp[cur] = "new"
         restored  == dest[target[cur]] = "old"
     IN \/ /\ displaced /\ restored
           /\ RemoveOwned(cur, 0)
           /\ NextRollback
           /\ UNCHANGED <<expect, badUndo>>
        \/ /\ \/ ~(displaced /\ restored) /\ NoFault /\ expect' = SomeIf(displaced)
                 /\ UNCHANGED badUndo
              \/ Fault /\ expect' \in {"None", SomeIf(displaced)} /\ badUndo' = badUndo \cup {cur}
           /\ Goto("rbUndo", cur)
           /\ UNCHANGED <<temp, named>>
  /\ UNCHANGED <<target, dest, unsynced, owned, committed, last, edits>>

\* restore_rollback_after_mismatch: put the external edit back.
RollbackUndo ==
  /\ pc = "rbUndo"
  /\ \/ Swap(cur) /\ NoFault /\ Goto("rbUndoSync", cur) /\ UNCHANGED named
     \/ SwapFails(cur) /\ NextRollback /\ named' = named \cup {cur}
  /\ UNCHANGED <<target, owned, committed, expect, badUndo, last, edits>>

RollbackUndoSync ==
  /\ pc = "rbUndoSync"
  /\ \/ Synced(cur) /\ Goto("rbUndoCheck", cur) /\ UNCHANGED named
     \/ SyncFails /\ NextRollback /\ named' = named \cup {cur}
  /\ UNCHANGED <<target, owned, committed, expect, badUndo, last, edits>>

RollbackUndoCheck ==
  /\ pc = "rbUndoCheck"
  /\ LET clean == /\ temp[cur] = "old"
                  /\ expect = "Some" => dest[target[cur]] = "new"
     IN \/ clean /\ RemoveOwned(cur, 0)
        \/ ~clean /\ NoFault /\ named' = named \cup {cur} /\ UNCHANGED temp
        \/ Fault /\ named' = named \cup {cur} /\ UNCHANGED temp
  /\ NextRollback
  /\ UNCHANGED <<target, dest, unsynced, owned, committed, expect, badUndo, last, edits>>

RollbackDone ==
  /\ pc = "rbVerify"
  /\ cur = 0
  /\ Goto("cleanup", 1)
  /\ UNCHANGED <<target, disk, owned, committed, expect, named, badUndo, last, edits, faults>>

-----------------------------------------------------------------------------
(* The end of the run *)

\* clean_staged_replacements: every staging file the run still owns.
Cleanup ==
  /\ pc = "cleanup"
  /\ cur <= N
  /\ IF cur \in owned THEN RemoveOwned(cur, 0) ELSE NoFault /\ UNCHANGED <<temp, named>>
  /\ owned' = owned \ {cur}
  /\ IF cur = N THEN Goto("error", cur) ELSE Goto("cleanup", cur + 1)
  /\ UNCHANGED <<target, dest, unsynced, committed, expect, badUndo, last, edits>>

\* clean_transaction_artifacts: every backup; a failure turns the run into an
\* error although all replacements are installed.
CleanBackups ==
  /\ pc = "cleanBackups"
  /\ RemoveOwned(cur, 0)
  /\ IF cur < N THEN Goto("cleanBackups", cur + 1)
     ELSE Goto(IF named' = {} THEN "ok" ELSE "error", cur)
  /\ UNCHANGED <<target, dest, unsynced, owned, committed, expect, badUndo, last, edits>>

Writer ==
  \/ Inspect \/ VerifyBeforeStage \/ CreateStagingFile \/ WriteStaged \/ StagingFails
  \/ LateVerify \/ Install \/ InstallSync \/ CheckInstall
  \/ Undo \/ UndoSync \/ UndoCheck
  \/ RollbackVerify \/ RollbackExchange \/ RollbackSync \/ RollbackCheck
  \/ RollbackUndo \/ RollbackUndoSync \/ RollbackUndoCheck \/ RollbackDone
  \/ Cleanup \/ CleanBackups

\* Another program writes, reverts or deletes a destination.  It never
\* touches a staging path, whose name carries the run's pid and a nonce.
ExternalWrite(f, content) ==
  /\ pc \notin Final
  /\ edits < MaxEdits
  /\ edits' = edits + 1
  /\ dest' = [dest EXCEPT ![f] = content]
  /\ last' = [last EXCEPT ![f] = content]
  /\ UNCHANGED <<target, temp, unsynced, pc, cur, owned, committed, expect, named,
                 badUndo, faults>>

\* SIGKILL or power loss.  An exchange whose directory was not fsynced may
\* or may not have reached the disk.
Crash ==
  /\ pc \notin Final
  /\ pc' = "crashed"
  /\ \E lost \in SUBSET {i \in unsynced : temp[i] # "gone"} :
       /\ dest' = [f \in Files |->
                     IF \E i \in lost : target[i] = f
                     THEN temp[CHOOSE i \in lost : target[i] = f] ELSE dest[f]]
       /\ temp' = [i \in Index |-> IF i \in lost THEN dest[target[i]] ELSE temp[i]]
  /\ UNCHANGED <<target, unsynced, cur, owned, committed, expect, named, badUndo,
                 last, edits, faults>>

WriteNext ==
  \/ Writer
  \/ \E f \in Files, content \in Edits \cup {"old", "gone"} : ExternalWrite(f, content)
  \/ Crash

WriteSpec == WriteInit /\ [][WriteNext]_writeVars /\ WF_writeVars(Writer)

-----------------------------------------------------------------------------
(* Properties *)

DiskType ==
  /\ target \in [Index -> Files]
  /\ dest \in [Files -> Content]
  /\ temp \in [Index -> Content]
  /\ unsynced \subseteq Index

ControlType ==
  /\ pc \in PC
  /\ cur \in 0..N
  /\ committed \in 0..N

ArtifactType == owned \subseteq Index /\ named \subseteq Index /\ badUndo \subseteq Index

CounterType ==
  /\ expect \in {"None", "Some"}
  /\ last \in [Files -> Content \cup {"untouched"}]
  /\ edits \in 0..MaxEdits
  /\ faults \in 0..MaxFaults

WriteTypeOK == DiskType /\ ControlType /\ ArtifactType /\ CounterType

Staging(f) == {i \in Index : target[i] = f}

\* The last thing another program wrote to a destination is never destroyed:
\* whatever races with the exchanges, it is at the destination or at a staging
\* path of it (restore_invalid_install, restore_rollback_after_mismatch).
NoLostEdit ==
  \A f \in Files :
    last[f] \in Edits => \/ dest[f] = last[f]
                        \/ \E i \in Staging(f) : temp[i] = last[f]

\* A handled failure restores every file the run had installed: a destination
\* nobody else wrote holds the analysed text again, unless the restoration
\* itself met an I/O fault (fail_commit, rollback).
HandledFailureRestores ==
  pc = "error" /\ committed < N =>
    \A i \in Index :
      last[target[i]] = "untouched" /\ i \notin badUndo => dest[target[i]] = "old"

\* At every instant, a crash included, a destination holds the complete old
\* text, the complete new text, or what another program wrote there; a
\* half-written text is never visible (write_staged before atomic_exchange).
OldOrNew ==
  \A f \in Files :
    /\ dest[f] # "partial"
    /\ last[f] = "untouched" => dest[f] \in {"old", "new"}

\* A crash changes no destination but the one whose exchange is under way: a
\* replacement that was confirmed is durable (fsync_parent_directory).
ConfirmedIsDurable ==
  [][pc' = "crashed" =>
       \A i \in Index :
         dest'[target[i]] # dest[target[i]] =>
           i = cur /\ pc \in {"installSync", "undoSync", "rbSync", "rbUndoSync"}]_writeVars

\* What a crash at any moment leaves: complete texts, and every replacement that
\* was confirmed (write_staged, fsync_parent_directory).
CrashSafe == []OldOrNew /\ ConfirmedIsDurable

\* A run that ends by itself names every private file it leaves behind, except
\* a backup whose rollback exchange failed (clean_staged_replacements,
\* clean_backup_after_failure, RollbackExchange).
LeftoversAreNamed ==
  pc \in {"ok", "error"} =>
    \A i \in Index : temp[i] # "gone" => i \in named \cup badUndo

\* Every run ends: no fault or race makes rollback or cleanup loop.
RunEnds == <>(pc \in Final)
=============================================================================
