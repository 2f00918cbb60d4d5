------------------------------ MODULE Artifacts ------------------------------
(***************************************************************************)
(* The encrypted images of a request: a row in the database and a file     *)
(* under the artifact root, written and removed one after the other.       *)
(* Operations on files hold the barrier, shared by the operations of the   *)
(* service (which operationMu puts one after the other) and taken alone by *)
(* a backup, which runs in a process of its own.  Deleting a request       *)
(* claims its rows without the barrier.  A crash may lose what was not     *)
(* synced.                                                                 *)
(***************************************************************************)
EXTENDS Integers, FiniteSets

CONSTANTS
    Ids,          \* the identifiers drawn for artifacts
    Slots,        \* the results of the request an image may belong to
    MaxCrashes    \* bound on the crashes

VARIABLES
    request,   \* "running", "terminal", "deleting" or "gone"
    rows,      \* the row of an artifact: its state and its slot
    files,     \* the file of an artifact: "none", "temp" or "whole"
    synced,    \* the files as the last sync of the root left them
    service,   \* the operation of the service that has operationMu
    deleter,   \* the service's deleting goroutine: pc, what it claimed
    cli,       \* the backup: pc, what is left, what it has
    drawn,     \* identifiers that were used
    crashes

vars == <<request, rows, files, synced, service, deleter, cli, drawn, crashes>>

None == "none"
Row(state, slot) == [state |-> state, slot |-> slot]
NoRow == Row("none", 0)
State(i) == rows[i].state
SetState(S, state) == [i \in Ids |-> IF i \in S THEN [rows[i] EXCEPT !.state = state] ELSE rows[i]]
Delete(S) == [i \in Ids |-> IF i \in S THEN NoRow ELSE rows[i]]
Rows == {i \in Ids : State(i) # "none"}
In(states) == {i \in Ids : State(i) \in states}

At(pc, left) == [pc |-> pc, left |-> left, at |-> None]
Idle == At("idle", {})
NoBackup == [pc |-> "idle", left |-> {}, snapshot |-> {}, archive |-> {}]

Init ==
    /\ request = "running"
    /\ rows = [i \in Ids |-> NoRow] /\ files = [i \in Ids |-> None] /\ synced = files
    /\ service = Idle /\ deleter = Idle /\ cli = NoBackup /\ drawn = {} /\ crashes = 0

Up == service.pc \notin {"down", "reconcile"}
ServiceHolds == service.pc \notin {"idle", "down"}
BackupHolds == cli.pc # "idle"
\* seeded fault
SharedAlways == TRUE
Shared == ~BackupHolds
Exclusive == ~ServiceHolds

-----------------------------------------------------------------------------
(* Save                                                                    *)

OwnerAlive == request = "running"
Enter(pc) == service' = [service EXCEPT !.pc = pc]
RowsStay == UNCHANGED <<rows, drawn>>
FilesStay == UNCHANGED <<files, synced>>
Others == UNCHANGED <<request, cli, crashes>>
Elsewhere == Others /\ UNCHANGED deleter

(* An image that is there already is returned, or conflicts.               *)
SaveBegin(i, slot) ==
    /\ service.pc = "idle" /\ Shared /\ OwnerAlive
    /\ i \notin drawn /\ \A j \in Rows : rows[j].slot # slot
    /\ drawn' = drawn \cup {i}
    /\ rows' = [rows EXCEPT ![i] = Row("writing", slot)]
    /\ service' = At("write", {i})
    /\ FilesStay /\ Elsewhere
SaveWrite(i) ==
    /\ service = At("write", {i}) /\ Enter("publish")
    /\ files' = [files EXCEPT ![i] = "temp"]
    /\ UNCHANGED synced /\ RowsStay /\ Elsewhere
SavePublish(i) ==
    /\ service = At("publish", {i}) /\ Enter("sync")
    /\ files' = [files EXCEPT ![i] = "whole"]
    /\ UNCHANGED synced /\ RowsStay /\ Elsewhere
SaveSync(i) ==
    /\ service = At("sync", {i}) /\ Enter("finalize")
    /\ synced' = files
    /\ UNCHANGED files /\ RowsStay /\ Elsewhere
SaveFinalize(i) ==
    /\ service = At("finalize", {i})
    /\ OwnerAlive /\ State(i) = "writing"
    /\ rows' = SetState({i}, "ready") /\ service' = Idle
    /\ UNCHANGED drawn /\ FilesStay /\ Elsewhere
(* Any step may fail.  Then the temporary file is removed, the row when it *)
(* is still being written, and the file; each may fail and is not reported.*)
Saving == {"write", "publish", "sync", "finalize"}
SaveFails(i) ==
    /\ service.pc \in Saving /\ service.left = {i} /\ Enter("undo")
    /\ files' \in {files, [files EXCEPT ![i] = IF @ = "temp" THEN None ELSE @]}
    /\ UNCHANGED synced /\ RowsStay /\ Elsewhere
SaveUndoRow(i) ==
    /\ service = At("undo", {i}) /\ Enter("undo_file")
    /\ rows' \in {rows, Delete({i} \cap In({"writing"}))}
    /\ UNCHANGED drawn /\ FilesStay /\ Elsewhere
SaveUndoFile(i) ==
    /\ service = At("undo_file", {i}) /\ service' = Idle
    /\ files' \in {files, [files EXCEPT ![i] = IF @ = "whole" THEN None ELSE @]}
    /\ UNCHANGED synced /\ RowsStay /\ Elsewhere
Save(i) ==
    \/ \E slot \in Slots : SaveBegin(i, slot)
    \/ SaveWrite(i) \/ SavePublish(i) \/ SaveSync(i) \/ SaveFinalize(i)
    \/ SaveFails(i) \/ SaveUndoRow(i) \/ SaveUndoFile(i)

(* Read opens the file of a row that is ready, and decrypts all of it.     *)
Readable == In({"ready"})

-----------------------------------------------------------------------------
(* Removing                                                                *)

(* MarkDeleting, of expired images and of those of an answer that could    *)
(* not be kept as a whole.                                                 *)
MarkDeleting ==
    /\ service.pc = "idle" /\ deleter.pc = "idle" /\ Shared
    /\ \E S \in SUBSET In({"ready", "deleting"}) \ {{}} :
         rows' = SetState(S, "deleting") /\ deleter' = At("marked", S)
    /\ UNCHANGED <<service, drawn>> /\ FilesStay /\ Others
(* Deleting a request claims its rows in the database alone: a Save may be *)
(* under way, or a backup.                                                 *)
DeleteRequest ==
    /\ request = "terminal" /\ request' = "deleting"
    /\ UNCHANGED <<cli, crashes, service, deleter>> /\ RowsStay /\ FilesStay
ClaimRequest ==
    /\ request = "deleting" /\ Up /\ deleter.pc = "idle"
    /\ rows' = SetState(Rows, "deleting")
    /\ deleter' = IF Rows = {} THEN At("probed", {}) ELSE At("marked", Rows)
    /\ UNCHANGED <<service, drawn>> /\ FilesStay /\ Others
FinalizeRequest ==
    /\ deleter.pc = "probed" /\ deleter' = Idle
    /\ request' = IF Rows = {} THEN "gone" ELSE request
    /\ UNCHANGED <<cli, crashes, service>> /\ RowsStay /\ FilesStay

RemoveBegin ==
    /\ service.pc = "idle" /\ deleter.pc = "marked" /\ Shared
    /\ service' = At("unlink", deleter.left) /\ deleter' = Idle
    /\ RowsStay /\ FilesStay /\ Others
\* The file first; a failure ends the batch.
Unlink(i) ==
    /\ service.pc = "unlink" /\ i \in service.left
    /\ \/ files' = [files EXCEPT ![i] = IF @ = "whole" THEN None ELSE @]
          /\ service' = [service EXCEPT !.pc = "drop", !.at = i]
       \/ service' = Idle /\ UNCHANGED files
    /\ UNCHANGED synced /\ RowsStay /\ Elsewhere
Drop(i) ==
    /\ service.pc = "drop" /\ service.at = i
    /\ \/ /\ rows' = Delete({i} \cap In({"deleting"}))
          /\ service' = IF service.left = {i} THEN Idle ELSE At("unlink", service.left \ {i})
       \/ service' = Idle /\ UNCHANGED rows
    /\ UNCHANGED drawn /\ FilesStay /\ Elsewhere

-----------------------------------------------------------------------------
(* Reconciliation, when the service starts and before a backup             *)

(* One file: a temporary one is removed, one that no row names too; a row  *)
(* being written is finished, one being deleted is dropped with its file.  *)
Reconciled(i) ==
    IF files[i] = "temp" \/ (files[i] = "whole" /\ State(i) \in {"none", "deleting"})
    THEN [files EXCEPT ![i] = None] ELSE files
\* seeded fault
ReconciledRowDrops(i) == IF State(i) \in {"writing", "deleting"} THEN Delete({i}) ELSE rows
ReconciledRow(i) ==
    CASE files[i] = "whole" /\ State(i) = "writing" -> SetState({i}, "ready")
      [] files[i] = "whole" /\ State(i) = "deleting" -> Delete({i})
      [] OTHER -> rows
ReconcileFile(i) == files' = Reconciled(i) /\ rows' = ReconciledRow(i) /\ UNCHANGED synced
\* Then the rows without a file are dropped, and what was removed is synced.
ReconcileRows ==
    /\ rows' = Delete({i \in Ids : files[i] = None}) /\ synced' = files /\ UNCHANGED files

Start ==
    /\ service.pc = "down" /\ ~BackupHolds /\ service' = At("reconcile", Ids)
    /\ RowsStay /\ FilesStay /\ Elsewhere
ServiceReconciles ==
    /\ service.pc = "reconcile"
    /\ \/ \E i \in service.left :
            ReconcileFile(i) /\ service' = At("reconcile", service.left \ {i})
       \/ service.left = {} /\ ReconcileRows /\ service' = Idle
    /\ UNCHANGED drawn /\ Elsewhere

-----------------------------------------------------------------------------
(* Backup                                                                  *)

CliStays == UNCHANGED <<request, service, deleter, drawn, crashes>>
BackupBegin ==
    /\ cli.pc = "idle" /\ cli.snapshot = {} /\ Exclusive
    /\ cli' = [cli EXCEPT !.pc = "reconcile", !.left = Ids]
    /\ UNCHANGED rows /\ FilesStay /\ CliStays
BackupReconciles ==
    /\ cli.pc = "reconcile"
    /\ \/ \E i \in cli.left : ReconcileFile(i) /\ cli' = [cli EXCEPT !.left = @ \ {i}]
       \/ cli.left = {} /\ ReconcileRows /\ cli' = [cli EXCEPT !.pc = "snapshot"]
    /\ CliStays
BackupSnapshot ==
    /\ cli.pc = "snapshot"
    /\ cli' = [cli EXCEPT !.pc = "copy", !.snapshot = In({"ready"}), !.left = In({"ready"})]
    /\ UNCHANGED rows /\ FilesStay /\ CliStays
(* Each file is read and checked; one that is missing fails the backup.    *)
BackupCopy ==
    /\ cli.pc = "copy"
    /\ \/ \E i \in cli.left : cli' = IF files[i] = "whole"
            THEN [cli EXCEPT !.left = @ \ {i}, !.archive = @ \cup {i}]
            ELSE [cli EXCEPT !.pc = "idle", !.left = {}]
       \/ cli.left = {} /\ cli' = [cli EXCEPT !.pc = "idle"]
    /\ UNCHANGED rows /\ FilesStay /\ CliStays
Backup == BackupBegin \/ BackupReconciles \/ BackupSnapshot \/ BackupCopy

-----------------------------------------------------------------------------
(* The request ends whatever its images do; either process may crash.      *)
RequestEnds ==
    /\ request = "running" /\ request' = "terminal"
    /\ UNCHANGED <<cli, crashes, service, deleter>> /\ RowsStay /\ FilesStay
LosesUnsynced ==
    /\ files' \in {f \in [Ids -> {None, "temp", "whole"}] :
                      \A i \in Ids : f[i] \in {files[i], synced[i]}}
    /\ synced' = files'
\* The service dies alone, or power is lost and both end.
Crash ==
    /\ crashes < MaxCrashes /\ crashes' = crashes + 1
    /\ service' = At("down", {}) /\ deleter' = Idle
    /\ \/ UNCHANGED <<cli, files, synced>>
       \/ cli' = [NoBackup EXCEPT !.snapshot = cli.snapshot] /\ LosesUnsynced
    /\ UNCHANGED request /\ RowsStay

Next ==
    \/ \E i \in Ids : Save(i) \/ Unlink(i) \/ Drop(i)
    \/ MarkDeleting \/ DeleteRequest \/ ClaimRequest \/ FinalizeRequest \/ RemoveBegin
    \/ Start \/ ServiceReconciles \/ Backup \/ RequestEnds \/ Crash
Spec == Init /\ [][Next]_vars
-----------------------------------------------------------------------------
(* Properties                                                              *)

(* While the service is up, an image that can be read has its whole file,  *)
(* whatever crashed before.                                                *)
ReadyIsWhole ==
    Up => \A i \in Readable : files[i] = "whole"

(* What a backup has as ready, it has the files of; it never meets one     *)
(* that is missing.                                                        *)
BackupIsWhole ==
    cli.pc = "copy" => \A i \in cli.left : files[i] = "whole"

(* A request that is gone has left no row.                                 *)
GoneLeavesNoRow == request = "gone" => Rows = {}
ImagesAreWhole == ReadyIsWhole /\ BackupIsWhole /\ GoneLeavesNoRow

(* When the service is ready again after a crash, the rows are those of    *)
(* the files that are there, every one of them readable, and nothing else  *)
(* is under the root.                                                      *)
Tidies ==
    service.pc = "reconcile" /\ service'.pc = "idle" =>
        \A i \in Ids : IF files'[i] = None THEN rows'[i].state = "none"
                      ELSE files'[i] = "whole" /\ rows'[i].state = "ready"
StartTidies == [][Tidies]_vars
=============================================================================
