--------------------------- MODULE ArtifactsProofs ---------------------------
(***************************************************************************)
(* Theorems about Artifacts, for any identifiers and slots and any number  *)
(* of crashes: what can be read has its file, a backup meets no missing    *)
(* file, a deleted request leaves no row, and a start tidies.  One lemma   *)
(* per action shows that it keeps the inductive invariant Inv, one step    *)
(* per conjunct.  The second part is about Process, whose lock keeps the   *)
(* processes apart that open this storage.                                 *)
(***************************************************************************)
EXTENDS Artifacts, TLAPS

-----------------------------------------------------------------------------
(* The inductive invariant *)

FileStates == {None, "temp", "whole"}
RowStates == {"none", "writing", "ready", "deleting"}
Undoing == {"undo", "undo_file"}
Removing == {"unlink", "drop"}
ServiceSteps == {"idle", "down", "reconcile"} \cup Saving \cup Undoing \cup Removing

TypeInv ==
    /\ rows \in [Ids -> [state : RowStates, slot : Slots \cup {0}]]
    /\ files \in [Ids -> FileStates] /\ synced \in [Ids -> FileStates]
    /\ service \in [pc : ServiceSteps, left : SUBSET Ids, at : Ids \cup {None}]
    /\ deleter \in [pc : {"idle", "marked", "probed"}, left : SUBSET Ids, at : {None}]
    /\ cli \in [pc : {"idle", "reconcile", "snapshot", "copy"}, left : SUBSET Ids,
                snapshot : SUBSET Ids, archive : SUBSET Ids]

(* The barrier: a backup runs beside nothing of the service.  A start runs *)
(* beside nothing else of it.                                              *)
BarrierInv ==
    /\ BackupHolds => ~ServiceHolds
    /\ ~Up => deleter.pc = "idle"

(* What the service or its deleting goroutine has claimed cannot be read,  *)
(* and an identifier is used once, so it never will be.                    *)
ClaimInv ==
    /\ \A i \in Rows : i \in drawn
    /\ service.pc \in Saving \cup Undoing \cup Removing =>
         \A i \in service.left : State(i) # "ready"
    /\ service.pc \in {"sync", "finalize"} => \A i \in service.left : files[i] = "whole"
    /\ deleter.pc = "marked" =>
         \A i \in deleter.left : i \in drawn /\ State(i) \in {"none", "deleting"}

(* What can be read has its file: always while the service is up, and for  *)
(* a backup once it has reconciled.                                        *)
WholeInv == Up \/ cli.pc = "snapshot" => \A i \in Readable : files[i] = "whole"

(* What reconciliation has dealt with: no temporary file is left, and when *)
(* the service starts every file is the one of a row that can be read.     *)
TidyInv ==
    /\ cli.pc = "reconcile" => \A i \in Ids \ cli.left : files[i] # "temp"
    /\ service.pc = "reconcile" => \A i \in Ids \ service.left :
         files[i] = None \/ (files[i] = "whole" /\ State(i) = "ready")

Inv == TypeInv /\ BarrierInv /\ ClaimInv /\ WholeInv /\ TidyInv /\ BackupIsWhole /\ GoneLeavesNoRow

-----------------------------------------------------------------------------
(* The steps *)

(* The row of an identifier that was never used is being written: nothing  *)
(* more can be read.                                                       *)
LEMMA SaveBeginKeeps ==
    ASSUME Inv, NEW i \in Ids, NEW slot \in Slots, SaveBegin(i, slot)
    PROVE  Inv'
<1> USE DEF Inv, SaveBegin, OwnerAlive, Row, At, Elsewhere, Others, FilesStay, Shared, BackupHolds
<1>1. TypeInv'
  BY DEF TypeInv, FileStates, RowStates, ServiceSteps, Saving, Undoing, Removing
<1>2. BarrierInv'
  BY DEF BarrierInv, ServiceHolds, Up
<1>3. ClaimInv'
  BY DEF ClaimInv, Rows, State, Saving, Undoing, Removing
<1>4. WholeInv'
  BY DEF WholeInv, Up, Readable, In, State
<1>5. TidyInv'
  BY DEF TidyInv, State
<1>6. BackupIsWhole'
  BY DEF BackupIsWhole
<1>7. GoneLeavesNoRow'
  BY DEF GoneLeavesNoRow, Rows, State
<1> QED
  BY <1>1, <1>2, <1>3, <1>4, <1>5, <1>6, <1>7

(* A temporary file appears under an identifier whose row cannot be read.  *)
LEMMA SaveWriteKeeps ==
    ASSUME Inv, NEW i \in Ids, SaveWrite(i)
    PROVE  Inv'
<1> USE DEF Inv, SaveWrite, Enter, At, RowsStay, Elsewhere, Others
<1>1. TypeInv'
  BY DEF TypeInv, FileStates, RowStates, ServiceSteps, Saving, Undoing, Removing
<1>2. BarrierInv'
  BY DEF BarrierInv, BackupHolds, ServiceHolds, Up
<1>3. ClaimInv'
  BY DEF ClaimInv, Rows, State, Saving, Undoing, Removing
<1>4. WholeInv'
  BY DEF WholeInv, Up, Readable, In, State, ClaimInv, BarrierInv, TidyInv, TypeInv, FileStates,
       RowStates, ServiceSteps, Saving, Undoing, Removing
<1>5. TidyInv'
  BY DEF TidyInv, State, BarrierInv, Up, TypeInv, FileStates, RowStates, ServiceSteps, Saving,
       Undoing, Removing, BackupHolds, ServiceHolds
<1>6. BackupIsWhole'
  BY DEF BackupIsWhole, BarrierInv, WholeInv, Readable, In, State, TypeInv, FileStates, RowStates,
       ServiceSteps, Saving, Undoing, Removing, BackupHolds, ServiceHolds
<1>7. GoneLeavesNoRow'
  BY DEF GoneLeavesNoRow, Rows, State
<1> QED
  BY <1>1, <1>2, <1>3, <1>4, <1>5, <1>6, <1>7

(* The temporary file becomes whole under its final name.                  *)
LEMMA SavePublishKeeps ==
    ASSUME Inv, NEW i \in Ids, SavePublish(i)
    PROVE  Inv'
<1> USE DEF Inv, SavePublish, Enter, At, RowsStay, Elsewhere, Others
<1>1. TypeInv'
  BY DEF TypeInv, FileStates, RowStates, ServiceSteps, Saving, Undoing, Removing
<1>2. BarrierInv'
  BY DEF BarrierInv, BackupHolds, ServiceHolds, Up
<1>3. ClaimInv'
  BY DEF ClaimInv, Rows, State, Saving, Undoing, Removing, BarrierInv, Up, TypeInv, FileStates,
       RowStates, ServiceSteps
<1>4. WholeInv'
  BY DEF WholeInv, Up, Readable, In, State
<1>5. TidyInv'
  BY DEF TidyInv, State
<1>6. BackupIsWhole'
  BY DEF BackupIsWhole
<1>7. GoneLeavesNoRow'
  BY DEF GoneLeavesNoRow, Rows, State
<1> QED
  BY <1>1, <1>2, <1>3, <1>4, <1>5, <1>6, <1>7

(* The root is synced; the file is still whole.                            *)
LEMMA SaveSyncKeeps ==
    ASSUME Inv, NEW i \in Ids, SaveSync(i)
    PROVE  Inv'
<1> USE DEF Inv, SaveSync, Enter, At, RowsStay, Elsewhere, Others
<1>1. TypeInv'
  BY DEF TypeInv, FileStates, RowStates, ServiceSteps, Saving, Undoing, Removing
<1>2. BarrierInv'
  BY DEF BarrierInv, BackupHolds, ServiceHolds, Up
<1>3. ClaimInv'
  BY DEF ClaimInv, Rows, State, Saving, Undoing, Removing
<1>4. WholeInv'
  BY DEF WholeInv, Up, Readable, In, State
<1>5. TidyInv'
  BY DEF TidyInv, State
<1>6. BackupIsWhole'
  BY DEF BackupIsWhole
<1>7. GoneLeavesNoRow'
  BY DEF GoneLeavesNoRow, Rows, State
<1> QED
  BY <1>1, <1>2, <1>3, <1>4, <1>5, <1>6, <1>7

(* The row becomes ready, and by ClaimInv its file is whole.               *)
LEMMA SaveFinalizeKeeps ==
    ASSUME Inv, NEW i \in Ids, SaveFinalize(i)
    PROVE  Inv'
<1> USE DEF Inv, SaveFinalize, SetState, OwnerAlive, At, Idle, FilesStay, Elsewhere, Others
<1>1. TypeInv'
  BY DEF TypeInv, FileStates, RowStates, ServiceSteps, Saving, Undoing, Removing
<1>2. BarrierInv'
  BY DEF BarrierInv, BackupHolds, ServiceHolds, Up
<1>3. ClaimInv'
  BY DEF ClaimInv, Rows, State, Saving, Undoing, Removing, BarrierInv, Up, TypeInv, FileStates,
       RowStates, ServiceSteps
<1>4. WholeInv'
  BY DEF WholeInv, Up, Readable, In, State, ClaimInv, BarrierInv, TidyInv
<1>5. TidyInv'
  BY DEF TidyInv, State
<1>6. BackupIsWhole'
  BY DEF BackupIsWhole
<1>7. GoneLeavesNoRow'
  BY DEF GoneLeavesNoRow, Rows, State
<1> QED
  BY <1>1, <1>2, <1>3, <1>4, <1>5, <1>6, <1>7

(* A temporary file is removed at most: no whole file is lost.             *)
LEMMA SaveFailsKeeps ==
    ASSUME Inv, NEW i \in Ids, SaveFails(i)
    PROVE  Inv'
<1> USE DEF Inv, SaveFails, Enter, RowsStay, Elsewhere, Others
<1>1. TypeInv'
  BY DEF TypeInv, FileStates, RowStates, ServiceSteps, Saving, Undoing, Removing
<1>2. BarrierInv'
  BY DEF BarrierInv, BackupHolds, ServiceHolds, Up, TypeInv, FileStates, RowStates, ServiceSteps,
       Saving, Undoing, Removing
<1>3. ClaimInv'
  BY DEF ClaimInv, Rows, State, Saving, Undoing, Removing
<1>4. WholeInv'
  BY DEF WholeInv, Up, Readable, In, State, ClaimInv, BarrierInv, TidyInv, TypeInv, FileStates,
       RowStates, ServiceSteps, Saving, Undoing, Removing
<1>5. TidyInv'
  BY DEF TidyInv, State, BarrierInv, Up, TypeInv, FileStates, RowStates, ServiceSteps, Saving,
       Undoing, Removing
<1>6. BackupIsWhole'
  BY DEF BackupIsWhole, BarrierInv, WholeInv, Readable, In, State, TypeInv, FileStates, RowStates,
       ServiceSteps, Saving, Undoing, Removing
<1>7. GoneLeavesNoRow'
  BY DEF GoneLeavesNoRow, Rows, State
<1> QED
  BY <1>1, <1>2, <1>3, <1>4, <1>5, <1>6, <1>7

(* Only a row that is being written is deleted.                            *)
LEMMA SaveUndoRowKeeps ==
    ASSUME Inv, NEW i \in Ids, SaveUndoRow(i)
    PROVE  Inv'
<1> USE DEF Inv, SaveUndoRow, Enter, Delete, NoRow, Row, In, At, FilesStay, Elsewhere, Others
<1>1. TypeInv'
  BY DEF TypeInv, FileStates, RowStates, ServiceSteps, Saving, Undoing, Removing
<1>2. BarrierInv'
  BY DEF BarrierInv, BackupHolds, ServiceHolds, Up
<1>3. ClaimInv'
  BY DEF ClaimInv, Rows, State, Saving, Undoing, Removing, BarrierInv, Up, TypeInv, FileStates,
       RowStates, ServiceSteps
<1>4. WholeInv'
  BY DEF WholeInv, Up, Readable, State
<1>5. TidyInv'
  BY DEF TidyInv, State
<1>6. BackupIsWhole'
  BY DEF BackupIsWhole
<1>7. GoneLeavesNoRow'
  BY DEF GoneLeavesNoRow, Rows, State
<1> QED
  BY <1>1, <1>2, <1>3, <1>4, <1>5, <1>6, <1>7

(* The file that is removed is of an identifier that cannot be read.       *)
LEMMA SaveUndoFileKeeps ==
    ASSUME Inv, NEW i \in Ids, SaveUndoFile(i)
    PROVE  Inv'
<1> USE DEF Inv, SaveUndoFile, At, Idle, RowsStay, Elsewhere, Others
<1>1. TypeInv'
  BY DEF TypeInv, FileStates, RowStates, ServiceSteps, Saving, Undoing, Removing
<1>2. BarrierInv'
  BY DEF BarrierInv, BackupHolds, ServiceHolds, Up
<1>3. ClaimInv'
  BY DEF ClaimInv, Rows, State, Saving, Undoing, Removing
<1>4. WholeInv'
  BY DEF WholeInv, Up, Readable, In, State, ClaimInv, BarrierInv, TidyInv, TypeInv, FileStates,
       RowStates, ServiceSteps, Saving, Undoing, Removing
<1>5. TidyInv'
  BY DEF TidyInv, State, BarrierInv, Up, TypeInv, FileStates, RowStates, ServiceSteps, Saving,
       Undoing, Removing, BackupHolds, ServiceHolds
<1>6. BackupIsWhole'
  BY DEF BackupIsWhole, BarrierInv, WholeInv, Readable, In, State, TypeInv, FileStates, RowStates,
       ServiceSteps, Saving, Undoing, Removing, BackupHolds, ServiceHolds
<1>7. GoneLeavesNoRow'
  BY DEF GoneLeavesNoRow, Rows, State
<1> QED
  BY <1>1, <1>2, <1>3, <1>4, <1>5, <1>6, <1>7

(* The file that is removed is one of those claimed for removal.           *)
LEMMA UnlinkKeeps ==
    ASSUME Inv, NEW i \in Ids, Unlink(i)
    PROVE  Inv'
<1> USE DEF Inv, Unlink, Idle, At, RowsStay, Elsewhere, Others
<1>1. TypeInv'
  <2>1. CASE /\ files' = [files EXCEPT ![i] = IF @ = "whole" THEN None ELSE @]
            /\ service' = [service EXCEPT !.pc = "drop", !.at = i]
    BY <2>1 DEF TypeInv, FileStates, RowStates, ServiceSteps, Saving, Undoing, Removing
  <2>2. CASE service' = Idle /\ UNCHANGED files
    BY <2>2 DEF TypeInv, FileStates, RowStates, ServiceSteps, Saving, Undoing, Removing
  <2> QED
    BY <2>1, <2>2
<1>2. BarrierInv'
  <2>1. CASE /\ files' = [files EXCEPT ![i] = IF @ = "whole" THEN None ELSE @]
            /\ service' = [service EXCEPT !.pc = "drop", !.at = i]
    BY <2>1 DEF BarrierInv, BackupHolds, ServiceHolds, Up, TypeInv, FileStates, RowStates,
         ServiceSteps, Saving, Undoing, Removing
  <2>2. CASE service' = Idle /\ UNCHANGED files
    BY <2>2 DEF BarrierInv, BackupHolds, ServiceHolds, Up, TypeInv, FileStates, RowStates,
         ServiceSteps, Saving, Undoing, Removing
  <2> QED
    BY <2>1, <2>2
<1>3. ClaimInv'
  <2>1. CASE /\ files' = [files EXCEPT ![i] = IF @ = "whole" THEN None ELSE @]
            /\ service' = [service EXCEPT !.pc = "drop", !.at = i]
    BY <2>1 DEF ClaimInv, Rows, State, TypeInv, FileStates, RowStates, ServiceSteps, Saving,
         Undoing, Removing
  <2>2. CASE service' = Idle /\ UNCHANGED files
    BY <2>2 DEF ClaimInv, Rows, State, TypeInv, FileStates, RowStates, ServiceSteps, Saving,
         Undoing, Removing
  <2> QED
    BY <2>1, <2>2
<1>4. WholeInv'
  <2>1. CASE /\ files' = [files EXCEPT ![i] = IF @ = "whole" THEN None ELSE @]
            /\ service' = [service EXCEPT !.pc = "drop", !.at = i]
    BY <2>1 DEF WholeInv, ClaimInv, BarrierInv, Up, Readable, In, State, BackupHolds, ServiceHolds,
         TypeInv, FileStates, RowStates, ServiceSteps, Saving, Undoing, Removing
  <2>2. CASE service' = Idle /\ UNCHANGED files
    BY <2>2 DEF WholeInv, ClaimInv, BarrierInv, Up, Readable, In, State, BackupHolds, ServiceHolds,
         TypeInv, FileStates, RowStates, ServiceSteps, Saving, Undoing, Removing
  <2> QED
    BY <2>1, <2>2
<1>5. TidyInv'
  <2>1. CASE /\ files' = [files EXCEPT ![i] = IF @ = "whole" THEN None ELSE @]
            /\ service' = [service EXCEPT !.pc = "drop", !.at = i]
    BY <2>1 DEF TidyInv, State, BarrierInv, BackupHolds, ServiceHolds, TypeInv, FileStates,
         RowStates, ServiceSteps, Saving, Undoing, Removing
  <2>2. CASE service' = Idle /\ UNCHANGED files
    BY <2>2 DEF TidyInv, State, BarrierInv, BackupHolds, ServiceHolds, TypeInv, FileStates,
         RowStates, ServiceSteps, Saving, Undoing, Removing
  <2> QED
    BY <2>1, <2>2
<1>6. BackupIsWhole'
  <2>1. CASE /\ files' = [files EXCEPT ![i] = IF @ = "whole" THEN None ELSE @]
            /\ service' = [service EXCEPT !.pc = "drop", !.at = i]
    BY <2>1 DEF BackupIsWhole, BarrierInv, BackupHolds, ServiceHolds, TypeInv, FileStates,
         RowStates, ServiceSteps, Saving, Undoing, Removing
  <2>2. CASE service' = Idle /\ UNCHANGED files
    BY <2>2 DEF BackupIsWhole, BarrierInv, BackupHolds, ServiceHolds, TypeInv, FileStates,
         RowStates, ServiceSteps, Saving, Undoing, Removing
  <2> QED
    BY <2>1, <2>2
<1>7. GoneLeavesNoRow'
  BY DEF GoneLeavesNoRow, Rows, State
<1> QED
  BY <1>1, <1>2, <1>3, <1>4, <1>5, <1>6, <1>7

(* A row that is dropped was being deleted; its file went before.          *)
LEMMA DropKeeps ==
    ASSUME Inv, NEW i \in Ids, Drop(i)
    PROVE  Inv'
<1> USE DEF Inv, Drop, Delete, NoRow, Row, In, At, Idle, FilesStay, Elsewhere, Others
<1>1. TypeInv'
  BY DEF TypeInv, FileStates, RowStates, ServiceSteps, Saving, Undoing, Removing
<1>2. BarrierInv'
  BY DEF BarrierInv, BackupHolds, ServiceHolds, Up
<1>3. ClaimInv'
  BY DEF ClaimInv, Rows, State, Saving, Undoing, Removing, BarrierInv, Up, TypeInv, FileStates,
       RowStates, ServiceSteps
<1>4. WholeInv'
  BY DEF WholeInv, Up, Readable, State
<1>5. TidyInv'
  BY DEF TidyInv, State
<1>6. BackupIsWhole'
  BY DEF BackupIsWhole
<1>7. GoneLeavesNoRow'
  BY DEF GoneLeavesNoRow, Rows, State
<1> QED
  BY <1>1, <1>2, <1>3, <1>4, <1>5, <1>6, <1>7

(* Rows that were ready or being deleted can no longer be read.            *)
LEMMA MarkDeletingKeeps ==
    ASSUME Inv, MarkDeleting
    PROVE  Inv'
<1> USE DEF Inv, MarkDeleting, SetState, In, At, FilesStay, Others, Shared, BackupHolds
<1>1. TypeInv'
  BY DEF TypeInv, FileStates, RowStates, ServiceSteps, Saving, Undoing, Removing
<1>2. BarrierInv'
  BY DEF BarrierInv, ServiceHolds, Up
<1>3. ClaimInv'
  BY DEF ClaimInv, Rows, State, Saving, Undoing, Removing
<1>4. WholeInv'
  BY DEF WholeInv, Up, Readable, State
<1>5. TidyInv'
  BY DEF TidyInv, State
<1>6. BackupIsWhole'
  BY DEF BackupIsWhole
<1>7. GoneLeavesNoRow'
  BY DEF GoneLeavesNoRow, Rows, State
<1> QED
  BY <1>1, <1>2, <1>3, <1>4, <1>5, <1>6, <1>7

(* Only the request changes, and it is not gone yet.                       *)
LEMMA DeleteRequestKeeps ==
    ASSUME Inv, DeleteRequest
    PROVE  Inv'
<1> USE DEF Inv, DeleteRequest, RowsStay, FilesStay
<1>1. TypeInv'
  BY DEF TypeInv, FileStates, RowStates, ServiceSteps, Saving, Undoing, Removing
<1>2. BarrierInv'
  BY DEF BarrierInv, BackupHolds, ServiceHolds, Up
<1>3. ClaimInv'
  BY DEF ClaimInv, Rows, State, Saving, Undoing, Removing
<1>4. WholeInv'
  BY DEF WholeInv, Up, Readable, In, State
<1>5. TidyInv'
  BY DEF TidyInv, State
<1>6. BackupIsWhole'
  BY DEF BackupIsWhole
<1>7. GoneLeavesNoRow'
  BY DEF GoneLeavesNoRow, Rows, State
<1> QED
  BY <1>1, <1>2, <1>3, <1>4, <1>5, <1>6, <1>7

(* Every row of the request is claimed, beside a Save or a backup: fewer   *)
(* images can be read, and those the backup copies keep their files.       *)
LEMMA ClaimRequestKeeps ==
    ASSUME Inv, ClaimRequest
    PROVE  Inv'
<1> USE DEF Inv, ClaimRequest, SetState, At, Up, FilesStay, Others
<1>1. TypeInv'
  <2>1. CASE Rows = {}
    BY <2>1 DEF Rows, State, TypeInv, FileStates, RowStates, ServiceSteps, Saving, Undoing, Removing
  <2>2. CASE Rows # {}
    BY <2>2 DEF Rows, State, TypeInv, FileStates, RowStates, ServiceSteps, Saving, Undoing, Removing
  <2> QED
    BY <2>1, <2>2
<1>2. BarrierInv'
  BY DEF BarrierInv, BackupHolds, ServiceHolds
<1>3. ClaimInv'
  BY DEF ClaimInv, Rows, State, Saving, Undoing, Removing, BarrierInv, TypeInv, FileStates,
       RowStates, ServiceSteps
<1>4. WholeInv'
  BY DEF WholeInv, Readable, In, State
<1>5. TidyInv'
  BY DEF TidyInv, State
<1>6. BackupIsWhole'
  BY DEF BackupIsWhole
<1>7. GoneLeavesNoRow'
  BY DEF GoneLeavesNoRow, Rows, State
<1> QED
  BY <1>1, <1>2, <1>3, <1>4, <1>5, <1>6, <1>7

(* The request is gone only when it has no row.                            *)
LEMMA FinalizeRequestKeeps ==
    ASSUME Inv, FinalizeRequest
    PROVE  Inv'
<1> USE DEF Inv, FinalizeRequest, At, Idle, RowsStay, FilesStay
<1>1. TypeInv'
  BY DEF TypeInv, FileStates, RowStates, ServiceSteps, Saving, Undoing, Removing
<1>2. BarrierInv'
  BY DEF BarrierInv, BackupHolds, ServiceHolds, Up
<1>3. ClaimInv'
  BY DEF ClaimInv, Rows, State, Saving, Undoing, Removing
<1>4. WholeInv'
  BY DEF WholeInv, Up, Readable, In, State
<1>5. TidyInv'
  BY DEF TidyInv, State
<1>6. BackupIsWhole'
  BY DEF BackupIsWhole
<1>7. GoneLeavesNoRow'
  BY DEF GoneLeavesNoRow, Rows, State
<1> QED
  BY <1>1, <1>2, <1>3, <1>4, <1>5, <1>6, <1>7

(* What the deleting goroutine has claimed becomes the batch of the service. *)
LEMMA RemoveBeginKeeps ==
    ASSUME Inv, RemoveBegin
    PROVE  Inv'
<1> USE DEF Inv, RemoveBegin, At, Idle, RowsStay, FilesStay, Others, Shared, BackupHolds
<1>1. TypeInv'
  BY DEF TypeInv, FileStates, RowStates, ServiceSteps, Saving, Undoing, Removing
<1>2. BarrierInv'
  BY DEF BarrierInv, ServiceHolds, Up
<1>3. ClaimInv'
  BY DEF ClaimInv, Rows, State, Saving, Undoing, Removing
<1>4. WholeInv'
  BY DEF WholeInv, Up, Readable, In, State
<1>5. TidyInv'
  BY DEF TidyInv, State
<1>6. BackupIsWhole'
  BY DEF BackupIsWhole
<1>7. GoneLeavesNoRow'
  BY DEF GoneLeavesNoRow, Rows, State
<1> QED
  BY <1>1, <1>2, <1>3, <1>4, <1>5, <1>6, <1>7

(* A start begins with every identifier left to reconcile.                 *)
LEMMA StartKeeps ==
    ASSUME Inv, Start
    PROVE  Inv'
<1> USE DEF Inv, Start, At, RowsStay, FilesStay, Elsewhere, Others, BackupHolds
<1>1. TypeInv'
  BY DEF TypeInv, FileStates, RowStates, ServiceSteps, Saving, Undoing, Removing
<1>2. BarrierInv'
  BY DEF BarrierInv, ServiceHolds, Up
<1>3. ClaimInv'
  BY DEF ClaimInv, Rows, State, Saving, Undoing, Removing
<1>4. WholeInv'
  BY DEF WholeInv, Up, Readable, In, State
<1>5. TidyInv'
  BY DEF TidyInv, State
<1>6. BackupIsWhole'
  BY DEF BackupIsWhole
<1>7. GoneLeavesNoRow'
  BY DEF GoneLeavesNoRow, Rows, State
<1> QED
  BY <1>1, <1>2, <1>3, <1>4, <1>5, <1>6, <1>7

(* One file is reconciled with its row, or the rows without a file go and  *)
(* the service is up: by TidyInv what is left then can be read.            *)
LEMMA ServiceReconcilesKeeps ==
    ASSUME Inv, ServiceReconciles
    PROVE  Inv'
<1> USE DEF Inv, ServiceReconciles, ReconcileFile, Reconciled, ReconciledRow, ReconcileRows,
     Delete, SetState, NoRow, Row, At, Idle, Elsewhere, Others
<1>1. TypeInv'
  BY DEF TypeInv, FileStates, RowStates, ServiceSteps, Saving, Undoing, Removing
<1>2. BarrierInv'
  BY DEF BarrierInv, BackupHolds, ServiceHolds, Up
<1>3. ClaimInv'
  BY DEF ClaimInv, Rows, State, Saving, Undoing, Removing, BarrierInv, Up
<1>4. WholeInv'
  BY DEF WholeInv, Up, Readable, In, State, ClaimInv, BarrierInv, TidyInv, TypeInv, FileStates,
       RowStates, ServiceSteps, Saving, Undoing, Removing
<1>5. TidyInv'
  BY DEF TidyInv, State, BarrierInv, Up, TypeInv, FileStates, RowStates, ServiceSteps, Saving,
       Undoing, Removing, BackupHolds, ServiceHolds
<1>6. BackupIsWhole'
  BY DEF BackupIsWhole, BarrierInv, WholeInv, Readable, In, State, TypeInv, FileStates, RowStates,
       ServiceSteps, Saving, Undoing, Removing, BackupHolds, ServiceHolds
<1>7. GoneLeavesNoRow'
  BY DEF GoneLeavesNoRow, Rows, State
<1> QED
  BY <1>1, <1>2, <1>3, <1>4, <1>5, <1>6, <1>7

(* The backup has the barrier alone when it begins.                        *)
LEMMA BackupBeginKeeps ==
    ASSUME Inv, BackupBegin
    PROVE  Inv'
<1> USE DEF Inv, BackupBegin, CliStays, FilesStay, Exclusive, ServiceHolds
<1>1. TypeInv'
  BY DEF TypeInv, FileStates, RowStates, ServiceSteps, Saving, Undoing, Removing
<1>2. BarrierInv'
  BY DEF BarrierInv, BackupHolds, Up
<1>3. ClaimInv'
  BY DEF ClaimInv, Rows, State, Saving, Undoing, Removing
<1>4. WholeInv'
  BY DEF WholeInv, Up, Readable, In, State
<1>5. TidyInv'
  BY DEF TidyInv, State
<1>6. BackupIsWhole'
  BY DEF BackupIsWhole
<1>7. GoneLeavesNoRow'
  BY DEF GoneLeavesNoRow, Rows, State
<1> QED
  BY <1>1, <1>2, <1>3, <1>4, <1>5, <1>6, <1>7

(* The backup reconciles with the service stopped or idle.                 *)
LEMMA BackupReconcilesKeeps ==
    ASSUME Inv, BackupReconciles
    PROVE  Inv'
<1> USE DEF Inv, BackupReconciles, ReconcileFile, Reconciled, ReconciledRow, ReconcileRows, Delete,
     SetState, NoRow, Row, CliStays
<1>1. TypeInv'
  BY DEF TypeInv, FileStates, RowStates, ServiceSteps, Saving, Undoing, Removing
<1>2. BarrierInv'
  BY DEF BarrierInv, BackupHolds, ServiceHolds, Up
<1>3. ClaimInv'
  BY DEF ClaimInv, Rows, State, Saving, Undoing, Removing, BarrierInv, Up, TypeInv, FileStates,
       RowStates, ServiceSteps, BackupHolds, ServiceHolds
<1>4. WholeInv'
  BY DEF WholeInv, Up, Readable, In, State, ClaimInv, BarrierInv, TidyInv, TypeInv, FileStates,
       RowStates, ServiceSteps, Saving, Undoing, Removing
<1>5. TidyInv'
  <2>1. ASSUME NEW i \in cli.left, ReconcileFile(i), cli' = [cli EXCEPT !.left = @ \ {i}]
        PROVE  TidyInv'
    <3>1. service.pc # "reconcile" /\ service' = service
      BY DEF BarrierInv, BackupHolds, ServiceHolds, TypeInv
    <3>2. i \in Ids /\ cli'.left = cli.left \ {i}
      BY <2>1 DEF TypeInv
    <3>3. ASSUME NEW j \in Ids \ cli'.left PROVE files'[j] # "temp"
      <4>1. files \in [Ids -> FileStates]
        BY DEF TypeInv
      <4>2. CASE j = i
        BY <2>1, <3>2, <4>1, <4>2 DEF None
      <4>3. CASE j # i
        <5>1. j \in Ids \ cli.left
          BY <3>2, <4>3
        <5>2. files[j] # "temp"
          BY <5>1 DEF TidyInv
        <5> QED
          BY <2>1, <4>1, <4>3, <5>2
      <4> QED
        BY <4>2, <4>3
    <3> QED
      BY <3>1, <3>3 DEF TidyInv
  <2>2. CASE cli.left = {} /\ ReconcileRows /\ cli' = [cli EXCEPT !.pc = "snapshot"]
    BY <2>2 DEF TidyInv, BarrierInv, BackupHolds, ServiceHolds, TypeInv
  <2> QED
    BY <2>1, <2>2
<1>6. BackupIsWhole'
  BY DEF BackupIsWhole, BarrierInv, WholeInv, Readable, In, State, TypeInv, FileStates, RowStates,
       ServiceSteps, Saving, Undoing, Removing
<1>7. GoneLeavesNoRow'
  BY DEF GoneLeavesNoRow, Rows, State
<1> QED
  BY <1>1, <1>2, <1>3, <1>4, <1>5, <1>6, <1>7

(* The snapshot has the rows that can be read, all with their files.       *)
LEMMA BackupSnapshotKeeps ==
    ASSUME Inv, BackupSnapshot
    PROVE  Inv'
<1> USE DEF Inv, BackupSnapshot, In, CliStays, FilesStay
<1>1. TypeInv'
  BY DEF TypeInv, FileStates, RowStates, ServiceSteps, Saving, Undoing, Removing
<1>2. BarrierInv'
  BY DEF BarrierInv, BackupHolds, ServiceHolds, Up
<1>3. ClaimInv'
  BY DEF ClaimInv, Rows, State, Saving, Undoing, Removing
<1>4. WholeInv'
  BY DEF WholeInv, Up, Readable, State
<1>5. TidyInv'
  BY DEF TidyInv, State
<1>6. BackupIsWhole'
  BY DEF BackupIsWhole, BarrierInv, WholeInv, Readable, State
<1>7. GoneLeavesNoRow'
  BY DEF GoneLeavesNoRow, Rows, State
<1> QED
  BY <1>1, <1>2, <1>3, <1>4, <1>5, <1>6, <1>7

(* A file is copied, or the copy ends.                                     *)
LEMMA BackupCopyKeeps ==
    ASSUME Inv, BackupCopy
    PROVE  Inv'
<1> USE DEF Inv, BackupCopy, CliStays, FilesStay
<1>1. TypeInv'
  <2>1. ASSUME NEW i \in cli.left, files[i] = "whole",
               cli' = [cli EXCEPT !.left = @ \ {i}, !.archive = @ \cup {i}]
        PROVE  TypeInv'
    <3>1. i \in Ids
      BY <2>1 DEF TypeInv
    <3>2. cli' \in [pc : {"idle", "reconcile", "snapshot", "copy"}, left : SUBSET Ids,
                    snapshot : SUBSET Ids, archive : SUBSET Ids]
      BY <2>1, <3>1 DEF TypeInv
    <3> QED
      BY <3>2 DEF TypeInv
  <2>2. CASE cli' = [cli EXCEPT !.pc = "idle", !.left = {}]
    BY <2>2 DEF TypeInv
  <2>3. CASE cli' = [cli EXCEPT !.pc = "idle"]
    BY <2>3 DEF TypeInv
  <2> QED
    BY <2>1, <2>2, <2>3
<1>2. BarrierInv'
  BY DEF BarrierInv, BackupHolds, ServiceHolds, Up
<1>3. ClaimInv'
  BY DEF ClaimInv, Rows, State, Saving, Undoing, Removing
<1>4. WholeInv'
  <2>1. CASE \E i \in cli.left : files[i] = "whole"
                    /\ cli' = [cli EXCEPT !.left = @ \ {i}, !.archive = @ \cup {i}]
    BY <2>1 DEF WholeInv, ClaimInv, BarrierInv, Up, Readable, In, State, BackupHolds, ServiceHolds,
         TypeInv, FileStates, RowStates, ServiceSteps, Saving, Undoing, Removing
  <2>2. CASE cli' = [cli EXCEPT !.pc = "idle", !.left = {}]
    BY <2>2 DEF WholeInv, ClaimInv, BarrierInv, Up, Readable, In, State, BackupHolds, ServiceHolds,
         TypeInv, FileStates, RowStates, ServiceSteps, Saving, Undoing, Removing
  <2>3. CASE cli' = [cli EXCEPT !.pc = "idle"]
    BY <2>3 DEF WholeInv, ClaimInv, BarrierInv, Up, Readable, In, State, BackupHolds, ServiceHolds,
         TypeInv, FileStates, RowStates, ServiceSteps, Saving, Undoing, Removing
  <2> QED
    BY <2>1, <2>2, <2>3
<1>5. TidyInv'
  <2>1. CASE \E i \in cli.left : files[i] = "whole"
                    /\ cli' = [cli EXCEPT !.left = @ \ {i}, !.archive = @ \cup {i}]
    BY <2>1 DEF TidyInv, State, BarrierInv, BackupHolds, ServiceHolds, TypeInv, FileStates,
         RowStates, ServiceSteps, Saving, Undoing, Removing
  <2>2. CASE cli' = [cli EXCEPT !.pc = "idle", !.left = {}]
    BY <2>2 DEF TidyInv, State, BarrierInv, BackupHolds, ServiceHolds, TypeInv, FileStates,
         RowStates, ServiceSteps, Saving, Undoing, Removing
  <2>3. CASE cli' = [cli EXCEPT !.pc = "idle"]
    BY <2>3 DEF TidyInv, State, BarrierInv, BackupHolds, ServiceHolds, TypeInv, FileStates,
         RowStates, ServiceSteps, Saving, Undoing, Removing
  <2> QED
    BY <2>1, <2>2, <2>3
<1>6. BackupIsWhole'
  <2>1. ASSUME NEW i \in cli.left, files[i] = "whole",
               cli' = [cli EXCEPT !.left = @ \ {i}, !.archive = @ \cup {i}]
        PROVE  BackupIsWhole'
    <3>1. cli'.left = cli.left \ {i}
      BY <2>1 DEF TypeInv
    <3> QED
      BY <2>1, <3>1 DEF BackupIsWhole
  <2>2. CASE cli' = [cli EXCEPT !.pc = "idle", !.left = {}]
    BY <2>2 DEF BackupIsWhole, TypeInv
  <2>3. CASE cli' = [cli EXCEPT !.pc = "idle"]
    BY <2>3 DEF BackupIsWhole, TypeInv
  <2> QED
    BY <2>1, <2>2, <2>3
<1>7. GoneLeavesNoRow'
  BY DEF GoneLeavesNoRow, Rows, State
<1> QED
  BY <1>1, <1>2, <1>3, <1>4, <1>5, <1>6, <1>7

(* Only the request changes, and it is not gone.                           *)
LEMMA RequestEndsKeeps ==
    ASSUME Inv, RequestEnds
    PROVE  Inv'
<1> USE DEF Inv, RequestEnds, RowsStay, FilesStay
<1>1. TypeInv'
  BY DEF TypeInv, FileStates, RowStates, ServiceSteps, Saving, Undoing, Removing
<1>2. BarrierInv'
  BY DEF BarrierInv, BackupHolds, ServiceHolds, Up
<1>3. ClaimInv'
  BY DEF ClaimInv, Rows, State, Saving, Undoing, Removing
<1>4. WholeInv'
  BY DEF WholeInv, Up, Readable, In, State
<1>5. TidyInv'
  BY DEF TidyInv, State
<1>6. BackupIsWhole'
  BY DEF BackupIsWhole
<1>7. GoneLeavesNoRow'
  BY DEF GoneLeavesNoRow, Rows, State
<1> QED
  BY <1>1, <1>2, <1>3, <1>4, <1>5, <1>6, <1>7

(* The service is down: nothing is read until it has reconciled again.     *)
LEMMA CrashKeeps ==
    ASSUME Inv, Crash
    PROVE  Inv'
<1> USE DEF Inv, Crash, LosesUnsynced, NoBackup, At, Idle, RowsStay
<1>1. TypeInv'
  BY DEF TypeInv, FileStates, RowStates, ServiceSteps, Saving, Undoing, Removing
<1>2. BarrierInv'
  BY DEF BarrierInv, BackupHolds, ServiceHolds, Up
<1>3. ClaimInv'
  BY DEF ClaimInv, Rows, State, Saving, Undoing, Removing
<1>4. WholeInv'
  BY DEF WholeInv, Up, Readable, In, State
<1>5. TidyInv'
  BY DEF TidyInv, State
<1>6. BackupIsWhole'
  BY DEF BackupIsWhole
<1>7. GoneLeavesNoRow'
  BY DEF GoneLeavesNoRow, Rows, State
<1> QED
  BY <1>1, <1>2, <1>3, <1>4, <1>5, <1>6, <1>7

-----------------------------------------------------------------------------
(* The theorems *)

(* Nothing is stored when the server starts for the first time.            *)
LEMMA InitHolds == Init => Inv
  BY DEF Init, Inv, TypeInv, FileStates, RowStates, ServiceSteps, BarrierInv, BackupHolds,
         ServiceHolds, ClaimInv, Rows, State, NoRow, Row, Saving, Undoing, Removing, WholeInv,
         Up, Readable, In, TidyInv, BackupIsWhole, GoneLeavesNoRow, Idle, At, NoBackup, None

(* The invariant is about the state alone.                                 *)
LEMMA StutterKeeps == Inv /\ UNCHANGED vars => Inv'
  BY DEF vars, Inv, TypeInv, BarrierInv, BackupHolds, ServiceHolds, ClaimInv, Rows, State,
         WholeInv, Up, Readable, In, TidyInv, BackupIsWhole, GoneLeavesNoRow

(* Every step of the service, of its deleting goroutine and of the backup, *)
(* and every crash, keeps it.                                              *)
LEMMA NextKeeps == Inv /\ [Next]_vars => Inv'
<1> SUFFICES ASSUME Inv, [Next]_vars PROVE Inv'
  OBVIOUS
<1>1. CASE \E i \in Ids : Save(i) \/ Unlink(i) \/ Drop(i)
  <2>1. PICK i \in Ids : Save(i) \/ Unlink(i) \/ Drop(i)
    BY <1>1
  <2>2. CASE Save(i)
    BY <2>2, SaveBeginKeeps, SaveWriteKeeps, SavePublishKeeps, SaveSyncKeeps, SaveFinalizeKeeps,
       SaveFailsKeeps, SaveUndoRowKeeps, SaveUndoFileKeeps DEF Save
  <2>3. CASE Unlink(i) \/ Drop(i)
    BY <2>3, UnlinkKeeps, DropKeeps
  <2> QED
    BY <2>1, <2>2, <2>3
<1>2. CASE MarkDeleting \/ DeleteRequest \/ ClaimRequest \/ FinalizeRequest \/ RemoveBegin
  BY <1>2, MarkDeletingKeeps, DeleteRequestKeeps, ClaimRequestKeeps, FinalizeRequestKeeps,
     RemoveBeginKeeps
<1>3. CASE Start \/ ServiceReconciles \/ RequestEnds \/ Crash
  BY <1>3, StartKeeps, ServiceReconcilesKeeps, RequestEndsKeeps, CrashKeeps
<1>4. CASE Backup
  BY <1>4, BackupBeginKeeps, BackupReconcilesKeeps, BackupSnapshotKeeps, BackupCopyKeeps DEF Backup
<1>5. CASE UNCHANGED vars
  BY <1>5, StutterKeeps
<1> QED
  BY <1>1, <1>2, <1>3, <1>4, <1>5 DEF Next

(* The inductive invariant holds in every state.                           *)
THEOREM InvHolds == Spec => []Inv
<1>1. Init => Inv
  BY InitHolds
<1>2. Inv /\ [Next]_vars => Inv'
  BY NextKeeps
<1> QED
  BY <1>1, <1>2, PTL DEF Spec

(* An image that can be read has its whole file while the service is up, a *)
(* backup has every file of its snapshot, and a request that is gone has   *)
(* left no row, whatever crashed, failed or was lost before.               *)
THEOREM ImagesStayWhole == Spec => []ImagesAreWhole
<1>1. Inv => ImagesAreWhole
  BY DEF Inv, WholeInv, ImagesAreWhole, ReadyIsWhole
<1> QED
  BY <1>1, InvHolds, PTL

(* Only the last step of a start opens the service, and it leaves nothing  *)
(* but whole files of rows that can be read.                               *)
LEMMA LastStepTidies == Inv /\ [Next]_vars => Tidies
<1> SUFFICES ASSUME Inv, [Next]_vars, service.pc = "reconcile", service'.pc = "idle",
                    NEW i \in Ids
             PROVE  IF files'[i] = None THEN rows'[i].state = "none"
                    ELSE files'[i] = "whole" /\ rows'[i].state = "ready"
  BY DEF Tidies
<1>1. service.left = {} /\ ReconcileRows
  <2>1. deleter.pc = "idle"
    BY DEF Inv, BarrierInv, Up
  <2>2. service \in [pc : ServiceSteps, left : SUBSET Ids, at : Ids \cup {None}]
    BY DEF Inv, TypeInv
  <2>3. ASSUME NEW j \in Ids PROVE ~Save(j)
    <3>1. ~(\E slot \in Slots : SaveBegin(j, slot))
      BY DEF SaveBegin
    <3>2. ~(SaveWrite(j) \/ SavePublish(j) \/ SaveSync(j) \/ SaveFinalize(j))
      BY DEF SaveWrite, SavePublish, SaveSync, SaveFinalize, At
    <3>3. ~(SaveFails(j) \/ SaveUndoRow(j) \/ SaveUndoFile(j))
      BY DEF SaveFails, Saving, SaveUndoRow, SaveUndoFile, At
    <3> QED
      BY <3>1, <3>2, <3>3 DEF Save
  <2>4. ~(\E j \in Ids : Unlink(j) \/ Drop(j))
    BY DEF Unlink, Drop
  <2>5. ~(MarkDeleting \/ ClaimRequest \/ FinalizeRequest \/ RemoveBegin \/ Start \/ Crash)
    BY <2>1 DEF MarkDeleting, ClaimRequest, FinalizeRequest, RemoveBegin, Start, Crash, At, Up
  <2>6. ~(DeleteRequest \/ RequestEnds \/ Backup \/ UNCHANGED vars)
    BY DEF DeleteRequest, RequestEnds, Backup, BackupBegin, BackupReconciles, BackupSnapshot,
       BackupCopy, CliStays, vars
  <2>7. ServiceReconciles
    BY <2>3, <2>4, <2>5, <2>6 DEF Next
  <2> QED
    BY <2>7 DEF ServiceReconciles, At
<1>2. files[i] = None \/ (files[i] = "whole" /\ State(i) = "ready")
  BY <1>1 DEF Inv, TidyInv
<1> QED
  BY <1>1, <1>2 DEF ReconcileRows, Delete, NoRow, Row, State, None

(* When the service is up again after a crash, the rows are those of the   *)
(* files that are there, and every one can be read.                        *)
THEOREM StartsTidy == Spec => StartTidies
<1>1. Inv /\ [Next]_vars => [Tidies]_vars
  BY LastStepTidies
<1> QED
  BY <1>1, InvHolds, PTL DEF Spec, StartTidies

-----------------------------------------------------------------------------
(* The processes that share the database (Process), for any sets of        *)
(* processes of each kind (none of the proofs needs them to be disjoint)   *)
(* and any number of starts; place is the variable pc of Process.          *)

CONSTANTS Servers, Sharers, Savers, Restorers, MaxStarts
VARIABLES place, lock, lost, uses, half, starts
P == INSTANCE Process WITH pc <- place

Places == {"off", "recover", "open", "broker", "start", "workers", "downgrade", "converting", "run",
           "draining", "closing", "broker_close", "leaving", "gone", "use", "used", "save",
           "saving", "install"}
Resources == {"db", "catalog", "journal", "retention", "handlers"}
ProcessTypeInv ==
    /\ place \in [P!Processes -> Places]
    /\ lock \in [P!Processes -> {"none", "shared", "exclusive"}]
    /\ lost \subseteq P!Processes
    /\ uses \in [P!Processes -> SUBSET Resources]
    /\ half \in BOOLEAN

(* What the kernel holds for a process follows from where it is, but on    *)
(* the way out, where it also tells how far the start had come.            *)
LockInv == \A p \in P!Processes :
    /\ place[p] \in {"off", "gone", "converting"} => lock[p] = "none"
    /\ place[p] \in {"use", "used", "run", "draining"} => lock[p] = "shared"
    /\ place[p] \in {"recover", "open", "broker", "start", "workers", "downgrade", "save", "saving",
                  "install"} => lock[p] = "exclusive"
Exclusion == \A p, q \in P!Processes : p # q /\ lock[p] = "exclusive" => lock[q] = "none"

(* The lock goes to another only while it is converted, and whoever fails  *)
(* to get it back was overtaken.                                           *)
OvertakenInv == \A p \in P!Processes : p \notin lost =>
    /\ place[p] = "converting" => \A q \in P!Processes : lock[q] # "exclusive"
    /\ place[p] \in {"closing", "broker_close", "leaving"} => lock[p] # "none"

(* The storage is opened after recovery and closed before the lock goes,   *)
(* unless the catalog is still refreshed.                                  *)
UseInv == \A p \in P!Processes :
    /\ place[p] \in {"off", "recover", "open", "use", "save", "install"} => uses[p] = {}
    /\ place[p] \in {"leaving", "gone"} /\ "db" \in uses[p] => "catalog" \in uses[p]

(* Only a restore that is being installed makes one that is interrupted.   *)
HalfInv == \A p \in P!Processes :
    /\ place[p] = "install" => p \notin Servers
    /\ p \in Servers /\ (place[p] = "open" \/ "db" \in uses[p]) /\ half => P!Excused(p)

ProcessInv == ProcessTypeInv /\ LockInv /\ Exclusion /\ OvertakenInv /\ UseInv /\ HalfInv

-----------------------------------------------------------------------------
(* What the invariant says of two processes *)

(* A process that is alone has the lock to itself, and of the others only  *)
(* the excused have the storage open (ProcessesKeepApart, its first part). *)
LEMMA OthersAreExcused ==
    ASSUME ProcessInv, NEW p \in P!Processes, NEW q \in P!Processes, p # q, P!Alone(p), P!Works(q)
    PROVE  P!Excused(q)
BY DEF ProcessInv, ProcessTypeInv, LockInv, Exclusion, OvertakenInv, UseInv, P!Alone, P!Works,
     P!Excused, Places

-----------------------------------------------------------------------------
(* Every step keeps the invariant *)

USE DEF P!Goes, P!Opens, P!Closes, P!Free, P!Step, P!Ended, Places, Resources

(* A service that opens its storage has the lock to itself and has         *)
(* recovered.                                                              *)
LEMMA OpenKeeps ==
    ASSUME ProcessInv, NEW p \in P!Processes, P!Open(p)
    PROVE  ProcessInv'
BY SMTT(30) DEF ProcessInv, ProcessTypeInv, LockInv, Exclusion, OvertakenInv, UseInv, HalfInv,
     P!Excused, P!Open

(* The catalog is opened by a service that keeps its lock.                 *)
LEMMA BrokerKeeps ==
    ASSUME ProcessInv, NEW p \in P!Processes, P!Broker(p)
    PROVE  ProcessInv'
BY SMTT(30) DEF ProcessInv, ProcessTypeInv, LockInv, Exclusion, OvertakenInv, UseInv, HalfInv,
     P!Excused, P!Broker

(* Start opens the journal, or goes on to close.                           *)
LEMMA StartingKeeps ==
    ASSUME ProcessInv, NEW p \in P!Processes, P!Start(p)
    PROVE  ProcessInv'
BY SMTT(30) DEF ProcessInv, ProcessTypeInv, LockInv, Exclusion, OvertakenInv, UseInv, HalfInv,
     P!Excused, P!Start

(* The retention worker is started, or the start gives up.                 *)
LEMMA WorkersKeeps ==
    ASSUME ProcessInv, NEW p \in P!Processes, P!Workers(p)
    PROVE  ProcessInv'
BY SMTT(30) DEF ProcessInv, ProcessTypeInv, LockInv, Exclusion, OvertakenInv, UseInv, HalfInv,
     P!Excused, P!Workers

(* The shared lock is got, or another has the lock and was noted as the    *)
(* one who overtook.                                                       *)
LEMMA ConvertedKeeps ==
    ASSUME ProcessInv, NEW p \in P!Processes, P!Converted(p)
    PROVE  ProcessInv'
BY SMTT(30) DEF ProcessInv, ProcessTypeInv, LockInv, Exclusion, OvertakenInv, UseInv, HalfInv,
     P!Excused, P!Converted

(* A handler begins; nothing is locked or opened.                          *)
LEMMA HandlerBeginsKeeps ==
    ASSUME ProcessInv, NEW p \in P!Processes, P!HandlerBegins(p)
    PROVE  ProcessInv'
BY SMTT(30) DEF ProcessInv, ProcessTypeInv, LockInv, Exclusion, OvertakenInv, UseInv, HalfInv,
     P!Excused, P!HandlerBegins

(* The handlers end, wherever the service is.                              *)
LEMMA HandlersEndKeeps ==
    ASSUME ProcessInv, NEW p \in P!Processes, P!HandlersEnd(p)
    PROVE  ProcessInv'
BY SMTT(30) DEF ProcessInv, ProcessTypeInv, LockInv, Exclusion, OvertakenInv, UseInv, HalfInv,
     P!Excused, P!HandlersEnd

(* A service that is told to stop still has its shared lock.               *)
LEMMA ShutdownKeeps ==
    ASSUME ProcessInv, NEW p \in P!Processes, P!Shutdown(p)
    PROVE  ProcessInv'
BY SMTT(30) DEF ProcessInv, ProcessTypeInv, LockInv, Exclusion, OvertakenInv, UseInv, HalfInv,
     P!Excused, P!Shutdown

(* The lock is kept while requests are waited for.                         *)
LEMMA DrainedKeeps ==
    ASSUME ProcessInv, NEW p \in P!Processes, P!Drained(p)
    PROVE  ProcessInv'
BY SMTT(30) DEF ProcessInv, ProcessTypeInv, LockInv, Exclusion, OvertakenInv, UseInv, HalfInv,
     P!Excused, P!Drained

(* Workers and journal are closed; the lock stays what it was.             *)
LEMMA closeResourcesKeeps ==
    ASSUME ProcessInv, NEW p \in P!Processes, P!closeResources(p)
    PROVE  ProcessInv'
BY SMTT(30) DEF ProcessInv, ProcessTypeInv, LockInv, Exclusion, OvertakenInv, UseInv, HalfInv,
     P!Excused, P!closeResources

(* Storage stays open on the way out only with the catalog (closeBroker).  *)
LEMMA CloseBrokerKeeps ==
    ASSUME ProcessInv, NEW p \in P!Processes, P!CloseBroker(p)
    PROVE  ProcessInv'
BY SMTT(30) DEF ProcessInv, ProcessTypeInv, LockInv, Exclusion, OvertakenInv, UseInv, HalfInv,
     P!Excused, P!CloseBroker

(* The lock goes last.                                                     *)
LEMMA UnlockKeeps ==
    ASSUME ProcessInv, NEW p \in P!Processes, P!Unlock(p)
    PROVE  ProcessInv'
BY SMTT(30) DEF ProcessInv, ProcessTypeInv, LockInv, Exclusion, OvertakenInv, UseInv, HalfInv,
     P!Excused, P!Unlock

(* A process that has ended holds and uses nothing.                        *)
LEMMA ExitKeeps ==
    ASSUME ProcessInv, NEW p \in P!Processes, P!Exit(p)
    PROVE  ProcessInv'
BY SMTT(30) DEF ProcessInv, ProcessTypeInv, LockInv, Exclusion, OvertakenInv, UseInv, HalfInv,
     P!Excused, P!Exit

(* A command under a shared lock meets no exclusive one.                   *)
LEMMA UseKeeps ==
    ASSUME ProcessInv, NEW p \in P!Processes \ Servers, P!Use(p)
    PROVE  ProcessInv'
BY SMTT(30) DEF ProcessInv, ProcessTypeInv, LockInv, Exclusion, OvertakenInv, UseInv, HalfInv,
     P!Excused, P!Use

(* A login under an exclusive lock meets nobody.                           *)
LEMMA SaveKeeps ==
    ASSUME ProcessInv, NEW p \in P!Processes \ Servers, P!Save(p)
    PROVE  ProcessInv'
BY SMTT(30) DEF ProcessInv, ProcessTypeInv, LockInv, Exclusion, OvertakenInv, UseInv, HalfInv,
     P!Excused, P!Save

(* The exclusive lock is given up: nobody else has any.                    *)
LEMMA DowngradeKeeps ==
    ASSUME ProcessInv, NEW p \in P!Processes, P!Downgrade(p)
    PROVE  ProcessInv'
BY SMTT(30) DEF ProcessInv, ProcessTypeInv, LockInv, Exclusion, OvertakenInv, UseInv, HalfInv,
     P!Excused, P!Downgrade

(* The lock is taken when it is free, and those who convert theirs are     *)
(* overtaken.                                                              *)
LEMMA AcquireKeeps ==
    ASSUME ProcessInv, NEW p \in P!Processes, P!Acquire(p)
    PROVE  ProcessInv'
BY SMTT(30) DEF ProcessInv, ProcessTypeInv, LockInv, Exclusion, OvertakenInv, UseInv, HalfInv,
     P!Excused, P!Acquire,
             P!LockMode, P!First

(* Recovery ends an interrupted restore, or fails and keeps it; nothing is *)
(* open yet.                                                               *)
LEMMA RecoverKeeps ==
    ASSUME ProcessInv, NEW p \in P!Processes, P!Recover(p)
    PROVE  ProcessInv'
<1>1. CASE P!Step(p, "recover", "leaving") /\ half /\ UNCHANGED <<half, uses>>
  BY <1>1, SMTT(30) DEF ProcessInv, ProcessTypeInv, LockInv, Exclusion, OvertakenInv, UseInv,
       HalfInv, P!Excused
<1>2. ASSUME NEW to \in {"open", "install"}, to = "install" => p \notin Servers,
             P!Step(p, "recover", to), half' = FALSE, UNCHANGED uses
      PROVE  ProcessInv'
  <2>1. ProcessTypeInv'
    BY <1>2 DEF ProcessInv, ProcessTypeInv
  <2>2. LockInv' /\ Exclusion'
    BY <1>2, <2>1 DEF ProcessInv, ProcessTypeInv, LockInv, Exclusion
  <2>3. OvertakenInv'
    BY <1>2, <2>1 DEF ProcessInv, ProcessTypeInv, OvertakenInv
  <2>4. UseInv'
    BY <1>2, <2>1 DEF ProcessInv, ProcessTypeInv, UseInv
  <2>5. HalfInv'
    BY <1>2, <2>1 DEF ProcessInv, ProcessTypeInv, HalfInv
  <2>. QED  BY <2>1, <2>2, <2>3, <2>4, <2>5 DEF ProcessInv
<1>. QED  BY <1>1, <1>2, Zenon DEF P!Recover

(* A restore may leave its work half-way: whoever has a database open is   *)
(* excused.                                                                *)
LEMMA InstallKeeps ==
    ASSUME ProcessInv, NEW p \in P!Processes \ Servers, P!Install(p)
    PROVE  ProcessInv'
<1>1. \A q \in P!Processes : q # p => (P!Works(q) => P!Excused(q)) /\ place[q] # "open"
  BY OthersAreExcused, SMTT(30) DEF ProcessInv, LockInv, Exclusion, P!Install, P!Alone
<1>2. ProcessTypeInv' /\ LockInv' /\ Exclusion' /\ OvertakenInv' /\ UseInv'
  BY SMTT(30) DEF ProcessInv, ProcessTypeInv, LockInv, Exclusion, OvertakenInv, UseInv, P!Install
<1>3. HalfInv'
  BY <1>1, <1>2, SMTT(30) DEF ProcessInv, ProcessTypeInv, LockInv, Exclusion, HalfInv, P!Excused,
       P!Works, UseInv, P!Install
<1>. QED  BY <1>2, <1>3 DEF ProcessInv

(* A process that is killed holds and uses nothing, and leaves half a      *)
(* restore if it installed one.                                            *)
LEMMA KillKeeps ==
    ASSUME ProcessInv, NEW p \in P!Processes, P!Crash(p)
    PROVE  ProcessInv'
<1>1. half' \in BOOLEAN
  BY Zenon DEF ProcessInv, ProcessTypeInv, P!Crash
<1>2. ProcessTypeInv' /\ LockInv' /\ Exclusion' /\ OvertakenInv' /\ UseInv'
  BY <1>1, SMTT(30) DEF ProcessInv, ProcessTypeInv, LockInv, Exclusion, OvertakenInv, UseInv,
       P!Crash
<1>3. CASE half' = half
  BY <1>2, <1>3, SMTT(30) DEF ProcessInv, ProcessTypeInv, HalfInv, P!Excused, P!Crash
<1>4. CASE place[p] = "install"
  <2>1. \A q \in P!Processes : q # p => (P!Works(q) => P!Excused(q)) /\ place[q] # "open"
    BY <1>4, OthersAreExcused, SMTT(30) DEF ProcessInv, LockInv, Exclusion, P!Alone
  <2>2. HalfInv'
    BY <1>2, <2>1, SMTT(30) DEF ProcessInv, ProcessTypeInv, HalfInv, P!Excused, P!Works, P!Crash
  <2>. QED  BY <1>2, <2>2 DEF ProcessInv
<1>5. half' = half \/ place[p] = "install"
  BY Zenon DEF ProcessInv, ProcessTypeInv, P!Crash
<1>. QED  BY <1>2, <1>3, <1>4, <1>5 DEF ProcessInv

(* Nothing is locked, open or running at first.                            *)
LEMMA ProcessInvInit == P!Init => ProcessInv
BY SMTT(30) DEF P!Init, ProcessInv, ProcessTypeInv, LockInv, Exclusion, OvertakenInv, UseInv,
     HalfInv, P!Excused

(* Every step of every process keeps the invariant.                        *)
LEMMA ProcessInvNext == ProcessInv /\ [P!Next]_P!vars => ProcessInv'
<1>. SUFFICES ASSUME ProcessInv, [P!Next]_P!vars  PROVE ProcessInv'
  OBVIOUS
<1>1. CASE UNCHANGED P!vars
  BY <1>1 DEF P!vars, ProcessInv, ProcessTypeInv, LockInv, Exclusion, OvertakenInv, UseInv,
       HalfInv, P!Excused
<1>2. ASSUME NEW p \in P!Processes, P!Acquire(p) \/ P!Crash(p)  PROVE ProcessInv'
  BY <1>2, AcquireKeeps, KillKeeps
<1>3. ASSUME NEW p \in P!Processes, P!Serve(p)  PROVE ProcessInv'
  BY <1>3, RecoverKeeps, OpenKeeps, BrokerKeeps, StartingKeeps, WorkersKeeps, DowngradeKeeps,
       ConvertedKeeps,
     HandlerBeginsKeeps, HandlersEndKeeps, ShutdownKeeps DEF P!Serve
<1>4. ASSUME NEW p \in P!Processes, P!Stop(p)  PROVE ProcessInv'
  BY <1>4, DrainedKeeps, closeResourcesKeeps, CloseBrokerKeeps, UnlockKeeps, ExitKeeps DEF P!Stop
<1>5. ASSUME NEW p \in P!Processes \ Servers, P!Command(p)  PROVE ProcessInv'
  BY <1>5, UseKeeps, SaveKeeps, RecoverKeeps, InstallKeeps, UnlockKeeps, ExitKeeps DEF P!Command
<1>. QED  BY <1>1, <1>2, <1>3, <1>4, <1>5 DEF P!Next

(* The invariant of locks, places and open storage holds of every          *)
(* behaviour.                                                              *)
THEOREM ProcessInvHolds == P!Spec => []ProcessInv
BY ProcessInvInit, ProcessInvNext, PTL DEF P!Spec

(* AcquireApplicationLock, DowngradeShared: nobody has the storage open    *)
(* beside a process that recovers, replays or installs, and no service has *)
(* a database open with an interrupted restore around it, but for the two  *)
(* cases of Excused; for every number of processes and starts.             *)
THEOREM ProcessesStayApart == P!Spec => []P!ProcessesKeepApart
<1>1. ProcessInv => P!ProcessesKeepApart
  BY OthersAreExcused DEF ProcessInv, HalfInv, P!ProcessesKeepApart
<1>. QED  BY <1>1, ProcessInvHolds, PTL
=============================================================================
