------------------------------- MODULE Restore -------------------------------
(***************************************************************************)
(* Installing a restored database and artifact root in the place of the    *)
(* present ones.  The two are moved one after the other, and a marker file *)
(* beside the database says how far that came; a failed step rolls back,   *)
(* and what a crash leaves is recovered from the marker before the         *)
(* database is opened again.  A restore, and a start of the service, holds *)
(* the application lock alone, so one of them runs at a time.  What is     *)
(* left to do is the sequence of file operations the code executes.        *)
(***************************************************************************)
EXTENDS Integers, Sequences

CONSTANTS
    None,         \* no such file
    MaxRestores,  \* bound on the restores that reach their installation
    MaxCrashes,   \* bound on the crashes
    MaxFailures   \* bound on the operations that fail

VARIABLES
    disk,     \* what is at each path: a version, remains of one, or None
    marker,   \* the marker file, or None
    memory,   \* the marker as the running process has it
    todo,     \* the file operations left
    phase,    \* "idle", "install", "clean", "rollback" or "recover"
    failed,   \* the rollback met an error
    restores, \* number of restores begun; also the newest version
    crashes,  \* number of crashes so far
    failures, \* number of failed operations so far
    unsynced, \* the commit was reported as failed although its marker was written
    before,   \* the targets that were there at first, version 0
    base      \* the version that was installed when the last restore began

vars == <<disk, marker, memory, todo, phase, failed, restores, crashes, failures, unsynced, before, base>>

Targets == {"db", "root"}
Paths == Targets \cup {"oldDb", "oldRoot", "newDb", "newRoot"}
Partial == -1       \* a directory whose removal was interrupted
States == {"prepared", "moving_old", "old_moved", "installing_database", "database_installed",
           "installing_artifacts", "artifacts_installed", "committed",
           "recovering_old", "old_database_restored", "old_artifacts_restored",
           "recovering_new", "new_database_installed", "new_artifacts_installed"}
Marker(state, had) == [state |-> state, had |-> had]

\* A database may be there before any artifact root is: a key was created first.
Before == {{}, {"db"}, {"db", "root"}}
Init ==
    /\ before \in Before /\ base = 0
    /\ disk = [p \in Paths |-> IF p \in before THEN 0 ELSE None]
    /\ marker = None /\ memory = None /\ todo = <<>> /\ phase = "idle"
    /\ failed = FALSE /\ restores = 0
    /\ crashes = 0 /\ failures = 0 /\ unsynced = FALSE

-----------------------------------------------------------------------------
(* The programs                                                            *)

If(condition, program) == IF condition THEN program ELSE <<>>
Op(op, at, to) == [op |-> op, at |-> at, to |-> to]
Mark(state) == <<Op("mark", state, state)>>
Move(from, to) == <<Op("move", from, to)>>
Remove(path) == <<Op("remove", path, path)>>
Sync == <<Op("sync", "db", "root")>>
Unmark == <<Op("unmark", "db", "db")>>
Demand(path) == <<Op("demand", path, path)>>

Exists(path) == disk[path] # None
Here(S) == {t \in S : Exists(t)}

(* installRestoreSet, up to the commit and after it *)
InstallProgram(had) ==
    Mark("prepared")
    \o If(had # {}, Mark("moving_old"))
    \o If("db" \in had, Move("db", "oldDb")) \o If("root" \in had, Move("root", "oldRoot"))
    \o Mark("old_moved")
    \o Mark("installing_database") \o Move("newDb", "db") \o Mark("database_installed")
    \o Mark("installing_artifacts") \o Move("newRoot", "root") \o Mark("artifacts_installed")
    \o Sync \o Mark("committed")
RemoveOld == Remove("oldDb") \o Remove("oldRoot")
RemoveNew == Remove("newDb") \o Remove("newRoot")
CleanProgram == RemoveOld \o Unmark

(* rollbackRestoreSet: what the process did last decides whether the       *)
(* targets are the new ones.                                               *)
Installing == {"installing_database", "database_installed", "installing_artifacts",
               "artifacts_installed", "committed"}
RollbackProgram(m) ==
    If(m.state \in Installing, Remove("db") \o Remove("root"))
    \o If("db" \in m.had /\ Exists("oldDb"), Move("oldDb", "db"))
    \o If("root" \in m.had /\ Exists("oldRoot"), Move("oldRoot", "root"))
    \o RemoveNew

(* recoverOldRestorePair and recoverNewRestorePair *)
OldStates == {"recovering_old", "old_database_restored", "old_artifacts_restored"}
NewStates == {"recovering_new", "new_database_installed", "new_artifacts_installed"}
PutBack(path, t, state) ==
    If(Exists(path), Remove(t) \o Move(path, t) \o Mark(state))
OldProgram(m) ==
    If(m.state \notin OldStates, Mark("recovering_old"))
    \o PutBack("oldDb", "db", "old_database_restored") \o If("db" \in m.had, Demand("db"))
    \o PutBack("oldRoot", "root", "old_artifacts_restored") \o If("root" \in m.had, Demand("root"))
    \o RemoveNew \o Unmark
NewProgram(m) ==
    If(m.state \notin NewStates, Mark("recovering_new"))
    \o PutBack("newDb", "db", "new_database_installed")
    \o PutBack("newRoot", "root", "new_artifacts_installed") \o Demand("db") \o Demand("root")
    \o CleanProgram
(* recoverRestoreMarker: the program, or none when neither set is complete *)
\* seeded fault
RecoverProgramEager(m) ==
    IF m.state = "moving_old" \/ m.state \in OldStates THEN OldProgram(m)
    ELSE IF Here({"newDb", "newRoot"}) # {} THEN NewProgram(m)
    ELSE IF Here(Targets) = Targets THEN RemoveOld \o RemoveNew \o Unmark
    ELSE <<>>
RecoverProgram(m) ==
    LET old == Here({"oldDb", "oldRoot"})
        here == Here(Targets)
        new == Here({"newDb", "newRoot"})
    IN IF m.state = "moving_old" \/ m.state \in OldStates THEN OldProgram(m)
       ELSE IF m.state \in NewStates THEN NewProgram(m)
       ELSE IF \/ m.state = "committed"
               \/ here = Targets /\ (old = {} \/ m.state = "artifacts_installed")
            THEN RemoveOld \o RemoveNew \o Unmark
       ELSE IF old = {"oldDb", "oldRoot"} THEN OldProgram(m)
       ELSE IF new = {"newDb", "newRoot"} /\ here \cup old = {} THEN NewProgram(m)
       ELSE <<>>

-----------------------------------------------------------------------------
(* The processes                                                           *)

FaultsStay == UNCHANGED <<crashes, failures, unsynced>>
Steady == UNCHANGED <<restores, before, base>>
\* Returning removes the workspace of the restore that made it.
Return(d) ==
    /\ phase' = "idle" /\ todo' = <<>> /\ memory' = None /\ failed' = FALSE
    /\ disk' = IF phase = "recover" THEN d ELSE [d EXCEPT !["newDb"] = None, !["newRoot"] = None]
Enter(p, program) == phase' = p /\ todo' = program

(* What the archive holds is written beside the targets, and checked; what *)
(* is not whole never gets to the installation.                            *)
Extracted(v) == [disk EXCEPT !["newDb"] = v, !["newRoot"] = v]
(* Restore.  Without force nothing may be at the targets.                  *)
Begin(force) ==
    LET had == Here(Targets) IN
    /\ phase = "idle" /\ marker = None /\ restores < MaxRestores
    /\ force \/ had = {}
    /\ Here({"oldDb", "oldRoot"}) = {}
    /\ restores' = restores + 1
    /\ base' = IF had = {} THEN 0 ELSE disk["db"]
    /\ disk' = Extracted(restores + 1)
    /\ memory' = Marker("prepared", had) /\ Enter("install", InstallProgram(had))
    /\ UNCHANGED <<marker, failed, before>> /\ FaultsStay

(* RecoverRestore: a start of the service, or of another restore *)
Recover ==
    /\ phase = "idle" /\ marker # None /\ RecoverProgram(marker) # <<>>
    /\ memory' = marker /\ Enter("recover", RecoverProgram(marker))
    /\ UNCHANGED <<disk, marker, failed>> /\ Steady /\ FaultsStay

(* A directory cannot be renamed onto one that is not empty. *)
Possible(o) ==
    CASE o.op = "move" -> Exists(o.at) /\ (o.to \in {"root", "oldRoot"} => ~Exists(o.to))
      [] o.op = "demand" -> Exists(o.at)
      [] OTHER -> TRUE
After(o) ==
    CASE o.op = "move" -> [disk EXCEPT ![o.to] = disk[o.at], ![o.at] = None]
      [] o.op = "remove" -> [disk EXCEPT ![o.at] = None]
      [] OTHER -> disk
MarkerAfter(o) ==
    CASE o.op = "mark" -> [memory EXCEPT !.state = o.at]
      [] o.op = "unmark" -> None
      [] OTHER -> marker
\* The process keeps the state it meant to write.
MemoryAfter(o) == IF o.op = "mark" THEN [memory EXCEPT !.state = o.at] ELSE memory

Continue(d, ok) ==
    IF Tail(todo) # <<>> THEN /\ Enter(phase, Tail(todo)) /\ disk' = d
                              /\ memory' = MemoryAfter(Head(todo)) /\ failed' = (failed \/ ~ok)
    ELSE IF phase = "install"
         THEN Enter("clean", CleanProgram) /\ disk' = d /\ memory' = None /\ UNCHANGED failed
    ELSE IF phase = "rollback" /\ ok /\ ~failed
         THEN Enter("clean", Unmark) /\ disk' = d /\ memory' = None /\ UNCHANGED failed
    ELSE Return(d)

Do ==
    /\ todo # <<>> /\ Possible(Head(todo))
    /\ marker' = MarkerAfter(Head(todo)) /\ Continue(After(Head(todo)), TRUE)
    /\ Steady /\ FaultsStay

(* What a failed operation may leave: a marker is written, or removed, but *)
(* its directory is not synced; a directory is removed in part.            *)
Torn(o) ==
    IF o.op = "remove" /\ o.at \in {"root", "oldRoot", "newRoot"} /\ Exists(o.at)
    THEN {disk, [disk EXCEPT ![o.at] = Partial]} ELSE {disk}
(* The first marker is written before there is anything to roll back; a    *)
(* rollback goes on after an error; everything else returns.               *)
Fail ==
    LET o == Head(todo) IN
    /\ todo # <<>>
    /\ IF Possible(o) THEN o.op # "demand" /\ failures < MaxFailures /\ failures' = failures + 1
                      ELSE UNCHANGED failures
    /\ marker' \in {marker} \cup (IF Possible(o) THEN {MarkerAfter(o)} ELSE {})
    /\ \E d \in (IF Possible(o) THEN Torn(o) ELSE {disk}) :
         IF phase = "install" /\ o # Head(Mark("prepared"))
         THEN /\ Enter("rollback", RollbackProgram(MemoryAfter(o)))
              /\ memory' = MemoryAfter(o) /\ disk' = d /\ UNCHANGED failed
         ELSE IF phase = "rollback" THEN Continue(d, FALSE)
         ELSE Return(d)
    /\ unsynced' = (unsynced \/ (o.at = "committed" /\ marker'.state = "committed"))
    /\ UNCHANGED crashes /\ Steady
Crash ==
    /\ phase # "idle" /\ crashes < MaxCrashes /\ crashes' = crashes + 1
    /\ phase' = "idle" /\ todo' = <<>> /\ memory' = None /\ failed' = FALSE
    /\ disk' \in (IF todo = <<>> THEN {disk} ELSE Torn(Head(todo)))
    /\ UNCHANGED <<marker, failures, unsynced>> /\ Steady

Next == (\E force \in BOOLEAN : Begin(force)) \/ Recover \/ Do \/ Fail \/ Crash
Spec == Init /\ [][Next]_vars
-----------------------------------------------------------------------------
(* Properties                                                              *)

Parts(v) == IF v = 0 THEN before ELSE Targets
Installed(v) == \A t \in Targets : disk[t] = IF t \in Parts(v) THEN v ELSE None
Kept(v) == \A t \in Parts(v) :
               v \in {disk[p] : p \in IF t = "db" THEN {"db", "oldDb", "newDb"}
                                      ELSE {"root", "oldRoot", "newRoot"}}
Stuck == phase = "idle" /\ marker # None /\ RecoverProgram(marker) = <<>>

(* Once no restore is interrupted, the database and the artifact root that *)
(* are installed belong together: the ones from before, or the restored.   *)
InstalledIsWhole ==
    phase = "idle" /\ marker = None /\ ~unsynced => Installed(base) \/ Installed(restores)

(* At every moment one of the two sets is complete on disk.                *)
NothingLost == unsynced \/ Kept(base) \/ Kept(restores)

(* A crash at any step, of the restore or of a recovery, is recovered from *)
(* when a whole pair was installed before.                                 *)
PairConverges == failures = 0 /\ Parts(base) = Targets => ~Stuck

(* What is interrupted is always recovered from.                           *)
RecoveryConverges == ~Stuck
=============================================================================
