------------------------------- MODULE Process -------------------------------
(***************************************************************************)
(* The processes that share a database: the service, and the commands that *)
(* import or log in, create a key, back up and restore.  They keep apart   *)
(* by an advisory lock on a file (flock), taken without waiting; the       *)
(* service starts under an exclusive lock and runs under a shared one.     *)
(***************************************************************************)
EXTENDS Integers, FiniteSets

CONSTANTS
    Servers,     \* processes that run the service
    Sharers,     \* api-key create and backup: shared lock
    Savers,      \* import and login: exclusive lock, no recovery
    Restorers,   \* restore: exclusive lock
    MaxStarts    \* bound on the processes started

VARIABLES
    pc,      \* where each process is
    lock,    \* what the kernel holds for it: none, shared, exclusive
    lost,    \* processes overtaken while their lock was converted
    uses,    \* what is open or running: db, catalog, journal, retention, handlers
    half,    \* an interrupted restore is on the disk
    starts

vars == <<pc, lock, lost, uses, half, starts>>
Processes == Servers \cup Sharers \cup Savers \cup Restorers

Init ==
    /\ pc = [p \in Processes |-> "off"] /\ lock = [p \in Processes |-> "none"] /\ lost = {}
    /\ uses = [p \in Processes |-> {}] /\ half \in BOOLEAN /\ starts = 0

Goes(p, to) == pc' = [pc EXCEPT ![p] = to]
Opens(p, what) == uses' = [uses EXCEPT ![p] = @ \cup what]
Closes(p, what) == uses' = [uses EXCEPT ![p] = @ \ what]
Free(p, mode) == \A q \in Processes \ {p} : lock[q] = "none" \/ (mode = "shared" /\ lock[q] = "shared")

(* AcquireApplicationLock: a lock that is not free fails the command.      *)
\* seeded fault
LockModeShared(p) == "shared"
LockMode(p) == IF p \in Sharers THEN "shared" ELSE "exclusive"
First(p) == IF p \in Sharers THEN "use" ELSE IF p \in Savers THEN "save" ELSE "recover"
Acquire(p) ==
    /\ pc[p] = "off" /\ starts < MaxStarts /\ starts' = starts + 1
    /\ IF Free(p, LockMode(p))
       THEN /\ Goes(p, First(p)) /\ lock' = [lock EXCEPT ![p] = LockMode(p)]
            /\ lost' = lost \cup {q \in Processes : pc[q] = "converting"}
       ELSE UNCHANGED <<pc, lock, lost>>
    /\ UNCHANGED <<uses, half>>
\* The lock is released last; the process ends a little later.
Unlock(p) == /\ pc[p] = "leaving" /\ Goes(p, "gone") /\ lock' = [lock EXCEPT ![p] = "none"]
             /\ UNCHANGED <<lost, uses, half, starts>>
Ended(p) == /\ Goes(p, "off") /\ lock' = [lock EXCEPT ![p] = "none"]
            /\ uses' = [uses EXCEPT ![p] = {}] /\ lost' = lost \ {p} /\ UNCHANGED starts
Exit(p) == pc[p] = "gone" /\ Ended(p) /\ UNCHANGED half
(* A process that is killed leaves what it had installed half-way.         *)
Crash(p) == pc[p] \notin {"off", "gone"} /\ Ended(p) /\ half' \in {half, half \/ pc[p] = "install"}

-----------------------------------------------------------------------------
(* The service: recovery, storage, the catalog of the broker, Start.       *)
Step(p, from, to) == pc[p] = from /\ Goes(p, to) /\ UNCHANGED <<lock, lost, starts>>
Recover(p) ==
    \/ Step(p, "recover", IF p \in Servers THEN "open" ELSE "install") /\ half' = FALSE /\ UNCHANGED uses
    \/ Step(p, "recover", "leaving") /\ half /\ UNCHANGED <<half, uses>>
\* Without storage, or without accounts, the service starts all the same.
Open(p) == /\ Step(p, "open", "broker") /\ UNCHANGED half
           /\ Opens(p, {"db"}) \/ UNCHANGED uses
Broker(p) == /\ Step(p, "broker", "start") /\ UNCHANGED half
             /\ ("db" \in uses[p] /\ Opens(p, {"catalog"})) \/ UNCHANGED uses
(* Migration, pricing, reconciliation of usage and artifacts, recovery of  *)
(* reservations and replay of the journal, before its worker starts.       *)
Start(p) == /\ UNCHANGED half
            /\ \/ Step(p, "start", "workers") /\ Opens(p, IF "db" \in uses[p] THEN {"journal"} ELSE {})
               \/ Step(p, "start", "broker_close") /\ UNCHANGED uses
Workers(p) == /\ UNCHANGED half
              /\ \/ Step(p, "workers", "downgrade")
                    /\ Opens(p, IF "db" \in uses[p] THEN {"retention"} ELSE {})
                 \/ Step(p, "workers", "closing") /\ UNCHANGED uses
(* DowngradeShared: flock removes the lock and asks for the other one; in  *)
(* between another process may get it, and the lock is gone.               *)
Downgrade(p) ==
    /\ pc[p] = "downgrade" /\ Goes(p, "converting") /\ lock' = [lock EXCEPT ![p] = "none"]
    /\ UNCHANGED <<lost, uses, half, starts>>
Converted(p) ==
    /\ pc[p] = "converting" /\ UNCHANGED <<lost, uses, half, starts>>
    /\ IF Free(p, "shared")
       THEN Goes(p, "run") /\ lock' = [lock EXCEPT ![p] = "shared"]
       ELSE Goes(p, "closing") /\ UNCHANGED lock
HandlerBegins(p) == Step(p, "run", "run") /\ Opens(p, {"handlers"}) /\ UNCHANGED half
HandlersEnd(p) == /\ Closes(p, {"handlers"}) /\ "handlers" \in uses[p]
                  /\ UNCHANGED <<pc, lock, lost, half, starts>>

(* Shutdown: requests are waited for until a deadline, not the WebSockets  *)
(* taken over from the server; then the workers are closed one by one, the *)
(* catalog, and the database if the catalog has ended.                     *)
Shutdown(p) == Step(p, "run", "draining") /\ UNCHANGED <<uses, half>>
\* seeded fault
DrainedOnly(p) == Step(p, "draining", "closing") /\ "handlers" \notin uses[p] /\ UNCHANGED <<uses, half>>
Drained(p) == Step(p, "draining", "closing") /\ UNCHANGED <<uses, half>>
closeResources(p) ==
    /\ UNCHANGED half
    /\ IF "retention" \in uses[p] THEN pc[p] = "closing" /\ Closes(p, {"retention"})
                                       /\ UNCHANGED <<pc, lock, lost, starts>>
       ELSE Step(p, "closing", "broker_close") /\ Closes(p, {"journal"})
CloseBroker(p) == /\ UNCHANGED half
                  /\ \/ Step(p, "broker_close", "leaving") /\ Closes(p, {"catalog", "db"})
                     \/ Step(p, "broker_close", "leaving") /\ "catalog" \in uses[p] /\ UNCHANGED uses
Serve(p) == \/ Recover(p) \/ Open(p) \/ Broker(p) \/ Start(p) \/ Workers(p) \/ Downgrade(p) \/ Converted(p)
            \/ HandlerBegins(p) \/ HandlersEnd(p) \/ Shutdown(p)
Stop(p) == Drained(p) \/ closeResources(p) \/ CloseBroker(p) \/ Unlock(p) \/ Exit(p)

-----------------------------------------------------------------------------
(* The commands.  None but restore looks for an interrupted restore.       *)
Use(p) == \/ Step(p, "use", "used") /\ Opens(p, {"db"}) /\ UNCHANGED half
          \/ Step(p, "used", "leaving") /\ Closes(p, {"db"}) /\ UNCHANGED half
Save(p) == \/ Step(p, "save", "saving") /\ Opens(p, {"db"}) /\ UNCHANGED half
           \/ Step(p, "saving", "leaving") /\ Closes(p, {"db"}) /\ UNCHANGED half
Install(p) == Step(p, "install", "leaving") /\ UNCHANGED uses /\ half' \in BOOLEAN
Command(p) == Use(p) \/ Save(p) \/ (p \in Restorers /\ Recover(p)) \/ Install(p) \/ Unlock(p) \/ Exit(p)

Next == \E p \in Processes :
            \/ Acquire(p) \/ Crash(p)
            \/ p \in Servers /\ (Serve(p) \/ Stop(p))
            \/ p \notin Servers /\ Command(p)
Spec == Init /\ [][Next]_vars

-----------------------------------------------------------------------------
(* Properties                                                              *)
Works(p) == "db" \in uses[p] \/ pc[p] \in {"recover", "install"}
Alone(p) == pc[p] \in {"recover", "open", "broker", "start", "workers", "install", "saving"}
\* What flock and an unfinished refresh of the catalog leave open.
Excused(p) == p \in lost \/ (pc[p] = "gone" /\ "catalog" \in uses[p])

(* While a process recovers, replays, installs or saves a login, no other  *)
(* has the storage open, but one that was overtaken in the conversion or   *)
(* left with the catalog still refreshing; and the service never has a     *)
(* database open with an interrupted restore around it.                    *)
ProcessesKeepApart ==
    \A p, q \in Processes :
        /\ p # q /\ Alone(p) /\ Works(q) => Excused(q)
        /\ p \in Servers /\ "db" \in uses[p] /\ half => Excused(p)

(* A service that was told to stop releases its lock and ends, whatever    *)
(* its clients do.                                                         *)
Told(p) == pc[p] = "draining"
Ends(p) == pc[p] = "off"
=============================================================================
