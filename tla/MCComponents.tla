---------------------------- MODULE MCComponents ----------------------------
(***************************************************************************)
(* One instance for TLC of each component that is modelled by itself.  The *)
(* initial state chooses one of them, part, and only its variables, which  *)
(* are x1, x2, ... in the order of their declaration, ever change: the     *)
(* states are those of the components, side by side.                       *)
(***************************************************************************)
EXTENDS Integers, FiniteSets

CONSTANT Nothing
VARIABLES part, x1, x2, x3, x4, x5, x6, x7, x8, x9, x10, x11, x12, x13, x14, x15, x16
allVars == <<part, x1, x2, x3, x4, x5, x6, x7, x8, x9, x10, x11, x12, x13, x14, x15, x16>>
\* The variables beyond those of a part.
From13 == <<x13, x14, x15, x16>>
From12 == <<x12, From13>>
From11 == <<x11, From12>>
From10 == <<x10, From11>>
From7 == <<x7, x8, x9, From10>>
From6 == <<x6, From7>>
None13 == x13 = 0 /\ x14 = 0 /\ x15 = 0 /\ x16 = 0
None12 == x12 = 0 /\ None13
None11 == x11 = 0 /\ None12
None10 == x10 = 0 /\ None11
None7 == x7 = 0 /\ x8 = 0 /\ x9 = 0 /\ None10
None6 == x6 = 0 /\ None7

\* A call that refreshes while the credential is looked at, and two calls, both with a login;
\* MCRefresher has all faults at once.
D == INSTANCE Refresher WITH Callers <- {"c1", "c2"}, Probes <- {"c2"}, MaxCalls <- 4, MaxIssued <- 5,
    MaxExpired <- 1, MaxRejected <- 0, MaxLogins <- 1, Denials <- TRUE, Faults <- TRUE,
    file <- x1, inFlight <- x2, generation <- x3, permanentToken <- x4, transientToken <- x5,
    call <- x6, started <- x7, caller <- x8, issued <- x9, login <- x10, logins <- x11,
    expired <- x12, rejected <- x13, consumed <- x14, denied <- x15, lost <- x16
S == INSTANCE Refresher WITH Callers <- {"c1", "c2"}, Probes <- {}, MaxCalls <- 4, MaxIssued <- 5,
    MaxExpired <- 1, MaxRejected <- 0, MaxLogins <- 1, Denials <- TRUE, Faults <- TRUE,
    file <- x1, inFlight <- x2, generation <- x3, permanentToken <- x4, transientToken <- x5,
    call <- x6, started <- x7, caller <- x8, issued <- x9, login <- x10, logins <- x11,
    expired <- x12, rejected <- x13, consumed <- x14, denied <- x15, lost <- x16
T == INSTANCE Turns WITH MaxMessages <- 2,
    client <- x1, reader <- x2, results <- x3, shared <- x4, handler <- x5, turn <- x6,
    value <- x7, rows <- x8, marked <- x9, told <- x10
R == INSTANCE Restore WITH None <- Nothing, MaxRestores <- 2, MaxCrashes <- 2, MaxFailures <- 1,
    disk <- x1, marker <- x2, memory <- x3, todo <- x4, phase <- x5, failed <- x6,
    restores <- x7, crashes <- x8, failures <- x9, unsynced <- x10, before <- x11, base <- x12
F == INSTANCE Artifacts WITH Ids <- {1, 2}, Slots <- {1}, MaxCrashes <- 2,
    request <- x1, rows <- x2, files <- x3, synced <- x4, service <- x5, deleter <- x6,
    cli <- x7, drawn <- x8, crashes <- x9

Model(flag, limit, efforts, type, value, shown) ==
    [flag |-> flag, limit |-> limit, efforts |-> efforts,
     capability |-> [type |-> type, value |-> value], shown |-> shown, other |-> "x"]
SomeOffers == {Model(TRUE, 0, {"low", "high"}, "flag", {1}, "a"),
               Model(FALSE, 1, {"high"}, "number", {1}, "b"),
               Model(TRUE, 2, {"low"}, "number", {2}, "b")}
C == INSTANCE Catalog WITH Accounts <- {"a1", "a2"}, First <- "a2", Offers <- SomeOffers,
    MaxChanges <- 1, MaxRestarts <- 1,
    provider <- x1, rows <- x2, states <- x3, broker <- x4, expired <- x5, work <- x6,
    answered <- x7, manager <- x8, broken <- x9, changes <- x10, restarts <- x11
\* Two logins, of which the second replaces the session of the first, and one login with time
\* enough for audits, sessions and nonces to be swept.
A == INSTANCE Access WITH Clients <- {"c1", "c2"}, Tokens <- {"t1", "t2"}, First <- "t1",
    Sessions <- {"s1", "s2"}, Nonces <- {"n1", "n2"}, NonceCap <- 1, NonceTTL <- 1,
    IdleTTL <- 2, SessionTTL <- 2, AuditTTL <- 2, MaxTime <- 1, MaxStarts <- 1, MaxRequests <- 4,
    now <- x1, tokens <- x2, sessions <- x3, nonces <- x4, op <- x5, cookie <- x6,
    audit <- x7, past <- x8, listed <- x9, starts <- x10, requests <- x11
W == INSTANCE Access WITH Clients <- {"c1"}, Tokens <- {"t1", "t2"}, First <- "t1",
    Sessions <- {"s1"}, Nonces <- {"n1"}, NonceCap <- 1, NonceTTL <- 1,
    IdleTTL <- 2, SessionTTL <- 3, AuditTTL <- 1, MaxTime <- 2, MaxStarts <- 2, MaxRequests <- 3,
    now <- x1, tokens <- x2, sessions <- x3, nonces <- x4, op <- x5, cookie <- x6,
    audit <- x7, past <- x8, listed <- x9, starts <- x10, requests <- x11
L == INSTANCE Listing WITH Rows <- 1..3, Limit <- 1, MaxTime <- 1, MaxChanges <- 6,
    now <- x1, table <- x2, rows <- x3, walk <- x4, changes <- x5
K == INSTANCE Keys WITH Keys <- {"k1"}, Callers <- {"c1"}, Admins <- {"d1", "d2"},
    Models <- {"m1", "m2"}, MaxTime <- 1, MaxChanges <- 4, MaxRequests <- 2,
    now <- x1, keys <- x2, call <- x3, changes <- x4, requests <- x5
ASSUME A!AccessAssumption /\ W!AccessAssumption /\ T!TurnsAssumption /\ C!CatalogAssumption /\ L!ListingAssumption
P == INSTANCE Process WITH Servers <- {"v1", "v2"}, Sharers <- {"k1"}, Savers <- {"l1"},
    Restorers <- {"r1"}, MaxStarts <- 3,
    pc <- x1, lock <- x2, lost <- x3, uses <- x4, half <- x5, starts <- x6

Init ==
    \/ part = "snapshot" /\ D!Init
    \/ part = "calls" /\ S!Init
    \/ part = "turns" /\ T!Init /\ None11
    \/ part = "restore" /\ R!Init /\ None13
    \/ part = "artifacts" /\ F!Init /\ None10
    \/ part = "catalog" /\ C!Init /\ x1["a2"] = {} /\ None12
    \/ part = "access" /\ A!Init /\ None12
    \/ part = "sweeps" /\ W!Init /\ None12
    \/ part = "listing" /\ L!Init /\ None6
    \/ part = "keys" /\ K!Init /\ None6
    \/ part = "process" /\ P!Init /\ None7
Next ==
    /\ UNCHANGED part
    /\ \/ part = "snapshot" /\ D!Next
       \/ part = "calls" /\ S!Next
       \/ part = "turns" /\ T!Next /\ UNCHANGED From11
       \/ part = "restore" /\ R!Next /\ UNCHANGED From13
       \/ part = "artifacts" /\ F!Next /\ UNCHANGED From10
       \/ part = "catalog" /\ C!Next /\ UNCHANGED From12
       \/ part = "access" /\ A!Next /\ UNCHANGED From12
       \/ part = "sweeps" /\ W!Next /\ UNCHANGED From12
       \/ part = "listing" /\ L!Next /\ UNCHANGED From6
       \/ part = "keys" /\ K!Next /\ UNCHANGED From6
       \/ part = "process" /\ P!Next /\ UNCHANGED From7
Spec == Init /\ [][Next]_allVars

(* The fairness of the parts whose liveness is checked.  A subscript has   *)
(* variables of the part of which every step of the action changes one.    *)
turnVars == <<x1, x2, x3, x4, x5, x6, x7, x8, x9, x10>>
Serves(action) == part = "turns" /\ action
Stops(p) == part = "process" /\ P!Stop(p)
Calls(p) == \/ part = "snapshot" /\ D!Active(p) /\ D!Proceed(p)
            \/ part = "calls" /\ S!Active(p) /\ S!Proceed(p)
\* No two refreshes run at once (OneRefreshAtATime), so one condition is fair to each.
Refreshes == \E n \in 1..4 : \/ part = "snapshot" /\ D!Refresh(n)
                             \/ part = "calls" /\ S!Refresh(n)
FairSpec ==
    /\ Spec
    /\ \A p \in {"c1", "c2"} : WF_x8(Calls(p))
    /\ WF_x6(Refreshes)
    /\ WF_turnVars(Serves(T!Reader)) /\ WF_turnVars(Serves(T!Handler))
    /\ \A i \in 1..2 : WF_turnVars(Serves(T!Turn(i)))
    /\ \A p \in {"v1", "v2"} : WF_<<x1, x4>>(Stops(p))
-----------------------------------------------------------------------------
(* The properties of the parts; the modules say more about each.           *)

(* What is told of a credential that is only looked at is true, though the *)
(* file is read outside the mutex while refreshes and logins go on         *)
(* (Snapshot).                                                             *)
SnapshotsAreTrue == [][part = "snapshot" => D!TellsTheTruth("c2")]_allVars

(* Whoever asks for a credential gets an answer, whatever fails and        *)
(* whoever goes away (refreshSingleFlight).                                *)
Waits(p) == part \in {"snapshot", "calls"} /\ D!Active(p)
CallersReturn == \A p \in {"c1", "c2"} : Waits(p) ~> ~Waits(p)

(* Turns of a WebSocket overlap only while the older one writes its last   *)
(* event, and what is recorded of a turn that was alone is what happened   *)
(* to it (serveResponsesWebSocket).                                        *)
TurnsHold == part = "turns" => T!TurnsHold
(* When the client has left, the handler of its WebSocket returns.         *)
HandlerReturns == (part = "turns" /\ T!ClientLeft) ~> (part = "turns" /\ T!HandlerIsDone)

(* A restore that is over has installed a whole pair, a complete pair is   *)
(* on disk at every moment, and a crash is recovered from when a pair was  *)
(* there before (installRestoreSet, RecoverRestore).                       *)
RestoresHold == part = "restore" => R!InstalledIsWhole /\ R!NothingLost /\ R!PairConverges

(* An image that can be read, or is in a backup, has its file, and a       *)
(* request that is gone has left none (Save, RemoveMarked, CreateBackup).  *)
ImagesAreWhole == part = "artifacts" => F!ImagesAreWhole
(* A start leaves exactly the images that can be read (Reconcile).         *)
StartTidies == [][part = "artifacts" => F!Tidies]_allVars

(* The catalog the clients see, the one the broker selects by and the      *)
(* saved one agree, and what is promised of a model holds on every account *)
(* that may serve it (refreshAccount, mergeModels).                        *)
CatalogsHold == part = "catalog" => C!CatalogsHold

(* Nonces log in once and are never too many, sessions end in time, and    *)
(* every token and revocation is audited for as long as audits are kept    *)
(* (ConsumeLoginNonce, AuthenticateSession, CreateToken, RevokeToken,      *)
(* sweepStandaloneAudits).                                                 *)
AccessIsAccountedFor ==
    /\ part = "access" => A!AccessIsAccountedFor
    /\ part = "sweeps" => W!AccessIsAccountedFor

(* A revoked token gets no request past the authorization after it, and a  *)
(* call is granted by what its key allows at that moment (Authorize,       *)
(* AuthorizePrincipal).                                                    *)
AuthorityIsCurrent == [][/\ part = "access" => A!Unrevoked
                         /\ part = "sweeps" => W!Unrevoked
                         /\ part = "keys" => K!Obeys]_allVars

(* A walk through the pages of a list misses and repeats no row            *)
(* (listAdminAPIKeys, listAdminRequests, listAdminConversations).          *)
WalksAreComplete == part = "listing" => L!WalksAreComplete

(* Nobody has the storage open beside a process that recovers, replays or  *)
(* installs (AcquireApplicationLock, DowngradeShared).                     *)
ProcessesKeepApart == part = "process" => P!ProcessesKeepApart
(* A service that is told to stop ends (Shutdown).                         *)
ServersStop == \A p \in {"v1", "v2"} :
    (part = "process" /\ P!Told(p)) ~> (part = "process" /\ P!Ends(p))
=============================================================================
