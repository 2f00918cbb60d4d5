------------------------------ MODULE Refresher ------------------------------
(***************************************************************************)
(* codex.Refresher: callers that need a usable OAuth credential share one  *)
(* encrypted credential file and one refresh at a time.  A refresh token   *)
(* is good for one use: the upstream rotates it.                           *)
(*                                                                         *)
(* The mutex guards inFlight, generation and the two failure tokens; the   *)
(* file is read outside it, so a caller works from a snapshot that may be  *)
(* stale.  Each critical section, each read of the file, each save and     *)
(* each answer of the upstream is one step.                                *)
(*                                                                         *)
(* Credentials are numbered in the order they are issued; a credential     *)
(* stands for its access and its refresh token.  Zero is no credential,    *)
(* no token or no call.                                                    *)
(***************************************************************************)
EXTENDS Integers, FiniteSets

CONSTANTS
    Callers,       \* concurrent calls of Do or Snapshot
    Probes,        \* those of them that call Snapshot
    MaxCalls,      \* bound on refresh calls: a Do starts at most two
    MaxIssued,     \* bound on credentials
    MaxExpired,    \* bound on credentials that come close to their expiry
    MaxRejected,   \* bound on access tokens the upstream stops accepting
    MaxLogins,     \* bound on credentials saved from outside
    Denials,       \* TRUE when the upstream may refuse a good refresh token
    Faults         \* TRUE when reading, saving or an answer may fail

ASSUME RefresherAssumption ==
    /\ Probes \subseteq Callers
    /\ MaxCalls \in Nat /\ MaxIssued \in Nat \ {0}
    /\ MaxExpired \in Nat /\ MaxRejected \in Nat /\ MaxLogins \in Nat
    /\ Denials \in BOOLEAN /\ Faults \in BOOLEAN

None == 0
Issued == 0..MaxIssued
CallIds == 1..MaxCalls

VARIABLES
    file,            \* the credential in the file
    inFlight,        \* Refresher: the refresh call under way
    generation,
    permanentToken,
    transientToken,
    call,            \* each refreshCall and the goroutine that runs it
    started,         \* number of refresh calls started
    caller,          \* the calls of Do and Snapshot
    issued,          \* environment: number of credentials issued
    login,           \* the login each credential descends from
    logins,          \* credentials obtained by a login
    expired,         \* credentials inside the refresh skew
    rejected,        \* credentials whose access token is refused
    consumed,        \* credentials whose refresh token was rotated
    denied,          \* credentials whose refresh token was refused for good
    lost             \* history: credentials whose successor never reached the file

shared == <<inFlight, generation, permanentToken, transientToken>>
tokens == <<issued, login, logins, consumed, denied>>
upstream == <<tokens, lost>>
clocks == <<expired, rejected>>
vars == <<file, shared, call, started, caller, upstream, clocks>>

NoCall == [pc |-> "none", force |-> FALSE, observed |-> None, source |-> None,
           fresh |-> None, credential |-> None, err |-> "none"]
NoCaller == [pc |-> "idle", generation |-> 0, flight |-> None, permanent |-> None,
             transient |-> None, credential |-> None, rejected |-> None,
             result |-> "none", held |-> {}]

Init ==
    /\ file = 1 /\ issued = 1 /\ logins = {1}
    /\ login = [c \in Issued |-> IF c = 1 THEN 1 ELSE None]
    /\ expired = {} /\ rejected = {} /\ consumed = {} /\ denied = {}
    /\ lost = {}
    /\ inFlight = None /\ generation = 0
    /\ permanentToken = None /\ transientToken = None
    /\ call = [n \in CallIds |-> NoCall] /\ started = 0
    /\ caller = [p \in Callers |-> NoCaller]

Active(p) == caller[p].pc \notin {"idle", "done"}
Running(n) == call[n].pc \notin {"none", "done"}

-----------------------------------------------------------------------------
(* Pieces shared by callers and refreshes *)

Become(p, c) == caller' = [caller EXCEPT ![p] = c]
Ended(c, result) == [NoCaller EXCEPT !.pc = "done", !.result = result,
                                     !.rejected = c.rejected, !.held = c.held]

(* clearChangedFailures: failures of another credential than c are forgotten. *)
Changed(token, c) == token # None /\ token # c
ClearChangedFailures(c) ==
    /\ permanentToken' = IF Changed(permanentToken, c) THEN None ELSE permanentToken
    /\ transientToken' = IF Changed(transientToken, c) THEN None ELSE transientToken
    /\ generation' = IF Changed(permanentToken, c) \/ Changed(transientToken, c)
                     THEN generation + 1 ELSE generation
    /\ UNCHANGED inFlight

NeedsRefresh(c) == c \in expired
HasPermanentFailure(c) == permanentToken # None /\ permanentToken = c

(* The file gets credential c while the calls of callers are under way.    *)
Store(c) ==
    /\ file' = c
    /\ caller' = [p \in Callers |-> [caller[p] EXCEPT
                    !.held = IF Active(p) THEN @ \cup {c} ELSE @]]

-----------------------------------------------------------------------------
(* Credential and Snapshot: observe the shared state, read the file, and   *)
(* start again when the generation moved in between.                       *)

Observe(p) ==
    LET c == caller[p] IN
    /\ c.pc \in {"idle", "observe"}
    /\ Become(p, [c EXCEPT !.pc = "load", !.generation = generation, !.flight = inFlight,
                           !.permanent = permanentToken, !.transient = transientToken,
                           !.held = IF c.pc = "idle" THEN {file} ELSE @])
    /\ UNCHANGED <<file, shared, call, started, upstream, clocks>>

Load(p) ==
    /\ caller[p].pc = "load"
    /\ \E c \in {file} \cup (IF Faults THEN {None} ELSE {}) :
         Become(p, [caller[p] EXCEPT !.pc = "check", !.credential = c])
    /\ UNCHANGED <<file, shared, call, started, upstream, clocks>>

\* seeded fault: no refresh before, no refresh now, but one in between
MovedByFlight(p) == inFlight # caller[p].flight
Moved(p) == generation # caller[p].generation
Decide(p) ==
    LET c == caller[p]
        loaded == c.credential # None
        stale == Changed(c.permanent, c.credential) \/ Changed(c.transient, c.credential)
        refused == c.permanent # None /\ c.permanent = c.credential
    IN  \/ ~loaded /\ Become(p, Ended(c, "load"))
        \/ loaded /\ stale /\ Become(p, [c EXCEPT !.pc = "clear"])
        \/ loaded /\ ~stale /\ p \in Probes
             /\ Become(p, Ended(c, IF refused THEN "login" ELSE "ok"))
        \/ loaded /\ ~stale /\ p \notin Probes
             /\ \/ refused /\ Become(p, Ended(c, "login"))
                \/ ~refused /\ c.flight # None /\ Become(p, [c EXCEPT !.pc = "await"])
                \/ ~refused /\ c.flight = None
                     /\ Become(p, [c EXCEPT !.pc = IF NeedsRefresh(c.credential)
                                                   THEN "start" ELSE "send"])
Check(p) ==
    LET c == caller[p] IN
    /\ c.pc = "check"
    /\ IF Moved(p)
       THEN Become(p, IF inFlight # None /\ p \notin Probes
                      THEN [c EXCEPT !.pc = "await", !.flight = inFlight]
                      ELSE [c EXCEPT !.pc = "observe"])
       ELSE Decide(p)
    /\ UNCHANGED <<file, shared, call, started, upstream, clocks>>

(* The failures seen in the snapshot belong to another credential.         *)
Clear(p) ==
    LET c == caller[p] IN
    /\ c.pc = "clear"
    /\ ClearChangedFailures(c.credential)
    /\ Become(p, [c EXCEPT !.pc = IF c.rejected = None THEN "observe" ELSE "confirm"])
    /\ UNCHANGED <<file, call, started, upstream, clocks>>

(* refreshSingleFlight: join the refresh under way or start one.           *)
Join(p) ==
    /\ inFlight # None
    /\ Become(p, [caller[p] EXCEPT !.pc = "join", !.flight = inFlight])
    /\ UNCHANGED <<shared, call, started>>
StartCall(p) ==
    LET c == caller[p] n == started + 1 IN
    /\ n \in CallIds
    /\ started' = n
    /\ inFlight' = n
    /\ generation' = generation + 1
    /\ call' = [call EXCEPT ![n] = [NoCall EXCEPT !.pc = "load", !.force = c.rejected # None,
                                                  !.observed = c.credential]]
    /\ Become(p, [c EXCEPT !.pc = "join", !.flight = n])
    /\ UNCHANGED <<permanentToken, transientToken>>
MayStart == inFlight = None
SingleFlight(p) ==
    /\ caller[p].pc = "start"
    /\ Join(p) \/ (MayStart /\ StartCall(p))
    /\ UNCHANGED <<file, upstream, clocks>>

(* waitForRefresh: a caller that found a refresh under way looks again     *)
(* afterwards; one that joined or started it takes its result.             *)
Wait(p) ==
    LET c == caller[p] IN
    /\ c.pc \in {"await", "join"}
    /\ call[c.flight].pc = "done"
    /\ \/ call[c.flight].err # "none" /\ Become(p, Ended(c, call[c.flight].err))
       \/ /\ call[c.flight].err = "none"
          /\ Become(p, IF c.pc = "await" THEN [c EXCEPT !.pc = "observe"]
                       ELSE [c EXCEPT !.pc = "send", !.credential = call[c.flight].credential])
    /\ UNCHANGED <<file, shared, call, started, upstream, clocks>>

(* Do: one request, and after a 401 a second one.                          *)
Send(p) ==
    LET c == caller[p] IN
    /\ c.pc = "send"
    /\ Become(p, IF c.credential \notin rejected THEN Ended(c, "ok")
                 ELSE IF c.rejected = None
                      THEN [c EXCEPT !.pc = "reload", !.rejected = c.credential]
                 ELSE Ended(c, "unauthorized"))
    /\ UNCHANGED <<file, shared, call, started, upstream, clocks>>

(* refreshAfterAuthFailure *)
Reload(p) ==
    LET c == caller[p] IN
    /\ c.pc = "reload"
    /\ \/ Become(p, [c EXCEPT !.pc = "clear", !.credential = file])
       \/ Faults /\ Become(p, Ended(c, "load"))
    /\ UNCHANGED <<file, shared, call, started, upstream, clocks>>

Confirm(p) ==
    LET c == caller[p] IN
    /\ c.pc = "confirm"
    /\ Become(p, IF HasPermanentFailure(c.credential) THEN Ended(c, "login")
                 ELSE [c EXCEPT !.pc = IF c.credential # c.rejected THEN "send" ELSE "start"])
    /\ UNCHANGED <<file, shared, call, started, upstream, clocks>>

(* The client of a call goes away; the refresh it waits for goes on.       *)
Cancel(p) ==
    /\ caller[p].pc \in {"observe", "await", "join", "start", "send"}
    /\ Become(p, Ended(caller[p], "canceled"))
    /\ UNCHANGED <<file, shared, call, started, upstream, clocks>>

-----------------------------------------------------------------------------
(* runRefresh: one goroutine per refresh call, on a context of its own     *)

Step(n, fields) == call' = [call EXCEPT ![n] = fields]
FailedButSaved(w, err) == [w EXCEPT !.pc = "save"] \* seeded fault: an empty answer is stored
Failed(w, err) == [w EXCEPT !.pc = "finish", !.err = err]

RunLoadObserved(n) == \* seeded fault: the file is not read again
    LET w == call[n] IN
    /\ w.pc = "load"
    /\ Step(n, [w EXCEPT !.pc = "clear", !.source = w.observed])
    /\ UNCHANGED <<file, shared, started, caller, upstream, clocks>>
RunLoad(n) ==
    LET w == call[n] IN
    /\ w.pc = "load"
    /\ \/ Step(n, [w EXCEPT !.pc = "clear", !.source = file])
       \/ Faults /\ Step(n, Failed(w, "load"))
    /\ UNCHANGED <<file, shared, started, caller, upstream, clocks>>

RunClear(n) ==
    LET w == call[n] IN
    /\ w.pc = "clear"
    /\ ClearChangedFailures(w.source)
    /\ Step(n, [w EXCEPT !.pc = "decide"])
    /\ UNCHANGED <<file, started, caller, upstream, clocks>>

(* The credential changed since it was refused, or is fresh after all.     *)
NothingToDo(w) == IF w.force THEN w.source # w.observed ELSE ~NeedsRefresh(w.source)
RunDecide(n) ==
    LET w == call[n] IN
    /\ w.pc = "decide"
    /\ Step(n, IF HasPermanentFailure(w.source) THEN Failed(w, "login")
               ELSE IF NothingToDo(w) THEN [w EXCEPT !.pc = "finish", !.credential = w.source]
               ELSE [w EXCEPT !.pc = "post"])
    /\ UNCHANGED <<file, shared, started, caller, upstream, clocks>>

(* The token endpoint rotates the refresh token and answers.               *)
Rotate(c) ==
    /\ c \notin consumed \cup denied
    /\ issued < MaxIssued
    /\ issued' = issued + 1
    /\ consumed' = consumed \cup {c}
    /\ login' = [login EXCEPT ![issued + 1] = login[c]]
    /\ UNCHANGED <<logins, denied>>
RunPost(n) ==
    LET w == call[n] IN
    /\ w.pc = "post"
    /\ \/ /\ Rotate(w.source)
          /\ \/ /\ Step(n, [w EXCEPT !.pc = "save", !.fresh = issued + 1])
                /\ UNCHANGED lost
             \/ /\ Faults   \* the answer is lost, or the refresh runs out of time
                /\ \E err \in {"temporary", "canceled"} :
                     Step(n, Failed(w, err))
                /\ lost' = lost \cup {w.source}
       \/ /\ w.source \in consumed \cup denied \/ Denials
          /\ denied' = denied \cup {w.source}
          /\ Step(n, Failed(w, "login"))
          /\ UNCHANGED <<issued, login, logins, consumed, lost>>
       \/ /\ Faults
          /\ \E err \in {"temporary", "canceled"} :
               Step(n, Failed(w, err))
          /\ UNCHANGED upstream
    /\ UNCHANGED <<file, shared, started, caller, clocks>>

(* saveCredentialIfUnchanged: a credential saved meanwhile wins.           *)
StillThereAssumed(w) == TRUE \* seeded fault
StillThere(w) == file = w.source
RunSaveAnsweringFresh(n) == \* seeded fault: the rotated credential is handed out unsaved
    LET w == call[n] IN
    /\ w.pc = "save"
    /\ IF file = w.source THEN Store(w.fresh) ELSE UNCHANGED <<file, caller>>
    /\ Step(n, [w EXCEPT !.pc = "finish", !.credential = w.fresh])
    /\ UNCHANGED <<shared, started, upstream, clocks>>
RunSave(n) ==
    LET w == call[n] IN
    /\ w.pc = "save"
    /\ \/ /\ StillThere(w)
          /\ Store(w.fresh)
          /\ \/ Step(n, [w EXCEPT !.pc = "finish", !.credential = w.fresh])
             \/ Faults /\ Step(n, Failed(w, "temporary"))  \* after the rename
          /\ UNCHANGED lost
       \/ /\ ~StillThere(w)
          /\ Step(n, [w EXCEPT !.pc = "finish", !.credential = file])
          /\ UNCHANGED <<file, caller, lost>>
       \/ /\ Faults
          /\ \E err \in {"temporary", "canceled"} : Step(n, Failed(w, err))
          /\ lost' = lost \cup {w.source}
          /\ UNCHANGED <<file, caller>>
    /\ UNCHANGED <<shared, started, tokens, clocks>>

(* finishRefresh *)
Blamed(w) == w.source
RunFinishOnlyOnSuccess(n) == \* seeded fault: an early return leaves inFlight set
    LET w == call[n] IN
    /\ w.pc = "finish" /\ w.err = "none"
    /\ permanentToken' = None /\ transientToken' = None
    /\ inFlight' = None
    /\ generation' = generation + 1
    /\ Step(n, [NoCall EXCEPT !.pc = "done", !.credential = w.credential])
    /\ UNCHANGED <<file, started, caller, upstream, clocks>>
RunFinish(n) ==
    LET w == call[n] IN
    /\ w.pc = "finish"
    /\ permanentToken' = CASE w.err = "none" -> None
                           [] w.err = "login" -> Blamed(w)
                           [] OTHER -> permanentToken
    /\ transientToken' = CASE w.err \in {"none", "login"} -> None
                           [] w.err = "canceled" -> transientToken
                           [] OTHER -> Blamed(w)
    /\ inFlight' = IF inFlight = n THEN None ELSE inFlight
    /\ generation' = generation + 1
    /\ Step(n, [NoCall EXCEPT !.pc = "done", !.credential = w.credential, !.err = w.err])
    /\ UNCHANGED <<file, started, caller, upstream, clocks>>
-----------------------------------------------------------------------------
(* The surroundings *)

(* SaveCredential: a credential obtained by a new login is stored.         *)
SaveCredential ==
    /\ Cardinality(logins) <= MaxLogins /\ issued < MaxIssued
    /\ issued' = issued + 1
    /\ logins' = logins \cup {issued + 1}
    /\ login' = [login EXCEPT ![issued + 1] = issued + 1]
    /\ Store(issued + 1)
    /\ UNCHANGED <<shared, call, started, consumed, denied, lost, clocks>>

Expire ==
    /\ Cardinality(expired) < MaxExpired
    /\ \E c \in 1..issued : expired' = expired \cup {c}
    /\ UNCHANGED <<file, shared, call, started, caller, upstream, rejected>>

Reject ==
    /\ Cardinality(rejected) < MaxRejected
    /\ \E c \in 1..issued : rejected' = rejected \cup {c}
    /\ UNCHANGED <<file, shared, call, started, caller, upstream, expired>>

Proceed(p) ==
    \/ Observe(p) \/ Load(p) \/ Check(p) \/ Clear(p) \/ SingleFlight(p) \/ Wait(p)
    \/ Send(p) \/ Reload(p) \/ Confirm(p)
Refresh(n) ==
    \/ RunLoad(n) \/ RunClear(n) \/ RunDecide(n) \/ RunPost(n) \/ RunSave(n) \/ RunFinish(n)

Next ==
    \/ \E p \in Callers : Proceed(p) \/ Cancel(p)
    \/ \E n \in CallIds : Refresh(n)
    \/ SaveCredential \/ Expire \/ Reject

Spec == Init /\ [][Next]_vars

(* A refresh has a deadline of its own, so it always goes on; so does a    *)
(* caller that is not waiting.  Nothing makes a caller begin.              *)
Fairness == /\ \A p \in Callers : WF_vars(Active(p) /\ Proceed(p))
            /\ \A n \in CallIds : WF_vars(Refresh(n))
FairSpec == Spec /\ Fairness

-----------------------------------------------------------------------------
(* Properties *)

Results == {"none", "ok", "load", "login", "temporary", "canceled", "unauthorized"}
CallType ==
    [pc : {"none", "load", "clear", "decide", "post", "save", "finish", "done"},
     force : BOOLEAN, observed : Issued, source : Issued, fresh : Issued,
     credential : Issued, err : Results]
CallerType ==
    [pc : {"idle", "observe", "load", "check", "clear", "start", "await", "join", "send",
           "reload", "confirm", "done"},
     generation : Nat, flight : CallIds \cup {None}, permanent : Issued, transient : Issued,
     credential : Issued, rejected : Issued, result : Results, held : SUBSET Issued]

(* The refresher, its calls and its callers have the shape the code gives  *)
(* them.                                                                   *)
TypeOK ==
    /\ file \in Issued \ {None}
    /\ inFlight \in CallIds \cup {None} /\ generation \in Nat
    /\ permanentToken \in Issued /\ transientToken \in Issued
    /\ call \in [CallIds -> CallType] /\ started \in 0..MaxCalls
    /\ caller \in [Callers -> CallerType]
    /\ issued \in Issued \ {None} /\ login \in [Issued -> Issued]
    /\ logins \subseteq Issued /\ expired \subseteq Issued /\ rejected \subseteq Issued
    /\ consumed \subseteq Issued /\ denied \subseteq Issued /\ lost \subseteq Issued

(* At most one refresh runs, whoever starts, waits or goes away, and       *)
(* inFlight names it until its last step.                                  *)
OneRefreshAtATime == \A n \in CallIds : Running(n) <=> inFlight = n

(* A refresh never overwrites a newer login: what is stored descends from  *)
(* the last login, even when the token endpoint answers after it           *)
(* (TestRefresherConcurrentCredentialReplacementWins).                     *)
NewestLoginWins == \A c \in logins : c <= login[file]

(* A refresh token that was rotated is never presented again, however many *)
(* callers see the same old credential, unless the new one was lost: the   *)
(* answer did not arrive or could not be saved.                            *)
UsedTokensStayUsed ==
    \A n \in CallIds : call[n].pc = "post" => call[n].source \notin consumed \ lost

(* The inductive invariant: what a running refresh holds agrees with the   *)
(* shared state, and a rotated token is left in the file only until the    *)
(* credential it was rotated into is saved.                                *)
CallInv(w) ==
    /\ w.pc = "load" => w.source = None
    /\ w.pc \in {"load", "clear", "decide", "post", "save"} => w.err = "none"
    /\ w.pc \in {"clear", "decide", "post", "save"} => w.source \in 1..issued
    /\ w.pc = "decide" => permanentToken \in {None, w.source}
    /\ w.pc \in {"post", "save"} => permanentToken = None
    /\ w.pc \in {"clear", "decide", "post"} => w.source \notin consumed \ lost
    /\ w.pc = "save" => /\ w.fresh \in (1..issued) \ consumed
                        /\ login[w.fresh] = login[w.source]
    /\ w.pc = "finish" =>
         \/ w.err \in {"none", "canceled"}
         \/ w.err = "login" /\ w.source \in denied
         \/ w.err = "load" /\ w.source = None
         \/ w.err = "temporary" /\ permanentToken = None
FileInv ==
    /\ file \in 1..issued /\ logins \subseteq 1..issued /\ consumed \subseteq 1..issued
    /\ file \in consumed \ lost =>
         \E n \in CallIds : call[n].pc = "save" /\ call[n].source = file
RefreshInv == FileInv /\ \A n \in CallIds : CallInv(call[n])
RefresherInv == TypeOK /\ RefreshInv

(* The refresher asks for a login only because of a token the upstream     *)
(* really refused, never because of a failure of another credential.       *)
LoginIsAskedForAReason ==
    /\ permanentToken # None => permanentToken \in denied
    /\ permanentToken = None \/ transientToken = None

(* One refresh at a time, for the newest login, and a login is asked for   *)
(* only when it helps.                                                     *)
RefreshPromises == OneRefreshAtATime /\ NewestLoginWins /\ LoginIsAskedForAReason

(* A caller sends a credential that was stored at some moment of its call. *)
SentWasStored ==
    \A p \in Callers : caller[p].pc = "send" => caller[p].credential \in caller[p].held

(* What Snapshot says of a credential, to the readiness of the service and *)
(* to the choice of an account, is true of one moment, although the file   *)
(* is read outside the mutex while refreshes end, logins are saved and     *)
(* others forget failures: it tells that a login is needed exactly if the  *)
(* failure of the credential it read is on record then, that credential    *)
(* was in the file during the look, and the upstream refused it.           *)
TellsTheTruth(p) ==
    LET c == caller[p].credential IN
    caller[p].pc = "check" /\ caller'[p].pc = "done" /\ c # None =>
        /\ c \in caller[p].held
        /\ caller'[p].result = "login" <=> permanentToken = c
        /\ permanentToken = c => c \in denied
SnapshotsAreTrue == [][\A p \in Probes : TellsTheTruth(p)]_vars

(* Every call returns: nobody waits for a refresh that is over, or looks   *)
(* again for ever.                                                         *)
CallersReturn == \A p \in Callers : Active(p) ~> ~Active(p)
=============================================================================
