------------------------------- MODULE Quota -------------------------------
(***************************************************************************)
(* API-key quota admission: the durable rows of apikey.QuotaStore, the     *)
(* request handlers that hold a quotaLease on one reservation each, and    *)
(* the process that owns both and may crash and restart at any moment.     *)
(*                                                                         *)
(* The store opens SQLite with a single connection, so one transaction of  *)
(* the code is one step here.  Whatever lies between two transactions of a *)
(* handler (Reconcile makes two) is a place where the other handlers, the  *)
(* clock, a policy edit or a crash may come in.                            *)
(*                                                                         *)
(* Rows are keyed by the request that created them: each request makes at  *)
(* most one reservation and one rolling admission.                         *)
(***************************************************************************)
EXTENDS Integers, FiniteSets

CONSTANTS
    Keys,          \* API keys
    Requests,      \* client requests, each served by one handler
    KeyOf,         \* the key a request authenticates with
    Policies,      \* the policies an administrator may give a key
    ClientAmounts, \* amounts a client may ask for explicitly
    UsageAmounts,  \* amounts the upstream may report
    BatchSize,     \* quotaBatchSize, 256 in the code
    MaxTime,       \* bound on the clock
    MaxBoots,      \* bound on the number of processes
    Faults         \* TRUE when a transaction may fail for an outside reason

(* Reserved and charged dimensions besides the request itself, whose       *)
(* amount is always one.                                                   *)
Dims == {"tokens", "images", "cost"}
Amounts == [Dims -> Nat]
NoAmounts == [d \in Dims |-> 0]
Periods == 0..MaxTime
NoBucket == -1

PolicyType ==
    [maxConcurrent : Nat, rollingCount : Nat, rollingWindow : Nat,
     periodDuration : Nat, requestLimit : Nat,
     limit : Amounts, default : Amounts, ceiling : Amounts]

PeriodEnabled(p) == p.requestLimit > 0 \/ \E d \in Dims : p.limit[d] > 0

(* What validateQuotaPolicy accepts. *)
ValidPolicy(p) ==
    /\ p \in PolicyType
    /\ (p.rollingCount = 0) <=> (p.rollingWindow = 0)
    /\ PeriodEnabled(p) <=> (p.periodDuration > 0)
    /\ \A d \in Dims : p.ceiling[d] > 0 => p.default[d] <= p.ceiling[d]

ASSUME QuotaAssumption ==
    /\ IsFiniteSet(Requests)
    /\ KeyOf \in [Requests -> Keys]
    /\ Policies # {} /\ \A p \in Policies : ValidPolicy(p)
    /\ ClientAmounts \subseteq Nat /\ UsageAmounts \subseteq Nat
    /\ BatchSize \in Nat \ {0}
    /\ MaxTime \in Nat /\ MaxBoots \in Nat \ {0}
    /\ Faults \in BOOLEAN

VARIABLES
    clock,       \* wall clock
    policy,      \* key records: the policy stored for each key
    state,       \* quota_states: active and rolling count of each key
    buckets,     \* quota_buckets: reserved and actual amounts per key and period
    rolling,     \* quota_rolling_admissions: expiry of a request's row, 0 if none
    reservation, \* quota_reservations
    lease,       \* memory: the handler of each request and its quotaLease
    owner,       \* QuotaStore.ownerID of the running (or last) process
    up,          \* whether a process serves requests
    learnt       \* history: what became of the news that a request succeeded

durable == <<policy, state, buckets, rolling, reservation>>
vars == <<clock, durable, lease, owner, up, learnt>>

Statuses == {"none", "pending", "finalizing", "closed", "released"}
Unsettled == {r \in Requests : reservation[r].status \in {"pending", "finalizing"}}
With(status) == {r \in Requests : reservation[r].status = status}
OfKey(k, S) == {r \in S : KeyOf[r] = k}
InBucket(k, b, S) == {r \in OfKey(k, S) : reservation[r].bucket = b}
Rows(k) == {r \in Requests : KeyOf[r] = k /\ rolling[r] > 0}

EmptyBucket == [reservedRequests |-> 0, actualRequests |-> 0,
                reserved |-> NoAmounts, actual |-> NoAmounts]
NoReservation == [status |-> "none", owner |-> 0, bucket |-> NoBucket,
                  requested |-> NoAmounts, actual |-> NoAmounts]
NoLease(pc) == [pc |-> pc, closed |-> FALSE, successKnown |-> FALSE,
                policy |-> CHOOSE p \in Policies : TRUE, ask |-> NoAmounts, at |-> 0]

Init ==
    /\ clock = 0
    /\ policy \in [Keys -> Policies]
    /\ state = [k \in Keys |-> [active |-> 0, rolling |-> 0]]
    /\ buckets = [k \in Keys |-> [b \in Periods |-> EmptyBucket]]
    /\ rolling = [r \in Requests |-> 0]
    /\ reservation = [r \in Requests |-> NoReservation]
    /\ lease = [r \in Requests |-> NoLease("idle")]
    /\ owner = 1
    /\ up = TRUE
    /\ learnt = [r \in Requests |-> "nothing"]

-----------------------------------------------------------------------------
(* Admission *)

(* The amounts a handler reserves: the policy's defaults, or what the      *)
(* client asked for explicitly.                                            *)
ResponseAsk(p, n) == [d \in Dims |-> CASE d = "tokens" -> n
                                       [] d = "images" -> 0
                                       [] d = "cost" -> p.default["cost"]]
ImageAsk(p, n) == [d \in Dims |-> CASE d = "tokens" -> 0
                                    [] d = "images" -> n
                                    [] d = "cost" -> p.default["cost"]]
ImageDefault(p) == IF p.default["images"] = 0 THEN 1 ELSE p.default["images"]
Asks(p) ==
    {ResponseAsk(p, n) : n \in ClientAmounts \cup {p.default["tokens"]}}
      \cup {ImageAsk(p, n) : n \in ClientAmounts \cup {ImageDefault(p)}}

(* quotaPolicyEnabled: a key without any quota setting is admitted without *)
(* a reservation.                                                          *)
PolicyEnabled(p) ==
    \/ p.maxConcurrent > 0 \/ p.rollingCount > 0 \/ PeriodEnabled(p)
    \/ \E d \in Dims : p.default[d] > 0 \/ p.ceiling[d] > 0

ExceedsCeiling(p, ask) == \E d \in Dims : p.ceiling[d] > 0 /\ ask[d] > p.ceiling[d]

PeriodStart(p, now) == IF PeriodEnabled(p) THEN now - (now % p.periodDuration)
                                           ELSE NoBucket

Expired(k, now) == {r \in Rows(k) : rolling[r] <= now}

(* cleanupRollingAdmissions deletes one batch of expired rows, the earliest first. *)
Batches(k, now) ==
    {B \in SUBSET Expired(k, now) :
        /\ Cardinality(B) <= BatchSize
        /\ Cardinality(B) < BatchSize => B = Expired(k, now)
        /\ \A r \in B, s \in Expired(k, now) \ B : rolling[r] <= rolling[s]}
RollingAfter(k, B) ==
    IF Cardinality(B) > state[k].rolling THEN 0 ELSE state[k].rolling - Cardinality(B)

(* A bucket refuses an amount above what reserved and actual leave of the limit. *)
OverLimit(limit, reserved, actual, amount) ==
    limit > 0 /\ amount > limit - (reserved + actual)
BucketRefuses(p, bucket, ask) ==
    \/ OverLimit(p.requestLimit, bucket.reservedRequests, bucket.actualRequests, 1)
    \/ \E d \in Dims : OverLimit(p.limit[d], bucket.reserved[d], bucket.actual[d], ask[d])

ConcurrencyRefusesLate(p, k) == \* seeded fault
    p.maxConcurrent > 0 /\ state[k].active > p.maxConcurrent
ConcurrencyRefuses(p, k) == p.maxConcurrent > 0 /\ state[k].active >= p.maxConcurrent
RateRefusesLate(p, k, B) == \* seeded fault
    p.rollingCount > 0 /\ RollingAfter(k, B) > p.rollingCount
RateRefuses(p, k, B) == p.rollingCount > 0 /\ RollingAfter(k, B) >= p.rollingCount
PeriodRefuses(p, k, ask, now) ==
    PeriodEnabled(p) /\ BucketRefuses(p, buckets[k][PeriodStart(p, now)], ask)

(* A request is authenticated: the handler keeps a snapshot of the policy. *)
Arrive(r) ==
    /\ up /\ lease[r].pc = "idle"
    /\ \E ask \in Asks(policy[KeyOf[r]]) :
         lease' = [lease EXCEPT ![r] = [NoLease("admitting") EXCEPT
                     !.policy = policy[KeyOf[r]], !.ask = ask, !.at = clock]]
    /\ UNCHANGED <<clock, durable, owner, up, learnt>>

(* No quota setting and no ceiling exceeded: served without a lease. *)
AdmitUnlimited(r) ==
    /\ up /\ lease[r].pc = "admitting"
    /\ ~PolicyEnabled(lease[r].policy)
    /\ lease' = [lease EXCEPT ![r] = NoLease("ended")]
    /\ UNCHANGED <<clock, durable, owner, up, learnt>>

Reserved(old, ask) ==
    [old EXCEPT !.reservedRequests = @ + 1,
                !.reserved = [d \in Dims |-> @[d] + ask[d]]]

(* The admission transaction.  Admit reads the clock before it waits for   *)
(* the connection, so its "now" is some instant since the arrival.         *)
Grant(r, p, ask, now, B) ==
    LET k == KeyOf[r]
        b == PeriodStart(p, now)
        bump == IF p.rollingCount > 0 THEN 1 ELSE 0
    IN  /\ state' = [state EXCEPT ![k] = [active |-> @.active + 1,
                                          rolling |-> RollingAfter(k, B) + bump]]
        /\ rolling' = [s \in Requests |->
                         IF s \in B THEN 0
                         ELSE IF s = r /\ p.rollingCount > 0 THEN now + p.rollingWindow
                         ELSE rolling[s]]
        /\ buckets' = IF b = NoBucket THEN buckets
                      ELSE [buckets EXCEPT ![k][b] = Reserved(@, ask)]
        /\ reservation' = [reservation EXCEPT ![r] =
                             [status |-> "pending", owner |-> owner, bucket |-> b,
                              requested |-> ask, actual |-> NoAmounts]]

Admit(r) ==
    LET l == lease[r] k == KeyOf[r] IN
    /\ up /\ l.pc = "admitting"
    /\ PolicyEnabled(l.policy) /\ ~ExceedsCeiling(l.policy, l.ask)
    /\ \E now \in l.at..clock : \E B \in Batches(k, now) :
         /\ ~ConcurrencyRefuses(l.policy, k)
         /\ ~RateRefuses(l.policy, k, B)
         /\ ~PeriodRefuses(l.policy, k, l.ask, now)
         /\ Grant(r, l.policy, l.ask, now, B)
         /\ lease' = [lease EXCEPT ![r] = NoLease("dispatched")]
    /\ UNCHANGED <<clock, policy, owner, up, learnt>>

(* A refusal is an error of the transaction: the cleanup of expired rows   *)
(* is rolled back with everything else.                                    *)
RefuseRate(r) ==
    LET l == lease[r] k == KeyOf[r] IN
    /\ up /\ l.pc = "admitting"
    /\ PolicyEnabled(l.policy) /\ ~ExceedsCeiling(l.policy, l.ask)
    /\ \E now \in l.at..clock :
         /\ ~ConcurrencyRefuses(l.policy, k)
         /\ \E B \in Batches(k, now) : RateRefuses(l.policy, k, B)
         /\ lease' = [lease EXCEPT ![r].pc = "rateLimited", ![r].at = now]
    /\ UNCHANGED <<clock, durable, owner, up, learnt>>

RefuseOther(r) ==
    LET l == lease[r] k == KeyOf[r] IN
    /\ up /\ l.pc = "admitting"
    /\ \/ ExceedsCeiling(l.policy, l.ask)
       \/ /\ PolicyEnabled(l.policy)
          /\ \/ ConcurrencyRefuses(l.policy, k)
             \/ \E now \in l.at..clock : PeriodRefuses(l.policy, k, l.ask, now)
    /\ lease' = [lease EXCEPT ![r] = NoLease("ended")]
    /\ UNCHANGED <<clock, durable, owner, up, learnt>>

(* The client goes away, or the transaction fails, before admission. *)
AbandonAdmission(r) ==
    /\ up /\ lease[r].pc = "admitting"
    /\ lease' = [lease EXCEPT ![r] = NoLease("ended")]
    /\ UNCHANGED <<clock, durable, owner, up, learnt>>

-----------------------------------------------------------------------------
(* Settling reservations *)

(* The sum of f[r] over the requests of a finite set, as a number of units.  *)
Sum(S, f) == Cardinality(UNION {{r} \X (1..f[r]) : r \in S})
Requested(d) == [r \in Requests |-> reservation[r].requested[d]]
Actual(d) == [r \in Requests |-> reservation[r].actual[d]]

(* decrementActive and subtractReservation refuse to go below zero.        *)
Consistent(S) ==
    \A k \in Keys :
        /\ state[k].active >= Cardinality(OfKey(k, S))
        /\ \A b \in Periods :
             /\ buckets[k][b].reservedRequests >= Cardinality(InBucket(k, b, S))
             /\ \A d \in Dims : 
                    buckets[k][b].reserved[d] >= Sum(InBucket(k, b, S), Requested(d))

(* What a bucket holds after the reservations "out" gave back their        *)
(* amounts and those of them in "in" were charged.                         *)
MovedKeepingReserve(old, out, in) == \* seeded fault
    [old EXCEPT !.reservedRequests = @ - Cardinality(out),
                !.actualRequests = @ + Cardinality(in),
                !.actual = [d \in Dims |-> @[d] + Sum(in, Actual(d))]]
Moved(old, out, in) ==
    [reservedRequests |-> old.reservedRequests - Cardinality(out),
     actualRequests |-> old.actualRequests + Cardinality(in),
     reserved |-> [d \in Dims |-> old.reserved[d] - Sum(out, Requested(d))],
     actual |-> [d \in Dims |-> old.actual[d] + Sum(in, Actual(d))]]

(* The reservations in C move to usage, those in D are dropped: one        *)
(* transaction.                                                            *)
Settle(C, D) ==
    /\ Consistent(C \cup D)
    /\ state' = [k \in Keys |->
                   [state[k] EXCEPT !.active = @ - Cardinality(OfKey(k, C \cup D))]]
    /\ buckets' = [k \in Keys |-> [b \in Periods |->
                   Moved(buckets[k][b], InBucket(k, b, C \cup D), InBucket(k, b, C))]]
    /\ reservation' = [r \in Requests |->
         IF r \in C THEN [reservation[r] EXCEPT !.status = "closed"]
         ELSE IF r \in D THEN [reservation[r] EXCEPT !.status = "released", !.actual = NoAmounts]
         ELSE reservation[r]]
    /\ UNCHANGED <<policy, rolling>>

(* What the handler learns from a successful terminal upstream event; the  *)
(* reported cost is always zero.                                           *)
Usages == {[d \in Dims |-> CASE d = "tokens" -> t [] d = "images" -> i [] d = "cost" -> 0] :
             t \in UsageAmounts, i \in UsageAmounts}

(* Zero cost means that the cost reserved is the cost charged. *)
Charge(r, usage) ==
    [usage EXCEPT !["cost"] = IF @ = 0 THEN reservation[r].requested["cost"] ELSE @]

(* First transaction of Reconcile: the success is on record. *)
BeginFinalization(r, usage) ==
    reservation' = IF reservation[r].status # "pending" THEN reservation
                   ELSE [reservation EXCEPT ![r].status = "finalizing",
                                            ![r].actual = Charge(r, usage)]

ReconcileBeginFreeingSlot(r) == \* seeded fault
    /\ up /\ lease[r].pc = "dispatched"
    /\ \E usage \in Usages : BeginFinalization(r, usage)
    /\ state' = [state EXCEPT ![KeyOf[r]].active = @ - 1]
    /\ lease' = [lease EXCEPT ![r].pc = "reconciling", ![r].successKnown = TRUE]
    /\ learnt' = [learnt EXCEPT ![r] = "recorded"]
    /\ UNCHANGED <<clock, policy, buckets, rolling, owner, up>>
ReconcileBegin(r) ==
    /\ up /\ lease[r].pc = "dispatched"
    /\ \E usage \in Usages : BeginFinalization(r, usage)
    /\ lease' = [lease EXCEPT ![r].pc = "reconciling", ![r].successKnown = TRUE]
    /\ learnt' = [learnt EXCEPT ![r] = "recorded"]
    /\ UNCHANGED <<clock, policy, state, buckets, rolling, owner, up>>

(* The first transaction fails: the lease is closed all the same. *)
ReconcileBeginFails(r) ==
    /\ Faults
    /\ up /\ lease[r].pc = "dispatched"
    /\ lease' = [lease EXCEPT ![r].pc = "ending", ![r].successKnown = TRUE,
                              ![r].closed = TRUE]
    /\ learnt' = [learnt EXCEPT ![r] = "unrecorded"]
    /\ UNCHANGED <<clock, durable, owner, up>>

(* Second transaction of Reconcile: the recorded success is applied once.  *)
ReconcileApply(r) ==
    /\ up /\ lease[r].pc = "reconciling"
    /\ IF reservation[r].status = "finalizing" THEN Settle({r}, {}) ELSE UNCHANGED durable
    /\ lease' = [lease EXCEPT ![r].pc = "ending", ![r].closed = TRUE]
    /\ UNCHANGED <<clock, owner, up, learnt>>

ReconcileApplyFails(r) ==
    /\ Faults \/ ~Consistent({r})
    /\ up /\ lease[r].pc = "reconciling"
    /\ lease' = [lease EXCEPT ![r].pc = "ending", ![r].closed = TRUE]
    /\ UNCHANGED <<clock, durable, owner, up, learnt>>

(* quotaLease.release does nothing once the lease is closed or the success *)
(* of the request is known.                                                *)
AlwaysRelease(r) == TRUE \* seeded fault
MayRelease(r) == ~lease[r].closed /\ ~lease[r].successKnown

(* The handler returns, after a failure or a cancellation of the upstream  *)
(* call or after a reconciliation: its deferred release runs.              *)
EndHandler(r) ==
    /\ up /\ lease[r].pc \in {"dispatched", "ending"}
    /\ IF MayRelease(r) /\ reservation[r].status = "pending"
       THEN Settle({}, {r}) ELSE UNCHANGED durable
    /\ lease' = [lease EXCEPT ![r] = [NoLease("ended") EXCEPT
                    !.closed = MayRelease(r) \/ lease[r].closed,
                    !.successKnown = lease[r].successKnown]]
    /\ UNCHANGED <<clock, owner, up, learnt>>

(* The deferred release fails; nobody calls it again. *)
EndHandlerFails(r) ==
    /\ Faults \/ ~Consistent({r})
    /\ up /\ lease[r].pc = "dispatched" /\ MayRelease(r)
    /\ lease' = [lease EXCEPT ![r] = NoLease("ended")]
    /\ UNCHANGED <<clock, durable, owner, up, learnt>>

-----------------------------------------------------------------------------
(* The process and its surroundings *)

(* The process dies: every handler and lease is gone, the rows stay. *)
Crash ==
    /\ up /\ owner < MaxBoots
    /\ up' = FALSE
    /\ lease' = [r \in Requests |-> IF lease[r].pc = "idle" THEN lease[r] ELSE NoLease("ended")]
    /\ UNCHANGED <<clock, durable, owner, learnt>>

(* A new process takes a fresh owner ID and runs RecoverPending before it  *)
(* listens.  An inconsistent row makes the start fail, and the service     *)
(* stays down.                                                             *)
RecoverableOwn(newOwner) == {r \in With("pending") : reservation[r].owner = newOwner} \* seeded fault
Recoverable(newOwner) == {r \in With("pending") : reservation[r].owner # newOwner}
BootReleasingAll == \* seeded fault
    /\ ~up
    /\ Settle({}, With("finalizing") \cup Recoverable(owner + 1))
    /\ owner' = owner + 1
    /\ up' = TRUE
    /\ UNCHANGED <<clock, lease, learnt>>
Boot ==
    /\ ~up
    /\ Settle(With("finalizing"), Recoverable(owner + 1))
    /\ owner' = owner + 1
    /\ up' = TRUE
    /\ UNCHANGED <<clock, lease, learnt>>

EditPolicy(k) ==
    /\ up
    /\ \E p \in Policies \ {policy[k]} : policy' = [policy EXCEPT ![k] = p]
    /\ UNCHANGED <<clock, state, buckets, rolling, reservation, lease, owner, up, learnt>>

Tick ==
    /\ clock < MaxTime
    /\ clock' = clock + 1
    /\ UNCHANGED <<durable, lease, owner, up, learnt>>

Handler(r) ==
    \/ AdmitUnlimited(r) \/ Admit(r) \/ RefuseRate(r) \/ RefuseOther(r) \/ AbandonAdmission(r)
    \/ ReconcileBegin(r) \/ ReconcileBeginFails(r)
    \/ ReconcileApply(r) \/ ReconcileApplyFails(r)
    \/ EndHandler(r) \/ EndHandlerFails(r)

Next ==
    \/ \E r \in Requests : Arrive(r) \/ Handler(r)
    \/ \E k \in Keys : EditPolicy(k)
    \/ Crash \/ Boot \/ Tick

Spec == Init /\ [][Next]_vars

(* Every handler returns: upstream calls and client writes have deadlines. *)
(* A dead service is started again by its operator.                        *)
Fairness == WF_vars(Boot) /\ \A r \in Requests : WF_vars(Handler(r))
FairSpec == Spec /\ Fairness

-----------------------------------------------------------------------------
(* Properties *)

LeaseType ==
    [pc : {"idle", "admitting", "rateLimited", "dispatched", "reconciling", "ending", "ended"},
     closed : BOOLEAN, successKnown : BOOLEAN, policy : Policies, ask : Amounts, at : Nat]
ReservationType ==
    [status : Statuses, owner : Nat, bucket : Periods \cup {NoBucket},
     requested : Amounts, actual : Amounts]
BucketType ==
    [reservedRequests : Nat, actualRequests : Nat, reserved : Amounts, actual : Amounts]

(* Every row and every lease has the shape the code gives it; in           *)
(* particular no counter is ever negative.                                 *)
TypeOK ==
    /\ clock \in 0..MaxTime
    /\ policy \in [Keys -> Policies]
    /\ state \in [Keys -> [active : Nat, rolling : Nat]]
    /\ buckets \in [Keys -> [Periods -> BucketType]]
    /\ rolling \in [Requests -> Nat]
    /\ reservation \in [Requests -> ReservationType]
    /\ lease \in [Requests -> LeaseType]
    /\ owner \in Nat
    /\ up \in BOOLEAN
    /\ learnt \in [Requests -> {"nothing", "recorded", "unrecorded"}]

(* The concurrency counter of a key is the number of its reservations that *)
(* hold a slot, over every interleaving of handlers, crashes and restarts: *)
(* a slot is neither leaked nor given back twice.                          *)
ActiveMatchesReservations ==
    \A k \in Keys : state[k].active = Cardinality(OfKey(k, Unsettled))

(* The rolling counter of a key is the number of its rolling rows, though  *)
(* admissions, batched cleanups and their rollbacks update them apart.     *)
RollingMatchesRows == \A k \in Keys : state[k].rolling = Cardinality(Rows(k))

(* A period bucket holds what its unsettled reservations asked for and     *)
(* what its closed ones used, each counted once.                           *)
BucketsMatchReservations ==
    \A k \in Keys, b \in Periods :
        LET open == InBucket(k, b, Unsettled) done == InBucket(k, b, With("closed")) IN
        /\ buckets[k][b].reservedRequests = Cardinality(open)
        /\ buckets[k][b].actualRequests = Cardinality(done)
        /\ \A d \in Dims :
             /\ buckets[k][b].reserved[d] = Sum(open, Requested(d))
             /\ buckets[k][b].actual[d] = Sum(done, Actual(d))

(* The checks of decrementActive and subtractReservation never fire, so    *)
(* neither a request nor a start of the service can fail on them.          *)
NeverInconsistent == Consistent(Unsettled)

(* The books of the periods are exact, and no settling meets a row that it *)
(* would have to refuse.                                                   *)
Books == BucketsMatchReservations /\ NeverInconsistent

(* The largest of some limits, if none of them is zero, which is no limit. *)
Largest(limits) == {m \in limits : limits \subseteq 1..m}
Enabled == {p \in Policies : PolicyEnabled(p)}

(* A key never has more requests in flight than the widest of the policies *)
(* it was ever given allows, though requests are checked and counted at    *)
(* different moments, against snapshots of the policy that may be old, and *)
(* a restart forgets every handler.                                        *)
ConcurrencyCap ==
    \A k \in Keys : \A m \in Largest({p.maxConcurrent : p \in Enabled}) :
        Cardinality(OfKey(k, Unsettled)) <= m

(* The admissions of a key whose window is still open are never more than  *)
(* the widest rolling limit.                                               *)
RollingCap ==
    \A k \in Keys : \A m \in Largest({p.rollingCount : p \in Policies} \ {0}) :
        Cardinality(Rows(k) \ Expired(k, clock)) <= m

(* A period never admits more requests than the widest limit, and never    *)
(* holds or charges more cost than the widest cost limit: reconciliation   *)
(* charges the cost reserved.                                              *)
PeriodCap ==
    \A k \in Keys, b \in Periods :
        LET limited == {p \in Policies : PeriodEnabled(p)} IN
        /\ \A m \in Largest({p.requestLimit : p \in limited}) :
             Cardinality(InBucket(k, b, Unsettled \cup With("closed"))) <= m
        /\ \A m \in Largest({p.limit["cost"] : p \in limited}) :
             buckets[k][b].reserved["cost"] + buckets[k][b].actual["cost"] <= m

(* Neither a window nor a period ever holds more than its widest limit.    *)
RateCaps == RollingCap /\ PeriodCap

(* After a restart no reservation of an earlier process still holds a      *)
(* slot, whatever step of its handler the crash cut off.                   *)
OldOwnersSettled == up => \A r \in Unsettled : reservation[r].owner = owner

(* What is known to have succeeded.  A success on record is never given     *)
(* back.  One whose record failed keeps its slot and its amounts as long as *)
(* its process lives, for the deferred release is off; but the record is    *)
(* all that a later process sees, so after a crash RecoverPending gives it  *)
(* back like a request that was cut off.                                   *)
SuccessKept ==
    \A r \in Requests :
        /\ learnt[r] = "recorded" => reservation[r].status \in {"finalizing", "closed"}
        /\ learnt[r] = "unrecorded" =>
             \/ reservation[r].status = "pending"
             \/ reservation[r].status = "released" /\ reservation[r].owner < owner

(* Whatever a crash or a failure cuts off, no slot stays taken by a process *)
(* that is gone; and a request that succeeded is given its quota back only  *)
(* by a later process, and only when the success never got on record.      *)
NothingIsForgotten == OldOwnersSettled /\ SuccessKept

(* Settling is final: a closed or released reservation never changes, and  *)
(* a success on record is never dropped and keeps the amounts recorded.    *)
SettlingIsFinal ==
    [][\A r \in Requests :
         /\ reservation[r].status \in {"closed", "released"}
              => reservation'[r] = reservation[r]
         /\ reservation[r].status = "finalizing" =>
              /\ reservation'[r].status \in {"finalizing", "closed"}
              /\ reservation'[r].actual = reservation[r].actual]_vars

(* The handlers' part of the inductive invariant: what the step a handler  *)
(* is at says about the rows of its request, and that no handler outlives  *)
(* its process.                                                            *)
HandlerInv ==
    \A r \in Requests :
        /\ lease[r].pc \in {"idle", "admitting"} =>
             reservation[r].status = "none" /\ rolling[r] = 0
        /\ lease[r].pc = "dispatched" => reservation[r].status = "pending"
        /\ lease[r].pc = "reconciling" => reservation[r].status = "finalizing"
        /\ lease[r].pc \in {"idle", "admitting", "dispatched"} => ~lease[r].successKnown
        /\ ~up => lease[r].pc \in {"idle", "ended"} /\ ~lease[r].successKnown

(* The inductive invariant: the rows are well formed, the counters count   *)
(* them, and the handlers agree with the rows.                             *)
Accounting ==
    TypeOK /\ HandlerInv /\ ActiveMatchesReservations /\ RollingMatchesRows

(* Without outside faults every slot that was taken is given back, through *)
(* any number of crashes.                                                  *)
SlotsAreFreed == \A r \in Requests : (r \in Unsettled) ~> (r \notin Unsettled)

(* A crashed service comes back: the rows it left never stop a start.      *)
ServiceComesBack == ~up ~> up

(* The abstract limiter: a key's counter and the requests that hold it.    *)
Ledger == INSTANCE QuotaLedger WITH
    Limits <- {p.maxConcurrent : p \in Enabled},
    used <- [k \in Keys |-> state[k].active],
    holders <- Unsettled,
    charged <- With("closed"),
    dropped <- With("released")
RefinesLedger == Ledger!Spec
=============================================================================
