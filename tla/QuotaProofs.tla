---------------------------- MODULE QuotaProofs ----------------------------
(***************************************************************************)
(* Theorems about Quota, for every set of keys, requests and policies,     *)
(* every batch size and every bound.                                       *)
(***************************************************************************)
EXTENDS Quota, FiniteSetTheorems, TLAPS

-----------------------------------------------------------------------------
(* Counting *)

(* Any collection of requests is finite and has a natural number of members. *)
LEMMA FiniteRequests ==
    ASSUME NEW S \in SUBSET Requests
    PROVE  IsFiniteSet(S) /\ Cardinality(S) \in Nat
  BY QuotaAssumption, FS_Subset, FS_CardinalityType

(* Taking a part out of a collection of requests takes as many out of its  *)
(* count.                                                                  *)
LEMMA CountDifference ==
    ASSUME NEW S \in SUBSET Requests, NEW T \in SUBSET S
    PROVE  Cardinality(S \ T) = Cardinality(S) - Cardinality(T)
  <1>1. IsFiniteSet(S)
    BY FiniteRequests
  <1>2. Cardinality(S \ T) = Cardinality(S) - Cardinality(S \cap T)
    BY <1>1, FS_Difference
  <1>3. S \cap T = T
    OBVIOUS
  <1> QED
    BY <1>2, <1>3

(* A new member adds one. *)
LEMMA CountAdd ==
    ASSUME NEW S \in SUBSET Requests, NEW r \in Requests, r \notin S
    PROVE  Cardinality(S \cup {r}) = Cardinality(S) + 1
  BY FiniteRequests, FS_AddElement

(* Two collections with none in common count together. *)
LEMMA CountUnion ==
    ASSUME NEW S \in SUBSET Requests, NEW T \in SUBSET Requests, S \cap T = {}
    PROVE  Cardinality(S \cup T) = Cardinality(S) + Cardinality(T)
  <1>1. /\ IsFiniteSet(S) /\ IsFiniteSet(T)
        /\ Cardinality(S) \in Nat /\ Cardinality(T) \in Nat
    BY FiniteRequests
  <1>2. Cardinality(S \cup T) = Cardinality(S) + Cardinality(T) - Cardinality(S \cap T)
    BY <1>1, FS_Union
  <1>3. Cardinality(S \cap T) = 0
    BY FS_EmptySet
  <1> QED
    BY <1>1, <1>2, <1>3

-----------------------------------------------------------------------------
(* Sums over requests *)

(* The units a sum counts. *)
Units(S, f) == UNION {{r} \X (1..f[r]) : r \in S}

(* One pair for each unit of each request of the set. *)
LEMMA UnitsAre ==
    ASSUME NEW S, NEW f, NEW u
    PROVE  u \in Units(S, f) <=> \E r \in S : \E n \in 1..f[r] : u = <<r, n>>
  BY DEF Units

(* A sum is the number of its units. *)
LEMMA SumIsUnits == \A S, f : Sum(S, f) = Cardinality(Units(S, f))
  BY DEF Sum, Units

(* The units of finitely many requests are finitely many. *)
LEMMA UnitsFinite ==
    ASSUME NEW S \in SUBSET Requests, NEW f \in [Requests -> Nat]
    PROVE  IsFiniteSet(Units(S, f))
  <1> DEFINE units == {{r} \X (1..f[r]) : r \in S}
  <1>1. IsFiniteSet(units)
    <2>1. IsFiniteSet(S)
      BY FiniteRequests
    <2>2. units = {[q \in S |-> {q} \X (1..f[q])][r] : r \in S}
      OBVIOUS
    <2> HIDE DEF units
    <2>3. [q \in S |-> {q} \X (1..f[q])] \in Surjection(S, units)
      BY <2>2 DEF Surjection, units
    <2> QED
      BY <2>1, <2>3, FS_Surjection
  <1>2. \A u \in units : IsFiniteSet(u)
    <2> SUFFICES ASSUME NEW r \in S PROVE IsFiniteSet({r} \X (1..f[r]))
      OBVIOUS
    <2>1. IsFiniteSet({r})
      BY FS_Singleton
    <2>2. 1 \in Int /\ f[r] \in Int
      OBVIOUS
    <2>3. IsFiniteSet(1..f[r])
      BY <2>2, FS_Interval
    <2> QED
      BY <2>1, <2>3, FS_Product
  <1>3. IsFiniteSet(UNION units)
    <2> HIDE DEF units
    <2> QED BY <1>1, <1>2, FS_UNION
  <1> QED
    BY <1>3 DEF Units

(* A sum of natural amounts over requests is a natural number. *)
LEMMA SumType ==
    ASSUME NEW S \in SUBSET Requests, NEW f \in [Requests -> Nat]
    PROVE  Sum(S, f) \in Nat
  BY UnitsFinite, SumIsUnits, FS_CardinalityType

(* The sum over two collections of requests with none in common. *)
LEMMA SumUnion ==
    ASSUME NEW S \in SUBSET Requests, NEW T \in SUBSET Requests, S \cap T = {},
           NEW f \in [Requests -> Nat]
    PROVE  Sum(S \cup T, f) = Sum(S, f) + Sum(T, f)
  <1>1. IsFiniteSet(Units(S, f)) /\ IsFiniteSet(Units(T, f))
    BY UnitsFinite
  <1>2. Units(S \cup T, f) = Units(S, f) \cup Units(T, f)
    BY DEF Units
  <1>3. Units(S, f) \cap Units(T, f) = {}
    <2> SUFFICES ASSUME NEW u \in Units(S, f), u \in Units(T, f) PROVE FALSE
      OBVIOUS
    <2>1. PICK r \in S : \E n \in 1..f[r] : u = <<r, n>>
      BY UnitsAre
    <2>2. PICK q \in T : \E n \in 1..f[q] : u = <<q, n>>
      BY UnitsAre
    <2> QED
      BY <2>1, <2>2
  <1>4. Cardinality(Units(S, f) \cup Units(T, f))
          = Cardinality(Units(S, f)) + Cardinality(Units(T, f))
            - Cardinality(Units(S, f) \cap Units(T, f))
    BY <1>1, FS_Union
  <1>5. Cardinality(Units(S, f)) \in Nat /\ Cardinality(Units(T, f)) \in Nat
    BY <1>1, FS_CardinalityType
  <1>6. Cardinality(Units(S, f) \cap Units(T, f)) = 0
    BY <1>3, FS_EmptySet
  <1>7. /\ Sum(S \cup T, f) = Cardinality(Units(S \cup T, f))
        /\ Sum(S, f) = Cardinality(Units(S, f))
        /\ Sum(T, f) = Cardinality(Units(T, f))
    BY SumIsUnits
  <1> DEFINE left == Cardinality(Units(S, f))
             right == Cardinality(Units(T, f))
             common == Cardinality(Units(S, f) \cap Units(T, f))
             both == Cardinality(Units(S, f) \cup Units(T, f))
  <1> HIDE DEF left, right, common, both
  <1>8. both = left + right - common /\ left \in Nat /\ right \in Nat /\ common = 0
    BY <1>4, <1>5, <1>6 DEF left, right, common, both
  <1>9. both = left + right
    BY <1>8
  <1> QED
    BY <1>2, <1>7, <1>9 DEF left, right, both

(* Taking a part out of a collection takes its sum out of the sum. *)
LEMMA SumDifference ==
    ASSUME NEW S \in SUBSET Requests, NEW T \in SUBSET S, NEW f \in [Requests -> Nat]
    PROVE  Sum(S \ T, f) = Sum(S, f) - Sum(T, f)
  <1>1. S \ T \in SUBSET Requests /\ T \in SUBSET Requests /\ (S \ T) \cap T = {}
    OBVIOUS
  <1>2. Sum((S \ T) \cup T, f) = Sum(S \ T, f) + Sum(T, f)
    BY <1>1, SumUnion
  <1>3. (S \ T) \cup T = S
    OBVIOUS
  <1>4. Sum(S \ T, f) \in Nat /\ Sum(T, f) \in Nat
    BY <1>1, SumType
  <1>5. Sum(S, f) = Sum(S \ T, f) + Sum(T, f)
    BY <1>2, <1>3
  <1> DEFINE whole == Sum(S, f)
             rest == Sum(S \ T, f)
             part == Sum(T, f)
  <1> HIDE DEF whole, rest, part
  <1>6. whole = rest + part /\ rest \in Nat /\ part \in Nat
    BY <1>4, <1>5 DEF whole, rest, part
  <1>7. rest = whole - part
    BY <1>6
  <1> QED
    BY <1>7 DEF whole, rest, part

(* A part never sums to more than the whole. *)
LEMMA SumPart ==
    ASSUME NEW S \in SUBSET Requests, NEW T \in SUBSET S, NEW f \in [Requests -> Nat]
    PROVE  Sum(T, f) <= Sum(S, f)
  <1>1. Sum(S \ T, f) = Sum(S, f) - Sum(T, f)
    BY SumDifference
  <1>2. S \ T \in SUBSET Requests /\ T \in SUBSET Requests
    OBVIOUS
  <1>3. Sum(S \ T, f) \in Nat /\ Sum(T, f) \in Nat /\ Sum(S, f) \in Nat
    BY <1>2, SumType
  <1> QED
    BY <1>1, <1>3

(* The sum over one request is its amount. *)
LEMMA SumOne ==
    ASSUME NEW r \in Requests, NEW f \in [Requests -> Nat]
    PROVE  Sum({r}, f) = f[r]
  <1>1. Units({r}, f) = {r} \X (1..f[r])
    BY DEF Units
  <1>2. 1 \in Int /\ f[r] \in Nat /\ f[r] \in Int
    OBVIOUS
  <1>3. IsFiniteSet({r}) /\ Cardinality({r}) = 1
    BY FS_Singleton
  <1>4. IsFiniteSet(1..f[r]) /\ Cardinality(1..f[r]) = f[r]
    <2>1. IsFiniteSet(1..f[r])
          /\ Cardinality(1..f[r]) = IF 1 > f[r] THEN 0 ELSE f[r] - 1 + 1
      BY <1>2, FS_Interval
    <2> QED
      BY <1>2, <2>1
  <1>5. Cardinality({r} \X (1..f[r])) = Cardinality({r}) * Cardinality(1..f[r])
    BY <1>3, <1>4, FS_Product
  <1>6. Cardinality({r} \X (1..f[r])) = f[r]
    BY <1>2, <1>3, <1>4, <1>5
  <1>7. Sum({r}, f) = Cardinality(Units({r}, f))
    BY SumIsUnits
  <1> QED
    BY <1>1, <1>6, <1>7

(* A sum depends only on the amounts of its requests. *)
LEMMA SumSame ==
    ASSUME NEW S, NEW f, NEW g, \A r \in S : f[r] = g[r]
    PROVE  Sum(S, f) = Sum(S, g)
  <1>1. Units(S, f) = Units(S, g)
    BY DEF Units
  <1> QED
    BY <1>1 DEF Sum, Units

(* The sum over no request is zero. *)
LEMMA SumNone == \A f : Sum({}, f) = 0
  <1>1. \A f : UNION {{r} \X (1..f[r]) : r \in {}} = {}
    OBVIOUS
  <1> QED
    BY <1>1, FS_EmptySet DEF Sum

-----------------------------------------------------------------------------
(* Type correctness *)

(* A new lease holds no amounts and some policy. *)
LEMMA NoLeaseType ==
    ASSUME NEW pc \in {"idle", "admitting", "rateLimited", "dispatched",
                       "reconciling", "ending", "ended"}
    PROVE  NoLease(pc) \in LeaseType
  <1>1. (CHOOSE p \in Policies : TRUE) \in Policies
    BY QuotaAssumption
  <1> QED
    BY <1>1 DEF NoLease, LeaseType, NoAmounts, Amounts, Dims

(* What a handler reserves is a record of natural amounts. *)
LEMMA AskType ==
    ASSUME NEW p \in Policies, NEW ask \in Asks(p)
    PROVE  ask \in Amounts
  <1>1. p \in PolicyType
    BY QuotaAssumption DEF ValidPolicy
  <1>2. p.default \in [Dims -> Nat]
    BY <1>1 DEF PolicyType, Amounts
  <1>3. p.default["tokens"] \in Nat /\ p.default["images"] \in Nat /\ p.default["cost"] \in Nat
    BY <1>2 DEF Dims
  <1>4. ImageDefault(p) \in Nat
    BY <1>3 DEF ImageDefault
  <1>5. \A n \in Nat : ResponseAsk(p, n) \in Amounts /\ ImageAsk(p, n) \in Amounts
    BY <1>3 DEF ResponseAsk, ImageAsk, Amounts, Dims
  <1> QED
    BY <1>3, <1>4, <1>5, QuotaAssumption DEF Asks

(* The period of an instant within the bound is one of the bucket rows. *)
LEMMA PeriodStartType ==
    ASSUME NEW p \in Policies, NEW now \in 0..MaxTime
    PROVE  PeriodStart(p, now) \in Periods \cup {NoBucket}
  <1>1. CASE ~PeriodEnabled(p)
    BY <1>1 DEF PeriodStart
  <1>2. CASE PeriodEnabled(p)
    <2>1. p.periodDuration \in Nat \ {0}
      BY <1>2, QuotaAssumption DEF ValidPolicy, PolicyType
    <2> DEFINE d == p.periodDuration
    <2> HIDE DEF d
    <2>2. d \in Nat \ {0} /\ now \in Nat /\ MaxTime \in Nat
      BY <2>1, QuotaAssumption DEF d
    <2>3. now % d >= 0 /\ now % d <= now
      BY <2>2, SMTT(30)
    <2>4. now - (now % d) \in 0..MaxTime
      BY <2>2, <2>3
    <2> QED
      BY <1>2, <2>4 DEF PeriodStart, Periods, d
  <1> QED
    BY <1>1, <1>2

(* Settling consistent reservations leaves well-formed rows: no counter    *)
(* goes below zero.                                                        *)
LEMMA SettleType ==
    ASSUME TypeOK, NEW C \in SUBSET Requests, NEW D \in SUBSET Requests, Settle(C, D)
    PROVE  /\ state' \in [Keys -> [active : Nat, rolling : Nat]]
           /\ buckets' \in [Keys -> [Periods -> BucketType]]
           /\ reservation' \in [Requests -> ReservationType]
  <1> DEFINE S == C \cup D
  <1>1. \A d \in Dims : Requested(d) \in [Requests -> Nat] /\ Actual(d) \in [Requests -> Nat]
    BY DEF TypeOK, ReservationType, Amounts, Requested, Actual
  <1>2. \A k \in Keys : /\ OfKey(k, S) \in SUBSET Requests
                        /\ Cardinality(OfKey(k, S)) \in Nat
    BY FiniteRequests DEF OfKey
  <1>3. \A k \in Keys, b \in Periods :
          /\ InBucket(k, b, S) \in SUBSET Requests
          /\ InBucket(k, b, C) \in SUBSET Requests
    BY DEF OfKey, InBucket
  <1>4. state' \in [Keys -> [active : Nat, rolling : Nat]]
    <2> SUFFICES ASSUME NEW k \in Keys
                 PROVE  [state[k] EXCEPT !.active = @ - Cardinality(OfKey(k, S))]
                          \in [active : Nat, rolling : Nat]
      BY DEF Settle
    <2>1. state[k] \in [active : Nat, rolling : Nat]
      BY DEF TypeOK
    <2>2. state[k].active >= Cardinality(OfKey(k, S))
      BY DEF Settle, Consistent
    <2>3. Cardinality(OfKey(k, S)) \in Nat
      BY <1>2
    <2> HIDE DEF S
    <2> QED
      BY <2>1, <2>2, <2>3
  <1>5. ASSUME NEW k \in Keys, NEW b \in Periods
        PROVE  Moved(buckets[k][b], InBucket(k, b, S), InBucket(k, b, C)) \in BucketType
    <2> DEFINE old == buckets[k][b]
               out == InBucket(k, b, S)
               in == InBucket(k, b, C)
    <2>1. old \in BucketType
      BY DEF TypeOK
    <2>2. out \in SUBSET Requests /\ in \in SUBSET Requests
      BY <1>3
    <2>3. /\ old.reservedRequests >= Cardinality(out)
          /\ \A d \in Dims : old.reserved[d] >= Sum(out, Requested(d))
      BY DEF Settle, Consistent
    <2> HIDE DEF old, out, in
    <2>4. Cardinality(out) \in Nat /\ Cardinality(in) \in Nat
      BY <2>2, FiniteRequests
    <2>5. \A d \in Dims : Sum(out, Requested(d)) \in Nat /\ Sum(in, Actual(d)) \in Nat
      BY <1>1, <2>2, SumType
    <2>6. [d \in Dims |-> old.reserved[d] - Sum(out, Requested(d))] \in Amounts
      BY <2>1, <2>3, <2>5 DEF BucketType, Amounts
    <2>7. [d \in Dims |-> old.actual[d] + Sum(in, Actual(d))] \in Amounts
      BY <2>1, <2>5 DEF BucketType, Amounts
    <2>8. old.reservedRequests - Cardinality(out) \in Nat
      BY <2>1, <2>3, <2>4 DEF BucketType
    <2>9. old.actualRequests + Cardinality(in) \in Nat
      BY <2>1, <2>4 DEF BucketType
    <2>10. Moved(old, out, in) \in BucketType
      BY <2>6, <2>7, <2>8, <2>9 DEF BucketType, Moved
    <2> QED
      BY <2>10 DEF old, out, in
  <1>6. buckets' \in [Keys -> [Periods -> BucketType]]
    BY <1>5 DEF Settle
  <1>7. NoAmounts \in Amounts
    BY DEF NoAmounts, Amounts
  <1>8. reservation' \in [Requests -> ReservationType]
    BY <1>7 DEF Settle, TypeOK, ReservationType, Statuses
  <1> QED
    BY <1>4, <1>6, <1>8

(* The admission transaction writes well-formed rows. *)
LEMMA GrantType ==
    ASSUME TypeOK, NEW r \in Requests, NEW p \in Policies, NEW ask \in Amounts,
           NEW now \in 0..clock, NEW B \in Batches(KeyOf[r], now),
           Grant(r, p, ask, now, B)
    PROVE  /\ state' \in [Keys -> [active : Nat, rolling : Nat]]
           /\ buckets' \in [Keys -> [Periods -> BucketType]]
           /\ rolling' \in [Requests -> Nat]
           /\ reservation' \in [Requests -> ReservationType]
  <1> DEFINE k == KeyOf[r]
             b == PeriodStart(p, now)
  <1>1. k \in Keys
    BY QuotaAssumption
  <1>2. now \in 0..MaxTime /\ now \in Nat
    BY QuotaAssumption DEF TypeOK
  <1>3. b \in Periods \cup {NoBucket}
    BY <1>2, PeriodStartType
  <1>4. B \in SUBSET Requests
    BY DEF Batches, Expired, Rows
  <1>5. Cardinality(B) \in Nat
    BY <1>4, FiniteRequests
  <1>6. RollingAfter(k, B) \in Nat
    BY <1>1, <1>5 DEF RollingAfter, TypeOK
  <1>7. state' \in [Keys -> [active : Nat, rolling : Nat]]
    BY <1>1, <1>6 DEF Grant, TypeOK
  <1>8. p.rollingWindow \in Nat
    BY QuotaAssumption DEF ValidPolicy, PolicyType
  <1>9. rolling' \in [Requests -> Nat]
    BY <1>2, <1>8 DEF Grant, TypeOK
  <1>10. reservation' \in [Requests -> ReservationType]
    <2>1. NoAmounts \in Amounts
      BY DEF NoAmounts, Amounts
    <2> QED
      BY <1>3, <2>1 DEF Grant, TypeOK, ReservationType, Statuses
  <1>11. buckets' \in [Keys -> [Periods -> BucketType]]
    <2>1. CASE b = NoBucket
      BY <2>1 DEF Grant, TypeOK
    <2>2. CASE b \in Periods
      <3>1. b # NoBucket
        BY <2>2, QuotaAssumption DEF Periods, NoBucket
      <3> DEFINE old == buckets[k][b]
                 new == Reserved(old, ask)
      <3>2. old \in BucketType
        BY <1>1, <2>2 DEF TypeOK
      <3>3. new \in BucketType
        <4>1. [d \in Dims |-> old.reserved[d] + ask[d]] \in Amounts
          BY <3>2 DEF BucketType, Amounts
        <4>2. old.reservedRequests + 1 \in Nat
          BY <3>2 DEF BucketType
        <4> HIDE DEF old
        <4> QED
          BY <3>2, <4>1, <4>2 DEF BucketType, Reserved
      <3>4. buckets' = [buckets EXCEPT ![k][b] = new]
        BY <3>1, <1>1, <2>2 DEF Grant
      <3> HIDE DEF new, old, k, b
      <3> QED
        BY <1>1, <2>2, <3>3, <3>4 DEF TypeOK
    <2> QED
      BY <1>3, <2>1, <2>2
  <1> QED
    BY <1>7, <1>9, <1>10, <1>11

(* Every amount the upstream may report is a record of natural amounts. *)
LEMMA UsageType == Usages \subseteq Amounts
  BY QuotaAssumption DEF Usages, Amounts, Dims

LEMMA TypeInit == Init => TypeOK
  <1> SUFFICES ASSUME Init PROVE TypeOK
    OBVIOUS
  <1>1. NoAmounts \in Amounts
    BY DEF NoAmounts, Amounts
  <1>2. NoLease("idle") \in LeaseType
    BY NoLeaseType
  <1>3. EmptyBucket \in BucketType /\ NoReservation \in ReservationType
    BY <1>1 DEF EmptyBucket, BucketType, NoReservation, ReservationType, Statuses
  <1> QED
    BY <1>2, <1>3, QuotaAssumption DEF Init, TypeOK

LEMMA TypeStep == TypeOK /\ [Next]_vars => TypeOK'
  <1> SUFFICES ASSUME TypeOK, [Next]_vars PROVE TypeOK'
    OBVIOUS
  <1>a. \A r \in Requests : lease[r] \in LeaseType
    BY DEF TypeOK
  <1>b. NoLease("idle") \in LeaseType /\ NoLease("admitting") \in LeaseType
        /\ NoLease("dispatched") \in LeaseType /\ NoLease("ended") \in LeaseType
    BY NoLeaseType
  <1>1. ASSUME NEW r \in Requests, Arrive(r) PROVE TypeOK'
    <2>1. PICK ask \in Asks(policy[KeyOf[r]]) :
            lease' = [lease EXCEPT ![r] = [NoLease("admitting") EXCEPT
                        !.policy = policy[KeyOf[r]], !.ask = ask, !.at = clock]]
      BY <1>1 DEF Arrive
    <2>2. policy[KeyOf[r]] \in Policies
      BY QuotaAssumption DEF TypeOK
    <2>3. ask \in Amounts
      BY <2>1, <2>2, AskType
    <2>4. clock \in Nat
      BY QuotaAssumption DEF TypeOK
    <2>5. lease' \in [Requests -> LeaseType]
      BY <1>b, <2>1, <2>2, <2>3, <2>4 DEF TypeOK, LeaseType
    <2> QED
      BY <1>1, <2>5 DEF Arrive, durable, TypeOK
  <1>2. ASSUME NEW r \in Requests, AdmitUnlimited(r) \/ RefuseOther(r) \/ AbandonAdmission(r)
        PROVE TypeOK'
    BY <1>2, <1>b DEF AdmitUnlimited, RefuseOther, AbandonAdmission, durable, TypeOK
  <1>3. ASSUME NEW r \in Requests, Admit(r) PROVE TypeOK'
    <2>1. PICK now \in lease[r].at..clock : \E B \in Batches(KeyOf[r], now) :
            Grant(r, lease[r].policy, lease[r].ask, now, B)
      BY <1>3 DEF Admit
    <2>2. PICK B \in Batches(KeyOf[r], now) : Grant(r, lease[r].policy, lease[r].ask, now, B)
      BY <2>1
    <2>3. lease[r].policy \in Policies /\ lease[r].ask \in Amounts /\ lease[r].at \in Nat
      BY <1>a DEF LeaseType
    <2>4. now \in 0..clock
      BY <2>3, QuotaAssumption DEF TypeOK
    <2>5. /\ state' \in [Keys -> [active : Nat, rolling : Nat]]
          /\ buckets' \in [Keys -> [Periods -> BucketType]]
          /\ rolling' \in [Requests -> Nat]
          /\ reservation' \in [Requests -> ReservationType]
      BY <2>2, <2>3, <2>4, GrantType
    <2>6. lease' \in [Requests -> LeaseType]
      BY <1>3, <1>b DEF Admit, TypeOK
    <2> QED
      BY <1>3, <2>5, <2>6 DEF Admit, TypeOK
  <1>4. ASSUME NEW r \in Requests, RefuseRate(r) PROVE TypeOK'
    <2>1. PICK now \in lease[r].at..clock :
            lease' = [lease EXCEPT ![r].pc = "rateLimited", ![r].at = now]
      BY <1>4 DEF RefuseRate
    <2>2. now \in Nat
      BY <1>a, QuotaAssumption DEF LeaseType, TypeOK
    <2>3. lease' \in [Requests -> LeaseType]
      BY <1>a, <2>1, <2>2 DEF TypeOK, LeaseType
    <2> QED
      BY <1>4, <2>3 DEF RefuseRate, durable, TypeOK
  <1>5. ASSUME NEW r \in Requests, ReconcileBegin(r) PROVE TypeOK'
    <2>1. PICK usage \in Usages : BeginFinalization(r, usage)
      BY <1>5 DEF ReconcileBegin
    <2>2. reservation[r] \in ReservationType /\ usage \in Amounts
      BY UsageType DEF TypeOK
    <2>3. Charge(r, usage) \in Amounts
      BY <2>2 DEF Charge, ReservationType, Amounts, Dims
    <2>4. reservation' \in [Requests -> ReservationType]
      BY <2>1, <2>2, <2>3 DEF BeginFinalization, TypeOK, ReservationType, Statuses
    <2>5. lease' \in [Requests -> LeaseType]
      <3>1. [lease[r] EXCEPT !.pc = "reconciling", !.successKnown = TRUE] \in LeaseType
        BY <1>a DEF LeaseType
      <3>2. lease' = [lease EXCEPT ![r] = [lease[r] EXCEPT !.pc = "reconciling", !.successKnown = TRUE]]
        BY <1>5 DEF ReconcileBegin, TypeOK
      <3> QED
        BY <3>1, <3>2 DEF TypeOK
    <2> QED
      BY <1>5, <2>4, <2>5 DEF ReconcileBegin, TypeOK
  <1>6. ASSUME NEW r \in Requests,
               ReconcileBeginFails(r) \/ ReconcileApplyFails(r) \/ EndHandlerFails(r)
        PROVE TypeOK'
    <2>1. lease' \in [Requests -> LeaseType]
      <3>1. CASE ReconcileBeginFails(r)
        <4>1. [lease[r] EXCEPT !.pc = "ending", !.successKnown = TRUE, !.closed = TRUE]
                \in LeaseType
          BY <1>a DEF LeaseType
        <4>2. lease' = [lease EXCEPT ![r] =
                [lease[r] EXCEPT !.pc = "ending", !.successKnown = TRUE, !.closed = TRUE]]
          BY <3>1 DEF ReconcileBeginFails, TypeOK
        <4> QED
          BY <4>1, <4>2 DEF TypeOK
      <3>2. CASE ReconcileApplyFails(r)
        <4>1. [lease[r] EXCEPT !.pc = "ending", !.closed = TRUE] \in LeaseType
          BY <1>a DEF LeaseType
        <4>2. lease' = [lease EXCEPT ![r] = [lease[r] EXCEPT !.pc = "ending", !.closed = TRUE]]
          BY <3>2 DEF ReconcileApplyFails, TypeOK
        <4> QED
          BY <4>1, <4>2 DEF TypeOK
      <3>3. CASE EndHandlerFails(r)
        BY <3>3, <1>b DEF EndHandlerFails, TypeOK
      <3> QED
        BY <1>6, <3>1, <3>2, <3>3
    <2> QED
      BY <1>6, <2>1 DEF ReconcileBeginFails, ReconcileApplyFails, EndHandlerFails, durable, TypeOK
  <1> DEFINE RowsTyped == /\ policy' \in [Keys -> Policies]
                          /\ state' \in [Keys -> [active : Nat, rolling : Nat]]
                          /\ buckets' \in [Keys -> [Periods -> BucketType]]
                          /\ rolling' \in [Requests -> Nat]
                          /\ reservation' \in [Requests -> ReservationType]
  <1>7. ASSUME NEW C \in SUBSET Requests, NEW D \in SUBSET Requests,
               Settle(C, D) \/ UNCHANGED durable
        PROVE  RowsTyped
    <2>1. CASE Settle(C, D)
      <3>1. policy' = policy /\ rolling' = rolling
        BY <2>1 DEF Settle
      <3> QED
        BY <2>1, <3>1, SettleType DEF TypeOK
    <2>2. CASE UNCHANGED durable
      BY <2>2 DEF durable, TypeOK
    <2> QED
      BY <1>7, <2>1, <2>2
  <1>8. ASSUME NEW r \in Requests, ReconcileApply(r) PROVE TypeOK'
    <2>1. Settle({r}, {}) \/ UNCHANGED durable
      BY <1>8 DEF ReconcileApply
    <2>2. lease' \in [Requests -> LeaseType]
      BY <1>8, <1>a DEF ReconcileApply, TypeOK, LeaseType
    <2> QED
      <3>1. {r} \in SUBSET Requests /\ {} \in SUBSET Requests
        OBVIOUS
      <3>2. RowsTyped
        BY <1>7, <2>1, <3>1
      <3> QED
        BY <1>8, <2>2, <3>2 DEF ReconcileApply, TypeOK
  <1>9. ASSUME NEW r \in Requests, EndHandler(r) PROVE TypeOK'
    <2>1. Settle({}, {r}) \/ UNCHANGED durable
      BY <1>9 DEF EndHandler
    <2>2. (MayRelease(r) \/ lease[r].closed) \in BOOLEAN
      OBVIOUS
    <2>3. lease' \in [Requests -> LeaseType]
      BY <1>9, <1>a, <1>b, <2>2 DEF EndHandler, TypeOK, LeaseType
    <2> QED
      <3>1. {r} \in SUBSET Requests /\ {} \in SUBSET Requests
        OBVIOUS
      <3>2. RowsTyped
        BY <1>7, <2>1, <3>1
      <3> QED
        BY <1>9, <2>3, <3>2 DEF EndHandler, TypeOK
  <1>10. ASSUME NEW k \in Keys, EditPolicy(k) PROVE TypeOK'
    BY <1>10 DEF EditPolicy, TypeOK
  <1>11. ASSUME Crash PROVE TypeOK'
    BY <1>11, <1>a, <1>b DEF Crash, durable, TypeOK
  <1>12. ASSUME Boot PROVE TypeOK'
    <2>1. Settle(With("finalizing"), Recoverable(owner + 1))
      BY <1>12 DEF Boot
    <2>2. With("finalizing") \in SUBSET Requests /\ Recoverable(owner + 1) \in SUBSET Requests
      BY DEF With, Recoverable
    <2> QED
      <3>1. RowsTyped
        BY <1>7, <2>1, <2>2
      <3> QED
        BY <1>12, <3>1 DEF Boot, TypeOK
  <1>13. ASSUME Tick PROVE TypeOK'
    BY <1>13, QuotaAssumption DEF Tick, durable, TypeOK
  <1>14. ASSUME UNCHANGED vars PROVE TypeOK'
    BY <1>14 DEF vars, durable, TypeOK
  <1> QED
    BY <1>1, <1>2, <1>3, <1>4, <1>5, <1>6, <1>8, <1>9, <1>10, <1>11, <1>12, <1>13, <1>14
       DEF Next, Handler

(* Type correctness: every row, lease and counter keeps its shape, and no  *)
(* counter of quota_states or quota_buckets ever goes negative.            *)
THEOREM QuotaTypes == Spec => []TypeOK
  BY TypeInit, TypeStep, PTL DEF Spec

-----------------------------------------------------------------------------
(* Accounting *)

(* Settling gives back exactly the slots of the reservations it settles.   *)
LEMMA SettleCounts ==
    ASSUME TypeOK, ActiveMatchesReservations,
           NEW C \in SUBSET Unsettled, NEW D \in SUBSET Unsettled, Settle(C, D)
    PROVE  ActiveMatchesReservations' /\ Unsettled' = Unsettled \ (C \cup D)
  <1> DEFINE S == C \cup D
  <1>1. Unsettled' = Unsettled \ S
    BY DEF Unsettled, Settle, TypeOK, ReservationType
  <1>2. ASSUME NEW k \in Keys
        PROVE  state'[k].active = Cardinality(OfKey(k, Unsettled'))
    <2>1. /\ OfKey(k, Unsettled) \in SUBSET Requests
          /\ OfKey(k, S) \in SUBSET OfKey(k, Unsettled)
          /\ OfKey(k, Unsettled \ S) = OfKey(k, Unsettled) \ OfKey(k, S)
      BY DEF OfKey, Unsettled
    <2>2. Cardinality(OfKey(k, Unsettled \ S))
            = Cardinality(OfKey(k, Unsettled)) - Cardinality(OfKey(k, S))
      BY <2>1, CountDifference
    <2>3. state'[k].active = state[k].active - Cardinality(OfKey(k, S))
      BY DEF Settle, TypeOK
    <2>4. state[k].active = Cardinality(OfKey(k, Unsettled))
      BY DEF ActiveMatchesReservations
    <2> QED
      BY <1>1, <2>2, <2>3, <2>4
  <1> QED
    BY <1>1, <1>2 DEF ActiveMatchesReservations, OfKey

(* Settling leaves the rolling rows and their count alone. *)
LEMMA SettleRolling ==
    ASSUME TypeOK, RollingMatchesRows, NEW C, NEW D, Settle(C, D)
    PROVE  RollingMatchesRows'
  BY DEF Settle, TypeOK, RollingMatchesRows, Rows

(* The admission transaction counts the reservation it makes, and no other. *)
LEMMA GrantCounts ==
    ASSUME TypeOK, ActiveMatchesReservations, NEW r \in Requests, NEW p, NEW ask,
           NEW now, NEW B, Grant(r, p, ask, now, B), reservation[r].status = "none"
    PROVE  ActiveMatchesReservations' /\ Unsettled' = Unsettled \cup {r}
  <1>1. Unsettled' = Unsettled \cup {r} /\ r \notin Unsettled
    BY DEF Unsettled, Grant, TypeOK
  <1>2. ASSUME NEW k \in Keys
        PROVE  state'[k].active = Cardinality(OfKey(k, Unsettled'))
    <2>1. state[k].active = Cardinality(OfKey(k, Unsettled))
      BY DEF ActiveMatchesReservations
    <2>2. CASE k = KeyOf[r]
      <3>1. OfKey(k, Unsettled \cup {r}) = OfKey(k, Unsettled) \cup {r}
        BY <2>2 DEF OfKey
      <3>2. OfKey(k, Unsettled) \in SUBSET Requests /\ r \notin OfKey(k, Unsettled)
        BY <1>1 DEF OfKey, Unsettled
      <3>3. Cardinality(OfKey(k, Unsettled) \cup {r}) = Cardinality(OfKey(k, Unsettled)) + 1
        BY <3>2, CountAdd
      <3>4. state'[k].active = state[k].active + 1
        BY <2>2 DEF Grant, TypeOK
      <3> QED
        BY <1>1, <2>1, <3>1, <3>3, <3>4
    <2>3. CASE k # KeyOf[r]
      <3>1. OfKey(k, Unsettled \cup {r}) = OfKey(k, Unsettled)
        BY <2>3 DEF OfKey
      <3>2. state'[k] = state[k]
        BY <2>3 DEF Grant, TypeOK
      <3> QED
        BY <1>1, <2>1, <3>1, <3>2
    <2> QED
      BY <2>2, <2>3
  <1> QED
    BY <1>1, <1>2 DEF ActiveMatchesReservations, OfKey

(* Its cleanup and its new row are counted together with the rows. *)
LEMMA GrantRolling ==
    ASSUME TypeOK, RollingMatchesRows, NEW r \in Requests, NEW p \in Policies, NEW ask,
           NEW now \in Nat, NEW B \in Batches(KeyOf[r], now),
           Grant(r, p, ask, now, B), rolling[r] = 0
    PROVE  RollingMatchesRows'
  <1> DEFINE key == KeyOf[r]
             added == IF p.rollingCount > 0 THEN {r} ELSE {}
  <1>1. p.rollingCount \in Nat /\ p.rollingWindow \in Nat
        /\ (p.rollingCount > 0 => p.rollingWindow > 0)
    BY QuotaAssumption DEF ValidPolicy, PolicyType
  <1>2. key \in Keys /\ B \in SUBSET Rows(key) /\ Rows(key) \in SUBSET Requests
        /\ r \notin Rows(key)
    BY QuotaAssumption DEF Batches, Expired, Rows
  <1>3. \A s \in Requests : rolling'[s] > 0 <=> (rolling[s] > 0 /\ s \notin B) \/ s \in added
    <2> SUFFICES ASSUME NEW s \in Requests
                 PROVE rolling'[s] > 0 <=> (rolling[s] > 0 /\ s \notin B) \/ s \in added
      OBVIOUS
    <2>1. rolling'[s] = IF s \in B THEN 0
                        ELSE IF s = r /\ p.rollingCount > 0 THEN now + p.rollingWindow
                        ELSE rolling[s]
      BY DEF Grant
    <2>2. r \notin B
      BY <1>2
    <2> QED
      BY <1>1, <2>1, <2>2
  <1>4. ASSUME NEW k \in Keys, k # key
        PROVE  state'[k].rolling = Cardinality(Rows(k)')
    <2>1. state'[k] = state[k]
      BY <1>4 DEF Grant, TypeOK
    <2>2. Rows(k)' = Rows(k)
      BY <1>2, <1>3, <1>4 DEF Rows
    <2> QED
      BY <2>1, <2>2 DEF RollingMatchesRows
  <1>5. state'[key].rolling = Cardinality(Rows(key)')
    <2>1. Rows(key)' = (Rows(key) \ B) \cup added
      BY <1>3 DEF Rows
    <2>2. Cardinality(Rows(key) \ B) = Cardinality(Rows(key)) - Cardinality(B)
      BY <1>2, CountDifference
    <2>3. Cardinality(B) \in Nat /\ Cardinality(Rows(key) \ B) \in Nat
          /\ Cardinality(Rows(key)) \in Nat
      BY <1>2, FiniteRequests
    <2>4. state[key].rolling = Cardinality(Rows(key))
      BY <1>2 DEF RollingMatchesRows
    <2>5. RollingAfter(key, B) = Cardinality(Rows(key) \ B)
      BY <2>2, <2>3, <2>4 DEF RollingAfter
    <2>6. state'[key].rolling = RollingAfter(key, B) + (IF p.rollingCount > 0 THEN 1 ELSE 0)
      BY <1>2 DEF Grant, TypeOK
    <2>7. CASE p.rollingCount > 0
      <3>1. Cardinality((Rows(key) \ B) \cup {r}) = Cardinality(Rows(key) \ B) + 1
        BY <1>2, CountAdd
      <3> QED
        BY <2>1, <2>5, <2>6, <2>7, <3>1
    <2>8. CASE ~(p.rollingCount > 0)
      BY <2>1, <2>3, <2>5, <2>6, <2>8
    <2> QED
      BY <2>7, <2>8
  <1> QED
    BY <1>4, <1>5 DEF RollingMatchesRows, Rows

LEMMA AccountingInit == Init => Accounting
  <1> SUFFICES ASSUME Init PROVE Accounting
    OBVIOUS
  <1>1. TypeOK
    BY TypeInit
  <1>2. HandlerInv
    BY DEF Init, HandlerInv, NoLease, NoReservation
  <1>3. ActiveMatchesReservations
    <2>1. \A k \in Keys : OfKey(k, Unsettled) = {}
      BY DEF Init, OfKey, Unsettled, NoReservation
    <2> QED
      BY <2>1, FS_EmptySet DEF Init, ActiveMatchesReservations
  <1>4. RollingMatchesRows
    <2>1. \A k \in Keys : Rows(k) = {}
      BY DEF Init, Rows
    <2> QED
      BY <2>1, FS_EmptySet DEF Init, RollingMatchesRows
  <1> QED
    BY <1>1, <1>2, <1>3, <1>4 DEF Accounting

(* A step that leaves the counters, the rolling rows and the set of        *)
(* unsettled reservations alone leaves both counts right.                  *)
LEMMA CountsKept ==
    ASSUME ActiveMatchesReservations, RollingMatchesRows,
           state' = state, rolling' = rolling, Unsettled' = Unsettled
    PROVE  ActiveMatchesReservations' /\ RollingMatchesRows'
  BY DEF ActiveMatchesReservations, RollingMatchesRows, OfKey, Rows

LEMMA AccountingStep == Accounting /\ [Next]_vars => Accounting'
  <1> SUFFICES ASSUME Accounting, [Next]_vars PROVE Accounting'
    OBVIOUS
  <1> DEFINE Counts == ActiveMatchesReservations /\ RollingMatchesRows
  <1>a. TypeOK /\ HandlerInv /\ ActiveMatchesReservations /\ RollingMatchesRows
    BY DEF Accounting
  <1>b. TypeOK'
    BY <1>a, TypeStep
  <1>c. durable' = durable => Counts'
    BY <1>a, CountsKept DEF durable, Unsettled
  <1>d. \A r \in Requests : lease[r] \in LeaseType
    BY <1>a DEF TypeOK
  <1>1. ASSUME NEW r \in Requests, Arrive(r) PROVE HandlerInv' /\ Counts'
    <2>1. HandlerInv'
      BY <1>a, <1>1 DEF Arrive, HandlerInv, durable, TypeOK, NoLease
    <2> QED
      BY <1>1, <1>c, <2>1 DEF Arrive
  <1>2. ASSUME NEW r \in Requests, AdmitUnlimited(r) \/ RefuseOther(r) \/ AbandonAdmission(r)
        PROVE HandlerInv' /\ Counts'
    <2>1. HandlerInv'
      BY <1>a, <1>2
         DEF AdmitUnlimited, RefuseOther, AbandonAdmission, HandlerInv, durable, TypeOK, NoLease
    <2> QED
      BY <1>2, <1>c, <2>1 DEF AdmitUnlimited, RefuseOther, AbandonAdmission
  <1>3. ASSUME NEW r \in Requests, Admit(r) PROVE HandlerInv' /\ Counts'
    <2>1. PICK now \in lease[r].at..clock : \E B \in Batches(KeyOf[r], now) :
            Grant(r, lease[r].policy, lease[r].ask, now, B)
      BY <1>3 DEF Admit
    <2>2. PICK B \in Batches(KeyOf[r], now) : Grant(r, lease[r].policy, lease[r].ask, now, B)
      BY <2>1
    <2>3. now \in Nat /\ lease[r].policy \in Policies
      BY <1>a, <1>d, QuotaAssumption DEF LeaseType, TypeOK
    <2>4. reservation[r].status = "none" /\ rolling[r] = 0
      BY <1>3, <1>a DEF Admit, HandlerInv
    <2>5. Counts'
      BY <1>a, <2>2, <2>3, <2>4, GrantCounts, GrantRolling
    <2>6. lease' = [lease EXCEPT ![r] = NoLease("dispatched")] /\ up' = up /\ up
      BY <1>3 DEF Admit
    <2>7. /\ reservation'[r].status = "pending"
          /\ \A s \in Requests \ {r} : /\ reservation'[s] = reservation[s]
                                       /\ rolling[s] = 0 => rolling'[s] = 0
      BY <1>a, <2>2 DEF Grant, TypeOK
    <2>8. HandlerInv'
      BY <1>a, <2>6, <2>7 DEF HandlerInv, TypeOK, NoLease
    <2> QED
      BY <2>5, <2>8
  <1>4. ASSUME NEW r \in Requests, RefuseRate(r) PROVE HandlerInv' /\ Counts'
    <2>1. HandlerInv'
      BY <1>a, <1>4 DEF RefuseRate, HandlerInv, durable, TypeOK
    <2> QED
      BY <1>4, <1>c, <2>1 DEF RefuseRate
  <1>5. ASSUME NEW r \in Requests, ReconcileBegin(r) PROVE HandlerInv' /\ Counts'
    <2>1. PICK usage \in Usages : BeginFinalization(r, usage)
      BY <1>5 DEF ReconcileBegin
    <2>2. reservation[r].status = "pending"
      BY <1>5, <1>a DEF ReconcileBegin, HandlerInv
    <2>3. /\ reservation'[r].status = "finalizing"
          /\ \A s \in Requests \ {r} : reservation'[s] = reservation[s]
      BY <1>a, <2>1, <2>2 DEF BeginFinalization, TypeOK, ReservationType
    <2>4. Unsettled' = Unsettled
      BY <2>2, <2>3 DEF Unsettled
    <2>5. Counts'
      BY <1>a, <1>5, <2>4, CountsKept DEF ReconcileBegin
    <2>6. HandlerInv'
      BY <1>a, <1>5, <2>3 DEF ReconcileBegin, HandlerInv, TypeOK
    <2> QED
      BY <2>5, <2>6
  <1>6. ASSUME NEW r \in Requests,
               ReconcileBeginFails(r) \/ ReconcileApplyFails(r) \/ EndHandlerFails(r)
        PROVE HandlerInv' /\ Counts'
    <2>1. HandlerInv'
      <3>1. CASE ReconcileBeginFails(r)
        BY <3>1, <1>a DEF ReconcileBeginFails, HandlerInv, durable, TypeOK
      <3>2. CASE ReconcileApplyFails(r)
        BY <3>2, <1>a DEF ReconcileApplyFails, HandlerInv, durable, TypeOK
      <3>3. CASE EndHandlerFails(r)
        BY <3>3, <1>a DEF EndHandlerFails, HandlerInv, durable, TypeOK, NoLease
      <3> QED
        BY <1>6, <3>1, <3>2, <3>3
    <2> QED
      BY <1>6, <1>c, <2>1 DEF ReconcileBeginFails, ReconcileApplyFails, EndHandlerFails
  <1>7. ASSUME NEW C \in SUBSET Unsettled, NEW D \in SUBSET Unsettled,
               Settle(C, D) \/ UNCHANGED durable
        PROVE  /\ Counts'
               /\ rolling' = rolling
               /\ \A s \in Requests \ (C \cup D) : reservation'[s] = reservation[s]
    <2>1. CASE Settle(C, D)
      BY <1>a, <2>1, SettleCounts, SettleRolling DEF Settle
    <2>2. CASE UNCHANGED durable
      BY <2>2, <1>c DEF durable
    <2> QED
      BY <1>7, <2>1, <2>2
  <1>8. ASSUME NEW r \in Requests, ReconcileApply(r) PROVE HandlerInv' /\ Counts'
    <2>1. reservation[r].status = "finalizing"
      BY <1>8, <1>a DEF ReconcileApply, HandlerInv
    <2>2. {r} \in SUBSET Unsettled /\ {} \in SUBSET Unsettled
      BY <2>1 DEF Unsettled
    <2>3. Settle({r}, {}) \/ UNCHANGED durable
      BY <1>8 DEF ReconcileApply
    <2>4. Counts' /\ rolling' = rolling
          /\ \A s \in Requests \ {r} : reservation'[s] = reservation[s]
      BY <1>7, <2>2, <2>3
    <2>5. HandlerInv'
      BY <1>a, <1>8, <2>4 DEF ReconcileApply, HandlerInv, TypeOK
    <2> QED
      BY <2>4, <2>5
  <1>9. ASSUME NEW r \in Requests, EndHandler(r) PROVE HandlerInv' /\ Counts'
    <2>1. CASE MayRelease(r) /\ reservation[r].status = "pending"
      <3>1. {r} \in SUBSET Unsettled /\ {} \in SUBSET Unsettled /\ Settle({}, {r})
        BY <1>9, <2>1 DEF Unsettled, EndHandler
      <3>2. Counts' /\ rolling' = rolling
            /\ \A s \in Requests \ {r} : reservation'[s] = reservation[s]
        BY <1>7, <3>1
      <3>3. HandlerInv'
        BY <1>a, <1>9, <3>2 DEF EndHandler, HandlerInv, TypeOK, NoLease
      <3> QED
        BY <3>2, <3>3
    <2>2. CASE ~(MayRelease(r) /\ reservation[r].status = "pending")
      <3>1. UNCHANGED durable
        BY <1>9, <2>2 DEF EndHandler
      <3>2. HandlerInv'
        BY <1>a, <1>9, <3>1 DEF EndHandler, HandlerInv, durable, TypeOK, NoLease
      <3> QED
        BY <1>c, <3>1, <3>2
    <2> QED
      BY <2>1, <2>2
  <1>10. ASSUME NEW k \in Keys, EditPolicy(k) PROVE HandlerInv' /\ Counts'
    <2>1. HandlerInv'
      BY <1>a, <1>10 DEF EditPolicy, HandlerInv
    <2>2. Unsettled' = Unsettled
      BY <1>10 DEF EditPolicy, Unsettled
    <2> QED
      BY <1>a, <1>10, <2>1, <2>2, CountsKept DEF EditPolicy
  <1>11. ASSUME Crash PROVE HandlerInv' /\ Counts'
    <2>1. HandlerInv'
      BY <1>a, <1>11 DEF Crash, HandlerInv, durable, TypeOK, NoLease
    <2> QED
      BY <1>11, <1>c, <2>1 DEF Crash
  <1>12. ASSUME Boot PROVE HandlerInv' /\ Counts'
    <2> DEFINE C == With("finalizing")
               D == Recoverable(owner + 1)
    <2>1. C \in SUBSET Unsettled /\ D \in SUBSET Unsettled /\ Settle(C, D)
      BY <1>12 DEF Boot, With, Recoverable, Unsettled
    <2>2. \A r \in C \cup D : reservation[r].status # "none"
      BY DEF With, Recoverable
    <2> HIDE DEF C, D
    <2>3. Counts' /\ rolling' = rolling
          /\ \A s \in Requests \ (C \cup D) : reservation'[s] = reservation[s]
      BY <1>7, <2>1
    <2>4. HandlerInv'
      BY <1>a, <1>12, <2>2, <2>3 DEF Boot, HandlerInv
    <2> QED
      BY <2>3, <2>4
  <1>13. ASSUME Tick PROVE HandlerInv' /\ Counts'
    BY <1>13, <1>a, <1>c DEF Tick, HandlerInv, durable
  <1>14. ASSUME UNCHANGED vars PROVE HandlerInv' /\ Counts'
    BY <1>14, <1>a, <1>c DEF vars, HandlerInv, durable
  <1>15. HandlerInv' /\ Counts'
    BY <1>1, <1>2, <1>3, <1>4, <1>5, <1>6, <1>8, <1>9, <1>10, <1>11, <1>12, <1>13, <1>14
       DEF Next, Handler
  <1> QED
    BY <1>b, <1>15 DEF Accounting

(* The inductive invariant holds in every reachable state. *)
THEOREM QuotaAccounting == Spec => []Accounting
  BY AccountingInit, AccountingStep, PTL DEF Spec

(* No slot is leaked or given back twice, and the rolling counter is the   *)
(* number of rolling rows, through any crashes and failing transactions.   *)
THEOREM CountersAreExact == Spec => [](ActiveMatchesReservations /\ RollingMatchesRows)
  <1>1. Accounting => ActiveMatchesReservations /\ RollingMatchesRows
    BY DEF Accounting
  <1> QED
    BY <1>1, QuotaAccounting, PTL

-----------------------------------------------------------------------------
(* Safety *)

(* No interleaving of admissions, edits of the policy, failures and        *)
(* restarts puts more requests of a key in flight than the widest of its   *)
(* policies allows.                                                        *)
THEOREM ConcurrencyIsCapped == Spec => []ConcurrencyCap
  <1> DEFINE limits == {p.maxConcurrent : p \in Enabled}
  <1>a. \A m \in Largest(limits) : m \in Nat /\ \A p \in Enabled : p.maxConcurrent \in 1..m
    <2>1. \A p \in Enabled : p.maxConcurrent \in Nat
      BY QuotaAssumption DEF Enabled, ValidPolicy, PolicyType
    <2> QED
      BY <2>1 DEF Largest
  <1>1. Init => ConcurrencyCap
    <2> SUFFICES ASSUME Init, NEW k \in Keys, NEW m \in Largest(limits)
                 PROVE  Cardinality(OfKey(k, Unsettled)) <= m
      BY DEF ConcurrencyCap
    <2>1. OfKey(k, Unsettled) = {}
      BY DEF Init, OfKey, Unsettled, NoReservation
    <2> QED
      BY <1>a, <2>1, FS_EmptySet
  <1>2. Accounting /\ Accounting' /\ ConcurrencyCap /\ [Next]_vars => ConcurrencyCap'
    <2> SUFFICES ASSUME Accounting, Accounting', ConcurrencyCap, [Next]_vars,
                        NEW k \in Keys, NEW m \in Largest(limits)
                 PROVE  Cardinality(OfKey(k, Unsettled')) <= m
      BY DEF ConcurrencyCap, OfKey, Largest, Enabled, PolicyEnabled, PeriodEnabled
    <2> DEFINE Bound == state'[k].active <= m
    <2>1. m \in Nat
      BY <1>a
    <2>2. state'[k].active = Cardinality(OfKey(k, Unsettled'))
      BY DEF Accounting, ActiveMatchesReservations, OfKey
    <2>3. state[k].active = Cardinality(OfKey(k, Unsettled)) /\ state[k].active \in Nat
      BY DEF Accounting, ActiveMatchesReservations, TypeOK
    <2>4. state[k].active <= m
      BY <2>3 DEF ConcurrencyCap
    <2>5. ASSUME NEW r \in Requests, Admit(r) PROVE Bound
      <3> DEFINE p == lease[r].policy
      <3>1. p \in Enabled
        BY <2>5 DEF Accounting, TypeOK, LeaseType, Admit, Enabled
      <3>2. ~ConcurrencyRefuses(p, KeyOf[r])
        BY <2>5 DEF Admit
      <3>3. state'[k].active = IF k = KeyOf[r] THEN state[k].active + 1 ELSE state[k].active
        BY <2>5 DEF Admit, Grant, Accounting, TypeOK
      <3>4. p.maxConcurrent \in 1..m
        BY <1>a, <3>1
      <3>5. k = KeyOf[r] => state[k].active < p.maxConcurrent
        BY <2>3, <3>2, <3>4 DEF ConcurrencyRefuses
      <3> HIDE DEF p
      <3> QED
        BY <2>1, <2>3, <2>4, <3>3, <3>4, <3>5
    <2>6. ASSUME NEW C \in SUBSET Requests, NEW D \in SUBSET Requests,
                 Settle(C, D) \/ UNCHANGED durable
          PROVE  Bound
      <3>1. CASE Settle(C, D)
        <4>1. Cardinality(OfKey(k, C \cup D)) \in Nat
          BY FiniteRequests DEF OfKey
        <4>2. state'[k].active = state[k].active - Cardinality(OfKey(k, C \cup D))
          BY <3>1 DEF Settle, Accounting, TypeOK
        <4> QED
          BY <2>1, <2>3, <2>4, <4>1, <4>2
      <3>2. CASE UNCHANGED durable
        BY <2>4, <3>2 DEF durable
      <3> QED
        BY <2>6, <3>1, <3>2
    <2>7. ASSUME state' = state PROVE Bound
      BY <2>4, <2>7
    <2>8. ASSUME NEW r \in Requests, ReconcileApply(r) PROVE Bound
      <3>1. {r} \in SUBSET Requests /\ {} \in SUBSET Requests
        OBVIOUS
      <3>2. Settle({r}, {}) \/ UNCHANGED durable
        BY <2>8 DEF ReconcileApply
      <3> QED
        BY <2>6, <3>1, <3>2
    <2>9. ASSUME NEW r \in Requests, EndHandler(r) PROVE Bound
      <3>1. {r} \in SUBSET Requests /\ {} \in SUBSET Requests
        OBVIOUS
      <3>2. Settle({}, {r}) \/ UNCHANGED durable
        BY <2>9 DEF EndHandler
      <3> QED
        BY <2>6, <3>1, <3>2
    <2>10. ASSUME Boot PROVE Bound
      <3>1. With("finalizing") \in SUBSET Requests /\ Recoverable(owner + 1) \in SUBSET Requests
        BY DEF With, Recoverable
      <3>2. Settle(With("finalizing"), Recoverable(owner + 1))
        BY <2>10 DEF Boot
      <3> QED
        BY <2>6, <3>1, <3>2
    <2>11. ASSUME NEW r \in Requests,
                  \/ Arrive(r) \/ AdmitUnlimited(r) \/ RefuseRate(r) \/ RefuseOther(r)
                  \/ AbandonAdmission(r) \/ ReconcileBegin(r) \/ ReconcileBeginFails(r)
                  \/ ReconcileApplyFails(r) \/ EndHandlerFails(r)
           PROVE Bound
      BY <2>7, <2>11 DEF Arrive, AdmitUnlimited, RefuseRate, RefuseOther, AbandonAdmission,
           ReconcileBegin, ReconcileBeginFails, ReconcileApplyFails, EndHandlerFails, durable
    <2>12. ASSUME (\E j \in Keys : EditPolicy(j)) \/ Crash \/ Tick \/ UNCHANGED vars PROVE Bound
      BY <2>7, <2>12 DEF EditPolicy, Crash, Tick, vars, durable
    <2>13. Bound
      BY <2>5, <2>8, <2>9, <2>10, <2>11, <2>12 DEF Next, Handler
    <2> QED
      BY <2>2, <2>13
  <1> QED
    BY <1>1, <1>2, QuotaAccounting, PTL DEF Spec

(* What a handler that has not settled yet has learnt, and the process a   *)
(* reservation is of.                                                      *)
Kept(r) ==
    /\ lease[r].pc \in {"idle", "admitting", "dispatched"} => learnt[r] = "nothing"
    /\ lease[r].pc = "ending" => lease[r].closed
    /\ reservation[r].owner <= owner
    /\ learnt[r] = "recorded" => reservation[r].status \in {"finalizing", "closed"}
    /\ learnt[r] = "unrecorded" =>
         \/ reservation[r].status = "pending"
         \/ (reservation[r].status = "released" /\ reservation[r].owner < owner)

(* A step that does not touch a request keeps what it learnt.              *)
LEMMA KeptElsewhere ==
    ASSUME TypeOK, NEW s \in Requests, Kept(s), owner' \in {owner, owner + 1},
           lease'[s] = lease[s], reservation'[s] = reservation[s], learnt'[s] = learnt[s]
    PROVE  Kept(s)'
  <1>1. owner \in Nat /\ reservation[s].owner \in Nat
    BY DEF TypeOK, ReservationType
  <1> QED
    BY <1>1 DEF Kept

(* A success on record is never given back.  One whose record failed keeps *)
(* its reservation while its process lives, and only a later process       *)
(* releases it (quotaLease.release, RecoverPending).                       *)
THEOREM SuccessIsKept == Spec => []SuccessKept
  <1> DEFINE K == \A r \in Requests : Kept(r)
  <1>1. Init => K
    BY DEF Init, Kept, NoLease, NoReservation
  <1>2. Accounting /\ K /\ [Next]_vars => K'
    <2> SUFFICES ASSUME Accounting, K, [Next]_vars
                 PROVE  K'
      OBVIOUS
    <2>a. TypeOK /\ HandlerInv /\ owner \in Nat
      BY DEF Accounting, TypeOK
    <2>b. ASSUME NEW r \in Requests, Kept(r)', owner' \in {owner, owner + 1},
                 \A s \in Requests \ {r} : /\ lease'[s] = lease[s] /\ reservation'[s] = reservation[s]
                                           /\ learnt'[s] = learnt[s]
          PROVE  K'
      <3>1. \A s \in Requests \ {r} : Kept(s)'
        BY <2>a, <2>b, KeptElsewhere
      <3> QED
        BY <2>b, <3>1
    <2>c. \A r \in Requests : reservation[r].owner \in Nat /\ reservation[r] \in ReservationType
      BY <2>a DEF TypeOK, ReservationType
    <2>1. ASSUME NEW r \in Requests, Arrive(r) \/ AdmitUnlimited(r) \/ RefuseRate(r)
                   \/ RefuseOther(r) \/ AbandonAdmission(r)
          PROVE  K'
      <3>1. reservation' = reservation /\ learnt' = learnt /\ owner' = owner
        BY <2>1 DEF Arrive, AdmitUnlimited, RefuseRate, RefuseOther, AbandonAdmission, durable
      <3>2. /\ lease'[r].pc \in {"admitting", "rateLimited", "ended"}
            /\ lease[r].pc \in {"idle", "admitting"}
            /\ \A s \in Requests \ {r} : lease'[s] = lease[s]
        <4>1. CASE Arrive(r)
          BY <2>a, <4>1 DEF Arrive, TypeOK, NoLease
        <4>2. CASE RefuseRate(r)
          BY <2>a, <4>2 DEF RefuseRate, TypeOK, LeaseType
        <4>3. CASE AdmitUnlimited(r) \/ RefuseOther(r) \/ AbandonAdmission(r)
          BY <2>a, <4>3 DEF AdmitUnlimited, RefuseOther, AbandonAdmission, TypeOK, NoLease
        <4> QED
          BY <2>1, <4>1, <4>2, <4>3
      <3>3. Kept(r)'
        BY <3>1, <3>2 DEF Kept
      <3> QED
        BY <2>b, <3>1, <3>2, <3>3
    <2>2. ASSUME NEW r \in Requests, Admit(r) PROVE K'
      <3>1. /\ lease'[r].pc = "dispatched" /\ lease[r].pc = "admitting"
            /\ reservation'[r].owner = owner /\ owner' = owner /\ learnt' = learnt
            /\ \A s \in Requests \ {r} : lease'[s] = lease[s] /\ reservation'[s] = reservation[s]
        BY <2>a, <2>2 DEF Admit, Grant, TypeOK, NoLease
      <3>2. Kept(r)'
        BY <2>a, <3>1 DEF Kept
      <3> QED
        BY <2>b, <3>1, <3>2
    <2>3. ASSUME NEW r \in Requests, ReconcileBegin(r) PROVE K'
      <3>1. reservation[r].status = "pending"
        BY <2>a, <2>3 DEF ReconcileBegin, HandlerInv
      <3>2. /\ reservation'[r].status = "finalizing" /\ reservation'[r].owner = reservation[r].owner
            /\ \A s \in Requests \ {r} : reservation'[s] = reservation[s]
        BY <2>a, <2>3, <3>1 DEF ReconcileBegin, BeginFinalization, TypeOK, ReservationType
      <3>3. /\ lease'[r].pc = "reconciling" /\ learnt'[r] = "recorded" /\ owner' = owner
            /\ \A s \in Requests \ {r} : lease'[s] = lease[s] /\ learnt'[s] = learnt[s]
        BY <2>a, <2>3 DEF ReconcileBegin, TypeOK, LeaseType
      <3>4. Kept(r)'
        BY <3>2, <3>3 DEF Kept
      <3> QED
        BY <2>b, <3>2, <3>3, <3>4
    <2>4. ASSUME NEW r \in Requests, ReconcileBeginFails(r) PROVE K'
      <3>1. reservation[r].status = "pending"
        BY <2>a, <2>4 DEF ReconcileBeginFails, HandlerInv
      <3>2. /\ lease'[r].pc = "ending" /\ lease'[r].closed /\ learnt'[r] = "unrecorded" /\ owner' = owner
            /\ reservation' = reservation
            /\ \A s \in Requests \ {r} : lease'[s] = lease[s] /\ learnt'[s] = learnt[s]
        BY <2>a, <2>4 DEF ReconcileBeginFails, TypeOK, LeaseType, durable
      <3>3. Kept(r)'
        BY <3>1, <3>2 DEF Kept
      <3> QED
        BY <2>b, <3>2, <3>3
    <2>5. ASSUME NEW r \in Requests, ReconcileApplyFails(r) \/ EndHandlerFails(r) PROVE K'
      <3>1. /\ lease'[r].pc = "ending" => lease'[r].closed
            /\ lease'[r].pc \in {"ending", "ended"}
            /\ reservation' = reservation /\ learnt' = learnt /\ owner' = owner
            /\ \A s \in Requests \ {r} : lease'[s] = lease[s]
        BY <2>a, <2>5 DEF ReconcileApplyFails, EndHandlerFails, TypeOK, LeaseType, durable, NoLease
      <3>2. Kept(r)'
        BY <3>1 DEF Kept
      <3> QED
        BY <2>b, <3>1, <3>2
    <2>6. ASSUME NEW r \in Requests, ReconcileApply(r) PROVE K'
      <3>1. /\ reservation'[r].status \in {"closed", reservation[r].status}
            /\ reservation'[r].status = "closed" \/ reservation'[r] = reservation[r]
            /\ reservation'[r].owner = reservation[r].owner
            /\ \A s \in Requests \ {r} : reservation'[s] = reservation[s]
        BY <2>a, <2>6 DEF ReconcileApply, Settle, durable, TypeOK, ReservationType
      <3>2. /\ lease'[r].pc = "ending" /\ lease'[r].closed /\ learnt' = learnt /\ owner' = owner
            /\ \A s \in Requests \ {r} : lease'[s] = lease[s]
        BY <2>a, <2>6 DEF ReconcileApply, TypeOK, LeaseType
      <3>3. learnt[r] # "unrecorded" \/ reservation'[r] = reservation[r]
        <4>1. reservation[r].status = "finalizing" => learnt[r] # "unrecorded"
          BY DEF Kept
        <4> QED
          BY <2>6, <4>1 DEF ReconcileApply, durable
      <3>4. Kept(r)'
        BY <3>1, <3>2, <3>3 DEF Kept
      <3> QED
        BY <2>b, <3>1, <3>2, <3>4
    <2>7. ASSUME NEW r \in Requests, EndHandler(r) PROVE K'
      <3>1. /\ lease'[r].pc = "ended" /\ learnt' = learnt /\ owner' = owner
            /\ \A s \in Requests \ {r} : lease'[s] = lease[s] /\ reservation'[s] = reservation[s]
            /\ reservation'[r].owner = reservation[r].owner
        BY <2>a, <2>7 DEF EndHandler, Settle, durable, TypeOK, ReservationType, NoLease
      <3>2. reservation'[r] = reservation[r] \/ learnt[r] = "nothing"
        BY <2>7 DEF EndHandler, MayRelease, durable, Kept
      <3>3. Kept(r)'
        BY <3>1, <3>2 DEF Kept
      <3> QED
        BY <2>b, <3>1, <3>3
    <2>8. ASSUME Crash PROVE K'
      <3>1. reservation' = reservation /\ learnt' = learnt /\ owner' = owner
        BY <2>8 DEF Crash, durable
      <3>2. \A s \in Requests : lease'[s] = lease[s] \/ lease'[s].pc = "ended"
        BY <2>a, <2>8 DEF Crash, NoLease
      <3> QED
        BY <3>1, <3>2 DEF Kept
    <2>9. ASSUME Boot PROVE K'
      <3>1. /\ lease' = lease /\ learnt' = learnt /\ owner' = owner + 1
            /\ Settle(With("finalizing"), Recoverable(owner + 1))
        BY <2>9 DEF Boot
      <3>2. ASSUME NEW s \in Requests PROVE Kept(s)'
        <4>1. CASE s \in With("finalizing")
          <5>1. reservation'[s].status = "closed" /\ reservation'[s].owner = reservation[s].owner
            BY <2>c, <3>1, <4>1 DEF Settle, ReservationType
          <5>2. learnt[s] # "unrecorded"
            BY <4>1 DEF Kept, With
          <5> QED
            BY <2>a, <2>c, <3>1, <5>1, <5>2 DEF Kept
        <4>2. CASE s \in Recoverable(owner + 1)
          <5>1. s \notin With("finalizing") /\ learnt[s] # "recorded"
            BY <4>2 DEF Recoverable, With, Kept
          <5>2. reservation'[s].status = "released" /\ reservation'[s].owner = reservation[s].owner
            BY <2>c, <3>1, <4>2, <5>1 DEF Settle, ReservationType
          <5> QED
            BY <2>a, <2>c, <3>1, <5>1, <5>2 DEF Kept
        <4>3. CASE s \notin With("finalizing") \cup Recoverable(owner + 1)
          BY <2>a, <3>1, <4>3, KeptElsewhere DEF Settle
        <4> QED
          BY <4>1, <4>2, <4>3
      <3> QED
        BY <3>2
    <2>10. ASSUME (\E k \in Keys : EditPolicy(k)) \/ Tick \/ UNCHANGED vars
           PROVE  K'
      BY <2>10 DEF EditPolicy, Tick, vars, durable, Kept
    <2> QED
      BY <2>1, <2>2, <2>3, <2>4, <2>5, <2>6, <2>7, <2>8, <2>9, <2>10 DEF Next, Handler
  <1>3. K => SuccessKept
    BY DEF Kept, SuccessKept
  <1> QED
    BY <1>1, <1>2, <1>3, QuotaAccounting, PTL DEF Spec

(* While a process serves, no reservation of an earlier process holds a    *)
(* slot.                                                                   *)
THEOREM RestartSettlesOldOwners == Spec => []OldOwnersSettled
  <1>1. Init => OldOwnersSettled
    BY DEF Init, OldOwnersSettled, Unsettled, NoReservation
  <1>2. TypeOK /\ OldOwnersSettled /\ [Next]_vars => OldOwnersSettled'
    <2> SUFFICES ASSUME TypeOK, OldOwnersSettled, [Next]_vars PROVE OldOwnersSettled'
      OBVIOUS
    <2>1. ASSUME NEW r \in Requests, Admit(r) PROVE OldOwnersSettled'
      <3>1. /\ reservation'[r].owner = owner /\ owner' = owner /\ up
            /\ \A s \in Requests \ {r} : reservation'[s] = reservation[s]
        BY <2>1 DEF Admit, Grant, TypeOK
      <3> QED
        BY <3>1 DEF OldOwnersSettled, Unsettled
    <2>2. ASSUME NEW r \in Requests, ReconcileBegin(r) PROVE OldOwnersSettled'
      <3>1. PICK usage \in Usages : BeginFinalization(r, usage)
        BY <2>2 DEF ReconcileBegin
      <3>2. \A s \in Requests : /\ reservation'[s].owner = reservation[s].owner
                                /\ s \in Unsettled' => s \in Unsettled
        BY <3>1 DEF BeginFinalization, TypeOK, ReservationType, Unsettled
      <3> QED
        BY <2>2, <3>2 DEF ReconcileBegin, OldOwnersSettled, Unsettled
    <2>3. ASSUME NEW C, NEW D, Settle(C, D) \/ UNCHANGED durable, NEW s \in Requests
          PROVE  /\ reservation'[s].owner = reservation[s].owner
                 /\ s \in Unsettled' => s \in Unsettled
      <3>1. CASE UNCHANGED durable
        BY <3>1 DEF durable, Unsettled
      <3>2. CASE Settle(C, D) /\ s \in C \cup D
        <4>1. reservation'[s].status \in {"closed", "released"}
              /\ reservation'[s].owner = reservation[s].owner
          BY <3>2 DEF Settle, TypeOK, ReservationType
        <4> QED
          BY <4>1 DEF Unsettled
      <3>3. CASE Settle(C, D) /\ s \notin C \cup D
        <4>1. reservation'[s] = reservation[s]
          BY <3>3 DEF Settle
        <4> QED
          BY <4>1 DEF Unsettled
      <3> QED
        BY <2>3, <3>1, <3>2, <3>3
    <2>4. ASSUME NEW r \in Requests, ReconcileApply(r) PROVE OldOwnersSettled'
      <3>1. Settle({r}, {}) \/ UNCHANGED durable
        BY <2>4 DEF ReconcileApply
      <3>2. \A s \in Requests : /\ reservation'[s].owner = reservation[s].owner
                                /\ s \in Unsettled' => s \in Unsettled
        BY <2>3, <3>1
      <3> QED
        BY <2>4, <3>2 DEF ReconcileApply, OldOwnersSettled, Unsettled
    <2>5. ASSUME NEW r \in Requests, EndHandler(r) PROVE OldOwnersSettled'
      <3>1. Settle({}, {r}) \/ UNCHANGED durable
        BY <2>5 DEF EndHandler
      <3>2. \A s \in Requests : /\ reservation'[s].owner = reservation[s].owner
                                /\ s \in Unsettled' => s \in Unsettled
        BY <2>3, <3>1
      <3> QED
        BY <2>5, <3>2 DEF EndHandler, OldOwnersSettled, Unsettled
    <2>6. ASSUME Boot PROVE OldOwnersSettled'
      <3> DEFINE C == With("finalizing")
                 D == Recoverable(owner + 1)
      <3>1. Settle(C, D) /\ owner' = owner + 1
        BY <2>6 DEF Boot
      <3>2. ASSUME NEW s \in Unsettled', s \notin C \cup D
            PROVE  reservation'[s].owner = owner'
        <4>1. reservation'[s] = reservation[s]
          BY <3>1, <3>2 DEF Settle, Unsettled
        <4>2. reservation[s].status = "pending"
          BY <3>2, <4>1 DEF Unsettled, With
        <4> QED
          BY <3>1, <3>2, <4>1, <4>2 DEF Unsettled, With, Recoverable
      <3>3. \A s \in C \cup D : s \notin Unsettled'
        BY <3>1 DEF Settle, TypeOK, ReservationType, Unsettled
      <3> QED
        BY <3>2, <3>3 DEF OldOwnersSettled
    <2>7. ASSUME Crash PROVE OldOwnersSettled'
      BY <2>7 DEF Crash, OldOwnersSettled
    <2>8. ASSUME owner' = owner, up' = up, reservation' = reservation PROVE OldOwnersSettled'
      BY <2>8 DEF OldOwnersSettled, Unsettled
    <2>9. ASSUME NEW r \in Requests,
                 \/ Arrive(r) \/ AdmitUnlimited(r) \/ RefuseRate(r) \/ RefuseOther(r)
                 \/ AbandonAdmission(r) \/ ReconcileBeginFails(r)
                 \/ ReconcileApplyFails(r) \/ EndHandlerFails(r)
          PROVE OldOwnersSettled'
      BY <2>8, <2>9 DEF Arrive, AdmitUnlimited, RefuseRate, RefuseOther, AbandonAdmission,
           ReconcileBeginFails, ReconcileApplyFails, EndHandlerFails, durable
    <2>10. ASSUME (\E k \in Keys : EditPolicy(k)) \/ Tick \/ UNCHANGED vars
           PROVE OldOwnersSettled'
      BY <2>8, <2>10 DEF EditPolicy, Tick, vars, durable
    <2> QED
      BY <2>1, <2>2, <2>4, <2>5, <2>6, <2>7, <2>9, <2>10 DEF Next, Handler
  <1> QED
    BY <1>1, <1>2, QuotaTypes, PTL DEF Spec

(* Settling is final: no step of any handler or of a restart changes a     *)
(* settled reservation, or what a success on record will be charged.       *)
THEOREM SettledStaysSettled == Spec => SettlingIsFinal
  <1> DEFINE Final(q) == /\ reservation[q].status \in {"closed", "released"}
                             => reservation'[q] = reservation[q]
                         /\ reservation[q].status = "finalizing" =>
                             /\ reservation'[q].status \in {"finalizing", "closed"}
                             /\ reservation'[q].actual = reservation[q].actual
  <1>1. Accounting /\ [Next]_vars => \A q \in Requests : Final(q)
    <2> SUFFICES ASSUME Accounting, [Next]_vars, NEW q \in Requests PROVE Final(q)
      OBVIOUS
    <2>a. TypeOK /\ HandlerInv
      BY DEF Accounting
    <2>1. ASSUME reservation'[q] = reservation[q] PROVE Final(q)
      BY <2>1
    <2>2. ASSUME NEW C, NEW D, Settle(C, D) \/ UNCHANGED durable,
                 q \in C => reservation[q].status = "finalizing",
                 q \in D => reservation[q].status = "pending"
          PROVE  Final(q)
      <3>1. CASE UNCHANGED durable
        BY <2>1, <3>1 DEF durable
      <3>2. CASE Settle(C, D) /\ q \notin C \cup D
        BY <2>1, <3>2 DEF Settle
      <3>3. CASE Settle(C, D) /\ q \in C
        BY <2>a, <2>2, <3>3 DEF Settle, TypeOK, ReservationType
      <3>4. CASE Settle(C, D) /\ q \in D
        BY <2>2, <3>4
      <3> QED
        BY <2>2, <3>1, <3>2, <3>3, <3>4
    <2>3. ASSUME NEW r \in Requests, Admit(r) PROVE Final(q)
      <3>1. reservation[r].status = "none"
        BY <2>a, <2>3 DEF Admit, HandlerInv
      <3>2. q # r => reservation'[q] = reservation[q]
        BY <2>a, <2>3 DEF Admit, Grant, TypeOK
      <3> QED
        BY <2>1, <3>1, <3>2
    <2>4. ASSUME NEW r \in Requests, ReconcileBegin(r) PROVE Final(q)
      <3>1. reservation[r].status = "pending"
        BY <2>a, <2>4 DEF ReconcileBegin, HandlerInv
      <3>2. q # r => reservation'[q] = reservation[q]
        BY <2>a, <2>4 DEF ReconcileBegin, BeginFinalization, TypeOK
      <3> QED
        BY <2>1, <3>1, <3>2
    <2>5. ASSUME NEW r \in Requests, ReconcileApply(r) PROVE Final(q)
      <3>1. CASE reservation[r].status = "finalizing"
        BY <2>2, <2>5, <3>1 DEF ReconcileApply
      <3>2. CASE reservation[r].status # "finalizing"
        BY <2>1, <2>5, <3>2 DEF ReconcileApply, durable
      <3> QED
        BY <3>1, <3>2
    <2>6. ASSUME NEW r \in Requests, EndHandler(r) PROVE Final(q)
      <3>1. CASE MayRelease(r) /\ reservation[r].status = "pending"
        BY <2>2, <2>6, <3>1 DEF EndHandler
      <3>2. CASE ~(MayRelease(r) /\ reservation[r].status = "pending")
        BY <2>1, <2>6, <3>2 DEF EndHandler, durable
      <3> QED
        BY <3>1, <3>2
    <2>7. ASSUME Boot PROVE Final(q)
      <3> DEFINE C == With("finalizing")
                 D == Recoverable(owner + 1)
      <3>1. /\ Settle(C, D)
            /\ q \in C => reservation[q].status = "finalizing"
            /\ q \in D => reservation[q].status = "pending"
        BY <2>7 DEF Boot, With, Recoverable
      <3> HIDE DEF C, D
      <3> QED
        BY <2>2, <3>1
    <2>8. ASSUME NEW r \in Requests,
                 \/ Arrive(r) \/ AdmitUnlimited(r) \/ RefuseRate(r) \/ RefuseOther(r)
                 \/ AbandonAdmission(r) \/ ReconcileBeginFails(r)
                 \/ ReconcileApplyFails(r) \/ EndHandlerFails(r)
          PROVE Final(q)
      BY <2>1, <2>8 DEF Arrive, AdmitUnlimited, RefuseRate, RefuseOther, AbandonAdmission,
           ReconcileBeginFails, ReconcileApplyFails, EndHandlerFails, durable
    <2>9. ASSUME (\E k \in Keys : EditPolicy(k)) \/ Crash \/ Tick \/ UNCHANGED vars
          PROVE Final(q)
      BY <2>1, <2>9 DEF EditPolicy, Crash, Tick, vars, durable
    <2> QED
      BY <2>3, <2>4, <2>5, <2>6, <2>7, <2>8, <2>9 DEF Next, Handler
  <1>2. Accounting /\ [Next]_vars =>
          [\A r \in Requests :
             /\ reservation[r].status \in {"closed", "released"}
                  => reservation'[r] = reservation[r]
             /\ reservation[r].status = "finalizing" =>
                  /\ reservation'[r].status \in {"finalizing", "closed"}
                  /\ reservation'[r].actual = reservation[r].actual]_vars
    BY <1>1
  <1> QED
    BY <1>2, QuotaAccounting, PTL DEF Spec, SettlingIsFinal

-----------------------------------------------------------------------------
(* Books *)

(* What a request is charged in cost is what it reserved. *)
CostIsFixed ==
    \A r \in Requests : reservation[r].status \in {"finalizing", "closed"} =>
        reservation[r].actual["cost"] = reservation[r].requested["cost"]

(* The inductive invariant of the period buckets. *)
BookInv == BucketsMatchReservations /\ CostIsFixed

(* The amounts of the reservations are natural numbers. *)
LEMMA AmountsTyped ==
    ASSUME TypeOK, NEW d \in Dims
    PROVE  Requested(d) \in [Requests -> Nat] /\ Actual(d) \in [Requests -> Nat]
  BY DEF TypeOK, ReservationType, Amounts, Requested, Actual

(* To be in a bucket is to be a request of its key that was booked there. *)
LEMMA InBucketOf ==
    ASSUME NEW S \in SUBSET Requests, NEW k, NEW b
    PROVE  /\ InBucket(k, b, S) \in SUBSET Requests
           /\ InBucket(k, b, S) \in SUBSET S
           /\ \A T \in SUBSET S : InBucket(k, b, T) \in SUBSET InBucket(k, b, S)
           /\ \A T \in SUBSET Requests :
                /\ InBucket(k, b, S \cup T) = InBucket(k, b, S) \cup InBucket(k, b, T)
                /\ InBucket(k, b, S \ T) = InBucket(k, b, S) \ InBucket(k, b, T)
                /\ S \cap T = {} => InBucket(k, b, S) \cap InBucket(k, b, T) = {}
  BY DEF InBucket, OfKey

(* The admission transaction adds what the request asked for to the bucket *)
(* of its period, and to no other.                                         *)
LEMMA GrantBooks ==
    ASSUME TypeOK, TypeOK', BucketsMatchReservations, NEW r \in Requests,
           NEW p \in Policies, NEW ask \in Amounts, NEW now \in 0..clock, NEW B,
           Grant(r, p, ask, now, B), reservation[r].status = "none"
    PROVE  BucketsMatchReservations'
  <1> SUFFICES ASSUME NEW k \in Keys, NEW b \in Periods
      PROVE /\ buckets'[k][b].reservedRequests = Cardinality(InBucket(k, b, Unsettled)')
            /\ buckets'[k][b].actualRequests = Cardinality(InBucket(k, b, With("closed"))')
            /\ \A d \in Dims :
                 /\ buckets'[k][b].reserved[d] = Sum(InBucket(k, b, Unsettled)', Requested(d)')
                 /\ buckets'[k][b].actual[d] = Sum(InBucket(k, b, With("closed"))', Actual(d)')
    BY DEF BucketsMatchReservations, Sum
  <1> DEFINE open == InBucket(k, b, Unsettled)
             done == InBucket(k, b, With("closed"))
             mine == k = KeyOf[r] /\ b = PeriodStart(p, now)
             row == buckets[k][b]
  <1>1. /\ reservation'[r] = [status |-> "pending", owner |-> owner,
                              bucket |-> PeriodStart(p, now),
                              requested |-> ask, actual |-> NoAmounts]
        /\ \A s \in Requests \ {r} : reservation'[s] = reservation[s]
    BY DEF Grant, TypeOK
  <1>2. r \notin open /\ r \notin done
    BY DEF InBucket, OfKey, Unsettled, With
  <1>3. open \in SUBSET Requests /\ done \in SUBSET Requests
    BY DEF InBucket, OfKey, Unsettled, With
  <1>4. done' = done
    BY <1>1 DEF InBucket, OfKey, With
  <1>5. open' = IF mine THEN open \cup {r} ELSE open
    BY <1>1 DEF InBucket, OfKey, Unsettled
  <1>6. /\ row.reservedRequests = Cardinality(open)
        /\ row.actualRequests = Cardinality(done)
        /\ \A d \in Dims : /\ row.reserved[d] = Sum(open, Requested(d))
                           /\ row.actual[d] = Sum(done, Actual(d))
    BY DEF BucketsMatchReservations
  <1>7. buckets'[k][b] = IF mine THEN Reserved(row, ask) ELSE row
    <2>1. b # NoBucket
      BY QuotaAssumption DEF Periods, NoBucket
    <2> QED
      BY <2>1 DEF Grant, TypeOK
  <1>8. row \in BucketType
    BY DEF TypeOK
  <1>9. ASSUME NEW d \in Dims
        PROVE  /\ Sum(open, Requested(d)') = Sum(open, Requested(d))
               /\ Sum(done, Actual(d)') = Sum(done, Actual(d))
               /\ Sum({r}, Requested(d)') = ask[d]
               /\ Requested(d)' \in [Requests -> Nat]
    <2>1. /\ \A s \in open : Requested(d)'[s] = Requested(d)[s]
          /\ \A s \in done : Actual(d)'[s] = Actual(d)[s]
          /\ Requested(d)'[r] = ask[d]
      BY <1>1, <1>2, <1>3 DEF Requested, Actual
    <2>2. Requested(d)' \in [Requests -> Nat]
      BY DEF TypeOK, ReservationType, Amounts, Requested
    <2>3. Sum({r}, Requested(d)') = Requested(d)'[r]
      BY <2>2, SumOne
    <2>4. Sum(open, Requested(d)') = Sum(open, Requested(d))
      BY <2>1, SumSame
    <2>5. Sum(done, Actual(d)') = Sum(done, Actual(d))
      BY <2>1, SumSame
    <2> QED
      BY <2>1, <2>2, <2>3, <2>4, <2>5
  <1>10. CASE ~mine
    <2>1. open' = open /\ buckets'[k][b] = row
      BY <1>5, <1>7, <1>10
    <2> HIDE DEF open, done, row, mine
    <2> QED
      BY <1>4, <1>6, <1>9, <2>1 DEF open, done
  <1>11. CASE mine
    <2>1. open' = open \cup {r} /\ buckets'[k][b] = Reserved(row, ask)
      BY <1>5, <1>7, <1>11
    <2>2. Cardinality(open \cup {r}) = Cardinality(open) + 1
      BY <1>2, <1>3, CountAdd
    <2>3. ASSUME NEW d \in Dims
          PROVE  Sum(open \cup {r}, Requested(d)') = Sum(open, Requested(d)) + ask[d]
      <3>1. {r} \in SUBSET Requests /\ open \cap {r} = {}
        BY <1>2
      <3>2. Sum(open \cup {r}, Requested(d)') = Sum(open, Requested(d)') + Sum({r}, Requested(d)')
        BY <1>3, <1>9, <3>1, SumUnion
      <3> QED
        BY <1>9, <3>2
    <2>4. /\ Reserved(row, ask).reservedRequests = row.reservedRequests + 1
          /\ Reserved(row, ask).actualRequests = row.actualRequests
          /\ \A d \in Dims : /\ Reserved(row, ask).reserved[d] = row.reserved[d] + ask[d]
                             /\ Reserved(row, ask).actual[d] = row.actual[d]
      BY <1>8 DEF Reserved, BucketType
    <2> HIDE DEF open, done, row, mine
    <2> QED
      BY <1>4, <1>6, <1>9, <2>1, <2>2, <2>3, <2>4 DEF open, done
  <1> QED
    BY <1>10, <1>11

(* Settling takes what the settled reservations asked for out of their     *)
(* buckets, and adds what the charged ones used.                           *)
LEMMA SettleBooks ==
    ASSUME TypeOK, BucketsMatchReservations, NEW C \in SUBSET Unsettled,
           NEW D \in SUBSET Unsettled, C \cap D = {}, Settle(C, D)
    PROVE  BucketsMatchReservations'
  <1> SUFFICES ASSUME NEW k \in Keys, NEW b \in Periods
      PROVE /\ buckets'[k][b].reservedRequests = Cardinality(InBucket(k, b, Unsettled)')
            /\ buckets'[k][b].actualRequests = Cardinality(InBucket(k, b, With("closed"))')
            /\ \A d \in Dims :
                 /\ buckets'[k][b].reserved[d] = Sum(InBucket(k, b, Unsettled)', Requested(d)')
                 /\ buckets'[k][b].actual[d] = Sum(InBucket(k, b, With("closed"))', Actual(d)')
    BY DEF BucketsMatchReservations, Sum
  <1> DEFINE open == InBucket(k, b, Unsettled)
             done == InBucket(k, b, With("closed"))
             out == InBucket(k, b, C \cup D)
             in == InBucket(k, b, C)
             row == buckets[k][b]
  <1>1. \A s \in Requests :
          /\ reservation'[s].bucket = reservation[s].bucket
          /\ reservation'[s].requested = reservation[s].requested
          /\ s \notin D => reservation'[s].actual = reservation[s].actual
    BY DEF Settle, TypeOK, ReservationType
  <1>2. /\ Unsettled' = Unsettled \ (C \cup D)
        /\ With("closed")' = With("closed") \cup C
    BY DEF Settle, TypeOK, ReservationType, Unsettled, With
  <1>3. /\ C \in SUBSET Requests /\ C \cup D \in SUBSET Unsettled
        /\ Unsettled \in SUBSET Requests /\ With("closed") \in SUBSET Requests
        /\ With("closed") \cap (C \cup D) = {}
    BY DEF Unsettled, With
  <1>4. /\ open \in SUBSET Requests /\ done \in SUBSET Requests
        /\ out \in SUBSET open /\ in \in SUBSET Requests
        /\ done \cap in = {} /\ done \cap D = {} /\ in \cap D = {}
    BY <1>3 DEF InBucket, OfKey
  <1>5. open' = open \ out /\ done' = done \cup in
    BY <1>1, <1>2, <1>3 DEF InBucket, OfKey
  <1>6. /\ row.reservedRequests = Cardinality(open)
        /\ row.actualRequests = Cardinality(done)
        /\ \A d \in Dims : /\ row.reserved[d] = Sum(open, Requested(d))
                           /\ row.actual[d] = Sum(done, Actual(d))
    BY DEF BucketsMatchReservations
  <1>7. /\ buckets'[k][b].reservedRequests = row.reservedRequests - Cardinality(out)
        /\ buckets'[k][b].actualRequests = row.actualRequests + Cardinality(in)
        /\ \A d \in Dims :
             /\ buckets'[k][b].reserved[d] = row.reserved[d] - Sum(out, Requested(d))
             /\ buckets'[k][b].actual[d] = row.actual[d] + Sum(in, Actual(d))
    BY DEF Settle, Moved
  <1>8. Cardinality(open \ out) = Cardinality(open) - Cardinality(out)
    BY <1>4, CountDifference
  <1>9. Cardinality(done \cup in) = Cardinality(done) + Cardinality(in)
    BY <1>3, <1>4, CountUnion
  <1>10. ASSUME NEW d \in Dims
         PROVE  /\ Sum(open \ out, Requested(d)') = Sum(open, Requested(d)) - Sum(out, Requested(d))
                /\ Sum(done \cup in, Actual(d)') = Sum(done, Actual(d)) + Sum(in, Actual(d))
    <2>1. \A s \in Requests : Requested(d)'[s] = Requested(d)[s]
      BY <1>1 DEF Requested
    <2>2. \A s \in done \cup in : Actual(d)'[s] = Actual(d)[s]
      BY <1>1, <1>4 DEF Actual
    <2>3. Requested(d) \in [Requests -> Nat] /\ Actual(d) \in [Requests -> Nat]
      BY AmountsTyped
    <2>4. Sum(open \ out, Requested(d)') = Sum(open \ out, Requested(d))
      BY <1>4, <2>1, SumSame
    <2>5. Sum(done \cup in, Actual(d)') = Sum(done \cup in, Actual(d))
      BY <2>2, SumSame
    <2>6. Sum(open \ out, Requested(d)) = Sum(open, Requested(d)) - Sum(out, Requested(d))
      BY <1>4, <2>3, SumDifference
    <2>7. Sum(done \cup in, Actual(d)) = Sum(done, Actual(d)) + Sum(in, Actual(d))
      BY <1>4, <2>3, SumUnion
    <2> QED
      BY <2>4, <2>5, <2>6, <2>7
  <1> HIDE DEF open, done, out, in, row
  <1> QED
    BY <1>5, <1>6, <1>7, <1>8, <1>9, <1>10 DEF open, done

(* Recording a success moves nothing: the request is still open, and its   *)
(* reservation says what will be charged, at the cost reserved.            *)
LEMMA BeginBooks ==
    ASSUME TypeOK, BucketsMatchReservations, NEW r \in Requests, NEW usage \in Usages,
           reservation[r].status = "pending", BeginFinalization(r, usage), buckets' = buckets
    PROVE  /\ BucketsMatchReservations'
           /\ reservation'[r].actual["cost"] = reservation'[r].requested["cost"]
  <1>1. /\ reservation'[r] = [reservation[r] EXCEPT !.status = "finalizing",
                                                    !.actual = Charge(r, usage)]
        /\ \A s \in Requests \ {r} : reservation'[s] = reservation[s]
    BY DEF BeginFinalization, TypeOK
  <1>2. /\ reservation'[r].status = "finalizing"
        /\ reservation'[r].bucket = reservation[r].bucket
        /\ reservation'[r].requested = reservation[r].requested
        /\ reservation'[r].actual = Charge(r, usage)
    BY <1>1 DEF TypeOK, ReservationType
  <1>3. Charge(r, usage)["cost"] = reservation[r].requested["cost"]
    BY DEF Charge, Usages, Dims
  <1>4. BucketsMatchReservations'
    <2> SUFFICES ASSUME NEW k \in Keys, NEW b \in Periods
        PROVE /\ buckets'[k][b].reservedRequests = Cardinality(InBucket(k, b, Unsettled)')
              /\ buckets'[k][b].actualRequests = Cardinality(InBucket(k, b, With("closed"))')
              /\ \A d \in Dims :
                   /\ buckets'[k][b].reserved[d] = Sum(InBucket(k, b, Unsettled)', Requested(d)')
                   /\ buckets'[k][b].actual[d] = Sum(InBucket(k, b, With("closed"))', Actual(d)')
      BY DEF BucketsMatchReservations, Sum
    <2> DEFINE open == InBucket(k, b, Unsettled)
               done == InBucket(k, b, With("closed"))
    <2>1. open' = open /\ done' = done
      <3>1. \A s \in Requests :
              /\ reservation'[s].bucket = reservation[s].bucket
              /\ (reservation'[s].status \in {"pending", "finalizing"})
                   <=> (reservation[s].status \in {"pending", "finalizing"})
              /\ (reservation'[s].status = "closed") <=> (reservation[s].status = "closed")
        BY <1>1, <1>2
      <3> QED
        BY <3>1 DEF InBucket, OfKey, Unsettled, With
    <2>2. ASSUME NEW d \in Dims
          PROVE  /\ Sum(open, Requested(d)') = Sum(open, Requested(d))
                 /\ Sum(done, Actual(d)') = Sum(done, Actual(d))
      <3>1. \A s \in open : Requested(d)'[s] = Requested(d)[s]
        BY <1>1, <1>2 DEF Requested, InBucket, OfKey, Unsettled
      <3>2. \A s \in done : Actual(d)'[s] = Actual(d)[s]
        BY <1>1 DEF Actual, InBucket, OfKey, With
      <3> QED
        BY <3>1, <3>2, SumSame
    <2>3. /\ buckets[k][b].reservedRequests = Cardinality(open)
          /\ buckets[k][b].actualRequests = Cardinality(done)
          /\ \A d \in Dims : /\ buckets[k][b].reserved[d] = Sum(open, Requested(d))
                             /\ buckets[k][b].actual[d] = Sum(done, Actual(d))
      BY DEF BucketsMatchReservations
    <2> HIDE DEF open, done
    <2> QED
      BY <2>1, <2>2, <2>3 DEF open, done
  <1> QED
    BY <1>2, <1>3, <1>4

(* A step that leaves buckets and reservations alone keeps the books. *)
LEMMA BooksKept ==
    ASSUME BookInv, buckets' = buckets, reservation' = reservation
    PROVE  BookInv'
  <1>1. CostIsFixed'
    BY DEF BookInv, CostIsFixed
  <1>2. BucketsMatchReservations'
    <2> SUFFICES ASSUME NEW k \in Keys, NEW b \in Periods
        PROVE /\ buckets'[k][b].reservedRequests = Cardinality(InBucket(k, b, Unsettled)')
              /\ buckets'[k][b].actualRequests = Cardinality(InBucket(k, b, With("closed"))')
              /\ \A d \in Dims :
                   /\ buckets'[k][b].reserved[d] = Sum(InBucket(k, b, Unsettled)', Requested(d)')
                   /\ buckets'[k][b].actual[d] = Sum(InBucket(k, b, With("closed"))', Actual(d)')
      BY DEF BucketsMatchReservations, Sum
    <2>1. /\ InBucket(k, b, Unsettled)' = InBucket(k, b, Unsettled)
          /\ InBucket(k, b, With("closed"))' = InBucket(k, b, With("closed"))
      BY DEF InBucket, OfKey, Unsettled, With
    <2>2. \A d \in Dims : Requested(d)' = Requested(d) /\ Actual(d)' = Actual(d)
      BY DEF Requested, Actual
    <2> QED
      BY <2>1, <2>2 DEF BookInv, BucketsMatchReservations
  <1> QED
    BY <1>1, <1>2 DEF BookInv

(* Settling keeps the books, whatever finalizing reservations it charges   *)
(* and pending ones it drops.                                              *)
LEMMA SettleKeepsBooks ==
    ASSUME TypeOK, BookInv, NEW C \in SUBSET With("finalizing"),
           NEW D \in SUBSET With("pending"), Settle(C, D) \/ UNCHANGED durable
    PROVE  BookInv'
  <1>1. CASE UNCHANGED durable
    BY <1>1, BooksKept DEF durable
  <1>2. CASE Settle(C, D)
    <2>1. C \in SUBSET Unsettled /\ D \in SUBSET Unsettled /\ C \cap D = {}
      BY DEF With, Unsettled
    <2>2. BucketsMatchReservations'
      BY <1>2, <2>1, SettleBooks DEF BookInv
    <2>3. CostIsFixed'
      <3> SUFFICES ASSUME NEW r \in Requests, reservation'[r].status \in {"finalizing", "closed"}
                   PROVE  reservation'[r].actual["cost"] = reservation'[r].requested["cost"]
        BY DEF CostIsFixed
      <3>1. r \notin D
        BY <1>2, <2>1 DEF Settle, TypeOK, ReservationType
      <3>2. /\ reservation'[r].actual = reservation[r].actual
            /\ reservation'[r].requested = reservation[r].requested
            /\ reservation[r].status \in {"finalizing", "closed"}
        <4>1. CASE r \in C
          BY <1>2, <4>1 DEF Settle, TypeOK, ReservationType, With
        <4>2. CASE r \notin C
          <5>1. reservation'[r] = reservation[r]
            BY <1>2, <3>1, <4>2 DEF Settle
          <5> QED
            BY <5>1
        <4> QED
          BY <4>1, <4>2
      <3> QED
        BY <3>2 DEF BookInv, CostIsFixed
    <2> QED
      BY <2>2, <2>3 DEF BookInv
  <1> QED
    BY <1>1, <1>2

LEMMA BooksInit == Init => BookInv
  <1> SUFFICES ASSUME Init PROVE BookInv
    OBVIOUS
  <1>1. CostIsFixed
    BY DEF Init, CostIsFixed, NoReservation
  <1>2. \A k \in Keys, b \in Periods : /\ InBucket(k, b, Unsettled) = {}
                                       /\ InBucket(k, b, With("closed")) = {}
    BY DEF Init, InBucket, OfKey, Unsettled, With, NoReservation
  <1>3. \A k \in Keys, b \in Periods :
          /\ buckets[k][b].reservedRequests = 0 /\ buckets[k][b].actualRequests = 0
          /\ \A d \in Dims : buckets[k][b].reserved[d] = 0 /\ buckets[k][b].actual[d] = 0
    BY DEF Init, EmptyBucket, NoAmounts
  <1>4. Cardinality({}) = 0
    BY FS_EmptySet
  <1> QED
    BY <1>1, <1>2, <1>3, <1>4, SumNone DEF BookInv, BucketsMatchReservations

LEMMA BooksStep == Accounting /\ Accounting' /\ BookInv /\ [Next]_vars => BookInv'
  <1> SUFFICES ASSUME Accounting, Accounting', BookInv, [Next]_vars PROVE BookInv'
    OBVIOUS
  <1>a. TypeOK /\ TypeOK' /\ HandlerInv
    BY DEF Accounting
  <1>1. ASSUME NEW r \in Requests, Admit(r) PROVE BookInv'
    <2>1. PICK now \in lease[r].at..clock : \E B \in Batches(KeyOf[r], now) :
            Grant(r, lease[r].policy, lease[r].ask, now, B)
      BY <1>1 DEF Admit
    <2>2. PICK B \in Batches(KeyOf[r], now) : Grant(r, lease[r].policy, lease[r].ask, now, B)
      BY <2>1
    <2>3. /\ lease[r].policy \in Policies /\ lease[r].ask \in Amounts /\ now \in 0..clock
          /\ reservation[r].status = "none"
      BY <1>1, <1>a, QuotaAssumption DEF Admit, HandlerInv, TypeOK, LeaseType
    <2>4. BucketsMatchReservations'
      BY <1>a, <2>2, <2>3, GrantBooks DEF BookInv
    <2>5. /\ reservation'[r].status = "pending"
          /\ \A s \in Requests \ {r} : reservation'[s] = reservation[s]
      BY <1>a, <2>2 DEF Grant, TypeOK
    <2>6. CostIsFixed'
      BY <2>5 DEF BookInv, CostIsFixed
    <2> QED
      BY <2>4, <2>6 DEF BookInv
  <1>2. ASSUME NEW r \in Requests, ReconcileBegin(r) PROVE BookInv'
    <2>1. PICK usage \in Usages : BeginFinalization(r, usage)
      BY <1>2 DEF ReconcileBegin
    <2>2. reservation[r].status = "pending" /\ buckets' = buckets
      BY <1>2, <1>a DEF ReconcileBegin, HandlerInv
    <2>3. /\ BucketsMatchReservations'
          /\ reservation'[r].actual["cost"] = reservation'[r].requested["cost"]
      BY <1>a, <2>1, <2>2, BeginBooks DEF BookInv
    <2>4. \A s \in Requests \ {r} : reservation'[s] = reservation[s]
      BY <1>a, <2>1 DEF BeginFinalization, TypeOK
    <2> QED
      BY <2>3, <2>4 DEF BookInv, CostIsFixed
  <1>3. ASSUME NEW r \in Requests, ReconcileApply(r) PROVE BookInv'
    <2>1. /\ {r} \in SUBSET With("finalizing") /\ {} \in SUBSET With("pending")
          /\ Settle({r}, {}) \/ UNCHANGED durable
      BY <1>3, <1>a DEF ReconcileApply, HandlerInv, With
    <2> QED
      BY <1>a, <2>1, SettleKeepsBooks
  <1>4. ASSUME NEW r \in Requests, EndHandler(r) PROVE BookInv'
    <2>1. CASE MayRelease(r) /\ reservation[r].status = "pending"
      <3>1. /\ {} \in SUBSET With("finalizing") /\ {r} \in SUBSET With("pending")
            /\ Settle({}, {r})
        BY <1>4, <2>1 DEF EndHandler, With
      <3> QED
        BY <1>a, <3>1, SettleKeepsBooks
    <2>2. CASE ~(MayRelease(r) /\ reservation[r].status = "pending")
      BY <1>4, <2>2, BooksKept DEF EndHandler, durable
    <2> QED
      BY <2>1, <2>2
  <1>5. ASSUME Boot PROVE BookInv'
    <2> DEFINE C == With("finalizing")
               D == Recoverable(owner + 1)
    <2>1. /\ C \in SUBSET With("finalizing") /\ D \in SUBSET With("pending")
          /\ Settle(C, D)
      BY <1>5 DEF Boot, Recoverable
    <2> HIDE DEF C, D
    <2> QED
      BY <1>a, <2>1, SettleKeepsBooks
  <1>6. ASSUME NEW r \in Requests,
               \/ Arrive(r) \/ AdmitUnlimited(r) \/ RefuseRate(r) \/ RefuseOther(r)
               \/ AbandonAdmission(r) \/ ReconcileBeginFails(r)
               \/ ReconcileApplyFails(r) \/ EndHandlerFails(r)
        PROVE BookInv'
    BY <1>6, BooksKept DEF Arrive, AdmitUnlimited, RefuseRate, RefuseOther, AbandonAdmission,
         ReconcileBeginFails, ReconcileApplyFails, EndHandlerFails, durable
  <1>7. ASSUME (\E k \in Keys : EditPolicy(k)) \/ Crash \/ Tick \/ UNCHANGED vars
        PROVE BookInv'
    BY <1>7, BooksKept DEF EditPolicy, Crash, Tick, vars, durable
  <1> QED
    BY <1>1, <1>2, <1>3, <1>4, <1>5, <1>6, <1>7 DEF Next, Handler

(* The inductive invariant of the buckets holds in every reachable state. *)
THEOREM BooksAreKept == Spec => []BookInv
  BY BooksInit, BooksStep, QuotaAccounting, PTL DEF Spec

(* The books of a period are exact through any interleaving of admissions, *)
(* reconciliations, failures and restarts: a bucket holds what its open    *)
(* reservations asked for and what its closed ones used, each counted      *)
(* once, and the checks that refuse to go below zero never fire.           *)
THEOREM BooksAreExact == Spec => []Books
  <1>1. Accounting /\ BookInv => Books
    <2> SUFFICES ASSUME Accounting, BookInv PROVE Books
      OBVIOUS
    <2>1. ASSUME NEW k \in Keys, NEW b \in Periods
          PROVE  /\ buckets[k][b].reservedRequests >= Cardinality(InBucket(k, b, Unsettled))
                 /\ \A d \in Dims :
                      buckets[k][b].reserved[d] >= Sum(InBucket(k, b, Unsettled), Requested(d))
      <3>1. /\ buckets[k][b].reservedRequests \in Nat
            /\ buckets[k][b].reservedRequests = Cardinality(InBucket(k, b, Unsettled))
        BY DEF Accounting, TypeOK, BucketType, BookInv, BucketsMatchReservations
      <3>2. ASSUME NEW d \in Dims
            PROVE  /\ buckets[k][b].reserved[d] \in Nat
                   /\ buckets[k][b].reserved[d] = Sum(InBucket(k, b, Unsettled), Requested(d))
        BY DEF Accounting, TypeOK, BucketType, Amounts, BookInv, BucketsMatchReservations
      <3> QED
        BY <3>1, <3>2
    <2>2. ASSUME NEW k \in Keys
          PROVE  state[k].active >= Cardinality(OfKey(k, Unsettled))
      <3>1. /\ state[k].active \in Nat
            /\ state[k].active = Cardinality(OfKey(k, Unsettled))
        BY DEF Accounting, ActiveMatchesReservations, TypeOK
      <3> QED
        BY <3>1
    <2> QED
      BY <2>1, <2>2 DEF Books, BookInv, NeverInconsistent, Consistent
  <1> QED
    BY <1>1, QuotaAccounting, BooksAreKept, PTL

-----------------------------------------------------------------------------
(* Caps on windows and periods *)

(* The rows of a key whose window is still open. *)
Live(k) == Rows(k) \ Expired(k, clock)

(* The limits a rolling window and a period may have. *)
RollingLimits == {p.rollingCount : p \in Policies} \ {0}
Limited == {p \in Policies : PeriodEnabled(p)}
RequestLimits == {p.requestLimit : p \in Limited}
CostLimits == {p.limit["cost"] : p \in Limited}

(* The largest of some limits bounds each of them from above, and none of  *)
(* them is zero.                                                           *)
LEMMA LargestBounds ==
    ASSUME NEW limits \in SUBSET Nat, NEW m \in Largest(limits)
    PROVE  m \in Nat /\ \A n \in limits : n > 0 /\ n <= m
  BY DEF Largest

(* The limits of the policies are natural numbers. *)
LEMMA LimitsTyped ==
    /\ RollingLimits \in SUBSET Nat /\ RequestLimits \in SUBSET Nat
    /\ CostLimits \in SUBSET Nat
  BY QuotaAssumption
  DEF ValidPolicy, PolicyType, Amounts, Dims, RollingLimits, RequestLimits, CostLimits, Limited

(* As time passes and rows are deleted, fewer windows are open. *)
LEMMA LiveShrinks ==
    ASSUME TypeOK, TypeOK', NEW k, clock' >= clock,
           \A s \in Requests : KeyOf[s] = k => rolling'[s] \in {0, rolling[s]}
    PROVE  Cardinality(Live(k)') <= Cardinality(Live(k))
  <1>1. clock \in Nat /\ clock' \in Nat /\ \A s \in Requests : rolling[s] \in Nat /\ rolling'[s] \in Nat
    BY QuotaAssumption DEF TypeOK
  <1>2. Live(k)' = {s \in Requests : KeyOf[s] = k /\ rolling'[s] > 0 /\ ~(rolling'[s] <= clock')}
    BY DEF Live, Rows, Expired
  <1>3. Live(k) = {s \in Requests : KeyOf[s] = k /\ rolling[s] > 0 /\ ~(rolling[s] <= clock)}
    BY DEF Live, Rows, Expired
  <1>4. ASSUME NEW s \in Requests, KeyOf[s] = k, rolling'[s] > 0, ~(rolling'[s] <= clock')
        PROVE  rolling[s] > 0 /\ ~(rolling[s] <= clock)
    <2>1. rolling'[s] = rolling[s]
      BY <1>4
    <2> QED
      BY <1>1, <1>4, <2>1
  <1>5. Live(k)' \in SUBSET Live(k)
    BY <1>2, <1>3, <1>4
  <1>6. IsFiniteSet(Live(k))
    BY <1>3, FiniteRequests
  <1> QED
    BY <1>5, <1>6, FS_Subset

(* No window of a key ever holds more admissions than the widest rolling   *)
(* limit: the counter an admission is checked against counts every row     *)
(* whose window is open, however late the cleanup of the others is.        *)
THEOREM WindowsAreCapped == Spec => []RollingCap
  <1>1. Init => RollingCap
    <2> SUFFICES ASSUME Init, NEW k \in Keys, NEW m \in Largest(RollingLimits)
                 PROVE  Cardinality(Live(k)) <= m
      BY DEF RollingCap, Live, RollingLimits
    <2>1. Live(k) = {}
      BY DEF Init, Live, Rows
    <2> QED
      BY <2>1, FS_EmptySet, LimitsTyped, LargestBounds
  <1>2. Accounting /\ Accounting' /\ RollingCap /\ [Next]_vars => RollingCap'
    <2> SUFFICES ASSUME Accounting, Accounting', RollingCap, [Next]_vars,
                        NEW k \in Keys, NEW m \in Largest(RollingLimits)
                 PROVE  Cardinality(Live(k)') <= m
      BY DEF RollingCap, Live, RollingLimits, Largest
    <2>a. TypeOK /\ TypeOK'
      BY DEF Accounting
    <2>b. m \in Nat /\ \A n \in RollingLimits : n > 0 /\ n <= m
      BY LimitsTyped, LargestBounds
    <2>c. Cardinality(Live(k)) <= m
      BY DEF RollingCap, Live, RollingLimits
    <2>d. Cardinality(Live(k)) \in Nat /\ Cardinality(Live(k)') \in Nat
      <3>1. Live(k) \in SUBSET Requests /\ Live(k)' \in SUBSET Requests
        BY DEF Live, Rows
      <3> QED
        BY <3>1, FiniteRequests
    <2>1. ASSUME clock' >= clock,
                 \A s \in Requests : KeyOf[s] = k => rolling'[s] \in {0, rolling[s]}
          PROVE  Cardinality(Live(k)') <= m
      <3>1. Cardinality(Live(k)') <= Cardinality(Live(k))
        BY <2>a, <2>1, LiveShrinks
      <3> QED
        BY <2>b, <2>c, <2>d, <3>1
    <2>2. ASSUME clock' >= clock, rolling' = rolling
          PROVE  Cardinality(Live(k)') <= m
      BY <2>1, <2>2
    <2>3. clock \in Int
      BY <2>a, QuotaAssumption DEF TypeOK
    <2>4. ASSUME NEW r \in Requests, Admit(r) PROVE Cardinality(Live(k)') <= m
      <3> DEFINE p == lease[r].policy
      <3>1. PICK now \in lease[r].at..clock : \E B \in Batches(KeyOf[r], now) :
              ~RateRefuses(p, KeyOf[r], B) /\ Grant(r, p, lease[r].ask, now, B)
        BY <2>4 DEF Admit
      <3>2. PICK B \in Batches(KeyOf[r], now) :
              ~RateRefuses(p, KeyOf[r], B) /\ Grant(r, p, lease[r].ask, now, B)
        BY <3>1
      <3>3. p \in Policies
        BY <2>a DEF TypeOK, LeaseType
      <3>4. p.rollingCount \in Nat
        BY <3>3, QuotaAssumption DEF ValidPolicy, PolicyType
      <3>5. \A s \in Requests : rolling'[s] = IF s \in B THEN 0
                                  ELSE IF s = r /\ p.rollingCount > 0
                                       THEN now + p.rollingWindow ELSE rolling[s]
        BY <3>2 DEF Grant
      <3>6. clock' >= clock
        BY <2>3, <2>4 DEF Admit
      <3>7. CASE KeyOf[r] # k \/ p.rollingCount = 0
        BY <2>1, <3>5, <3>6, <3>7
      <3>8. CASE KeyOf[r] = k /\ p.rollingCount # 0
        <4>1. RollingAfter(k, B) < p.rollingCount /\ RollingAfter(k, B) \in Nat
          <5>1. B \in SUBSET Requests
            BY DEF Batches, Expired, Rows
          <5>2. Cardinality(B) \in Nat
            BY <5>1, FiniteRequests
          <5>3. RollingAfter(k, B) \in Nat
            BY <2>a, <5>2 DEF RollingAfter, TypeOK
          <5> HIDE DEF p
          <5> QED
            BY <3>2, <3>4, <3>8, <5>3 DEF RateRefuses
        <4>2. state'[k].rolling = RollingAfter(k, B) + 1
          <5>1. p.rollingCount > 0
            BY <3>4, <3>8
          <5> HIDE DEF p
          <5> QED
            BY <2>a, <3>2, <3>8, <5>1 DEF Grant, TypeOK
        <4>3. p.rollingCount \in RollingLimits
          BY <3>3, <3>8 DEF RollingLimits
        <4>4. state'[k].rolling <= m
          BY <2>b, <3>4, <4>1, <4>2, <4>3
        <4>5. Cardinality(Rows(k)') = state'[k].rolling
          BY DEF Accounting, RollingMatchesRows, Rows
        <4>6. Live(k)' \in SUBSET Rows(k)' /\ Rows(k)' \in SUBSET Requests
          BY DEF Live, Rows
        <4>7. Cardinality(Live(k)') <= Cardinality(Rows(k)') /\ Cardinality(Rows(k)') \in Nat
          BY <4>6, FiniteRequests, FS_Subset
        <4> QED
          BY <2>b, <2>d, <4>4, <4>5, <4>7
      <3> QED
        BY <3>7, <3>8
    <2>5. ASSUME NEW r \in Requests,
                 \/ Arrive(r) \/ AdmitUnlimited(r) \/ RefuseRate(r) \/ RefuseOther(r)
                 \/ AbandonAdmission(r) \/ ReconcileBegin(r) \/ ReconcileBeginFails(r)
                 \/ ReconcileApplyFails(r) \/ EndHandlerFails(r)
          PROVE  clock' = clock /\ rolling' = rolling
      BY <2>5 DEF Arrive, AdmitUnlimited, RefuseRate, RefuseOther, AbandonAdmission,
           ReconcileBegin, ReconcileBeginFails, ReconcileApplyFails, EndHandlerFails, durable
    <2>6. ASSUME NEW r \in Requests, ReconcileApply(r) \/ EndHandler(r)
          PROVE  clock' = clock /\ rolling' = rolling
      BY <2>6 DEF ReconcileApply, EndHandler, Settle, durable
    <2>7. ASSUME (\E j \in Keys : EditPolicy(j)) \/ Crash \/ UNCHANGED vars
          PROVE  clock' = clock /\ rolling' = rolling
      BY <2>7 DEF EditPolicy, Crash, vars, durable
    <2>8. ASSUME Boot PROVE clock' = clock /\ rolling' = rolling
      BY <2>8 DEF Boot, Settle
    <2>9. ASSUME Tick PROVE clock' = clock + 1 /\ rolling' = rolling
      BY <2>9 DEF Tick, durable
    <2> QED
      BY <2>2, <2>3, <2>4, <2>5, <2>6, <2>7, <2>8, <2>9 DEF Next, Handler
  <1> QED
    BY <1>1, <1>2, QuotaAccounting, PTL DEF Spec

(* The rows of the periods stay within the widest limits of the policies. *)
WithinLimits(bucket) ==
    /\ \A m \in Largest(RequestLimits) :
         bucket.reservedRequests + bucket.actualRequests <= m
    /\ \A m \in Largest(CostLimits) :
         bucket.reserved["cost"] + bucket.actual["cost"] <= m
BucketCap == \A k \in Keys, b \in Periods : WithinLimits(buckets[k][b])

(* An admission the bucket does not refuse fits in it. *)
LEMMA ReservedFits ==
    ASSUME NEW p \in Limited, NEW bucket \in BucketType, NEW ask \in Amounts,
           ~BucketRefuses(p, bucket, ask)
    PROVE  WithinLimits(Reserved(bucket, ask))
  <1>1. /\ bucket.reservedRequests \in Nat /\ bucket.actualRequests \in Nat
        /\ bucket.reserved["cost"] \in Nat /\ bucket.actual["cost"] \in Nat
        /\ ask["cost"] \in Nat
    BY DEF BucketType, Amounts, Dims
  <1>2. /\ Reserved(bucket, ask).reservedRequests = bucket.reservedRequests + 1
        /\ Reserved(bucket, ask).actualRequests = bucket.actualRequests
        /\ Reserved(bucket, ask).reserved["cost"] = bucket.reserved["cost"] + ask["cost"]
        /\ Reserved(bucket, ask).actual["cost"] = bucket.actual["cost"]
    BY DEF Reserved, BucketType, Dims
  <1>3. /\ p.requestLimit \in RequestLimits /\ p.requestLimit \in Nat
        /\ p.limit["cost"] \in CostLimits /\ p.limit["cost"] \in Nat
    BY LimitsTyped DEF RequestLimits, CostLimits
  <1>4. /\ ~OverLimit(p.requestLimit, bucket.reservedRequests, bucket.actualRequests, 1)
        /\ ~OverLimit(p.limit["cost"], bucket.reserved["cost"], bucket.actual["cost"], ask["cost"])
    BY DEF BucketRefuses, Dims
  <1>5. ASSUME NEW m \in Largest(RequestLimits)
        PROVE  bucket.reservedRequests + 1 + bucket.actualRequests <= m
    <2>1. m \in Nat /\ p.requestLimit > 0 /\ p.requestLimit <= m
      BY <1>3, LimitsTyped, LargestBounds
    <2> QED
      BY <1>1, <1>3, <1>4, <2>1 DEF OverLimit
  <1>6. ASSUME NEW m \in Largest(CostLimits)
        PROVE  bucket.reserved["cost"] + ask["cost"] + bucket.actual["cost"] <= m
    <2>1. m \in Nat /\ p.limit["cost"] > 0 /\ p.limit["cost"] <= m
      BY <1>3, LimitsTyped, LargestBounds
    <2> QED
      BY <1>1, <1>3, <1>4, <2>1 DEF OverLimit
  <1> QED
    BY <1>2, <1>5, <1>6 DEF WithinLimits

(* Settling never adds to what a bucket holds and has used: a charged      *)
(* reservation counts for what it reserved, a dropped one for nothing.     *)
LEMMA SettleFits ==
    ASSUME TypeOK, CostIsFixed, BucketCap, NEW C \in SUBSET With("finalizing"),
           NEW D \in SUBSET With("pending"), Settle(C, D)
    PROVE  BucketCap'
  <1> SUFFICES ASSUME NEW k \in Keys, NEW b \in Periods
               PROVE  WithinLimits(buckets'[k][b])
    BY DEF BucketCap, WithinLimits, Largest, RequestLimits, CostLimits, Limited, PeriodEnabled
  <1> DEFINE out == InBucket(k, b, C \cup D)
             in == InBucket(k, b, C)
             old == buckets[k][b]
             new == buckets'[k][b]
  <1>1. /\ new.reservedRequests = old.reservedRequests - Cardinality(out)
        /\ new.actualRequests = old.actualRequests + Cardinality(in)
        /\ new.reserved["cost"] = old.reserved["cost"] - Sum(out, Requested("cost"))
        /\ new.actual["cost"] = old.actual["cost"] + Sum(in, Actual("cost"))
    BY DEF Settle, Moved, Dims
  <1>2. out \in SUBSET Requests /\ in \in SUBSET out
    BY DEF InBucket, OfKey, With
  <1>3. /\ Cardinality(in) <= Cardinality(out)
        /\ Cardinality(in) \in Nat /\ Cardinality(out) \in Nat
    <2>1. IsFiniteSet(out) /\ IsFiniteSet(in)
      BY <1>2, FiniteRequests
    <2> HIDE DEF out, in
    <2> QED
      BY <1>2, <2>1, FS_Subset, FS_CardinalityType
  <1>4. Sum(in, Actual("cost")) = Sum(in, Requested("cost"))
    <2>1. \A s \in in : Actual("cost")[s] = Requested("cost")[s]
      BY DEF InBucket, OfKey, With, CostIsFixed, Actual, Requested
    <2> QED
      BY <2>1, SumSame
  <1>5. /\ Sum(in, Requested("cost")) <= Sum(out, Requested("cost"))
        /\ Sum(in, Requested("cost")) \in Nat /\ Sum(out, Requested("cost")) \in Nat
    <2>1. Requested("cost") \in [Requests -> Nat]
      BY AmountsTyped DEF Dims
    <2> HIDE DEF out, in
    <2>2. in \in SUBSET Requests
      BY <1>2
    <2> QED
      BY <1>2, <2>1, <2>2, SumPart, SumType
  <1>6. /\ old.reservedRequests \in Nat /\ old.actualRequests \in Nat
        /\ old.reserved["cost"] \in Nat /\ old.actual["cost"] \in Nat
    BY DEF TypeOK, BucketType, Amounts, Dims
  <1>7. WithinLimits(old)
    BY DEF BucketCap
  <1>8. /\ \A m \in Largest(RequestLimits) : m \in Nat
        /\ \A m \in Largest(CostLimits) : m \in Nat
    BY LimitsTyped, LargestBounds
  <1> DEFINE given == Sum(out, Requested("cost"))
             charged == Sum(in, Actual("cost"))
             freed == Cardinality(out)
             kept == Cardinality(in)
  <1>9. /\ given \in Nat /\ charged \in Nat /\ charged <= given
        /\ freed \in Nat /\ kept \in Nat /\ kept <= freed
    BY <1>3, <1>4, <1>5
  <1> HIDE DEF out, in, old, new, given, charged, freed, kept
  <1>10. ASSUME NEW m \in Largest(RequestLimits)
         PROVE  new.reservedRequests + new.actualRequests <= m
    <2>1. old.reservedRequests + old.actualRequests <= m /\ m \in Nat
      BY <1>7, <1>8 DEF WithinLimits
    <2>2. /\ new.reservedRequests = old.reservedRequests - freed
          /\ new.actualRequests = old.actualRequests + kept
      BY <1>1 DEF freed, kept
    <2> QED
      BY <1>6, <1>9, <2>1, <2>2
  <1>11. ASSUME NEW m \in Largest(CostLimits)
         PROVE  new.reserved["cost"] + new.actual["cost"] <= m
    <2>1. old.reserved["cost"] + old.actual["cost"] <= m /\ m \in Nat
      BY <1>7, <1>8 DEF WithinLimits
    <2>2. /\ new.reserved["cost"] = old.reserved["cost"] - given
          /\ new.actual["cost"] = old.actual["cost"] + charged
      BY <1>1 DEF given, charged
    <2> QED
      BY <1>6, <1>9, <2>1, <2>2
  <1> QED
    BY <1>10, <1>11 DEF WithinLimits, new

(* No period of a key ever holds and has used more requests, or more cost, *)
(* than the widest limit of the key's policies: not when policies change   *)
(* between the reading of the snapshot and the admission, and not when     *)
(* usage is reported after the reservation was made.                       *)
THEOREM PeriodsAreCapped == Spec => []PeriodCap
  <1>1. Init => BucketCap
    <2> SUFFICES ASSUME Init, NEW k \in Keys, NEW b \in Periods
                 PROVE  WithinLimits(buckets[k][b])
      BY DEF BucketCap
    <2>1. /\ buckets[k][b].reservedRequests = 0 /\ buckets[k][b].actualRequests = 0
          /\ buckets[k][b].reserved["cost"] = 0 /\ buckets[k][b].actual["cost"] = 0
      BY DEF Init, EmptyBucket, NoAmounts, Dims
    <2>2. /\ \A m \in Largest(RequestLimits) : m \in Nat
          /\ \A m \in Largest(CostLimits) : m \in Nat
      BY LimitsTyped, LargestBounds
    <2> QED
      BY <2>1, <2>2 DEF WithinLimits
  <1>2. Accounting /\ BookInv /\ BucketCap /\ [Next]_vars => BucketCap'
    <2> SUFFICES ASSUME Accounting, BookInv, BucketCap, [Next]_vars PROVE BucketCap'
      OBVIOUS
    <2>a. TypeOK /\ HandlerInv /\ CostIsFixed
      BY DEF Accounting, BookInv
    <2>1. ASSUME buckets' = buckets PROVE BucketCap'
      BY <2>1 DEF BucketCap, WithinLimits, Largest, RequestLimits, CostLimits, Limited,
                  PeriodEnabled
    <2>2. ASSUME NEW r \in Requests, Admit(r) PROVE BucketCap'
      <3> DEFINE p == lease[r].policy
                 ask == lease[r].ask
      <3>1. PICK now \in lease[r].at..clock : \E B \in Batches(KeyOf[r], now) :
              ~PeriodRefuses(p, KeyOf[r], ask, now) /\ Grant(r, p, ask, now, B)
        BY <2>2 DEF Admit
      <3> DEFINE home == PeriodStart(p, now)
      <3>2. /\ ~PeriodRefuses(p, KeyOf[r], ask, now)
            /\ buckets' = IF home = NoBucket THEN buckets
                          ELSE [buckets EXCEPT ![KeyOf[r]][home] = Reserved(@, ask)]
        BY <3>1 DEF Grant
      <3>3. /\ p \in Policies /\ ask \in Amounts /\ now \in 0..MaxTime
            /\ KeyOf[r] \in Keys
        BY <2>a, QuotaAssumption DEF TypeOK, LeaseType
      <3>4. home \in Periods \cup {NoBucket}
        BY <3>3, PeriodStartType
      <3>5. CASE home = NoBucket
        BY <2>1, <3>2, <3>5
      <3>6. CASE home # NoBucket
        <4>1. PeriodEnabled(p) /\ p \in Limited /\ home \in Periods
          BY <3>3, <3>4, <3>6 DEF PeriodStart, Limited
        <4>2. ~BucketRefuses(p, buckets[KeyOf[r]][home], ask)
          BY <3>2, <4>1 DEF PeriodRefuses
        <4>3. buckets[KeyOf[r]][home] \in BucketType
          BY <2>a, <3>3, <4>1 DEF TypeOK
        <4>4. WithinLimits(Reserved(buckets[KeyOf[r]][home], ask))
          BY <3>3, <4>1, <4>2, <4>3, ReservedFits
        <4> SUFFICES ASSUME NEW k \in Keys, NEW b \in Periods
                     PROVE  WithinLimits(buckets'[k][b])
          BY DEF BucketCap, WithinLimits, Largest, RequestLimits, CostLimits, Limited,
                 PeriodEnabled
        <4>5. buckets'[k][b] = IF k = KeyOf[r] /\ b = home
                               THEN Reserved(buckets[KeyOf[r]][home], ask) ELSE buckets[k][b]
          BY <2>a, <3>2, <3>6 DEF TypeOK
        <4> HIDE DEF home, p, ask
        <4> QED
          BY <4>4, <4>5 DEF BucketCap
      <3> QED
        BY <3>5, <3>6
    <2>3. ASSUME NEW C \in SUBSET With("finalizing"), NEW D \in SUBSET With("pending"),
                 Settle(C, D) \/ UNCHANGED durable
          PROVE  BucketCap'
      <3>1. CASE Settle(C, D)
        BY <2>a, <3>1, SettleFits
      <3>2. CASE UNCHANGED durable
        BY <2>1, <3>2 DEF durable
      <3> QED
        BY <2>3, <3>1, <3>2
    <2>4. ASSUME NEW r \in Requests, ReconcileApply(r) PROVE BucketCap'
      <3>1. /\ {r} \in SUBSET With("finalizing") /\ {} \in SUBSET With("pending")
            /\ Settle({r}, {}) \/ UNCHANGED durable
        BY <2>4, <2>a DEF ReconcileApply, HandlerInv, With
      <3> QED
        BY <2>3, <3>1
    <2>5. ASSUME NEW r \in Requests, EndHandler(r) PROVE BucketCap'
      <3>1. CASE MayRelease(r) /\ reservation[r].status = "pending"
        <4>1. /\ {} \in SUBSET With("finalizing") /\ {r} \in SUBSET With("pending")
              /\ Settle({}, {r})
          BY <2>5, <3>1 DEF EndHandler, With
        <4> QED
          BY <2>3, <4>1
      <3>2. CASE ~(MayRelease(r) /\ reservation[r].status = "pending")
        BY <2>1, <2>5, <3>2 DEF EndHandler, durable
      <3> QED
        BY <3>1, <3>2
    <2>6. ASSUME Boot PROVE BucketCap'
      <3> DEFINE C == With("finalizing")
                 D == Recoverable(owner + 1)
      <3>1. /\ C \in SUBSET With("finalizing") /\ D \in SUBSET With("pending")
            /\ Settle(C, D)
        BY <2>6 DEF Boot, Recoverable
      <3> HIDE DEF C, D
      <3> QED
        BY <2>3, <3>1
    <2>7. ASSUME NEW r \in Requests,
                 \/ Arrive(r) \/ AdmitUnlimited(r) \/ RefuseRate(r) \/ RefuseOther(r)
                 \/ AbandonAdmission(r) \/ ReconcileBegin(r) \/ ReconcileBeginFails(r)
                 \/ ReconcileApplyFails(r) \/ EndHandlerFails(r)
          PROVE BucketCap'
      BY <2>1, <2>7 DEF Arrive, AdmitUnlimited, RefuseRate, RefuseOther, AbandonAdmission,
           ReconcileBegin, ReconcileBeginFails, ReconcileApplyFails, EndHandlerFails, durable
    <2>8. ASSUME (\E k \in Keys : EditPolicy(k)) \/ Crash \/ Tick \/ UNCHANGED vars
          PROVE BucketCap'
      BY <2>1, <2>8 DEF EditPolicy, Crash, Tick, vars, durable
    <2> QED
      BY <2>2, <2>4, <2>5, <2>6, <2>7, <2>8 DEF Next, Handler
  <1>3. Accounting /\ BookInv /\ BucketCap => PeriodCap
    <2> SUFFICES ASSUME Accounting, BookInv, BucketCap, NEW k \in Keys, NEW b \in Periods
        PROVE /\ \A m \in Largest(RequestLimits) :
                   Cardinality(InBucket(k, b, Unsettled \cup With("closed"))) <= m
              /\ \A m \in Largest(CostLimits) :
                   buckets[k][b].reserved["cost"] + buckets[k][b].actual["cost"] <= m
      BY DEF PeriodCap, RequestLimits, CostLimits, Limited
    <2> DEFINE open == InBucket(k, b, Unsettled)
               done == InBucket(k, b, With("closed"))
    <2>1. open \in SUBSET Requests /\ done \in SUBSET Requests /\ open \cap done = {}
          /\ InBucket(k, b, Unsettled \cup With("closed")) = open \cup done
      BY DEF InBucket, OfKey, Unsettled, With
    <2>2. Cardinality(open \cup done) = Cardinality(open) + Cardinality(done)
      BY <2>1, CountUnion
    <2>3. /\ buckets[k][b].reservedRequests = Cardinality(open)
          /\ buckets[k][b].actualRequests = Cardinality(done)
      BY DEF BookInv, BucketsMatchReservations
    <2>4. WithinLimits(buckets[k][b])
      BY DEF BucketCap
    <2> HIDE DEF open, done
    <2> QED
      BY <2>1, <2>2, <2>3, <2>4 DEF WithinLimits
  <1> QED
    BY <1>1, <1>2, <1>3, QuotaAccounting, BooksAreKept, PTL DEF Spec

(* Neither a window nor a period ever holds more than the widest of the    *)
(* limits the key's policies gave it.                                      *)
THEOREM RatesAreCapped == Spec => []RateCaps
  BY WindowsAreCapped, PeriodsAreCapped, PTL DEF RateCaps

-----------------------------------------------------------------------------
(* Refinement *)

(* The ledger counts as the rows do. *)
LEMMA LedgerCounts == ASSUME NEW S PROVE Ledger!Cardinality(S) = Cardinality(S)
  BY DEF Ledger!Cardinality, Cardinality

(* Settling is one Return step of the ledger, or no step when there is     *)
(* nothing to settle.                                                      *)
LEMMA SettleReturns ==
    ASSUME Accounting, NEW C \in SUBSET Unsettled, NEW D \in SUBSET Unsettled,
           C \cap D = {}, Settle(C, D)
    PROVE  [Ledger!Next]_(Ledger!vars)
  <1>1. /\ Unsettled' = Unsettled \ (C \cup D)
        /\ With("closed")' = With("closed") \cup C
        /\ With("released")' = With("released") \cup D
    BY DEF Settle, Accounting, TypeOK, ReservationType, Unsettled, With
  <1>2. [k \in Keys |-> state[k].active]'
          = [k \in Keys |-> [j \in Keys |-> state[j].active][k]
                              - Ledger!Cardinality(Ledger!Held(k, C \cup D))]
    BY LedgerCounts DEF Settle, Accounting, TypeOK, Ledger!Held, OfKey
  <1>3. CASE C \cup D # {}
    <2>1. Ledger!Return(C, D)
      BY <1>1, <1>2, <1>3 DEF Ledger!Return
    <2> QED
      BY <2>1 DEF Ledger!Next
  <1>4. CASE C \cup D = {}
    <2>1. \A k \in Keys : Cardinality(OfKey(k, C \cup D)) = 0
      BY <1>4, FS_EmptySet DEF OfKey
    <2>2. ASSUME NEW k \in Keys PROVE state'[k].active = state[k].active
      <3>1. Cardinality(OfKey(k, C \cup D)) = 0
        BY <2>1
      <3>2. state[k] \in [active : Nat, rolling : Nat]
        BY DEF Accounting, TypeOK
      <3>3. state'[k].active = state[k].active - Cardinality(OfKey(k, C \cup D))
        BY <3>2 DEF Settle
      <3>4. state[k].active \in Nat
        BY <3>2
      <3> QED
        BY <3>1, <3>3, <3>4
    <2>3. [k \in Keys |-> state[k].active]' = [k \in Keys |-> state[k].active]
      BY <2>2
    <2> QED
      BY <1>1, <1>4, <2>3 DEF Ledger!vars
  <1> QED
    BY <1>3, <1>4

(* The quota rows, their transactions and the process that may die between *)
(* them implement the ledger: a slot is taken once, given back once,       *)
(* charged or dropped but not both.                                        *)
THEOREM QuotaRefinesLedger == Spec => RefinesLedger
  <1>1. Init => Ledger!Init
    BY DEF Init, Ledger!Init, Unsettled, With, NoReservation
  <1>2. Accounting /\ [Next]_vars => [Ledger!Next]_(Ledger!vars)
    <2> SUFFICES ASSUME Accounting, [Next]_vars PROVE [Ledger!Next]_(Ledger!vars)
      OBVIOUS
    <2>a. TypeOK /\ HandlerInv /\ ActiveMatchesReservations
      BY DEF Accounting
    <2>1. ASSUME NEW r \in Requests, Admit(r) PROVE [Ledger!Next]_(Ledger!vars)
      <3>1. reservation[r].status = "none"
        BY <2>a, <2>1 DEF Admit, HandlerInv
      <3>2. /\ Unsettled' = Unsettled \cup {r}
            /\ With("closed")' = With("closed")
            /\ With("released")' = With("released")
        BY <2>a, <2>1, <3>1 DEF Admit, Grant, TypeOK, Unsettled, With
      <3>3. r \notin Unsettled \cup With("closed") \cup With("released")
        BY <3>1 DEF Unsettled, With
      <3> DEFINE used == [k \in Keys |-> state[k].active]
                 limits == {p.maxConcurrent : p \in Enabled}
      <3>4. used' = [used EXCEPT ![KeyOf[r]] = @ + 1]
        <4>1. \E n : state' = [state EXCEPT ![KeyOf[r]] = [active |-> @.active + 1, rolling |-> n]]
          BY <2>1 DEF Admit, Grant
        <4> QED
          BY <2>a, <4>1, QuotaAssumption DEF TypeOK
      <3>5. \E n \in limits : n = 0 \/ used[KeyOf[r]] < n
        <4>1. lease[r].policy \in Enabled /\ lease[r].policy.maxConcurrent \in Nat
          BY <2>a, <2>1, QuotaAssumption
          DEF TypeOK, LeaseType, ValidPolicy, PolicyType, Admit, Enabled
        <4>2. ~ConcurrencyRefuses(lease[r].policy, KeyOf[r])
          BY <2>1 DEF Admit
        <4>3. KeyOf[r] \in Keys /\ state[KeyOf[r]].active \in Nat
          BY <2>a, QuotaAssumption DEF TypeOK
        <4>4. lease[r].policy.maxConcurrent = 0
                \/ used[KeyOf[r]] < lease[r].policy.maxConcurrent
          BY <4>1, <4>2, <4>3 DEF ConcurrencyRefuses
        <4> QED
          BY <4>1, <4>4
      <3>6. Ledger!Take(r)
        BY <3>2, <3>3, <3>4, <3>5 DEF Ledger!Take
      <3> QED
        BY <3>6 DEF Ledger!Next
    <2>2. ASSUME NEW r \in Requests, ReconcileBegin(r) PROVE [Ledger!Next]_(Ledger!vars)
      <3>1. reservation[r].status = "pending"
        BY <2>a, <2>2 DEF ReconcileBegin, HandlerInv
      <3>2. /\ reservation'[r].status = "finalizing"
            /\ \A s \in Requests \ {r} : reservation'[s] = reservation[s]
        BY <2>a, <2>2, <3>1 DEF ReconcileBegin, BeginFinalization, TypeOK, ReservationType
      <3>3. /\ Unsettled' = Unsettled
            /\ With("closed")' = With("closed")
            /\ With("released")' = With("released")
        BY <3>1, <3>2 DEF Unsettled, With
      <3> QED
        BY <2>2, <3>3 DEF ReconcileBegin, Ledger!vars
    <2>3. ASSUME reservation' = reservation, state' = state PROVE [Ledger!Next]_(Ledger!vars)
      BY <2>3 DEF Ledger!vars, Unsettled, With
    <2>4. ASSUME NEW r \in Requests, ReconcileApply(r) PROVE [Ledger!Next]_(Ledger!vars)
      <3>1. CASE reservation[r].status = "finalizing"
        <4>1. {r} \in SUBSET Unsettled /\ {} \in SUBSET Unsettled /\ {r} \cap {} = {}
              /\ Settle({r}, {})
          BY <2>4, <3>1 DEF ReconcileApply, Unsettled
        <4> QED
          BY <4>1, SettleReturns
      <3>2. CASE reservation[r].status # "finalizing"
        BY <2>3, <2>4, <3>2 DEF ReconcileApply, durable
      <3> QED
        BY <3>1, <3>2
    <2>5. ASSUME NEW r \in Requests, EndHandler(r) PROVE [Ledger!Next]_(Ledger!vars)
      <3>1. CASE MayRelease(r) /\ reservation[r].status = "pending"
        <4>1. {} \in SUBSET Unsettled /\ {r} \in SUBSET Unsettled /\ {} \cap {r} = {}
              /\ Settle({}, {r})
          BY <2>5, <3>1 DEF EndHandler, Unsettled
        <4> QED
          BY <4>1, SettleReturns
      <3>2. CASE ~(MayRelease(r) /\ reservation[r].status = "pending")
        BY <2>3, <2>5, <3>2 DEF EndHandler, durable
      <3> QED
        BY <3>1, <3>2
    <2>6. ASSUME Boot PROVE [Ledger!Next]_(Ledger!vars)
      <3> DEFINE C == With("finalizing")
                 D == Recoverable(owner + 1)
      <3>1. C \in SUBSET Unsettled /\ D \in SUBSET Unsettled /\ C \cap D = {} /\ Settle(C, D)
        BY <2>6 DEF Boot, With, Recoverable, Unsettled
      <3> HIDE DEF C, D
      <3> QED
        BY <3>1, SettleReturns
    <2>7. ASSUME NEW r \in Requests,
                 \/ Arrive(r) \/ AdmitUnlimited(r) \/ RefuseRate(r) \/ RefuseOther(r)
                 \/ AbandonAdmission(r) \/ ReconcileBeginFails(r)
                 \/ ReconcileApplyFails(r) \/ EndHandlerFails(r)
          PROVE [Ledger!Next]_(Ledger!vars)
      BY <2>3, <2>7 DEF Arrive, AdmitUnlimited, RefuseRate, RefuseOther, AbandonAdmission,
           ReconcileBeginFails, ReconcileApplyFails, EndHandlerFails, durable
    <2>8. ASSUME (\E k \in Keys : EditPolicy(k)) \/ Crash \/ Tick \/ UNCHANGED vars
          PROVE [Ledger!Next]_(Ledger!vars)
      BY <2>3, <2>8 DEF EditPolicy, Crash, Tick, vars, durable
    <2> QED
      BY <2>1, <2>2, <2>4, <2>5, <2>6, <2>7, <2>8 DEF Next, Handler
  <1> QED
    BY <1>1, <1>2, QuotaAccounting, PTL DEF Spec, RefinesLedger, Ledger!Spec

(* What a crash or a failure cuts off is neither forgotten nor undone:     *)
(* reservations of dead processes are settled before a process serves, a   *)
(* success on record keeps its charge, and one that failed to get on       *)
(* record loses its reservation to no one but a later process.             *)
THEOREM NothingIsEverForgotten == Spec => []NothingIsForgotten
  BY RestartSettlesOldOwners, SuccessIsKept, PTL DEF NothingIsForgotten
=============================================================================
