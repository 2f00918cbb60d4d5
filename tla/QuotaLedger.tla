---------------------------- MODULE QuotaLedger ----------------------------
(***************************************************************************)
(* What quota admission promises, without rows, leases or processes: a key *)
(* has a limited number of slots; a request takes one slot of its key and  *)
(* gives it back once, either charged or dropped.                          *)
(***************************************************************************)
EXTENDS Integers, FiniteSets

CONSTANTS
    Keys, Requests, KeyOf,
    Limits    \* the slot limits a key may be given; zero is no limit

VARIABLES
    used,     \* slots taken, per key
    holders,  \* the requests that hold a slot
    charged,  \* the requests that gave it back and were charged
    dropped   \* the requests that gave it back uncharged

vars == <<used, holders, charged, dropped>>

Held(k, S) == {r \in S : KeyOf[r] = k}

Init ==
    /\ used = [k \in Keys |-> 0]
    /\ holders = {} /\ charged = {} /\ dropped = {}

(* One request takes a free slot of its key. *)
Take(r) ==
    /\ r \notin holders \cup charged \cup dropped
    /\ \E n \in Limits : n = 0 \/ used[KeyOf[r]] < n
    /\ used' = [used EXCEPT ![KeyOf[r]] = @ + 1]
    /\ holders' = holders \cup {r}
    /\ UNCHANGED <<charged, dropped>>

(* Requests give their slots back: one at a time in service, all those of  *)
(* a dead process together at a restart.                                   *)
Return(C, D) ==
    /\ C \cup D # {} /\ C \cap D = {} /\ C \cup D \subseteq holders
    /\ used' = [k \in Keys |-> used[k] - Cardinality(Held(k, C \cup D))]
    /\ holders' = holders \ (C \cup D)
    /\ charged' = charged \cup C
    /\ dropped' = dropped \cup D

Next ==
    \/ \E r \in Requests : Take(r)
    \/ \E C, D \in SUBSET holders : Return(C, D)

Spec == Init /\ [][Next]_vars
=============================================================================
