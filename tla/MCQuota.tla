------------------------------ MODULE MCQuota ------------------------------
(* Instances of Quota for TLC.                                             *)
EXTENDS Quota, TLC

CONSTANTS k1, r1, r2, r3

Zero == NoAmounts

(* Everything limited: two slots, two admissions per window of one tick,   *)
(* two requests and three units of cost per period.                        *)
Tight == [maxConcurrent |-> 2, rollingCount |-> 2, rollingWindow |-> 1,
          periodDuration |-> 2, requestLimit |-> 2,
          limit |-> [tokens |-> 3, images |-> 0, cost |-> 3],
          default |-> [tokens |-> 1, images |-> 0, cost |-> 1],
          ceiling |-> [tokens |-> 2, images |-> 1, cost |-> 0]]
(* One slot, and nothing else. *)
OneSlot == [maxConcurrent |-> 1, rollingCount |-> 0, rollingWindow |-> 0,
            periodDuration |-> 0, requestLimit |-> 0,
            limit |-> Zero, default |-> Zero, ceiling |-> Zero]
(* The same with one slot, and windows and periods of one tick. *)
Brief == [Tight EXCEPT !.maxConcurrent = 1, !.periodDuration = 1, !.default["tokens"] = 2]
Open == [OneSlot EXCEPT !.maxConcurrent = 0]

OneKey == [r \in Requests |-> k1]

Alike == Permutations(Requests)

OneSlotOrOpen == {OneSlot, Open}
Edited == {Tight, Brief}
=============================================================================
