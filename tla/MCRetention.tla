---------------------------- MODULE MCRetention -----------------------------
(* Instances of Retention for TLC.                                         *)
EXTENDS Retention, TLC

CONSTANTS r1, r2, a1, a2, s1
Alike == Permutations({r1, r2}) \cup Permutations({a1, a2})
SameAccounts == Permutations({a1, a2})
=============================================================================
