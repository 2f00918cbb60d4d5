---------------------------- MODULE MCRefresher ----------------------------
(* An instance of Refresher for TLC. *)
EXTENDS Refresher

CONSTANTS c1, c2
=============================================================================
