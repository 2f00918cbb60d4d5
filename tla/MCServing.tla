------------------------------ MODULE MCServing ------------------------------
(* Instances of Serving for TLC.                                           *)
EXTENDS Serving, TLC

CONSTANTS a1, a2
InOrder == <<a1, a2>>

Healthy == [enabled |-> TRUE, cooling |-> FALSE, catalog |-> "loaded", lists |-> TRUE,
            credential |-> [state |-> "valid", available |-> TRUE]]
LoggedOut == [Healthy EXCEPT !.credential = [state |-> "required", available |-> FALSE]]
Conditions == {Healthy, LoggedOut}
=============================================================================
