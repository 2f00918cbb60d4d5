------------------------------ MODULE Exchange ------------------------------
(***************************************************************************)
(* What one request promises, without accounts, transports or retries: its *)
(* quota is held before anything is sent upstream, what the client is told *)
(* of a success is paid for first, quota that is held is given back only   *)
(* while no success was told, and what was paid stays paid, also when the  *)
(* client never gets what it paid for.                                     *)
(***************************************************************************)
VARIABLES
    paid,     \* "none", "held", "spent" or "returned"
    answer,   \* "none", "some" of it, "success" or "failure"
    asked     \* TRUE once the request was sent upstream

vars == <<paid, answer, asked>>

Init == paid = "none" /\ answer = "none" /\ asked = FALSE

Hold == paid = "none" /\ answer = "none" /\ paid' = "held" /\ UNCHANGED <<answer, asked>>
Ask == paid = "held" /\ answer = "none" /\ asked' = TRUE /\ UNCHANGED <<paid, answer>>
Tell == /\ asked /\ paid = "held" /\ answer = "none"
        /\ answer' = "some"
        /\ UNCHANGED <<paid, asked>>
(* The answer is complete; the last of it may be lost on the way. *)
Spend == /\ asked /\ paid = "held" /\ answer \in {"none", "some"}
         /\ paid' = "spent"
         /\ answer' \in {answer, "some", "success", "failure"}
         /\ UNCHANGED asked
Succeed == paid = "spent" /\ answer # "failure" /\ answer' = "success" /\ UNCHANGED <<paid, asked>>
Fail == answer # "failure" /\ answer' = "failure" /\ UNCHANGED <<paid, asked>>
Return == paid = "held" /\ answer # "success" /\ paid' = "returned" /\ UNCHANGED <<answer, asked>>

Next == Hold \/ Ask \/ Tell \/ Spend \/ Succeed \/ Fail \/ Return
Spec == Init /\ [][Next]_vars
=============================================================================
