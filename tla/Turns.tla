-------------------------------- MODULE Turns --------------------------------
(***************************************************************************)
(* The WebSocket endpoint of Responses: one goroutine reads messages, the  *)
(* handler admits each as a turn, and a goroutine of its own serves it.    *)
(* The three share turnActive, violationPending, the channels and, through *)
(* the request's values, the journal request being served.  Turn i is the  *)
(* one begun by the i-th message that is admitted.                         *)
(***************************************************************************)
EXTENDS Integers, Sequences, FiniteSets

CONSTANTS MaxMessages   \* bound on the messages of the client
TurnsAssumption == MaxMessages \in Nat

VARIABLES
    client,    \* sent: messages under way, count of all, gone
    reader,    \* the reading goroutine: pc, what it read
    results,   \* readResults, buffered 1; open until the reader returns
    shared,    \* turnActive, violationPending, nextRead, done (connectionContext)
    handler,   \* serveResponsesWebSocket: pc, pendingRead, turns begun
    turn,      \* each turn: pc, the terminal event it saw, canceled
    value,     \* the turn whose journal request is in the request's values; 0 for none
    rows,      \* the journal row of each turn
    marked,    \* turns whose journal value has a terminal state
    told       \* events written to the client: by which turn, of what kind

vars == <<client, reader, results, shared, handler, turn, value, rows, marked, told>>

Turns == 1..MaxMessages
Messages == {"create", "bad"}
None == "none"

Init ==
    /\ client = [sent |-> <<>>, count |-> 0, gone |-> FALSE]
    /\ reader = [pc |-> "read", got |-> None]
    /\ results = [queue |-> <<>>, open |-> TRUE]
    /\ shared = [active |-> FALSE, violation |-> FALSE, next |-> 0, done |-> FALSE]
    /\ handler = [pc |-> "receive", pending |-> None, begun |-> 0]
    /\ turn = [i \in Turns |-> [pc |-> "idle", saw |-> None, canceled |-> FALSE]]
    /\ value = 0 /\ rows = [i \in Turns |-> None] /\ marked = {} /\ told = <<>>

Running(i) == turn[i].pc \notin {"idle", "done"}
Canceled(i) == turn[i].canceled \/ shared.done
Current == handler.begun

-----------------------------------------------------------------------------
(* The client                                                              *)
Send(m) ==
    /\ ~client.gone /\ client.count < MaxMessages
    /\ client' = [client EXCEPT !.sent = Append(@, m), !.count = @ + 1]
    /\ UNCHANGED <<reader, results, shared, handler, turn, value, rows, marked, told>>
Leave ==
    /\ ~client.gone /\ client' = [client EXCEPT !.gone = TRUE]
    /\ UNCHANGED <<reader, results, shared, handler, turn, value, rows, marked, told>>

-----------------------------------------------------------------------------
(* The reader                                                              *)
ReaderStays == UNCHANGED <<handler, value, rows, marked, told>>
ReaderEnds == reader' = [reader EXCEPT !.pc = "ended"] /\ results' = [results EXCEPT !.open = FALSE]

ReaderGate ==
    /\ reader.pc = "gate"
    /\ \/ shared.next = 1 /\ shared' = [shared EXCEPT !.next = 0]
          /\ reader' = [reader EXCEPT !.pc = "read"] /\ UNCHANGED results
       \/ shared.done /\ ReaderEnds /\ UNCHANGED shared
    /\ UNCHANGED <<client, turn>> /\ ReaderStays
(* A message that comes while a turn is active is a violation. *)
Concurrent == shared.active
ReaderRead ==
    /\ reader.pc = "read"
    /\ \/ /\ client.sent # <<>>
          /\ reader' = [pc |-> IF Concurrent THEN "flag" ELSE "send", got |-> Head(client.sent)]
          /\ client' = [client EXCEPT !.sent = Tail(@)]
       \/ /\ (client.gone /\ client.sent = <<>>) \/ shared.done
          /\ reader' = [pc |-> "send", got |-> "error"] /\ UNCHANGED client
    /\ UNCHANGED <<results, shared, turn>> /\ ReaderStays
ReaderSend ==
    /\ reader.pc = "send"
    /\ results.queue = <<>> \/ shared.done
    /\ results' = [queue |-> IF results.queue = <<>> THEN <<reader.got>> ELSE results.queue,
                   open |-> reader.got # "error" /\ results.queue = <<>>]
    /\ reader' = [reader EXCEPT !.pc = IF results'.open THEN "gate" ELSE "ended"]
    /\ shared' = [shared EXCEPT !.done = @ \/ reader.got = "error"]
    /\ UNCHANGED <<client, turn>> /\ ReaderStays
(* The violation is flagged, and the active turn canceled, before it is    *)
(* offered to the handler.                                                 *)
ReaderFlag ==
    /\ reader.pc = "flag" /\ reader' = [reader EXCEPT !.pc = "offer"]
    /\ shared' = [shared EXCEPT !.violation = TRUE]
    /\ turn' = [i \in Turns |-> IF i = Current /\ shared.active THEN [turn[i] EXCEPT !.canceled = TRUE]
                                ELSE turn[i]]
    /\ UNCHANGED <<client, results>> /\ ReaderStays
ReaderGivesUp ==
    /\ reader.pc = "offer" /\ shared.done /\ ReaderEnds
    /\ UNCHANGED <<client, shared, turn>> /\ ReaderStays
Reader == ReaderGate \/ ReaderRead \/ ReaderSend \/ ReaderFlag \/ ReaderGivesUp

-----------------------------------------------------------------------------
(* The handler                                                             *)
Leaves(h) == handler' = h /\ UNCHANGED <<client, told>>
\* Returning closes the connection and cancels its context.
Returns == /\ Leaves([handler EXCEPT !.pc = "returned"])
           /\ shared' = [shared EXCEPT !.done = TRUE]

\* seeded fault
releaseReaderNever == shared' = [shared EXCEPT !.active = TRUE]
releaseReader == shared' = [shared EXCEPT !.active = TRUE, !.next = 1]
Receive ==
    /\ handler.pc = "receive"
    /\ LET m == IF handler.pending # None THEN handler.pending
                ELSE IF results.queue # <<>> THEN Head(results.queue) ELSE "closed"
       IN /\ m = "closed" => ~results.open
          /\ IF m = "create"
             THEN /\ Leaves([handler EXCEPT !.pc = "admit", !.pending = None])
                  /\ releaseReader
             ELSE Returns
    /\ results' = IF handler.pending = None /\ results.queue # <<>>
                  THEN [results EXCEPT !.queue = <<>>] ELSE results
    /\ UNCHANGED <<reader, turn, value, rows, marked>>

(* Admission begins the journal row, then asks for quota. *)
AdmitBegins ==
    /\ handler.pc = "admit"
    /\ Leaves([handler EXCEPT !.pc = "quota", !.begun = @ + 1])
    /\ value' = Current + 1 /\ rows' = [rows EXCEPT ![Current + 1] = "running"]
    /\ UNCHANGED <<reader, results, shared, turn, marked>>
AdmitRefuses ==
    /\ handler.pc = "admit" /\ Leaves([handler EXCEPT !.pc = "take"])
    /\ shared' = [shared EXCEPT !.active = FALSE]
    /\ UNCHANGED <<reader, results, turn, value, rows, marked>>
QuotaGranted ==
    /\ handler.pc = "quota" /\ Leaves([handler EXCEPT !.pc = "watch"])
    /\ turn' = [turn EXCEPT ![Current].pc = "serve"]
    /\ UNCHANGED <<reader, results, shared, value, rows, marked>>
QuotaRefused ==
    /\ handler.pc = "quota" /\ Leaves([handler EXCEPT !.pc = "take"])
    /\ shared' = [shared EXCEPT !.active = FALSE]
    /\ rows' = [rows EXCEPT ![Current] = IF shared.done THEN "canceled" ELSE "failed"]
    /\ turn' = [turn EXCEPT ![Current].pc = "done"]
    /\ marked' = IF shared.done THEN marked ELSE marked \cup {Current}
    /\ value' = 0
    /\ UNCHANGED <<reader, results>>

(* A message that was not concurrent is the next turn, whether or not this *)
(* one has ended.                                                          *)
WatchMessage ==
    /\ handler.pc = "watch" /\ results.queue # <<>> /\ Head(results.queue) # "error"
    /\ Leaves([handler EXCEPT !.pc = "receive", !.pending = Head(results.queue)])
    /\ results' = [results EXCEPT !.queue = <<>>]
    /\ UNCHANGED <<reader, turn, value, rows, marked, shared>>
WatchEnds ==
    /\ handler.pc = "watch"
    /\ IF results.queue = <<>> THEN ~results.open ELSE Head(results.queue) = "error"
    /\ Leaves([handler EXCEPT !.pc = "drain"])
    /\ turn' = [turn EXCEPT ![Current].canceled = TRUE]
    /\ results' = [results EXCEPT !.queue = <<>>]
    /\ UNCHANGED <<reader, value, rows, marked, shared>>
WatchViolation ==
    /\ handler.pc = "watch" /\ reader.pc = "offer" /\ ReaderEnds
    /\ Leaves([handler EXCEPT !.pc = "drain"])
    /\ UNCHANGED <<turn, value, rows, marked, shared>>
Drain ==
    /\ handler.pc = "drain" /\ turn[Current].pc = "done" /\ value' = 0
    /\ Returns
    /\ UNCHANGED <<reader, results, turn, rows, marked>>
WatchDone ==
    /\ handler.pc = "watch" /\ turn[Current].pc = "done"
    /\ Leaves([handler EXCEPT !.pc = "take"]) /\ shared' = [shared EXCEPT !.active = FALSE]
    /\ UNCHANGED <<reader, results, turn, value, rows, marked>>

(* takeViolation: waits for a violation that is flagged, goes on otherwise. *)
Take ==
    /\ handler.pc = "take"
    /\ IF shared.violation
       THEN \/ reader.pc = "offer" /\ ReaderEnds /\ Returns
            \/ shared.done /\ Leaves([handler EXCEPT !.pc = "receive"])
               /\ UNCHANGED <<reader, results, shared>>
       ELSE Leaves([handler EXCEPT !.pc = "receive"]) /\ UNCHANGED <<reader, results, shared>>
    /\ UNCHANGED <<turn, value, rows, marked>>
\* An error that closes the connection: a key, or a request, that is refused.
TakeCloses ==
    /\ handler.pc = "take" /\ ~shared.violation /\ Returns
    /\ UNCHANGED <<reader, results, turn, value, rows, marked>>
Handler ==
    \/ Receive \/ AdmitBegins \/ AdmitRefuses \/ QuotaGranted \/ QuotaRefused
    \/ WatchMessage \/ WatchEnds \/ WatchViolation \/ Drain \/ WatchDone \/ Take \/ TakeCloses

-----------------------------------------------------------------------------
(* A turn.  What it records goes to the journal request found in the       *)
(* request's values when it is recorded.                                   *)
TurnStays == UNCHANGED <<client, reader, results, handler, value>>
Step(i, pc) == turn' = [turn EXCEPT ![i].pc = pc]
MarkFailed(v) ==
    IF v = 0 \/ v \in marked THEN UNCHANGED <<rows, marked>>
    ELSE /\ marked' = marked \cup {v}
         /\ rows' = [rows EXCEPT ![v] = IF @ = "running" THEN "failed" ELSE @]

(* The last event of the answer: the next message is welcome from here on. *)
TurnEvent(i, kind) ==
    /\ turn[i].pc = "serve" /\ ~Canceled(i)
    /\ turn' = [turn EXCEPT ![i].pc = "write", ![i].saw = kind]
    /\ shared' = [shared EXCEPT !.active = FALSE]
    /\ UNCHANGED <<rows, marked, told>> /\ TurnStays
TurnFails(i) ==
    /\ turn[i].pc = "serve" /\ Step(i, IF Canceled(i) THEN "finish" ELSE "report")
    /\ UNCHANGED <<shared, rows, marked, told>> /\ TurnStays
TurnWrite(i) ==
    /\ turn[i].pc = "write"
    /\ \/ /\ ~Canceled(i)
          /\ told' = Append(told, [turn |-> i, kind |-> turn[i].saw])
          /\ IF turn[i].saw = "success" THEN UNCHANGED <<rows, marked>> ELSE MarkFailed(value)
          /\ Step(i, IF turn[i].saw = "failed" THEN "mark" ELSE "finish")
       \/ Step(i, IF Canceled(i) THEN "finish" ELSE "report") /\ UNCHANGED <<rows, marked, told>>
    /\ UNCHANGED shared /\ TurnStays
TurnReport(i) ==
    /\ turn[i].pc = "report"
    /\ told' \in {told} \cup (IF Canceled(i) THEN {} ELSE {Append(told, [turn |-> i, kind |-> "error"])})
    /\ MarkFailed(value) /\ Step(i, "finish")
    /\ UNCHANGED shared /\ TurnStays
TurnMark(i) ==
    /\ turn[i].pc = "mark" /\ MarkFailed(value) /\ Step(i, "finish")
    /\ UNCHANGED <<shared, told>> /\ TurnStays
(* finishWebSocketJournal *)
Complete(i, status) == rows' = [rows EXCEPT ![i] = IF @ = "running" THEN status ELSE @]
\* seeded fault
TurnFinishBlind(i) ==
    /\ turn[i].pc = "finish" /\ Complete(i, "succeeded") /\ Step(i, "done")
    /\ UNCHANGED <<shared, marked, told>> /\ TurnStays
TurnFinish(i) ==
    /\ turn[i].pc = "finish"
    /\ IF Canceled(i) THEN Complete(i, "canceled")
       ELSE IF value \in marked THEN UNCHANGED rows
       ELSE Complete(i, "succeeded")
    /\ Step(i, "done")
    /\ UNCHANGED <<shared, marked, told>> /\ TurnStays
Turn(i) == \/ \E kind \in {"success", "failed", "error"} : TurnEvent(i, kind)
           \/ TurnFails(i) \/ TurnWrite(i) \/ TurnReport(i) \/ TurnMark(i) \/ TurnFinish(i)

Next ==
    \/ \E m \in Messages : Send(m)
    \/ Leave \/ Reader \/ Handler
    \/ \E i \in Turns : Turn(i)
Spec == Init /\ [][Next]_vars
-----------------------------------------------------------------------------
(* Properties                                                              *)

(* One message is served after the other: no two turns run at once.        *)
OneTurnAtATime == Cardinality({i \in Turns : Running(i)}) <= 1

(* Turns overlap only at the end of the older one: a turn that is not the  *)
(* newest has seen its last event (serve, and the callback of the turn).   *)
OverlapOnlyAtTheEnd == \A i \in Turns : Running(i) /\ i < Current => turn[i].saw # None

(* A turn that was alone is recorded as it went: as succeeded only when    *)
(* its client was told so, and its row is settled when it is done.         *)
Alone(i) == i = Current /\ \A j \in Turns : j # i => ~Running(j) /\ j \notin marked
RecordsFollowTurns ==
    \A i \in Turns : Alone(i) =>
        /\ turn[i].pc = "done" => rows[i] # "running"
        /\ rows[i] = "succeeded" => [turn |-> i, kind |-> "success"] \in {told[n] : n \in DOMAIN told}

(* What is left of one turn at a time (serveResponsesWebSocket).           *)
TurnsHold == OverlapOnlyAtTheEnd /\ RecordsFollowTurns

(* When the client has left, the handler returns; unless a message was     *)
(* found to be concurrent just as its turn ended, and flagged too late for *)
(* the handler to ask for it.                                              *)
Missed == reader.pc = "offer" /\ handler.pc = "receive"
ClientLeft == client.gone
HandlerIsDone == handler.pc = "returned" \/ Missed
=============================================================================
