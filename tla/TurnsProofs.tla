----------------------------- MODULE TurnsProofs -----------------------------
(***************************************************************************)
(* Theorems about Turns, for any number of messages.                       *)
(***************************************************************************)
EXTENDS Turns, TLAPS

-----------------------------------------------------------------------------
(* The inductive invariant *)

Kinds == {"success", "failed", "error"}
ClientType == client \in [sent : Seq(Messages), count : 0..MaxMessages, gone : BOOLEAN]
ReaderType == reader \in [pc : {"read", "gate", "flag", "send", "offer", "ended"},
                          got : Messages \cup {"error", None}]
ResultsType == results \in [queue : Seq(Messages \cup {"error"}), open : BOOLEAN]
SharedType == shared \in [active : BOOLEAN, violation : BOOLEAN, next : {0, 1}, done : BOOLEAN]
HandlerType == handler \in [pc : {"receive", "admit", "quota", "watch", "drain", "take", "returned"},
                            pending : Messages \cup {None}, begun : 0..MaxMessages]
WireType == ClientType /\ ReaderType /\ ResultsType /\ SharedType /\ HandlerType
TurnPCs == {"idle", "serve", "write", "report", "mark", "finish", "done"}
TurnState == [pc : TurnPCs, saw : Kinds \cup {None}, canceled : BOOLEAN]
RowState == {None, "running", "succeeded", "failed", "canceled"}
TurnType ==
    /\ turn \in [Turns -> TurnState] /\ value \in {0, Current}
    /\ rows \in [Turns -> RowState] /\ marked \subseteq Turns
    /\ told \in Seq([turn : Turns, kind : Kinds])

(* Of the messages of the client the next one is in one place at a time:   *)
(* with the reader, which may only read when it was let, in the channel,   *)
(* with the handler, or admitted.                                          *)
Reads == reader.pc \in {"read", "flag", "send", "offer"}
Holds == reader.pc \in {"flag", "send", "offer"} /\ reader.got # "error"
Queued == results.queue # <<>> /\ Head(results.queue) # "error"
Carried == IF Holds \/ Queued \/ handler.pending # None THEN 1 ELSE 0
Admitted == IF handler.pc = "admit" THEN 1 ELSE 0
MessageInv ==
    /\ Reads => shared.next = 0
    /\ reader.pc \in {"flag", "send", "offer"} => reader.got # None
    /\ Reads \/ shared.next = 1 => handler.pending = None /\ ~Queued
    /\ handler.pending # None => handler.pc \in {"receive", "returned"} /\ ~Queued
    /\ Len(results.queue) <= 1
CountInv == Len(client.sent) + Carried + Admitted + handler.begun <= client.count

(* A message that was not concurrent came when the turn before it was      *)
(* over, or had seen its last event.                                       *)
Settled(i) == i = 0 \/ turn[i].pc = "done" \/ turn[i].saw # None
Offered == (reader.pc = "send" /\ reader.got # "error") \/ Queued
OrderInv ==
    /\ \A i \in Turns : i < Current => Settled(i)
    /\ handler.pc \in {"receive", "admit", "take"} => Settled(Current)
    /\ handler.pc = "quota" => Current > 0 /\ turn[Current].pc = "idle" /\ value = Current
    /\ handler.pc \in {"admit", "quota"} => shared.active /\ ~Offered
    /\ handler.pc = "watch" => Current > 0 /\ (~shared.active \/ Offered => Settled(Current))
    /\ handler.pc = "drain" => Current > 0
    /\ \A i \in Turns : turn[i].pc = "serve" =>
         i = Current /\ turn[i].saw = None /\ handler.pc \in {"watch", "drain"}
    /\ \A i \in Turns : turn[i].pc = "idle" => turn[i].saw = None
    /\ \A i \in Turns : turn[i].pc \in {"write", "mark"} => turn[i].saw # None
    /\ \A i \in Turns : i > Current => turn[i].pc = "idle" /\ rows[i] = None

(* While the newest turn runs, what is marked is marked for it.            *)
Told(i) == \E n \in DOMAIN told : told[n] = [turn |-> i, kind |-> "success"]
RecordInv ==
    /\ \A i \in marked : i <= Current /\ rows[i] # "running"
    /\ \A i \in Turns : Running(i) /\ i = Current => value = i
    /\ \A i \in Turns : turn[i].pc = "done" => rows[i] # "running" \/ \E j \in marked : j # i
    /\ \A i \in Turns : turn[i].pc = "finish" /\ i = Current => Canceled(i) \/ i \in marked \/ Told(i)
    /\ \A i \in Turns : rows[i] = "succeeded" /\ i = Current => Told(i)

Inv == WireType /\ TurnType /\ MessageInv /\ CountInv /\ OrderInv /\ RecordInv
-----------------------------------------------------------------------------
(* What the parts of a step keep                                          *)

(* The numbers of CountInv.                                                *)
LEMMA Numbers ==
    ASSUME TurnsAssumption, WireType
    PROVE  /\ Len(client.sent) \in Int /\ client.count \in Int /\ handler.begun \in Int
           /\ Carried \in {0, 1} /\ Admitted \in {0, 1}
BY DEF WireType, ClientType, HandlerType, TurnsAssumption, Carried, Admitted

(* A step that takes no message of the client and admits none.             *)
LEMMA CountKept ==
    ASSUME TurnsAssumption, WireType, CountInv,
           Len(client'.sent) = Len(client.sent), client'.count = client.count, handler'.begun = handler.begun,
           Carried = 0 => Carried' = 0, Admitted = 0 => Admitted' = 0
    PROVE  CountInv'
<1>1. Len(client.sent) \in Int /\ client.count \in Int /\ handler.begun \in Int
  BY Numbers
<1>2. Carried \in {0, 1} /\ Carried' \in {0, 1} /\ Carried' <= Carried
  BY DEF Carried
<1>3. Admitted \in {0, 1} /\ Admitted' \in {0, 1} /\ Admitted' <= Admitted
  BY DEF Admitted
<1>4. CASE Carried' = Carried /\ Admitted' = Admitted
  BY <1>1, <1>2, <1>3, <1>4 DEF CountInv
<1>5. CASE Carried = 1 /\ Carried' = 0 /\ Admitted' = Admitted
  BY <1>1, <1>3, <1>5 DEF CountInv
<1>6. CASE Carried' = Carried /\ Admitted = 1 /\ Admitted' = 0
  BY <1>1, <1>2, <1>6 DEF CountInv
<1>7. CASE Carried = 1 /\ Carried' = 0 /\ Admitted = 1 /\ Admitted' = 0
  BY <1>1, <1>7 DEF CountInv
<1>. QED  BY <1>2, <1>3, <1>4, <1>5, <1>6, <1>7

(* While a turn is admitted, watched or drained, there is one.             *)
LEMMA CurrentIs ==
    ASSUME TurnsAssumption, WireType, OrderInv, handler.pc \in {"quota", "watch", "drain"}
    PROVE  Current \in Turns
BY DEF TurnsAssumption, WireType, HandlerType, OrderInv, Current, Turns

(* A failure is recorded for the turn that is in the request's values.     *)
LEMMA MarkIs ==
    ASSUME TurnsAssumption, Inv, MarkFailed(value)
    PROVE  /\ rows' \in [Turns -> RowState]
           /\ marked' \subseteq Turns /\ marked \subseteq marked' /\ marked' \subseteq marked \cup {value}
           /\ value # 0 => value \in marked'
           /\ \A j \in Turns : rows'[j] # rows[j] => rows[j] = "running" /\ rows'[j] = "failed"
           /\ \A j \in marked' : j <= Current /\ rows'[j] # "running"
<1>1. Current \in Nat /\ (value # 0 => value \in Turns /\ value = Current)
  BY DEF Inv, WireType, HandlerType, TurnType, Current, Turns, TurnsAssumption
<1>2. /\ marked \subseteq Turns /\ rows \in [Turns -> RowState]
      /\ \A j \in marked : j <= Current /\ rows[j] # "running"
  BY DEF Inv, TurnType, RecordInv
<1>3. CASE value = 0 \/ value \in marked
  <2>1. rows' = rows /\ marked' = marked
    BY <1>3 DEF MarkFailed
  <2>. QED  BY <1>1, <1>2, <1>3, <2>1
<1>4. CASE value # 0 /\ value \notin marked
  <2>1. /\ marked' = marked \cup {value} /\ value \in Turns /\ value = Current
        /\ rows' = [rows EXCEPT ![value] = IF @ = "running" THEN "failed" ELSE @]
    BY <1>1, <1>4 DEF MarkFailed
  <2>2. /\ rows' \in [Turns -> RowState] /\ rows'[value] # "running"
        /\ \A j \in Turns : rows'[j] # rows[j] => rows[j] = "running" /\ rows'[j] = "failed"
        /\ \A j \in Turns \ {value} : rows'[j] = rows[j]
    BY <1>2, <2>1 DEF RowState
  <2>. QED  BY <1>1, <1>2, <2>1, <2>2
<1>. QED  BY <1>3, <1>4

(* A turn that goes on keeps what it saw; the others stay where they are.  *)
LEMMA StepIs ==
    ASSUME TurnType, NEW i \in Turns, NEW pc \in TurnPCs, Step(i, pc)
    PROVE  /\ turn' \in [Turns -> TurnState]
           /\ turn'[i].pc = pc /\ turn'[i].saw = turn[i].saw /\ turn'[i].canceled = turn[i].canceled
           /\ \A j \in Turns \ {i} : turn'[j] = turn[j]
BY DEF TurnType, Step, TurnState

(* What a turn writes to the client is only added.                         *)
LEMMA ToldGrows ==
    ASSUME TurnType, NEW e \in [turn : Turns, kind : Kinds], told' = Append(told, e)
    PROVE  /\ told' \in Seq([turn : Turns, kind : Kinds])
           /\ \A j \in Turns : Told(j) => Told(j)'
           /\ e.kind = "success" => Told(e.turn)'
<1>1. /\ told \in Seq([turn : Turns, kind : Kinds]) /\ Len(told) \in Nat
      /\ Len(told') = Len(told) + 1 /\ told'[Len(told) + 1] = e
      /\ \A n \in 1..Len(told) : told'[n] = told[n]
      /\ DOMAIN told = 1..Len(told) /\ DOMAIN told' = 1..Len(told')
  BY DEF TurnType
<1>2. told' \in Seq([turn : Turns, kind : Kinds])
  BY <1>1
<1>3. ASSUME NEW j \in Turns, Told(j)  PROVE Told(j)'
  BY <1>1, <1>3 DEF Told
<1>4. ASSUME e.kind = "success"  PROVE Told(e.turn)'
  <2>1. e = [turn |-> e.turn, kind |-> "success"]
    BY <1>4
  <2>. QED  BY <1>1, <2>1 DEF Told
<1>. QED  BY <1>2, <1>3, <1>4

(* Channels of one message.                                                *)
LEMMA QueueOf ==
    ASSUME NEW S, NEW m \in S
    PROVE  <<>> \in Seq(S) /\ <<m>> \in Seq(S) /\ Len(<<m>>) = 1 /\ Head(<<m>>) = m
OBVIOUS

(* A step that is not of a turn, and begins none.                          *)
LEMMA RecordsStay ==
    ASSUME Inv, UNCHANGED <<turn, value, rows, marked, told>>, handler'.begun = handler.begun,
           shared.done => shared'.done
    PROVE  TurnType' /\ RecordInv'
<1>1. TurnType'
  BY DEF Inv, TurnType, Current
<1>2. \A j \in Turns : Told(j)' = Told(j) /\ Running(j)' = Running(j) /\ (Canceled(j) => Canceled(j)')
  BY DEF Told, Running, Canceled
<1>. QED  BY <1>1, <1>2 DEF Inv, RecordInv, Current

(* What a step of the handler does that takes a message to begin a turn.   *)
LEMMA ReceiveIs ==
    ASSUME Inv, Receive
    PROVE  /\ handler.pc = "receive" /\ handler'.begun = handler.begun
           /\ UNCHANGED <<client, reader, turn, value, rows, marked, told>>
           /\ results' = results \/ results'.queue = <<>>
           /\ \/ /\ handler'.pc = "returned" /\ handler'.pending = handler.pending /\ shared'.done
                 /\ shared'.next = shared.next /\ shared'.active = shared.active
              \/ /\ handler'.pc = "admit" /\ handler'.pending = None /\ shared'.done = shared.done
                 /\ shared'.next = 1 /\ shared'.active = TRUE /\ ~Reads /\ ~Queued'
<1>1. /\ handler.pc = "receive" /\ handler'.begun = handler.begun
      /\ UNCHANGED <<client, reader, turn, value, rows, marked, told>>
  BY DEF Receive, Leaves, Returns, Inv, WireType, HandlerType
<1>2. results' = results \/ results'.queue = <<>>
  BY DEF Receive, Inv, WireType, ResultsType
<1>. DEFINE m == IF handler.pending # None THEN handler.pending
                 ELSE IF results.queue # <<>> THEN Head(results.queue) ELSE "closed"
<1>3. CASE m # "create"
  <2>1. Returns
    BY <1>3 DEF Receive
  <2>. QED  BY <1>1, <1>2, <2>1 DEF Returns, Leaves, Inv, WireType, HandlerType, SharedType
<1>4. CASE m = "create"
  <2>1. /\ handler' = [handler EXCEPT !.pc = "admit", !.pending = None]
        /\ shared' = [shared EXCEPT !.active = TRUE, !.next = 1]
    BY <1>4 DEF Receive, Leaves, releaseReader
  <2>2. CASE handler.pending # None
    <3>1. ~Reads /\ ~Queued /\ results' = results
      BY <2>2 DEF Inv, MessageInv, Receive
    <3>. QED  BY <1>1, <1>2, <2>1, <3>1 DEF Inv, WireType, HandlerType, SharedType, Queued
  <2>3. CASE handler.pending = None
    <3>1. results.queue # <<>> /\ Head(results.queue) = "create"
      BY <1>4, <2>3 DEF None
    <3>2. ~Reads
      BY <3>1 DEF Inv, MessageInv, Queued
    <3>3. results'.queue = <<>>
      BY <2>3, <3>1 DEF Receive, Inv, WireType, ResultsType
    <3>. QED  BY <1>1, <1>2, <2>1, <3>2, <3>3 DEF Inv, WireType, HandlerType, SharedType, Queued
  <2>. QED  BY <2>2, <2>3
<1>. QED  BY <1>3, <1>4

(* A turn goes on towards its end, or is done: the order stays.            *)
LEMMA TurnOrderKept ==
    ASSUME TurnsAssumption, Inv, NEW i \in Turns, Running(i),
           NEW pc \in {"report", "mark", "finish", "done"}, Step(i, pc), pc = "mark" => turn[i].saw # None,
           UNCHANGED <<client, reader, results, shared, handler, value>>,
           \A j \in Turns : rows[j] = None => rows'[j] = None
    PROVE  OrderInv'
<1>1. /\ turn'[i].pc = pc /\ turn'[i].saw = turn[i].saw
      /\ \A j \in Turns \ {i} : turn'[j] = turn[j]
  BY StepIs DEF Inv, TurnPCs
<1>2. turn[i].pc \notin {"idle", "done"}
  BY DEF Running
<1>3. i <= Current
  BY <1>2 DEF Inv, OrderInv, WireType, HandlerType, Current, Turns, TurnsAssumption
<1>4. \A j \in Turns : Settled(j) => Settled(j)'
  BY <1>1, <1>2 DEF Settled
<1>5. Current' = Current /\ Current \in Turns \cup {0} /\ Offered' = Offered
  BY DEF Inv, WireType, HandlerType, Current, Offered, Queued, Turns, TurnsAssumption
<1>6. Settled(Current) => Settled(Current)'
  BY <1>4, <1>5 DEF Settled
<1>7. \A j \in Turns : j < Current => Settled(j)'
  BY <1>4 DEF Inv, OrderInv
<1>8. handler.pc = "quota" => Current # i
  BY <1>2 DEF Inv, OrderInv
<1>. QED  BY <1>1, <1>2, <1>3, <1>5, <1>6, <1>7, <1>8 DEF Inv, OrderInv

(* A turn goes on, and has a record or a reason when it comes to finish.   *)
LEMMA TurnRecordKept ==
    ASSUME TurnsAssumption, Inv, NEW i \in Turns, Running(i),
           NEW pc \in {"report", "mark", "finish"}, Step(i, pc),
           UNCHANGED <<shared, handler, value>>,
           MarkFailed(value) \/ UNCHANGED <<rows, marked>>,
           told' \in Seq([turn : Turns, kind : Kinds]), \A j \in Turns : Told(j) => Told(j)',
           pc = "finish" /\ i = Current => Canceled(i) \/ i \in marked' \/ Told(i)'
    PROVE  /\ TurnType' /\ RecordInv'
           /\ \A j \in Turns : rows[j] = None => rows'[j] = None
<1>1. /\ turn' \in [Turns -> TurnState] /\ turn'[i].pc = pc
      /\ turn'[i].canceled = turn[i].canceled /\ \A j \in Turns \ {i} : turn'[j] = turn[j]
  BY StepIs DEF Inv, TurnPCs
<1>2. /\ rows' \in [Turns -> RowState] /\ marked' \subseteq Turns /\ marked \subseteq marked'
      /\ \A j \in Turns : rows'[j] # rows[j] => rows[j] = "running" /\ rows'[j] = "failed"
      /\ \A j \in marked' : j <= Current /\ rows'[j] # "running"
  BY MarkIs DEF Inv, TurnType, RecordInv
<1>3. TurnType'
  BY <1>1, <1>2 DEF Inv, TurnType, Current
<1>4. Current' = Current /\ \A j \in Turns : Canceled(j)' = Canceled(j)
  BY <1>1 DEF Current, Canceled
<1>5. \A j \in Turns : Running(j)' /\ j = Current => value' = j
  BY <1>1 DEF Inv, RecordInv, Running
<1>6. \A j \in Turns : turn'[j].pc = "done" => rows'[j] # "running" \/ \E k \in marked' : k # j
  BY <1>1, <1>2 DEF Inv, RecordInv
<1>7. \A j \in Turns : turn'[j].pc = "finish" /\ j = Current => Canceled(j)' \/ j \in marked' \/ Told(j)'
  BY <1>1, <1>2, <1>4 DEF Inv, RecordInv
<1>8. \A j \in Turns : rows'[j] = "succeeded" /\ j = Current => Told(j)'
  BY <1>2 DEF Inv, RecordInv
<1>9. RecordInv'
  BY <1>2, <1>4, <1>5, <1>6, <1>7, <1>8 DEF RecordInv
<1>10. \A j \in Turns : rows[j] = None => rows'[j] = None
  BY <1>2 DEF None
<1>. QED  BY <1>3, <1>9, <1>10

(* The steps of a turn after its events take and send no message.          *)
LEMMA WireStays ==
    ASSUME Inv, UNCHANGED <<client, reader, results, shared, handler>>
    PROVE  WireType' /\ MessageInv' /\ CountInv'
<1>1. WireType'
  BY DEF Inv, WireType, ClientType, ReaderType, ResultsType, SharedType, HandlerType
<1>2. Reads' = Reads /\ Holds' = Holds /\ Queued' = Queued
  BY DEF Reads, Holds, Queued
<1>3. MessageInv'
  BY <1>2 DEF Inv, MessageInv
<1>4. CountInv'
  BY <1>2 DEF Inv, CountInv, Carried, Admitted
<1>. QED  BY <1>1, <1>3, <1>4

-----------------------------------------------------------------------------
(* Every step keeps the invariant                                          *)

(* The client sends one more message.                                      *)
LEMMA SendKeeps ==
    ASSUME TurnsAssumption, Inv, NEW m \in Messages, Send(m)
    PROVE  Inv'
<1>1. WireType'
  <2>1. ClientType'
    <3>1. client.count + 1 \in 0..MaxMessages /\ Append(client.sent, m) \in Seq(Messages)
      BY DEF Send, Inv, WireType, ClientType, TurnsAssumption
    <3>. QED  BY <3>1 DEF Send, Inv, WireType, ClientType
  <2>2. ReaderType' /\ ResultsType' /\ SharedType' /\ HandlerType'
    BY DEF Send, Inv, WireType, ReaderType, ResultsType, SharedType, HandlerType
  <2>. QED  BY <2>1, <2>2 DEF WireType
<1>2. TurnType'
  BY RecordsStay DEF Send, Inv, WireType, HandlerType, SharedType
<1>3. MessageInv'
  BY DEF Send, Inv, WireType, ClientType, ReaderType, ResultsType, SharedType, HandlerType,
         MessageInv, Reads, Queued, None, Messages
<1>4. CountInv'
  <2>1. Len(client'.sent) = Len(client.sent) + 1 /\ client'.count = client.count + 1
    BY DEF Send, Inv, WireType, ClientType
  <2>2. handler'.begun = handler.begun /\ Carried' = Carried /\ Admitted' = Admitted
    BY DEF Send, Holds, Queued, Carried, Admitted
  <2>3. WireType /\ CountInv
    BY DEF Inv
  <2>4. /\ Len(client.sent) \in Int /\ client.count \in Int /\ handler.begun \in Int
        /\ Carried \in Int /\ Admitted \in Int
    BY <2>3, Numbers
  <2>. QED  BY <2>1, <2>2, <2>3, <2>4 DEF CountInv
<1>5. OrderInv'
  BY DEF Send, Inv, WireType, ClientType, ReaderType, ResultsType, SharedType, HandlerType,
         TurnType, TurnState, MessageInv, OrderInv, Settled, Offered, Queued, Current, Turns, None,
         Kinds, Messages, Reads
<1>6. RecordInv'
  BY RecordsStay DEF Send, Inv, WireType, HandlerType, SharedType
<1>. QED  BY <1>1, <1>2, <1>3, <1>4, <1>5, <1>6 DEF Inv

(* The client leaves.                                                      *)
LEMMA LeaveKeeps ==
    ASSUME TurnsAssumption, Inv, Leave
    PROVE  Inv'
<1>1. WireType'
  <2>1. ClientType'
    BY DEF Leave, Inv, WireType, ClientType
  <2>2. ReaderType' /\ ResultsType' /\ SharedType' /\ HandlerType'
    BY DEF Leave, Inv, WireType, ReaderType, ResultsType, SharedType, HandlerType
  <2>. QED  BY <2>1, <2>2 DEF WireType
<1>2. TurnType'
  BY RecordsStay DEF Leave, Inv, WireType, HandlerType, SharedType
<1>3. MessageInv'
  BY DEF Leave, Inv, WireType, ClientType, ReaderType, ResultsType, SharedType, HandlerType,
         MessageInv, Reads, Queued, None, Messages
<1>4. CountInv'
  <2>1. Len(client'.sent) = Len(client.sent) /\ client'.count = client.count /\ handler'.begun = handler.begun
        /\ (Carried = 0 => Carried' = 0) /\ (Admitted = 0 => Admitted' = 0)
    BY DEF Leave, Inv, WireType, ClientType, HandlerType, ReaderType, ResultsType, MessageInv,
           Reads, Holds, Queued, Carried, Admitted, None, Messages
  <2>. QED  BY <2>1, CountKept DEF Inv
<1>5. OrderInv'
  BY DEF Leave, Inv, WireType, ClientType, ReaderType, ResultsType, SharedType, HandlerType,
         TurnType, TurnState, MessageInv, OrderInv, Settled, Offered, Queued, Current, Turns, None,
         Kinds, Messages, Reads
<1>6. RecordInv'
  BY RecordsStay DEF Leave, Inv, WireType, HandlerType, SharedType
<1>. QED  BY <1>1, <1>2, <1>3, <1>4, <1>5, <1>6 DEF Inv

(* The reader is let read on, or ends with the connection.                 *)
LEMMA ReaderGateKeeps ==
    ASSUME TurnsAssumption, Inv, ReaderGate
    PROVE  Inv'
<1>1. WireType'
  <2>1. ReaderType'
    BY DEF ReaderGate, ReaderStays, ReaderEnds, Inv, WireType, ReaderType, ResultsType, SharedType
  <2>2. ResultsType'
    BY DEF ReaderGate, ReaderStays, ReaderEnds, Inv, WireType, ReaderType, ResultsType, SharedType
  <2>3. SharedType'
    BY DEF ReaderGate, ReaderStays, ReaderEnds, Inv, WireType, ReaderType, ResultsType, SharedType
  <2>4. ClientType' /\ HandlerType'
    BY DEF ReaderGate, ReaderStays, ReaderEnds, Inv, WireType, ClientType, HandlerType
  <2>. QED  BY <2>1, <2>2, <2>3, <2>4 DEF WireType
<1>2. TurnType'
  BY RecordsStay DEF ReaderGate, ReaderStays, ReaderEnds, Inv, WireType, HandlerType, SharedType
<1>3. MessageInv'
  BY DEF ReaderGate, ReaderStays, ReaderEnds, Inv, WireType, ClientType, ReaderType, ResultsType,
         SharedType, HandlerType, MessageInv, Reads, Queued, None, Messages
<1>4. CountInv'
  <2>1. Len(client'.sent) = Len(client.sent) /\ client'.count = client.count /\ handler'.begun = handler.begun
        /\ (Carried = 0 => Carried' = 0) /\ (Admitted = 0 => Admitted' = 0)
    BY DEF ReaderGate, ReaderStays, ReaderEnds, Inv, WireType, ClientType, HandlerType, ReaderType,
           ResultsType, MessageInv, Reads, Holds, Queued, Carried, Admitted, None, Messages
  <2>. QED  BY <2>1, CountKept DEF Inv
<1>5. OrderInv'
  <2>1. shared'.active = shared.active /\ (Offered' => Offered)
    BY DEF ReaderGate, ReaderEnds, Inv, WireType, ReaderType, ResultsType, SharedType, Offered, Queued
  <2>2. UNCHANGED <<handler, turn, rows, value>>
    BY DEF ReaderGate, ReaderStays
  <2>. QED  BY <2>1, <2>2 DEF Inv, OrderInv, Settled, Current
<1>6. RecordInv'
  BY RecordsStay DEF ReaderGate, ReaderStays, ReaderEnds, Inv, WireType, HandlerType, SharedType
<1>. QED  BY <1>1, <1>2, <1>3, <1>4, <1>5, <1>6 DEF Inv

(* A message leaves the client and is with the reader.                     *)
LEMMA ReaderReadKeeps ==
    ASSUME TurnsAssumption, Inv, ReaderRead
    PROVE  Inv'
<1>1. WireType'
  <2>1. ClientType'
    BY DEF ReaderRead, Concurrent, ReaderStays, Inv, WireType, ClientType, ReaderType
  <2>2. ReaderType'
    BY DEF ReaderRead, Concurrent, ReaderStays, Inv, WireType, ClientType, ReaderType, Messages
  <2>3. ResultsType' /\ SharedType' /\ HandlerType'
    BY DEF ReaderRead, Concurrent, ReaderStays, Inv, WireType, ResultsType, SharedType, HandlerType
  <2>. QED  BY <2>1, <2>2, <2>3 DEF WireType
<1>2. TurnType'
  BY RecordsStay DEF ReaderRead, Concurrent, ReaderStays, Inv, WireType, HandlerType, SharedType
<1>3. MessageInv'
  BY DEF ReaderRead, Concurrent, ReaderStays, Inv, WireType, ClientType, ReaderType, ResultsType,
         SharedType, HandlerType, MessageInv, Reads, Queued, None, Messages
<1>4. CountInv'
  <2>1. /\ client'.count = client.count /\ handler'.begun = handler.begun /\ Admitted' = Admitted
        /\ Carried = 0 /\ Carried' \in {0, 1}
    BY DEF ReaderRead, Concurrent, ReaderStays, Inv, WireType, ClientType, HandlerType, ReaderType,
           ResultsType, MessageInv, Reads, Holds, Queued, Carried, Admitted, None, Messages
  <2>2. CASE client.sent # <<>> /\ client' = [client EXCEPT !.sent = Tail(@)]
    <3>1. Len(client'.sent) = Len(client.sent) - 1
      BY <2>2 DEF Inv, WireType, ClientType
    <3>2. WireType /\ CountInv
      BY DEF Inv
    <3>3. Len(client.sent) \in Int /\ client.count \in Int /\ handler.begun \in Int /\ Admitted \in Int
      BY <3>2, Numbers
    <3>4. CASE Carried' = 1
      BY <2>1, <3>1, <3>2, <3>3, <3>4 DEF CountInv
    <3>5. CASE Carried' = 0
      BY <2>1, <3>1, <3>2, <3>3, <3>5 DEF CountInv
    <3>. QED  BY <2>1, <3>4, <3>5
  <2>3. CASE client' = client /\ reader'.got = "error"
    <3>1. Carried' = 0
      BY <2>3 DEF ReaderRead, Concurrent, ReaderStays, Inv, WireType, ClientType, HandlerType,
             ReaderType, ResultsType, MessageInv, Reads, Holds, Queued, Carried, Admitted, None,
             Messages
    <3>. QED  BY <2>1, <2>3, <3>1, CountKept DEF Inv
  <2>. QED  BY <2>2, <2>3 DEF ReaderRead
<1>5. OrderInv'
  BY DEF ReaderRead, Concurrent, ReaderStays, Inv, WireType, ClientType, ReaderType, ResultsType,
         SharedType, HandlerType, TurnType, TurnState, MessageInv, OrderInv, Settled, Offered,
         Queued, Current, Turns, None, Kinds, Messages, Reads
<1>6. RecordInv'
  BY RecordsStay DEF ReaderRead, Concurrent, ReaderStays, Inv, WireType, HandlerType, SharedType
<1>. QED  BY <1>1, <1>2, <1>3, <1>4, <1>5, <1>6 DEF Inv

(* The reader puts what it read into the channel.                          *)
LEMMA ReaderSendKeeps ==
    ASSUME TurnsAssumption, Inv, ReaderSend
    PROVE  Inv'
<1>1. WireType'
  <2>1. ReaderType'
    BY DEF ReaderSend, ReaderStays, Inv, WireType, ReaderType, ResultsType, SharedType
  <2>2. ResultsType'
    <3>1. reader.got \in Messages \cup {"error"}
      BY DEF ReaderSend, Inv, WireType, ReaderType, MessageInv
    <3>2. <<reader.got>> \in Seq(Messages \cup {"error"})
      BY <3>1
    <3>. QED  BY <3>2 DEF ReaderSend, Inv, WireType, ResultsType
  <2>3. SharedType'
    BY DEF ReaderSend, ReaderStays, Inv, WireType, ReaderType, ResultsType, SharedType
  <2>4. ClientType' /\ HandlerType'
    BY DEF ReaderSend, ReaderStays, Inv, WireType, ClientType, HandlerType
  <2>. QED  BY <2>1, <2>2, <2>3, <2>4 DEF WireType
<1>2. TurnType'
  BY RecordsStay DEF ReaderSend, ReaderStays, Inv, WireType, HandlerType, SharedType
<1>3. MessageInv'
  BY DEF ReaderSend, ReaderStays, Inv, WireType, ClientType, ReaderType, ResultsType, SharedType,
         HandlerType, MessageInv, Reads, Queued, None, Messages
<1>4. CountInv'
  <2>1. Len(client'.sent) = Len(client.sent) /\ client'.count = client.count /\ handler'.begun = handler.begun
        /\ (Carried = 0 => Carried' = 0) /\ (Admitted = 0 => Admitted' = 0)
    BY DEF ReaderSend, ReaderStays, Inv, WireType, ClientType, HandlerType, ReaderType, ResultsType,
           MessageInv, Reads, Holds, Queued, Carried, Admitted, None, Messages
  <2>. QED  BY <2>1, CountKept DEF Inv
<1>5. OrderInv'
  BY DEF ReaderSend, ReaderStays, Inv, WireType, ClientType, ReaderType, ResultsType, SharedType,
         HandlerType, TurnType, TurnState, MessageInv, OrderInv, Settled, Offered, Queued, Current,
         Turns, None, Kinds, Messages, Reads
<1>6. RecordInv'
  BY RecordsStay DEF ReaderSend, ReaderStays, Inv, WireType, HandlerType, SharedType
<1>. QED  BY <1>1, <1>2, <1>3, <1>4, <1>5, <1>6 DEF Inv

(* The reader flags a concurrent message and cancels the newest turn.      *)
LEMMA ReaderFlagKeeps ==
    ASSUME TurnsAssumption, Inv, ReaderFlag
    PROVE  Inv'
<1>1. WireType'
  <2>1. ReaderType'
    BY DEF ReaderFlag, ReaderStays, Inv, WireType, ReaderType, SharedType
  <2>2. SharedType'
    BY DEF ReaderFlag, ReaderStays, Inv, WireType, ReaderType, SharedType
  <2>3. ClientType' /\ ResultsType' /\ HandlerType'
    BY DEF ReaderFlag, ReaderStays, Inv, WireType, ClientType, ResultsType, HandlerType
  <2>. QED  BY <2>1, <2>2, <2>3 DEF WireType
<1>2. TurnType'
  <2>1. turn' \in [Turns -> TurnState]
    BY DEF ReaderFlag, Inv, TurnType, TurnState
  <2>. QED  BY <2>1 DEF ReaderFlag, ReaderStays, Inv, TurnType, Current
<1>3. MessageInv'
  BY DEF ReaderFlag, ReaderStays, Inv, WireType, ClientType, ReaderType, ResultsType, SharedType,
         HandlerType, MessageInv, Reads, Queued, None, Messages
<1>4. CountInv'
  <2>1. Len(client'.sent) = Len(client.sent) /\ client'.count = client.count /\ handler'.begun = handler.begun
        /\ (Carried = 0 => Carried' = 0) /\ (Admitted = 0 => Admitted' = 0)
    BY DEF ReaderFlag, ReaderStays, Inv, WireType, ClientType, HandlerType, ReaderType, ResultsType,
           MessageInv, Reads, Holds, Queued, Carried, Admitted, None, Messages
  <2>. QED  BY <2>1, CountKept DEF Inv
<1>5. OrderInv'
  BY DEF ReaderFlag, ReaderStays, Inv, WireType, ClientType, ReaderType, ResultsType, SharedType,
         HandlerType, TurnType, TurnState, MessageInv, OrderInv, Settled, Offered, Queued, Current,
         Turns, None, Kinds, Messages, Reads
<1>6. RecordInv'
  BY DEF ReaderFlag, ReaderStays, Inv, WireType, ClientType, ReaderType, ResultsType, SharedType,
         HandlerType, TurnType, TurnState, RowState, OrderInv, RecordInv, Told, Running, Canceled,
         Current, Turns, Kinds, None, Settled
<1>. QED  BY <1>1, <1>2, <1>3, <1>4, <1>5, <1>6 DEF Inv

(* The reader drops a violation nobody asks for.                           *)
LEMMA ReaderGivesUpKeeps ==
    ASSUME TurnsAssumption, Inv, ReaderGivesUp
    PROVE  Inv'
<1>1. WireType'
  <2>1. ReaderType'
    BY DEF ReaderGivesUp, ReaderStays, ReaderEnds, Inv, WireType, ReaderType, ResultsType
  <2>2. ResultsType'
    BY DEF ReaderGivesUp, ReaderStays, ReaderEnds, Inv, WireType, ReaderType, ResultsType
  <2>3. ClientType' /\ SharedType' /\ HandlerType'
    BY DEF ReaderGivesUp, ReaderStays, ReaderEnds, Inv, WireType, ClientType, SharedType,
           HandlerType
  <2>. QED  BY <2>1, <2>2, <2>3 DEF WireType
<1>2. TurnType'
  BY RecordsStay DEF ReaderGivesUp, ReaderStays, ReaderEnds, Inv, WireType, HandlerType, SharedType
<1>3. MessageInv'
  BY DEF ReaderGivesUp, ReaderStays, ReaderEnds, Inv, WireType, ClientType, ReaderType, ResultsType,
         SharedType, HandlerType, MessageInv, Reads, Queued, None, Messages
<1>4. CountInv'
  <2>1. Len(client'.sent) = Len(client.sent) /\ client'.count = client.count /\ handler'.begun = handler.begun
        /\ (Carried = 0 => Carried' = 0) /\ (Admitted = 0 => Admitted' = 0)
    BY DEF ReaderGivesUp, ReaderStays, ReaderEnds, Inv, WireType, ClientType, HandlerType,
           ReaderType, ResultsType, MessageInv, Reads, Holds, Queued, Carried, Admitted, None,
           Messages
  <2>. QED  BY <2>1, CountKept DEF Inv
<1>5. OrderInv'
  BY DEF ReaderGivesUp, ReaderStays, ReaderEnds, Inv, WireType, ClientType, ReaderType, ResultsType,
         SharedType, HandlerType, TurnType, TurnState, MessageInv, OrderInv, Settled, Offered,
         Queued, Current, Turns, None, Kinds, Messages, Reads
<1>6. RecordInv'
  BY RecordsStay DEF ReaderGivesUp, ReaderStays, ReaderEnds, Inv, WireType, HandlerType, SharedType
<1>. QED  BY <1>1, <1>2, <1>3, <1>4, <1>5, <1>6 DEF Inv

(* The handler takes the next message, or returns.                         *)
LEMMA ReceiveKeeps ==
    ASSUME TurnsAssumption, Inv, Receive
    PROVE  Inv'
<1>1. WireType'
  <2>1. <<>> \in Seq(Messages \cup {"error"})
    OBVIOUS
  <2>2. HandlerType' /\ SharedType'
    BY DEF Receive, Leaves, Returns, releaseReader, Inv, WireType, HandlerType, SharedType, None
  <2>3. ResultsType'
    BY <2>1 DEF Receive, Inv, WireType, ResultsType
  <2>4. ClientType' /\ ReaderType'
    BY ReceiveIs DEF Inv, WireType, ClientType, ReaderType
  <2>. QED  BY <2>2, <2>3, <2>4 DEF WireType
<1>2. TurnType'
  BY ReceiveIs, RecordsStay
<1>3. MessageInv'
  <2>1. Len(results.queue) <= 1 /\ Len(<<>>) = 0
    BY DEF Inv, MessageInv
  <2>2. UNCHANGED reader /\ (Queued' => Queued)
    BY ReceiveIs DEF Queued
  <2>3. Len(results'.queue) <= 1
    BY <2>1, ReceiveIs
  <2>4. CASE handler'.pc = "returned"
    BY <2>2, <2>3, <2>4, ReceiveIs DEF Inv, MessageInv, Reads
  <2>5. CASE handler'.pc = "admit"
    BY <2>2, <2>3, <2>5, ReceiveIs DEF Inv, MessageInv, Reads
  <2>. QED  BY <2>4, <2>5, ReceiveIs
<1>4. CountInv'
  <2>1. client' = client /\ handler'.begun = handler.begun /\ Admitted = 0
    BY DEF Receive, Leaves, Returns, Inv, WireType, HandlerType, Admitted
  <2>2. \/ Carried = 1 /\ Carried' = 0 /\ Admitted' = 1
        \/ (Carried = 0 => Carried' = 0) /\ Admitted' = 0
    BY DEF Receive, Leaves, Returns, releaseReader, Inv, WireType, ClientType, HandlerType,
           ReaderType, ResultsType, MessageInv, Reads, Holds, Queued, Carried, Admitted, None,
           Messages
  <2>3. CASE Carried = 1 /\ Carried' = 0 /\ Admitted' = 1
    <3>1. WireType /\ CountInv
      BY DEF Inv
    <3>2. Len(client.sent) \in Int /\ client.count \in Int /\ handler.begun \in Int
      BY <3>1, Numbers
    <3>. QED  BY <2>1, <2>3, <3>1, <3>2 DEF CountInv
  <2>4. CASE (Carried = 0 => Carried' = 0) /\ Admitted' = 0
    BY <2>1, <2>4, CountKept DEF Inv
  <2>. QED  BY <2>2, <2>3, <2>4
<1>5. OrderInv'
  <2>1. Current' = Current /\ \A j \in Turns \cup {0} : Settled(j)' = Settled(j)
    BY ReceiveIs DEF Current, Settled
  <2>2. Current \in Turns \cup {0}
    BY DEF Inv, WireType, HandlerType, Current, Turns, TurnsAssumption
  <2>3. handler'.pc = "admit" => shared'.active /\ ~Offered'
    BY ReceiveIs DEF Offered, Reads
  <2>. QED  BY <2>1, <2>2, <2>3, ReceiveIs DEF Inv, OrderInv
<1>6. RecordInv'
  BY ReceiveIs, RecordsStay
<1>. QED  BY <1>1, <1>2, <1>3, <1>4, <1>5, <1>6 DEF Inv

(* A turn begins: it is the newest from here on.                           *)
LEMMA AdmitBeginsKeeps ==
    ASSUME TurnsAssumption, Inv, AdmitBegins
    PROVE  Inv'
<1>1. WireType'
  <2>1. HandlerType'
    <3>1. WireType /\ CountInv /\ Admitted = 1
      BY DEF AdmitBegins, Inv, Admitted
    <3>2. Len(client.sent) \in Nat /\ client.count \in 0..MaxMessages /\ handler.begun \in Nat
      BY <3>1 DEF WireType, ClientType, HandlerType
    <3>3. Carried \in {0, 1}
      BY DEF Carried
    <3>4. handler.begun + 1 <= client.count
      BY <3>1, <3>2, <3>3 DEF CountInv
    <3>5. handler.begun + 1 \in 0..MaxMessages
      BY <3>2, <3>4 DEF TurnsAssumption
    <3>. QED  BY <3>5 DEF AdmitBegins, Leaves, Inv, WireType, HandlerType
  <2>2. ClientType' /\ ReaderType' /\ ResultsType' /\ SharedType'
    BY DEF AdmitBegins, Leaves, Inv, WireType, ClientType, ReaderType, ResultsType, SharedType
  <2>. QED  BY <2>1, <2>2 DEF WireType
<1>2. TurnType'
  BY DEF AdmitBegins, Leaves, Inv, WireType, HandlerType, ReaderType, TurnType, TurnState, TurnPCs,
         RowState, MessageInv, OrderInv, Kinds, Turns, Current, None
<1>3. MessageInv'
  BY DEF AdmitBegins, Leaves, Inv, WireType, ClientType, ReaderType, ResultsType, SharedType,
         HandlerType, MessageInv, Reads, Queued, None, Messages
<1>4. CountInv'
  <2>1. client' = client /\ Carried' = Carried /\ Admitted = 1 /\ Admitted' = 0
    BY DEF AdmitBegins, Leaves, Inv, WireType, HandlerType, Holds, Queued, Carried, Admitted
  <2>2. handler'.begun = handler.begun + 1
    BY DEF AdmitBegins, Leaves, Inv, WireType, HandlerType
  <2>3. WireType /\ CountInv
    BY DEF Inv
  <2>4. /\ Len(client.sent) \in Int /\ client.count \in Int /\ handler.begun \in Int
        /\ Carried \in Int /\ Admitted \in Int
    BY <2>3, Numbers
  <2>. QED  BY <2>1, <2>2, <2>3, <2>4 DEF CountInv
<1>5. OrderInv'
  <2>1. /\ handler.pc = "admit" /\ handler'.pc = "quota" /\ Current' = Current + 1 /\ value' = Current + 1
        /\ UNCHANGED <<reader, results, shared, turn>> /\ rows' = [rows EXCEPT ![Current + 1] = "running"]
    BY DEF AdmitBegins, Leaves, Inv, WireType, HandlerType, Current
  <2>2. Current \in Nat /\ Current + 1 \in Turns
    BY <1>1, <2>1 DEF WireType, HandlerType, Current, Turns, Inv
  <2>3. turn[Current + 1].pc = "idle"
    BY <2>2 DEF Inv, OrderInv
  <2>4. \A j \in Turns : j < Current + 1 => Settled(j)
    BY <2>1, <2>2 DEF Inv, OrderInv, Turns
  <2>5. \A j \in Turns : j > Current + 1 => turn[j].pc = "idle" /\ rows'[j] = None
    BY <2>1, <2>2 DEF Inv, OrderInv, Turns, TurnType
  <2>6. \A j \in Turns : turn[j].pc # "serve"
    BY <2>1 DEF Inv, OrderInv
  <2>7. \A j \in Turns : Settled(j)' = Settled(j)
    BY <2>1 DEF Settled
  <2>8. shared'.active /\ ~Offered'
    BY <2>1 DEF Inv, OrderInv, Offered, Queued
  <2>. QED  BY <2>1, <2>2, <2>3, <2>4, <2>5, <2>6, <2>7, <2>8 DEF Inv, OrderInv
<1>6. RecordInv'
  BY DEF AdmitBegins, Leaves, Inv, WireType, ClientType, ReaderType, ResultsType, SharedType,
         HandlerType, TurnType, TurnState, RowState, OrderInv, RecordInv, Told, Running, Canceled,
         Current, Turns, Kinds, None, Settled
<1>. QED  BY <1>1, <1>2, <1>3, <1>4, <1>5, <1>6 DEF Inv

(* A message is refused before a row is written for it.                    *)
LEMMA AdmitRefusesKeeps ==
    ASSUME TurnsAssumption, Inv, AdmitRefuses
    PROVE  Inv'
<1>1. WireType'
  <2>1. HandlerType'
    BY DEF AdmitRefuses, Leaves, Inv, WireType, HandlerType, SharedType
  <2>2. SharedType'
    BY DEF AdmitRefuses, Leaves, Inv, WireType, HandlerType, SharedType
  <2>3. ClientType' /\ ReaderType' /\ ResultsType'
    BY DEF AdmitRefuses, Leaves, Inv, WireType, ClientType, ReaderType, ResultsType
  <2>. QED  BY <2>1, <2>2, <2>3 DEF WireType
<1>2. TurnType'
  BY RecordsStay DEF AdmitRefuses, Leaves, Inv, WireType, HandlerType, SharedType
<1>3. MessageInv'
  BY DEF AdmitRefuses, Leaves, Inv, WireType, ClientType, ReaderType, ResultsType, SharedType,
         HandlerType, MessageInv, Reads, Queued, None, Messages
<1>4. CountInv'
  <2>1. Len(client'.sent) = Len(client.sent) /\ client'.count = client.count /\ handler'.begun = handler.begun
        /\ (Carried = 0 => Carried' = 0) /\ (Admitted = 0 => Admitted' = 0)
    BY DEF AdmitRefuses, Leaves, Inv, WireType, ClientType, HandlerType, ReaderType, ResultsType,
           MessageInv, Reads, Holds, Queued, Carried, Admitted, None, Messages
  <2>. QED  BY <2>1, CountKept DEF Inv
<1>5. OrderInv'
  BY DEF AdmitRefuses, Leaves, Inv, WireType, ClientType, ReaderType, ResultsType, SharedType,
         HandlerType, TurnType, TurnState, MessageInv, OrderInv, Settled, Offered, Queued, Current,
         Turns, None, Kinds, Messages, Reads
<1>6. RecordInv'
  BY RecordsStay DEF AdmitRefuses, Leaves, Inv, WireType, HandlerType, SharedType
<1>. QED  BY <1>1, <1>2, <1>3, <1>4, <1>5, <1>6 DEF Inv

(* The newest turn is served.                                              *)
LEMMA QuotaGrantedKeeps ==
    ASSUME TurnsAssumption, Inv, QuotaGranted
    PROVE  Inv'
<1>1. WireType'
  <2>1. HandlerType'
    BY DEF QuotaGranted, Leaves, Inv, WireType, HandlerType
  <2>2. ClientType' /\ ReaderType' /\ ResultsType' /\ SharedType'
    BY DEF QuotaGranted, Leaves, Inv, WireType, ClientType, ReaderType, ResultsType, SharedType
  <2>. QED  BY <2>1, <2>2 DEF WireType
<1>2. TurnType'
  <2>1. Current \in Turns
    BY CurrentIs DEF QuotaGranted, Inv
  <2>2. turn' \in [Turns -> TurnState]
    BY <2>1 DEF QuotaGranted, Inv, TurnType, TurnState, TurnPCs
  <2>. QED  BY <2>2 DEF QuotaGranted, Leaves, Inv, TurnType, Current, HandlerType, WireType
<1>3. MessageInv'
  BY DEF QuotaGranted, Leaves, Inv, WireType, ClientType, ReaderType, ResultsType, SharedType,
         HandlerType, MessageInv, Reads, Queued, None, Messages
<1>4. CountInv'
  <2>1. Len(client'.sent) = Len(client.sent) /\ client'.count = client.count /\ handler'.begun = handler.begun
        /\ (Carried = 0 => Carried' = 0) /\ (Admitted = 0 => Admitted' = 0)
    BY DEF QuotaGranted, Leaves, Inv, WireType, ClientType, HandlerType, ReaderType, ResultsType,
           MessageInv, Reads, Holds, Queued, Carried, Admitted, None, Messages
  <2>. QED  BY <2>1, CountKept DEF Inv
<1>5. OrderInv'
  BY DEF QuotaGranted, Leaves, Inv, WireType, ClientType, ReaderType, ResultsType, SharedType,
         HandlerType, TurnType, TurnState, MessageInv, OrderInv, Settled, Offered, Queued, Current,
         Turns, None, Kinds, Messages, Reads
<1>6. RecordInv'
  BY DEF QuotaGranted, Leaves, Inv, WireType, ClientType, ReaderType, ResultsType, SharedType,
         HandlerType, TurnType, TurnState, RowState, OrderInv, RecordInv, Told, Running, Canceled,
         Current, Turns, Kinds, None, Settled
<1>. QED  BY <1>1, <1>2, <1>3, <1>4, <1>5, <1>6 DEF Inv

(* The newest turn is refused its quota and is done.                       *)
LEMMA QuotaRefusedKeeps ==
    ASSUME TurnsAssumption, Inv, QuotaRefused
    PROVE  Inv'
<1>1. WireType'
  <2>1. HandlerType'
    BY DEF QuotaRefused, Leaves, Inv, WireType, HandlerType, SharedType
  <2>2. SharedType'
    BY DEF QuotaRefused, Leaves, Inv, WireType, HandlerType, SharedType
  <2>3. ClientType' /\ ReaderType' /\ ResultsType'
    BY DEF QuotaRefused, Leaves, Inv, WireType, ClientType, ReaderType, ResultsType
  <2>. QED  BY <2>1, <2>2, <2>3 DEF WireType
<1>2. TurnType'
  BY DEF QuotaRefused, Leaves, Inv, WireType, HandlerType, ReaderType, TurnType, TurnState, TurnPCs,
         RowState, MessageInv, OrderInv, Kinds, Turns, Current, None
<1>3. MessageInv'
  BY DEF QuotaRefused, Leaves, Inv, WireType, ClientType, ReaderType, ResultsType, SharedType,
         HandlerType, MessageInv, Reads, Queued, None, Messages
<1>4. CountInv'
  <2>1. Len(client'.sent) = Len(client.sent) /\ client'.count = client.count /\ handler'.begun = handler.begun
        /\ (Carried = 0 => Carried' = 0) /\ (Admitted = 0 => Admitted' = 0)
    BY DEF QuotaRefused, Leaves, Inv, WireType, ClientType, HandlerType, ReaderType, ResultsType,
           MessageInv, Reads, Holds, Queued, Carried, Admitted, None, Messages
  <2>. QED  BY <2>1, CountKept DEF Inv
<1>5. OrderInv'
  BY DEF QuotaRefused, Leaves, Inv, WireType, ClientType, ReaderType, ResultsType, SharedType,
         HandlerType, TurnType, TurnState, MessageInv, OrderInv, Settled, Offered, Queued, Current,
         Turns, None, Kinds, Messages, Reads
<1>6. RecordInv'
  BY DEF QuotaRefused, Leaves, Inv, WireType, ClientType, ReaderType, ResultsType, SharedType,
         HandlerType, TurnType, TurnState, RowState, OrderInv, RecordInv, Told, Running, Canceled,
         Current, Turns, Kinds, None, Settled
<1>. QED  BY <1>1, <1>2, <1>3, <1>4, <1>5, <1>6 DEF Inv

(* The handler keeps a message for after the turn it watches.              *)
LEMMA WatchMessageKeeps ==
    ASSUME TurnsAssumption, Inv, WatchMessage
    PROVE  Inv'
<1>1. WireType'
  <2>1. HandlerType'
    <3>1. Head(results.queue) \in Messages
      BY DEF WatchMessage, Inv, WireType, ResultsType
    <3>. QED  BY <3>1 DEF WatchMessage, Leaves, Inv, WireType, HandlerType
  <2>2. ResultsType'
    <3>1. <<>> \in Seq(Messages \cup {"error"})
      OBVIOUS
    <3>. QED  BY <3>1 DEF WatchMessage, Inv, WireType, ResultsType
  <2>3. ClientType' /\ ReaderType' /\ SharedType'
    BY DEF WatchMessage, Leaves, Inv, WireType, ClientType, ReaderType, SharedType
  <2>. QED  BY <2>1, <2>2, <2>3 DEF WireType
<1>2. TurnType'
  BY RecordsStay DEF WatchMessage, Leaves, Inv, WireType, HandlerType, SharedType
<1>3. MessageInv'
  BY DEF WatchMessage, Leaves, Inv, WireType, ClientType, ReaderType, ResultsType, SharedType,
         HandlerType, MessageInv, Reads, Queued, None, Messages
<1>4. CountInv'
  <2>1. Len(client'.sent) = Len(client.sent) /\ client'.count = client.count /\ handler'.begun = handler.begun
        /\ (Carried = 0 => Carried' = 0) /\ (Admitted = 0 => Admitted' = 0)
    BY DEF WatchMessage, Leaves, Inv, WireType, ClientType, HandlerType, ReaderType, ResultsType,
           MessageInv, Reads, Holds, Queued, Carried, Admitted, None, Messages
  <2>. QED  BY <2>1, CountKept DEF Inv
<1>5. OrderInv'
  BY DEF WatchMessage, Leaves, Inv, WireType, ClientType, ReaderType, ResultsType, SharedType,
         HandlerType, TurnType, TurnState, MessageInv, OrderInv, Settled, Offered, Queued, Current,
         Turns, None, Kinds, Messages, Reads
<1>6. RecordInv'
  BY RecordsStay DEF WatchMessage, Leaves, Inv, WireType, HandlerType, SharedType
<1>. QED  BY <1>1, <1>2, <1>3, <1>4, <1>5, <1>6 DEF Inv

(* The client has left: the newest turn is canceled.                       *)
LEMMA WatchEndsKeeps ==
    ASSUME TurnsAssumption, Inv, WatchEnds
    PROVE  Inv'
<1>1. WireType'
  <2>1. HandlerType'
    BY DEF WatchEnds, Leaves, Inv, WireType, HandlerType, ResultsType
  <2>2. ResultsType'
    <3>1. <<>> \in Seq(Messages \cup {"error"})
      OBVIOUS
    <3>. QED  BY <3>1 DEF WatchEnds, Inv, WireType, ResultsType
  <2>3. ClientType' /\ ReaderType' /\ SharedType'
    BY DEF WatchEnds, Leaves, Inv, WireType, ClientType, ReaderType, SharedType
  <2>. QED  BY <2>1, <2>2, <2>3 DEF WireType
<1>2. TurnType'
  <2>1. Current \in Turns
    BY CurrentIs DEF WatchEnds, Inv
  <2>2. turn' \in [Turns -> TurnState]
    BY <2>1 DEF WatchEnds, Inv, TurnType, TurnState
  <2>. QED  BY <2>2 DEF WatchEnds, Leaves, Inv, TurnType, Current
<1>3. MessageInv'
  BY DEF WatchEnds, Leaves, Inv, WireType, ClientType, ReaderType, ResultsType, SharedType,
         HandlerType, MessageInv, Reads, Queued, None, Messages
<1>4. CountInv'
  <2>1. Len(client'.sent) = Len(client.sent) /\ client'.count = client.count /\ handler'.begun = handler.begun
        /\ (Carried = 0 => Carried' = 0) /\ (Admitted = 0 => Admitted' = 0)
    BY DEF WatchEnds, Leaves, Inv, WireType, ClientType, HandlerType, ReaderType, ResultsType,
           MessageInv, Reads, Holds, Queued, Carried, Admitted, None, Messages
  <2>. QED  BY <2>1, CountKept DEF Inv
<1>5. OrderInv'
  BY DEF WatchEnds, Leaves, Inv, WireType, ClientType, ReaderType, ResultsType, SharedType,
         HandlerType, TurnType, TurnState, MessageInv, OrderInv, Settled, Offered, Queued, Current,
         Turns, None, Kinds, Messages, Reads
<1>6. RecordInv'
  BY DEF WatchEnds, Leaves, Inv, WireType, ClientType, ReaderType, ResultsType, SharedType,
         HandlerType, TurnType, TurnState, RowState, OrderInv, RecordInv, Told, Running, Canceled,
         Current, Turns, Kinds, None, Settled
<1>. QED  BY <1>1, <1>2, <1>3, <1>4, <1>5, <1>6 DEF Inv

(* The handler takes a violation.                                          *)
LEMMA WatchViolationKeeps ==
    ASSUME TurnsAssumption, Inv, WatchViolation
    PROVE  Inv'
<1>1. WireType'
  <2>1. ReaderType'
    BY DEF WatchViolation, ReaderEnds, Leaves, Inv, WireType, ReaderType, ResultsType, HandlerType
  <2>2. ResultsType'
    BY DEF WatchViolation, ReaderEnds, Leaves, Inv, WireType, ReaderType, ResultsType, HandlerType
  <2>3. HandlerType'
    BY DEF WatchViolation, ReaderEnds, Leaves, Inv, WireType, ReaderType, ResultsType, HandlerType
  <2>4. ClientType' /\ SharedType'
    BY DEF WatchViolation, ReaderEnds, Leaves, Inv, WireType, ClientType, SharedType
  <2>. QED  BY <2>1, <2>2, <2>3, <2>4 DEF WireType
<1>2. TurnType'
  BY RecordsStay DEF WatchViolation, ReaderEnds, Leaves, Inv, WireType, HandlerType, SharedType
<1>3. MessageInv'
  BY DEF WatchViolation, ReaderEnds, Leaves, Inv, WireType, ClientType, ReaderType, ResultsType,
         SharedType, HandlerType, MessageInv, Reads, Queued, None, Messages
<1>4. CountInv'
  <2>1. Len(client'.sent) = Len(client.sent) /\ client'.count = client.count /\ handler'.begun = handler.begun
        /\ (Carried = 0 => Carried' = 0) /\ (Admitted = 0 => Admitted' = 0)
    BY DEF WatchViolation, ReaderEnds, Leaves, Inv, WireType, ClientType, HandlerType, ReaderType,
           ResultsType, MessageInv, Reads, Holds, Queued, Carried, Admitted, None, Messages
  <2>. QED  BY <2>1, CountKept DEF Inv
<1>5. OrderInv'
  BY DEF WatchViolation, ReaderEnds, Leaves, Inv, WireType, ClientType, ReaderType, ResultsType,
         SharedType, HandlerType, TurnType, TurnState, MessageInv, OrderInv, Settled, Offered,
         Queued, Current, Turns, None, Kinds, Messages, Reads
<1>6. RecordInv'
  BY RecordsStay DEF WatchViolation, ReaderEnds, Leaves, Inv, WireType, HandlerType, SharedType
<1>. QED  BY <1>1, <1>2, <1>3, <1>4, <1>5, <1>6 DEF Inv

(* The handler returns when the turn it waited for is done.                *)
LEMMA DrainKeeps ==
    ASSUME TurnsAssumption, Inv, Drain
    PROVE  Inv'
<1>1. WireType'
  <2>1. HandlerType'
    BY DEF Drain, Returns, Leaves, Inv, WireType, HandlerType, SharedType
  <2>2. SharedType'
    BY DEF Drain, Returns, Leaves, Inv, WireType, HandlerType, SharedType
  <2>3. ClientType' /\ ReaderType' /\ ResultsType'
    BY DEF Drain, Returns, Leaves, Inv, WireType, ClientType, ReaderType, ResultsType
  <2>. QED  BY <2>1, <2>2, <2>3 DEF WireType
<1>2. TurnType'
  BY DEF Drain, Returns, Leaves, Inv, WireType, HandlerType, ReaderType, TurnType, TurnState,
         TurnPCs, RowState, MessageInv, OrderInv, Kinds, Turns, Current, None
<1>3. MessageInv'
  BY DEF Drain, Returns, Leaves, Inv, WireType, ClientType, ReaderType, ResultsType, SharedType,
         HandlerType, MessageInv, Reads, Queued, None, Messages
<1>4. CountInv'
  <2>1. Len(client'.sent) = Len(client.sent) /\ client'.count = client.count /\ handler'.begun = handler.begun
        /\ (Carried = 0 => Carried' = 0) /\ (Admitted = 0 => Admitted' = 0)
    BY DEF Drain, Returns, Leaves, Inv, WireType, ClientType, HandlerType, ReaderType, ResultsType,
           MessageInv, Reads, Holds, Queued, Carried, Admitted, None, Messages
  <2>. QED  BY <2>1, CountKept DEF Inv
<1>5. OrderInv'
  BY DEF Drain, Returns, Leaves, Inv, WireType, ClientType, ReaderType, ResultsType, SharedType,
         HandlerType, TurnType, TurnState, MessageInv, OrderInv, Settled, Offered, Queued, Current,
         Turns, None, Kinds, Messages, Reads
<1>6. RecordInv'
  BY DEF Drain, Returns, Leaves, Inv, WireType, ClientType, ReaderType, ResultsType, SharedType,
         HandlerType, TurnType, TurnState, RowState, OrderInv, RecordInv, Told, Running, Canceled,
         Current, Turns, Kinds, None, Settled
<1>. QED  BY <1>1, <1>2, <1>3, <1>4, <1>5, <1>6 DEF Inv

(* The turn that is watched is done.                                       *)
LEMMA WatchDoneKeeps ==
    ASSUME TurnsAssumption, Inv, WatchDone
    PROVE  Inv'
<1>1. WireType'
  <2>1. HandlerType'
    BY DEF WatchDone, Leaves, Inv, WireType, HandlerType, SharedType
  <2>2. SharedType'
    BY DEF WatchDone, Leaves, Inv, WireType, HandlerType, SharedType
  <2>3. ClientType' /\ ReaderType' /\ ResultsType'
    BY DEF WatchDone, Leaves, Inv, WireType, ClientType, ReaderType, ResultsType
  <2>. QED  BY <2>1, <2>2, <2>3 DEF WireType
<1>2. TurnType'
  BY RecordsStay DEF WatchDone, Leaves, Inv, WireType, HandlerType, SharedType
<1>3. MessageInv'
  BY DEF WatchDone, Leaves, Inv, WireType, ClientType, ReaderType, ResultsType, SharedType,
         HandlerType, MessageInv, Reads, Queued, None, Messages
<1>4. CountInv'
  <2>1. Len(client'.sent) = Len(client.sent) /\ client'.count = client.count /\ handler'.begun = handler.begun
        /\ (Carried = 0 => Carried' = 0) /\ (Admitted = 0 => Admitted' = 0)
    BY DEF WatchDone, Leaves, Inv, WireType, ClientType, HandlerType, ReaderType, ResultsType,
           MessageInv, Reads, Holds, Queued, Carried, Admitted, None, Messages
  <2>. QED  BY <2>1, CountKept DEF Inv
<1>5. OrderInv'
  BY DEF WatchDone, Leaves, Inv, WireType, ClientType, ReaderType, ResultsType, SharedType,
         HandlerType, TurnType, TurnState, MessageInv, OrderInv, Settled, Offered, Queued, Current,
         Turns, None, Kinds, Messages, Reads
<1>6. RecordInv'
  BY RecordsStay DEF WatchDone, Leaves, Inv, WireType, HandlerType, SharedType
<1>. QED  BY <1>1, <1>2, <1>3, <1>4, <1>5, <1>6 DEF Inv

(* The handler goes on, unless a violation was flagged.                    *)
LEMMA TakeKeeps ==
    ASSUME TurnsAssumption, Inv, Take
    PROVE  Inv'
<1>1. WireType'
  <2>1. ReaderType'
    BY DEF Take, ReaderEnds, Leaves, Returns, Inv, WireType, ReaderType, ResultsType, HandlerType,
           SharedType
  <2>2. ResultsType'
    BY DEF Take, ReaderEnds, Leaves, Returns, Inv, WireType, ReaderType, ResultsType, HandlerType,
           SharedType
  <2>3. HandlerType'
    BY DEF Take, ReaderEnds, Leaves, Returns, Inv, WireType, ReaderType, ResultsType, HandlerType,
           SharedType
  <2>4. SharedType'
    BY DEF Take, ReaderEnds, Leaves, Returns, Inv, WireType, ReaderType, ResultsType, HandlerType,
           SharedType
  <2>5. ClientType'
    BY DEF Take, ReaderEnds, Leaves, Returns, Inv, WireType, ClientType
  <2>. QED  BY <2>1, <2>2, <2>3, <2>4, <2>5 DEF WireType
<1>2. TurnType'
  BY RecordsStay DEF Take, ReaderEnds, Leaves, Returns, Inv, WireType, HandlerType, SharedType
<1>3. MessageInv'
  BY DEF Take, ReaderEnds, Leaves, Returns, Inv, WireType, ClientType, ReaderType, ResultsType,
         SharedType, HandlerType, MessageInv, Reads, Queued, None, Messages
<1>4. CountInv'
  <2>1. Len(client'.sent) = Len(client.sent) /\ client'.count = client.count /\ handler'.begun = handler.begun
        /\ (Carried = 0 => Carried' = 0) /\ (Admitted = 0 => Admitted' = 0)
    BY DEF Take, ReaderEnds, Leaves, Returns, Inv, WireType, ClientType, HandlerType, ReaderType,
           ResultsType, MessageInv, Reads, Holds, Queued, Carried, Admitted, None, Messages
  <2>. QED  BY <2>1, CountKept DEF Inv
<1>5. OrderInv'
  BY DEF Take, ReaderEnds, Leaves, Returns, Inv, WireType, ClientType, ReaderType, ResultsType,
         SharedType, HandlerType, TurnType, TurnState, MessageInv, OrderInv, Settled, Offered,
         Queued, Current, Turns, None, Kinds, Messages, Reads
<1>6. RecordInv'
  BY RecordsStay DEF Take, ReaderEnds, Leaves, Returns, Inv, WireType, HandlerType, SharedType
<1>. QED  BY <1>1, <1>2, <1>3, <1>4, <1>5, <1>6 DEF Inv

(* The connection is closed for a refused key or request.                  *)
LEMMA TakeClosesKeeps ==
    ASSUME TurnsAssumption, Inv, TakeCloses
    PROVE  Inv'
<1>1. WireType'
  <2>1. HandlerType'
    BY DEF TakeCloses, Returns, Leaves, Inv, WireType, HandlerType, SharedType
  <2>2. SharedType'
    BY DEF TakeCloses, Returns, Leaves, Inv, WireType, HandlerType, SharedType
  <2>3. ClientType' /\ ReaderType' /\ ResultsType'
    BY DEF TakeCloses, Returns, Leaves, Inv, WireType, ClientType, ReaderType, ResultsType
  <2>. QED  BY <2>1, <2>2, <2>3 DEF WireType
<1>2. TurnType'
  BY RecordsStay DEF TakeCloses, Returns, Leaves, Inv, WireType, HandlerType, SharedType
<1>3. MessageInv'
  BY DEF TakeCloses, Returns, Leaves, Inv, WireType, ClientType, ReaderType, ResultsType,
         SharedType, HandlerType, MessageInv, Reads, Queued, None, Messages
<1>4. CountInv'
  <2>1. Len(client'.sent) = Len(client.sent) /\ client'.count = client.count /\ handler'.begun = handler.begun
        /\ (Carried = 0 => Carried' = 0) /\ (Admitted = 0 => Admitted' = 0)
    BY DEF TakeCloses, Returns, Leaves, Inv, WireType, ClientType, HandlerType, ReaderType,
           ResultsType, MessageInv, Reads, Holds, Queued, Carried, Admitted, None, Messages
  <2>. QED  BY <2>1, CountKept DEF Inv
<1>5. OrderInv'
  BY DEF TakeCloses, Returns, Leaves, Inv, WireType, ClientType, ReaderType, ResultsType,
         SharedType, HandlerType, TurnType, TurnState, MessageInv, OrderInv, Settled, Offered,
         Queued, Current, Turns, None, Kinds, Messages, Reads
<1>6. RecordInv'
  BY RecordsStay DEF TakeCloses, Returns, Leaves, Inv, WireType, HandlerType, SharedType
<1>. QED  BY <1>1, <1>2, <1>3, <1>4, <1>5, <1>6 DEF Inv

(* The last event of a turn is seen.                                       *)
LEMMA TurnEventKeeps ==
    ASSUME TurnsAssumption, Inv, NEW i \in Turns, NEW kind \in Kinds, TurnEvent(i, kind)
    PROVE  Inv'
<1>1. WireType'
  <2>1. SharedType'
    BY DEF TurnEvent, TurnStays, Canceled, Inv, WireType, SharedType
  <2>2. ClientType' /\ ReaderType' /\ ResultsType' /\ HandlerType'
    BY DEF TurnEvent, TurnStays, Canceled, Inv, WireType, ClientType, ReaderType, ResultsType,
           HandlerType
  <2>. QED  BY <2>1, <2>2 DEF WireType
<1>2. TurnType'
  BY DEF TurnEvent, TurnStays, Canceled, Inv, WireType, HandlerType, ReaderType, TurnType,
         TurnState, TurnPCs, RowState, MessageInv, OrderInv, Kinds, Turns, Current, None
<1>3. MessageInv'
  BY DEF TurnEvent, TurnStays, Canceled, Inv, WireType, ClientType, ReaderType, ResultsType,
         SharedType, HandlerType, MessageInv, Reads, Queued, None, Messages
<1>4. CountInv'
  <2>1. Len(client'.sent) = Len(client.sent) /\ client'.count = client.count /\ handler'.begun = handler.begun
        /\ (Carried = 0 => Carried' = 0) /\ (Admitted = 0 => Admitted' = 0)
    BY DEF TurnEvent, TurnStays, Canceled, Inv, WireType, ClientType, HandlerType, ReaderType,
           ResultsType, MessageInv, Reads, Holds, Queued, Carried, Admitted, None, Messages
  <2>. QED  BY <2>1, CountKept DEF Inv
<1>5. OrderInv'
  BY DEF TurnEvent, TurnStays, Canceled, Inv, WireType, ClientType, ReaderType, ResultsType,
         SharedType, HandlerType, TurnType, TurnState, MessageInv, OrderInv, Settled, Offered,
         Queued, Current, Turns, None, Kinds, Messages, Reads
<1>6. RecordInv'
  BY DEF TurnEvent, TurnStays, Canceled, Inv, WireType, ClientType, ReaderType, ResultsType,
         SharedType, HandlerType, TurnType, TurnState, RowState, OrderInv, RecordInv, Told, Running,
         Current, Turns, Kinds, None, Settled
<1>. QED  BY <1>1, <1>2, <1>3, <1>4, <1>5, <1>6 DEF Inv

(* A turn fails before its last event.                                     *)
LEMMA TurnFailsKeeps ==
    ASSUME TurnsAssumption, Inv, NEW i \in Turns, TurnFails(i)
    PROVE  Inv'
<1>1. turn[i].pc = "serve" /\ Running(i)
  BY DEF TurnFails, Inv, OrderInv, TurnType, TurnState, Running
<1>2. PICK pc \in {"report", "finish"} : Step(i, pc)
  BY DEF TurnFails
<1>3. UNCHANGED told
  BY DEF TurnFails
<1>4. told' \in Seq([turn : Turns, kind : Kinds]) /\ \A j \in Turns : Told(j) => Told(j)'
  BY <1>3 DEF Inv, TurnType, Told
<1>5. UNCHANGED <<rows, marked>>
  BY DEF TurnFails
<1>6. pc # "mark"
  OBVIOUS
<1>7. pc = "finish" /\ i = Current => Canceled(i) \/ i \in marked' \/ Told(i)'
  <2>1. turn'[i].pc = pc /\ Step(i, IF Canceled(i) THEN "finish" ELSE "report")
    BY <1>2, StepIs DEF Inv, TurnPCs, TurnFails
  <2>2. ~Canceled(i) => turn'[i].pc = "report"
    BY <2>1, StepIs DEF Inv, TurnPCs
  <2>. QED  BY <2>1, <2>2
<1>8. UNCHANGED <<client, reader, results, shared, handler, value>>
  BY DEF TurnFails, TurnStays
<1>9. TurnType' /\ RecordInv' /\ \A j \in Turns : rows[j] = None => rows'[j] = None
  BY <1>1, <1>2, <1>4, <1>5, <1>7, <1>8, TurnRecordKept
<1>10. OrderInv'
  BY <1>1, <1>2, <1>6, <1>8, <1>9, TurnOrderKept
<1>. QED  BY <1>8, <1>9, <1>10, WireStays DEF Inv

(* The last event of a turn is written, or cannot be.                      *)
LEMMA TurnWriteKeeps ==
    ASSUME TurnsAssumption, Inv, NEW i \in Turns, TurnWrite(i)
    PROVE  Inv'
<1>1. turn[i].pc = "write" /\ turn[i].saw \in Kinds /\ Running(i)
  BY DEF TurnWrite, Inv, OrderInv, TurnType, TurnState, Running
<1>2. PICK pc \in {"report", "mark", "finish"} : Step(i, pc)
  BY DEF TurnWrite
<1>3. \/ UNCHANGED told
      \/ ~Canceled(i) /\ told' = Append(told, [turn |-> i, kind |-> turn[i].saw])
  BY DEF TurnWrite
<1>4. told' \in Seq([turn : Turns, kind : Kinds]) /\ \A j \in Turns : Told(j) => Told(j)'
  <2>1. CASE UNCHANGED told
    BY <2>1 DEF Inv, TurnType, Told
  <2>2. CASE told' = Append(told, [turn |-> i, kind |-> turn[i].saw])
    BY <1>1, <2>2, ToldGrows DEF Inv
  <2>. QED  BY <1>3, <2>1, <2>2
<1>5. MarkFailed(value) \/ UNCHANGED <<rows, marked>>
  BY DEF TurnWrite
<1>6. pc = "mark" => turn[i].saw # None
  BY <1>1 DEF Kinds, None
<1>7. pc = "finish" /\ i = Current => Canceled(i) \/ i \in marked' \/ Told(i)'
  <2>1. CASE ~Canceled(i) /\ pc = "finish" /\ i = Current
    <3>1. /\ told' = Append(told, [turn |-> i, kind |-> turn[i].saw])
          /\ IF turn[i].saw = "success" THEN UNCHANGED <<rows, marked>> ELSE MarkFailed(value)
      <4>1. turn'[i].pc = "finish"
        BY <1>2, <2>1, StepIs DEF Inv, TurnPCs
      <4>2. \A p \in TurnPCs : Step(i, p) => p = "finish"
        BY <4>1, StepIs DEF Inv
      <4>. QED  BY <2>1, <4>2 DEF TurnWrite, TurnPCs
    <3>2. CASE turn[i].saw = "success"
      BY <1>1, <3>1, <3>2, ToldGrows DEF Inv
    <3>3. CASE turn[i].saw # "success"
      <4>1. value = i /\ i # 0
        BY <1>1, <2>1 DEF Inv, RecordInv, Turns
      <4>. QED  BY <3>1, <3>3, <4>1, MarkIs
    <3>. QED  BY <3>2, <3>3
  <2>. QED  BY <2>1
<1>8. UNCHANGED <<client, reader, results, shared, handler, value>>
  BY DEF TurnWrite, TurnStays
<1>9. TurnType' /\ RecordInv' /\ \A j \in Turns : rows[j] = None => rows'[j] = None
  BY <1>1, <1>2, <1>4, <1>5, <1>7, <1>8, TurnRecordKept
<1>10. OrderInv'
  BY <1>1, <1>2, <1>6, <1>8, <1>9, TurnOrderKept
<1>. QED  BY <1>8, <1>9, <1>10, WireStays DEF Inv

(* A turn reports its failure.                                             *)
LEMMA TurnReportKeeps ==
    ASSUME TurnsAssumption, Inv, NEW i \in Turns, TurnReport(i)
    PROVE  Inv'
<1>1. turn[i].pc = "report" /\ Running(i)
  BY DEF TurnReport, Inv, OrderInv, TurnType, TurnState, Running
<1>2. PICK pc \in {"finish"} : Step(i, pc)
  BY DEF TurnReport
<1>3. \/ UNCHANGED told
      \/ told' = Append(told, [turn |-> i, kind |-> "error"])
  BY DEF TurnReport
<1>4. told' \in Seq([turn : Turns, kind : Kinds]) /\ \A j \in Turns : Told(j) => Told(j)'
  <2>1. CASE UNCHANGED told
    BY <2>1 DEF Inv, TurnType, Told
  <2>2. CASE told' = Append(told, [turn |-> i, kind |-> "error"])
    <3>1. [turn |-> i, kind |-> "error"] \in [turn : Turns, kind : Kinds]
      BY DEF Kinds
    <3>. QED  BY <2>2, <3>1, ToldGrows DEF Inv
  <2>. QED  BY <1>3, <2>1, <2>2
<1>5. MarkFailed(value)
  BY DEF TurnReport
<1>6. pc # "mark"
  OBVIOUS
<1>7. pc = "finish" /\ i = Current => Canceled(i) \/ i \in marked' \/ Told(i)'
  BY <1>1, <1>5, MarkIs DEF Inv, RecordInv, Turns
<1>8. UNCHANGED <<client, reader, results, shared, handler, value>>
  BY DEF TurnReport, TurnStays
<1>9. TurnType' /\ RecordInv' /\ \A j \in Turns : rows[j] = None => rows'[j] = None
  BY <1>1, <1>2, <1>4, <1>5, <1>7, <1>8, TurnRecordKept
<1>10. OrderInv'
  BY <1>1, <1>2, <1>6, <1>8, <1>9, TurnOrderKept
<1>. QED  BY <1>8, <1>9, <1>10, WireStays DEF Inv

(* A turn records that its answer failed.                                  *)
LEMMA TurnMarkKeeps ==
    ASSUME TurnsAssumption, Inv, NEW i \in Turns, TurnMark(i)
    PROVE  Inv'
<1>1. turn[i].pc = "mark" /\ Running(i)
  BY DEF TurnMark, Inv, OrderInv, TurnType, TurnState, Running
<1>2. PICK pc \in {"finish"} : Step(i, pc)
  BY DEF TurnMark
<1>3. UNCHANGED told
  BY DEF TurnMark
<1>4. told' \in Seq([turn : Turns, kind : Kinds]) /\ \A j \in Turns : Told(j) => Told(j)'
  BY <1>3 DEF Inv, TurnType, Told
<1>5. MarkFailed(value)
  BY DEF TurnMark
<1>6. pc # "mark"
  OBVIOUS
<1>7. pc = "finish" /\ i = Current => Canceled(i) \/ i \in marked' \/ Told(i)'
  BY <1>1, <1>5, MarkIs DEF Inv, RecordInv, Turns
<1>8. UNCHANGED <<client, reader, results, shared, handler, value>>
  BY DEF TurnMark, TurnStays
<1>9. TurnType' /\ RecordInv' /\ \A j \in Turns : rows[j] = None => rows'[j] = None
  BY <1>1, <1>2, <1>4, <1>5, <1>7, <1>8, TurnRecordKept
<1>10. OrderInv'
  BY <1>1, <1>2, <1>6, <1>8, <1>9, TurnOrderKept
<1>. QED  BY <1>8, <1>9, <1>10, WireStays DEF Inv

(* A turn is done, and its row is settled unless it was marked.            *)
LEMMA TurnFinishKeeps ==
    ASSUME TurnsAssumption, Inv, NEW i \in Turns, TurnFinish(i)
    PROVE  Inv'
<1>1. turn[i].pc = "finish" /\ Running(i) /\ Step(i, "done") /\ UNCHANGED <<marked, told>>
      /\ UNCHANGED <<client, reader, results, shared, handler, value>>
  BY DEF TurnFinish, TurnStays, Running
<1>2. /\ turn' \in [Turns -> TurnState] /\ turn'[i].pc = "done" /\ turn'[i].canceled = turn[i].canceled
      /\ \A j \in Turns \ {i} : turn'[j] = turn[j]
  BY <1>1, StepIs DEF Inv, TurnPCs
<1>3. /\ rows' \in [Turns -> RowState] /\ \A j \in Turns \ {i} : rows'[j] = rows[j]
      /\ rows'[i] = "running" => rows[i] = "running" /\ ~Canceled(i) /\ value \in marked
      /\ rows'[i] = "succeeded" => rows[i] = "succeeded" \/ (~Canceled(i) /\ value \notin marked)
      /\ rows[i] # "running" => rows'[i] = rows[i]
  BY DEF TurnFinish, Complete, Inv, TurnType, RowState
<1>4. TurnType'
  BY <1>1, <1>2, <1>3 DEF Inv, TurnType, Current
<1>5. OrderInv'
  BY <1>1, <1>3, TurnOrderKept DEF None
<1>6. \A j \in Turns : (Told(j)' <=> Told(j)) /\ Current' = Current
  BY <1>1 DEF Told, Current
<1>7. RecordInv'
  <2>1. \A j \in marked : j <= Current /\ rows'[j] # "running"
    BY <1>3 DEF Inv, RecordInv, TurnType
  <2>2. \A j \in Turns : Running(j)' /\ j = Current => value = j
    BY <1>2 DEF Inv, RecordInv, Running
  <2>3. \A j \in Turns : turn'[j].pc = "done" => rows'[j] # "running" \/ \E k \in marked : k # j
    BY <1>2, <1>3 DEF Inv, RecordInv
  <2>4. \A j \in Turns : turn'[j].pc = "finish" /\ j = Current => Canceled(j)' \/ j \in marked \/ Told(j)
    BY <1>1, <1>2 DEF Inv, RecordInv, Canceled
  <2>5. i = Current => value = i /\ (Canceled(i) \/ i \in marked \/ Told(i))
    BY <1>1 DEF Inv, RecordInv
  <2>6. \A j \in Turns : rows'[j] = "succeeded" /\ j = Current => Told(j)
    BY <1>3, <2>5 DEF Inv, RecordInv
  <2>. QED  BY <1>1, <1>6, <2>1, <2>2, <2>3, <2>4, <2>6 DEF RecordInv
<1>. QED  BY <1>1, <1>4, <1>5, <1>7, WireStays DEF Inv

-----------------------------------------------------------------------------
(* Theorems                                                                *)

(* The invariant holds at the start.                                       *)
LEMMA InitHolds == ASSUME TurnsAssumption, Init  PROVE Inv
<1>1. /\ <<>> \in Seq(Messages) /\ <<>> \in Seq(Messages \cup {"error"})
      /\ <<>> \in Seq([turn : Turns, kind : Kinds])
      /\ Len(<<>>) = 0
  OBVIOUS
<1>2. WireType
  BY <1>1 DEF Init, WireType, ClientType, ReaderType, ResultsType, SharedType, HandlerType, None,
     TurnsAssumption
<1>3. TurnType
  BY <1>1 DEF Init, TurnType, TurnState, TurnPCs, RowState, None
<1>4. MessageInv
  BY <1>1 DEF Init, MessageInv, Reads, Queued, None
<1>5. CountInv
  <2>1. Carried = 0 /\ Admitted = 0
    BY DEF Init, Carried, Admitted, Holds, Queued, None
  <2>. QED  BY <1>1, <2>1 DEF Init, CountInv
<1>6. OrderInv
  BY DEF Init, OrderInv, Settled, Current, Turns, Offered, Queued, None
<1>7. RecordInv
  BY DEF Init, RecordInv, Running, Current, Turns, None
<1>. QED  BY <1>2, <1>3, <1>4, <1>5, <1>6, <1>7 DEF Inv

(* Every step keeps the invariant.                                         *)
LEMMA NextKeeps == ASSUME TurnsAssumption, Inv, [Next]_vars  PROVE Inv'
<1>1. CASE \E m \in Messages : Send(m)
  BY <1>1, SendKeeps
<1>2. CASE Leave
  BY <1>2, LeaveKeeps
<1>3. CASE Reader
  BY <1>3, ReaderGateKeeps, ReaderReadKeeps, ReaderSendKeeps, ReaderFlagKeeps, ReaderGivesUpKeeps DEF Reader
<1>4. CASE Handler
  BY <1>4, ReceiveKeeps, AdmitBeginsKeeps, AdmitRefusesKeeps, QuotaGrantedKeeps, QuotaRefusedKeeps,
     WatchMessageKeeps, WatchEndsKeeps, WatchViolationKeeps, DrainKeeps, WatchDoneKeeps, TakeKeeps,
     TakeClosesKeeps DEF Handler
<1>5. CASE \E i \in Turns : Turn(i)
  BY <1>5, TurnEventKeeps, TurnFailsKeeps, TurnWriteKeeps, TurnReportKeeps, TurnMarkKeeps, TurnFinishKeeps
     DEF Turn, Kinds
<1>6. CASE UNCHANGED vars
  <2>1. UNCHANGED <<client, reader, results, shared, handler>>
        /\ UNCHANGED <<turn, value, rows, marked, told>>
    BY <1>6 DEF vars
  <2>2. OrderInv'
    BY <2>1 DEF Inv, OrderInv, Settled, Offered, Queued, Current
  <2>. QED  BY <2>1, <2>2, WireStays, RecordsStay DEF Inv
<1>. QED  BY <1>1, <1>2, <1>3, <1>4, <1>5, <1>6 DEF Next

(* The invariant of a connection: messages are in one place at a time and  *)
(* no more than were sent, every turn but the newest has seen its last     *)
(* event, and what is recorded while a turn is the newest is its own.      *)
THEOREM InvHolds == ASSUME TurnsAssumption  PROVE Spec => []Inv
<1>1. Init => Inv
  BY InitHolds
<1>2. Inv /\ [Next]_vars => Inv'
  BY NextKeeps
<1>. QED  BY <1>1, <1>2, PTL DEF Spec

(* Turns overlap only at the end of the older one: a turn that still runs  *)
(* when the next has begun has seen its last event.  And a turn that was   *)
(* alone is recorded as it went: its row is settled when it is done, and   *)
(* says succeeded only when its client was told so.                        *)
THEOREM TurnsAlwaysHold == ASSUME TurnsAssumption  PROVE Spec => []TurnsHold
<1>1. Inv => OverlapOnlyAtTheEnd
  BY DEF Inv, OrderInv, OverlapOnlyAtTheEnd, Settled, Running, Turns
<1>2. ASSUME Inv  PROVE RecordsFollowTurns
  <2>1. SUFFICES ASSUME NEW i \in Turns, Alone(i)
                 PROVE  /\ turn[i].pc = "done" => rows[i] # "running"
                        /\ rows[i] = "succeeded" =>
                             [turn |-> i, kind |-> "success"] \in {told[n] : n \in DOMAIN told}
    BY DEF RecordsFollowTurns
  <2>2. i = Current /\ \A j \in marked : j = i
    BY <2>1, <1>2 DEF Alone, Inv, TurnType
  <2>3. turn[i].pc = "done" => rows[i] # "running"
    BY <1>2, <2>2 DEF Inv, RecordInv
  <2>4. rows[i] = "succeeded" => Told(i)
    BY <1>2, <2>2 DEF Inv, RecordInv
  <2>. QED  BY <2>3, <2>4 DEF Told
<1>3. Inv => TurnsHold
  BY <1>1, <1>2 DEF TurnsHold
<1>. QED  BY <1>3, InvHolds, PTL

=============================================================================
