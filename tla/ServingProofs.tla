---------------------------- MODULE ServingProofs ----------------------------
(***************************************************************************)
(* Theorems about Serving, for every set of accounts and owners, every     *)
(* selector and transport policy, and every bound on events and changes.   *)
(***************************************************************************)
EXTENDS Serving, FiniteSetTheorems, TLAPS

-----------------------------------------------------------------------------
(* The inductive invariant *)

Items == {"created", "metadata", "delta", "success", "failed", "error", "chat error", "usage",
          "done", "json", "json error"}
Leases == {"none", "held", "spent", "known", "returned"}
Errors == {"none", "write", "canceled", "upstream", "previous", "limit", "quota", "abort", "bind",
           "conflict", "unavailable"}
OutType ==
    [told : Seq(Items), sources : SUBSET Nat, wrote : BOOLEAN, terminal : BOOLEAN,
     committed : BOOLEAN, broken : BOOLEAN, failure : BOOLEAN, finish : BOOLEAN,
     lease : Leases, record : {"none", "running", "succeeded", "failed", "canceled"},
     spoiled : BOOLEAN, err : Errors]
WireType ==
    [via : {"none", "websocket", "sse", "http"}, dials : Nat, renewed : BOOLEAN,
     pending : Seq(Events), emitted : BOOLEAN, unsafe : BOOLEAN, events : Nat,
     ended : {"no", "success", "failed", "error"}, code : {"none"} \cup Codes]

Retries == {"previous", "limit", "conflict"}
Attempt == {"copy", "select", "bind", "dial", "reading", "deliver", "returned"}
Reading == pc = "reading" /\ wire.ended = "no"

TypeInv ==
    /\ req \in Requests /\ Possible(req) /\ canceled \in BOOLEAN
    /\ plan = [forced |-> plan.forced, hinted |-> plan.hinted, hint |-> plan.hint,
               rebuilt |-> plan.rebuilt, retried |-> plan.retried]
    /\ wire \in WireType /\ err \in Errors
    /\ out \in OutType /\ (pc \notin {"release", "finish", "done"} => out.err = "none")
    /\ \E S : dispatches \in Seq(S)
    /\ pc \in Attempt \cup {"resolve", "admit", "answer", "refuse", "release", "finish", "done"}

(* Where a retry would go. *)
StayInv ==
    /\ pc = "resolve" => plan = NoPlan
    /\ pc \in Attempt \cup {"admit"} =>
         IF IsResponses THEN Continues => plan.forced = req.owner
         ELSE Continues => plan.forced = None /\ plan.hint = req.owner /\ ~plan.rebuilt
    /\ pc \in {"resolve", "admit"} => bound = None
    /\ Continues /\ bound # None => bound = req.owner
    /\ pc \in {"copy", "select", "bind"} /\ ~Continues /\ bound # None => plan.forced = bound
    /\ pc \in {"dial", "reading", "deliver"} => bound = account
    /\ pc = "returned" /\ err \in {"limit", "previous"} => bound = account
    /\ pc = "returned" /\ err = "conflict" =>
         req.session /\ (bound # None => plan.forced = bound)

(* How far an attempt came. *)
WireInv ==
    /\ \A i \in 1..Len(wire.pending) : ~Safe(wire.pending[i]) => i = Len(wire.pending) /\ pc = "deliver"
    /\ pc = "deliver" => wire.pending # <<>> /\ wire.emitted /\ wire.via = "websocket"
    /\ wire.emitted => wire.unsafe /\ Streams
    /\ pc = "reading" => dispatches # <<>> /\ (wire.via = "http" => ~Streams)
    /\ pc = "deliver" => dispatches # <<>> /\ wire.ended = "no"
    /\ pc = "reading" /\ wire.ended # "no" => wire.via = "sse" /\ wire.events > 0
    /\ wire.ended # "no" => dispatches # <<>>
    /\ pc \in {"returned", "answer"} /\ err = "none" => dispatches # <<>>

(* What the client holds of the attempt under way. *)
SourceInv ==
    /\ out.sources = {} \/ out.sources = {Len(dispatches)}
    /\ pc \in {"resolve", "admit", "copy", "select", "bind", "dial"} => out.sources = {}
    /\ ~Streams => out.sources = {}
    /\ pc = "reading" /\ wire.via = "websocket" /\ ~wire.emitted => out.sources = {}
    /\ pc = "reading" /\ wire.via = "sse" /\ wire.events = 0 => out.sources = {}
    /\ pc \in Attempt /\ out.sources # {} /\ ~out.wrote => pc = "returned" /\ err = "write"
    /\ pc \in Attempt \cup {"answer", "resolve", "admit"} /\ Told # {} => out.sources # {}
    /\ pc = "refuse" => out.told = <<>>

(* Paying and telling. *)
Ended == Told \cap (Successes \cup Failures)
PayInv ==
    /\ pc \in {"resolve", "admit"} =>
         out.lease = "none" /\ out.record = "none" /\ dispatches = <<>> /\ ~out.terminal
    /\ pc = "refuse" => out.lease = "none" /\ dispatches = <<>>
    /\ pc \in {"copy", "select", "bind", "dial", "deliver"} \/ Reading =>
         out.lease = "held" /\ Ended = {} /\ ~out.finish
    /\ pc = "reading" /\ out.lease # "held" => wire.ended = "success"
    /\ wire.ended = "success" => wire.code = "none"
    /\ pc = "returned" /\ (out.lease # "held" \/ Ended # {}) => err \notin Retries \/ out.wrote
    /\ pc \in Attempt \cup {"answer"} =>
         out.lease \in {"held", "spent", "known"} /\ (~Streams => out.lease = "held")
    /\ Told \cap Successes # {} => out.lease \in {"spent", "known"}
    /\ out.finish => "success" \in Told
    /\ pc \in Attempt \cup {"answer"} /\ dispatches = <<>> => out.told = <<>> /\ out.lease = "held"
    /\ dispatches = <<>> => out.lease \in {"none", "held", "returned"}

(* What the journal row says. *)
RecordInv ==
    req.kind # "chat_stream" =>
    /\ out.record = "succeeded" =>
         /\ pc \in {"release", "finish", "done"}
         /\ Told \cap Successes # {} /\ Told \cap Failures = {}
    /\ out.record = "running" /\ pc \in {"release", "finish"} => canceled
    /\ out.record = "running" /\ ~out.broken /\ pc \notin {"release", "finish", "done"} =>
         Told \cap Failures = {} /\ (out.terminal => Told \cap Successes # {})

Inv == TypeInv /\ StayInv /\ WireInv /\ SourceInv /\ PayInv /\ RecordInv

-----------------------------------------------------------------------------
(* What the operators on records do *)

SetOf(s) == {s[i] : i \in DOMAIN s}
LEMMA ToldIs == Told = SetOf(out.told)
  BY DEF Told, ToSet, SetOf

LEMMA SetOfAppend ==
    ASSUME NEW S, NEW s \in Seq(S), NEW x \in S
    PROVE  SetOf(Append(s, x)) = SetOf(s) \cup {x}
  <1>1. DOMAIN s = 1..Len(s) /\ DOMAIN Append(s, x) = 1..(Len(s) + 1) /\ Len(s) \in Nat
    OBVIOUS
  <1>2. \A i \in 1..Len(s) : Append(s, x)[i] = s[i]
    OBVIOUS
  <1>3. Append(s, x)[Len(s) + 1] = x
    OBVIOUS
  <1>4. Len(s) + 1 \in 1..(Len(s) + 1) /\ \A i \in 1..(Len(s) + 1) : i \in 1..Len(s) \/ i = Len(s) + 1
    BY <1>1
  <1> DEFINE t == Append(s, x)
  <1>5. \A v : v \in SetOf(t) <=> v \in SetOf(s) \/ v = x
    <2> HIDE DEF t
    <2>1. DOMAIN t = 1..(Len(s) + 1) /\ (\A i \in 1..Len(s) : t[i] = s[i]) /\ t[Len(s) + 1] = x
      BY <1>1, <1>2, <1>3 DEF t
    <2>2. 1..Len(s) \subseteq 1..(Len(s)+1)
      BY <1>1
    <2> QED
      BY <1>1, <1>4, <2>1, <2>2 DEF SetOf
  <1> QED
    BY <1>5

LEMMA SetOfEmpty == SetOf(<<>>) = {}
  BY DEF SetOf

LEMMA SetOfNonempty ==
    ASSUME NEW S, NEW s \in Seq(S), s # <<>>
    PROVE  SetOf(s) # {}
  <1>1. Len(s) # 0 /\ Len(s) \in Nat /\ DOMAIN s = 1..Len(s)
    OBVIOUS
  <1>2. 1 \in DOMAIN s
    BY <1>1
  <1> QED
    BY <1>2 DEF SetOf

LEMMA SetOfOne ==
    ASSUME NEW S, NEW x \in S PROVE <<x>> \in Seq(S) /\ SetOf(<<x>>) = {x}
  <1>1. <<x>> \in Seq(S) /\ DOMAIN <<x>> = 1..1 /\ <<x>>[1] = x
    OBVIOUS
  <1>2. \A i \in 1..1 : i = 1
    OBVIOUS
  <1>3. 1 \in 1..1
    OBVIOUS
  <1> DEFINE t == <<x>>
  <1>4. SetOf(t) = {x}
    <2>1. DOMAIN t = 1..1 /\ t[1] = x
      BY <1>1 DEF t
    <2> HIDE DEF t
    <2> QED
      BY <1>2, <1>3, <2>1 DEF SetOf
  <1> QED
    BY <1>1, <1>4

(* The part of out that only telling, marking or charging changes. *)
Same(p, o) ==
    /\ p.wrote = o.wrote /\ p.terminal = o.terminal /\ p.committed = o.committed
    /\ p.failure = o.failure /\ p.finish = o.finish

LEMMA MarkFacts ==
    ASSUME NEW o \in OutType, NEW status \in {"succeeded", "failed", "canceled"}
    PROVE  LET p == Mark(o, status) IN
           /\ p \in OutType /\ Same(p, o)
           /\ p.told = o.told /\ p.sources = o.sources /\ p.lease = o.lease
           /\ p.broken = o.broken /\ p.err = o.err
           /\ p.record = IF o.record = "running" THEN status ELSE o.record
  <1>1. PICK b \in BOOLEAN : b = (o.spoiled \/ status = "failed")
    OBVIOUS
  <1>2. Mark(o, status) = IF o.record = "running" THEN [o EXCEPT !.record = status, !.spoiled = b] ELSE o
    BY <1>1 DEF Mark
  <1> QED
    BY <1>2 DEF OutType, Same

LEMMA SpendFacts ==
    ASSUME NEW o \in OutType
    PROVE  LET p == Spend(o) IN
           /\ p \in OutType /\ Same(p, o)
           /\ p.told = o.told /\ p.sources = o.sources /\ p.broken = o.broken
           /\ p.err = o.err /\ p.record = o.record
           /\ p.lease = IF o.lease = "held" THEN "spent" ELSE o.lease
  BY DEF Spend, OutType, Same, Leases

Written(item, status) ==
    IF status # "running" THEN status
    ELSE IF item = "done" THEN "succeeded"
    ELSE IF item \in {"error", "failed"} THEN "failed" ELSE "running"
WriteSpec(o, item, source, p) ==
    /\ p \in OutType /\ Same(p, o) /\ p.lease = o.lease
    /\ \/ /\ p.told = o.told /\ p.sources = o.sources /\ p.record = o.record
          /\ p.broken /\ p.err = "write"
       \/ /\ ~o.broken /\ ~canceled
          /\ p.told = Append(o.told, item) /\ p.sources = o.sources \cup source
          /\ \/ p.broken /\ p.err = "write" /\ p.record = o.record
             \/ ~p.broken /\ p.err = o.err /\ p.record = Written(item, o.record)
LEMMA WriteRecordFacts ==
    ASSUME NEW o \in OutType, NEW item \in Items, NEW source \in SUBSET Nat, NEW trouble
    PROVE  WriteSpec(o, item, source, WriteRecord(o, item, source, trouble))
  <1> DEFINE q == [o EXCEPT !.broken = TRUE, !.err = "write"]
             t == [o EXCEPT !.told = Append(@, item), !.sources = @ \cup source]
             r == [t EXCEPT !.broken = TRUE, !.err = "write"]
  <1>1. /\ q \in OutType /\ Same(q, o) /\ q.lease = o.lease /\ q.broken /\ q.err = "write"
        /\ q.told = o.told /\ q.sources = o.sources /\ q.record = o.record
    BY DEF OutType, Same, Errors
  <1>2. /\ Append(o.told, item) \in Seq(Items) /\ o.sources \cup source \in SUBSET Nat
    <2>1. o.told \in Seq(Items) /\ o.sources \in SUBSET Nat
      BY DEF OutType
    <2>2. Append(o.told, item) \in Seq(Items)
      BY <2>1
    <2>3. o.sources \cup source \in SUBSET Nat
      BY <2>1
    <2> QED
      BY <2>2, <2>3
  <1>3. /\ t \in OutType /\ Same(t, o) /\ t.lease = o.lease /\ t.broken = o.broken
        /\ t.err = o.err /\ t.record = o.record
        /\ t.told = Append(o.told, item) /\ t.sources = o.sources \cup source
    BY <1>2 DEF OutType, Same
  <1>4. /\ r \in OutType /\ Same(r, o) /\ r.lease = o.lease /\ r.broken /\ r.err = "write"
        /\ r.told = Append(o.told, item) /\ r.sources = o.sources \cup source
        /\ r.record = o.record
    <2> HIDE DEF t
    <2> QED
      BY <1>3 DEF OutType, Same, Errors
  <1>5. WriteRecord(o, item, source, trouble) =
          IF o.broken \/ canceled \/ trouble = "write" THEN q
          ELSE IF trouble = "applied" THEN r
          ELSE IF item = "done" THEN Mark(t, "succeeded")
          ELSE IF item \in {"error", "failed"} THEN Mark(t, "failed") ELSE t
    BY DEF WriteRecord
  <1>6. \A status \in {"succeeded", "failed"} :
          LET m == Mark(t, status) IN
           /\ m \in OutType /\ Same(m, o)
           /\ m.told = t.told /\ m.sources = t.sources /\ m.lease = t.lease
           /\ m.broken = t.broken /\ m.err = t.err
           /\ m.record = IF t.record = "running" THEN status ELSE t.record
    <2> HIDE DEF t
    <2> QED
      BY <1>3, MarkFacts DEF Same
  <1> HIDE DEF q, t, r
  <1>7. CASE o.broken \/ canceled \/ trouble = "write"
    BY <1>1, <1>5, <1>7 DEF WriteSpec
  <1>8. CASE ~(o.broken \/ canceled \/ trouble = "write") /\ trouble = "applied"
    BY <1>4, <1>5, <1>8 DEF WriteSpec
  <1>9. CASE ~(o.broken \/ canceled \/ trouble = "write") /\ trouble # "applied"
    <2>1. t.record \in {"none", "running", "succeeded", "failed", "canceled"} /\ t.broken = FALSE
      BY <1>3, <1>9 DEF OutType
    <2> QED
      BY <1>3, <1>5, <1>6, <1>9, <2>1 DEF Written, WriteSpec
  <1> QED
    BY <1>7, <1>8, <1>9
(* An event whose telling failed sends the attempt nowhere else unless     *)
(* nothing was told; a success is charged before it is told.               *)
ToldOf(o) == SetOf(o.told)
TellSpec(o, e, p) ==
    /\ p \in OutType /\ p.err # "conflict"
    /\ o.wrote => p.wrote
    /\ \/ p.told = o.told /\ p.sources = o.sources
       \/ /\ p.told = Append(o.told, e.type) /\ p.sources = o.sources \cup {Len(dispatches)}
          /\ p.wrote \/ p.err = "write"
          /\ e.type = "success" => p.lease = "spent"
    /\ p.lease = "held" \/ (e.type = "success" /\ p.lease \in {"spent", "known"})
    /\ p.err \in Retries => p.wrote \/ (p.lease = "held" /\ p.told = o.told)
    /\ p.told # o.told /\ ~p.wrote => p.err = "write"
    /\ p.finish => o.finish \/ (e.type = "success" /\ p.told # o.told)
TellRecord(o, e, p) ==
    /\ p.record = o.record \/ p.record = "failed"
    /\ p.broken \/ (~o.broken /\ (p.terminal = o.terminal \/ (p.terminal = Terminal(e) /\ p.told # o.told)))
    /\ p.record = "running" /\ ~p.broken /\ p.told # o.told => e.type \notin {"failed", "error"}

LEMMA AppendDiffers ==
    ASSUME NEW S, NEW s \in Seq(S), NEW x \in S PROVE Append(s, x) # s
  <1>1. Len(Append(s, x)) = Len(s) + 1 /\ Len(s) \in Nat
    OBVIOUS
  <1> QED
    BY <1>1

LEMMA EventFacts ==
    ASSUME NEW e \in Events
    PROVE  /\ e.type \in {"created", "metadata", "delta", "success", "failed", "error"}
           /\ e.type \in Items /\ e.type # "done"
           /\ e.code \in {"none"} \cup Codes /\ e.code \in Errors
           /\ e.type \in {"failed", "error"} \/ e.code = "none"
           /\ e.type = "success" => Result(e) = "none"
           /\ Result(e) \in {"none"} \cup Codes
  <1>1. \/ \E t \in {"created", "metadata", "delta", "success"} : e = Event(t, "none")
        \/ \E t \in {"failed", "error"}, c \in Codes : e = Event(t, c)
    BY DEF Events
  <1>2. \/ e.type \in {"created", "metadata", "delta", "success"} /\ e.code = "none"
        \/ e.type \in {"failed", "error"} /\ e.code \in Codes
    BY <1>1 DEF Event
  <1> QED
    BY <1>2 DEF Codes, Items, Errors, Result

LEMMA TellResponsesFacts ==
    ASSUME NEW o \in OutType, NEW e \in Events, NEW trouble \in Troubles,
           o.err = "none", o.lease = "held", Len(dispatches) \in Nat
    PROVE  /\ TellSpec(o, e, TellResponses(o, e, trouble))
           /\ TellRecord(o, e, TellResponses(o, e, trouble))
  <1> DEFINE p == TellResponses(o, e, trouble)
             s == IF e.type = "success" THEN Spend(o) ELSE o
             w == WriteRecord(s, e.type, {Len(dispatches)}, trouble)
             x == [w EXCEPT !.wrote = TRUE, !.terminal = Terminal(e),
                            !.err = IF e.type = "error" THEN e.code ELSE "none"]
  <1> SUFFICES TellSpec(o, e, p) /\ TellRecord(o, e, p)
    OBVIOUS
  <1>0. o.told \in Seq(Items) /\ e.type \in Items /\ Append(o.told, e.type) # o.told
    <2>1. o.told \in Seq(Items) /\ e.type \in Items
      BY EventFacts DEF OutType
    <2> QED
      BY <2>1, AppendDiffers
  <1>1. ASSUME NEW c \in Errors, c # "conflict", NEW lease \in Leases,
               lease = "held" \/ (e.type = "success" /\ lease = "known"),
               c \in Retries => lease = "held",
               p = [o EXCEPT !.lease = lease, !.err = c]
        PROVE  TellSpec(o, e, p) /\ TellRecord(o, e, p)
    <2>1. /\ p \in OutType /\ p.told = o.told /\ p.sources = o.sources /\ p.wrote = o.wrote
          /\ p.lease = lease /\ p.err = c /\ p.finish = o.finish /\ p.record = o.record
          /\ p.terminal = o.terminal /\ p.broken = o.broken
      <3> HIDE DEF p
      <3> QED
        BY <1>1 DEF OutType
    <2> HIDE DEF p
    <2>2. p.broken \in BOOLEAN
      BY <2>1 DEF OutType
    <2> QED
      BY <1>1, <2>1, <2>2 DEF TellSpec, TellRecord
  <1>2. ASSUME NEW c \in Errors, c # "conflict", p = [o EXCEPT !.err = c]
        PROVE  TellSpec(o, e, p) /\ TellRecord(o, e, p)
    <2>1. p = [o EXCEPT !.lease = "held", !.err = c]
      <3> HIDE DEF p
      <3> QED
        BY <1>2 DEF OutType
    <2> HIDE DEF p
    <2> QED
      BY <1>1, <1>2, <2>1 DEF Leases
  <1>3. /\ s \in OutType /\ Same(s, o) /\ s.told = o.told /\ s.sources = o.sources
        /\ s.broken = o.broken /\ s.err = "none" /\ s.record = o.record
        /\ s.lease = IF e.type = "success" THEN "spent" ELSE "held"
    BY SpendFacts DEF Same
  <1>4. /\ w \in OutType /\ Same(w, o) /\ w.lease = s.lease
        /\ \/ w.told = o.told /\ w.sources = o.sources /\ w.record = o.record
                 /\ w.broken /\ w.err = "write"
           \/ /\ ~o.broken
              /\ w.told = Append(o.told, e.type) /\ w.sources = o.sources \cup {Len(dispatches)}
              /\ \/ w.broken /\ w.err = "write" /\ w.record = o.record
                 \/ ~w.broken /\ w.err = "none" /\ w.record = Written(e.type, o.record)
    <2>1. {Len(dispatches)} \in SUBSET Nat
      OBVIOUS
    <2>2. WriteSpec(s, e.type, {Len(dispatches)}, w)
      BY <1>0, <1>3, <2>1, WriteRecordFacts
    <2> HIDE DEF s, w
    <2> QED
      BY <1>3, <2>2 DEF WriteSpec, Same
  <1>5. Written(e.type, o.record) \in {o.record, "failed"}
          /\ (Written(e.type, o.record) = "running" => e.type \notin {"failed", "error"})
    BY EventFacts DEF Written
  <1>6. CASE p = w /\ w.err # "none"
    <2> HIDE DEF p, w, s
    <2>1. w.broken \in BOOLEAN /\ w.wrote \in BOOLEAN
      BY <1>4 DEF OutType
    <2> QED
      BY <1>0, <1>3, <1>4, <1>5, <1>6, <2>1 DEF TellSpec, TellRecord, Same, Retries
  <1>7. CASE p = x /\ w.err = "none"
    <2> HIDE DEF w, s
    <2>1. Terminal(e) \in BOOLEAN /\ e.code \in Errors /\ e.code # "conflict"
      BY EventFacts DEF Terminal, Codes
    <2>2. /\ x \in OutType /\ x.told = w.told /\ x.sources = w.sources /\ x.wrote
          /\ x.lease = w.lease /\ x.finish = w.finish /\ x.record = w.record
          /\ x.terminal = Terminal(e) /\ x.broken = w.broken /\ x.err # "conflict"
      BY <1>4, <2>1 DEF OutType, Errors
    <2> HIDE DEF p, x
    <2> QED
      BY <1>0, <1>3, <1>4, <1>5, <1>7, <2>2 DEF TellSpec, TellRecord, Same
  <1>8. CASE p = o
    <2>1. o = [o EXCEPT !.err = "none"]
      BY DEF OutType
    <2> QED
      BY <1>2, <1>8, <2>1 DEF Errors
  <1>9. \/ p = o \/ (p = w /\ w.err # "none") \/ (p = x /\ w.err = "none")
        \/ \E c \in {"canceled", "upstream", e.code} : p = [o EXCEPT !.err = c]
        \/ e.type = "success" /\ p = [o EXCEPT !.lease = "known", !.err = "quota"]
    BY DEF TellResponses
  <1> HIDE DEF p, w, x, s
  <1> QED
    BY <1>1, <1>2, <1>6, <1>7, <1>8, <1>9, EventFacts DEF Errors, Leases, Retries, Codes

(* What one delta or success of a chat completion does. *)
ChatSpec(o, item, q) ==
    /\ q \in OutType /\ q.lease = o.lease /\ q.finish = o.finish
    /\ o.wrote => q.wrote
    /\ \/ q.told = o.told /\ q.sources = o.sources /\ q.err = "write"
       \/ /\ q.told = Append(o.told, item) /\ q.sources = o.sources \cup {Len(dispatches)}
          /\ q.err = "write" \/ (q.err = "none" /\ q.wrote)
LEMMA ChatWritesFacts ==
    ASSUME NEW o \in OutType, NEW item \in Items, NEW trouble, o.err = "none", Len(dispatches) \in Nat
    PROVE  ChatSpec(o, item, ChatWrites(o, item, trouble))
  <1> DEFINE w == WriteRecord(o, item, {Len(dispatches)}, trouble)
             q == ChatWrites(o, item, trouble)
  <1>1. {Len(dispatches)} \in SUBSET Nat
    OBVIOUS
  <1>2. WriteSpec(o, item, {Len(dispatches)}, w)
    BY <1>1, WriteRecordFacts
  <1>3. PICK b \in BOOLEAN : b = (w.wrote \/ w.err = "none")
    OBVIOUS
  <1>4. q = [w EXCEPT !.wrote = b]
    BY <1>3 DEF ChatWrites
  <1> SUFFICES ChatSpec(o, item, q)
    OBVIOUS
  <1> HIDE DEF q, w
  <1>5. /\ w \in OutType /\ w.wrote = o.wrote /\ w.lease = o.lease /\ w.finish = o.finish
        /\ \/ w.told = o.told /\ w.sources = o.sources /\ w.err = "write"
           \/ /\ w.told = Append(o.told, item) /\ w.sources = o.sources \cup {Len(dispatches)}
              /\ w.err \in {"write", "none"}
    BY <1>2 DEF WriteSpec, Same
  <1>6. /\ q \in OutType /\ q.lease = w.lease /\ q.finish = w.finish /\ q.wrote = b
        /\ q.told = w.told /\ q.sources = w.sources /\ q.err = w.err
    BY <1>4, <1>5 DEF OutType
  <1> QED
    BY <1>3, <1>5, <1>6 DEF ChatSpec

LEMMA TellChatFacts ==
    ASSUME NEW o \in OutType, NEW e \in Events, NEW trouble \in Troubles,
           o.err = "none", o.lease = "held", Len(dispatches) \in Nat
    PROVE  TellSpec(o, e, TellChat(o, e, trouble))
  <1> DEFINE p == TellChat(o, e, trouble)
             s == Spend(o)
             w == ChatWrites(s, "success", trouble)
  <1>0. o.told \in Seq(Items) /\ e.type \in Items /\ Append(o.told, e.type) # o.told
    <2>1. o.told \in Seq(Items) /\ e.type \in Items
      BY EventFacts DEF OutType
    <2> QED
      BY <2>1, AppendDiffers
  <1> SUFFICES TellSpec(o, e, p)
    OBVIOUS
  <1>2. ASSUME NEW f \in BOOLEAN, NEW c \in {"none", "abort"}, NEW l \in {"held", "spent", "known"},
               l = "held" \/ e.type = "success",
               p = [o EXCEPT !.lease = l, !.failure = f, !.err = c]
        PROVE  TellSpec(o, e, p)
    <2> HIDE DEF p
    <2>1. /\ p \in OutType /\ p.told = o.told /\ p.sources = o.sources /\ p.wrote = o.wrote
          /\ p.lease = l /\ p.err = c /\ p.finish = o.finish
      BY <1>2 DEF OutType, Leases, Errors
    <2> QED
      BY <1>2, <2>1 DEF TellSpec, Retries
  <1>3. s \in OutType /\ s = [o EXCEPT !.lease = "spent"] /\ s.lease = "spent"
          /\ s.told = o.told /\ s.sources = o.sources /\ s.err = "none" /\ s.wrote = o.wrote
          /\ s.finish = o.finish
    BY SpendFacts DEF Spend, Same
  <1>4. CASE e.type = "delta" /\ p = ChatWrites(o, "delta", trouble)
    <2>1. "delta" \in Items
      BY DEF Items
    <2>2. ChatSpec(o, "delta", ChatWrites(o, "delta", trouble))
      BY <2>1, ChatWritesFacts
    <2> HIDE DEF p
    <2> QED
      BY <1>0, <1>4, <2>2 DEF TellSpec, ChatSpec, Retries
  <1>5. CASE e.type = "success" /\ p = [w EXCEPT !.finish = w.err = "none", !.failure = w.err # "none"]
    <2>1. "success" \in Items
      BY DEF Items
    <2>2. ChatSpec(s, "success", w)
      <3> HIDE DEF s
      <3> QED
        BY <1>3, <2>1, ChatWritesFacts
    <2>3. PICK b \in BOOLEAN : b = (w.err = "none")
      OBVIOUS
    <2>4. PICK c \in BOOLEAN : c = (w.err # "none")
      OBVIOUS
    <2>5. p = [w EXCEPT !.finish = b, !.failure = c]
      <3> HIDE DEF p, w
      <3> QED
        BY <1>5, <2>3, <2>4
    <2>6. /\ p \in OutType /\ p.lease = w.lease /\ p.finish = b /\ p.wrote = w.wrote /\ p.told = w.told
          /\ p.sources = w.sources /\ p.err = w.err
      <3> HIDE DEF p, w
      <3> QED
        BY <2>2, <2>5 DEF OutType, ChatSpec
    <2> HIDE DEF p, w, s
    <2> QED
      BY <1>0, <1>3, <1>5, <2>2, <2>3, <2>6 DEF TellSpec, ChatSpec, Retries
  <1>6. \/ p = [o EXCEPT !.err = "abort"] \/ p = [o EXCEPT !.failure = TRUE] \/ p = o
        \/ e.type = "delta" /\ p = ChatFails(o)
        \/ e.type = "delta" /\ p = ChatWrites(o, "delta", trouble)
        \/ e.type = "success" /\ p = ChatFinish(o, trouble)
    BY EventFacts DEF TellChat, ChatDelta
  <1>7. e.type = "success" /\ p = ChatFinish(o, trouble) =>
          \/ p = ChatFails(o) \/ p = ChatFails([o EXCEPT !.lease = "known"]) \/ p = ChatFails(s)
          \/ p = [w EXCEPT !.finish = w.err = "none", !.failure = w.err # "none"]
    BY DEF ChatFinish
  <1>8. /\ [o EXCEPT !.err = "abort"] = [o EXCEPT !.lease = "held", !.failure = o.failure, !.err = "abort"]
        /\ [o EXCEPT !.failure = TRUE] = [o EXCEPT !.lease = "held", !.failure = TRUE, !.err = "none"]
        /\ o = [o EXCEPT !.lease = "held", !.failure = o.failure, !.err = "none"]
        /\ ChatFails(o) = [o EXCEPT !.lease = "held", !.failure = TRUE, !.err = "abort"]
        /\ ChatFails([o EXCEPT !.lease = "known"]) = [o EXCEPT !.lease = "known", !.failure = TRUE, !.err = "abort"]
        /\ ChatFails(s) = [o EXCEPT !.lease = "spent", !.failure = TRUE, !.err = "abort"]
    <2> HIDE DEF s
    <2> QED
      BY <1>3 DEF ChatFails, OutType
  <1>9. o.failure \in BOOLEAN
    BY DEF OutType
  <1> HIDE DEF p, w, s
  <1> QED
    BY <1>2, <1>4, <1>5, <1>6, <1>7, <1>8, <1>9

LEMMA TellFacts ==
    ASSUME NEW o \in OutType, NEW e \in Events, NEW trouble \in Troubles,
           o.err = "none", o.lease = "held", Len(dispatches) \in Nat
    PROVE  /\ TellSpec(o, e, Tell(o, e, trouble))
           /\ req.kind # "chat_stream" => TellRecord(o, e, Tell(o, e, trouble))
  BY TellChatFacts, TellResponsesFacts DEF Tell

-----------------------------------------------------------------------------
(* The invariant is inductive: the beginning and the account               *)

(* A value that is not returned with is only the attempt's.                *)
Fresh(w) == /\ w.via = "none" /\ w.dials = 0 /\ w.pending = <<>> /\ ~w.emitted /\ ~w.unsafe
            /\ w.events = 0 /\ w.code = "none"
LEMMA NoWireFacts == NoWire \in WireType /\ Fresh(NoWire) /\ NoWire.ended = "no" /\ ~NoWire.renewed
  <1>1. <<>> \in Seq(Events)
    OBVIOUS
  <1> QED
    BY <1>1 DEF NoWire, WireType, Fresh

LEMMA ReturnFacts ==
    ASSUME NEW e, wire \in WireType, Return(e)
    PROVE  /\ err' = e /\ pc' = "returned" /\ wire' \in WireType /\ Fresh(wire')
           /\ wire'.ended = wire.ended
  <1>1. <<>> \in Seq(Events)
    OBVIOUS
  <1> QED
    BY <1>1 DEF Return, NoWire, WireType, Fresh

LEMMA InitInv == Init => Inv
  <1> SUFFICES ASSUME Init PROVE Inv
    OBVIOUS
  <1>1. <<>> \in Seq(Items) /\ <<>> \in Seq({})
    OBVIOUS
  <1>2. NoOut \in OutType /\ NoOut.err = "none"
    BY <1>1 DEF NoOut, OutType, Leases, Errors
  <1>3. TypeInv
    BY <1>1, <1>2, NoWireFacts DEF Init, TypeInv, NoPlan, Errors
  <1>4. Told = {}
    BY ToldIs, SetOfEmpty DEF Init, NoOut
  <1>5. WireInv
    BY NoWireFacts DEF Init, WireInv, Fresh
  <1>6. StayInv
    BY DEF Init, StayInv, Attempt
  <1>7. SourceInv
    BY <1>4 DEF Init, SourceInv, NoOut, Attempt
  <1>8. PayInv
    BY <1>4, NoWireFacts DEF Init, PayInv, NoOut, Attempt, Reading, Ended
  <1>9. RecordInv
    BY <1>4 DEF Init, RecordInv, NoOut
  <1> QED
    BY <1>3, <1>5, <1>6, <1>7, <1>8, <1>9 DEF Inv

LEMMA ResolveInv == Inv /\ Resolve => Inv'
  <1> SUFFICES ASSUME Inv, Resolve PROVE Inv'
    OBVIOUS
  <1> USE DEF Inv, Resolve, environment
  <1>1. TypeInv'
    BY DEF TypeInv
  <1>2. StayInv'
    BY DEF TypeInv, StayInv, NoPlan, Attempt, Possible, Requests, Continues, IsResponses
  <1>3. WireInv'
    BY DEF WireInv, Streams
  <1>4. SourceInv'
    BY DEF SourceInv, Streams, Told, Attempt
  <1>5. PayInv'
    BY DEF PayInv, Streams, Told, Attempt, Reading, Ended
  <1>6. RecordInv'
    BY DEF RecordInv, Told
  <1> QED
    BY <1>1, <1>2, <1>3, <1>4, <1>5, <1>6

LEMMA AdmitInv == Inv /\ Admit => Inv'
  <1> SUFFICES ASSUME Inv, Admit PROVE Inv'
    OBVIOUS
  <1> USE DEF Inv, environment
  <1>1. out \in OutType /\ out.lease = "none" /\ out.record = "none" /\ out.told = <<>> /\ Told = {}
        /\ out.sources = {} /\ ~out.finish /\ dispatches = <<>> /\ out.err = "none"
        /\ pc = "admit" /\ ~out.terminal
    <2>1. out \in OutType /\ out.lease = "none" /\ out.record = "none" /\ Told = {}
          /\ out.sources = {} /\ dispatches = <<>> /\ out.err = "none" /\ pc = "admit"
      BY DEF Admit, TypeInv, PayInv, SourceInv
    <2>2. out.told = <<>>
      BY <2>1, ToldIs, SetOfNonempty DEF OutType
    <2>3. ~out.finish /\ ~out.terminal
      BY <2>1 DEF PayInv
    <2> QED
      BY <2>1, <2>2, <2>3
  <1>2. \/ /\ pc' = "copy" /\ err' = err
           /\ out' = [out EXCEPT !.record = "running", !.lease = "held"]
        \/ /\ pc' = "refuse" /\ err' = "quota"
           /\ out' = [out EXCEPT !.record = "running"]
        \/ /\ pc' = "done" /\ err' = err
           /\ out' = [out EXCEPT !.told = <<"json error">>]
    BY DEF Admit
  <1>3. UNCHANGED <<req, environment, plan, seen, account, bound, wire, dispatches>>
    BY DEF Admit
  <1>4. <<"json error">> \in Seq(Items) /\ SetOf(<<"json error">>) = {"json error"}
    <2>1. "json error" \in Items
      BY DEF Items
    <2> QED
      BY <2>1, SetOfOne
  <1>5. /\ out' \in OutType /\ out'.err = "none" /\ out'.sources = {} /\ ~out'.finish /\ ~out'.terminal
        /\ \/ pc' = "copy" /\ out'.told = <<>> /\ out'.lease = "held" /\ out'.record = "running"
           \/ pc' = "refuse" /\ out'.told = <<>> /\ out'.lease = "none" /\ out'.record = "running"
           \/ pc' = "done" /\ out'.told = <<"json error">> /\ out'.lease = "none" /\ out'.record = "none"
    BY <1>1, <1>2, <1>4 DEF OutType, Leases
  <1>6. Told' = SetOf(out'.told)
    BY DEF Told, ToSet, SetOf
  <1>7. Told' = {} \/ (pc' = "done" /\ Told' = {"json error"})
    BY <1>4, <1>5, <1>6, SetOfEmpty
  <1>8. TypeInv'
    BY <1>2, <1>3, <1>5 DEF TypeInv, Attempt, Errors
  <1>9. StayInv'
    BY <1>1, <1>2, <1>3 DEF StayInv, Attempt, Continues, IsResponses
  <1>10. WireInv'
    BY <1>1, <1>2, <1>3 DEF WireInv, Streams
  <1>11. SourceInv'
    BY <1>1, <1>3, <1>5, <1>7 DEF SourceInv, Attempt, Streams
  <1>12. PayInv'
    BY <1>1, <1>3, <1>5, <1>7 DEF PayInv, Attempt, Streams, Reading, Ended, Successes, Failures, WireInv
  <1>13. RecordInv'
    BY <1>1, <1>3, <1>5, <1>7 DEF RecordInv, Failures
  <1> QED
    BY <1>8, <1>9, <1>10, <1>11, <1>12, <1>13

(* An attempt that gives up and has told nothing by it.                    *)
LEMMA ReturnInv ==
    ASSUME Inv, pc \in Attempt \ {"returned"}, NEW e \in Errors, Return(e),
           UNCHANGED <<req, canceled, plan, dispatches, out>>,
           e = "none" => dispatches # <<>>, e \in Retries => out.lease = "held"
    PROVE  TypeInv' /\ WireInv' /\ SourceInv' /\ PayInv' /\ RecordInv'
  <1> USE DEF Inv
  <1>1. /\ err' = e /\ pc' = "returned" /\ wire' \in WireType /\ Fresh(wire')
        /\ wire'.ended = wire.ended
    BY ReturnFacts DEF TypeInv
  <1>2. Told' = Told /\ Streams' = Streams
    BY DEF Told, Streams
  <1>3. TypeInv'
    BY <1>1 DEF TypeInv, Attempt
  <1>4. WireInv'
    BY <1>1, <1>2 DEF WireInv, Fresh, Attempt
  <1>5. SourceInv'
    BY <1>1, <1>2 DEF SourceInv, Attempt
  <1>6. Ended # {} => out.wrote
    <2>1. Told # {} => out.sources # {}
      BY DEF SourceInv
    <2>2. out.sources # {} => out.wrote
      BY DEF SourceInv, Attempt
    <2> QED
      BY <2>1, <2>2 DEF Ended
  <1>7. PayInv'
    BY <1>1, <1>2, <1>6 DEF PayInv, Attempt, Reading, Ended, Fresh
  <1>8. RecordInv'
    BY <1>1, <1>2 DEF RecordInv, Attempt
  <1> QED
    BY <1>3, <1>4, <1>5, <1>7, <1>8

(* Before the request is sent nothing was told.                            *)
LEMMA NothingTold ==
    ASSUME Inv, pc \in {"copy", "select", "bind", "dial"}
    PROVE  /\ out \in OutType /\ out.told = <<>> /\ Told = {} /\ out.sources = {}
           /\ out.lease = "held" /\ ~out.finish /\ wire \in WireType
  <1> USE DEF Inv
  <1>1. out.sources = {} /\ Told = {}
    BY DEF SourceInv, Attempt
  <1>2. out \in OutType /\ wire \in WireType
    BY DEF TypeInv
  <1>3. out.told = <<>>
    BY <1>1, <1>2, ToldIs, SetOfNonempty DEF OutType
  <1> QED
    BY <1>1, <1>2, <1>3 DEF PayInv

LEMMA CopyInv == Inv /\ Copy => Inv'
  <1> SUFFICES ASSUME Inv, Copy PROVE Inv'
    OBVIOUS
  <1> USE DEF Inv, environment
  <1>1. pc = "copy" /\ UNCHANGED <<req, environment, plan, bound, dispatches, out>>
    BY DEF Copy
  <1>2. Told' = Told /\ Streams' = Streams /\ Continues' = Continues /\ IsResponses' = IsResponses
    BY <1>1 DEF Told, Streams, Continues, IsResponses
  <1>3. CASE canceled
    <2>1. Return("canceled")
      BY <1>3 DEF Copy
    <2>2. "canceled" \in Errors /\ "canceled" # "none" /\ "canceled" \notin Retries
      BY DEF Errors, Retries
    <2>3. TypeInv' /\ WireInv' /\ SourceInv' /\ PayInv' /\ RecordInv'
      BY <1>1, <2>1, <2>2, ReturnInv DEF Attempt
    <2>4. StayInv'
      BY <1>1, <1>2, <2>1 DEF StayInv, Attempt, Return
    <2> QED
      BY <2>3, <2>4
  <1>4. CASE ~canceled
    <2>1. pc' = "select" /\ wire' = NoWire /\ err' = err
      BY <1>4 DEF Copy
    <2>2. TypeInv'
      BY <1>1, <2>1, NoWireFacts DEF TypeInv, Attempt
    <2>3. StayInv'
      BY <1>1, <1>2, <2>1 DEF StayInv, Attempt
    <2>4. WireInv'
      BY <1>1, <1>2, <2>1, NoWireFacts DEF WireInv, Fresh
    <2>5. SourceInv'
      BY <1>1, <1>2, <2>1 DEF SourceInv, Attempt
    <2>6. PayInv'
      BY <1>1, <1>2, <2>1, NoWireFacts DEF PayInv, Attempt, Reading, Ended
    <2>7. RecordInv'
      BY <1>1, <1>2, <2>1 DEF RecordInv
    <2> QED
      BY <2>2, <2>3, <2>4, <2>5, <2>6, <2>7
  <1> QED
    BY <1>3, <1>4

LEMMA SelectInv == Inv /\ Select => Inv'
  <1> SUFFICES ASSUME Inv, Select PROVE Inv'
    OBVIOUS
  <1> USE DEF Inv, environment
  <1>1. pc = "select" /\ UNCHANGED <<req, environment, plan, bound, dispatches, out>>
    BY DEF Select
  <1>2. Told' = Told /\ Streams' = Streams /\ Continues' = Continues /\ IsResponses' = IsResponses
    BY <1>1 DEF Told, Streams, Continues, IsResponses
  <1>3. CASE Return("unavailable")
    <2>2. "unavailable" \in Errors /\ "unavailable" # "none" /\ "unavailable" \notin Retries
      BY DEF Errors, Retries
    <2>3. TypeInv' /\ WireInv' /\ SourceInv' /\ PayInv' /\ RecordInv'
      BY <1>1, <1>3, <2>2, ReturnInv DEF Attempt
    <2>4. StayInv'
      BY <1>1, <1>2, <1>3 DEF StayInv, Attempt, Return
    <2> QED
      BY <2>3, <2>4
  <1>4. CASE pc' = "bind" /\ UNCHANGED <<err, wire>>
    <2>2. TypeInv'
      BY <1>1, <1>4 DEF TypeInv, Attempt
    <2>3. StayInv'
      BY <1>1, <1>2, <1>4 DEF StayInv, Attempt
    <2>4. WireInv'
      BY <1>1, <1>2, <1>4 DEF WireInv
    <2>5. SourceInv'
      BY <1>1, <1>2, <1>4 DEF SourceInv, Attempt
    <2>6. PayInv'
      BY <1>1, <1>2, <1>4 DEF PayInv, Attempt, Reading, Ended
    <2>7. RecordInv'
      BY <1>1, <1>2, <1>4 DEF RecordInv
    <2> QED
      BY <2>2, <2>3, <2>4, <2>5, <2>6, <2>7
  <1> QED
    BY <1>3, <1>4 DEF Select

LEMMA BindInv == Inv /\ Bind => Inv'
  <1> SUFFICES ASSUME Inv, Bind PROVE Inv'
    OBVIOUS
  <1> USE DEF Inv
  <1> DEFINE sticky == req.session /\ plan.hinted \in {None, account}
             other(a) == a \notin {None, account}
  <1>1. pc = "bind" /\ UNCHANGED <<req, profiles, changes, canceled, plan, seen, account, dispatches>>
    BY DEF Bind
  <1>2. Streams' = Streams /\ Continues' = Continues /\ IsResponses' = IsResponses
    BY <1>1 DEF Streams, Continues, IsResponses
  <1>3. \/ ~other(bound) /\ ~other(req.owner) /\ sticky /\ Return("conflict") /\ UNCHANGED <<bound, out>>
        \/ Return("bind") /\ UNCHANGED <<bound, out>>
        \/ /\ ~other(bound) /\ ~other(req.owner) /\ bound' = account /\ pc' = "dial"
           /\ out' = [out EXCEPT !.committed = @ \/ Streams]
           /\ UNCHANGED <<err, wire>>
    BY DEF Bind
  <1>4. CASE ~other(bound) /\ ~other(req.owner) /\ sticky /\ Return("conflict") /\ UNCHANGED <<bound, out>>
    <2>1. "conflict" \in Errors /\ "conflict" # "none" /\ out.lease = "held"
      BY <1>1, NothingTold DEF Errors
    <2>2. TypeInv' /\ WireInv' /\ SourceInv' /\ PayInv' /\ RecordInv'
      BY <1>1, <1>4, <2>1, ReturnInv DEF Attempt
    <2>3. ~Continues
      BY <1>4 DEF TypeInv, Possible, Continues
    <2>4. StayInv'
      BY <1>1, <1>2, <1>4, <2>3 DEF StayInv, Attempt, Return
    <2> QED
      BY <2>2, <2>4
  <1>5. CASE Return("bind") /\ UNCHANGED <<bound, out>>
    <2>1. "bind" \in Errors /\ "bind" # "none" /\ "bind" \notin Retries
      BY DEF Errors, Retries
    <2>2. TypeInv' /\ WireInv' /\ SourceInv' /\ PayInv' /\ RecordInv'
      BY <1>1, <1>5, <2>1, ReturnInv DEF Attempt
    <2>4. StayInv'
      BY <1>1, <1>2, <1>5 DEF StayInv, Attempt, Return
    <2> QED
      BY <2>2, <2>4
  <1>6. CASE /\ ~other(bound) /\ ~other(req.owner) /\ bound' = account /\ pc' = "dial"
             /\ out' = [out EXCEPT !.committed = @ \/ Streams]
             /\ UNCHANGED <<err, wire>>
    <2>1. out \in OutType
      BY DEF TypeInv
    <2>2. PICK b \in BOOLEAN : b = (out.committed \/ Streams)
      OBVIOUS
    <2>3. out' = [out EXCEPT !.committed = b]
      BY <1>6, <2>2
    <2>4. /\ out' \in OutType /\ out'.told = out.told /\ out'.sources = out.sources /\ out'.err = out.err
          /\ out'.lease = out.lease /\ out'.record = out.record /\ out'.broken = out.broken
          /\ out'.finish = out.finish /\ out'.terminal = out.terminal /\ out'.wrote = out.wrote
      BY <2>1, <2>3 DEF OutType
    <2>5. Told' = Told
      BY <2>4 DEF Told
    <2>6. TypeInv'
      BY <1>1, <1>6, <2>4 DEF TypeInv, Attempt
    <2>7. StayInv'
      BY <1>1, <1>2, <1>6 DEF StayInv, Attempt, Continues
    <2>8. WireInv'
      BY <1>1, <1>2, <1>6 DEF WireInv
    <2>9. SourceInv'
      BY <1>1, <1>2, <1>6, <2>4, <2>5 DEF SourceInv, Attempt
    <2>10. PayInv'
      BY <1>1, <1>2, <1>6, <2>4, <2>5, NothingTold DEF PayInv, Attempt, Reading, Ended
    <2>11. RecordInv'
      BY <1>1, <1>2, <1>6, <2>4, <2>5 DEF RecordInv
    <2> QED
      BY <2>6, <2>7, <2>8, <2>9, <2>10, <2>11
  <1> QED
    BY <1>3, <1>4, <1>5, <1>6

-----------------------------------------------------------------------------
(* The invariant is inductive: the transport                               *)

LEMMA OpenFacts ==
    ASSUME NEW via \in {"websocket", "sse", "http"}, NEW n \in Nat, Open(via, n),
           wire \in WireType, \E S : dispatches \in Seq(S)
    PROVE  /\ wire' \in WireType /\ wire'.via = via /\ wire'.pending = <<>> /\ ~wire'.emitted
           /\ wire'.events = 0 /\ wire'.ended = "no" /\ wire'.code = "none"
           /\ pc' = "reading" /\ dispatches' # <<>> /\ \E S : dispatches' \in Seq(S)
  <1>1. PICK S : dispatches \in Seq(S)
    OBVIOUS
  <1>2. dispatches \in Seq(S \cup {account})
    BY <1>1
  <1>3. Append(dispatches, account) \in Seq(S \cup {account}) /\ Append(dispatches, account) # <<>>
    BY <1>2
  <1>4. wire' = [NoWire EXCEPT !.via = via, !.dials = n, !.renewed = wire.renewed]
    BY DEF Open
  <1>5. wire.renewed \in BOOLEAN /\ <<>> \in Seq(Events)
    BY DEF WireType
  <1>6. /\ wire' \in WireType /\ wire'.via = via /\ wire'.pending = <<>> /\ ~wire'.emitted
        /\ wire'.events = 0 /\ wire'.ended = "no" /\ wire'.code = "none"
    BY <1>4, <1>5 DEF WireType, NoWire
  <1> QED
    BY <1>3, <1>6 DEF Open

LEMMA OpenInv ==
    ASSUME Inv, pc \in {"dial", "reading"}, NEW via \in {"websocket", "sse", "http"}, NEW n \in Nat, Open(via, n),
           UNCHANGED <<req, canceled, plan, account, bound, err, out>>,
           via = "http" => ~Streams, out.sources = {}, out.lease = "held", pc = "reading" => wire.ended = "no"
    PROVE  Inv'
  <1> USE DEF Inv
  <1>1. wire \in WireType /\ \E S : dispatches \in Seq(S)
    BY DEF TypeInv
  <1>2. /\ wire' \in WireType /\ wire'.via = via /\ wire'.pending = <<>> /\ ~wire'.emitted
        /\ wire'.events = 0 /\ wire'.ended = "no" /\ wire'.code = "none"
        /\ pc' = "reading" /\ dispatches' # <<>> /\ \E S : dispatches' \in Seq(S)
    BY <1>1, OpenFacts
  <1>3. Told' = Told /\ Streams' = Streams /\ Continues' = Continues /\ IsResponses' = IsResponses
    BY DEF Told, Streams, Continues, IsResponses
  <1>4. Told = {}
    BY DEF SourceInv, Attempt
  <1>5. TypeInv'
    BY <1>2 DEF TypeInv, Attempt
  <1>6. StayInv'
    BY <1>2, <1>3 DEF StayInv, Attempt
  <1>7. WireInv'
    BY <1>2, <1>3 DEF WireInv
  <1>8. SourceInv'
    BY <1>2, <1>3, <1>4 DEF SourceInv, Attempt
  <1>9. PayInv'
    BY <1>2, <1>3, <1>4 DEF PayInv, Attempt, Reading, Ended
  <1>10. RecordInv'
    BY <1>2, <1>3 DEF RecordInv
  <1> QED
    BY <1>5, <1>6, <1>7, <1>8, <1>9, <1>10

LEMMA DialInv == Inv /\ Dial => Inv'
  <1> SUFFICES ASSUME Inv, Dial PROVE Inv'
    OBVIOUS
  <1> USE DEF Inv, environment
  <1>1. pc = "dial" /\ UNCHANGED <<req, environment, plan, seen, account, bound, out>>
    BY DEF Dial
  <1>2. Streams' = Streams /\ Continues' = Continues /\ IsResponses' = IsResponses
    BY <1>1 DEF Streams, Continues, IsResponses
  <1>3. ASSUME NEW e \in {"canceled", "upstream"}, Return(e), UNCHANGED dispatches PROVE Inv'
    <2>1. e \in Errors /\ e # "none" /\ e \notin Retries
      BY <1>3 DEF Errors, Retries
    <2>2. TypeInv' /\ WireInv' /\ SourceInv' /\ PayInv' /\ RecordInv'
      BY <1>1, <1>3, <2>1, ReturnInv DEF Attempt
    <2>4. StayInv'
      BY <1>1, <1>2, <1>3 DEF StayInv, Attempt, Return
    <2> QED
      BY <2>2, <2>4
  <1>4. CASE Open(Via, wire.dials + 1) /\ UNCHANGED err
    <2>1. Via \in {"websocket", "sse", "http"} /\ (Via = "http" => ~Streams)
      BY DEF Via, Streams
    <2>2. wire.dials + 1 \in Nat
      BY DEF TypeInv, WireType
    <2> QED
      BY <1>1, <1>4, <2>1, <2>2, OpenInv, NothingTold
  <1> QED
    BY <1>3, <1>4 DEF Dial

LEMMA StayReturns ==
    ASSUME Inv, pc \in {"reading", "deliver"}, NEW e, e # "conflict", Return(e),
           UNCHANGED <<req, plan, account, bound>>
    PROVE  StayInv'
  <1>1. Continues' = Continues /\ IsResponses' = IsResponses
    BY DEF Continues, IsResponses
  <1> QED
    BY <1>1 DEF Inv, StayInv, Attempt, Return

(* While an attempt is read over a WebSocket or in one exchange, nothing   *)
(* is settled; before the first event is passed on nothing was told.       *)
LEMMA ReadingFacts ==
    ASSUME Inv, pc = "reading"
    PROVE  /\ wire \in WireType /\ out \in OutType /\ dispatches # <<>>
           /\ wire.via # "sse" \/ wire.events = 0 => wire.ended = "no" /\ out.lease = "held"
           /\ wire.via = "websocket" /\ (~wire.emitted \/ ~wire.unsafe) => out.sources = {} /\ ~wire.emitted
           /\ wire.via = "sse" /\ wire.events = 0 => out.sources = {}
           /\ wire.via = "http" => out.sources = {}
  <1>1. wire \in WireType /\ out \in OutType
    BY DEF Inv, TypeInv
  <1>2. wire.events \in Nat
    BY <1>1 DEF WireType
  <1>3. wire.via # "sse" \/ wire.events = 0 => wire.ended = "no" /\ out.lease = "held"
    BY <1>2 DEF Inv, WireInv, PayInv, Reading
  <1> QED
    BY <1>1, <1>3 DEF Inv, WireInv, SourceInv

LEMMA UnauthorizedInv ==
    ASSUME Inv, pc = "reading", Unauthorized, UNCHANGED <<req, canceled, plan, account, bound, dispatches, out>>,
           out.sources = {}, wire.ended = "no"
    PROVE  Inv'
  <1> USE DEF Inv
  <1>1. Told' = Told /\ Streams' = Streams /\ Continues' = Continues /\ IsResponses' = IsResponses
    BY DEF Told, Streams, Continues, IsResponses
  <1>2. CASE Return("upstream")
    <2>1. "upstream" \in Errors /\ "upstream" # "none" /\ "upstream" \notin Retries /\ "upstream" # "conflict"
      BY DEF Errors, Retries
    <2>2. TypeInv' /\ WireInv' /\ SourceInv' /\ PayInv' /\ RecordInv'
      BY <1>2, <2>1, ReturnInv DEF Attempt
    <2> QED
      BY <1>2, <2>1, <2>2, StayReturns
  <1>3. CASE pc' = "dial" /\ wire' = [NoWire EXCEPT !.renewed = TRUE] /\ UNCHANGED err
    <2>1. wire' \in WireType /\ Fresh(wire') /\ wire'.ended = "no"
      BY <1>3, NoWireFacts DEF WireType, Fresh
    <2>2. Told = {}
      BY DEF SourceInv, Attempt
    <2>3. TypeInv'
      BY <1>3, <2>1 DEF TypeInv, Attempt
    <2>4. StayInv'
      BY <1>1, <1>3 DEF StayInv, Attempt
    <2>5. WireInv'
      BY <1>1, <1>3, <2>1 DEF WireInv, Fresh
    <2>6. SourceInv'
      BY <1>1, <1>3, <2>2 DEF SourceInv, Attempt
    <2>7. PayInv'
      BY <1>1, <1>3, <2>1, <2>2 DEF PayInv, Attempt, Reading, Ended
    <2>8. RecordInv'
      BY <1>1, <1>3 DEF RecordInv
    <2> QED
      BY <2>3, <2>4, <2>5, <2>6, <2>7, <2>8
  <1> QED
    BY <1>2, <1>3 DEF Unauthorized

LEMMA WebSocketEndsInv ==
    ASSUME Inv, pc = "reading", wire.via = "websocket", NEW e \in Codes, NEW fallback,
           WebSocketEnds(e, fallback), UNCHANGED <<req, canceled, plan, account, bound, out>>
    PROVE  Inv'
  <1> USE DEF Inv
  <1>0. /\ wire \in WireType /\ out \in OutType /\ dispatches # <<>>
        /\ wire.ended = "no" /\ out.lease = "held"
        /\ ~wire.emitted => out.sources = {}
    BY ReadingFacts
  <1>1. Told' = Told /\ Streams' = Streams /\ Continues' = Continues /\ IsResponses' = IsResponses
    BY DEF Told, Streams, Continues, IsResponses
  <1>2. ASSUME NEW c \in {e, "canceled"}, Return(c), UNCHANGED dispatches PROVE Inv'
    <2>1. c \in Errors /\ c # "none" /\ c # "conflict"
      BY DEF Errors, Codes
    <2>2. TypeInv' /\ WireInv' /\ SourceInv' /\ PayInv' /\ RecordInv'
      BY <1>0, <1>2, <2>1, ReturnInv DEF Attempt
    <2> QED
      BY <1>2, <2>1, <2>2, StayReturns
  <1>3. CASE /\ ~wire.emitted /\ pc' = "dial" /\ wire' = [wire EXCEPT !.pending = <<>>]
             /\ UNCHANGED <<err, dispatches>>
    <2>1. /\ wire' \in WireType /\ wire'.ended = "no" /\ wire'.pending = <<>> /\ ~wire'.emitted
          /\ wire'.code = wire.code
      <3>1. <<>> \in Seq(Events)
        OBVIOUS
      <3> QED
        BY <1>0, <1>3, <3>1 DEF WireType
    <2>2. Told = {} /\ out.sources = {}
      BY <1>0, <1>3 DEF SourceInv, Attempt
    <2>3. TypeInv'
      BY <1>3, <2>1 DEF TypeInv, Attempt
    <2>4. StayInv'
      BY <1>1, <1>3 DEF StayInv, Attempt
    <2>5. WireInv'
      BY <1>1, <1>3, <2>1 DEF WireInv
    <2>6. SourceInv'
      BY <1>1, <1>3, <2>2 DEF SourceInv, Attempt
    <2>7. PayInv'
      BY <1>0, <1>1, <1>3, <2>1, <2>2 DEF PayInv, Attempt, Reading, Ended
    <2>8. RecordInv'
      BY <1>1, <1>3 DEF RecordInv
    <2> QED
      BY <2>3, <2>4, <2>5, <2>6, <2>7, <2>8
  <1>4. CASE ~wire.emitted /\ Open("sse", 0) /\ UNCHANGED err
    BY <1>0, <1>4, OpenInv
  <1> QED
    BY <1>2, <1>3, <1>4 DEF WebSocketEnds

LEMMA WebSocketFailsInv == Inv /\ WebSocketFails => Inv'
  <1> SUFFICES ASSUME Inv, WebSocketFails PROVE Inv'
    OBVIOUS
  <1>1. pc = "reading" /\ wire.via = "websocket" /\ UNCHANGED <<req, environment, plan, seen, account, bound, out>>
    BY DEF WebSocketFails
  <1>2. CASE \E e \in Codes, fallback \in BOOLEAN : WebSocketEnds(e, fallback /\ ~wire.unsafe)
    BY <1>1, <1>2, WebSocketEndsInv DEF environment
  <1>3. CASE ~wire.unsafe /\ Unauthorized /\ UNCHANGED dispatches
    BY <1>1, <1>3, ReadingFacts, UnauthorizedInv DEF environment
  <1> QED
    BY <1>2, <1>3 DEF WebSocketFails

LEMMA HTTPAnswerInv == Inv /\ HTTPAnswer => Inv'
  <1> SUFFICES ASSUME Inv, HTTPAnswer PROVE Inv'
    OBVIOUS
  <1>1. /\ pc = "reading" /\ wire.via = "http"
        /\ UNCHANGED <<req, environment, plan, seen, account, bound, dispatches, out>>
    BY DEF HTTPAnswer
  <1>2. ASSUME NEW e \in {"canceled", "none", "upstream"}, Return(e) PROVE Inv'
    <2>1. e \in Errors /\ e \notin Retries /\ e # "conflict"
      BY DEF Errors, Retries
    <2>2. TypeInv' /\ WireInv' /\ SourceInv' /\ PayInv' /\ RecordInv'
      BY <1>1, <1>2, <2>1, ReadingFacts, ReturnInv DEF Attempt, environment
    <2> QED
      BY <1>1, <1>2, <2>1, <2>2, StayReturns DEF Inv
  <1>3. CASE Unauthorized
    BY <1>1, <1>3, ReadingFacts, UnauthorizedInv DEF environment
  <1> QED
    BY <1>2, <1>3 DEF HTTPAnswer

LEMMA SSEEndsInv == Inv /\ SSEEnds => Inv'
  <1> SUFFICES ASSUME Inv, SSEEnds PROVE Inv'
    OBVIOUS
  <1>1. /\ pc = "reading" /\ wire.via = "sse"
        /\ UNCHANGED <<req, environment, plan, seen, account, bound, dispatches, out>>
    BY DEF SSEEnds
  <1>2. wire \in WireType /\ dispatches # <<>>
    BY <1>1, ReadingFacts
  <1>3. ASSUME NEW e \in {"canceled", "none"} \cup Codes, Return(e), e \in Retries => out.lease = "held" PROVE Inv'
    <2>1. e \in Errors /\ e # "conflict"
      BY DEF Errors, Codes
    <2>2. TypeInv' /\ WireInv' /\ SourceInv' /\ PayInv' /\ RecordInv'
      BY <1>1, <1>2, <1>3, <2>1, ReturnInv DEF Attempt, environment
    <2> QED
      BY <1>1, <1>3, <2>1, <2>2, StayReturns DEF Inv
  <1>4. out.lease # "held" => wire.ended = "success" /\ wire.code = "none"
    BY <1>1 DEF Inv, PayInv
  <1>5. CASE wire.ended # "no" /\ Return(wire.code)
    BY <1>2, <1>3, <1>4, <1>5 DEF WireType, Retries
  <1>6. CASE \E e \in Codes : Return(IF wire.ended = "no" THEN e ELSE "upstream")
    BY <1>3, <1>4, <1>6 DEF Retries, Codes
  <1>7. CASE wire.events = 0 /\ Unauthorized
    BY <1>1, <1>7, ReadingFacts, UnauthorizedInv DEF environment
  <1>8. CASE Return("canceled")
    BY <1>3, <1>8 DEF Retries
  <1> QED
    BY <1>5, <1>6, <1>7, <1>8 DEF SSEEnds

-----------------------------------------------------------------------------
(* The invariant is inductive: events                                      *)

LEMMA WebSocketEventInv == ASSUME NEW e \in Events PROVE Inv /\ WebSocketEvent(e) => Inv'
  <1> SUFFICES ASSUME Inv, WebSocketEvent(e) PROVE Inv'
    OBVIOUS
  <1> USE DEF Inv, environment
  <1> DEFINE hold == ~wire.emitted /\ Safe(e)
  <1>0. pc = "reading" /\ wire.via = "websocket" /\ UNCHANGED <<req, environment, plan, seen, account, bound, out>>
    BY DEF WebSocketEvent
  <1>1. Told' = Told /\ Streams' = Streams /\ Continues' = Continues /\ IsResponses' = IsResponses
    BY <1>0 DEF Told, Streams, Continues, IsResponses
  <1>2. /\ wire \in WireType /\ out \in OutType /\ dispatches # <<>>
        /\ wire.ended = "no" /\ out.lease = "held"
        /\ ~wire.emitted => out.sources = {}
    BY <1>0, ReadingFacts
  <1>3. wire.emitted \in BOOLEAN /\ wire.unsafe \in BOOLEAN /\ wire.events + 1 \in Nat
        /\ wire.pending \in Seq(Events)
    BY <1>2 DEF WireType
  <1>4. PICK u \in BOOLEAN : u = (wire.unsafe \/ ~Safe(e))
    OBVIOUS
  <1>5. PICK m \in BOOLEAN : m = (wire.emitted \/ ~hold)
    OBVIOUS
  <1>6. CASE Streams
    <2>1. /\ wire' = [wire EXCEPT !.unsafe = u, !.events = wire.events + 1, !.emitted = m,
                                  !.pending = Append(wire.pending, e)]
          /\ pc' = IF hold THEN pc ELSE "deliver"
          /\ UNCHANGED <<err, dispatches>>
      BY <1>4, <1>5, <1>6 DEF WebSocketEvent
    <2>2. /\ Append(wire.pending, e) \in Seq(Events) /\ Append(wire.pending, e) # <<>>
          /\ Len(Append(wire.pending, e)) = Len(wire.pending) + 1 /\ Len(wire.pending) \in Nat
          /\ \A i \in 1..Len(wire.pending) : Append(wire.pending, e)[i] = wire.pending[i]
          /\ Append(wire.pending, e)[Len(wire.pending) + 1] = e
      BY <1>3
    <2>3. /\ wire' \in WireType /\ wire'.unsafe = u /\ wire'.emitted = m /\ wire'.via = "websocket"
          /\ wire'.ended = "no" /\ wire'.pending = Append(wire.pending, e) /\ wire'.code = wire.code
      BY <1>0, <1>2, <1>3, <2>1, <2>2 DEF WireType
    <2>4. m => u
      BY <1>2, <1>4, <1>5 DEF WireInv
    <2>5. \A i \in 1..Len(wire.pending) : Safe(wire.pending[i])
      BY <1>0 DEF WireInv
    <2>6. \A i \in 1..Len(wire'.pending) : ~Safe(wire'.pending[i]) => i = Len(wire'.pending) /\ pc' = "deliver"
      <3> DEFINE q == wire'.pending
      <3>1. Len(q) = Len(wire.pending) + 1 /\ Len(wire.pending) \in Nat
            /\ (\A i \in 1..Len(wire.pending) : q[i] = wire.pending[i]) /\ q[Len(q)] = e
        BY <2>2, <2>3
      <3>2. Safe(e) \/ pc' = "deliver"
        BY <2>1
      <3> HIDE DEF q
      <3>3. \A i \in 1..Len(q) : i \in 1..Len(wire.pending) \/ i = Len(q)
        BY <3>1
      <3>4. \A i \in 1..Len(q) : ~Safe(q[i]) => i = Len(q) /\ pc' = "deliver"
        BY <2>5, <3>1, <3>2, <3>3
      <3> QED
        BY <3>4 DEF q
    <2>7. TypeInv'
      BY <1>0, <2>1, <2>3 DEF TypeInv, Attempt
    <2>8. StayInv'
      BY <1>0, <1>1, <2>1 DEF StayInv, Attempt
    <2>9. WireInv'
      BY <1>0, <1>1, <1>2, <1>5, <1>6, <2>1, <2>2, <2>3, <2>4, <2>6 DEF WireInv
    <2>10. SourceInv'
      BY <1>0, <1>1, <1>2, <1>5, <2>1, <2>3 DEF SourceInv, Attempt
    <2>11. PayInv'
      BY <1>0, <1>1, <1>2, <2>1, <2>3 DEF PayInv, Attempt, Reading, Ended
    <2>12. RecordInv'
      BY <1>0, <1>1, <2>1 DEF RecordInv
    <2> QED
      BY <2>7, <2>8, <2>9, <2>10, <2>11, <2>12
  <1>7. CASE ~Streams /\ WebSocketEnds("limit", FALSE)
    BY <1>0, <1>7, WebSocketEndsInv DEF Codes
  <1>8. CASE ~Streams /\ Return(Result(e)) /\ UNCHANGED dispatches
    <2>1. Result(e) \in Errors /\ Result(e) # "conflict"
      BY EventFacts DEF Errors, Codes
    <2>2. TypeInv' /\ WireInv' /\ SourceInv' /\ PayInv' /\ RecordInv'
      BY <1>0, <1>2, <1>8, <2>1, ReturnInv DEF Attempt
    <2> QED
      BY <1>0, <1>8, <2>1, <2>2, StayReturns
  <1>9. CASE /\ ~Streams /\ wire' = [wire EXCEPT !.unsafe = @ \/ ~Safe(e), !.events = @ + 1]
             /\ UNCHANGED <<err, pc, dispatches>>
    <2>1. wire' = [wire EXCEPT !.unsafe = u, !.events = wire.events + 1]
      BY <1>4, <1>9
    <2>3. /\ wire' \in WireType /\ wire'.via = "websocket" /\ wire'.emitted = wire.emitted
          /\ wire'.ended = "no" /\ wire'.pending = wire.pending /\ wire'.code = wire.code
      BY <1>0, <1>2, <1>3, <2>1 DEF WireType
    <2>7. TypeInv'
      BY <1>0, <1>9, <2>3 DEF TypeInv, Attempt
    <2>8. StayInv'
      BY <1>0, <1>1, <1>9 DEF StayInv, Attempt
    <2>9. WireInv'
      BY <1>0, <1>1, <1>9, <2>3 DEF WireInv
    <2>10. SourceInv'
      BY <1>0, <1>1, <1>2, <1>9, <2>3 DEF SourceInv, Attempt
    <2>11. PayInv'
      BY <1>0, <1>1, <1>2, <1>9, <2>3 DEF PayInv, Attempt, Reading, Ended
    <2>12. RecordInv'
      BY <1>0, <1>1, <1>9 DEF RecordInv
    <2> QED
      BY <2>7, <2>8, <2>9, <2>10, <2>11, <2>12
  <1> QED
    BY <1>6, <1>7, <1>8, <1>9 DEF WebSocketEvent

(* What telling an event leaves, c being the error it ended in.            *)
Telling(e, c) ==
    /\ out' \in OutType /\ out'.err = "none" /\ c \in Errors /\ c # "conflict"
    /\ out'.sources = {} \/ out'.sources = {Len(dispatches)}
    /\ ~Streams => out'.sources = {} /\ out'.lease = "held"
    /\ out'.sources # {} /\ ~out'.wrote => c = "write"
    /\ Told' # {} => out'.sources # {}
    /\ Told \subseteq Told'
    /\ Ended' # {} => Terminal(e)
    /\ out'.lease # "held" => e.type = "success" /\ out'.lease \in {"spent", "known"}
    /\ Told' \cap Successes # {} => out'.lease # "held"
    /\ out'.finish => Terminal(e) /\ "success" \in Told'
    /\ c \in Retries => out'.wrote \/ (out'.lease = "held" /\ Ended' = {})
ToldRecord ==
    req.kind # "chat_stream" =>
    /\ out'.record # "succeeded"
    /\ out'.record = "running" /\ ~out'.broken =>
         Told' \cap Failures = {} /\ (out'.terminal => Told' \cap Successes # {})

LEMMA TellingHolds ==
    ASSUME Inv, pc = "deliver" \/ Reading, NEW e \in Events, NEW trouble \in Troubles,
           NEW o, o = IF Streams THEN Tell(out, e, trouble) ELSE out, out' = [o EXCEPT !.err = "none"]
    PROVE  Telling(e, o.err) /\ ToldRecord
  <1>1. /\ out \in OutType /\ out.err = "none" /\ out.lease = "held" /\ ~out.finish
        /\ dispatches # <<>> /\ Ended = {}
        /\ out.sources = {} \/ out.sources = {Len(dispatches)}
        /\ out.sources # {} => out.wrote
        /\ Told # {} => out.sources # {}
        /\ ~Streams => out.sources = {}
        /\ req.kind # "chat_stream" => out.record # "succeeded"
        /\ req.kind # "chat_stream" /\ out.record = "running" /\ ~out.broken =>
             Told \cap Failures = {} /\ (out.terminal => Told \cap Successes # {})
    BY DEF Inv, TypeInv, PayInv, SourceInv, WireInv, RecordInv, Reading, Attempt
  <1>2. Len(dispatches) \in Nat
    <2>1. PICK S : dispatches \in Seq(S)
      BY DEF Inv, TypeInv
    <2> QED
      BY <2>1
  <1>3. Told' = SetOf(out'.told) /\ Ended' = Told' \cap (Successes \cup Failures)
    BY DEF Told, SetOf, ToSet, Ended
  <1>4. e.type \in {"created", "metadata", "delta", "success", "failed", "error"} /\ e.type \in Items
    BY EventFacts
  <1>5. CASE ~Streams
    <2>1. o = out /\ out' = out
      BY <1>1, <1>5 DEF OutType
    <2>2. Told' = Told /\ Ended' = {}
      BY <1>1, <1>3, <2>1, ToldIs DEF Ended
    <2> QED
      BY <1>1, <1>5, <2>1, <2>2 DEF Telling, ToldRecord, Errors, Ended, Retries
  <1>6. CASE Streams
    <2>1. TellSpec(out, e, o) /\ (req.kind # "chat_stream" => TellRecord(out, e, o))
      BY <1>1, <1>2, <1>6, TellFacts
    <2>2. o \in OutType
      BY <2>1 DEF TellSpec
    <2>3. /\ out' \in OutType /\ out'.err = "none" /\ o.err \in Errors /\ out'.sources = o.sources
          /\ out'.told = o.told /\ out'.wrote = o.wrote /\ out'.lease = o.lease /\ out'.finish = o.finish
          /\ out'.record = o.record /\ out'.broken = o.broken /\ out'.terminal = o.terminal
          /\ out.told \in Seq(Items) /\ o.finish \in BOOLEAN
      BY <1>1, <2>2 DEF OutType, Errors
    <2>4. out.told # o.told => o.told = Append(out.told, e.type)
      BY <2>1 DEF TellSpec
    <2>5. \/ o.told = out.told /\ Told' = Told
          \/ o.told # out.told /\ Told' = Told \cup {e.type}
      <3>1. CASE o.told = out.told
        BY <1>3, <2>3, <3>1, ToldIs
      <3>2. CASE o.told # out.told
        <4>1. SetOf(Append(out.told, e.type)) = SetOf(out.told) \cup {e.type}
          BY <1>4, <2>3, SetOfAppend
        <4> QED
          BY <1>3, <2>3, <2>4, <3>2, <4>1, ToldIs
      <3> QED
        BY <3>1, <3>2
    <2>6. e.type \in Successes \cup Failures => Terminal(e)
      BY <1>4 DEF Successes, Failures, Terminal
    <2>7. Ended' = {} \/ (o.told # out.told /\ Terminal(e))
      BY <1>1, <1>3, <2>5, <2>6 DEF Ended
    <2>8. "success" \in Successes \cup Failures /\ Successes = {"success", "json"}
      BY DEF Successes
    <2>9. o.told # out.told => o.wrote \/ o.err = "write"
      BY <2>1 DEF TellSpec
    <2>10. Told \cap Successes = {}
      BY <1>1 DEF Ended
    <2>11. Telling(e, o.err)
      <3>1. o.sources = out.sources \/ (o.told # out.told /\ o.sources = {Len(dispatches)})
        <4>1. \/ o.told = out.told /\ o.sources = out.sources
              \/ o.told = Append(out.told, e.type) /\ o.sources = out.sources \cup {Len(dispatches)}
          BY <2>1 DEF TellSpec
        <4>2. Append(out.told, e.type) # out.told
          BY <1>4, <2>3, AppendDiffers
        <4> QED
          BY <1>1, <4>1, <4>2
      <3>2. o.told # out.told => o.sources # {}
        BY <1>4, <2>1, <2>3 DEF TellSpec
      <3>3. o.sources # {} /\ ~o.wrote => o.err = "write"
        BY <1>1, <2>1, <2>9, <3>1 DEF TellSpec
      <3>4. Told' # {} => o.sources # {}
        BY <1>1, <2>5, <3>1, <3>2
      <3>5. o.lease # "held" => e.type = "success" /\ o.lease \in {"spent", "known"}
        BY <2>1 DEF TellSpec
      <3>6. Told' \cap Successes # {} => o.lease # "held"
        BY <1>4, <2>1, <2>4, <2>5, <2>8, <2>10 DEF TellSpec
      <3>7. o.finish => Terminal(e) /\ "success" \in Told'
        BY <1>1, <2>1, <2>5, <2>6, <2>8 DEF TellSpec
      <3>8. o.err \in Retries => o.wrote \/ (o.lease = "held" /\ Ended' = {})
        BY <2>1, <2>7 DEF TellSpec
      <3>9. o.err # "conflict"
        BY <2>1 DEF TellSpec
      <3> QED
        BY <1>1, <1>6, <2>3, <2>5, <2>7, <3>1, <3>3, <3>4, <3>5, <3>6, <3>7, <3>8, <3>9 DEF Telling
    <2>12. ToldRecord
      <3> SUFFICES ASSUME req.kind # "chat_stream"
                   PROVE  /\ o.record # "succeeded"
                          /\ o.record = "running" /\ ~o.broken =>
                              Told' \cap Failures = {} /\ (o.terminal => Told' \cap Successes # {})
        BY <2>3 DEF ToldRecord
      <3>1. TellRecord(out, e, o)
        BY <2>1
      <3>2. o.record # "succeeded"
        BY <1>1, <3>1 DEF TellRecord
      <3>3. ASSUME o.record = "running", ~o.broken
            PROVE  Told' \cap Failures = {} /\ (o.terminal => Told' \cap Successes # {})
        <4>1. /\ out.record = "running" /\ ~out.broken
              /\ o.terminal = out.terminal \/ (o.terminal = Terminal(e) /\ o.told # out.told)
              /\ o.told # out.told => e.type \notin {"failed", "error"}
          BY <3>1, <3>3 DEF TellRecord
        <4>2. Told \cap Failures = {} /\ (out.terminal => Told \cap Successes # {})
          BY <1>1, <4>1
        <4>3. o.told # out.told => e.type \notin Failures /\ (Terminal(e) => e.type \in Successes)
          BY <1>4, <4>1 DEF Failures, Terminal, Successes
        <4> QED
          BY <2>5, <4>1, <4>2, <4>3
      <3> QED
        BY <3>2, <3>3
    <2> QED
      BY <2>11, <2>12
  <1> QED
    BY <1>5, <1>6

LEMMA ToldReturns ==
    ASSUME Inv, pc = "deliver" \/ Reading, NEW e \in Events, NEW c, NEW d,
           Telling(e, c), ToldRecord, Return(d), d = c \/ (c = "none" /\ d = Result(e)),
           UNCHANGED <<req, canceled, plan, account, bound, dispatches>>
    PROVE  Inv'
  <1> USE DEF Inv
  <1>0. pc \in {"reading", "deliver"} /\ pc # "returned"
    BY DEF Reading
  <1>1. dispatches # <<>> /\ wire \in WireType /\ (pc = "deliver" => Streams)
    BY DEF TypeInv, WireInv, Reading
  <1>2. /\ err' = d /\ pc' = "returned" /\ wire' \in WireType /\ Fresh(wire')
        /\ wire'.ended = wire.ended /\ wire.ended # "success"
    <2>1. wire.ended # "success"
      BY DEF WireInv, Reading
    <2> QED
      BY <1>1, <2>1, ReturnFacts
  <1>3. d \in Errors /\ d # "conflict"
    BY EventFacts DEF Telling, Errors, Codes
  <1>4. d \in Retries => out'.wrote \/ (out'.lease = "held" /\ Ended' = {})
    <2>1. CASE d = c
      BY <2>1 DEF Telling
    <2>2. CASE c = "none" /\ d = Result(e)
      <3>1. out'.sources # {} => out'.wrote
        BY <2>2 DEF Telling
      <3>2. Ended' # {} => out'.wrote
        BY <3>1 DEF Telling, Ended
      <3>3. d \in Retries => out'.lease = "held"
        BY <2>2 DEF Telling, Result, Retries
      <3> QED
        BY <3>2, <3>3
    <2> QED
      BY <2>1, <2>2
  <1>5. Streams' = Streams
    BY DEF Streams
  <1>6. TypeInv'
    BY <1>2, <1>3 DEF TypeInv, Attempt, Telling
  <1>7. StayInv'
    BY <1>0, <1>3, StayReturns
  <1>8. WireInv'
    BY <1>1, <1>2, <1>5 DEF WireInv, Fresh
  <1>9. SourceInv'
    <2>1. out'.sources # {} /\ ~out'.wrote => d = "write"
      BY EventFacts DEF Telling, Result
    <2> QED
      BY <1>2, <1>5, <2>1 DEF SourceInv, Attempt, Telling
  <1>10. PayInv'
    <2>1. out'.lease \in {"held", "spent", "known"}
      BY DEF Telling
    <2>2. Told' \cap Successes # {} => out'.lease \in {"spent", "known"}
      BY DEF Telling
    <2>3. wire'.code = "none" /\ wire'.ended # "success"
      BY <1>2 DEF Fresh
    <2> QED
      BY <1>1, <1>2, <1>4, <1>5, <2>1, <2>2, <2>3 DEF PayInv, Attempt, Reading, Telling
  <1>11. RecordInv'
    BY <1>2 DEF RecordInv, ToldRecord
  <1> QED
    BY <1>6, <1>7, <1>8, <1>9, <1>10, <1>11

LEMMA DeliverInv == ASSUME NEW trouble \in Troubles PROVE Inv /\ Deliver(trouble) => Inv'
  <1> SUFFICES ASSUME Inv, Deliver(trouble) PROVE Inv'
    OBVIOUS
  <1> USE DEF Inv, environment
  <1> DEFINE e == Head(wire.pending)
             o == Tell(out, e, trouble)
  <1>0. pc = "deliver" /\ UNCHANGED <<req, environment, plan, seen, account, bound, dispatches>>
    BY DEF Deliver
  <1>1. /\ wire \in WireType /\ wire.pending \in Seq(Events) /\ wire.pending # <<>> /\ wire.emitted
        /\ wire.via = "websocket" /\ Streams /\ dispatches # <<>> /\ wire.ended # "success" /\ wire.unsafe
    BY <1>0 DEF TypeInv, WireInv, WireType
  <1>2. /\ e \in Events /\ Tail(wire.pending) \in Seq(Events) /\ Len(wire.pending) \in Nat \ {0}
        /\ Len(Tail(wire.pending)) = Len(wire.pending) - 1
        /\ (Len(wire.pending) # 1 => Tail(wire.pending) # <<>>)
        /\ (\A i \in 1..(Len(wire.pending) - 1) : Tail(wire.pending)[i] = wire.pending[i+1])
    <2> DEFINE q == wire.pending
    <2>1. q \in Seq(Events) /\ q # <<>>
      BY <1>1
    <2> HIDE DEF q
    <2>2. Head(q) \in Events /\ Tail(q) \in Seq(Events) /\ Len(q) \in Nat \ {0} /\ Len(Tail(q)) = Len(q) - 1
      BY <2>1
    <2>3. \A i \in 1..(Len(q) - 1) : Tail(q)[i] = q[i+1]
      BY <2>1
    <2>4. Len(q) # 1 => Tail(q) # <<>>
      BY <2>2
    <2> QED
      BY <2>2, <2>3, <2>4 DEF q
  <1>3. /\ out' = [o EXCEPT !.err = "none"]
        /\ \/ o.err # "none" /\ Return(o.err)
           \/ o.err = "none" /\ Terminal(e) /\ Return(Result(e))
           \/ /\ o.err = "none" /\ ~Terminal(e) /\ wire' = [wire EXCEPT !.pending = Tail(@)]
              /\ pc' = IF Len(wire.pending) = 1 THEN "reading" ELSE pc
              /\ UNCHANGED err
    BY DEF Deliver
  <1>4. Telling(e, o.err) /\ ToldRecord
    BY <1>0, <1>1, <1>2, <1>3, TellingHolds
  <1> HIDE DEF e, o
  <1>5. CASE Return(o.err) \/ (o.err = "none" /\ Return(Result(e)))
    BY <1>0, <1>2, <1>4, <1>5, ToldReturns
  <1>6. CASE /\ o.err = "none" /\ ~Terminal(e) /\ wire' = [wire EXCEPT !.pending = Tail(@)]
             /\ pc' = IF Len(wire.pending) = 1 THEN "reading" ELSE pc
             /\ UNCHANGED err
    <2>1. /\ wire' \in WireType /\ wire'.pending = Tail(wire.pending) /\ wire'.emitted /\ wire'.via = "websocket"
          /\ wire'.unsafe /\ wire'.ended = wire.ended /\ wire'.code = wire.code
      BY <1>1, <1>2, <1>6 DEF WireType
    <2>2. Streams' = Streams /\ Continues' = Continues /\ IsResponses' = IsResponses
      BY <1>0 DEF Streams, Continues, IsResponses
    <2>3. \A i \in 1..Len(wire'.pending) : ~Safe(wire'.pending[i]) => i = Len(wire'.pending) /\ pc' = "deliver"
      <3> DEFINE q == wire'.pending
                 s == wire.pending
      <3>1. Len(q) = Len(s) - 1 /\ Len(s) \in Nat \ {0} /\ \A i \in 1..(Len(s) - 1) : q[i] = s[i+1]
        BY <1>2, <2>1
      <3>2. \A i \in 1..Len(s) : ~Safe(s[i]) => i = Len(s)
        BY <1>1 DEF WireInv
      <3>3. Len(s) # 1 => pc' = "deliver"
        BY <1>0, <1>6
      <3> HIDE DEF q, s
      <3>4. \A i \in 1..Len(q) : i + 1 \in 1..Len(s) /\ q[i] = s[i+1] /\ Len(s) # 1
        BY <3>1
      <3>5. \A i \in 1..Len(q) : ~Safe(q[i]) => i = Len(q) /\ pc' = "deliver"
        BY <3>1, <3>2, <3>3, <3>4
      <3> QED
        BY <3>5 DEF q
    <2>4. out'.lease = "held" /\ Ended' = {} /\ ~out'.finish /\ (out'.sources # {} => out'.wrote)
      BY <1>4, <1>6 DEF Telling, Terminal
    <2>5. TypeInv'
      BY <1>0, <1>4, <1>6, <2>1 DEF TypeInv, Attempt, Telling
    <2>6. StayInv'
      BY <1>0, <1>6, <2>2 DEF StayInv, Attempt
    <2>7. WireInv'
      BY <1>0, <1>1, <1>2, <1>6, <2>1, <2>2, <2>3 DEF WireInv
    <2>8. SourceInv'
      BY <1>0, <1>1, <1>4, <1>6, <2>1, <2>2, <2>4 DEF SourceInv, Attempt, Telling
    <2>9. PayInv'
      <3>1. Told' \cap Successes = {}
        BY <2>4 DEF Ended
      <3> QED
        BY <1>0, <1>1, <1>6, <2>1, <2>2, <2>4, <3>1 DEF PayInv, Attempt, Reading
    <2>10. RecordInv'
      BY <1>0, <1>4, <1>6 DEF RecordInv, ToldRecord
    <2> QED
      BY <2>5, <2>6, <2>7, <2>8, <2>9, <2>10
  <1> QED
    BY <1>3, <1>5, <1>6

LEMMA SSEEventInv ==
    ASSUME NEW e \in Events, NEW trouble \in Troubles PROVE Inv /\ SSEEvent(e, trouble) => Inv'
  <1> SUFFICES ASSUME Inv, SSEEvent(e, trouble) PROVE Inv'
    OBVIOUS
  <1> USE DEF Inv, environment
  <1> DEFINE o == IF Streams THEN Tell(out, e, trouble) ELSE out
  <1>0. /\ pc = "reading" /\ wire.via = "sse" /\ wire.ended = "no"
        /\ UNCHANGED <<req, environment, plan, seen, account, bound, dispatches>>
        /\ out' = [o EXCEPT !.err = "none"]
        /\ \/ o.err # "none" /\ Return(o.err)
           \/ /\ o.err = "none"
              /\ wire' = [wire EXCEPT !.events = @ + 1, !.ended = IF Terminal(e) THEN e.type ELSE @,
                                      !.code = Result(e)]
              /\ UNCHANGED <<err, pc>>
    BY DEF SSEEvent
  <1>1. Telling(e, o.err) /\ ToldRecord
    BY <1>0, TellingHolds DEF Reading
  <1> HIDE DEF o
  <1>2. wire \in WireType /\ dispatches # <<>>
    BY <1>0 DEF TypeInv, WireInv
  <1>3. CASE Return(o.err)
    BY <1>0, <1>1, <1>3, ToldReturns DEF Reading
  <1>4. CASE /\ o.err = "none"
             /\ wire' = [wire EXCEPT !.events = @ + 1, !.ended = IF Terminal(e) THEN e.type ELSE @,
                                     !.code = Result(e)]
             /\ UNCHANGED <<err, pc>>
    <2>1. /\ wire' \in WireType /\ wire'.via = "sse" /\ wire'.events > 0 /\ wire'.pending = wire.pending
          /\ wire'.emitted = wire.emitted /\ wire'.unsafe = wire.unsafe
          /\ wire'.ended = (IF Terminal(e) THEN e.type ELSE "no") /\ wire'.code = Result(e)
      <3>1. wire.events \in Nat /\ (Terminal(e) => e.type \in {"success", "failed", "error"})
        BY <1>2 DEF WireType, Terminal
      <3>2. Result(e) \in {"none"} \cup Codes
        BY EventFacts
      <3> DEFINE n == wire.events + 1
                 d == IF Terminal(e) THEN e.type ELSE "no"
                 c == Result(e)
      <3>3. n \in Nat /\ n > 0 /\ d \in {"no", "success", "failed", "error"} /\ c \in {"none"} \cup Codes
        BY <3>1, <3>2
      <3>4. wire' = [wire EXCEPT !.events = n, !.ended = d, !.code = c]
        BY <1>0, <1>4
      <3> HIDE DEF n, d, c
      <3>5. /\ wire' \in WireType /\ wire'.via = wire.via /\ wire'.events = n /\ wire'.pending = wire.pending
            /\ wire'.emitted = wire.emitted /\ wire'.unsafe = wire.unsafe
            /\ wire'.ended = d /\ wire'.code = c
        BY <1>2, <3>3, <3>4 DEF WireType
      <3> QED
        BY <1>0, <3>3, <3>5 DEF d, c
    <2>2. Streams' = Streams /\ Continues' = Continues /\ IsResponses' = IsResponses
      BY <1>0 DEF Streams, Continues, IsResponses
    <2>3. out'.sources # {} => out'.wrote
      BY <1>1, <1>4 DEF Telling
    <2>4. e.type = "success" => Terminal(e) /\ Result(e) = "none"
      BY DEF Terminal, Result
    <2>5. TypeInv'
      BY <1>0, <1>1, <1>4, <2>1 DEF TypeInv, Attempt, Telling
    <2>6. StayInv'
      BY <1>0, <1>4, <2>2 DEF StayInv, Attempt
    <2>7. WireInv'
      BY <1>0, <1>2, <1>4, <2>1, <2>2 DEF WireInv
    <2>8. SourceInv'
      <3>1. wire'.events # 0
        BY <2>1
      <3> QED
        BY <1>0, <1>1, <1>4, <2>1, <2>2, <2>3, <3>1 DEF SourceInv, Attempt, Telling
    <2>9. PayInv'
      <3>1. Reading' => ~Terminal(e)
        BY <2>1 DEF Reading, Terminal
      <3>2. ~Terminal(e) => out'.lease = "held" /\ Ended' = {} /\ ~out'.finish
        BY <1>1 DEF Telling, Terminal
      <3>3. Told' \cap Successes # {} => out'.lease \in {"spent", "known"}
        BY <1>1 DEF Telling
      <3>4. out'.lease # "held" => wire'.ended = "success"
        BY <1>1, <2>1, <2>4 DEF Telling
      <3>5. wire'.ended = "success" => wire'.code = "none"
        BY <2>1 DEF Terminal, Result
      <3> QED
        BY <1>0, <1>1, <1>2, <1>4, <2>2, <3>1, <3>2, <3>3, <3>4, <3>5 DEF PayInv, Attempt, Telling
    <2>10. RecordInv'
      BY <1>0, <1>1, <1>4 DEF RecordInv, ToldRecord
    <2> QED
      BY <2>5, <2>6, <2>7, <2>8, <2>9, <2>10
  <1> QED
    BY <1>0, <1>3, <1>4

-----------------------------------------------------------------------------
(* The invariant is inductive: sending again and answering                 *)

LEMMA RetryInv == Inv /\ Retry => Inv'
  <1> SUFFICES ASSUME Inv, Retry PROVE Inv'
    OBVIOUS
  <1> USE DEF Inv, environment
  <1>0. pc = "returned" /\ UNCHANGED <<req, environment, seen, account, bound, wire, dispatches>>
    BY DEF Retry
  <1>1. Streams' = Streams /\ Continues' = Continues /\ IsResponses' = IsResponses
    BY <1>0 DEF Streams, Continues, IsResponses
  <1>2. out \in OutType /\ out.err = "none"
    BY <1>0 DEF TypeInv
  <1>3. ASSUME NEW e, Answer(e), e = "none" => err = "none" PROVE Inv'
    <2>1. err' \in {"none", "upstream"} /\ (err' = "none" => err = "none") /\ pc' = "answer"
          /\ UNCHANGED <<plan, out>>
      BY <1>3 DEF Answer
    <2>2. Told' = Told
      BY <2>1 DEF Told
    <2>3. TypeInv'
      BY <1>0, <2>1 DEF TypeInv, Errors
    <2>4. StayInv'
      BY <1>0, <1>1, <2>1 DEF StayInv, Attempt
    <2>5. WireInv'
      BY <1>0, <1>1, <2>1 DEF WireInv
    <2>6. SourceInv'
      BY <1>0, <1>1, <2>1, <2>2 DEF SourceInv, Attempt
    <2>7. PayInv'
      BY <1>0, <1>1, <2>1, <2>2 DEF PayInv, Attempt, Reading, Ended
    <2>8. RecordInv'
      BY <1>0, <1>1, <2>1, <2>2 DEF RecordInv
    <2> QED
      BY <2>3, <2>4, <2>5, <2>6, <2>7, <2>8
  <1>4. ASSUME NEW p, Again(p), err \in Retries, ~out.wrote,
               p = [forced |-> p.forced, hinted |-> p.hinted, hint |-> p.hint,
                    rebuilt |-> p.rebuilt, retried |-> p.retried],
               IF IsResponses THEN Continues => p.forced = req.owner ELSE ~Continues,
               ~Continues /\ bound # None => p.forced = bound
        PROVE  Inv'
    <2>1. pc' = "copy" /\ err' = "none" /\ plan' = p
          /\ out' = [out EXCEPT !.terminal = FALSE, !.failure = FALSE, !.finish = FALSE]
      BY <1>4 DEF Again
    <2>2. /\ out' \in OutType /\ out'.told = out.told /\ out'.sources = out.sources /\ out'.err = "none"
          /\ out'.lease = out.lease /\ out'.record = out.record /\ out'.broken = out.broken
          /\ ~out'.finish /\ ~out'.terminal /\ out'.wrote = out.wrote
      BY <1>2, <2>1 DEF OutType
    <2>3. Told' = Told
      BY <2>2 DEF Told
    <2>4. out.lease = "held" /\ Ended = {}
      BY <1>0, <1>4 DEF PayInv
    <2>5. out.sources = {} /\ Told = {}
      BY <1>0, <1>4 DEF SourceInv, Attempt, Retries
    <2>6. TypeInv'
      BY <1>0, <1>4, <2>1, <2>2 DEF TypeInv, Attempt, Errors
    <2>7. StayInv'
      BY <1>0, <1>1, <1>4, <2>1 DEF StayInv, Attempt
    <2>8. WireInv'
      BY <1>0, <1>1, <2>1 DEF WireInv
    <2>9. SourceInv'
      BY <1>0, <1>1, <2>1, <2>2, <2>3, <2>5 DEF SourceInv, Attempt
    <2>10. PayInv'
      BY <1>0, <1>1, <2>1, <2>2, <2>3, <2>4, <2>5 DEF PayInv, Attempt, Reading, Ended
    <2>11. RecordInv'
      BY <1>0, <1>1, <2>1, <2>2, <2>3 DEF RecordInv
    <2> QED
      BY <2>6, <2>7, <2>8, <2>9, <2>10, <2>11
  <1>5. PICK f, g, h, r, s :
          plan = [forced |-> f, hinted |-> g, hint |-> h, rebuilt |-> r, retried |-> s]
    BY DEF TypeInv
  <1>a. IsResponses /\ Continues => plan.forced = req.owner
    BY <1>0 DEF StayInv, Attempt
  <1>6. CASE err = "previous" /\ IsResponses /\ ~out.wrote /\ Continues /\ RetryContinuation
    <2> DEFINE p == [forced |-> f, hinted |-> g, hint |-> h, rebuilt |-> TRUE,
                     retried |-> s \cup {"continuation"}]
    <2>1. p = [plan EXCEPT !.retried = @ \cup {"continuation"}, !.rebuilt = TRUE] /\ plan.forced = f
      <3> DEFINE q == [forced |-> f, hinted |-> g, hint |-> h, rebuilt |-> r, retried |-> s]
                 q1 == [forced |-> f, hinted |-> g, hint |-> h, rebuilt |-> r, retried |-> s \cup {"continuation"}]
      <3>1. q1 = [q EXCEPT !.retried = @ \cup {"continuation"}]
        OBVIOUS
      <3>2. p = [q1 EXCEPT !.rebuilt = TRUE]
        <4>1. \A u : [forced |-> f, hinted |-> g, hint |-> h, rebuilt |-> u,
                      retried |-> s \cup {"continuation"}] = [q1 EXCEPT !.rebuilt = u]
          OBVIOUS
        <4> QED
          BY <4>1
      <3>3. plan = q /\ q.forced = f
        BY <1>5
      <3> HIDE DEF p, q, q1
      <3> QED
        BY <3>1, <3>2, <3>3
    <2>2. Again(p)
      BY <1>6, <2>1 DEF RetryContinuation
    <2>3. p.forced = plan.forced
          /\ p = [forced |-> p.forced, hinted |-> p.hinted, hint |-> p.hint,
                  rebuilt |-> p.rebuilt, retried |-> p.retried]
      BY <2>1
    <2> HIDE DEF p
    <2> QED
      BY <1>4, <1>a, <1>6, <2>2, <2>3 DEF Retries
  <1>7. CASE err = "limit" /\ req.kind = "responses_stream" /\ ~out.wrote /\ RetryLimit
    <2> DEFINE a == IF account = None THEN plan.forced ELSE account
               p == [forced |-> a, hinted |-> g, hint |-> h, rebuilt |-> r,
                     retried |-> s \cup {"limit"}]
    <2>1. p = [plan EXCEPT !.retried = @ \cup {"limit"}, !.forced = a]
      <3> HIDE DEF a
      <3> DEFINE q == [forced |-> f, hinted |-> g, hint |-> h, rebuilt |-> r, retried |-> s]
                 q1 == [forced |-> f, hinted |-> g, hint |-> h, rebuilt |-> r, retried |-> s \cup {"limit"}]
      <3>1. q1 = [q EXCEPT !.retried = @ \cup {"limit"}]
        OBVIOUS
      <3>2. p = [q1 EXCEPT !.forced = a]
        OBVIOUS
      <3>3. plan = q
        BY <1>5
      <3> HIDE DEF p, q, q1
      <3> QED
        BY <3>1, <3>2, <3>3
    <2>2. Again(p)
      BY <1>7, <2>1 DEF RetryLimit
    <2>b. p.forced = a
          /\ p = [forced |-> p.forced, hinted |-> p.hinted, hint |-> p.hint,
                  rebuilt |-> p.rebuilt, retried |-> p.retried]
      OBVIOUS
    <2>3. bound = account
      BY <1>0, <1>7 DEF StayInv
    <2>4. IsResponses
      BY <1>7 DEF IsResponses
    <2>5. Continues => a = req.owner
      BY <1>a, <2>3, <2>4 DEF StayInv, Continues
    <2>6. bound # None => a = bound
      BY <2>3
    <2> HIDE DEF p, a
    <2> QED
      BY <1>4, <1>7, <2>b, <2>2, <2>4, <2>5, <2>6 DEF Retries
  <1>8. CASE err = "conflict" /\ plan.forced = None /\ ~out.wrote /\ RetryAffinity /\ affinity # None
    <2> DEFINE i == IF req.kind \in {"compact", "chat"} THEN plan.hint ELSE None
               p == [forced |-> affinity, hinted |-> g, hint |-> i, rebuilt |-> r,
                     retried |-> s \cup {"affinity"}]
    <2>1. p = [plan EXCEPT !.retried = @ \cup {"affinity"}, !.forced = affinity, !.hint = i]
      <3> HIDE DEF i
      <3> DEFINE q == [forced |-> f, hinted |-> g, hint |-> h, rebuilt |-> r, retried |-> s]
                 q1 == [forced |-> f, hinted |-> g, hint |-> h, rebuilt |-> r, retried |-> s \cup {"affinity"}]
                 q2 == [forced |-> affinity, hinted |-> g, hint |-> h, rebuilt |-> r, retried |-> s \cup {"affinity"}]
      <3>1. q1 = [q EXCEPT !.retried = @ \cup {"affinity"}]
        OBVIOUS
      <3>2. q2 = [q1 EXCEPT !.forced = affinity]
        OBVIOUS
      <3>3. p = [q2 EXCEPT !.hint = i]
        OBVIOUS
      <3>4. plan = q
        BY <1>5
      <3> HIDE DEF p, q, q1, q2
      <3> QED
        BY <3>1, <3>2, <3>3, <3>4
    <2>2. Again(p)
      BY <1>8, <2>1 DEF RetryAffinity
    <2>b. p = [forced |-> p.forced, hinted |-> p.hinted, hint |-> p.hint,
               rebuilt |-> p.rebuilt, retried |-> p.retried]
      OBVIOUS
    <2>3. req.session /\ bound = None
      BY <1>0, <1>8 DEF StayInv
    <2>4. ~Continues
      BY <2>3 DEF TypeInv, Possible, Continues
    <2> HIDE DEF p, i
    <2> QED
      BY <1>4, <1>8, <2>b, <2>2, <2>3, <2>4 DEF Retries
  <1>9. \/ \E e \in {"canceled", "upstream", err} : Answer(e)
        \/ err = "previous" /\ IsResponses /\ ~out.wrote /\ Continues /\ RetryContinuation
        \/ err = "limit" /\ req.kind = "responses_stream" /\ ~out.wrote /\ RetryLimit
        \/ err = "conflict" /\ plan.forced = None /\ ~out.wrote /\ RetryAffinity /\ affinity # None
    BY DEF Retry, MayRetry, RetryAffinity
  <1> QED
    BY <1>3, <1>6, <1>7, <1>8, <1>9

JsonSpec(o, p) ==
    /\ p \in OutType /\ Same(p, o) /\ p.sources = o.sources /\ p.lease = o.lease
    /\ ToldOf(p) = ToldOf(o) \cup {"json error"}
    /\ p.record = IF o.record = "running" THEN "failed" ELSE o.record
LEMMA JsonErrorFacts == ASSUME NEW o \in OutType PROVE JsonSpec(o, JsonError(o))
  <1> DEFINE j == "json error"
             q == [o EXCEPT !.told = Append(@, j)]
             p == Mark(q, "failed")
  <1>1. o.told \in Seq(Items) /\ j \in Items
    BY DEF OutType, Items
  <1>5. JsonError(o) = p
    BY DEF JsonError
  <1>6. j = "json error"
    OBVIOUS
  <1> HIDE DEF j
  <1>2. Append(o.told, j) \in Seq(Items) /\ SetOf(Append(o.told, j)) = SetOf(o.told) \cup {j}
    <2>1. Append(o.told, j) \in Seq(Items)
      BY <1>1
    <2>2. SetOf(Append(o.told, j)) = SetOf(o.told) \cup {j}
      BY <1>1, SetOfAppend
    <2> QED
      BY <2>1, <2>2
  <1>3. /\ q \in OutType /\ Same(q, o) /\ q.told = Append(o.told, j)
        /\ q.sources = o.sources /\ q.lease = o.lease /\ q.record = o.record
    BY <1>2 DEF OutType, Same
  <1> HIDE DEF q
  <1>4. /\ p \in OutType /\ Same(p, q) /\ p.told = q.told /\ p.sources = q.sources /\ p.lease = q.lease
        /\ p.record = IF q.record = "running" THEN "failed" ELSE q.record
    BY <1>3, MarkFacts
  <1> HIDE DEF p
  <1> QED
    BY <1>2, <1>3, <1>4, <1>5, <1>6 DEF JsonSpec, ToldOf, Same

LEMMA RefuseInv == Inv /\ Refuse => Inv'
  <1> SUFFICES ASSUME Inv, Refuse PROVE Inv'
    OBVIOUS
  <1> USE DEF Inv, environment
  <1>0. /\ pc = "refuse" /\ pc' = "finish" /\ out' = JsonError(out)
        /\ UNCHANGED <<req, environment, plan, seen, account, bound, wire, dispatches, err>>
    BY DEF Refuse
  <1>1. out \in OutType /\ out.told = <<>> /\ out.lease = "none" /\ dispatches = <<>>
    BY <1>0 DEF TypeInv, SourceInv, PayInv
  <1>2. JsonSpec(out, out')
    BY <1>0, <1>1, JsonErrorFacts
  <1>7. /\ out' \in OutType /\ out'.sources = out.sources /\ out'.lease = "none"
        /\ out'.finish = out.finish
        /\ out'.record = IF out.record = "running" THEN "failed" ELSE out.record
    BY <1>1, <1>2 DEF JsonSpec, Same
  <1>9. Told = {}
    BY <1>1, ToldIs, SetOfEmpty
  <1>8. Told' = {"json error"}
    <2>1. Told' = SetOf(out'.told)
      BY DEF Told, SetOf, ToSet
    <2> QED
      BY <1>2, <1>9, <2>1, ToldIs DEF JsonSpec, ToldOf
  <1>10. Streams' = Streams /\ Continues' = Continues
    BY <1>0 DEF Streams, Continues
  <1>11. TypeInv'
    BY <1>0, <1>7 DEF TypeInv
  <1>12. StayInv'
    BY <1>0, <1>10 DEF StayInv, Attempt
  <1>13. WireInv'
    BY <1>0, <1>10 DEF WireInv
  <1>14. SourceInv'
    BY <1>0, <1>7, <1>10 DEF SourceInv, Attempt
  <1>15. PayInv'
    BY <1>0, <1>1, <1>7, <1>8, <1>9, <1>10 DEF PayInv, Attempt, Reading, Ended, Successes
  <1>16. RecordInv'
    BY <1>0, <1>7 DEF RecordInv
  <1> QED
    BY <1>11, <1>12, <1>13, <1>14, <1>15, <1>16

LEMMA ReleaseInv == Inv /\ Release => Inv'
  <1> SUFFICES ASSUME Inv, Release PROVE Inv'
    OBVIOUS
  <1> USE DEF Inv, environment
  <1>0. /\ pc = "release" /\ pc' = "finish"
        /\ out' = [out EXCEPT !.lease = IF @ = "held" THEN "returned" ELSE @] \/ out' = out
        /\ UNCHANGED <<req, environment, plan, seen, account, bound, wire, dispatches, err>>
    BY DEF Release
  <1>1. out \in OutType
    BY DEF TypeInv
  <1>2. PICK l \in Leases : out' = [out EXCEPT !.lease = l] /\ (l = out.lease \/ (out.lease = "held" /\ l = "returned"))
    <2>1. out = [out EXCEPT !.lease = out.lease] /\ out.lease \in Leases
      BY <1>1 DEF OutType
    <2>2. "returned" \in Leases
      BY DEF Leases
    <2> QED
      BY <1>0, <2>1, <2>2
  <1>3. /\ out' \in OutType /\ out'.told = out.told /\ out'.sources = out.sources /\ out'.lease = l
        /\ out'.finish = out.finish /\ out'.record = out.record /\ out'.broken = out.broken
        /\ out'.terminal = out.terminal
    BY <1>1, <1>2 DEF OutType
  <1>4. Told' = Told /\ Streams' = Streams /\ Continues' = Continues
    BY <1>0, <1>3 DEF Streams, Continues, Told
  <1>5. TypeInv'
    BY <1>0, <1>3 DEF TypeInv
  <1>6. StayInv'
    BY <1>0, <1>4 DEF StayInv, Attempt
  <1>7. WireInv'
    BY <1>0, <1>4 DEF WireInv
  <1>8. SourceInv'
    BY <1>0, <1>3, <1>4 DEF SourceInv, Attempt
  <1>9. PayInv'
    BY <1>0, <1>2, <1>3, <1>4 DEF PayInv, Attempt, Reading, Ended
  <1>10. RecordInv'
    BY <1>0, <1>3, <1>4 DEF RecordInv
  <1> QED
    BY <1>5, <1>6, <1>7, <1>8, <1>9, <1>10

LEMMA FinishInv == Inv /\ Finish => Inv'
  <1> SUFFICES ASSUME Inv, Finish PROVE Inv'
    OBVIOUS
  <1> USE DEF Inv, environment
  <1> DEFINE status == IF out.spoiled THEN "failed" ELSE IF canceled THEN "canceled" ELSE "succeeded"
  <1>0. /\ pc = "finish" /\ pc' = "done" /\ (out' = Mark(out, status) \/ out' = out)
        /\ UNCHANGED <<req, environment, plan, seen, account, bound, wire, dispatches, err>>
    BY DEF Finish
  <1>1. out \in OutType /\ status \in {"succeeded", "failed", "canceled"}
    BY DEF TypeInv
  <1>2. canceled => status # "succeeded"
    OBVIOUS
  <1> HIDE DEF status
  <1>3. /\ out' \in OutType /\ out'.told = out.told /\ out'.sources = out.sources /\ out'.lease = out.lease
        /\ out'.finish = out.finish
        /\ out'.record = out.record \/ (out.record = "running" /\ out'.record = status)
    BY <1>0, <1>1, MarkFacts DEF Same
  <1>4. Told' = Told /\ Streams' = Streams /\ Continues' = Continues
    BY <1>0, <1>3 DEF Streams, Continues, Told
  <1>5. TypeInv'
    BY <1>0, <1>3 DEF TypeInv
  <1>6. StayInv'
    BY <1>0, <1>4 DEF StayInv, Attempt
  <1>7. WireInv'
    BY <1>0, <1>4 DEF WireInv
  <1>8. SourceInv'
    BY <1>0, <1>3, <1>4 DEF SourceInv, Attempt
  <1>9. PayInv'
    BY <1>0, <1>3, <1>4 DEF PayInv, Attempt, Reading, Ended
  <1>10. RecordInv'
    BY <1>0, <1>2, <1>3, <1>4 DEF RecordInv
  <1> QED
    BY <1>5, <1>6, <1>7, <1>8, <1>9, <1>10

LEMMA EnvironmentInv == Inv /\ Environment => Inv'
  <1> SUFFICES ASSUME Inv, Environment PROVE Inv'
    OBVIOUS
  <1> USE DEF Inv
  <1>0. /\ UNCHANGED <<req, pc, plan, seen, account, bound, wire, dispatches, err, out>>
        /\ canceled' = canceled \/ canceled' = TRUE
    BY DEF Environment, HangUp, SessionChanges, ProfileChanges
  <1>1. Told' = Told /\ Streams' = Streams /\ Continues' = Continues /\ IsResponses' = IsResponses
    BY <1>0 DEF Streams, Continues, Told, IsResponses
  <1>2. TypeInv'
    BY <1>0 DEF TypeInv
  <1>3. StayInv'
    BY <1>0, <1>1 DEF StayInv
  <1>4. WireInv'
    BY <1>0, <1>1 DEF WireInv
  <1>5. SourceInv'
    BY <1>0, <1>1 DEF SourceInv
  <1>6. PayInv'
    BY <1>0, <1>1 DEF PayInv, Reading, Ended
  <1>7. RecordInv'
    BY <1>0, <1>1 DEF RecordInv
  <1> QED
    BY <1>2, <1>3, <1>4, <1>5, <1>6, <1>7

-----------------------------------------------------------------------------
(* The invariant is inductive: the answer                                  *)

LEMMA ToldOfSame == ASSUME NEW o, NEW p, p.told = o.told PROVE ToldOf(p) = ToldOf(o)
  BY DEF ToldOf

(* A record of the handler itself. *)
WroteSpec(o, item, p) ==
    /\ p \in OutType /\ p.sources = o.sources /\ p.lease = o.lease /\ p.finish = o.finish
    /\ \/ /\ p.broken /\ p.record = o.record
          /\ ToldOf(p) \in {ToldOf(o), ToldOf(o) \cup {item}}
       \/ /\ ~p.broken /\ ~o.broken /\ p.record = Written(item, o.record)
          /\ ToldOf(p) = ToldOf(o) \cup {item}
LEMMA WriteFacts ==
    ASSUME NEW o \in OutType, NEW item \in Items, NEW trouble
    PROVE  WroteSpec(o, item, Write(o, item, trouble))
  <1> DEFINE p == Write(o, item, trouble)
  <1>1. WriteSpec(o, item, {}, p)
    BY WriteRecordFacts DEF Write
  <1> SUFFICES WroteSpec(o, item, p)
    OBVIOUS
  <1> HIDE DEF p
  <1>2. SetOf(Append(o.told, item)) = SetOf(o.told) \cup {item}
    BY SetOfAppend DEF OutType
  <1>3. \/ p.told = o.told /\ ToldOf(p) = ToldOf(o)
        \/ p.told = Append(o.told, item) /\ ToldOf(p) = ToldOf(o) \cup {item}
    BY <1>1, <1>2 DEF WriteSpec, ToldOf
  <1>4. p.sources = o.sources
    BY <1>1 DEF WriteSpec
  <1> QED
    BY <1>1, <1>2, <1>3, <1>4 DEF WriteSpec, WroteSpec, Same, ToldOf

LEMMA SetOfTwo ==
    ASSUME NEW S, NEW s \in Seq(S), NEW x \in S, NEW y \in S
    PROVE  s \o <<x, y>> \in Seq(S) /\ SetOf(s \o <<x, y>>) = SetOf(s) \cup {x, y}
  <1> DEFINE u == Append(s, x)
             t == Append(u, y)
  <1>1. s \o <<x, y>> = t
    OBVIOUS
  <1>2. u \in Seq(S) /\ SetOf(u) = SetOf(s) \cup {x}
    <2>1. u \in Seq(S)
      OBVIOUS
    <2>2. SetOf(u) = SetOf(s) \cup {x}
      BY SetOfAppend
    <2> QED
      BY <2>1, <2>2
  <1> HIDE DEF u
  <1>3. t \in Seq(S) /\ SetOf(t) = SetOf(u) \cup {y}
    <2>1. t \in Seq(S)
      BY <1>2
    <2>2. SetOf(t) = SetOf(u) \cup {y}
      BY <1>2, SetOfAppend
    <2> QED
      BY <2>1, <2>2
  <1> HIDE DEF t
  <1>4. SetOf(t) = SetOf(s) \cup {x, y}
    BY <1>2, <1>3
  <1> QED
    BY <1>1, <1>3, <1>4

ReportSpec(o, p) ==
    /\ p \in OutType /\ p.sources = o.sources /\ p.lease = o.lease /\ p.finish = o.finish
    /\ p.record = IF o.record = "running" THEN "failed" ELSE o.record
    /\ \E X \in SUBSET {"error", "chat error", "done"} : ToldOf(p) = ToldOf(o) \cup X
LEMMA ReportFacts == ASSUME NEW o \in OutType PROVE ReportSpec(o, Report(o))
  <1> DEFINE f == Mark(o, "failed")
             a == IF IsResponses THEN "error" ELSE "chat error"
             d == "done"
             p == [f EXCEPT !.told = @ \o <<a, d>>]
  <1>1. /\ f \in OutType /\ Same(f, o) /\ f.told = o.told /\ f.sources = o.sources /\ f.lease = o.lease
        /\ f.record = IF o.record = "running" THEN "failed" ELSE o.record
    BY MarkFacts
  <1>2. a \in Items /\ d \in Items /\ a \in {"error", "chat error", "done"} /\ d \in {"error", "chat error", "done"}
    BY DEF Items
  <1>3. Report(o) = IF canceled THEN f ELSE p
    BY DEF Report
  <1> HIDE DEF f, a, d
  <1>4. f.told \in Seq(Items)
    BY <1>1 DEF OutType
  <1>5. f.told \o <<a, d>> \in Seq(Items) /\ SetOf(f.told \o <<a, d>>) = SetOf(f.told) \cup {a, d}
    <2> DEFINE s == f.told
    <2>1. s \in Seq(Items)
      BY <1>4
    <2> HIDE DEF s
    <2>2. \A x, y \in Items : s \o <<x, y>> \in Seq(Items) /\ SetOf(s \o <<x, y>>) = SetOf(s) \cup {x, y}
      <3> TAKE x, y \in Items
      <3> QED
        BY <2>1, SetOfTwo
    <2>3. s \o <<a, d>> \in Seq(Items) /\ SetOf(s \o <<a, d>>) = SetOf(s) \cup {a, d}
      BY <1>2, <2>2, Zenon
    <2> QED
      BY <2>3 DEF s
  <1>6. /\ p \in OutType /\ p.told = f.told \o <<a, d>> /\ p.sources = f.sources /\ p.lease = f.lease
        /\ p.finish = f.finish /\ p.record = f.record
    BY <1>1, <1>5 DEF OutType
  <1> HIDE DEF p
  <1>7. ToldOf(f) = ToldOf(o) \cup {} /\ ToldOf(p) = ToldOf(o) \cup {a, d}
    BY <1>1, <1>5, <1>6 DEF ToldOf
  <1>8. {} \in SUBSET {"error", "chat error", "done"} /\ {a, d} \in SUBSET {"error", "chat error", "done"}
    BY <1>2
  <1>9. CASE canceled
    BY <1>1, <1>3, <1>7, <1>8, <1>9 DEF ReportSpec, Same
  <1>10. CASE ~canceled
    BY <1>1, <1>3, <1>6, <1>7, <1>8, <1>10 DEF ReportSpec, Same
  <1> QED
    BY <1>9, <1>10

(* What an answer adds: a failure or the end of the stream, or the charge  *)
(* and what was bought.                                                    *)
Honest(p) ==
    req.kind # "chat_stream" =>
    /\ p.record = "succeeded" => ToldOf(p) \cap Successes # {} /\ ToldOf(p) \cap Failures = {}
    /\ p.record = "running" => canceled
StreamItems(o) == Failures \cup {"done"} \cup (IF "success" \in ToldOf(o) THEN {"usage"} ELSE {})
AnswerSpec(o, p) ==
    /\ p \in OutType /\ p.sources = o.sources /\ p.finish = o.finish /\ Honest(p)
    /\ \/ p.lease = o.lease /\ \E X \in SUBSET StreamItems(o) : ToldOf(p) = ToldOf(o) \cup X
       \/ /\ ~Streams /\ dispatches # <<>> /\ ToldOf(o) = {}
          /\ p.lease \in {"spent", "known"} /\ ToldOf(p) \in {{}, {"json"}, {"json error"}}

LEMMA JsonAnswer ==
    ASSUME Inv, pc = "answer" PROVE AnswerSpec(out, JsonError(out))
  <1>1. out \in OutType /\ (req.kind # "chat_stream" => out.record # "succeeded")
    BY DEF Inv, TypeInv, RecordInv
  <1>2. JsonSpec(out, JsonError(out))
    BY <1>1, JsonErrorFacts
  <1>3. {"json error"} \in SUBSET StreamItems(out)
    BY DEF StreamItems, Failures
  <1> QED
    BY <1>1, <1>2, <1>3 DEF JsonSpec, Same, AnswerSpec, Honest

LEMMA AnswerStreamFacts ==
    ASSUME Inv, pc = "answer", Streams, NEW trouble PROVE AnswerSpec(out, AnswerStream(trouble))
  <1> DEFINE bad == out.failure \/ err # "none" \/ ~out.finish
             i == IF bad THEN "chat error" ELSE "usage"
             d == "done"
             r == "error"
             last == IF IsResponses THEN IF out.terminal THEN out ELSE Write(out, r, trouble)
                     ELSE Write(out, i, trouble)
             o == Write(last, d, trouble)
  <1>1. out \in OutType /\ out.broken \in BOOLEAN
    BY DEF Inv, TypeInv, OutType
  <1>2. r \in Items /\ i \in Items /\ d \in Items /\ r \in StreamItems(out) /\ d \in StreamItems(out)
        /\ (i \in StreamItems(out))
    <2>1. out.finish => "success" \in ToldOf(out)
      BY ToldIs DEF Inv, PayInv, ToldOf
    <2> QED
      BY <2>1 DEF Items, StreamItems, Failures
  <1>3. req.kind # "chat_stream" => IsResponses
    BY DEF Streams, IsResponses
  <1>4. AnswerStream(trouble) = IF out.broken THEN Report(out) ELSE IF o.broken THEN Report(o) ELSE o
    BY DEF AnswerStream
  <1>5. /\ req.kind # "chat_stream" => out.record # "succeeded"
        /\ req.kind # "chat_stream" /\ out.record = "running" /\ ~out.broken =>
             ToldOf(out) \cap Failures = {} /\ (out.terminal => ToldOf(out) \cap Successes # {})
    BY ToldIs DEF Inv, RecordInv, ToldOf
  <1>6. r = "error" /\ d = "done"
    OBVIOUS
  <1> HIDE DEF bad, i, d, r
  <1>7. /\ last \in OutType /\ last.sources = out.sources /\ last.lease = out.lease /\ last.finish = out.finish
        /\ \E X \in SUBSET StreamItems(out) : ToldOf(last) = ToldOf(out) \cup X
        /\ IsResponses /\ out.terminal => last = out
        /\ IsResponses /\ ~out.terminal =>
             (last.broken /\ last.record = out.record) \/ last.record = Written(r, out.record)
    <2>1. WroteSpec(out, r, Write(out, r, trouble)) /\ WroteSpec(out, i, Write(out, i, trouble))
      BY <1>1, <1>2, WriteFacts
    <2>2. {} \in SUBSET StreamItems(out) /\ {r} \in SUBSET StreamItems(out) /\ {i} \in SUBSET StreamItems(out)
      BY <1>2
    <2>3. ToldOf(out) = ToldOf(out) \cup {}
      OBVIOUS
    <2>4. CASE last = out /\ IsResponses /\ out.terminal
      BY <1>1, <2>2, <2>3, <2>4
    <2>5. CASE last = Write(out, r, trouble) /\ ~(IsResponses /\ out.terminal)
      <3> HIDE DEF last
      <3> QED
        BY <2>1, <2>2, <2>3, <2>5 DEF WroteSpec
    <2>6. CASE last = Write(out, i, trouble) /\ ~IsResponses
      <3> HIDE DEF last
      <3> QED
        BY <2>1, <2>2, <2>3, <2>6 DEF WroteSpec
    <2> QED
      BY <2>4, <2>5, <2>6
  <1> HIDE DEF last
  <1>8. WroteSpec(last, d, o)
    BY <1>2, <1>7, WriteFacts
  <1> HIDE DEF o
  <1>9. PICK X \in SUBSET StreamItems(out) : ToldOf(last) = ToldOf(out) \cup X
    BY <1>7
  <1>10. PICK Y \in SUBSET StreamItems(out) : ToldOf(o) = ToldOf(out) \cup Y
    <2>1. CASE ToldOf(o) = ToldOf(last)
      BY <1>9, <2>1
    <2>2. CASE ToldOf(o) = ToldOf(last) \cup {d}
      <3>1. X \cup {d} \in SUBSET StreamItems(out) /\ ToldOf(o) = ToldOf(out) \cup (X \cup {d})
        BY <1>2, <1>9, <2>2
      <3> QED
        BY <3>1
    <2> QED
      BY <1>8, <2>1, <2>2 DEF WroteSpec
  <1>11. o \in OutType /\ o.sources = out.sources /\ o.lease = out.lease /\ o.finish = out.finish
    BY <1>7, <1>8 DEF WroteSpec
  <1>12. req.kind # "chat_stream" /\ o.broken => o.record # "succeeded"
    <2> SUFFICES ASSUME req.kind # "chat_stream", o.broken PROVE o.record # "succeeded"
      OBVIOUS
    <2>1. o.record = last.record
      BY <1>8 DEF WroteSpec
    <2>2. last.record = out.record \/ last.record = Written(r, out.record)
      BY <1>3, <1>7 DEF OutType
    <2> QED
      BY <1>3, <1>5, <1>6, <2>1, <2>2 DEF Written
  <1>13. ASSUME NEW p, NEW b \in OutType, ReportSpec(b, p), b.sources = out.sources, b.lease = out.lease,
                b.finish = out.finish, req.kind # "chat_stream" => b.record # "succeeded",
                NEW Z \in SUBSET StreamItems(out), ToldOf(b) = ToldOf(out) \cup Z
         PROVE  AnswerSpec(out, p)
    <2>1. PICK U \in SUBSET {"error", "chat error", "done"} : ToldOf(p) = ToldOf(b) \cup U
      BY <1>13 DEF ReportSpec
    <2>2. ToldOf(p) = ToldOf(out) \cup (Z \cup U) /\ Z \cup U \in SUBSET StreamItems(out)
      BY <1>13, <2>1 DEF StreamItems, Failures
    <2>3. Honest(p)
      BY <1>13 DEF Honest, ReportSpec
    <2> QED
      BY <1>13, <2>2, <2>3 DEF AnswerSpec, ReportSpec
  <1>14. CASE out.broken
    <2>1. ReportSpec(out, Report(out))
      BY <1>1, ReportFacts
    <2>2. {} \in SUBSET StreamItems(out) /\ ToldOf(out) = ToldOf(out) \cup {}
      OBVIOUS
    <2>3. AnswerSpec(out, Report(out))
      BY <1>1, <1>5, <1>13, <2>1, <2>2
    <2> QED
      BY <1>4, <1>14, <2>3
  <1>15. CASE ~out.broken /\ o.broken
    <2>1. ReportSpec(o, Report(o))
      BY <1>11, ReportFacts
    <2>3. AnswerSpec(out, Report(o))
      BY <1>10, <1>11, <1>12, <1>13, <1>15, <2>1
    <2> QED
      BY <1>4, <1>15, <2>3
  <1>16. CASE ~out.broken /\ ~o.broken
    <2>1. Honest(o)
      <3> SUFFICES ASSUME req.kind # "chat_stream"
                   PROVE  /\ o.record = "succeeded" => ToldOf(o) \cap Successes # {} /\ ToldOf(o) \cap Failures = {}
                          /\ o.record # "running"
        BY DEF Honest
      <3>1. ~last.broken /\ o.record = Written(d, last.record) /\ ToldOf(o) = ToldOf(last) \cup {d}
        BY <1>8, <1>16 DEF WroteSpec
      <3>2. CASE out.terminal
        <4>1. last = out
          BY <1>3, <1>7, <3>2
        <4>2. d \notin Failures
          BY <1>6 DEF Failures
        <4> QED
          BY <1>5, <1>6, <1>16, <3>1, <3>2, <4>1, <4>2 DEF Written
      <3>3. CASE ~out.terminal
        <4>1. last.record = Written(r, out.record)
          BY <1>1, <1>3, <1>7, <3>1, <3>3
        <4> QED
          BY <1>5, <1>6, <3>1, <4>1 DEF Written
      <3> QED
        BY <3>2, <3>3
    <2> QED
      BY <1>4, <1>10, <1>11, <1>16, <2>1 DEF AnswerSpec
  <1>17. o.broken \in BOOLEAN
    BY <1>11 DEF OutType
  <1> QED
    BY <1>1, <1>14, <1>15, <1>16, <1>17

LEMMA WholeFacts ==
    ASSUME Inv, pc = "answer", ~Streams, dispatches # <<>>, NEW checks, NEW trouble
    PROVE  AnswerSpec(out, Whole(checks, trouble))
  <1> DEFINE s == Spend(out)
             k == [out EXCEPT !.lease = "known"]
             j == "json"
             t == [s EXCEPT !.told = Append(@, j)]
             status == IF trouble = "applied" THEN "failed" ELSE "succeeded"
  <1>1. /\ out \in OutType /\ out.lease = "held" /\ ToldOf(out) = {}
        /\ req.kind # "chat_stream" /\ out.record # "succeeded"
    <2>1. Told = {}
      BY DEF Inv, SourceInv
    <2>2. ToldOf(out) = {}
      BY <2>1, ToldIs DEF ToldOf
    <2> QED
      BY <2>2 DEF Inv, TypeInv, PayInv, RecordInv, Streams
  <1>2. /\ s \in OutType /\ s.told = out.told /\ s.sources = out.sources /\ s.finish = out.finish
        /\ s.record = out.record /\ s.lease = "spent"
    BY <1>1, SpendFacts DEF Same
  <1>3. /\ k \in OutType /\ k.told = out.told /\ k.sources = out.sources /\ k.finish = out.finish
        /\ k.record = out.record /\ k.lease = "known"
    BY <1>1 DEF OutType, Leases
  <1>4. j \in Items /\ j = "json" /\ status \in {"failed", "succeeded"}
    BY DEF Items
  <1>5. Whole(checks, trouble) =
          IF trouble \in checks THEN JsonError(out)
          ELSE IF trouble = "lease" THEN JsonError(k)
          ELSE IF trouble = "write" \/ canceled THEN Mark(s, "failed") ELSE Mark(t, status)
    BY DEF Whole
  <1> HIDE DEF s, k, j, status
  <1>6. /\ t \in OutType /\ t.sources = out.sources /\ t.finish = out.finish
        /\ t.record = out.record /\ t.lease = "spent" /\ ToldOf(t) = {j}
    <2>1. s.told \in Seq(Items)
      BY <1>2 DEF OutType
    <2>2. Append(s.told, j) \in Seq(Items)
      BY <1>4, <2>1
    <2>3. SetOf(Append(s.told, j)) = SetOf(s.told) \cup {j}
      BY <1>4, <2>1, SetOfAppend
    <2>4. SetOf(s.told) = {}
      BY <1>1, <1>2 DEF ToldOf
    <2>5. /\ t \in OutType /\ t.sources = s.sources /\ t.finish = s.finish
          /\ t.record = s.record /\ t.lease = s.lease /\ t.told = Append(s.told, j)
      BY <1>2, <2>2 DEF OutType
    <2> HIDE DEF t
    <2> QED
      BY <1>2, <2>3, <2>4, <2>5 DEF ToldOf
  <1> HIDE DEF t
  <1>7. ASSUME NEW p \in OutType, p.sources = out.sources, p.finish = out.finish,
               p.lease \in {"spent", "known"}, p.record \notin {"succeeded", "running"},
               ToldOf(p) \in {{}, {"json error"}}
        PROVE  AnswerSpec(out, p)
    BY <1>1, <1>7 DEF AnswerSpec, Honest
  <1>8. CASE trouble \in checks
    BY <1>5, <1>8, JsonAnswer
  <1>9. CASE trouble \notin checks /\ trouble = "lease"
    <2> DEFINE p == JsonError(k)
    <2>1. JsonSpec(k, p)
      BY <1>3, JsonErrorFacts
    <2> HIDE DEF p
    <2>2. ToldOf(p) = {"json error"}
      BY <1>1, <1>3, <2>1 DEF JsonSpec, ToldOf
    <2>3. AnswerSpec(out, p)
      BY <1>1, <1>3, <1>7, <2>1, <2>2 DEF JsonSpec, Same
    <2> QED
      BY <1>5, <1>9, <2>3 DEF p
  <1>10. CASE trouble \notin checks /\ trouble # "lease" /\ (trouble = "write" \/ canceled)
    <2> DEFINE p == Mark(s, "failed")
    <2>1. /\ p \in OutType /\ Same(p, s) /\ p.told = s.told /\ p.sources = s.sources /\ p.lease = s.lease
          /\ p.record = IF s.record = "running" THEN "failed" ELSE s.record
      BY <1>2, MarkFacts
    <2> HIDE DEF p
    <2>2. ToldOf(p) = {}
      BY <1>1, <1>2, <2>1 DEF ToldOf
    <2>3. AnswerSpec(out, p)
      BY <1>1, <1>2, <1>7, <2>1, <2>2 DEF Same
    <2> QED
      BY <1>5, <1>10, <2>3 DEF p
  <1>11. CASE trouble \notin checks /\ trouble # "lease" /\ ~(trouble = "write" \/ canceled)
    <2> DEFINE p == Mark(t, status)
    <2>1. /\ p \in OutType /\ Same(p, t) /\ p.told = t.told /\ p.sources = t.sources /\ p.lease = t.lease
          /\ p.record = IF t.record = "running" THEN status ELSE t.record
      BY <1>4, <1>6, MarkFacts
    <2> HIDE DEF p
    <2>2. ToldOf(p) = {"json"}
      BY <1>4, <1>6, <2>1 DEF ToldOf
    <2>3. "json" \in Successes /\ "json" \notin Failures
      BY DEF Successes, Failures
    <2>4. Honest(p)
      BY <1>1, <1>4, <1>6, <2>1, <2>2, <2>3 DEF Honest
    <2>5. AnswerSpec(out, p)
      BY <1>1, <1>6, <2>1, <2>2, <2>4 DEF AnswerSpec, Same
    <2> QED
      BY <1>5, <1>11, <2>5 DEF p
  <1> QED
    BY <1>8, <1>9, <1>10, <1>11

LEMMA ReplyFacts == ASSUME Inv, Reply PROVE AnswerSpec(out, out')
  <1>1. pc = "answer" /\ out \in OutType /\ req.kind \in Endpoints
    BY ServingAssumption DEF Reply, Inv, TypeInv, Requests
  <1>2. PICK trouble \in Troubles :
         out' = IF canceled /\ req.kind # "compact" THEN out
                ELSE IF Streams
                     THEN IF ~out.committed /\ ~out.terminal /\ ~out.broken /\ err # "none"
                          THEN JsonError(out) ELSE AnswerStream(trouble)
                ELSE IF err # "none" /\ ~(req.kind \in {"responses", "chat"} /\ wire.ended = "failed")
                     THEN IF canceled THEN out ELSE JsonError(out)
                ELSE AnswerWhole(trouble)
    BY DEF Reply
  <1>3. CASE canceled /\ out' = out
    <2>1. {} \in SUBSET StreamItems(out) /\ ToldOf(out) = ToldOf(out) \cup {}
      OBVIOUS
    <2>2. Honest(out)
      BY <1>1, <1>3 DEF Honest, Inv, RecordInv
    <2>3. AnswerSpec(out, out)
      BY <1>1, <2>1, <2>2 DEF AnswerSpec
    <2> QED
      BY <1>3, <2>3
  <1>4. CASE out' = JsonError(out)
    BY <1>1, <1>4, JsonAnswer
  <1>5. CASE Streams /\ out' = AnswerStream(trouble)
    BY <1>1, <1>5, AnswerStreamFacts
  <1>6. CASE ~Streams /\ (err = "none" \/ wire.ended = "failed") /\ out' = AnswerWhole(trouble)
    <2>1. dispatches # <<>>
      BY <1>1, <1>6 DEF Inv, WireInv
    <2>2. PICK checks : AnswerWhole(trouble) = Whole(checks, trouble)
      <3>1. req.kind \in {"responses", "compact", "chat", "images"}
        BY <1>1, <1>6 DEF Streams, Endpoints
      <3> QED
        BY <3>1 DEF AnswerWhole, AnswerResponse, AnswerCompaction, AnswerChat, AnswerImages
    <2>3. AnswerSpec(out, Whole(checks, trouble))
      BY <1>1, <1>6, <2>1, WholeFacts
    <2> QED
      BY <1>6, <2>2, <2>3
  <1> QED
    BY <1>2, <1>3, <1>4, <1>5, <1>6

LEMMA ReplyInv == Inv /\ Reply => Inv'
  <1> SUFFICES ASSUME Inv, Reply PROVE Inv'
    OBVIOUS
  <1> USE DEF Inv, environment
  <1>0. /\ pc = "answer" /\ pc' = "release" /\ plan' = NoPlan /\ wire' = NoWire /\ err' = "none"
        /\ UNCHANGED <<req, environment, seen, account, bound, dispatches>>
    BY DEF Reply
  <1>1. AnswerSpec(out, out')
    BY ReplyFacts
  <1>2. Streams' = Streams /\ Continues' = Continues
    BY <1>0 DEF Streams, Continues
  <1>3. Told = ToldOf(out) /\ Told' = ToldOf(out')
    BY DEF Told, ToldOf, SetOf, ToSet
  <1>4. out' \in OutType /\ out'.sources = out.sources /\ out'.finish = out.finish /\ Honest(out')
    BY <1>1 DEF AnswerSpec
  <1>5. TypeInv'
    BY <1>0, <1>4, NoWireFacts DEF TypeInv, NoPlan, Errors
  <1>6. StayInv'
    BY <1>0, <1>2 DEF StayInv, Attempt
  <1>7. WireInv'
    BY <1>0, <1>2, NoWireFacts DEF WireInv, Fresh
  <1>8. SourceInv'
    BY <1>0, <1>2, <1>4 DEF SourceInv, Attempt
  <1>9. PayInv'
    <2>1. StreamItems(out) \cap Successes = {}
      BY DEF StreamItems, Failures, Successes
    <2>2. Told' \cap Successes # {} => out'.lease \in {"spent", "known"}
      <3>1. CASE out'.lease = out.lease /\ \E X \in SUBSET StreamItems(out) : ToldOf(out') = ToldOf(out) \cup X
        <4>1. Told' \cap Successes # {} => Told \cap Successes # {}
          BY <1>3, <2>1, <3>1
        <4> QED
          BY <3>1, <4>1 DEF PayInv
      <3>2. CASE out'.lease \in {"spent", "known"}
        BY <3>2
      <3> QED
        BY <1>1, <3>1, <3>2 DEF AnswerSpec
    <2>3. out'.finish => "success" \in Told'
      <3>1. CASE \E X \in SUBSET StreamItems(out) : ToldOf(out') = ToldOf(out) \cup X
        BY <1>3, <1>4, <3>1 DEF PayInv
      <3>2. CASE ToldOf(out) = {}
        BY <1>3, <1>4, <3>2 DEF PayInv
      <3> QED
        BY <1>1, <3>1, <3>2 DEF AnswerSpec
    <2>4. dispatches = <<>> => out'.lease \in {"none", "held", "returned"}
      BY <1>1 DEF AnswerSpec, PayInv
    <2> QED
      BY <1>0, <1>2, <2>2, <2>3, <2>4, NoWireFacts DEF PayInv, Attempt, Reading
  <1>10. RecordInv'
    BY <1>0, <1>3, <1>4 DEF RecordInv, Honest
  <1> QED
    BY <1>5, <1>6, <1>7, <1>8, <1>9, <1>10

-----------------------------------------------------------------------------
(* The invariant of the specification                                      *)

LEMMA InvStep == Inv /\ [Next]_vars => Inv'
  <1> SUFFICES ASSUME Inv, [Next]_vars PROVE Inv'
    OBVIOUS
  <1>1. CASE Resolve \/ Admit \/ Copy \/ Select \/ Bind \/ Dial
    BY <1>1, ResolveInv, AdmitInv, CopyInv, SelectInv, BindInv, DialInv
  <1>2. CASE WebSocketFails \/ SSEEnds \/ HTTPAnswer
    BY <1>2, WebSocketFailsInv, SSEEndsInv, HTTPAnswerInv
  <1>3. CASE \E e \in Events : WebSocketEvent(e) \/ \E t \in Troubles : SSEEvent(e, t)
    BY <1>3, WebSocketEventInv, SSEEventInv
  <1>4. CASE \E t \in Troubles : Deliver(t)
    BY <1>4, DeliverInv
  <1>5. CASE Retry \/ Reply \/ Refuse \/ Release \/ Finish
    BY <1>5, RetryInv, ReplyInv, RefuseInv, ReleaseInv, FinishInv
  <1>6. CASE Environment
    BY <1>6, EnvironmentInv
  <1>7. CASE UNCHANGED vars
    <2>1. /\ UNCHANGED <<req, canceled, pc, plan, account, bound, wire, dispatches, err, out>>
      BY <1>7 DEF vars, environment
    <2>2. Told' = Told /\ Streams' = Streams /\ Continues' = Continues /\ IsResponses' = IsResponses
      BY <2>1 DEF Streams, Continues, Told, IsResponses
    <2>3. TypeInv'
      BY <2>1 DEF Inv, TypeInv
    <2>4. StayInv'
      BY <2>1, <2>2 DEF Inv, StayInv
    <2>5. WireInv'
      BY <2>1, <2>2 DEF Inv, WireInv
    <2>6. SourceInv'
      BY <2>1, <2>2 DEF Inv, SourceInv
    <2>7. PayInv'
      BY <2>1, <2>2 DEF Inv, PayInv, Reading, Ended
    <2>8. RecordInv'
      BY <2>1, <2>2 DEF Inv, RecordInv
    <2> QED
      BY <2>3, <2>4, <2>5, <2>6, <2>7, <2>8 DEF Inv
  <1> QED
    BY <1>1, <1>2, <1>3, <1>4, <1>5, <1>6, <1>7 DEF Next, Handler

(* Every reachable state satisfies the invariant. *)
THEOREM InvHolds == Spec => []Inv
  <1>1. Init => Inv
    BY InitInv
  <1>2. Inv /\ [Next]_vars => Inv'
    BY InvStep
  <1> QED
    BY <1>1, <1>2, PTL DEF Spec

(* What the client holds of an answer comes from one attempt, and nothing  *)
(* is sent upstream after it: the retries of transport.go and of the       *)
(* handlers all stop at the first event that was told.                     *)
THEOREM AnswersHaveOneSource == Spec => []OneSource
  <1>1. Inv => OneSource
    <2> SUFFICES ASSUME Inv PROVE OneSource
      OBVIOUS
    <2>1. out.sources = {} \/ out.sources = {Len(dispatches)}
      BY DEF Inv, SourceInv
    <2>2. Cardinality({}) = 0 /\ Cardinality({Len(dispatches)}) = 1
      BY FS_EmptySet, FS_Singleton
    <2>3. CASE out.sources = {}
      BY <2>2, <2>3 DEF OneSource
    <2>4. CASE out.sources = {Len(dispatches)}
      BY <2>2, <2>4 DEF OneSource
    <2> QED
      BY <2>1, <2>3, <2>4
  <1> QED
    BY <1>1, InvHolds, PTL

(* The record of a request agrees with what its client was told.           *)
THEOREM RecordsAreHonest == Spec => []RecordIsHonest
  <1>1. Inv => RecordIsHonest
    BY DEF Inv, RecordInv, RecordIsHonest
  <1> QED
    BY <1>1, InvHolds, PTL

(* Only the choice of an account leads to its binding.                     *)
LEMMA BindFollowsSelect ==
    ASSUME [Next]_vars, pc' = "bind"
    PROVE  (Select /\ pc = "select") \/ UNCHANGED <<req, pc, account, bound>>
  <1>1. CASE Resolve \/ Admit \/ Copy \/ Select \/ Bind \/ Dial
    BY <1>1 DEF Resolve, Admit, Copy, Select, Bind, Dial, Return, Open
  <1>2. CASE WebSocketFails \/ SSEEnds \/ HTTPAnswer
    BY <1>2 DEF WebSocketFails, SSEEnds, HTTPAnswer, WebSocketEnds, Unauthorized, Return, Open
  <1>3. CASE \E e \in Events : WebSocketEvent(e) \/ \E t \in Troubles : SSEEvent(e, t)
    BY <1>3 DEF WebSocketEvent, SSEEvent, WebSocketEnds, Return, Open
  <1>4. CASE \E t \in Troubles : Deliver(t)
    BY <1>4 DEF Deliver, Return
  <1>5. CASE Retry \/ Reply \/ Refuse \/ Release \/ Finish
    BY <1>5 DEF Retry, RetryContinuation, RetryLimit, RetryAffinity, Again, Answer, Reply, Refuse, Release, Finish
  <1>6. CASE Environment \/ UNCHANGED vars
    BY <1>6 DEF Environment, vars
  <1> QED
    BY <1>1, <1>2, <1>3, <1>4, <1>5, <1>6 DEF Next, Handler

(* An attempt of a continuation goes to the owner of the answer, and a     *)
(* retry to the account the journal row is bound to.                       *)
THEOREM AttemptsStay == Spec => []RetriesStay
  <1>1. Init => RetriesStay
    BY DEF Init, RetriesStay
  <1>2. Inv /\ RetriesStay /\ [Next]_vars => RetriesStay'
    <2> SUFFICES ASSUME Inv, RetriesStay, [Next]_vars, pc' = "bind" PROVE RetriesStay'
      BY DEF RetriesStay
    <2>1. CASE UNCHANGED <<req, pc, account, bound>>
      BY <2>1 DEF RetriesStay, Continues
    <2>2. CASE Select /\ pc = "select"
      <3> DEFINE t == Insists(plan.forced, plan.hint, Continues /\ ~plan.rebuilt, seen)
      <3>1. t # None => account' = t
        BY <2>2 DEF Select, Return
      <3>2. UNCHANGED <<req, bound>>
        BY <2>2 DEF Select
      <3>3. Continues => t = req.owner /\ t # None
        BY <2>2 DEF Inv, StayInv, Attempt, Continues, Insists
      <3>4. bound # None => t = bound
        <4>1. CASE Continues
          BY <3>3, <4>1 DEF Inv, StayInv
        <4>2. CASE ~Continues
          BY <2>2, <4>2 DEF Inv, StayInv, Insists
        <4> QED
          BY <4>1, <4>2
      <3> QED
        BY <3>1, <3>2, <3>3, <3>4 DEF RetriesStay, Continues
    <2> QED
      BY <2>1, <2>2, BindFollowsSelect
  <1> QED
    BY <1>1, <1>2, InvHolds, PTL DEF Spec

-----------------------------------------------------------------------------
(* Every step is one of Exchange, or a stutter                             *)

Step == E!Next \/ UNCHANGED <<Paid, Answered, Asked>>

LEMMA AnsweredFacts ==
    /\ Answered \in {"none", "some", "success", "failure"}
    /\ Answered = "failure" <=> Told \cap Failures # {}
    /\ Answered = "success" => Told \cap Successes # {}
    /\ Told \cap Failures = {} /\ Told \cap Successes # {} => Answered = "success"
    /\ Ended = {} => Answered \in {"none", "some"}
    /\ Told = {} => Answered = "none"
  <1>1. Ended = {} => Told \cap Failures = {} /\ Told \cap Successes = {}
    BY DEF Ended
  <1> QED
    BY <1>1 DEF Answered

LEMMA Stutters ==
    ASSUME out'.lease = out.lease, out'.told = out.told, UNCHANGED dispatches PROVE Step
  BY DEF Step, Paid, Answered, Asked, Told

LEMMA AskStep ==
    ASSUME Inv, pc \in {"dial", "reading"}, NEW via \in {"websocket", "sse", "http"}, NEW n \in Nat,
           Open(via, n), UNCHANGED out, out.sources = {}, out.lease = "held"
    PROVE  Step
  <1>1. Told = {} /\ Told' = Told
    BY DEF Inv, SourceInv, Attempt, Told
  <1>2. Paid = "held" /\ Paid' = Paid /\ Answered = "none" /\ Answered' = Answered
    BY <1>1, AnsweredFacts DEF Paid, Answered
  <1>3. dispatches' # <<>>
    BY OpenFacts DEF Inv, TypeInv
  <1>4. Asked' = TRUE
    BY <1>3 DEF Asked
  <1> QED
    BY <1>2, <1>4 DEF Step, E!Next, E!Ask

LEMMA TellingStep ==
    ASSUME Inv, pc = "deliver" \/ Reading, NEW e, NEW c, Telling(e, c), UNCHANGED dispatches
    PROVE  Step
  <1>1. out.lease = "held" /\ Ended = {} /\ dispatches # <<>>
    BY DEF Inv, PayInv, WireInv, Reading
  <1>2. /\ Paid = "held" /\ Answered \in {"none", "some"} /\ Asked /\ UNCHANGED Asked
    BY <1>1, AnsweredFacts DEF Paid, Asked
  <1>3. Told \subseteq Told' /\ Told \cap Failures = {} /\ Told \cap Successes = {}
    BY <1>1 DEF Telling, Ended
  <1>4. Answered' \in {"none", "some", "success", "failure"}
        /\ (Answered = "some" => Answered' # "none")
    BY <1>3 DEF Answered
  <1>5. CASE out'.lease = "held"
    <2>1. Paid' = "held" /\ Told' \cap Successes = {}
      BY <1>5 DEF Paid, Telling
    <2>2. Answered' # "success"
      BY <2>1 DEF Answered
    <2> QED
      BY <1>2, <1>4, <2>1, <2>2 DEF Step, E!Next, E!Tell, E!Fail
  <1>6. CASE out'.lease # "held"
    <2>1. Paid' = "spent"
      BY <1>6 DEF Paid, Telling
    <2> QED
      BY <1>2, <1>4, <2>1 DEF Step, E!Next, E!Spend
  <1> QED
    BY <1>5, <1>6

LEMMA AdmitStep == ASSUME Inv, Admit PROVE Step
  <1>1. out \in OutType /\ out.lease = "none" /\ Told = {} /\ dispatches = <<>> /\ UNCHANGED dispatches
    BY DEF Admit, Inv, TypeInv, PayInv, SourceInv
  <1>2. Paid = "none" /\ Answered = "none" /\ UNCHANGED Asked
    BY <1>1, AnsweredFacts DEF Paid, Asked
  <1>3. CASE out' = [out EXCEPT !.record = "running", !.lease = "held"]
    <2>1. out'.lease = "held" /\ out'.told = out.told
      BY <1>1, <1>3 DEF OutType
    <2>2. Paid' = "held" /\ Answered' = Answered
      BY <2>1 DEF Paid, Answered, Told
    <2> QED
      BY <1>2, <2>2 DEF Step, E!Next, E!Hold
  <1>4. CASE out' = [out EXCEPT !.record = "running"]
    <2>1. out'.lease = out.lease /\ out'.told = out.told
      BY <1>1, <1>4 DEF OutType
    <2> QED
      BY <1>1, <2>1, Stutters
  <1>5. CASE out' = [out EXCEPT !.told = <<"json error">>]
    <2>1. out'.lease = out.lease /\ out'.told = <<"json error">>
      BY <1>1, <1>5 DEF OutType
    <2>2. "json error" \in Items /\ "json error" \in Failures
      BY DEF Items, Failures
    <2>3. Told' = {"json error"}
      <3>1. Told' = SetOf(out'.told)
        BY DEF Told, SetOf, ToSet
      <3> QED
        BY <2>1, <2>2, <3>1, SetOfOne
    <2>4. Paid' = Paid /\ Answered' = "failure"
      BY <2>1, <2>2, <2>3 DEF Paid, Answered
    <2> QED
      BY <1>2, <2>4 DEF Step, E!Next, E!Fail
  <1> QED
    BY <1>3, <1>4, <1>5 DEF Admit

LEMMA RefuseStep == ASSUME Inv, Refuse PROVE Step
  <1>1. out \in OutType /\ out.told = <<>> /\ out' = JsonError(out) /\ UNCHANGED dispatches
    BY DEF Refuse, Inv, TypeInv, SourceInv
  <1>2. JsonSpec(out, out') /\ Told = {} /\ Told' = ToldOf(out')
    BY <1>1, JsonErrorFacts, ToldIs, SetOfEmpty DEF Told, ToldOf, SetOf, ToSet
  <1>3. "json error" \in Told' /\ "json error" \in Failures
    BY <1>2 DEF JsonSpec, Failures
  <1>4. Paid' = Paid /\ Answered = "none" /\ Answered' = "failure" /\ UNCHANGED Asked
    BY <1>1, <1>2, <1>3, AnsweredFacts DEF Paid, Answered, Asked, JsonSpec
  <1> QED
    BY <1>4 DEF Step, E!Next, E!Fail

LEMMA ReplyStep == ASSUME Inv, Reply PROVE Step
  <1>1. AnswerSpec(out, out') /\ UNCHANGED dispatches /\ pc = "answer"
    BY ReplyFacts DEF Reply
  <1>2. Told = ToldOf(out) /\ Told' = ToldOf(out') /\ UNCHANGED Asked
    BY <1>1 DEF Told, ToldOf, SetOf, ToSet, Asked
  <1>3. CASE out'.lease = out.lease /\ \E X \in SUBSET StreamItems(out) : ToldOf(out') = ToldOf(out) \cup X
    <2>1. PICK X \in SUBSET StreamItems(out) : Told' = Told \cup X
      BY <1>2, <1>3
    <2>2. Paid' = Paid
      BY <1>3 DEF Paid
    <2>3. CASE X \cap Failures # {}
      <3>1. Answered' = "failure"
        BY <2>1, <2>3 DEF Answered
      <3> QED
        BY <1>2, <2>2, <3>1, AnsweredFacts DEF Step, E!Next, E!Fail
    <2>4. CASE X \cap Failures = {}
      <3>1. X \subseteq {"done"} \cup (IF "success" \in Told THEN {"usage"} ELSE {})
        BY <1>2, <2>1, <2>4 DEF StreamItems
      <3>2. Told' \cap Failures = Told \cap Failures /\ Told' \cap Successes = Told \cap Successes
        BY <2>1, <2>4, <3>1 DEF Successes
      <3>3. CASE "success" \in Told
        <4>1. Told \cap Successes # {}
          BY <3>3 DEF Successes
        <4> QED
          BY <1>2, <2>2, <3>2, <4>1 DEF Step, Answered
      <3>4. CASE "success" \notin Told
        <4>1. Told' \ {"done"} = Told \ {"done"}
          BY <2>1, <3>1, <3>4
        <4> QED
          BY <1>2, <2>2, <3>2, <4>1 DEF Step, Answered
      <3> QED
        BY <3>3, <3>4
    <2> QED
      BY <2>3, <2>4
  <1>4. CASE /\ ~Streams /\ dispatches # <<>> /\ ToldOf(out) = {}
             /\ out'.lease \in {"spent", "known"} /\ ToldOf(out') \in {{}, {"json"}, {"json error"}}
    <2>1. out.lease = "held"
      BY <1>1, <1>4 DEF Inv, PayInv
    <2>2. Paid = "held" /\ Paid' = "spent" /\ Answered = "none" /\ Asked
      BY <1>2, <1>4, <2>1, AnsweredFacts DEF Paid, Asked
    <2>3. Answered' \in {"none", "some", "success", "failure"}
      BY DEF Answered
    <2> QED
      BY <1>2, <2>2, <2>3 DEF Step, E!Next, E!Spend
  <1> QED
    BY <1>1, <1>3, <1>4 DEF AnswerSpec

LEMMA ReleaseStep == ASSUME Inv, Release PROVE Step
  <1>1. /\ out \in OutType /\ UNCHANGED dispatches
        /\ out' = [out EXCEPT !.lease = IF @ = "held" THEN "returned" ELSE @] \/ out' = out
    BY DEF Release, Inv, TypeInv
  <1>2. CASE out' = out
    BY <1>1, <1>2, Stutters
  <1>3. CASE out' = [out EXCEPT !.lease = IF @ = "held" THEN "returned" ELSE @]
    <2>1. out'.told = out.told /\ out'.lease = IF out.lease = "held" THEN "returned" ELSE out.lease
      BY <1>1, <1>3 DEF OutType
    <2>2. CASE out.lease # "held"
      BY <1>1, <2>1, <2>2, Stutters
    <2>3. CASE out.lease = "held"
      <3>1. Told \cap Successes = {}
        BY <2>3 DEF Inv, PayInv
      <3>2. Answered # "success"
        BY <3>1, AnsweredFacts
      <3>3. Paid = "held" /\ Paid' = "returned" /\ UNCHANGED <<Answered, Asked>>
        BY <1>1, <2>1, <2>3 DEF Paid, Answered, Asked, Told
      <3> QED
        BY <3>2, <3>3 DEF Step, E!Next, E!Return
    <2> QED
      BY <2>2, <2>3
  <1> QED
    BY <1>1, <1>2, <1>3

LEMMA WebSocketEndsStep ==
    ASSUME Inv, pc = "reading", wire.via = "websocket", NEW e, NEW fallback,
           WebSocketEnds(e, fallback), UNCHANGED out
    PROVE  Step
  <1>1. CASE ~wire.emitted /\ Open("sse", 0)
    BY <1>1, ReadingFacts, AskStep
  <1>2. CASE UNCHANGED dispatches
    BY <1>2, Stutters
  <1> QED
    BY <1>1, <1>2 DEF WebSocketEnds

LEMMA ExchangeStep == ASSUME Inv, [Next]_vars PROVE Step
  <1>1. CASE Resolve \/ Copy \/ Select \/ SSEEnds \/ HTTPAnswer \/ Environment \/ UNCHANGED vars
    <2>1. UNCHANGED <<out, dispatches>>
      BY <1>1 DEF Resolve, Copy, Select, SSEEnds, HTTPAnswer, Environment, vars
    <2> QED
      BY <2>1, Stutters
  <1>2. CASE Admit \/ Refuse \/ Reply \/ Release
    BY <1>2, AdmitStep, RefuseStep, ReplyStep, ReleaseStep
  <1>3. CASE Bind
    <2>1. out \in OutType
      BY DEF Inv, TypeInv
    <2>2. UNCHANGED dispatches /\ (out' = out \/ out' = [out EXCEPT !.committed = @ \/ Streams])
      BY <1>3 DEF Bind
    <2>3. out'.lease = out.lease /\ out'.told = out.told
      BY <2>1, <2>2 DEF OutType
    <2> QED
      BY <2>2, <2>3, Stutters
  <1>4. CASE Retry
    <2>1. out \in OutType
      BY DEF Inv, TypeInv
    <2>2. UNCHANGED dispatches
          /\ (out' = out \/ out' = [out EXCEPT !.terminal = FALSE, !.failure = FALSE, !.finish = FALSE])
      BY <1>4 DEF Retry, RetryContinuation, RetryLimit, RetryAffinity, Again, Answer
    <2>3. out'.lease = out.lease /\ out'.told = out.told
      BY <2>1, <2>2 DEF OutType
    <2> QED
      BY <2>2, <2>3, Stutters
  <1>5. CASE Finish
    <2>1. out \in OutType /\ UNCHANGED dispatches
      BY <1>5 DEF Inv, TypeInv, Finish
    <2>2. out' = out \/ \E status \in {"succeeded", "failed", "canceled"} : out' = Mark(out, status)
      BY <1>5 DEF Finish
    <2>3. out'.lease = out.lease /\ out'.told = out.told
      BY <2>1, <2>2, MarkFacts
    <2> QED
      BY <2>1, <2>3, Stutters
  <1>6. CASE Dial
    <2>1. pc = "dial" /\ UNCHANGED out
      BY <1>6 DEF Dial
    <2>2. CASE Open(Via, wire.dials + 1)
      <3>1. Via \in {"websocket", "sse", "http"}
        BY DEF Via
      <3>2. wire.dials + 1 \in Nat
        BY DEF Inv, TypeInv, WireType
      <3> QED
        BY <2>1, <2>2, <3>1, <3>2, NothingTold, AskStep
    <2>3. CASE UNCHANGED dispatches
      BY <2>1, <2>3, Stutters
    <2> QED
      BY <1>6, <2>2, <2>3 DEF Dial
  <1>7. CASE WebSocketFails
    <2>1. pc = "reading" /\ wire.via = "websocket" /\ UNCHANGED out
      BY <1>7 DEF WebSocketFails
    <2>2. CASE UNCHANGED dispatches
      BY <2>1, <2>2, Stutters
    <2>3. CASE \E e \in Codes, fallback \in BOOLEAN : WebSocketEnds(e, fallback /\ ~wire.unsafe)
      BY <2>1, <2>3, WebSocketEndsStep
    <2> QED
      BY <1>7, <2>2, <2>3 DEF WebSocketFails
  <1>8. CASE \E e \in Events : WebSocketEvent(e)
    <2>1. PICK e \in Events : WebSocketEvent(e)
      BY <1>8
    <2>2. pc = "reading" /\ wire.via = "websocket" /\ UNCHANGED out
      BY <2>1 DEF WebSocketEvent
    <2>3. CASE UNCHANGED dispatches
      BY <2>2, <2>3, Stutters
    <2>4. CASE WebSocketEnds("limit", FALSE)
      BY <2>2, <2>4, WebSocketEndsStep
    <2> QED
      BY <2>1, <2>3, <2>4 DEF WebSocketEvent
  <1>9. CASE \E e \in Events, t \in Troubles : SSEEvent(e, t)
    <2>1. PICK e \in Events, t \in Troubles : SSEEvent(e, t)
      BY <1>9
    <2> DEFINE o == IF Streams THEN Tell(out, e, t) ELSE out
    <2>2. pc = "reading" /\ wire.ended = "no" /\ UNCHANGED dispatches /\ out' = [o EXCEPT !.err = "none"]
      BY <2>1 DEF SSEEvent
    <2>3. Telling(e, o.err)
      BY <2>2, TellingHolds DEF Reading
    <2> HIDE DEF o
    <2> QED
      BY <2>2, <2>3, TellingStep DEF Reading
  <1>10. CASE \E t \in Troubles : Deliver(t)
    <2>1. PICK t \in Troubles : Deliver(t)
      BY <1>10
    <2> DEFINE e == Head(wire.pending)
               o == Tell(out, e, t)
    <2>2. pc = "deliver" /\ UNCHANGED dispatches /\ out' = [o EXCEPT !.err = "none"]
      BY <2>1 DEF Deliver
    <2>3. Streams /\ wire.pending \in Seq(Events) /\ wire.pending # <<>>
      BY <2>2 DEF Inv, TypeInv, WireInv, WireType
    <2>4. e \in Events
      BY <2>3
    <2>5. Telling(e, o.err)
      BY <2>2, <2>3, <2>4, TellingHolds
    <2> HIDE DEF e, o
    <2> QED
      BY <2>2, <2>5, TellingStep
  <1> QED
    BY <1>1, <1>2, <1>3, <1>4, <1>5, <1>6, <1>7, <1>8, <1>9, <1>10 DEF Next, Handler

(* Every request keeps what Exchange promises: nothing is sent before its  *)
(* quota is held, a success is charged before it is told, and what was     *)
(* charged is not given back.                                              *)
THEOREM RequestsKeepTheirPromise == Spec => RefinesExchange
  <1>1. Init => E!Init
    <2> SUFFICES ASSUME Init PROVE E!Init
      OBVIOUS
    <2>1. out.told = <<>> /\ out.lease = "none" /\ dispatches = <<>>
      BY DEF Init, NoOut
    <2>2. Told = {}
      BY <2>1, ToldIs, SetOfEmpty
    <2> QED
      BY <2>1, <2>2, AnsweredFacts DEF E!Init, Paid, Asked
  <1>2. Inv /\ [Next]_vars => [E!Next]_E!vars
    BY ExchangeStep DEF Step, E!vars
  <1> QED
    BY <1>1, <1>2, InvHolds, PTL DEF Spec, RefinesExchange, E!Spec
=============================================================================
