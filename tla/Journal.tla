------------------------------ MODULE Journal -------------------------------
(***************************************************************************)
(* The journal of a serving process: handlers append what happens to their *)
(* request before the client sees it, one worker materializes the records  *)
(* later, and startup replays what a crash or a shutdown left pending.     *)
(*                                                                         *)
(* One transaction is one step.  Between its steps a handler keeps an      *)
(* entry in the journal's memory (states); while it writes to the client   *)
(* it also holds the entry's lock, which BindAccount of the whole          *)
(* conversation needs.  Records are numbered in the order they are         *)
(* appended, which is the order replay reads them in.                      *)
(***************************************************************************)
EXTENDS JournalStore

CONSTANTS
    Openers,       \* requests that may open a conversation; any may continue one
    BatchSize,     \* journalReplayBatchSize, 64 in the code
    MaxFrames,     \* bound on the frames of a request besides its answer
    MaxBinds,      \* bound on the account bindings of a request
    Inputs,        \* TRUE when requests carry an input
    Answers,       \* TRUE when the upstream may answer
    Usages,        \* TRUE when usage is reported
    MaxTime,       \* bound on the clock
    MaxStops,      \* bound on crashes and shutdowns
    Faults         \* TRUE when a transaction or a client write may fail

ASSUME JournalAssumption ==
    /\ Openers \subseteq Requests /\ BatchSize \in Nat \ {0}
    /\ MaxFrames \in Nat /\ MaxBinds \in Nat /\ MaxTime \in Nat /\ MaxStops \in Nat
    /\ {Inputs, Answers, Usages, Faults} \subseteq BOOLEAN

VARIABLES
    db,
    nextId,    \* number of the next journal record
    states,    \* Journal.requests: account and terminalRecord by request
    handler,   \* the goroutine serving each request
    worker,    \* the goroutine that replays, or startup doing so itself
    signal,    \* replayQueue is not empty
    mode,      \* "up", "closing", "down", or "booting" during startup
    drained,   \* the last shutdown's Close returned no error
    now,
    stops,     \* crashes and shutdowns so far
    sent       \* history: records whose payload reached the client

memory == <<states, handler, worker, signal>>
process == <<mode, drained, stops>>
vars == <<db, nextId, memory, process, now, sent>>

NoState == [known |-> FALSE, conv |-> None, account |-> None, terminal |-> FALSE]
Idle == [pc |-> "none", prev |-> None, session |-> None, hint |-> None,
         read |-> FALSE, unread |-> {}, missing |-> {}, marked |-> FALSE, frames |-> 0, binds |-> 0, used |-> FALSE, writing |-> 0]
Resting == [pc |-> "idle", batch |-> {}, failed |-> FALSE]

Init ==
    /\ db = EmptyDatabase /\ nextId = 1
    /\ states = [r \in Requests |-> NoState]
    /\ handler = [r \in Requests |-> Idle]
    /\ worker = Resting /\ signal = FALSE
    /\ mode = "up" /\ drained = FALSE /\ now = 0 /\ stops = 0
    /\ sent = {}

Remember(r, s) == states' = [states EXCEPT ![r] = s]
Go(r, h) == handler' = [handler EXCEPT ![r] = h]
\* A handler that ends drops the history it has read.
Gone(h) == [h EXCEPT !.pc = "done", !.read = FALSE, !.unread = {}, !.missing = {}]
Record(r, kind) == [id |-> nextId, req |-> r, kind |-> kind, at |-> now,
                    account |-> None, session |-> None, status |-> "none"]
Store(d) == db' = d /\ nextId' = nextId + 1
Append(d, m) == [d EXCEPT !.log = @ \cup {m}]

(* appendRecord refuses a request that is gone or being deleted.           *)
CanAppend(r) == Known(db, r) /\ ~db.req[r].deleting
\* An operation of the journal may start on a request it knows; a handler that
\* reads a history does nothing else.
MayEnd(r) == mode = "up" /\ handler[r].pc = "open" /\ states[r].known
MayOperate(r) == MayEnd(r) /\ handler[r].unread = {}
InOperation(r) == handler[r].pc \in {"begun", "running", "writing"}

-----------------------------------------------------------------------------
(* Admission and BeginRequestWithMetadata *)

(* A request arrives: it continues a response, or names a session or none. *)
Arrive(r) ==
    /\ mode = "up" /\ handler[r].pc = "none"
    /\ \/ \E s \in MaybeSession :
            /\ r \in Openers
            /\ Go(r, [Idle EXCEPT !.pc = "arrived", !.session = s, !.hint = Affine(db, s, now)])
       \/ \E p \in Requests :
            /\ Resolves(db, p, now)
            /\ Go(r, [Idle EXCEPT !.pc = "arrived", !.prev = p])
    /\ UNCHANGED <<db, nextId, states, worker, signal, process, now, sent>>

(* LoadConversationInputThrough: the history up to the response, which      *)
(* Compact reads before it begins and Responses when the upstream has      *)
(* forgotten the response.  Its queries share no transaction: the first    *)
(* ones fix the answered requests to read (unread), then one query for     *)
(* each loads its records.  A request whose input or answer is gone by     *)
(* then is left out (missing), without an error; so is one that is deleted *)
(* between the first queries, which is the same to the reader.             *)
Accepted(r) == CHOOSE m \in db.log : m.req = r /\ m.kind = "accepted"
Through(p) == {q \in Members(db, ConvOf(db, p)) : Accepted(q).id <= Accepted(p).id}
InHistory(q) ==
    {m.kind : m \in RecordsOf(db, q)} \cap {"input", "answer"}
      = IF Inputs THEN {"input", "answer"} ELSE {"answer"}
OpenHistory(r) ==
    LET p == handler[r].prev IN
    /\ mode = "up" /\ handler[r].pc \in {"arrived", "open"}
    /\ p # None /\ ~handler[r].read /\ Known(db, p)
    /\ Go(r, [handler[r] EXCEPT !.read = TRUE, !.unread = {q \in Through(p) : Linked(db, q)}])
    /\ UNCHANGED <<db, nextId, states, worker, signal, process, now, sent>>
ReadHistory(r) ==
    /\ mode = "up" /\ handler[r].pc \in {"arrived", "open"}
    /\ \E q \in handler[r].unread :
         Go(r, [handler[r] EXCEPT !.unread = @ \ {q},
                                  !.missing = IF InHistory(q) THEN @ ELSE @ \cup {q}])
    /\ UNCHANGED <<db, nextId, states, worker, signal, process, now, sent>>

MayBegin(r) ==
    LET p == handler[r].prev IN
    /\ p = None => ~db.conv[r].deleting
    /\ p # None => Resolves(db, p, now)
Begin(r) ==
    LET p == handler[r].prev
        row == IF p = None THEN [conv |-> r, account |-> None]
               ELSE [conv |-> db.link[p].conv, account |-> db.link[p].account]
    IN  /\ mode = "up" /\ handler[r].pc = "arrived" /\ handler[r].unread = {}
        /\ MayBegin(r)
        /\ Store(Append([db EXCEPT !.row[r] = row], Record(r, "accepted")))
        /\ Remember(r, [NoState EXCEPT !.known = TRUE, !.conv = row.conv,
                                     !.account = row.account])
        /\ Go(r, [handler[r] EXCEPT !.pc = IF Inputs THEN "begun" ELSE "open"])
        /\ UNCHANGED <<worker, signal, process, now, sent>>
BeginFails(r) ==
    /\ handler[r].pc = "arrived"
    /\ ~MayBegin(r) \/ Faults \/ mode = "closing"
    /\ Go(r, Gone(handler[r]))
    /\ UNCHANGED <<db, nextId, states, worker, signal, process, now, sent>>

(* With an input, the rest of it appends running, then input.              *)
Proceed(r) ==
    /\ handler[r].pc \in {"begun", "running"} /\ CanAppend(r)
    /\ LET last == handler[r].pc = "running" IN
         /\ Store(Append(db, Record(r, IF last THEN "input" ELSE "running")))
         /\ Go(r, [handler[r] EXCEPT !.pc = IF last THEN "open" ELSE "running"])
    /\ signal' = TRUE
    /\ UNCHANGED <<states, worker, process, now, sent>>
ProceedFails(r) ==
    /\ handler[r].pc \in {"begun", "running"}
    /\ Faults \/ ~CanAppend(r)
    /\ Remember(r, NoState)
    /\ Go(r, Gone(handler[r]))
    /\ UNCHANGED <<db, nextId, worker, signal, process, now, sent>>

-----------------------------------------------------------------------------
(* BindAccount: account a was selected.  The session is bound too unless   *)
(* it was known to belong to another account.  A binding that fails leaves *)
(* no trace; the handler tries another account or gives up.                *)

Peers(r) == {q \in Requests : states[q].known /\ states[q].conv = states[r].conv}
MaterializeAccepted(r) ==
    IF Stored(db, r) THEN db ELSE Accept(db, Accepted(r), states[r].account)
Bind(r, a) ==
    LET h == handler[r]
        s == IF Fits(h.hint, a) THEN h.session ELSE None
        c == ConvOf(db, r)
        bound == states[r].account = a /\ s = None
        d == MaterializeAccepted(r)
        e == Attach(Propagate(d, c, a), s, a, d.conv[c].expires)
        m == [Record(r, "bound") EXCEPT !.account = a, !.session = s]
    IN  /\ MayOperate(r) /\ ~h.marked /\ h.binds < MaxBinds
        /\ \A q \in Peers(r) : handler[q].pc # "writing"
        /\ Known(db, r) /\ Fits(states[r].account, a)
        /\ Stored(db, r) \/ CanAccept(db, Accepted(r), states[r].account)
        /\ CanPropagate(d, c, a) /\ CanAttach(d, s, a, now)
        /\ IF bound THEN db' = e /\ UNCHANGED <<nextId, signal>>
           ELSE Store(Append(e, m)) /\ signal' = TRUE
        /\ states' = [q \in Requests |-> IF q \in Peers(r) /\ states[q].account = None
                                         THEN [states[q] EXCEPT !.account = a] ELSE states[q]]
        /\ Go(r, [h EXCEPT !.binds = @ + 1])
        /\ UNCHANGED <<worker, process, now, sent>>

-----------------------------------------------------------------------------
(* Forward: append, then write to the client while the entry is locked.    *)

Forward(r) ==
    LET h == handler[r]
        append(d, kind) == Store(Append(d, Record(r, kind)))
        busy == [h EXCEPT !.pc = "writing", !.writing = nextId]
    IN  /\ MayOperate(r) /\ CanAppend(r)
        /\ \/ h.frames < MaxFrames
              /\ append(db, "frame") /\ Go(r, [busy EXCEPT !.frames = @ + 1])
           \/ Answers /\ ~h.marked /\ h.binds > 0 /\ ~Linked(db, r)
              /\ append(LinkAnswer(db, r, states[r].account, now), "answer") /\ Go(r, busy)
        /\ UNCHANGED <<states, worker, signal, process, now, sent>>
Write(r) ==
    LET h == handler[r] IN
    /\ h.pc = "writing"
    /\ Go(r, [h EXCEPT !.pc = "open", !.writing = 0])
    /\ sent' \in {sent \cup {[id |-> h.writing, req |-> r]}} \cup (IF Faults THEN {sent} ELSE {})
    /\ signal' = TRUE
    /\ UNCHANGED <<db, nextId, states, worker, process, now>>

(* RecordUsageDetails *)
Usage(r) ==
    /\ Usages /\ MayOperate(r) /\ CanAppend(r)
    /\ handler[r].binds > 0 /\ ~handler[r].marked /\ ~handler[r].used
    /\ Store(Append(db, Record(r, "usage")))
    /\ Go(r, [handler[r] EXCEPT !.used = TRUE])
    /\ signal' = TRUE
    /\ UNCHANGED <<states, worker, process, now, sent>>

-----------------------------------------------------------------------------
(* RecordTerminal, and the two ways a handler ends *)

\* seeded fault
RecordTerminalAgain(r, status) ==
    /\ Store(Append(db, [Record(r, "terminal") EXCEPT !.status = status]))
    /\ signal' = TRUE
RecordTerminal(r, status) ==
    IF states[r].terminal THEN UNCHANGED <<db, nextId, signal>>
    ELSE /\ CanAppend(r)
         /\ Store(Append(db, [Record(r, "terminal") EXCEPT !.status = status]))
         /\ signal' = TRUE

(* markJournalTerminal: frames may follow. *)
Mark(r, status) ==
    /\ MayOperate(r) /\ ~handler[r].marked
    /\ RecordTerminal(r, status)
    /\ Remember(r, [states[r] EXCEPT !.terminal = TRUE])
    /\ Go(r, [handler[r] EXCEPT !.marked = TRUE])
    /\ UNCHANGED <<worker, process, now, sent>>
(* CompleteRequestWithState.  A history that cannot be read ends its       *)
(* request.                                                                *)
Complete(r, status) ==
    /\ MayEnd(r) /\ (status = "failed" \/ MayOperate(r))
    /\ RecordTerminal(r, status)
    /\ Remember(r, NoState)
    /\ Go(r, Gone(handler[r]))
    /\ UNCHANGED <<worker, process, now, sent>>
(* finishJournalRequest after a mark keeps the entry; and a completion may *)
(* fail.                                                                   *)
\* seeded fault
LeaveEarly(r) ==
    /\ handler[r].pc = "open"
    /\ Go(r, Gone(handler[r]))
    /\ UNCHANGED <<db, nextId, states, worker, signal, process, now, sent>>
Leave(r) ==
    /\ handler[r].pc = "open"
    /\ handler[r].marked \/ Faults \/ mode = "closing" \/ ~CanAppend(r)
    /\ Go(r, Gone(handler[r]))
    /\ UNCHANGED <<db, nextId, states, worker, signal, process, now, sent>>
Finish(r) ==
    \/ \E status \in Outcomes : Complete(r, status)   \* after a mark: a closed WebSocket
    \/ Leave(r)

-----------------------------------------------------------------------------
(* Replay: load the oldest pending records, apply each in a transaction of *)
(* its own, load again until none is left.  An error ends it.  The worker  *)
(* runs it on a signal and before Close returns, startup before it serves. *)

Replaying == worker.pc # "idle"
First(S) == CHOOSE m \in S : \A k \in S : m.id <= k.id
\* Memory and goroutines end with the process.
Forget ==
    /\ states' = [r \in Requests |-> NoState]
    /\ handler' = [r \in Requests |-> IF handler[r].pc = "none" THEN Idle
                                       ELSE [Idle EXCEPT !.pc = "done"]]

Wake ==
    /\ mode \in {"up", "closing"} /\ ~Replaying /\ signal
    /\ worker' = [worker EXCEPT !.pc = "replaying"]
    /\ signal' = FALSE
    /\ UNCHANGED <<db, nextId, states, handler, process, now, sent>>

Load ==
    /\ Replaying /\ worker.batch = {} /\ Pending(db) # {}
    /\ worker' = [worker EXCEPT !.batch = Oldest(db, BatchSize)]
    /\ UNCHANGED <<db, nextId, states, handler, signal, process, now, sent>>

Applied(m) == m \in db.log /\ Known(db, m.req) /\ m.id \in db.receipts
Apply ==
    LET m == First(worker.batch) IN
    /\ worker.batch # {} /\ (Applied(m) \/ Applies(db, m))
    /\ db' = IF Applied(m) THEN db ELSE Materialize(db, m)
    /\ worker' = [worker EXCEPT !.batch = @ \ {m}]
    /\ UNCHANGED <<nextId, states, handler, signal, process, now, sent>>

(* runWorker: an error is kept, and the signals that wait are discarded.   *)
(* Close reports the error.  Startup aborts on it.                         *)
EndReplay(failed) ==
    /\ \/ /\ worker.pc = "replaying"
          /\ worker' = [Resting EXCEPT !.failed = worker.failed \/ failed]
          /\ signal' = (signal /\ ~failed)
          /\ UNCHANGED <<states, handler, mode, drained>>
       \/ /\ worker.pc = "draining" /\ Forget
          /\ worker' = Resting /\ signal' = FALSE
          /\ mode' = "down" /\ drained' = ~(worker.failed \/ failed)
       \/ /\ worker.pc = "booting"
          /\ worker' = Resting
          /\ mode' = IF failed THEN "down" ELSE "up"
          /\ UNCHANGED <<states, handler, signal, drained>>
    /\ UNCHANGED <<db, nextId, stops, now, sent>>
ReplayFails ==
    /\ worker.batch # {}
    /\ LET m == First(worker.batch) IN Faults \/ ~(Applied(m) \/ Applies(db, m))
    /\ EndReplay(TRUE)
\* seeded fault
ReplayEndsAfterABatch == Replaying /\ worker.batch = {} /\ EndReplay(FALSE)
ReplayEnds == Replaying /\ worker.batch = {} /\ Pending(db) = {} /\ EndReplay(FALSE)

Replay == Load \/ Apply \/ ReplayFails \/ ReplayEnds

-----------------------------------------------------------------------------
(* The process *)

(* Close: no operation starts any more; those under way end first.         *)
Close ==
    /\ mode = "up" /\ stops < MaxStops
    /\ mode' = "closing" /\ stops' = stops + 1
    /\ UNCHANGED <<db, nextId, memory, drained, now, sent>>
Drain ==
    /\ mode = "closing" /\ ~Replaying
    /\ \A r \in Requests : ~InOperation(r)
    /\ worker' = [worker EXCEPT !.pc = "draining"] /\ signal' = FALSE
    /\ UNCHANGED <<db, nextId, states, handler, process, now, sent>>
(* A crash, or a shutdown whose deadline passes. *)
Crash ==
    /\ mode = "closing" \/ (mode # "down" /\ stops < MaxStops)
    /\ Forget /\ worker' = Resting /\ signal' = FALSE
    /\ mode' = "down" /\ drained' = FALSE
    /\ stops' = IF mode = "closing" THEN stops ELSE stops + 1
    /\ UNCHANGED <<db, nextId, now, sent>>
(* Startup replays before it serves. *)
\* seeded fault
StartUnreplayed ==
    /\ mode = "down" /\ mode' = "up"
    /\ UNCHANGED <<db, nextId, memory, drained, stops, now, sent>>
Start ==
    /\ mode = "down"
    /\ mode' = "booting" /\ worker' = [Resting EXCEPT !.pc = "booting"]
    /\ UNCHANGED <<db, nextId, states, handler, signal, drained, stops, now, sent>>

Tick ==
    /\ now < MaxTime /\ now' = now + 1
    /\ UNCHANGED <<db, nextId, memory, process, sent>>

Serve(r) ==
    \/ Arrive(r) \/ OpenHistory(r) \/ ReadHistory(r) \/ Begin(r) \/ BeginFails(r)
    \/ Proceed(r) \/ ProceedFails(r)
    \/ \E a \in Accounts : Bind(r, a)
    \/ Forward(r) \/ Write(r) \/ Usage(r)
    \/ \E status \in Outcomes : Mark(r, status)
    \/ Finish(r)
Next ==
    \/ \E r \in Requests : Serve(r)
    \/ Wake \/ Replay
    \/ Close \/ Drain \/ Crash \/ Start
    \/ Tick

Spec == Init /\ [][Next]_vars

(* What goes on by itself once it has begun: a begin, a history that is    *)
(* being read and a client write.                                          *)
Advance(r) == ReadHistory(r) \/ Begin(r) \/ BeginFails(r) \/ Proceed(r) \/ ProceedFails(r) \/ Write(r)

-----------------------------------------------------------------------------
(* Properties *)

States == [known : BOOLEAN, conv : Requests \cup {None}, account : MaybeAccount,
           terminal : BOOLEAN]
Handlers ==
    [pc : {"none", "arrived", "begun", "running", "open", "writing", "done"},
     prev : Requests \cup {None}, session : MaybeSession, hint : MaybeAccount,
     read : BOOLEAN, unread : SUBSET Requests, missing : SUBSET Requests, marked : BOOLEAN,
     frames : Nat, binds : Nat, used : BOOLEAN, writing : Nat]
TypeOK ==
    /\ db \in Database /\ nextId \in Nat \ {0}
    /\ states \in [Requests -> States] /\ handler \in [Requests -> Handlers]
    /\ worker \in [pc : {"idle", "replaying", "draining", "booting"},
                   batch : SUBSET Entry, failed : BOOLEAN]
    /\ signal \in BOOLEAN
    /\ mode \in {"up", "closing", "down", "booting"} /\ drained \in BOOLEAN
    /\ now \in Nat /\ stops \in Nat /\ sent \subseteq [id : Nat, req : Requests]

(* Replay stops at the first record that does not apply, and startup with  *)
(* it: so the oldest pending record always applies, whatever order events  *)
(* were appended in and wherever a crash came (Replay, Servers.Start).     *)
Blocked == {m \in Pending(db) : m \in Oldest(db, 1) /\ ~Applies(db, m)}
NothingBlocksReplay == Blocked = {}

(* A handler may mark a terminal state, fail, be cancelled and complete:   *)
(* one terminal record per request is written all the same, and no         *)
(* conflict is ever flagged (RecordTerminal, ensureTerminal).              *)
OneTerminalEach ==
    \A r \in Requests :
      /\ Cardinality({m \in RecordsOf(db, r) : m.kind = "terminal"}) <= 1
      /\ ~db.req[r].conflict

(* Rows, requests, links and recorded bindings of a conversation name one  *)
(* account, and so does the memory of the handlers in it (BindAccount).    *)
AccountsOf(c) ==
    (UNION {{db.row[r].account, db.req[r].account} : r \in Members(db, c)})
      \cup {db.link[r].account : r \in {q \in Requests : db.link[q].conv = c}}
      \cup {states[r].account : r \in {q \in Requests : states[q].conv = c}}
      \cup {m.account : m \in {k \in db.log : ConvOf(db, k.req) = c}}
      \cup {db.conv[c].account}
OneAccountPerConversation ==
    \A c \in Requests : Cardinality(AccountsOf(c) \ {None}) <= 1

(* What memory says of a request is what its rows say: the account a       *)
(* terminal frame is linked with, and whether it was ended.                *)
MemoryAgreesWithRows ==
    \A r \in Requests : states[r].known /\ Known(db, r) =>
      /\ states[r].conv = ConvOf(db, r)
      /\ states[r].account = db.row[r].account
      /\ states[r].terminal => Terminal(db, r) \/
           \E m \in RecordsOf(db, r) : m.kind = "terminal"

(* A conversation counts its requests once, whether the account binding or *)
(* replay materialized them (request_count).                               *)
CountsMatch ==
    \A c \in Requests :
      db.conv[c].open /\ ~db.conv[c].deleting =>
        db.conv[c].count = Cardinality(StoredIn(db, c))

(* What reached a client is in the journal until its request has ended or  *)
(* is deleted: a crash right after the write loses nothing.                *)
SentIsKept ==
    \A m \in sent :
      Known(db, m.req) /\ ~Terminal(db, m.req) => \E k \in db.log : k.id = m.id

(* A link handed to a client resolves until it expires or is deleted: the  *)
(* request is in the conversation of the link and has its account, although *)
(* the link is written long before the request is materialized.            *)
LinksResolve ==
    \A r \in Requests :
      Linked(db, r) /\ db.link[r].expires > now /\ Known(db, r)
        /\ ~db.req[r].deleting /\ ~db.conv[ConvOf(db, r)].deleting
      => Resolves(db, r, now)

(* Close without an error leaves nothing for startup to replay.            *)
CleanCloseDrains == mode = "down" /\ drained => Pending(db) = {}

(* Until payloads expire, the history a continuation reads lacks an        *)
(* answered request only if that one was deleted while it was read; and    *)
(* what a request goes on with lacks none for the deletion of the whole    *)
(* conversation, which takes the link of a request along: BeginRequest     *)
(* checks the response again after the read, and a conversation with a     *)
(* request that runs is not deleted (LoadConversationInputThrough).        *)
HistoryIsWhole ==
    now < PayloadTTL => \A r \in Requests : \A q \in handler[r].missing :
      /\ ~Known(db, q)
      /\ Known(db, r) /\ ~Terminal(db, r) => Linked(db, q)

(* A session keeps its account until the affinity expires or the account   *)
(* has no conversation any more: neither a concurrent binding nor the      *)
(* replay of an old one takes it over (ensureSessionAffinity).             *)
SessionsAreSticky ==
    [][\A s \in Sessions :
         LET old == db.affinity[s] IN
         old.expires > now =>
           \/ db.affinity'[s].account = old.account
           \/ /\ db.affinity'[s] = NoAffinity
              /\ \A c \in Requests : db.conv'[c].account # old.account]_vars

(* Whatever was appended is materialized, after any crash.                 *)
EverythingMaterializes == []<>(mode = "up" /\ Pending(db) = {})
(* A request that the process did not die on ends.                         *)
RequestsEnd ==
    \A r \in Requests :
      handler[r].pc \in {"begun", "open"} ~> (Terminal(db, r) \/ ~Known(db, r) \/ mode = "down")
=============================================================================
