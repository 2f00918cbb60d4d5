------------------------------- MODULE Serving -------------------------------
(***************************************************************************)
(* One request through the handlers of /v1/responses, its compaction, chat *)
(* completions and images: quota and journal, the choice and the binding   *)
(* of an account, the attempts upstream, over a WebSocket with a fall back *)
(* to server-sent events, the retries, what the client is told, and the    *)
(* deferred settling.  Everything else that runs is the environment: it    *)
(* changes accounts, binds the session first, lets it expire, and hangs    *)
(* up.  Every call of another component is one step.                       *)
(***************************************************************************)
EXTENDS Broker

CONSTANTS
    Kinds,        \* the endpoints: see Endpoints
    Owners,       \* the accounts earlier answers and sessions may belong to
    Policy,       \* "websocket" or "sse": the transport tried first
    Profiles,     \* the conditions an account may be in
    Start,        \* the condition every account begins in
    MaxChanges,   \* bound on what the environment changes
    MaxEvents,    \* bound on the events of one attempt before it ends
    Faults        \* TRUE when storage and writes to the client may fail

Endpoints == {"responses", "responses_stream", "compact", "chat", "chat_stream", "images"}
ASSUME ServingAssumption ==
    /\ Kinds \subseteq Endpoints /\ Owners \subseteq Accounts /\ Policy \in {"websocket", "sse"}
    /\ Start \in Profiles
    /\ MaxChanges \in Nat /\ MaxEvents \in Nat /\ Faults \in BOOLEAN

VARIABLES
    req,         \* the request: kind, owner of the answer it continues, in a session
    profiles,    \* broker.profiles, with what the refreshers report
    affinity,    \* the account of the request's session
    changes,     \* number of changes the environment made
    canceled,    \* the request's context is done
    pc,
    plan,        \* the handler's variables between attempts
    seen,        \* accounts usable in the broker's copy
    account,     \* profile.Account of the attempt
    bound,       \* the account of the request's journal row
    wire,        \* the attempt's transport
    dispatches,  \* the accounts the request was sent to, in order
    err,         \* the error the attempt returned
    out          \* what was told, charged and recorded

environment == <<profiles, affinity, changes, canceled>>
vars == <<req, environment, pc, plan, seen, account, bound, wire, dispatches, err, out>>

Streams == req.kind \in {"responses_stream", "chat_stream"}
IsResponses == req.kind \in {"responses", "responses_stream"}
Continues == req.owner # None

NoWire == [via |-> "none", dials |-> 0, renewed |-> FALSE, pending |-> <<>>,
           emitted |-> FALSE, unsafe |-> FALSE, events |-> 0, ended |-> "no", code |-> "none"]
NoPlan == [forced |-> None, hinted |-> None, hint |-> None, rebuilt |-> FALSE, retried |-> {}]
NoOut == [told |-> <<>>, sources |-> {}, wrote |-> FALSE, terminal |-> FALSE,
          committed |-> FALSE, broken |-> FALSE, failure |-> FALSE, finish |-> FALSE,
          lease |-> "none", record |-> "none", spoiled |-> FALSE, err |-> "none"]

Requests == [kind : Kinds, owner : Owners \cup {None}, session : BOOLEAN]
\* A session names an account only for a request that continues no answer.
Possible(r) == r.owner # None => ~r.session /\ r.kind \in {"responses", "responses_stream", "compact"}

Init ==
    /\ req \in {r \in Requests : Possible(r)}
    /\ profiles = [a \in Accounts |-> Start]
    /\ affinity \in IF req.session THEN Owners \cup {None} ELSE {None}
    /\ changes = 0 /\ canceled = FALSE
    /\ pc = "resolve" /\ plan = NoPlan /\ seen = {} /\ account = None /\ bound = None
    /\ wire = NoWire /\ dispatches = <<>> /\ err = "none" /\ out = NoOut

-----------------------------------------------------------------------------
(* Admission                                                               *)

(* The owner of the answer that is continued is forced on Responses and is *)
(* the hint of a compaction; a session hints at its account.               *)
Resolve ==
    /\ pc = "resolve"
    /\ LET h == IF Continues THEN (IF IsResponses THEN None ELSE req.owner) ELSE affinity
       IN plan' = [plan EXCEPT !.forced = IF Continues /\ IsResponses THEN req.owner ELSE None,
                               !.hinted = h, !.hint = h]
    /\ pc' = "admit"
    /\ UNCHANGED <<req, environment, seen, account, bound, wire, dispatches, err, out>>

(* The journal row is begun before the quota is asked. *)
Admit ==
    /\ pc = "admit"
    /\ \/ out' = [out EXCEPT !.record = "running", !.lease = "held"] /\ pc' = "copy" /\ UNCHANGED err
       \/ out' = [out EXCEPT !.record = "running"] /\ err' = "quota" /\ pc' = "refuse"
       \/ Faults /\ pc' = "done" /\ out' = [out EXCEPT !.told = <<"json error">>] /\ UNCHANGED err
    /\ UNCHANGED <<req, environment, plan, seen, account, bound, wire, dispatches>>

-----------------------------------------------------------------------------
(* The account of an attempt                                               *)

\* Of the transport only the failed result outlives the attempt.
Return(e) == err' = e /\ pc' = "returned" /\ wire' = [NoWire EXCEPT !.ended = wire.ended]
Copy ==
    /\ pc = "copy"
    /\ IF canceled THEN Return("canceled") /\ UNCHANGED seen
       ELSE /\ seen' = {a \in Accounts : Usable(profiles[a])} /\ pc' = "select"
            /\ wire' = NoWire /\ UNCHANGED err
    /\ account' = None
    /\ UNCHANGED <<req, environment, plan, bound, dispatches, out>>

\* seeded fault
SelectWaits ==
    /\ pc = "select"
    /\ account' \in IF plan.forced # None THEN {plan.forced} \cap seen ELSE Candidates(seen)
    /\ pc' = "bind" /\ seen' = {}
    /\ UNCHANGED <<req, environment, plan, bound, wire, dispatches, err, out>>
Select ==
    /\ pc = "select"
    /\ LET t == Insists(plan.forced, plan.hint, Continues /\ ~plan.rebuilt, seen)
           S == IF t # None THEN {t} \cap seen ELSE Candidates(seen)
       IN IF S = {} THEN Return("unavailable") /\ UNCHANGED account
          ELSE account' \in S /\ pc' = "bind" /\ UNCHANGED <<err, wire>>
    /\ seen' = {}
    /\ UNCHANGED <<req, environment, plan, bound, dispatches, out>>

(* Journal.BindAccount: the session is given with an account only when it  *)
(* hinted at none or at this one.  A stream commits its status here.       *)
Bind ==
    LET sticky == req.session /\ plan.hinted \in {None, account}
        other(a) == a \notin {None, account}
    IN
    /\ pc = "bind"
    /\ IF other(bound) \/ other(req.owner) THEN Return("bind") /\ UNCHANGED <<bound, affinity, out>>
       ELSE IF sticky /\ other(affinity) THEN Return("conflict") /\ UNCHANGED <<bound, affinity, out>>
       ELSE \/ /\ bound' = account /\ pc' = "dial"
               /\ affinity' = IF sticky THEN account ELSE affinity
               /\ out' = [out EXCEPT !.committed = @ \/ Streams]
               /\ UNCHANGED <<err, wire>>
            \/ Faults /\ Return("bind") /\ UNCHANGED <<bound, affinity, out>>
    /\ UNCHANGED <<req, profiles, changes, canceled, plan, seen, account, dispatches>>

-----------------------------------------------------------------------------
(* What an event does to the client                                        *)

Event(t, c) == [type |-> t, code |-> c]
Codes == {"upstream", "previous", "limit"}
Events == {Event(t, "none") : t \in {"created", "metadata", "delta", "success"}}
          \cup {Event(t, c) : t \in {"failed", "error"}, c \in Codes}
Terminal(e) == e.type \in {"success", "failed", "error"}
\* codexWebSocketEventReplaySafe
Safe(e) == e.type \in {"created", "metadata"}

Mark(o, status) == IF o.record = "running"
                   THEN [o EXCEPT !.record = status, !.spoiled = @ \/ status = "failed"] ELSE o
Spend(o) == IF o.lease = "held" THEN [o EXCEPT !.lease = "spent"] ELSE o

(* One record through the journal to the client.  A frame that cannot be   *)
(* appended or written, as once the context is done, breaks the writer for *)
(* good; one that was written and cannot be marked applied breaks it too.  *)
WriteRecord(o, item, source, trouble) ==
    IF o.broken \/ canceled \/ trouble = "write" THEN [o EXCEPT !.broken = TRUE, !.err = "write"]
    ELSE LET t == [o EXCEPT !.told = Append(@, item), !.sources = @ \cup source] IN
         IF trouble = "applied" THEN [t EXCEPT !.broken = TRUE, !.err = "write"]
         ELSE IF item = "done" THEN Mark(t, "succeeded")
         ELSE IF item \in {"error", "failed"} THEN Mark(t, "failed") ELSE t

\* publicEventPayload: an event that only the proxy needs is kept from the client.
Public(e) == e.type # "metadata"
(* serveResponsesStream's callback *)
\* seeded fault
TellResponsesFirst(o, e, trouble) ==
    IF ~Public(e) THEN o
    ELSE LET w == WriteRecord(o, e.type, {Len(dispatches)}, trouble)
         IN IF w.err # "none" THEN w
            ELSE IF e.type = "success" /\ trouble = "lease"
                 THEN [w EXCEPT !.lease = "known", !.err = "quota"]
            ELSE [(IF e.type = "success" THEN Spend(w) ELSE w)
                     EXCEPT !.wrote = TRUE, !.terminal = Terminal(e),
                            !.err = IF e.type = "error" THEN e.code ELSE "none"]
TellResponses(o, e, trouble) ==
    IF canceled THEN [o EXCEPT !.err = "canceled"]
    ELSE IF ~o.wrote /\ e.code \in {"previous", "limit"} THEN [o EXCEPT !.err = e.code]
    ELSE IF e.type \in {"success", "failed"} /\ trouble = "artifact" THEN [o EXCEPT !.err = "upstream"]
    ELSE IF ~Public(e) THEN o
    ELSE IF trouble = "content" THEN [o EXCEPT !.err = "upstream"]
    ELSE IF e.type = "success" /\ trouble = "usage" THEN [o EXCEPT !.err = "upstream"]
    ELSE IF e.type = "success" /\ trouble = "lease" THEN [o EXCEPT !.lease = "known", !.err = "quota"]
    ELSE LET p == IF e.type = "success" THEN Spend(o) ELSE o
             w == WriteRecord(p, e.type, {Len(dispatches)}, trouble)
         IN IF w.err # "none" THEN w
            ELSE [w EXCEPT !.wrote = TRUE, !.terminal = Terminal(e),
                           !.err = IF e.type = "error" THEN e.code ELSE "none"]

(* chatStreamState.event: an unusable event fails the stream, a failed one *)
(* is kept for the end.                                                    *)
ChatFails(o) == [o EXCEPT !.failure = TRUE, !.err = "abort"]
ChatWrites(o, item, trouble) ==
    LET w == WriteRecord(o, item, {Len(dispatches)}, trouble) IN [w EXCEPT !.wrote = @ \/ w.err = "none"]
ChatDelta(o, trouble) ==
    IF trouble = "content" THEN ChatFails(o) ELSE ChatWrites(o, "delta", trouble)
(* The answer is charged before its text is compared with what was sent.   *)
ChatFinish(o, trouble) ==
    IF trouble = "usage" THEN ChatFails(o)
    ELSE IF trouble = "lease" THEN ChatFails([o EXCEPT !.lease = "known"])
    ELSE IF trouble = "content" THEN ChatFails(Spend(o))
    ELSE LET w == ChatWrites(Spend(o), "success", trouble)
         IN [w EXCEPT !.finish = w.err = "none", !.failure = w.err # "none"]
TellChat(o, e, trouble) ==
    IF o.failure THEN [o EXCEPT !.err = "abort"]
    ELSE CASE e.type \in {"failed", "error"} -> [o EXCEPT !.failure = TRUE]
           [] e.type = "delta" -> ChatDelta(o, trouble)
           [] e.type = "success" -> ChatFinish(o, trouble)
           [] OTHER -> o

Troubles == {"none", "artifact", "usage", "content"}
            \cup (IF Faults THEN {"lease", "write", "applied"} ELSE {})
\* Storage and the client are only touched by an event that reaches them.
Tell(o, e, trouble) ==
    IF req.kind = "chat_stream" THEN TellChat(o, e, trouble) ELSE TellResponses(o, e, trouble)

-----------------------------------------------------------------------------
(* The transport                                                           *)

Via == IF req.kind \in {"compact", "images"} THEN "http"
       ELSE IF Policy = "sse" THEN "sse" ELSE "websocket"
Open(via, dials) ==
                /\ wire' = [NoWire EXCEPT !.via = via, !.dials = dials, !.renewed = wire.renewed]
                /\ dispatches' = Append(dispatches, account)
                /\ pc' = "reading"

(* A refused token is renewed once, in the same call; the file may already *)
(* hold a newer one.                                                       *)
Unauthorized ==
    \/ ~wire.renewed /\ pc' = "dial" /\ wire' = [NoWire EXCEPT !.renewed = TRUE] /\ UNCHANGED err
    \/ Return("upstream")

(* How a WebSocket that delivers no more ends the attempt. *)
WebSocketEnds(e, fallback) ==
    IF canceled THEN Return("canceled") /\ UNCHANGED dispatches
    ELSE IF e = "limit" /\ wire.dials < 2 /\ ~wire.emitted
         THEN /\ pc' = "dial" /\ wire' = [wire EXCEPT !.pending = <<>>]
              /\ UNCHANGED <<err, dispatches>>
    ELSE IF fallback /\ ~wire.emitted THEN Open("sse", 0) /\ UNCHANGED err
    ELSE Return(e) /\ UNCHANGED dispatches

Dial ==
    /\ pc = "dial"
    /\ \/ canceled /\ Return("canceled") /\ UNCHANGED dispatches
       \/ ~canceled /\ Open(Via, wire.dials + 1) /\ UNCHANGED err
       \/ ~canceled /\ Return("upstream") /\ UNCHANGED dispatches  \* no credential
    /\ UNCHANGED <<req, environment, plan, seen, account, bound, out>>

(* The handshake was refused, or the connection failed or closed before    *)
(* the terminal event.  What was read decides whether sending again is     *)
(* safe; some statuses and close codes forbid it.                          *)
WebSocketFails ==
    /\ pc = "reading" /\ wire.via = "websocket"
    /\ \/ \E e \in Codes, fallback \in BOOLEAN : WebSocketEnds(e, fallback /\ ~wire.unsafe)
       \/ ~wire.unsafe /\ Unauthorized /\ UNCHANGED dispatches
    /\ UNCHANGED <<req, environment, plan, seen, account, bound, out>>

Result(e) == IF e.type = "success" THEN "none" ELSE e.code
(* codexReplayBuffer.emit: the events a stream may still do without are     *)
(* held back until one comes that it may not.                              *)
WebSocketEvent(e) ==
    LET hold == ~wire.emitted /\ Safe(e) IN
    /\ pc = "reading" /\ wire.via = "websocket"
    /\ Terminal(e) \/ wire.events < MaxEvents
    /\ IF Streams
       THEN /\ wire' = [wire EXCEPT !.unsafe = @ \/ ~Safe(e), !.events = @ + 1,
                                    !.emitted = @ \/ ~hold, !.pending = Append(@, e)]
            /\ pc' = IF hold THEN pc ELSE "deliver"
            /\ UNCHANGED <<err, dispatches>>
       ELSE IF e.code = "limit" THEN WebSocketEnds("limit", FALSE)
       ELSE IF Terminal(e) THEN Return(Result(e)) /\ UNCHANGED dispatches
       ELSE /\ wire' = [wire EXCEPT !.unsafe = @ \/ ~Safe(e), !.events = @ + 1]
            /\ UNCHANGED <<err, pc, dispatches>>
    /\ UNCHANGED <<req, environment, plan, seen, account, bound, out>>
Deliver(trouble) ==
    LET e == Head(wire.pending)
        o == Tell(out, e, trouble)
    IN
    /\ pc = "deliver"
    /\ out' = [o EXCEPT !.err = "none"]
    /\ IF o.err # "none" THEN Return(o.err)
       ELSE IF Terminal(e) THEN Return(Result(e))
       ELSE /\ wire' = [wire EXCEPT !.pending = Tail(@)]
            /\ pc' = IF Len(wire.pending) = 1 THEN "reading" ELSE pc
            /\ UNCHANGED err
    /\ UNCHANGED <<req, environment, plan, seen, account, bound, dispatches>>

(* Over server-sent events an event is delivered as it comes. *)
SSEEvent(e, trouble) ==
    LET o == IF Streams THEN Tell(out, e, trouble) ELSE out IN
    /\ pc = "reading" /\ wire.via = "sse" /\ wire.ended = "no"
    /\ Terminal(e) \/ wire.events < MaxEvents
    /\ out' = [o EXCEPT !.err = "none"]
    /\ IF o.err # "none" THEN Return(o.err)
       ELSE /\ wire' = [wire EXCEPT !.events = @ + 1, !.ended = IF Terminal(e) THEN e.type ELSE @,
                                    !.code = Result(e)]
            /\ UNCHANGED <<err, pc>>
    /\ UNCHANGED <<req, environment, plan, seen, account, bound, dispatches>>
(* The body ends, with the terminal event or before; or it breaks, or goes *)
(* on after the terminal event.                                            *)
SSEEnds ==
    /\ pc = "reading" /\ wire.via = "sse"
    /\ \/ canceled /\ Return("canceled")
       \/ wire.ended # "no" /\ Return(wire.code)
       \/ \E e \in Codes : Return(IF wire.ended = "no" THEN e ELSE "upstream")
       \/ wire.events = 0 /\ Unauthorized
    /\ UNCHANGED <<req, environment, plan, seen, account, bound, dispatches, out>>

(* A compaction or an image is one exchange. *)
HTTPAnswer ==
    /\ pc = "reading" /\ wire.via = "http"
    /\ \/ canceled /\ Return("canceled")
       \/ Return("none")
       \/ Return("upstream")
       \/ Unauthorized
    /\ UNCHANGED <<req, environment, plan, seen, account, bound, dispatches, out>>

-----------------------------------------------------------------------------
(* After an attempt: send again, or answer                                 *)

Again(p) == /\ plan' = p /\ pc' = "copy" /\ err' = "none"
            /\ out' = [out EXCEPT !.terminal = FALSE, !.failure = FALSE, !.finish = FALSE]
\* Which error it was is worded only.
Answer(e) == err' = (IF e = "none" THEN e ELSE "upstream") /\ pc' = "answer" /\ UNCHANGED <<plan, out>>
RetryLimit == Again([plan EXCEPT !.retried = @ \cup {"limit"},
                                 !.forced = IF account = None THEN @ ELSE account])
RetryContinuation == Again([plan EXCEPT !.retried = @ \cup {"continuation"}, !.rebuilt = TRUE])
RetryAffinity ==
    IF affinity = None THEN Answer("upstream")
    ELSE Again([plan EXCEPT !.retried = @ \cup {"affinity"}, !.forced = affinity,
                            !.hint = IF req.kind \in {"compact", "chat"} THEN @ ELSE None])

\* seeded fault
MayRetryWritten(kind) == kind \notin plan.retried
MayRetry(kind) == kind \notin plan.retried /\ ~out.wrote
Retry ==
    /\ pc = "returned"
    /\ IF canceled /\ Streams THEN Answer("canceled")
       ELSE IF err = "previous" /\ IsResponses /\ MayRetry("continuation")
            THEN \/ Continues /\ RetryContinuation
                 \/ Answer("upstream")                \* the history cannot be loaded or rebuilt
       ELSE IF err = "limit" /\ req.kind = "responses_stream" /\ MayRetry("limit") THEN RetryLimit
       ELSE IF err = "conflict" /\ plan.forced = None /\ MayRetry("affinity") THEN RetryAffinity
       ELSE Answer(err)
    /\ UNCHANGED <<req, environment, seen, account, bound, wire, dispatches>>

JsonError(o) == Mark([o EXCEPT !.told = Append(@, "json error")], "failed")
\* A record of the handler itself.
Write(o, item, trouble) == WriteRecord(o, item, {}, trouble)
(* A broken writer is reported past the journal, as far as that succeeds.  *)
Report(o) ==
    LET f == Mark(o, "failed") IN
    IF canceled THEN f ELSE [f EXCEPT !.told = @ \o <<IF IsResponses THEN "error" ELSE "chat error", "done">>]

\* seeded fault
AnswerStreamUnended(trouble) ==
    LET o == Write(out, "done", trouble)
    IN IF out.broken THEN Report(out) ELSE IF o.broken THEN Report(o) ELSE o
AnswerStream(trouble) ==
    LET bad == out.failure \/ err # "none" \/ ~out.finish
        last == IF IsResponses THEN IF out.terminal THEN out ELSE Write(out, "error", trouble)
                ELSE Write(out, IF bad THEN "chat error" ELSE "usage", trouble)
        o == Write(last, "done", trouble)
    IN IF out.broken THEN Report(out) ELSE IF o.broken THEN Report(o) ELSE o

(* A whole result is checked and kept, then charged, then told; what may   *)
(* be wrong with it depends on the endpoint.                               *)
Whole(checks, trouble) ==
    IF trouble \in checks THEN JsonError(out)
    ELSE IF trouble = "lease" THEN JsonError([out EXCEPT !.lease = "known"])
    ELSE IF trouble = "write" \/ canceled THEN Mark(Spend(out), "failed")
    ELSE Mark([Spend(out) EXCEPT !.told = Append(@, "json")],
              IF trouble = "applied" THEN "failed" ELSE "succeeded")
AnswerResponse(trouble) == Whole({"artifact", "content", "usage"}, trouble)
AnswerCompaction(trouble) == Whole({"content", "usage"}, trouble)
AnswerChat(trouble) == Whole({"content", "usage"}, trouble)
AnswerImages(trouble) == Whole({"content", "artifact", "usage"}, trouble)
AnswerWhole(trouble) ==
    CASE req.kind = "responses" -> AnswerResponse(trouble)
      [] req.kind = "compact" -> AnswerCompaction(trouble)
      [] req.kind = "chat" -> AnswerChat(trouble)
      [] req.kind = "images" -> AnswerImages(trouble)

Reply ==
    /\ pc = "answer" /\ pc' = "release" /\ plan' = NoPlan /\ wire' = NoWire /\ err' = "none"
    /\ \E trouble \in Troubles :
         out' = IF canceled /\ req.kind # "compact" THEN out
                ELSE IF Streams
                     THEN IF ~out.committed /\ ~out.terminal /\ ~out.broken /\ err # "none"
                          THEN JsonError(out) ELSE AnswerStream(trouble)
                ELSE IF err # "none" /\ ~(req.kind \in {"responses", "chat"} /\ wire.ended = "failed")
                     THEN IF canceled THEN out ELSE JsonError(out)
                ELSE AnswerWhole(trouble)
    /\ UNCHANGED <<req, environment, seen, account, bound, dispatches>>
Refuse ==
    /\ pc = "refuse" /\ pc' = "finish" /\ out' = JsonError(out)
    /\ UNCHANGED <<req, environment, plan, seen, account, bound, wire, dispatches, err>>

(* The deferred calls: the lease first, then the journal. *)
Release ==
    /\ pc = "release" /\ pc' = "finish"
    /\ out' \in {[out EXCEPT !.lease = IF @ = "held" THEN "returned" ELSE @]}
                 \cup (IF Faults THEN {out} ELSE {})
    /\ UNCHANGED <<req, environment, plan, seen, account, bound, wire, dispatches, err>>
Finish ==
    /\ pc = "finish" /\ pc' = "done"
    /\ \/ out' = Mark(out, IF out.spoiled THEN "failed" ELSE IF canceled THEN "canceled"
                           ELSE "succeeded")
       \/ Faults /\ UNCHANGED out
    /\ UNCHANGED <<req, environment, plan, seen, account, bound, wire, dispatches, err>>

-----------------------------------------------------------------------------
(* Everything else that runs                                               *)

Change == pc # "done" /\ changes < MaxChanges /\ changes' = changes + 1
HangUp == /\ Change /\ ~canceled /\ canceled' = TRUE
          /\ UNCHANGED <<profiles, affinity>>
\* Later changes reach no request that has its answer.
Attempting == pc \notin {"answer", "release", "finish", "refuse", "done"}
\* The refreshers, and UpdateModelCatalog.
ProfileChanges(a) ==
    /\ Change /\ Attempting /\ \E p \in Profiles : profiles' = [profiles EXCEPT ![a] = p]
    /\ UNCHANGED <<affinity, canceled>>
\* Another request binds the session; or the row expires.
SessionChanges ==
    /\ Change /\ Attempting /\ req.session
    /\ affinity' \in IF affinity = None THEN Accounts ELSE {None}
    /\ UNCHANGED <<profiles, canceled>>
Environment ==
    /\ HangUp \/ SessionChanges \/ \E a \in Accounts : ProfileChanges(a)
    /\ UNCHANGED <<req, pc, plan, seen, account, bound, wire, dispatches, err, out>>

Handler ==
    \/ Resolve \/ Admit \/ Copy \/ Select \/ Bind \/ Dial
    \/ WebSocketFails \/ SSEEnds \/ HTTPAnswer
    \/ \E e \in Events : WebSocketEvent(e) \/ \E t \in Troubles : SSEEvent(e, t)
    \/ \E t \in Troubles : Deliver(t)
    \/ Retry \/ Reply \/ Refuse \/ Release \/ Finish
Next == Handler \/ Environment
Spec == Init /\ [][Next]_vars
FairSpec == Spec /\ WF_vars(Handler)
-----------------------------------------------------------------------------
(* Properties                                                              *)

Told == ToSet(out.told)
Failures == {"failed", "error", "chat error", "json error"}
Successes == {"success", "json"}

(* Nothing is sent upstream any more once the client was given a piece of  *)
(* an answer: what it holds comes from one attempt, whatever the transport *)
(* and the handler retried before it.                                      *)
OneSource ==
    /\ Cardinality(out.sources) <= 1
    /\ out.sources # {} => out.sources = {Len(dispatches)}

(* An attempt of a continuation goes to the account that owns the answer   *)
(* it continues, and the retries of any request to the account its journal *)
(* row is bound to: no retry chooses again and is refused for it.          *)
RetriesStay ==
    pc = "bind" => /\ Continues => account = req.owner
                   /\ bound # None => account = bound

(* The record of a request agrees with what its client was told: success   *)
(* is recorded only when one was told and no failure was.  The streams of  *)
(* chat completions are not held to it.                                    *)
RecordIsHonest ==
    req.kind # "chat_stream" /\ out.record = "succeeded" =>
        Told \cap Successes # {} /\ Told \cap Failures = {}

(* Every request ends, whatever the upstream and the environment do.       *)
RequestsEnd == <>(pc = "done")

(* The request does what Exchange promises: nothing is sent before quota   *)
(* is held, a success is charged before it is told, and only quota that    *)
(* was not charged is given back, whether the write of the answer, the     *)
(* charge or the journal fails.                                            *)
Paid == IF out.lease = "known" THEN "spent" ELSE out.lease
Answered == IF Told \cap Failures # {} THEN "failure"
            ELSE IF Told \cap Successes # {} THEN "success"
            ELSE IF Told \ {"done"} # {} THEN "some" ELSE "none"
Asked == dispatches # <<>>
E == INSTANCE Exchange WITH paid <- Paid, answer <- Answered, asked <- Asked
RefinesExchange == E!Spec
=============================================================================
