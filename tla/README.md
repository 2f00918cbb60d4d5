# Verification of codex-sub-proxy

`codex-sub-proxy` is a single-process Go service that lends one or several
ChatGPT/Codex subscriptions to API clients.  It authenticates a client by API
key, admits the request against the key's quota, picks an account, keeps the
account's OAuth credential fresh, forwards the request (HTTP, server-sent
events or WebSocket) and journals everything that went through into SQLite and
encrypted artifact files, from which retention later deletes it.

This directory holds TLA+ models of its core logic, TLC configurations that
check them on small instances, and TLAPS proofs for all values of the
constants.  Paths below are relative to `src/`.

## 1. Inventory

### Facts every model rests on

* `internal/storage/sqlite.go` opens SQLite with `SetMaxOpenConns(1)`: two
  transactions never overlap, so a `Transaction` of the code is one step of a
  model.  What interleaves is what lies *between* transactions.
* One serving process: `internal/storage/lock.go` takes an exclusive `flock`
  at startup and downgrades it to shared once the service listens; `login` and
  `restore` need the lock exclusively, so they run only while it is stopped.
  `Process` checks this, and says where it does not hold.
* Deferred functions run on every return of a handler but not on a crash.

### Components, their state and their operations

| Component | State | Operations | Hard parts | What makes it correct |
|---|---|---|---|---|
| API-key quota (`apikey/quota.go`, `server/quota.go`) | quota_states, quota_buckets, quota_rolling_admissions, quota_reservations; a lease per handler; owner ID per process | Admit, Reconcile (two transactions), Release, RecoverPending, policy edit | handlers interleave, crash between the two transactions, failed settlement, batched cleanup rolled back by a refusal | counters count rows; limits hold; a success is charged once and never dropped; restart settles all |
| Credential refresher (`codex/refresh.go`, `codex/credentials.go`) | encrypted credential file; in-flight call, generation, two failure tokens | Credential, Snapshot, Do, refresh, SaveCredential | single flight, file read outside the lock, waiters that go away, single-use refresh tokens, replacement during a refresh | a token is used once; a replaced credential is not overwritten; failures are blamed on the credential that failed; callers return |
| Journal (`server/journal.go`, `server/lifecycle.go`, `server/journal_http.go`) | append-only receipts, requests, attempts, stream frames, usage, response links, in-memory request states, worker queue | BeginRequest, BindAccount, Forward, RecordTerminal, Replay, worker drain, Close | receipt first, materialization later; replay after a crash; locks held across client writes | what was sent is on record; replay is idempotent; first terminal wins |
| Retention (`server/retention.go`, `server/retention_request.go`) | deletion marks and receipts | RunOnce sweeps, DeleteConversation, DeleteRequest | multi-step deletion against live requests, crash in the middle | nothing live is deleted; a deletion finishes |
| Artifact store (`server/artifact.go`) | files, artifact rows, barrier | Save, RemoveMarked, Reconcile, barrier | file and row written apart, orphans, backup barrier | no row without a file, orphans are collected |
| Backup and restore (`server/backup.go`) | archive, staging directories, restore marker | CreateBackup, Restore, RecoverRestore | crash at every rename | either the old or the new state, never a mix |
| Account broker (`server/broker.go`, `codex/accounts.go`) | account rows, cooldowns, selector counters, session affinity | Select, cooldown, single/round-robin/quota-aware selection | stale snapshot, sticky sessions against unavailable accounts | only usable accounts; a session keeps its account |
| Responses admission (`server/responses_admission.go`) | conversation owner, previous response | authenticate, resolve, bind | order of checks and bindings | a conversation has one owner and account |
| Request lifecycles (`server/responses.go`, `responses_websocket.go`, `chat.go`, `images.go`) | stream state per request | stream translation, cancellation, terminal handling | client and upstream fail independently | one terminal event; quota and journal settled |
| Transport (`codex/transport.go`) | WebSocket pool, fallback | Responses over WebSocket or HTTP | fallback only before the first event | no request is replayed after output |
| Model catalog (`server/model_catalog.go`) | cached catalogs per account, leases | refresh, lookup | a refresh that fails or ends between saving and telling, not-modified answers | what is saved, kept and selected by agree; the merged catalog promises what every account holds |
| API keys, admin tokens and sessions (`apikey/store.go`, `server/admin_tokens.go`, `admin_sessions.go`, `admin_api_keys.go`) | key, token, session, nonce rows | create, rotate, revoke, login | read then write, single-use nonces | a revoked key is refused; a nonce is used once |
| Server lifecycle (`server/server.go`, `health.go`) | component start order, readiness | Start, Shutdown | failed start half way, shutdown order | journal outlives its users |
| Application lock (`storage/lock.go`) | flock mode | acquire, downgrade, close | upgrade race | one serving process |
| Pricing and analytics (`server/pricing*.go`, `analytics.go`, `allocation_query.go`) | price versions, allocations | upsert, reconcile, aggregate | rounding, price version at the time | totals add up |
| OAuth login (`codex/oauth.go`) | PKCE state, callback listener | browser and device login | callback, polling, expiry | state matches, one code exchange |
| Boundary (`server/boundary.go`) | limiters, body caps | request limits | resource limits | limits give back what they take |
| Envelope, payload, translation, config, telemetry, TLS, admin pages, scripts | none of interest | pure conversions and I/O | – | – |

Interactions: a handler authenticates (API keys), admits (quota), resolves the
conversation (admission), selects an account (broker), gets a credential
(refresher), calls upstream (transport) while the journal records each frame,
then reconciles or releases the quota.  Retention, catalog refresh and the
journal worker run beside the handlers.  Start runs migration, pricing,
artifact reconciliation, quota recovery and journal replay before it listens.

`PROJECT.json` lists every component with its status, and every hazard at its
line with the properties that would catch it.

## 2. Modules

In order of importance to the service, which is the order they were written in.

| Modules | What they cover | Abstract specification, theorems |
|---|---|---|
| `Quota`, `QuotaLedger`, `QuotaProofs` | API-key quota | the ledger of slots; proved |
| `Refresher`, `RefresherProofs` | credential refresh | inductive invariant; proved |
| `JournalStore`, `Journal` | receipts, materialization, replay | inductive invariant; proved, in `RetentionProofs` |
| `Retention` (extends `Journal`), `RetentionProofs` | deletion and expiry beside the journal | inductive invariant; proved |
| `Broker`, `Serving` (extends it), `Exchange`, `ServingProofs` | a request of any endpoint: selection, attempts, fall back, retries, answer, settling | `Exchange`, what a request promises; proved |
| `Turns`, `TurnsProofs` | the goroutines of a Responses WebSocket | inductive invariant; proved |
| `Restore` | installation and recovery, as programs of file operations | a pair is installed whole; checked |
| `Artifacts`, `ArtifactsProofs` | files against rows, reconciliation, the backup barrier | inductive invariant; proved |
| `Catalog`, `CatalogProofs` | refresh, load and merge of model catalogs | inductive invariant; proved |
| `Access`, `AccessProofs` | administration: sessions, nonces, tokens | inductive invariant; proved |
| `Keys`, `Listing` | API keys; lists | inductive invariants; proved, in `AccessProofs` |
| `Process` | the processes, the application lock, start and shutdown order | inductive invariant; proved, in `ArtifactsProofs` |

`MCQuota`, `MCRefresher`, `MCRetention` and `MCServing` give a module its values
for TLC.  `MCComponents` has one instance of each module of the last seven rows,
and two of `Refresher`: its initial state chooses one of them (`part`), and
every step is one of that part, so its behaviours are those of the parts side by
side and a violation of a part is a violation of the run.  Every part has initial
states of its own, so no `part = ... => ...` of its properties holds for want of
that part.
Theorems are about the modules themselves: `ProcessesKeepApart` of the run is that of
`Process` for one choice of constants, and `ProcessesStayApart` proves the latter for all.

Modules that are proved about have no recursive operator: sums over sets
are counts of pairs, and `CHOOSE` picks what is unique.

Operators under a comment `seeded fault` are not part of a model: each is a
defect one could have written in the definition after it, and each property is
known to fail when the defect replaces that definition (`PROJECT.json`,
"mutants").

Worth doing next: an inductive invariant for `Restore`; pricing as operators
against a reference.

## 3. Quota

`Quota` has the five tables (`policy`, `state`, `buckets`, `rolling`,
`reservation`), the handlers' memory (`lease`) and the process (`owner`, `up`).
A row is named after the request that made it: an admission makes at most one
row in each table.  The steps:

* `Arrive` takes the two snapshots the code takes before it waits for the
  connection: the policy with the key, then `store.now()` (quota.go:276).
  `Admit` is the transaction that follows, with its batch of cleanup; `RefuseRate`
  and `RefuseOther` roll all of it back, `AbandonAdmission` is a failure.
* `ReconcileBegin` and `ReconcileApply` are the two transactions of Reconcile;
  a failure of either closes the lease in memory only (server/quota.go:40-41).
  `EndHandler` runs the deferred release, `EndHandlerFails` fails in it.
* `Crash` forgets the handlers; `Boot` settles the reservations of other owners.
  `EditPolicy` is the administrator, `Tick` the clock.

Amounts are small naturals; int64 overflow (`quotaAdd`) is not modelled.
`QuotaLedger` says the same without rows: a slot is taken, then given back once,
charged or dropped.  `RefinesLedger` maps the counter to `used` and the
unsettled reservations to `holders`.

| Run | Bounds | Shows |
|---|---|---|
| `quota` | one key, 3 requests, 2 policies, 2 instants, one crash and the restart after it, failures | two requests share a period, a window and the slots, the third exceeds each limit by one; the policy changes between any two steps of any of them; the period and the window end once |
| `quota_progress` | one key with one slot or no limit, 3 requests, 2 crashes, no failures, fair | a process that recovered from a crash crashes again; a request is refused the slot and another takes it when it is free |

The caps are stated against the widest policy the key may have had
(`Largest`): a handler is held to the policy it was authenticated with, so an
edit takes effect with the next request, not with the next admission.
`Accounting` contains the exact counters (`ActiveMatchesReservations`,
`RollingMatchesRows`), what handlers know of their rows (`HandlerInv`) and the
types; `Books` that buckets hold what reservations say and that no settlement is
refused as inconsistent; `RateCaps` the rolling and the period limits;
`NothingIsForgotten` that a restart settles what it finds (`OldOwnersSettled`) and
what becomes of a success (`SuccessKept`).  For the latter `learnt` remembers, as a
history no action reads, whether a request's success got on record.  One that did
is never released.  One whose `ReconcileBegin` failed keeps its reservation while
its process lives, but `RecoverPending` of a later process releases it: after the
crash nothing tells it from a request that was cut off (section 14).

Fairness: each handler goes on by itself (its goroutine runs; its transactions
do not fail in this run) and a supervisor starts the service again.  Nothing
makes a client, an administrator or a crash come.

Proved (`QuotaProofs`), for all keys, requests, policies, batch sizes and
bounds, from `QuotaAssumption` (finitely many requests, valid policies) alone:
types, exact counters, `ConcurrencyCap` under edits of the policy, `Books`, `RateCaps`,
`NothingIsForgotten` (`OldOwnersSettled`, `SuccessKept`), `SettlingIsFinal`,
and that every step implements the ledger.  `ActiveMatchesReservations` is not inductive: a settlement must know
that the reservation it settles still holds its slot.  `HandlerInv` says so
(each step of a handler fixes the status of its reservation), and `Accounting`,
the conjunction, is inductive.  The proof splits `Next` into its actions; two
lemmas carry it, `SettleCounts` and `GrantCounts`: settling a set of
reservations takes as many slots as it has members, a grant takes one.

`BooksAreExact` is about sums over sets of rows.  `Sum` counts pairs of a row and a
unit of its amount, so that lemmas on cardinalities say what a sum does when rows
move from one set to another; no induction is needed.  `BookInv` adds to the exact
buckets that a request is charged the cost it reserved (`CostIsFixed`): without it
nothing says that what a settlement takes away is there.  `RatesAreCapped` has two
halves.  A window is checked against a counter that counts every row whose window
is open, however late the cleanup comes (`WindowsAreCapped`).  A period is kept below
its limits by `BucketCap`: every admission fits, and settling adds to no bucket
(`SettleFits`), since a charged reservation costs what it reserved
(`PeriodsAreCapped`).

Model-checked only: liveness.

## 4. Refresher

`Refresher` has the mutex-guarded fields (`inFlight`, `generation`, two failure
tokens), the file, one record per refresh call with its goroutine, one per
caller, and the upstream: credentials are numbered as issued, a refresh token is
rotated by use, may be refused for good, and an access token may expire or be
rejected.  Every critical section, every read of the file, every save and every
answer is a step, because the file is read outside the mutex (refresh.go:146,
288) and only the generation or a failure token tells a caller that what it read
is old.  `Do` is modelled as replay safe, which every caller of it asks for.

| Run | Bounds | Shows |
|---|---|---|
| `refresh` | 2 callers, one expiry, one access token rejected, one login, refusals, all faults | one caller runs the refresh, the other joins or comes late; the login, a refusal or a lost answer comes between any two steps |
| `components`, parts `calls` and `snapshot` | smaller instances, fair: two callers and a login; a caller and a login beside a probe of readiness, which only looks | every caller returns; the probe tells the truth |

`lost` remembers the credentials whose successor never reached the file, because
the answer or the save failed.  Only their refresh tokens may be presented
again: nobody knows that they were used.

A `Do` starts at most two refreshes and `Snapshot` none, so `MaxCalls` is twice
the callers that are not probes; `MaxIssued` is one more for the credential at
the start, and one for the login.
Fairness: callers and refresh goroutines run on, and the endpoint answers or the
client's timeout ends the wait.

Proved (`RefresherProofs`) for any number of callers, from `RefresherAssumption`:
`RefresherInv` (types and `RefreshInv`), `RefreshPromises` (single flight,
`NewestLoginWins`, `LoginIsAskedForAReason`) and `UsedTokensStayUsed`, whatever
fails and whoever goes away.  The invariant is
needed because what makes a token unused is not where it is sent:
between the answer and the save the file still holds the rotated token, and it
is only single flight that keeps everyone from reading it then.  `FileInv` states
this (a consumed token is in the file only while its own refresh is saving, or
when its successor was lost), `CallInv` what each step of a refresh knows.

`SentCredentialsWereStored` needs one thing more, `HeldInv`: what a caller holds was
stored at some moment of its call, although it reads the file before it enters the
critical section and may be given the result of a refresh that others began.

`SnapshotsAreTrue` is what the broker relies on when it leaves an account out: a
probe says that a login is needed exactly if the failure of the credential it read
is on record when it says so, that credential was in the file during its look, and
the upstream refused it.  The file is read between the two looks at the failures,
so the proof (`SnapshotsTellTheTruth`) needs `LookInv`: whatever changes the failures
moves the generation, hence a caller whose generation still holds has the present ones.

Model-checked only: `CallersReturn`, which is liveness.

## 5. Journal

`JournalStore` is the database and what one transaction does to it; `Journal`
the process around it.

* `db.row` is `JournalRequest`, `db.log` `JournalRecord`, `db.req`, `db.conv`,
  `db.link`, `db.affinity`, `db.receipts`, `db.payloads` the lifecycle tables.
  `Applies` and `Materialize` are `applyReceipt`, kind by kind (lifecycle.go).
* `states` is `Journal.requests`, `handler` the goroutine of each request,
  `worker` the replay worker, a startup that replays, or a Close that drains;
  `signal` says that `replayQueue` is not empty.
* Handlers: `Arrive` (admission: previous response or session), `OpenHistory` and
  `ReadHistory` (`LoadConversationInputThrough`: which requests there are, then one
  of them at a time, since its queries share no transaction), `Begin`/`Proceed` (`BeginRequestWithMetadata` with its three transactions),
  `Bind` (`BindAccount`), `Forward`/`Write` (append, then the client's socket
  while the entry is locked), `Usage`, `Mark` (`markJournalTerminal`, after which
  `[DONE]` may still be forwarded), `Complete`, `Leave`.
* The worker: `Wake`, `Load` a batch, `Apply` one record, `ReplayFails`,
  `ReplayEnds`.  The process: `Close`, `Drain`, `Crash`, `Start`, `Tick`.

Abstractions.  A conversation is named after the request that opened it (no
caller outside the tests sets `ConversationHint`).  There is one API key.
Records are numbered in append order, while the code orders them by a clock read
just before the transaction (a hazard without a property).  `running` and
`input` are appended only by requests with an input.  A request has at most one
answer and one link (`response_links.request_id` is unique).  `applied` flags,
stream, usage and conflict rows are abstracted to the receipt.  A crash also
stands for a shutdown whose deadline passes.  Not modelled: the limits on the
size of a conversation, audits of rejected requests, server-sent-event framing;
and two branches no state reaches, a binding whose conversation is missing and
the tombstone of a conversation.

`Journal` is checked, and proved about, together with `Retention`, in the next
section: every step of it there is a step of `JournalStep`.

## 6. Retention

`Retention` extends `Journal` with the deletion under way (`job`, guarded by
`deleteMu`) and the conversations a sweep has listed and not reached.
`MarkConversation` and `MarkRequest` are the marking transactions;
`RemoveFiles` the files, in one step; `FinalizeRequests` (in batches),
`FinalizeConversation` and `FinalizeRequest` the rows; `GiveUp` a failure or a
deadline; `ListOverdue` and `PassOver` the sweep; `ExpirePayload` and
`ExpireAffinity` the other sweeps.  `sweepMetadata` for requests is absent: it
skips a request with any journal record, and `AcceptedStays` shows that each has
one.  The sweeps of audits, admin sessions and nonces, which nothing here reads, are
in `Access`.

| Run | Bounds | Shows |
|---|---|---|
| `journal_replay` | a request and its continuation, 2 accounts, inputs, one stop, deletions in batches of one that may give up | binding and replay both materialize; two requests compete for the count and the account of a conversation; a continuation begins while the conversation is marked |
| `journal_sessions` | 2 requests, 2 accounts, one session, expiry, the sweep of affinities only | an affinity read before another request is bound |
| `journal_faults` | one request with a frame and an answer, all failures of the journal, one stop, one expiry | a terminal state is attempted after each failure; a deletion against a batch that was loaded before; payloads expire under a request that runs |
| `journal_progress` | one request of a session, usage, one stop, one expiry, fair | a crash during a drain, a replay or a deletion |
| `retention_startup` (finding) | one request | see below |

No frame follows a terminal record in `journal_replay` and `journal_progress`
(`MaxFrames` is 0): with one, `NothingBlocksReplay` and the progress of startup
fail, which is the finding `retention_startup`.  `journal_replay` has no session:
an affinity that expires and is taken over before its binding is replayed would
stop replay, but in the code it lives for seven days against a replay that lags
seconds.  `OnlyLateRecordsBlockReplay`, a part of `DeletionIsClean`, says that these
are the only two ways (`Late`, `TakenOver`).  `Sweeps` bounds which sweeps fall into a run; the others come after it.
Only `journal_sessions` leaves any out, to keep conversations with their sessions.

Fairness: handlers go on and finish, the worker and a startup run, and the
service is started again; the sweep comes again at every interval, and the
deletion it began goes on.  Nothing fails but the process in that run, since the
worker waits for the next signal after an error.

The properties of these runs are conjunctions: `ConversationsAgree` (types, one
account per conversation, counts that match the rows, links that resolve, and
`HistoryIsWhole`, see below), `ReplayIsSafe` (no record
blocks replay, a clean close has drained, a conversation under deletion has
ended), `DeletionIsClean` (nothing is left behind, only late records can block
replay, accepted records stay) and `RecordsAgree` (one terminal record each,
memory agrees with the rows, nothing sent is missing from the journal).

`HistoryIsWhole` is what is left of the promise that a continuation sees the whole
conversation when requests are deleted between the queries that read it.  Before
payloads expire it may lack a request only if that one was deleted meanwhile; and
once it goes on, only one that was deleted by itself, whose link stays: a deleted
conversation takes its links along, `BeginRequest` resolves the response again
after the read, and a conversation with a request that runs is not deleted.
The history is cut without an error all the same (section 14).

Proved (`RetentionProofs`) for all requests, accounts, sessions,
batch sizes and bounds, from the assumptions on the constants alone: every
invariant and action property above.

* `ConversationsKeepAgreeing`, `RecordsKeepAgreeing`, `DeletionsAreClean`: the three
  conjunctions as they stand.  `TypesHold`, `RecordsStayWhileRunning`, `SessionsStay`.
* `ReplayStaysSafe`: `ReplayIsSafe` while no frame and no binding of a session waits
  for replay (`Plain`).  The condition is the one under which `journal_replay` checks
  it, stated of a state in place of the constants; without it the property is
  false, as the finding shows.  Its other two parts hold without a condition
  (`ClosesAndDeletionsWait`).

None of them is inductive, since each relates two places that are written by
different transactions.  `Inv` has three parts:

* `StoreInv(d, n, t)`, of a database alone: numbers tell records apart; the
  accepted record of a request comes first and has a receipt exactly when the
  request is materialized; nothing but frames follows its terminal record, nor
  is pending once it has ended; all accounts a conversation names, in rows,
  links and records, are one (`Says`, `Named`); counts count; what is being deleted
  has ended.  Its first half has one lemma for each transaction: it keeps `StoreInv`,
  and says what it leaves of the rest: no request comes back, no record goes
  before its request has ended (`Follows`), no account is named anew (`Agreeing`), no mark
  is taken away (`Lasting`).
* `Core`, the process around it: what has not begun left no trace (`Fresh`); memory
  agrees with rows, records and other handlers (`Memory`) and knows whether its
  request has ended (`Progress`); what was sent, or is being written, has its
  record (`Sent`); whatever is pending and older than something in the worker's
  batch is in it too (`Batched`); what histories are read from is there before any payload
  expires (`Read`); a clean close stays clean (`Drained`).
  `Follows` and `Agreeing` are what lets each part pass a transaction of another.
* `Targeted`: the deletion under way still has its mark, through restarts and
  failures of it.

`Histories` is kept beside `Inv` (`HistoriesHold`): a response that is continued, and
every request whose events are being read or were found missing, keeps its link
while it is known and, once the continuation runs, for as long as that runs.

The steps of the handlers and of the worker are proved to keep `Core` and never to
delete what runs, to take a session away or a mark (`Calm`); those of the runner
to keep `Inv` and to be `Clean`.  `Batched` is the part one would not guess: a binding
materializes the accepted record while the worker has it in its batch, and
only that nothing older is elsewhere lets replay go on in order.

Model-checked only: `DeletionsFinish`, `EverythingMaterializes` and `RequestsEnd`, which
are liveness.

## 7. Serving

`Broker` holds how an account is found.  `Usable` is what the copy of
`ProfileBroker` and `accountUsableAt` ask together of an account (enabled, not
cooling, its catalog, its credential); `Insists` the account a request may not
leave, `Candidates` what the selectors may return.  The rotating ones (round
robin among the usable, quota-aware among the least used of them) keep a counter
that other requests move too, and what an account has used is known to the
upstream only, so each may return any usable account.

`Serving` is one request of any endpoint.  `Resolve` and `Admit` are the
admission; `Copy`, `Select`, `Bind` choose and bind an account; `Dial`,
`WebSocketFails`, `WebSocketEvent`, `SSEEvent`, `SSEEnds` and `HTTPAnswer` are
the attempt; `Retry` decides on another one; `Reply` answers what is answered at
the end, `Refuse` what was refused before, `Release` and `Finish` are the
deferred calls; `Deliver` hands over what the buffer held back.  `Tell` is the event callback of the handlers: what it charges,
writes and marks, in that order, with `trouble` for the call that fails.  `wire`
is what `codexTransport` keeps of an attempt, with its buffer of events that may
still be replayed; `out` what the client was told and by which attempt, the
quota lease and the terminal status of the journal row.

The environment is everything else: `ProfileChanges` (a cooldown, a credential
that fails or recovers, a catalog), `SessionChanges` (another request binds the
session, or it expires) and `HangUp`.  Payloads are not modelled: an event is
its type and whether it fails, completes or only adds.

`Exchange` says what a request promises: it holds quota before anything is
asked upstream, a success is charged before it is told, quota that is held is
given back only while no success was told, and what was charged stays charged,
even if the client never gets the answer.  It does not say that quota which is held
is always settled: a release that fails leaves it until the next start.
`RefinesExchange` says that `Serving` implements it.

| Run | Bounds | Shows |
|---|---|---|
| `serving` | two accounts, all six endpoints, one event before the end of an attempt, one change by the environment, one failure of storage or of the client | an attempt fails before and after the first piece of an answer, an account is lost between the copy and the attempt, a session is bound by another request, every order of charging, telling and failing |

One event is enough because the code keeps two facts of the events before:
whether something unsafe was seen and whether something was written.  Two
accounts are enough because a retry either insists on one account or leaves one.
A rotating selector and the preference for the WebSocket are the general
cases: the single selector returns one of the accounts they may return, and the
policy "sse" is what is left after a fall back.

Fairness: the handler goes on; the upstream answers or the deadline of the
attempt ends it.  Nothing makes the environment act.

Proved (`ServingProofs`) for any accounts, events, failures and bounds, from the
assumptions alone: `OneSource`, `RetriesStay`, `RecordIsHonest` and that every step is
one of `Exchange` or leaves it alone.  The invariant says what the properties do
not mention: what a request that was bound or continues insists on when it selects
again (`StayInv`), what the transport knows of an attempt and holds back
(`WireInv`), that nothing was told before it unless it is the attempt that told it
(`SourceInv`), and what was charged, held and recorded at each point between two
calls (`PayInv`, `RecordInv`).

Model-checked only: `RequestsEnd`, which is liveness.

## 8. WebSocket turns

`Turns` has the reader goroutine, the handler and one goroutine per turn, with
the variables they share (`turnActive`, `violationPending`, `nextRead`, the
channel of capacity 1, the context) and the journal request, which is a value of
the connection that every turn replaces and the goroutines read (`value`).
What a turn does upstream is one step that ends with an event or an error.
Two messages are enough: a turn has to do with its successor only, since the
reader waits for `nextRead`.

`TurnsHold` says what is left of the promise that turns do not overlap: they do
only while the older writes its last event, and a turn that was alone is
recorded as it went.  `HandlerReturns` is liveness: once the client is gone, the
handler returns.  The reader, the handler and each turn are fair, since nothing
but but each other's channels blocks them.  `Missed` is excepted there, see section
14.

`TurnsProofs` proves `TurnsHold` for any number of messages (`TurnsAlwaysHold`).
The order of turns is nowhere in one variable; it follows from where the next
message is.  `MessageInv` says that it is in one place: the reader reads only
when it was let, and then neither the channel nor the handler has one.  `OrderInv`
says that a message that is offered to the handler without a violation came when
the newest turn had seen its last event, because the reader found `turnActive`
false, which nobody but that turn or its end makes it.  `RecordInv` says that
while a turn is the newest and runs, the request's values name it, so that what
is marked is marked for it; the properties follow for the turns that were alone.
`CountInv` is only there to show that no more turns begin than messages came.

## 9. Restore and images

`Restore` treats installation, rollback, clean-up and recovery as programs:
sequences of file operations (`Move`, `Remove`, `Mark`, `Sync`), chosen by what
is on disk just as the code chooses them.  `Do` executes the next, `Fail`
makes it fail, with or without effect, and continues as the code does (roll
back, report, leave the marker), `Crash` stops anywhere, also inside the removal
of a directory, `Recover` reads the marker and the disk.  Versions stand for
contents: 0 is what was there first.  Bounds: two restores, two crashes (one
during the recovery from the other) and one failure.  With two failed operations
and a crash data can be lost; see section 14.  A crash is the process's: renames
that were done are on disk.  Verification of an archive and its extraction come
before the first change and are one step (`Begin`).

`Artifacts` has for each image its row and its file, and what of the file was
synced.  The steps of `Save`, of the removal, of the reconciliation at start and
of a backup in its own process are those between two calls of the database or
the file system; `Shared` and `Exclusive` are the barrier.  A crash either ends
the service alone or loses what was not synced.  Bounds: one request with two
images that compete for one slot, two crashes.

| Run, part | Shows |
|---|---|
| `components`, `restore` | every crash, and a failure, in a restore and in the recovery of a recovery: a complete pair is always on disk, and what is installed belongs together |
| `components`, `artifacts` | a save, a deletion, a backup and a crash in every order: no image that can be read lacks its file, a backup is whole, a start tidies |
| `restore_converges` (finding) | one restore and one crash over no database, or a database without images |

`ArtifactsProofs` proves of `Artifacts`, for any identifiers, slots and number of
crashes and from no assumption, that `ImagesAreWhole` always (`ImagesStayWhole`), and that
a start tidies (`StartsTidy`).  That a row that can be read has its file is false
while the service is down, so the invariant says when it holds: while the service
is up, or a backup has reconciled and takes its snapshot (`WholeInv`).  It is kept
because service and backup never work side by side (`BarrierInv`), and because
whatever an operation has claimed cannot be read and, since identifiers are drawn
once, never will be (`ClaimInv`).  The deleting goroutine is in that invariant
although it claims without the barrier.  `TidyInv` says what reconciliation has dealt
with so far: behind it every file is the one of a row that can be read.

`Restore` stays with TLC.  `RestoresHold` is true because at most one operation
fails; with two it is not (section 14).  An invariant for it has to speak of the
rest of the program that is being carried out, which is a sequence built from what
was on disk when it began.

## 10. Model catalog

`Catalog` has the rows, `manager.states` and the broker's catalog of each
account, and a refresh as the steps between its calls: ask, touch or save, keep
in memory, tell the broker.  Each may fail, and closing cancels.  `Merge` is
`mergeModels` field by field: a capability is a flag, a number or a list, and
one flag, one limit, one set of efforts and one other field stand for the fields
of their kind.  What is only shown (display name, description, source, visibility) is
taken from the first account that lists the model, the default one if it does:
`shown`.  `CatalogsAgree` relates the three copies to what the provider said;
`MergedHolds` compares the merge with every account that may be chosen, and what
is shown with one of them.
Bounds: two accounts (the merge compares each account with the first), three offers
that differ in every field, one change, one restart.

`CatalogProofs` proves both for any number of accounts and any offers
(`CatalogsAlwaysHold`), from `CatalogAssumption`: there are finitely many accounts, what is
offered has the fields the code reads, and no catalog is the mark of a missing one.  `StepInv` says which of the copies a refresh
has written, step by step, and that a catalog is only confirmed when it is the saved
one.  For the merge, an operator over all accounts that takes the first one for a
start, there is one lemma for each field (`LeastOf`, `MergeHolds`), and `SeqOfSet` and
`OrderHasAll`, that the order in which accounts are merged has each of them.

## 11. Administration

`Access` has tokens, login nonces and sessions, and a request as the
transactions of its code (`op[c].do` says which is next).  Each reads the clock
before it waits for the connection: `op[c].at` is that time, and another
request's transaction and the clock may go between.  `Sweep` is the part of
the retention runner that deletes audit records, sessions and nonces that are over,
row by row; sessions are listed first and deleted without another look
(`ListSessions`, `SweepSession`).  `TokensAreAccountedFor` relates tokens to the audit
for as long as audits are kept (`AuditTTL`, seven days in the code); `past` remembers
the audits of logins that were swept, for a nonce must not log in again after that either.

The part `access` of `components` has two clients, two tokens, one nonce allowed at
a time and four requests: enough for the same form sent twice, for a second login
that replaces the session of the first, and for a token that is revoked
between the two checks of another client.  The part `sweeps` has one client and time
enough for an audit, a nonce and a session to be over and be swept, and for a restart.

`AccessProofs` proves this for any number of clients, tokens and nonces and any
lifetimes (`EverythingIsAccountedFor`, `RevokedTokensStop`), assuming only that
lifetimes, the cap and the clock's bound are natural numbers, and the nonces a
finite set, of which the cap counts some (`AccessAssumption`).  The properties
speak of the tables and the audit, and are kept only because of what the requests
under way hold: a nonce that got a request past the form is used up and no other
request past the form has it (`NonceInv`), a request works with a time that was
(`OpInv`), so that a session is never given an end beyond its lifetime from now,
and the tokens of requests and sessions were made (`MadeInv`).  `AccountInv` names the
record that accounts for a token or its revocation: its end is `AuditTTL` after that
moment, so no sweep deletes it before.

`Keys` has records of API keys and callers that are authenticated once and
authorized for every request.  `Obeys` says that a grant uses the record as it
is at that moment.  `KeysAreObeyed` proves it for any keys, callers and administrators;
the invariant is that who is connected has a key, and that a key which was
revoked was made, so it is not issued again (`KeysInv`).

`Listing` walks through the pages of a list while rows are inserted, changed and
removed.  Rows take their time from a clock that may stand still, and three rows
with one to a page are enough for a cursor between two rows of one time.
`WalksMissNothing` proves `WalksAreComplete` for any finite set of rows and any page that
has a row (`ListingAssumption`).  The invariant is about the cursor: what was shown is
not behind it any more and has its time for good, and what is due was shown or is
behind it (`ListingInv`).  That the rows of a page have an order at all is a lemma
(`RowsHaveOrder`): the position of a row is the number of rows that are not older.

## 12. Processes

`Process` has two runs of the service, a command that shares the lock, a login
and a restore.  A lock is what the kernel holds: `Downgrade` gives up the
exclusive lock and `Converted` takes the shared one, as `flock` does.  Start
recovers a restore, opens, starts the broker and the workers, converts and serves;
`Shutdown` to `Exit` stop in the order of `Shutdown` and `closeResources`.
`half` is an interrupted restore.  `ProcessesKeepApart` is what the lock is for;
`Excused` names the two cases in which it does not give it; at most three
processes are started, and a process may be started again.  `ServersStop` holds
under fairness of the steps of a shutdown alone: it waits for no client.

`ArtifactsProofs`, in its second part, proves `ProcessesKeepApart` for any processes of each kind and any
number of starts, from no assumption (`ProcessesStayApart`).  A place says which
lock the kernel holds (`LockInv`), an exclusive lock is the only one
(`Exclusion`), the lock is overtaken only while it is converted (`OvertakenInv`),
and storage is opened behind the recovery and closed before the lock goes, but
for the catalog (`UseInv`): with these, an interrupted restore is never around a
database that a service opened (`HalfInv`).

## 13. Findings

Each has a run whose counterexample is the scenario:

1. `retention_startup`: a request is marked for deletion while a frame of it
   waits for replay; a crash before its rows go makes every start fail.
2. `turns_overlap`: `turnActive` is cleared before the terminal event is written
   (responses_websocket.go:457-461), so the next turn may start while the
   older one runs, against the comment at line 30; the older one then records its
   end through the journal request of the newer.
3. `restore_converges`: a first restore that crashes between its two installs
   leaves a marker from which no recovery finds a way (backup.go:1359).

## 14. Observations

What modelling showed and no run of its own claims, because the code promises
nothing else or because the model leaves the case out:

* Quota.  After a rolling limit is lowered, the cleanup of one batch is rolled
  back with the refusal it could not prevent (quota.go:297-309): with more expired
  rows than the batch and the new limit together, the key stays refused.
* Quota.  A success whose first transaction of settlement fails is still pending;
  if the process dies, the next start releases it like a request that was cut off
  (quota.go:549-561), and nothing is charged for it.
* Quota.  A release that fails is not tried again: its slot stays taken until the
  next start (server/quota.go:48-57).
* Quota.  Analytics joins costs on `quota_reservations.request_id`
  (analytics.go:455), which an admission draws for itself (quota.go:287), not on
  the journal's request, so no cost is found.
* Refresher.  A forced refresh may join an unforced one that finds nothing to do
  (refresh.go:307, 327); the retry then repeats the refused credential.
* Refresher.  A caller slow after a 401 clears the permanent failure of the
  credential that replaced its own (refresh.go:288-292).  `Clear` is the step.
* Retention.  A response resolves for seven days and its payloads live for one:
  in between its history is cut without an error (journal.go:384).
  `HistoryIsWhole` is stated for the time before.
* Retention.  A request that an administrator deletes while a continuation reads
  the history of its conversation (journal.go:404-522) is left out of it without an
  error: each request's events are a query of their own, outside any transaction.
* Retention.  The link of a request that is deleted by itself is never deleted
  (retention_request.go:165, retention.go:751, 819).
* Serving.  A success is charged although writing it to the client fails; a chat
  stream may be charged and still end in an error, and one that failed may be
  recorded as succeeded (chat.go:1214, journal_http.go:91).  `RecordIsHonest`
  excepts it.  When finishing fails after the completed event, the client is told
  both.  A failed result of a plain request is a charged 200 over server-sent
  events and an error over the WebSocket.  A continuation whose history cannot be
  rebuilt is answered with 502.
* WebSocket.  A message read as concurrent while its turn ends may be flagged
  after the handler asked (responses_websocket.go:137-155, 349-356): reader and
  handler wait for each other until the service stops.
* Catalog.  One failure to save makes the service unready until it is started
  again.
* Restore.  Two failed operations and a crash can lose both pairs; power loss
  between renames that were not synced is not modelled.
* Images.  Reconciliation makes a row ready without syncing the root, and a save
  whose clean-up failed leaves a row that conflicts until the next start.
* Administration.  The clock is read before the transaction, so a session may be
  prolonged although it has just idled out; a change of a token does not check
  its author's token again; when the last live token goes, the administration
  stays closed.  A session that a waiting request prolonged after the
  retention runner listed it is deleted nevertheless (retention.go:268-275).  An export is read by several queries, so it
  may be torn.
* Processes.  The conversion of the lock is not atomic; a refresh of the catalog
  that takes more than ten seconds keeps the database open after the lock is
  released; hijacked WebSockets are not waited for; `api-key create`, `login` and
  `backup` open the database without recovering a restore first.

## 15. Limits

Proofs hold for every value of the constants that the named assumptions admit;
they cover every safety property and action property a run checks but those of
`Restore`, and the refinements of `QuotaLedger` and `Exchange`.  `ReplayIsSafe` is proved under
the condition section 5 names.  The assumptions of a module that is only
instantiated are evaluated in `MCComponents`.  Model-checked only: `RestoresHold`, for the
reason in section 9, and liveness with whatever it needs of which actions are
enabled.  No module that is proved about has a recursive operator: what the
provers here cannot do is induction over data.

All bounds are CONSTANTS of the modules (`Max...`, batch sizes) with values in
the `.cfg` files and in `MCComponents`.  No run checks deadlock, since clients
may stop asking and the counters of faults and changes end; what must not stop
is stated as liveness.

Not modelled, with the reasons in `PROJECT.json`: OAuth, the request boundary,
pricing and the analytical queries, schema and migrations, configuration, TLS,
telemetry, encryption and the release scripts: pure conversions, reads or I/O
without a state that others change.  Of the components marked `partly`, what is
left out is the data: parsing, translation between the two protocols, wire
formats, limits on sizes, rendering.
