----------------------------- MODULE Retention ------------------------------
(***************************************************************************)
(* The retention runner beside the journal of one process: it deletes      *)
(* expired payloads and session affinities, and whole conversations that   *)
(* have expired or that an administrator deletes; an administrator may     *)
(* also delete one request.  A deletion marks its target in one            *)
(* transaction, removes the files outside of any, and deletes the rows in  *)
(* further transactions; requests, the worker, a crash and the deadline of *)
(* a sweep come in between.  The sweep takes a marked conversation up      *)
(* again; a marked request waits for another call.                         *)
(*                                                                         *)
(* The sweep of expired requests (sweepMetadata) is not here: it skips any *)
(* request that has a journal record, and AcceptedStays says each has one. *)
(***************************************************************************)
EXTENDS Journal

CONSTANTS
    DeleteBatch,       \* RetentionConfig.BatchSize
    Sweeps,            \* bound: the sweeps that fall into the run
    Administrator,     \* TRUE when conversations and requests are deleted by hand
    SweepFails         \* TRUE when a deletion may stop after its mark

ASSUME RetentionAssumption ==
    /\ DeleteBatch \in Nat \ {0}
    /\ Sweeps \subseteq {"conversations", "payloads", "affinities"}
    /\ {Administrator, SweepFails} \subseteq BOOLEAN

VARIABLES
    job,           \* the deletion under way: deleteMu admits one
    listed         \* conversations a sweep has listed and not come to yet

retained == <<job, listed>>
retentionVars == <<vars, retained>>

NoJob == [pc |-> "none", target |-> None]
RetentionInit == Init /\ job = NoJob /\ listed = {}

Others == <<nextId, memory, process, now, sent>>
Ids(S) == {m.id : m \in S}
Smaller(n, m) == IF n < m THEN n ELSE m
Batches(S) == {T \in SUBSET S : Cardinality(T) = Smaller(DeleteBatch, Cardinality(S))}
\* The rows of requests S go, and what they own; links only with a conversation.
\* seeded fault
DropReplayed(d, S) ==
    LET gone == {m \in d.log : m.req \in S /\ m.id \in d.receipts} IN
    [d EXCEPT !.row = [r \in Requests |-> IF r \in S THEN NoRow ELSE @[r]],
              !.req = [r \in Requests |-> IF r \in S THEN NoReq ELSE @[r]],
              !.log = @ \ gone, !.receipts = @ \ Ids(gone), !.payloads = @ \ Ids(gone)]
Drop(d, S) ==
    LET gone == {m \in d.log : m.req \in S} IN
    [d EXCEPT !.row = [r \in Requests |-> IF r \in S THEN NoRow ELSE @[r]],
              !.req = [r \in Requests |-> IF r \in S THEN NoReq ELSE @[r]],
              !.log = @ \ gone, !.receipts = @ \ Ids(gone), !.payloads = @ \ Ids(gone)]
Unlink(d, S) == [d EXCEPT !.link = [r \in Requests |-> IF r \in S THEN NoLink ELSE @[r]]]

-----------------------------------------------------------------------------
(* Marks *)

(* deleteExpiredConversations lists a batch, then deletes one by one.      *)
\* seeded fault
ExpiredOnly == {c \in Requests : db.conv[c].open /\ db.conv[c].expires <= now}
Overdue == {c \in Requests : db.conv[c].open
                               /\ (db.conv[c].deleting \/ db.conv[c].expires <= now)}
ListOverdue ==
    /\ "conversations" \in Sweeps
    /\ mode = "up" /\ listed = {} /\ Overdue # {}
    /\ listed' \in Batches(Overdue)
    /\ UNCHANGED <<vars, job>>

\* pendingConversationJournalRequests: requests of it that have not ended.
Live(d, c) == {r \in Members(d, c) : ~Terminal(d, r)}
\* seeded fault
MayMarkInUse(d, c) == d.conv[c].open
MayMark(d, c) == d.conv[c].open /\ Live(d, c) = {}
MarkConversation(c) ==
    /\ mode = "up" /\ job = NoJob /\ MayMark(db, c)
    /\ \/ Administrator /\ UNCHANGED listed
       \/ c \in listed /\ listed' = listed \ {c}
    /\ db' = [db EXCEPT !.conv[c].deleting = TRUE]
    /\ job' = [pc |-> "conversation files", target |-> c]
    /\ UNCHANGED Others
(* A listed conversation that is gone, or in use, is passed over. *)
PassOver(c) ==
    /\ mode = "up" /\ job = NoJob /\ c \in listed /\ ~MayMark(db, c)
    /\ listed' = listed \ {c}
    /\ UNCHANGED <<vars, job>>

MarkRequest(r) ==
    /\ Administrator /\ mode = "up" /\ job = NoJob
    /\ Stored(db, r) /\ Terminal(db, r)
    /\ db' = [db EXCEPT !.req[r].deleting = TRUE]
    /\ job' = [pc |-> "request files", target |-> r]
    /\ UNCHANGED <<Others, listed>>

-----------------------------------------------------------------------------
(* The steps after a mark *)

RemoveFiles ==
    /\ job.pc \in {"conversation files", "request files"}
    /\ job' = [job EXCEPT !.pc = IF @ = "request files" THEN "request rows" ELSE "requests"]
    /\ UNCHANGED <<vars, listed>>

(* finalizeConversationDelete: its requests in batches, then the rest.     *)
FinalizeRequests ==
    LET stored == StoredIn(db, job.target) IN
    /\ job.pc = "requests"
    /\ \/ /\ stored = {}
          /\ job' = [job EXCEPT !.pc = "conversation"] /\ UNCHANGED db
       \/ /\ stored # {}
          /\ \E S \in Batches(stored) : db' = Unlink(Drop(db, S), S)
          /\ UNCHANGED job
    /\ UNCHANGED <<Others, listed>>

\* Sessions lose their account with its last conversation.
Forsaken(c) ==
    LET a == db.conv[c].account IN
    {s \in Sessions : a # None /\ db.affinity[s].account = a
                        /\ \A k \in Requests \ {c} : db.conv[k].account # a}
FinalizeConversation ==
    LET c == job.target
        orphans == Members(db, c)
        d == Unlink(Drop(db, orphans), orphans)
    IN  /\ job.pc = "conversation"
        /\ db' = [d EXCEPT !.conv[c] = NoConv,
                           !.affinity = [s \in Sessions |-> IF s \in Forsaken(c)
                                                            THEN NoAffinity ELSE @[s]]]
        /\ job' = NoJob
        /\ UNCHANGED <<Others, listed>>

FinalizeRequest ==
    LET r == job.target
        c == ConvOf(db, r)
    IN  /\ job.pc = "request rows"
        /\ db' = [Drop(db, {r}) EXCEPT !.conv[c].count = IF @ > 0 THEN @ - 1 ELSE 0]
        /\ job' = NoJob
        /\ UNCHANGED <<Others, listed>>

(* A file, a transaction or the deadline of the sweep fails: the deletion  *)
(* stops, and the sweep with it.                                           *)
GiveUp ==
    /\ SweepFails /\ job # NoJob
    /\ job' = NoJob /\ listed' = {}
    /\ UNCHANGED vars

-----------------------------------------------------------------------------
(* The other sweeps *)

(* deleteExpiredPayload: the payload of a request that has ended, with its *)
(* receipt and its journal record.                                         *)
\* seeded fault
ExpirePayloadOfAny(m) ==
    /\ "payloads" \in Sweeps /\ mode = "up" /\ m.id \in db.payloads /\ m.at + PayloadTTL <= now
    /\ db' = [db EXCEPT !.log = @ \ {m}, !.receipts = @ \ {m.id}, !.payloads = @ \ {m.id}]
    /\ UNCHANGED <<Others, retained>>
ExpirePayload(m) ==
    /\ "payloads" \in Sweeps /\ mode = "up" /\ m.id \in db.payloads
    /\ m.at + PayloadTTL <= now /\ Terminal(db, m.req)
    /\ db' = [db EXCEPT !.log = @ \ {m}, !.receipts = @ \ {m.id}, !.payloads = @ \ {m.id}]
    /\ UNCHANGED <<Others, retained>>
ExpireAffinity(s) ==
    /\ "affinities" \in Sweeps
    /\ mode = "up" /\ db.affinity[s] # NoAffinity /\ db.affinity[s].expires <= now
    /\ db' = [db EXCEPT !.affinity[s] = NoAffinity]
    /\ UNCHANGED <<Others, retained>>

Delete ==
    \/ \E c \in Requests : PassOver(c) \/ (c \in listed /\ MarkConversation(c))
    \/ RemoveFiles \/ FinalizeRequests \/ FinalizeConversation \/ FinalizeRequest
Retain ==
    \/ ListOverdue
    \/ \E c \in Requests : MarkConversation(c) \/ PassOver(c)
    \/ \E r \in Requests : MarkRequest(r)
    \/ RemoveFiles \/ FinalizeRequests \/ FinalizeConversation \/ FinalizeRequest
    \/ GiveUp
    \/ \E m \in db.log : ExpirePayload(m)
    \/ \E s \in Sessions : ExpireAffinity(s)

(* The journal goes on beside it.  The runner ends with the process, and   *)
(* it is closed before the journal is.                                     *)
JournalStep ==
    /\ Next
    /\ IF mode' = "down" THEN job' = NoJob /\ listed' = {} ELSE UNCHANGED retained
    /\ mode' = "closing" => job = NoJob
RetentionNext == JournalStep \/ Retain
RetentionSpec == RetentionInit /\ [][RetentionNext]_retentionVars

(* The sweep comes again at every interval and finishes what it began.     *)
(* Handlers go on: a begin and a client write end, a request that runs is  *)
(* finished.  The worker and startup run until they return.                *)
RetentionFairSpec ==
    /\ RetentionSpec
    /\ WF_retentionVars(ListOverdue) /\ WF_retentionVars(Delete)
    /\ \A r \in Requests :
         /\ WF_retentionVars(JournalStep /\ Advance(r))
         /\ WF_retentionVars(JournalStep /\ Finish(r))
    /\ WF_retentionVars(JournalStep /\ Wake) /\ WF_retentionVars(JournalStep /\ Replay)
    /\ WF_retentionVars(JournalStep /\ Drain) /\ WF_retentionVars(JournalStep /\ Start)

-----------------------------------------------------------------------------
(* Properties *)

Jobs == {"conversation files", "requests", "conversation", "request files", "request rows"}
RetentionTypeOK ==
    /\ TypeOK
    /\ job \in [pc : Jobs, target : Requests] \cup {NoJob}
    /\ listed \subseteq Requests

(* Every request of a conversation that is being deleted has ended, and no *)
(* new one gets in (pendingConversationJournalRequests, BeginRequest).     *)
DeletingHasEnded ==
    \A c \in Requests : db.conv[c].deleting =>
      \A r \in Members(db, c) : Stored(db, r) /\ Terminal(db, r)

(* The rows, the counters and the links of conversations agree with each   *)
(* other, and a continuation sees all of its history that is still there.  *)
ConversationsAgree ==
    RetentionTypeOK /\ OneAccountPerConversation /\ CountsMatch /\ LinksResolve /\ HistoryIsWhole

(* Replay meets only records it can apply, a clean close leaves none, and  *)
(* a deletion waits for every request to have ended.                       *)
ReplayIsSafe == NothingBlocksReplay /\ CleanCloseDrains /\ DeletingHasEnded

(* Deletion leaves nothing of a request but its link: no record, receipt   *)
(* or payload, not even by a worker that had loaded the record before.     *)
NothingLeftBehind ==
    /\ \A m \in db.log : Known(db, m.req)
    /\ \A r \in Requests : Stored(db, r) => Known(db, r)
    /\ db.payloads \subseteq db.receipts /\ db.receipts \subseteq Ids(db.log)

(* The accepted record of a request stays as long as its rows: expiry of   *)
(* payloads never reaches it, and sweepMetadata passes over every request. *)
AcceptedStays ==
    \A r \in Requests : Stored(db, r) => \E m \in RecordsOf(db, r) : m.kind = "accepted"

(* Replay stops only at a frame that came after the terminal record of a   *)
(* request that is being deleted, or at a binding whose session another    *)
(* request has taken since.  Everything else that is pending applies, in   *)
(* the order of its numbers (applyReceipt, ensureSessionAffinity).         *)
Late(m) ==
    /\ db.req[m.req].deleting \/ db.conv[ConvOf(db, m.req)].deleting
    /\ m.kind = "frame" /\ m.id > db.req[m.req].terminal
TakenOver(m) ==
    m.kind = "bound" /\ m.session # None /\ db.affinity[m.session].account \notin {None, m.account}
OnlyLateRecordsBlockReplay == \A m \in Blocked : Known(db, m.req) /\ (Late(m) \/ TakenOver(m))

(* A deletion takes a request as a whole, and what it leaves of others     *)
(* stops no replay.                                                        *)
DeletionIsClean == NothingLeftBehind /\ OnlyLateRecordsBlockReplay /\ AcceptedStays

(* What the handlers know, what the clients got and the one terminal       *)
(* record of a request agree with the journal, whatever failed.            *)
RecordsAgree == OneTerminalEach /\ MemoryAgreesWithRows /\ SentIsKept

(* Nothing of a request that has not ended is deleted.                     *)
RunningKeepRecords ==
    [][\A m \in db.log : ~Terminal(db, m.req) => m \in db'.log]_retentionVars

(* A conversation under deletion goes, whatever crashes came in between.   *)
DeletionsFinish ==
    \A c \in Requests : db.conv[c].deleting ~> ~db.conv[c].open

(* Startup replays what a crash left: it never meets a record it cannot    *)
(* apply.                                                                  *)
StartupReplays == mode = "booting" => Blocked = {}
=============================================================================
