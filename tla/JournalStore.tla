---------------------------- MODULE JournalStore ----------------------------
(***************************************************************************)
(* The rows the journal and its readers share, and what materializing one  *)
(* journal record does to them.  A request leaves a journal row at once    *)
(* (row) and a trail of journal records (log); a record is materialized    *)
(* later, in a transaction that writes a receipt and changes the lifecycle *)
(* rows: the request (req), its conversation (conv), the link that lets a  *)
(* client continue from its answer, the account of its session (affinity)  *)
(* and the encrypted payloads.                                             *)
(*                                                                         *)
(* Operators take the database d and return what a transaction leaves;     *)
(* those that name a condition say when it does not fail.  A conversation  *)
(* is named after the request that opened it.  There is one API key: every *)
(* query here filters by one.                                              *)
(***************************************************************************)
EXTENDS Integers, FiniteSets

CONSTANTS
    Requests,
    Accounts,
    Sessions,      \* session hashes
    None,          \* no account, session, request or conversation
    Outcomes,      \* terminal states a request may get
    MetadataTTL,
    PayloadTTL

ASSUME StoreAssumption ==
    /\ IsFiniteSet(Requests)
    /\ None \notin Requests \cup Accounts \cup Sessions
    /\ Outcomes \subseteq {"succeeded", "failed", "canceled"}
    /\ MetadataTTL \in Nat \ {0} /\ PayloadTTL \in Nat \ {0}

Kinds == {"accepted", "running", "input", "bound", "frame", "answer", "usage", "terminal"}
\* Kinds whose materialization keeps the encrypted payload.
Payloads == {"input", "frame", "answer", "terminal"}

MaybeAccount == Accounts \cup {None}
MaybeSession == Sessions \cup {None}

Entry == [id : Nat, req : Requests, kind : Kinds, at : Nat,
          account : MaybeAccount, session : MaybeSession, status : Outcomes \cup {"none"}]

NoRow == [conv |-> None, account |-> None]
NoReq == [account |-> None, status |-> "none", terminal |-> 0, conflict |-> FALSE,
          expires |-> 0, deleting |-> FALSE]
NoConv == [open |-> FALSE, account |-> None, count |-> 0, expires |-> 0, deleting |-> FALSE]
NoLink == [conv |-> None, account |-> None, expires |-> 0]
NoAffinity == [account |-> None, expires |-> 0]

Row == [conv : Requests \cup {None}, account : MaybeAccount]
Req == [account : MaybeAccount, status : Outcomes \cup {"none", "running"}, terminal : Nat,
        conflict : BOOLEAN, expires : Nat, deleting : BOOLEAN]
Conv == [open : BOOLEAN, account : MaybeAccount, count : Nat, expires : Nat,
         deleting : BOOLEAN]
Link == [conv : Requests \cup {None}, account : MaybeAccount, expires : Nat]
Affinity == [account : MaybeAccount, expires : Nat]

Database ==
    [row : [Requests -> Row], req : [Requests -> Req], conv : [Requests -> Conv],
     link : [Requests -> Link], affinity : [Sessions -> Affinity],
     log : SUBSET Entry, receipts : SUBSET Nat, payloads : SUBSET Nat]

EmptyDatabase ==
    [row |-> [r \in Requests |-> NoRow], req |-> [r \in Requests |-> NoReq],
     conv |-> [r \in Requests |-> NoConv], link |-> [r \in Requests |-> NoLink],
     affinity |-> [s \in Sessions |-> NoAffinity],
     log |-> {}, receipts |-> {}, payloads |-> {}]

-----------------------------------------------------------------------------
(* What the rows say *)

Known(d, r) == d.row[r] # NoRow
Stored(d, r) == d.req[r] # NoReq
Terminal(d, r) == d.req[r].status \in Outcomes
Linked(d, r) == d.link[r] # NoLink
ConvOf(d, r) == d.row[r].conv
Members(d, c) == {r \in Requests : ConvOf(d, r) = c}
StoredIn(d, c) == {r \in Members(d, c) : Stored(d, r)}

RecordsOf(d, r) == {m \in d.log : m.req = r}
Pending(d) == {m \in d.log : m.id \notin d.receipts}
Oldest(d, n) == {m \in Pending(d) : Cardinality({k \in Pending(d) : k.id <= m.id}) <= n}

Fits(account, a) == account \in {None, a}
\* ensureLifecycleOwner: request and conversation exist, neither is being deleted.
Owned(d, r) ==
    LET c == d.conv[ConvOf(d, r)] IN
    /\ Stored(d, r) /\ ~d.req[r].deleting
    /\ c.open /\ ~c.deleting /\ Fits(c.account, d.req[r].account)
\* ResolvePreviousResponse, and the check BeginRequest repeats.
Resolves(d, r, time) ==
    /\ Linked(d, r) /\ d.link[r].expires > time
    /\ Known(d, r)
    /\ ~d.req[r].deleting /\ ~d.conv[d.link[r].conv].deleting
    /\ d.row[r].conv = d.link[r].conv
    /\ (IF Stored(d, r) THEN d.req[r].account ELSE d.row[r].account) = d.link[r].account
\* ResolveSessionAffinity
Affine(d, s, time) ==
    IF s # None /\ d.affinity[s].expires > time THEN d.affinity[s].account ELSE None

-----------------------------------------------------------------------------
(* Materialization, kind by kind *)

(* materializeAccepted: account a is the request's, if it has one already. *)
CanAccept(d, m, a) ==
    LET c == d.conv[ConvOf(d, m.req)]
        q == d.req[m.req]
    IN  /\ Known(d, m.req)
        /\ c.open => ~c.deleting /\ (a # None => Fits(c.account, a))
        /\ Stored(d, m.req) => ~q.deleting /\ (a # None => q.account = a)
\* The conversation of the request and its own row, new or known.
Joined(x, m, a) ==
    IF x.open THEN [x EXCEPT !.count = @ + 1, !.account = IF @ = None THEN a ELSE @]
    ELSE [NoConv EXCEPT !.open = TRUE, !.account = a, !.count = 1, !.expires = m.at + MetadataTTL]
Started(x, m, a) ==
    IF x # NoReq THEN x
    ELSE [NoReq EXCEPT !.account = a, !.status = "running", !.expires = m.at + MetadataTTL]
Accept(d, m, a) ==
    [d EXCEPT !.conv[ConvOf(d, m.req)] = Joined(@, m, a),
              !.req[m.req] = Started(@, m, a),
              !.receipts = @ \cup {m.id}]

(* propagateConversationAccount *)
CanPropagate(d, c, a) ==
    /\ d.conv[c].open /\ Fits(d.conv[c].account, a)
    /\ \A r \in Members(d, c) :
         Fits(d.row[r].account, a) /\ Fits(d.req[r].account, a)
    /\ \A r \in Requests : d.link[r].conv = c => Fits(d.link[r].account, a)
Bound(x, a) == IF x.account = None THEN [x EXCEPT !.account = a] ELSE x
Propagate(d, c, a) ==
    [d EXCEPT
        !.row = [r \in Requests |-> IF @[r].conv = c THEN Bound(@[r], a) ELSE @[r]],
        !.req = [r \in Requests |-> IF r \in StoredIn(d, c) THEN Bound(@[r], a) ELSE @[r]],
        !.link = [r \in Requests |-> IF @[r].conv = c THEN Bound(@[r], a) ELSE @[r]],
        !.conv[c] = Bound(@, a)]

(* ensureSessionAffinity, for a binding made at time t *)
\* seeded fault
CanAttachAny(d, s, a, t) == TRUE
CanAttach(d, s, a, t) ==
    s # None => d.affinity[s].account \in {None, a} \/ d.affinity[s].expires <= t
Attach(d, s, a, expires) ==
    IF s = None THEN d
    ELSE [d EXCEPT !.affinity[s] = [account |-> a, expires |-> expires]]

(* materializeAccountBound *)
CanBindAgain(d, m) ==
    /\ Stored(d, m.req) /\ Fits(d.req[m.req].account, m.account)
    /\ CanPropagate(d, ConvOf(d, m.req), m.account)
    /\ CanAttach(d, m.session, m.account, m.at)
BindAgain(d, m) ==
    LET c == ConvOf(d, m.req) IN
    Attach(Propagate(d, c, m.account), m.session, m.account, d.conv[c].expires)

(* ensureResponseLink: the answer a client may continue from. *)
CanLink(d, r, a) == Linked(d, r) => d.link[r].account = a
LinkAnswer(d, r, a, t) ==
    IF Linked(d, r) THEN d
    ELSE [d EXCEPT !.link[r] = [conv |-> ConvOf(d, r), account |-> a,
                                expires |-> t + MetadataTTL]]

(* ensureTerminal: the first one counts, another is a conflict. *)
Closed(x, m) == [x EXCEPT !.status = m.status, !.terminal = m.id, !.expires = m.at + MetadataTTL]
End(d, m) ==
    IF ~Terminal(d, m.req)
    THEN [d EXCEPT !.req[m.req] = Closed(@, m),
                   !.conv[ConvOf(d, m.req)].expires = m.at + MetadataTTL]
    ELSE [d EXCEPT !.req[m.req].conflict = @ \/ d.req[m.req].terminal # m.id]

-----------------------------------------------------------------------------
(* applyReceipt: m is still there, and what materializes it does not fail. *)

Applies(d, m) ==
    /\ m \in d.log /\ Known(d, m.req)
    /\ \/ m.kind = "accepted" /\ CanAccept(d, m, d.row[m.req].account)
       \/ m.kind = "bound" /\ CanBindAgain(d, m)
       \/ /\ m.kind \in {"running", "input", "frame", "answer"}
          /\ Owned(d, m.req) /\ d.req[m.req].account = d.row[m.req].account
          /\ m.kind = "answer" => CanLink(d, m.req, d.row[m.req].account)
       \/ m.kind \in {"usage", "terminal"} /\ Owned(d, m.req)

Effect(d, m) ==
    CASE m.kind = "accepted" -> Accept(d, m, d.row[m.req].account)
      [] m.kind = "bound" -> BindAgain(d, m)
      [] m.kind = "answer" -> LinkAnswer(d, m.req, d.row[m.req].account, m.at)
      [] m.kind = "terminal" -> End(d, m)
      [] OTHER -> d

Materialize(d, m) ==
    [Effect(d, m) EXCEPT
        !.receipts = @ \cup {m.id},
        !.payloads = IF m.kind \in Payloads THEN @ \cup {m.id} ELSE @]
=============================================================================
