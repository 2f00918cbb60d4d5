-------------------------- MODULE RetentionProofs ---------------------------
(***************************************************************************)
(* Theorems about the journal: first what every write to the database      *)
(* keeps, then what the handlers, the evidence consumers, replay and       *)
(* retention keep between them.                                            *)
(***************************************************************************)
EXTENDS Retention, FiniteSetTheorems, WellFoundedInduction, TLAPS

-----------------------------------------------------------------------------
(* The invariant of the database d, where n is the next number and t the   *)
(* time.                                                                   *)

TypesOK(d) == d \in Database /\ IsFiniteSet(d.log)

Numbered(d, n, t) ==
    /\ \A m \in d.log : m.id < n /\ m.at <= t
    /\ \A m, k \in d.log : m.id = k.id => m = k

Carried(d) ==
    /\ \A m \in d.log : (m.kind = "bound" /\ m.account \in Accounts)
                          \/ (m.kind # "bound" /\ m.account = None)
    /\ \A m \in d.log : m.kind = "terminal" => m.status \in Outcomes

Whole(d) ==
    /\ \A m \in d.log : Known(d, m.req)
    /\ d.payloads \subseteq d.receipts /\ d.receipts \subseteq Ids(d.log)
    /\ \A m \in d.log : m.id \in d.payloads => m.kind \in Payloads

AcceptedFirst(d) ==
    /\ \A r \in Requests : Known(d, r) =>
         \E m \in d.log : m.req = r /\ m.kind = "accepted"
    /\ \A m, k \in d.log : m.req = k.req /\ m.kind = "accepted" =>
         m.id <= k.id /\ (k.kind = "accepted" => k = m)

Materialized(d) ==
    /\ \A r \in Requests : Stored(d, r) => Known(d, r) /\ d.req[r].status # "none"
    /\ \A m \in d.log : m.kind = "accepted" => (m.id \in d.receipts <=> Stored(d, m.req))
    /\ \A m \in d.log : m.kind = "bound" => Stored(d, m.req)
    /\ \A m \in d.log : m.kind = "answer" => Linked(d, m.req)

Opened(d) ==
    /\ \A r \in Requests : Known(d, r) => ConvOf(d, r) \in Requests
    /\ \A r \in Requests : Stored(d, r) => d.conv[ConvOf(d, r)].open
    /\ \A c \in Requests : ~d.conv[c].open => d.conv[c] = NoConv
    /\ \A r \in Requests : Linked(d, r) =>
         /\ d.link[r].conv \in Requests /\ d.link[r].account \in Accounts
         /\ Known(d, r) => d.link[r].conv = ConvOf(d, r)
    /\ \A s \in Sessions : d.affinity[s] # NoAffinity => d.affinity[s].account \in Accounts

Ended(d, n) ==
    /\ \A r \in Requests : ~d.req[r].conflict
    /\ \A m, k \in d.log : m.req = k.req /\ m.kind = "terminal" =>
         /\ k.kind = "terminal" => k = m
         /\ k.id > m.id => k.kind = "frame"
    /\ \A m \in d.log : m.kind = "terminal" /\ Terminal(d, m.req) =>
         d.req[m.req].terminal = m.id
    /\ \A r \in Requests : Terminal(d, r) => d.req[r].terminal < n
    /\ \A m \in Pending(d) : Terminal(d, m.req) =>
         m.kind = "frame" /\ m.id > d.req[m.req].terminal

Deleting(d) ==
    /\ \A r \in Requests : d.req[r].deleting => Terminal(d, r)
    /\ \A r \in Requests : Known(d, r) /\ d.conv[ConvOf(d, r)].deleting => Terminal(d, r)

Counted(d) ==
    \A c \in Requests :
      d.conv[c].open /\ ~d.conv[c].deleting => d.conv[c].count = Cardinality(StoredIn(d, c))

(* x is the account something of conversation c names. *)
Says(d, c, x) ==
    /\ x # None
    /\ \/ \E r \in Requests : ConvOf(d, r) = c /\ x \in {d.row[r].account, d.req[r].account}
       \/ \E r \in Requests : d.link[r].conv = c /\ d.link[r].account = x
       \/ \E m \in d.log : ConvOf(d, m.req) = c /\ m.account = x
       \/ d.conv[c].account = x
Named(d) ==
    /\ \A r \in Requests : Stored(d, r) => d.req[r].account = d.row[r].account
    /\ \A r \in Requests : Known(d, r) /\ d.conv[ConvOf(d, r)].open =>
         d.conv[ConvOf(d, r)].account = d.row[r].account
    /\ \A r \in Requests : Known(d, r) =>
         \A x \in Accounts : Says(d, ConvOf(d, r), x) => d.row[r].account = x
    /\ \A c \in Requests : \A x, y \in Accounts : Says(d, c, x) /\ Says(d, c, y) => x = y

StoreInv(d, n, t) ==
    /\ TypesOK(d) /\ Numbered(d, n, t) /\ Carried(d) /\ Whole(d) /\ AcceptedFirst(d)
    /\ Materialized(d) /\ Opened(d) /\ Ended(d, n) /\ Deleting(d) /\ Counted(d) /\ Named(d)

(* What a transaction that turns d into e leaves of the rest.  Requests go  *)
(* but do not come back, what has begun to end does not run again, and     *)
(* records go only once their request has ended.                           *)

Untouched(d, r) ==
    /\ d.row[r] = NoRow /\ d.req[r] = NoReq /\ d.link[r] = NoLink /\ d.conv[r] = NoConv
    /\ \A q \in Requests : d.row[q].conv # r /\ d.link[q].conv # r
Over(d, r) == Terminal(d, r) \/ \E m \in d.log : m.req = r /\ m.kind = "terminal"
Follows(d, e) ==
    /\ \A q \in Requests : Known(e, q) => Known(d, q) /\ ConvOf(e, q) = ConvOf(d, q)
    /\ \A q \in Requests : Untouched(d, q) => Untouched(e, q)
    /\ \A q \in Requests : Known(e, q) /\ Terminal(d, q) => Terminal(e, q)
    /\ \A q \in Requests : Known(e, q) /\ Over(d, q) => Over(e, q)
    /\ \A q \in Requests : Over(e, q) => Over(d, q)
    /\ \A q \in Requests : Known(e, q) /\ Linked(e, q) => Linked(d, q)
    /\ \A m \in d.log : m \in e.log \/ Terminal(d, m.req)
    /\ e.log \subseteq d.log /\ Pending(e) \subseteq Pending(d)
\* Nor does it bind a request to an account, ...
Agreeing(d, e) ==
    /\ \A q \in Requests : Known(e, q) => e.row[q].account = d.row[q].account
    /\ \A c \in Requests : \A x \in Accounts : Says(e, c, x) => Says(d, c, x)
\* ... nor take a mark away.
Lasting(d, e) ==
    /\ \A c \in Requests : d.conv[c].deleting => e.conv[c].deleting
    /\ \A r \in Requests : d.req[r].deleting => e.req[r].deleting
    /\ \A r \in Requests : Terminal(d, r) => Terminal(e, r)

-----------------------------------------------------------------------------
(* Types *)

\* What the constants say of the values.
LEMMA Kind == Outcomes \subseteq {"succeeded", "failed", "canceled"} /\ None \notin Accounts
              /\ None \notin Requests /\ None \notin Sessions
  BY StoreAssumption

\* The fields of a database have their types, ...
LEMMA RowTypes ==
  ASSUME NEW d, d \in Database
  PROVE  /\ \A r \in Requests : d.row[r] \in Row /\ d.req[r] \in Req /\ d.conv[r] \in Conv
                                 /\ d.link[r] \in Link
         /\ \A s \in Sessions : d.affinity[s] \in Affinity
         /\ d.log \subseteq Entry /\ d.receipts \subseteq Nat /\ d.payloads \subseteq Nat
  BY DEF Database

\* ... and so have theirs.
LEMMA RowValues ==
  ASSUME NEW d, d \in Database, NEW r \in Requests
  PROVE  /\ d.row[r] = [conv |-> d.row[r].conv, account |-> d.row[r].account]
         /\ d.row[r].conv \in Requests \cup {None} /\ d.row[r].account \in MaybeAccount
         /\ d.req[r].account \in MaybeAccount /\ d.req[r].status \in Outcomes \cup {"none", "running"}
         /\ d.req[r].terminal \in Nat /\ d.req[r].conflict \in BOOLEAN
         /\ d.req[r].deleting \in BOOLEAN
         /\ d.conv[r].open \in BOOLEAN /\ d.conv[r].deleting \in BOOLEAN
         /\ d.conv[r].account \in MaybeAccount /\ d.conv[r].count \in Nat
         /\ d.link[r].conv \in Requests \cup {None} /\ d.link[r].account \in MaybeAccount
         /\ d.link[r].expires \in Nat
  BY RowTypes DEF Row, Req, Conv, Link

\* A conversation a request joins is one, with its count, account and mark.
LEMMA JoinedType ==
  ASSUME NEW x \in Conv, NEW m \in Entry, NEW a \in MaybeAccount
  PROVE  /\ Joined(x, m, a) \in Conv /\ Joined(x, m, a).open
         /\ Joined(x, m, a).deleting => x.open /\ x.deleting
         /\ Joined(x, m, a).account = IF x.open /\ x.account # None THEN x.account ELSE a
         /\ Joined(x, m, a).count = IF x.open THEN x.count + 1 ELSE 1
<1>1. m.at + MetadataTTL \in Nat
  BY StoreAssumption DEF Entry
<1>2. CASE x.open
  <2> DEFINE b == IF x.account = None THEN a ELSE x.account
             y == [x EXCEPT !.count = @ + 1]
  <2>1. Joined(x, m, a) = [y EXCEPT !.account = b]
    BY <1>2 DEF Joined, Conv
  <2>2. y \in Conv /\ y.open /\ y.deleting = x.deleting /\ y.account = x.account /\ y.count = x.count + 1
    BY <1>2 DEF Conv
  <2>3. b \in MaybeAccount
    BY DEF Conv
  <2> HIDE DEF y, b
  <2>4. /\ [y EXCEPT !.account = b] \in Conv /\ [y EXCEPT !.account = b].open
        /\ [y EXCEPT !.account = b].deleting = y.deleting
        /\ [y EXCEPT !.account = b].account = b /\ [y EXCEPT !.account = b].count = y.count
    BY <2>2, <2>3 DEF Conv
  <2> QED
    BY <1>2, <2>1, <2>2, <2>4 DEF b, Conv
<1>3. CASE ~x.open
  BY <1>1, <1>3 DEF Joined, Conv, NoConv
<1> QED
  BY <1>2, <1>3 DEF Conv

\* The row of a request that is accepted is one.
LEMMA StartedType ==
  ASSUME NEW x \in Req, NEW m \in Entry, NEW a \in MaybeAccount
  PROVE  /\ Started(x, m, a) \in Req
         /\ x = NoReq =>
              /\ Started(x, m, a).account = a /\ Started(x, m, a).status = "running"
              /\ Started(x, m, a).terminal = 0 /\ ~Started(x, m, a).conflict
              /\ ~Started(x, m, a).deleting
         /\ x # NoReq => Started(x, m, a) = x
<1>1. m.at + MetadataTTL \in Nat
  BY StoreAssumption DEF Entry
<1>2. Started(x, m, a) \in Req
  BY <1>1 DEF Started, NoReq, Req
<1>3. ASSUME x = NoReq
      PROVE  /\ Started(x, m, a).account = a /\ Started(x, m, a).status = "running"
             /\ Started(x, m, a).terminal = 0
             /\ Started(x, m, a).conflict = FALSE /\ Started(x, m, a).deleting = FALSE
  BY <1>3 DEF Started, NoReq
<1> QED
  BY <1>2, <1>3 DEF Started

\* What accepting changes, field by field.
LEMMA AcceptFields ==
  ASSUME NEW d, d \in Database, NEW m \in Entry, NEW a \in MaybeAccount,
         ConvOf(d, m.req) \in Requests
  PROVE  /\ Accept(d, m, a) \in Database
         /\ Accept(d, m, a).row = d.row /\ Accept(d, m, a).link = d.link
         /\ Accept(d, m, a).affinity = d.affinity /\ Accept(d, m, a).log = d.log
         /\ Accept(d, m, a).payloads = d.payloads
         /\ Accept(d, m, a).receipts = d.receipts \cup {m.id}
         /\ \A r \in Requests : r # m.req => Accept(d, m, a).req[r] = d.req[r]
         /\ Accept(d, m, a).req[m.req] = Started(d.req[m.req], m, a)
         /\ \A k \in Requests : k # ConvOf(d, m.req) => Accept(d, m, a).conv[k] = d.conv[k]
         /\ Accept(d, m, a).conv[ConvOf(d, m.req)] = Joined(d.conv[ConvOf(d, m.req)], m, a)
<1> DEFINE c == ConvOf(d, m.req)
           q == Started(d.req[m.req], m, a)
           v == Joined(d.conv[c], m, a)
<1>1. m.req \in Requests /\ m.id \in Nat /\ c \in Requests
  BY DEF Entry
<1>2. q \in Req
  BY <1>1, RowTypes, StartedType
<1>3. v \in Conv
  BY <1>1, RowTypes, JoinedType
<1>4. /\ Accept(d, m, a).row = d.row /\ Accept(d, m, a).link = d.link
      /\ Accept(d, m, a).affinity = d.affinity /\ Accept(d, m, a).log = d.log
      /\ Accept(d, m, a).payloads = d.payloads
      /\ Accept(d, m, a).receipts = d.receipts \cup {m.id}
      /\ Accept(d, m, a).conv = [d.conv EXCEPT ![c] = v]
      /\ Accept(d, m, a).req = [d.req EXCEPT ![m.req] = q]
  BY DEF Accept, Database
<1>5. Accept(d, m, a) = [d EXCEPT !.conv[c] = v, !.req[m.req] = q, !.receipts = @ \cup {m.id}]
  BY DEF Accept, Database
<1> HIDE DEF q, v, c
<1>6. [d EXCEPT !.conv[c] = v, !.req[m.req] = q, !.receipts = @ \cup {m.id}] \in Database
  BY <1>1, <1>2, <1>3 DEF Database
<1> QED
  BY <1>1, <1>4, <1>5, <1>6 DEF c, q, v, Database

-----------------------------------------------------------------------------
(* What each operation keeps *)

\* A record of the log is typed, and its request is known.
LEMMA RecordFacts ==
  ASSUME NEW d, NEW n, NEW t, StoreInv(d, n, t), NEW m \in d.log
  PROVE  /\ d \in Database /\ m \in Entry /\ m.req \in Requests /\ m.id \in Nat /\ m.at \in Nat
         /\ Known(d, m.req) /\ ConvOf(d, m.req) \in Requests
         /\ d.row[m.req].account \in MaybeAccount
<1>1. d \in Database /\ m \in Entry
  BY RowTypes DEF StoreInv, TypesOK
<1>2. m.req \in Requests /\ m.id \in Nat /\ m.at \in Nat
  BY <1>1 DEF Entry
<1>3. Known(d, m.req) /\ ConvOf(d, m.req) \in Requests
  BY <1>2 DEF StoreInv, Whole, Opened
<1> QED
  BY <1>1, <1>2, <1>3, RowValues

\* Stored requests of a conversation are finitely many.
LEMMA StoredFinite ==
  ASSUME NEW d, NEW c
  PROVE  IsFiniteSet(StoredIn(d, c))
  BY StoreAssumption, FS_Subset DEF StoredIn, Members

\* Accepting a request keeps the invariant and binds nothing.
LEMMA AcceptKeeps ==
  ASSUME NEW d, NEW n, NEW t, StoreInv(d, n, t), NEW m \in d.log,
         m.kind = "accepted", ~Stored(d, m.req),
         CanAccept(d, m, d.row[m.req].account)
  PROVE  LET e == Accept(d, m, d.row[m.req].account) IN
         StoreInv(e, n, t) /\ Follows(d, e) /\ Agreeing(d, e) /\ Lasting(d, e)
<1> DEFINE r == m.req
           c == ConvOf(d, r)
           a == d.row[r].account
           e == Accept(d, m, a)
<1>1. /\ d \in Database /\ m \in Entry /\ r \in Requests /\ Known(d, r) /\ c \in Requests
      /\ a \in MaybeAccount /\ d.req[r] = NoReq
  BY RecordFacts DEF Stored
<1>2. /\ e \in Database
      /\ e.row = d.row /\ e.link = d.link /\ e.affinity = d.affinity /\ e.log = d.log
      /\ e.payloads = d.payloads /\ e.receipts = d.receipts \cup {m.id}
      /\ \A q \in Requests : q # r => e.req[q] = d.req[q]
      /\ e.req[r] = Started(d.req[r], m, a)
      /\ \A k \in Requests : k # c => e.conv[k] = d.conv[k]
      /\ e.conv[c] = Joined(d.conv[c], m, a)
  BY <1>1, AcceptFields
<1> HIDE DEF e
<1>3. /\ e.req[r].account = a /\ e.req[r].status = "running"
      /\ e.req[r].terminal = 0 /\ ~e.req[r].conflict /\ ~e.req[r].deleting
  <2>1. d.req[r] \in Req
    BY <1>1, RowTypes
  <2> QED
    BY <1>1, <1>2, <2>1, StartedType
<1>4. d.conv[c].open => ~d.conv[c].deleting /\ d.conv[c].account = a
  BY <1>1 DEF CanAccept, StoreInv, Named
<1>5. /\ e.conv[c].open /\ ~e.conv[c].deleting /\ e.conv[c].account = a
      /\ e.conv[c].count = IF d.conv[c].open THEN d.conv[c].count + 1 ELSE 1
  <2>1. d.conv[c] \in Conv
    BY <1>1, RowTypes
  <2> QED
    BY <1>1, <1>2, <1>4, <2>1, JoinedType
<1>6. /\ \A q \in Requests : Known(e, q) <=> Known(d, q)
      /\ \A q \in Requests : ConvOf(e, q) = ConvOf(d, q)
      /\ \A q \in Requests : Linked(e, q) <=> Linked(d, q)
      /\ \A q \in Requests : Stored(e, q) <=> Stored(d, q) \/ q = r
      /\ \A q \in Requests : Terminal(e, q) <=> Terminal(d, q)
  BY <1>1, <1>2, <1>3, Kind DEF Known, ConvOf, Linked, Stored, Terminal, NoReq
<1>7. Pending(e) \subseteq Pending(d)
  BY <1>2 DEF Pending
<1>8. ~Stored(d, r) /\ \A q \in Requests : ConvOf(d, q) = d.row[q].conv
  BY DEF ConvOf
<1> HIDE DEF a, c
<1>9. TypesOK(e) /\ Numbered(e, n, t) /\ Carried(e)
  BY <1>2 DEF StoreInv, TypesOK, Numbered, Carried
<1>10. Whole(e) /\ AcceptedFirst(e)
  BY <1>1, <1>2, <1>6, RowTypes DEF StoreInv, Whole, AcceptedFirst, Ids, Entry
<1>11. Materialized(e)
  BY <1>1, <1>2, <1>3, <1>6, RowTypes DEF StoreInv, Materialized, AcceptedFirst, Numbered, Entry
<1>12. Opened(e)
  <2>1. \A q \in Requests : Stored(e, q) => e.conv[ConvOf(e, q)].open
    BY <1>1, <1>2, <1>5, <1>6 DEF StoreInv, Opened, Materialized, c
  <2>2. \A k \in Requests : ~e.conv[k].open => e.conv[k] = NoConv
    BY <1>1, <1>2, <1>5 DEF StoreInv, Opened
  <2> QED
    BY <1>2, <1>6, <2>1, <2>2 DEF StoreInv, Opened
<1>13. Ended(e, n)
  <2>1. \A q \in Requests : ~e.req[q].conflict
    BY <1>2, <1>3 DEF StoreInv, Ended
  <2>2. \A q \in Requests : Terminal(e, q) => e.req[q].terminal = d.req[q].terminal
    BY <1>1, <1>2, <1>3, Kind DEF Terminal
  <2> QED
    BY <1>2, <1>6, <1>7, <2>1, <2>2, RowTypes DEF StoreInv, Ended, Entry, Pending
<1>14. Deleting(e)
  <2>1. \A q \in Requests : e.req[q].deleting => Terminal(e, q)
    BY <1>1, <1>2, <1>3, <1>6 DEF StoreInv, Deleting
  <2>2. \A q \in Requests : Known(e, q) /\ e.conv[ConvOf(e, q)].deleting => Terminal(e, q)
    BY <1>1, <1>2, <1>5, <1>6 DEF StoreInv, Deleting, Opened
  <2> QED
    BY <2>1, <2>2 DEF Deleting
<1>15. Counted(e)
  <2>1. \A k \in Requests : k # c => StoredIn(e, k) = StoredIn(d, k)
    BY <1>6 DEF StoredIn, Members, c
  <2>2. StoredIn(e, c) = StoredIn(d, c) \cup {r} /\ r \notin StoredIn(d, c)
    BY <1>1, <1>6, <1>8 DEF StoredIn, Members, c
  <2>3. ~d.conv[c].open => StoredIn(d, c) = {}
    BY <1>1 DEF StoreInv, Opened, StoredIn, Members
  <2>4. Cardinality(StoredIn(e, c)) = Cardinality(StoredIn(d, c)) + 1
    BY <2>2, StoredFinite, FS_AddElement
  <2>5. e.conv[c].count = Cardinality(StoredIn(e, c))
    <3>1. CASE d.conv[c].open
      <4>1. d.conv[c].count = Cardinality(StoredIn(d, c))
        BY <1>1, <1>4, <3>1 DEF StoreInv, Counted
      <4> QED
        BY <1>5, <2>4, <3>1, <4>1
    <3>2. CASE ~d.conv[c].open
      <4>1. Cardinality(StoredIn(d, c)) = 0
        BY <2>3, <3>2, FS_EmptySet
      <4> QED
        BY <1>5, <2>4, <3>2, <4>1
    <3> QED
      BY <3>1, <3>2
  <2> QED
    BY <1>1, <1>2, <2>1, <2>5 DEF StoreInv, Counted
<1>16. ASSUME NEW k \in Requests, NEW x \in Accounts, Says(e, k, x)
      PROVE  Says(d, k, x)
  <2>1. ASSUME NEW q \in Requests, ConvOf(e, q) = k, x \in {e.row[q].account, e.req[q].account}
        PROVE  Says(d, k, x)
    BY <1>1, <1>2, <1>3, <1>6, <1>16, <2>1 DEF Says, a
  <2>2. ASSUME NEW p \in e.log, ConvOf(e, p.req) = k, p.account = x
        PROVE  Says(d, k, x)
    BY <1>2, <1>6, <1>16, <2>2, RecordFacts DEF Says
  <2>3. ASSUME e.conv[k].account = x
        PROVE  Says(d, k, x)
    <3>1. CASE k = c
      BY <1>1, <1>5, <1>8, <1>16, <2>3, <3>1 DEF Says, a, c
    <3>2. CASE k # c
      BY <1>2, <1>16, <2>3, <3>2 DEF Says
    <3> QED
      BY <3>1, <3>2
  <2>4. ASSUME NEW q \in Requests, e.link[q].conv = k, e.link[q].account = x
        PROVE  Says(d, k, x)
    BY <1>2, <1>16, <2>4 DEF Says
  <2> QED
    BY <1>16, <2>1, <2>2, <2>3, <2>4 DEF Says
<1>17. Named(e)
  <2>2. \A q \in Requests : Stored(e, q) => e.req[q].account = e.row[q].account
    BY <1>1, <1>2, <1>3, <1>6 DEF StoreInv, Named, a
  <2>3. ASSUME NEW q \in Requests, Known(e, q), e.conv[ConvOf(e, q)].open
        PROVE  e.conv[ConvOf(e, q)].account = e.row[q].account
    <3>1. Known(d, q) /\ ConvOf(e, q) = ConvOf(d, q) /\ ConvOf(d, q) \in Requests
      BY <1>6, <2>3 DEF StoreInv, Opened
    <3>2. CASE ConvOf(d, q) = c
      <4>1. d.row[q].account \in MaybeAccount /\ d.row[r].account = a
        BY <1>1, RowValues DEF a
      <4>2. \A p \in Requests, x \in Accounts :
              ConvOf(d, p) = c /\ d.row[p].account = x => Says(d, c, x)
        BY Kind DEF Says
      <4>3. \A x \in Accounts : Says(d, c, x) => d.row[q].account = x /\ d.row[r].account = x
        BY <1>1, <1>8, <3>1, <3>2 DEF StoreInv, Named, c
      <4>4. ConvOf(d, r) = c
        BY DEF c
      <4>5. d.row[q].account = a
        <5>1. ASSUME d.row[q].account \in Accounts
              PROVE  d.row[q].account = a
          BY <3>2, <4>1, <4>2, <4>3, <5>1
        <5>2. ASSUME a \in Accounts
              PROVE  d.row[q].account = a
          BY <1>1, <4>1, <4>2, <4>3, <4>4, <5>2
        <5> QED
          BY <4>1, <5>1, <5>2, <1>1 DEF MaybeAccount
      <4> QED
        BY <1>2, <1>5, <3>1, <3>2, <4>5
    <3>3. CASE ConvOf(d, q) # c
      BY <1>2, <2>3, <3>1, <3>3 DEF StoreInv, Named
    <3> QED
      BY <3>2, <3>3
  <2>4. \A q \in Requests : Known(e, q) =>
          \A x \in Accounts : Says(e, ConvOf(e, q), x) => e.row[q].account = x
    BY <1>1, <1>2, <1>6, <1>16 DEF StoreInv, Named, Opened
  <2> QED
    BY <1>16, <2>2, <2>3, <2>4 DEF StoreInv, Named
<1>18. Follows(d, e) /\ Agreeing(d, e) /\ Lasting(d, e)
  <2>1. \A q \in Requests : Untouched(d, q) => Untouched(e, q)
    BY <1>1, <1>2 DEF Untouched, Known, ConvOf, c
  <2>2. \A q \in Requests : Over(e, q) <=> Over(d, q)
    BY <1>2, <1>6 DEF Over
  <2>3. \A k \in Requests : d.conv[k].deleting => e.conv[k].deleting
    BY <1>1, <1>2, <1>4 DEF StoreInv, Opened, NoConv
  <2>4. \A q \in Requests : d.req[q].deleting => e.req[q].deleting
    BY <1>1, <1>2, <1>3 DEF NoReq
  <2>5. Follows(d, e)
    BY <1>2, <1>6, <1>7, <2>1, <2>2 DEF Follows
  <2>6. Agreeing(d, e)
    BY <1>2, <1>16 DEF Agreeing
  <2>7. Lasting(d, e)
    BY <1>6, <2>3, <2>4 DEF Lasting
  <2> QED
    BY <2>5, <2>6, <2>7
<1> QED
  BY <1>9, <1>10, <1>11, <1>12, <1>13, <1>14, <1>15, <1>17, <1>18 DEF StoreInv, a, e, c

\* A row that is ended changes in status, terminal and expiry only.
LEMMA ClosedType ==
  ASSUME NEW x \in Req, NEW m \in Entry, m.status \in Outcomes
  PROVE  /\ Closed(x, m) \in Req /\ Closed(x, m).account = x.account
         /\ Closed(x, m).status = m.status /\ Closed(x, m).terminal = m.id
         /\ Closed(x, m).conflict = x.conflict /\ Closed(x, m).deleting = x.deleting
<1>1. m.at + MetadataTTL \in Nat /\ m.id \in Nat
  BY StoreAssumption DEF Entry
<1> QED
  BY <1>1 DEF Closed, Req

\* The receipt and the payload of a record that needs no more than that.
Receive(d, m) ==
    [d EXCEPT !.receipts = @ \cup {m.id},
              !.payloads = IF m.kind \in Payloads THEN @ \cup {m.id} ELSE @]

\* A receipt changes receipts and payloads only.
LEMMA ReceiveFields ==
  ASSUME NEW d \in Database, NEW m \in Entry
  PROVE  /\ Receive(d, m) \in Database
         /\ Receive(d, m).row = d.row /\ Receive(d, m).req = d.req /\ Receive(d, m).conv = d.conv
         /\ Receive(d, m).link = d.link /\ Receive(d, m).affinity = d.affinity
         /\ Receive(d, m).log = d.log /\ Receive(d, m).receipts = d.receipts \cup {m.id}
         /\ Receive(d, m).payloads = IF m.kind \in Payloads THEN d.payloads \cup {m.id} ELSE d.payloads
<1>1. m.id \in Nat
  BY DEF Entry
<1> QED
  BY <1>1 DEF Receive, Database

\* What is said of rows only, when no row changes.
LEMMA SameRows ==
  ASSUME NEW d, NEW e, e.row = d.row, e.req = d.req, e.conv = d.conv, e.link = d.link
  PROVE  /\ \A q : Known(e, q) <=> Known(d, q)
         /\ \A q : ConvOf(e, q) = ConvOf(d, q)
         /\ \A q : Linked(e, q) <=> Linked(d, q)
         /\ \A q : Stored(e, q) <=> Stored(d, q)
         /\ \A q : Terminal(e, q) <=> Terminal(d, q)
         /\ \A c : StoredIn(e, c) = StoredIn(d, c)
  BY DEF Known, ConvOf, Linked, Stored, Terminal, StoredIn, Members

\* The names of accounts do not depend on receipts, and only shrink with the log.
LEMMA SameNames ==
  ASSUME NEW d, NEW e, e.row = d.row, e.req = d.req, e.conv = d.conv, e.link = d.link,
         e.log \subseteq d.log, Named(d)
  PROVE  Named(e)
<1>1. ASSUME NEW c, NEW x, Says(e, c, x)
      PROVE  Says(d, c, x)
  BY <1>1, SameRows DEF Says
<1> QED
  BY <1>1, SameRows DEF Named

\* A transaction that leaves the rows alone and deletes only what has ended follows.
LEMMA SameFollow ==
  ASSUME NEW d, NEW n, NEW t, StoreInv(d, n, t), NEW e,
         e.row = d.row, e.req = d.req, e.conv = d.conv, e.link = d.link,
         e.log \subseteq d.log, Pending(e) \subseteq Pending(d),
         \A m \in d.log : m \in e.log \/ Terminal(d, m.req)
  PROVE  Follows(d, e) /\ Agreeing(d, e) /\ Lasting(d, e)
<1>1. /\ \A q : Known(e, q) <=> Known(d, q)
      /\ \A q : ConvOf(e, q) = ConvOf(d, q)
      /\ \A q : Linked(e, q) <=> Linked(d, q)
      /\ \A q : Terminal(e, q) <=> Terminal(d, q)
  BY SameRows
<1>2. ASSUME NEW c, NEW x, Says(e, c, x)
      PROVE  Says(d, c, x)
  BY <1>1, <1>2 DEF Says
<1>3. \A q \in Requests : Untouched(e, q) <=> Untouched(d, q)
  BY DEF Untouched
<1>4. \A q \in Requests : Over(e, q) <=> Over(d, q)
  BY <1>1 DEF Over
<1> QED
  BY <1>1, <1>2, <1>3, <1>4 DEF Follows, Agreeing, Lasting

\* A receipt keeps the invariant once the request is materialized.
LEMMA ReceiveKeeps ==
  ASSUME NEW d, NEW n, NEW t, StoreInv(d, n, t), NEW m \in d.log,
         m.kind = "accepted" => Stored(d, m.req)
  PROVE  StoreInv(Receive(d, m), n, t)
<1> DEFINE e == Receive(d, m)
<1>1. d \in Database /\ m \in Entry /\ m.id \in Nat
  BY RecordFacts
<1>2. /\ e \in Database
      /\ e.row = d.row /\ e.req = d.req /\ e.conv = d.conv
      /\ e.link = d.link /\ e.affinity = d.affinity
      /\ e.log = d.log /\ e.receipts = d.receipts \cup {m.id}
      /\ e.payloads = IF m.kind \in Payloads THEN d.payloads \cup {m.id} ELSE d.payloads
  BY <1>1, ReceiveFields
<1> HIDE DEF e
<1>3. /\ \A q : Known(e, q) <=> Known(d, q)
      /\ \A q : ConvOf(e, q) = ConvOf(d, q)
      /\ \A q : Linked(e, q) <=> Linked(d, q)
      /\ \A q : Stored(e, q) <=> Stored(d, q)
      /\ \A q : Terminal(e, q) <=> Terminal(d, q)
      /\ \A c : StoredIn(e, c) = StoredIn(d, c)
  BY <1>2, SameRows
<1>4. Pending(e) \subseteq Pending(d)
  BY <1>2 DEF Pending
<1>5. TypesOK(e) /\ Numbered(e, n, t) /\ Carried(e) /\ AcceptedFirst(e)
  BY <1>2, <1>3 DEF StoreInv, TypesOK, Numbered, Carried, AcceptedFirst
<1>6. Whole(e)
  <2>1. e.payloads \subseteq e.receipts /\ e.receipts \subseteq Ids(e.log)
    BY <1>2 DEF StoreInv, Whole, Ids
  <2>2. \A k \in e.log : k.id \in e.payloads => k.kind \in Payloads
    BY <1>2 DEF StoreInv, Whole, Numbered
  <2> QED
    BY <1>2, <1>3, <2>1, <2>2 DEF StoreInv, Whole
<1>7. Materialized(e)
  BY <1>2, <1>3 DEF StoreInv, Materialized, Numbered
<1>8. Opened(e) /\ Deleting(e) /\ Counted(e)
  BY <1>2, <1>3 DEF StoreInv, Opened, Deleting, Counted
<1>9. Ended(e, n)
  BY <1>2, <1>3, <1>4 DEF StoreInv, Ended
<1>10. Named(e)
  BY <1>2, SameNames DEF StoreInv
<1> QED
  BY <1>5, <1>6, <1>7, <1>8, <1>9, <1>10 DEF StoreInv, e

\* What ending a request changes, field by field.
LEMMA EndFields ==
  ASSUME NEW d \in Database, NEW m \in Entry, m.status \in Outcomes, ~Terminal(d, m.req),
         ConvOf(d, m.req) \in Requests
  PROVE  /\ End(d, m) \in Database
         /\ End(d, m).row = d.row /\ End(d, m).link = d.link
         /\ End(d, m).affinity = d.affinity /\ End(d, m).log = d.log
         /\ End(d, m).payloads = d.payloads /\ End(d, m).receipts = d.receipts
         /\ \A r \in Requests : r # m.req => End(d, m).req[r] = d.req[r]
         /\ End(d, m).req[m.req] = Closed(d.req[m.req], m)
         /\ \A c \in Requests :
              /\ End(d, m).conv[c].open = d.conv[c].open
              /\ End(d, m).conv[c].account = d.conv[c].account
              /\ End(d, m).conv[c].count = d.conv[c].count
              /\ End(d, m).conv[c].deleting = d.conv[c].deleting
              /\ c # ConvOf(d, m.req) => End(d, m).conv[c] = d.conv[c]
<1> DEFINE c == ConvOf(d, m.req)
           q == Closed(d.req[m.req], m)
           v == [d.conv[c] EXCEPT !.expires = m.at + MetadataTTL]
<1>1. m.req \in Requests /\ m.id \in Nat /\ m.at + MetadataTTL \in Nat /\ c \in Requests
  BY StoreAssumption DEF Entry
<1>2. q \in Req
  BY <1>1, RowTypes, ClosedType
<1>3. /\ v \in Conv /\ v.open = d.conv[c].open /\ v.account = d.conv[c].account
      /\ v.count = d.conv[c].count /\ v.deleting = d.conv[c].deleting
  <2>1. d.conv[c] \in Conv
    BY <1>1, RowTypes
  <2> QED
    BY <1>1, <2>1 DEF Conv
<1>4. End(d, m) = [d EXCEPT !.req[m.req] = q, !.conv[c] = v]
  BY DEF End, Database
<1> HIDE DEF q, v, c
<1>5. [d EXCEPT !.req[m.req] = q, !.conv[c] = v] \in Database
  BY <1>1, <1>2, <1>3 DEF Database
<1>6. /\ End(d, m).row = d.row /\ End(d, m).link = d.link
      /\ End(d, m).affinity = d.affinity /\ End(d, m).log = d.log
      /\ End(d, m).payloads = d.payloads /\ End(d, m).receipts = d.receipts
      /\ End(d, m).req = [d.req EXCEPT ![m.req] = q]
      /\ End(d, m).conv = [d.conv EXCEPT ![c] = v]
  BY <1>4 DEF Database
<1>7. \A k \in Requests : End(d, m).conv[k] = IF k = c THEN v ELSE d.conv[k]
  BY <1>1, <1>6 DEF Database
<1>8. \A r \in Requests : End(d, m).req[r] = IF r = m.req THEN q ELSE d.req[r]
  BY <1>1, <1>6 DEF Database
<1> QED
  BY <1>1, <1>3, <1>4, <1>5, <1>6, <1>7, <1>8 DEF c, q

\* A terminal record is materialized after the records that came before it.
LEMMA TerminalKeeps ==
  ASSUME NEW d, NEW n, NEW t, StoreInv(d, n, t), NEW m \in Pending(d),
         m.kind = "terminal", Owned(d, m.req),
         \A k \in Pending(d) : k.req = m.req => m.id <= k.id
  PROVE  /\ LET e == Receive(End(d, m), m) IN
              /\ StoreInv(e, n, t) /\ Follows(d, e) /\ Agreeing(d, e) /\ Lasting(d, e)
              /\ e.log = d.log /\ e.affinity = d.affinity
         /\ ~Terminal(d, m.req) /\ m.status \in Outcomes
<1> DEFINE r == m.req
           c == ConvOf(d, r)
           e == Receive(End(d, m), m)
<1>1. /\ d \in Database /\ m \in d.log /\ m \in Entry /\ m.id \in Nat /\ r \in Requests
      /\ Known(d, r) /\ c \in Requests /\ m.id < n
  BY RecordFacts DEF Pending, StoreInv, Numbered
<1>2. Stored(d, r) /\ ~Terminal(d, r) /\ m.status \in Outcomes /\ d.conv[c].open
      /\ ~d.conv[c].deleting
  BY <1>1 DEF Owned, StoreInv, Ended, Carried
<1>3. /\ End(d, m) \in Database
      /\ End(d, m).row = d.row /\ End(d, m).link = d.link
      /\ End(d, m).affinity = d.affinity /\ End(d, m).log = d.log
      /\ End(d, m).payloads = d.payloads /\ End(d, m).receipts = d.receipts
      /\ \A q \in Requests : q # r => End(d, m).req[q] = d.req[q]
      /\ End(d, m).req[r] = Closed(d.req[r], m)
      /\ \A k \in Requests :
           /\ End(d, m).conv[k].open = d.conv[k].open
           /\ End(d, m).conv[k].account = d.conv[k].account
           /\ End(d, m).conv[k].count = d.conv[k].count
           /\ End(d, m).conv[k].deleting = d.conv[k].deleting
           /\ k # c => End(d, m).conv[k] = d.conv[k]
  BY <1>1, <1>2, EndFields
<1>4. /\ e \in Database
      /\ e.row = d.row /\ e.link = d.link /\ e.affinity = d.affinity /\ e.log = d.log
      /\ e.receipts = d.receipts \cup {m.id} /\ e.payloads = d.payloads \cup {m.id}
      /\ \A q \in Requests : q # r => e.req[q] = d.req[q]
      /\ e.req[r] = Closed(d.req[r], m)
      /\ \A k \in Requests :
           /\ e.conv[k].open = d.conv[k].open /\ e.conv[k].account = d.conv[k].account
           /\ e.conv[k].count = d.conv[k].count /\ e.conv[k].deleting = d.conv[k].deleting
           /\ k # c => e.conv[k] = d.conv[k]
  <2> DEFINE f == End(d, m)
  <2> HIDE DEF f
  <2>1. /\ Receive(f, m).row = f.row /\ Receive(f, m).req = f.req /\ Receive(f, m).conv = f.conv
        /\ Receive(f, m).link = f.link /\ Receive(f, m).affinity = f.affinity
        /\ Receive(f, m).log = f.log /\ Receive(f, m).receipts = f.receipts \cup {m.id}
        /\ Receive(f, m).payloads = f.payloads \cup {m.id} /\ Receive(f, m) \in Database
    BY <1>1, <1>3, ReceiveFields DEF Payloads, f
  <2> QED
    BY <1>3, <2>1 DEF f
<1> HIDE DEF e
<1>5. /\ e.req[r].status = m.status /\ e.req[r].terminal = m.id
      /\ e.req[r].account = d.req[r].account
      /\ e.req[r].conflict = d.req[r].conflict /\ e.req[r].deleting = d.req[r].deleting
  <2>1. d.req[r] \in Req
    BY <1>1, RowTypes
  <2> QED
    BY <1>1, <1>2, <1>4, <2>1, ClosedType
<1>6. /\ \A q \in Requests : Known(e, q) <=> Known(d, q)
      /\ \A q \in Requests : ConvOf(e, q) = ConvOf(d, q)
      /\ \A q \in Requests : Linked(e, q) <=> Linked(d, q)
      /\ \A q \in Requests : Stored(e, q) <=> Stored(d, q)
      /\ \A q \in Requests : Terminal(e, q) <=> Terminal(d, q) \/ q = r
  BY <1>1, <1>2, <1>4, <1>5, Kind DEF Known, ConvOf, Linked, Stored, Terminal, NoReq
<1>7. \A k \in Pending(e) : k \in Pending(d) /\ k # m
  BY <1>4 DEF Pending
<1>8. TypesOK(e) /\ Numbered(e, n, t) /\ Carried(e) /\ AcceptedFirst(e)
  BY <1>4, <1>6, RecordFacts DEF StoreInv, TypesOK, Numbered, Carried, AcceptedFirst
<1>9. Whole(e)
  <2>1. e.payloads \subseteq e.receipts /\ e.receipts \subseteq Ids(e.log)
    BY <1>1, <1>4 DEF StoreInv, Whole, Ids
  <2>2. \A k \in e.log : k.id \in e.payloads => k.kind \in Payloads
    BY <1>1, <1>4 DEF StoreInv, Whole, Numbered, Payloads
  <2> QED
    BY <1>4, <1>6, <2>1, <2>2, RecordFacts DEF StoreInv, Whole
<1>10. Materialized(e)
  <2>1. \A q \in Requests : Stored(e, q) => Known(e, q) /\ e.req[q].status # "none"
    BY <1>2, <1>4, <1>5, <1>6, Kind DEF StoreInv, Materialized
  <2>2. \A k \in e.log : k.kind = "accepted" => (k.id \in e.receipts <=> Stored(e, k.req))
    <3>1. \A k \in d.log : k.req \in Requests
      BY RecordFacts
    <3>2. \A k \in d.log : k.kind = "accepted" => k.id # m.id
      BY <1>1 DEF StoreInv, Numbered
    <3> QED
      BY <1>4, <1>6, <3>1, <3>2 DEF StoreInv, Materialized
  <2> QED
    BY <1>4, <1>6, <2>1, <2>2, RecordFacts DEF StoreInv, Materialized
<1>11. Opened(e)
  <2>1. \A q \in Requests : Stored(e, q) => e.conv[ConvOf(e, q)].open
    BY <1>4, <1>6 DEF StoreInv, Opened, Materialized
  <2>2. \A k \in Requests : ~e.conv[k].open => e.conv[k] = NoConv
    BY <1>2, <1>4 DEF StoreInv, Opened
  <2> QED
    BY <1>4, <1>6, <2>1, <2>2 DEF StoreInv, Opened
<1>12. Ended(e, n)
  <2>1. \A q \in Requests : ~e.req[q].conflict
    BY <1>4, <1>5 DEF StoreInv, Ended
  <2>2. \A k, j \in e.log : k.req = j.req /\ k.kind = "terminal" =>
          (j.kind = "terminal" => j = k) /\ (j.id > k.id => j.kind = "frame")
    BY <1>4 DEF StoreInv, Ended
  <2>3. \A k \in e.log : k.kind = "terminal" /\ Terminal(e, k.req) =>
          e.req[k.req].terminal = k.id
    BY <1>1, <1>4, <1>5, <1>6, RecordFacts DEF StoreInv, Ended
  <2>4. \A q \in Requests : Terminal(e, q) => e.req[q].terminal < n
    BY <1>1, <1>4, <1>5, <1>6 DEF StoreInv, Ended
  <2>5. ASSUME NEW k \in Pending(e), Terminal(e, k.req)
        PROVE  k.kind = "frame" /\ k.id > e.req[k.req].terminal
    <3>1. k \in Pending(d) /\ k # m /\ k \in d.log /\ k.req \in Requests /\ k.id \in Nat
      BY <1>7, RecordFacts DEF Pending
    <3>2. CASE k.req = r
      <4>1. k.id # m.id /\ m.id <= k.id
        BY <1>1, <3>1, <3>2 DEF StoreInv, Numbered
      <4> QED
        BY <1>1, <1>5, <3>1, <3>2, <4>1 DEF StoreInv, Ended
    <3>3. CASE k.req # r
      BY <1>4, <1>6, <2>5, <3>1, <3>3 DEF StoreInv, Ended
    <3> QED
      BY <3>2, <3>3
  <2> QED
    BY <2>1, <2>2, <2>3, <2>4, <2>5 DEF Ended
<1>13. Deleting(e)
  BY <1>2, <1>4, <1>5, <1>6 DEF StoreInv, Deleting, Opened
<1>14. Counted(e)
  <2>1. \A k \in Requests : StoredIn(e, k) = StoredIn(d, k)
    BY <1>6 DEF StoredIn, Members
  <2> QED
    BY <1>4, <2>1 DEF StoreInv, Counted
<1>15. ASSUME NEW k \in Requests, NEW x \in Accounts, Says(e, k, x)
      PROVE  Says(d, k, x)
  BY <1>1, <1>4, <1>5, <1>6, <1>15, RecordFacts DEF Says
<1>16. Named(e)
  <2>2. \A q \in Requests : Stored(e, q) => e.req[q].account = e.row[q].account
    BY <1>1, <1>4, <1>5, <1>6 DEF StoreInv, Named
  <2> QED
    BY <1>4, <1>6, <1>15, <2>2 DEF StoreInv, Named, Opened
<1>17. Follows(d, e) /\ Agreeing(d, e) /\ Lasting(d, e)
  <2>1. \A q \in Requests : Untouched(d, q) => Untouched(e, q)
    BY <1>1, <1>4 DEF Untouched, Known, ConvOf
  <2>2. \A q \in Requests : Over(e, q) <=> Over(d, q)
    BY <1>1, <1>4, <1>6 DEF Over
  <2>3. \A q \in Requests : d.req[q].deleting => e.req[q].deleting
    BY <1>1, <1>4, <1>5
  <2>4. Pending(e) \subseteq Pending(d)
    BY <1>7
  <2>5. Follows(d, e)
    BY <1>4, <1>6, <2>1, <2>2, <2>4 DEF Follows
  <2>6. Agreeing(d, e)
    BY <1>4, <1>15 DEF Agreeing
  <2>7. Lasting(d, e)
    BY <1>4, <1>6, <2>3 DEF Lasting
  <2> QED
    BY <2>5, <2>6, <2>7
<1> QED
  BY <1>2, <1>4, <1>8, <1>9, <1>10, <1>11, <1>12, <1>13, <1>14, <1>16, <1>17 DEF StoreInv, e

\* Only affinities change.
LEMMA AttachKeeps ==
  ASSUME NEW d, NEW n, NEW t, StoreInv(d, n, t),
         NEW e \in Database, e.row = d.row, e.req = d.req, e.conv = d.conv, e.link = d.link,
         e.log = d.log, e.receipts = d.receipts, e.payloads = d.payloads,
         \A s \in Sessions : e.affinity[s] \in {d.affinity[s], NoAffinity}
                               \/ e.affinity[s].account \in Accounts
  PROVE  StoreInv(e, n, t)
<1>1. /\ \A q : Known(e, q) <=> Known(d, q)
      /\ \A q : ConvOf(e, q) = ConvOf(d, q)
      /\ \A q : Linked(e, q) <=> Linked(d, q)
      /\ \A q : Stored(e, q) <=> Stored(d, q)
      /\ \A q : Terminal(e, q) <=> Terminal(d, q)
      /\ \A c : StoredIn(e, c) = StoredIn(d, c)
  BY SameRows
<1>2. Pending(e) = Pending(d)
  BY DEF Pending
<1>3. TypesOK(e) /\ Numbered(e, n, t) /\ Carried(e) /\ AcceptedFirst(e) /\ Whole(e)
  BY <1>1 DEF StoreInv, TypesOK, Numbered, Carried, AcceptedFirst, Whole
<1>4. Materialized(e) /\ Ended(e, n) /\ Deleting(e) /\ Counted(e)
  BY <1>1, <1>2 DEF StoreInv, Materialized, Ended, Deleting, Counted
<1>5. Opened(e)
  BY <1>1 DEF StoreInv, Opened
<1>6. Named(e)
  BY SameNames DEF StoreInv
<1> QED
  BY <1>3, <1>4, <1>5, <1>6 DEF StoreInv

\* What attaching a session changes, field by field.
LEMMA AttachFields ==
  ASSUME NEW d \in Database, NEW s \in MaybeSession, NEW a \in MaybeAccount, NEW x \in Nat
  PROVE  /\ Attach(d, s, a, x) \in Database
         /\ Attach(d, s, a, x).row = d.row /\ Attach(d, s, a, x).req = d.req
         /\ Attach(d, s, a, x).conv = d.conv /\ Attach(d, s, a, x).link = d.link
         /\ Attach(d, s, a, x).log = d.log /\ Attach(d, s, a, x).receipts = d.receipts
         /\ Attach(d, s, a, x).payloads = d.payloads
         /\ \A k \in Sessions : Attach(d, s, a, x).affinity[k] =
              IF k = s THEN [account |-> a, expires |-> x] ELSE d.affinity[k]
<1>1. CASE s = None
  BY <1>1, Kind DEF Attach
<1>2. CASE s # None
  <2> DEFINE v == [account |-> a, expires |-> x]
  <2>1. v \in Affinity /\ s \in Sessions
    BY <1>2 DEF Affinity, MaybeSession
  <2>2. Attach(d, s, a, x) = [d EXCEPT !.affinity[s] = v]
    BY <1>2 DEF Attach
  <2> HIDE DEF v
  <2>3. [d EXCEPT !.affinity[s] = v] \in Database
    BY <2>1 DEF Database
  <2> QED
    BY <2>1, <2>2, <2>3 DEF Database, v
<1> QED
  BY <1>1, <1>2

\* Binding a row changes its account only, and only from none.
LEMMA BoundType ==
  ASSUME NEW a \in Accounts
  PROVE  /\ \A x \in Row : Bound(x, a) \in Row /\ Bound(x, a).conv = x.conv
                           /\ Bound(x, a).account = IF x.account = None THEN a ELSE x.account
         /\ \A x \in Link : /\ Bound(x, a) \in Link /\ Bound(x, a).conv = x.conv
                            /\ Bound(x, a).expires = x.expires
                            /\ Bound(x, a).account = IF x.account = None THEN a ELSE x.account
         /\ \A x \in Req : /\ Bound(x, a) \in Req /\ Bound(x, a).status = x.status
                           /\ Bound(x, a).terminal = x.terminal /\ Bound(x, a).conflict = x.conflict
                           /\ Bound(x, a).deleting = x.deleting
                           /\ Bound(x, a).account = IF x.account = None THEN a ELSE x.account
         /\ \A x \in Conv : /\ Bound(x, a) \in Conv /\ Bound(x, a).open = x.open
                            /\ Bound(x, a).count = x.count /\ Bound(x, a).deleting = x.deleting
                            /\ Bound(x, a).expires = x.expires
                            /\ Bound(x, a).account = IF x.account = None THEN a ELSE x.account
  BY DEF Bound, Row, Link, Req, Conv, MaybeAccount

\* What propagating an account changes, field by field.
LEMMA PropagateFields ==
  ASSUME NEW d \in Database, NEW c \in Requests, NEW a \in Accounts
  PROVE  /\ Propagate(d, c, a) \in Database
         /\ Propagate(d, c, a).log = d.log /\ Propagate(d, c, a).receipts = d.receipts
         /\ Propagate(d, c, a).payloads = d.payloads /\ Propagate(d, c, a).affinity = d.affinity
         /\ \A q \in Requests :
              /\ Propagate(d, c, a).row[q] = IF d.row[q].conv = c THEN Bound(d.row[q], a) ELSE d.row[q]
              /\ Propagate(d, c, a).req[q] = IF q \in StoredIn(d, c) THEN Bound(d.req[q], a) ELSE d.req[q]
              /\ Propagate(d, c, a).link[q] = IF d.link[q].conv = c THEN Bound(d.link[q], a) ELSE d.link[q]
              /\ Propagate(d, c, a).conv[q] = IF q = c THEN Bound(d.conv[q], a) ELSE d.conv[q]
<1> DEFINE f == [q \in Requests |-> IF d.row[q].conv = c THEN Bound(d.row[q], a) ELSE d.row[q]]
           g == [q \in Requests |-> IF q \in StoredIn(d, c) THEN Bound(d.req[q], a) ELSE d.req[q]]
           h == [q \in Requests |-> IF d.link[q].conv = c THEN Bound(d.link[q], a) ELSE d.link[q]]
           v == Bound(d.conv[c], a)
<1>1. f \in [Requests -> Row] /\ g \in [Requests -> Req] /\ h \in [Requests -> Link]
      /\ v \in Conv
  BY RowTypes, BoundType
<1>2. Propagate(d, c, a) = [d EXCEPT !.row = f, !.req = g, !.link = h, !.conv[c] = v]
  BY DEF Propagate, Database
<1>3. /\ \A q \in Requests : f[q] = IF d.row[q].conv = c THEN Bound(d.row[q], a) ELSE d.row[q]
      /\ \A q \in Requests : g[q] = IF q \in StoredIn(d, c) THEN Bound(d.req[q], a) ELSE d.req[q]
      /\ \A q \in Requests : h[q] = IF d.link[q].conv = c THEN Bound(d.link[q], a) ELSE d.link[q]
  OBVIOUS
<1> HIDE DEF f, g, h, v
<1>4. [d EXCEPT !.row = f, !.req = g, !.link = h, !.conv[c] = v] \in Database
  BY <1>1 DEF Database
<1>5. /\ Propagate(d, c, a).log = d.log /\ Propagate(d, c, a).receipts = d.receipts
      /\ Propagate(d, c, a).payloads = d.payloads /\ Propagate(d, c, a).affinity = d.affinity
      /\ Propagate(d, c, a).row = f /\ Propagate(d, c, a).req = g /\ Propagate(d, c, a).link = h
      /\ Propagate(d, c, a).conv = [d.conv EXCEPT ![c] = v]
  BY <1>2 DEF Database
<1>6. \A q \in Requests : Propagate(d, c, a).conv[q] = IF q = c THEN v ELSE d.conv[q]
  BY <1>5 DEF Database
<1> QED
  BY <1>2, <1>3, <1>4, <1>5, <1>6 DEF v

\* What binding conversation c to account a makes of the rows.
Propagated(d, e, c, a) ==
    /\ \A q \in Requests :
         /\ e.row[q].conv = d.row[q].conv
         /\ e.row[q].account = IF d.row[q].conv = c THEN a ELSE d.row[q].account
         /\ d.row[q].conv # c => e.row[q] = d.row[q]
         /\ e.req[q].status = d.req[q].status /\ e.req[q].terminal = d.req[q].terminal
         /\ e.req[q].conflict = d.req[q].conflict /\ e.req[q].deleting = d.req[q].deleting
         /\ q \in StoredIn(d, c) => e.req[q].account = a
         /\ q \notin StoredIn(d, c) => e.req[q] = d.req[q]
         /\ e.link[q].conv = d.link[q].conv /\ e.link[q].expires = d.link[q].expires
         /\ e.link[q].account = IF d.link[q].conv = c THEN a ELSE d.link[q].account
         /\ d.link[q].conv # c => e.link[q] = d.link[q]
         /\ e.conv[q].open = d.conv[q].open /\ e.conv[q].deleting = d.conv[q].deleting
         /\ e.conv[q].count = d.conv[q].count /\ e.conv[q].expires = d.conv[q].expires
         /\ e.conv[q].account = IF q = c THEN a ELSE d.conv[q].account
         /\ q # c => e.conv[q] = d.conv[q]
    /\ \A q \in Requests :
         /\ Known(e, q) <=> Known(d, q)
         /\ ConvOf(e, q) = ConvOf(d, q)
         /\ Linked(e, q) <=> Linked(d, q)
         /\ Stored(e, q) <=> Stored(d, q)
         /\ Terminal(e, q) <=> Terminal(d, q)

\* Propagating an account along a conversation, as the lemmas below use it.
LEMMA PropagateRows ==
  ASSUME NEW d, NEW n, NEW t, StoreInv(d, n, t), NEW r \in Requests, Stored(d, r),
         NEW a \in Accounts, CanPropagate(d, ConvOf(d, r), a)
  PROVE  LET c == ConvOf(d, r)
             e == Propagate(d, c, a)
         IN  /\ e \in Database /\ c \in Requests
             /\ e.log = d.log /\ e.receipts = d.receipts /\ e.payloads = d.payloads
             /\ e.affinity = d.affinity
             /\ Propagated(d, e, c, a)
<1> DEFINE c == ConvOf(d, r)
           e == Propagate(d, c, a)
<1>1. d \in Database /\ Known(d, r) /\ c \in Requests
  BY DEF StoreInv, TypesOK, Materialized, Opened
<1>2. /\ e \in Database /\ e.log = d.log /\ e.receipts = d.receipts /\ e.payloads = d.payloads
      /\ e.affinity = d.affinity
      /\ \A q \in Requests :
           /\ e.row[q] = IF d.row[q].conv = c THEN Bound(d.row[q], a) ELSE d.row[q]
           /\ e.req[q] = IF q \in StoredIn(d, c) THEN Bound(d.req[q], a) ELSE d.req[q]
           /\ e.link[q] = IF d.link[q].conv = c THEN Bound(d.link[q], a) ELSE d.link[q]
           /\ e.conv[q] = IF q = c THEN Bound(d.conv[q], a) ELSE d.conv[q]
  <2> HIDE DEF c
  <2> QED
    BY <1>1, PropagateFields
<1> HIDE DEF e
<1>3. /\ d.conv[c].open /\ d.conv[c].account \in {None, a}
      /\ \A q \in Requests : d.row[q].conv = c => d.row[q].account \in {None, a}
      /\ \A q \in Requests : q \in StoredIn(d, c) => d.req[q].account \in {None, a}
      /\ \A q \in Requests : d.link[q].conv = c => d.link[q].account \in {None, a}
  BY DEF CanPropagate, Fits, Members, StoredIn, ConvOf
<1> HIDE DEF c
<1>4. ASSUME NEW q \in Requests
      PROVE  /\ e.row[q].conv = d.row[q].conv
             /\ e.row[q].account = IF d.row[q].conv = c THEN a ELSE d.row[q].account
             /\ d.row[q].conv # c => e.row[q] = d.row[q]
  BY <1>1, <1>2, <1>3, RowTypes, BoundType, Kind
<1>5. ASSUME NEW q \in Requests
      PROVE  /\ e.req[q].status = d.req[q].status /\ e.req[q].terminal = d.req[q].terminal
             /\ e.req[q].conflict = d.req[q].conflict /\ e.req[q].deleting = d.req[q].deleting
             /\ q \in StoredIn(d, c) => e.req[q].account = a
             /\ q \notin StoredIn(d, c) => e.req[q] = d.req[q]
  BY <1>1, <1>2, <1>3, RowTypes, BoundType, Kind
<1>6. ASSUME NEW q \in Requests
      PROVE  /\ e.link[q].conv = d.link[q].conv /\ e.link[q].expires = d.link[q].expires
             /\ e.link[q].account = IF d.link[q].conv = c THEN a ELSE d.link[q].account
             /\ d.link[q].conv # c => e.link[q] = d.link[q]
  BY <1>1, <1>2, <1>3, RowTypes, BoundType, Kind
<1>7. ASSUME NEW q \in Requests
      PROVE  /\ e.conv[q].open = d.conv[q].open /\ e.conv[q].deleting = d.conv[q].deleting
             /\ e.conv[q].count = d.conv[q].count /\ e.conv[q].expires = d.conv[q].expires
             /\ e.conv[q].account = IF q = c THEN a ELSE d.conv[q].account
             /\ q # c => e.conv[q] = d.conv[q]
  BY <1>1, <1>2, <1>3, RowTypes, BoundType, Kind
<1>8. ASSUME NEW q \in Requests
      PROVE  /\ Known(e, q) <=> Known(d, q)
             /\ ConvOf(e, q) = ConvOf(d, q)
             /\ Linked(e, q) <=> Linked(d, q)
             /\ Stored(e, q) <=> Stored(d, q)
             /\ Terminal(e, q) <=> Terminal(d, q)
  <2>1. (Known(e, q) <=> Known(d, q)) /\ ConvOf(e, q) = ConvOf(d, q)
    BY <1>1, <1>4, Kind DEF Known, ConvOf, NoRow
  <2>2. Linked(e, q) <=> Linked(d, q)
    BY <1>1, <1>6, Kind DEF Linked, NoLink
  <2>3. Stored(e, q) <=> Stored(d, q)
    <3>1. q \in StoredIn(d, c) => Stored(d, q) /\ d.req[q].status # "none"
      BY DEF StoredIn, StoreInv, Materialized
    <3> QED
      BY <1>5, <3>1 DEF Stored, NoReq
  <2> QED
    BY <1>5, <2>1, <2>2, <2>3 DEF Terminal
<1> QED
  BY <1>1, <1>2, <1>4, <1>5, <1>6, <1>7, <1>8 DEF Propagated, c, e

\* Propagating an account that fits keeps the invariant.
LEMMA PropagateKeeps ==
  ASSUME NEW d, NEW n, NEW t, StoreInv(d, n, t), NEW r \in Requests, Stored(d, r),
         NEW a \in Accounts, CanPropagate(d, ConvOf(d, r), a)
  PROVE  LET e == Propagate(d, ConvOf(d, r), a) IN
         /\ StoreInv(e, n, t) /\ Follows(d, e) /\ Lasting(d, e)
         /\ \A x \in Accounts : Says(e, ConvOf(d, r), x) => x = a
         /\ \A k \in Requests : k # ConvOf(d, r) =>
              \A x \in Accounts : Says(e, k, x) => Says(d, k, x)
<1> DEFINE c == ConvOf(d, r)
           e == Propagate(d, c, a)
<1>1. /\ e \in Database /\ e.log = d.log /\ e.receipts = d.receipts /\ e.payloads = d.payloads
      /\ e.affinity = d.affinity /\ c \in Requests /\ Propagated(d, e, c, a)
  BY PropagateRows
<1>2. /\ Known(d, r) /\ d.row[r].account \in {None, a} /\ d.conv[c].open
  BY DEF StoreInv, Materialized, CanPropagate, Members, Fits
<1>3. \A k \in d.log : k.req \in Requests
  BY RecordFacts
<1>4. d.row[r].conv = c
  BY DEF ConvOf, c
<1> HIDE DEF e, c
<1>5. \A k : StoredIn(e, k) = StoredIn(d, k)
  BY <1>1 DEF Propagated, StoredIn, Members
<1>6. Pending(e) = Pending(d)
  BY <1>1 DEF Pending
<1>7. TypesOK(e) /\ Numbered(e, n, t) /\ Carried(e)
  BY <1>1 DEF StoreInv, TypesOK, Numbered, Carried
<1>8. Whole(e) /\ AcceptedFirst(e)
  BY <1>1, <1>3 DEF StoreInv, Whole, AcceptedFirst, Propagated
<1>9. Materialized(e) /\ Deleting(e)
  BY <1>1, <1>3 DEF StoreInv, Materialized, Deleting, Propagated, Opened
<1>10. Ended(e, n)
  BY <1>1, <1>3, <1>6 DEF StoreInv, Ended, Propagated, Pending
<1>11. Counted(e)
  BY <1>1, <1>5 DEF StoreInv, Counted, Propagated
<1>12. Opened(e)
  <2>1. \A q \in Requests : Stored(e, q) => e.conv[ConvOf(e, q)].open
    BY <1>1 DEF StoreInv, Opened, Propagated, Materialized
  <2>2. \A k \in Requests : ~e.conv[k].open => e.conv[k] = NoConv
    BY <1>1, <1>2 DEF StoreInv, Opened, Propagated
  <2>3. \A q \in Requests : Linked(e, q) =>
          /\ e.link[q].conv \in Requests /\ e.link[q].account \in Accounts
          /\ Known(e, q) => e.link[q].conv = ConvOf(e, q)
    BY <1>1 DEF StoreInv, Opened, Propagated
  <2>4. \A q \in Requests : Known(e, q) => ConvOf(e, q) \in Requests
    BY <1>1 DEF StoreInv, Opened, Propagated
  <2> QED
    BY <1>1, <2>1, <2>2, <2>3, <2>4 DEF StoreInv, Opened
<1>13. ASSUME NEW x \in Accounts, Says(e, c, x)
      PROVE  x = a
  <2>1. ASSUME NEW q \in Requests, ConvOf(e, q) = c, x \in {e.row[q].account, e.req[q].account}
        PROVE  x = a
    <3>1. d.row[q].conv = c /\ e.row[q].account = a
      BY <1>1, <2>1 DEF Propagated, ConvOf
    <3>2. CASE q \in StoredIn(d, c)
      BY <1>1, <2>1, <3>1, <3>2 DEF Propagated
    <3>3. CASE q \notin StoredIn(d, c)
      <4>1. e.req[q] = NoReq
        BY <1>1, <3>1, <3>3 DEF Propagated, StoredIn, Members, ConvOf, Stored
      <4> QED
        BY <2>1, <3>1, <4>1, Kind DEF NoReq
    <3> QED
      BY <3>2, <3>3
  <2>2. ASSUME NEW p \in e.log, ConvOf(e, p.req) = c, p.account = x
        PROVE  x = a
    <3>1. Says(d, c, x)
      BY <1>1, <1>3, <2>2, Kind DEF Says, Propagated
    <3>2. d.row[r].account = x
      BY <1>1, <1>2, <3>1 DEF StoreInv, Named, c
    <3> QED
      BY <1>2, <3>2, Kind
  <2> QED
    BY <1>1, <1>13, <2>1, <2>2 DEF Says, Propagated
<1>14. ASSUME NEW k \in Requests, k # c, NEW x \in Accounts, Says(e, k, x)
      PROVE  Says(d, k, x)
  <2>1. ASSUME NEW q \in Requests, ConvOf(e, q) = k, x \in {e.row[q].account, e.req[q].account}
        PROVE  Says(d, k, x)
    <3>1. d.row[q].conv = k /\ e.row[q] = d.row[q] /\ e.req[q] = d.req[q] /\ ConvOf(d, q) = k
      BY <1>1, <1>14, <2>1 DEF Propagated, ConvOf, StoredIn, Members
    <3> QED
      BY <1>14, <2>1, <3>1, Kind DEF Says
  <2>2. ASSUME NEW p \in e.log, ConvOf(e, p.req) = k, p.account = x
        PROVE  Says(d, k, x)
    BY <1>1, <1>3, <1>14, <2>2, Kind DEF Says, Propagated
  <2> QED
    BY <1>1, <1>14, <2>1, <2>2 DEF Says, Propagated
<1>15. Named(e)
  <2>3. \A q \in Requests : Stored(e, q) => e.req[q].account = e.row[q].account
    BY <1>1 DEF StoreInv, Named, Propagated, StoredIn, Members, ConvOf
  <2>4. \A q \in Requests : Known(e, q) /\ e.conv[ConvOf(e, q)].open =>
          e.conv[ConvOf(e, q)].account = e.row[q].account
    BY <1>1 DEF StoreInv, Named, Opened, Propagated, ConvOf
  <2>5. ASSUME NEW q \in Requests, Known(e, q), NEW x \in Accounts, Says(e, ConvOf(e, q), x)
        PROVE  e.row[q].account = x
    <3>1. Known(d, q) /\ ConvOf(e, q) = ConvOf(d, q) /\ ConvOf(d, q) \in Requests
      BY <1>1, <2>5 DEF Propagated, StoreInv, Opened
    <3>2. CASE ConvOf(d, q) = c
      BY <1>1, <1>13, <2>5, <3>1, <3>2 DEF Propagated, ConvOf
    <3>3. CASE ConvOf(d, q) # c
      <4>1. Says(d, ConvOf(d, q), x)
        BY <1>14, <2>5, <3>1, <3>3
      <4> QED
        BY <1>1, <3>1, <3>3, <4>1 DEF Propagated, ConvOf, StoreInv, Named
    <3> QED
      BY <3>2, <3>3
  <2>6. ASSUME NEW k \in Requests, NEW x \in Accounts, NEW y \in Accounts, Says(e, k, x), Says(e, k, y)
        PROVE  x = y
    BY <1>13, <1>14, <2>6 DEF StoreInv, Named
  <2> QED
    BY <2>3, <2>4, <2>5, <2>6 DEF Named
<1>16. Follows(d, e) /\ Lasting(d, e)
  <2>1. ASSUME NEW q \in Requests, Untouched(d, q)
        PROVE  Untouched(e, q)
    <3>1. d.row[q] = NoRow /\ d.row[q].conv # c /\ q \notin StoredIn(d, c)
      BY <1>1, <2>1, Kind DEF Untouched, NoRow, StoredIn, Stored
    <3>2. q # c
      BY <1>4, <2>1 DEF Untouched
    <3>3. e.row[q] = NoRow /\ e.req[q] = NoReq /\ e.conv[q] = NoConv
      BY <1>1, <2>1, <3>1, <3>2 DEF Untouched, Propagated
    <3>4. e.link[q] = NoLink
      BY <1>1, <2>1, Kind DEF Untouched, Propagated, NoLink
    <3>5. \A p \in Requests : e.row[p].conv # q /\ e.link[p].conv # q
      BY <1>1, <2>1 DEF Untouched, Propagated
    <3> QED
      BY <3>3, <3>4, <3>5 DEF Untouched
  <2>2. \A q \in Requests : Over(e, q) <=> Over(d, q)
    BY <1>1 DEF Propagated, Over
  <2>5. Follows(d, e)
    BY <1>1, <1>6, <2>1, <2>2 DEF Follows, Propagated
  <2>7. Lasting(d, e)
    BY <1>1 DEF Lasting, Propagated
  <2> QED
    BY <2>5, <2>7
<1> QED
  BY <1>7, <1>8, <1>9, <1>10, <1>11, <1>12, <1>13, <1>14, <1>15, <1>16 DEF StoreInv, e, c

\* Appending changes the log only.
LEMMA AppendFields ==
  ASSUME NEW d \in Database, NEW m \in Entry
  PROVE  /\ Append(d, m) \in Database /\ Append(d, m).log = d.log \cup {m}
         /\ Append(d, m).row = d.row /\ Append(d, m).req = d.req /\ Append(d, m).conv = d.conv
         /\ Append(d, m).link = d.link /\ Append(d, m).affinity = d.affinity
         /\ Append(d, m).receipts = d.receipts /\ Append(d, m).payloads = d.payloads
  BY DEF Append, Database

\* A record m of a request that was begun before.
LEMMA AppendKeeps ==
  ASSUME NEW d, NEW n \in Nat, NEW t \in Nat, StoreInv(d, n, t), NEW m \in Entry,
         m.id = n, m.at = t, Known(d, m.req), m.kind # "accepted",
         IF m.kind = "bound"
         THEN m.account \in Accounts /\ m.account = d.row[m.req].account /\ Stored(d, m.req)
         ELSE m.account = None,
         m.kind = "answer" => Linked(d, m.req),
         m.kind = "terminal" => m.status \in Outcomes,
         m.kind # "frame" => /\ ~Terminal(d, m.req)
                             /\ \A k \in d.log : k.req = m.req => k.kind # "terminal"
  PROVE  StoreInv(Append(d, m), n + 1, t)
<1> DEFINE e == Append(d, m)
<1>1. /\ d \in Database /\ m.req \in Requests /\ m.id \in Nat
  BY DEF StoreInv, TypesOK, Entry
<1>2. /\ e \in Database
      /\ e.row = d.row /\ e.req = d.req /\ e.conv = d.conv
      /\ e.link = d.link /\ e.affinity = d.affinity
      /\ e.log = d.log \cup {m} /\ e.receipts = d.receipts /\ e.payloads = d.payloads
  BY <1>1, AppendFields
<1> HIDE DEF e
<1>3. /\ \A q : Known(e, q) <=> Known(d, q)
      /\ \A q : ConvOf(e, q) = ConvOf(d, q)
      /\ \A q : Linked(e, q) <=> Linked(d, q)
      /\ \A q : Stored(e, q) <=> Stored(d, q)
      /\ \A q : Terminal(e, q) <=> Terminal(d, q)
      /\ \A c : StoredIn(e, c) = StoredIn(d, c)
  BY <1>2, SameRows
<1>4. \A k \in d.log : k.id < m.id /\ k.id \in Nat /\ k.req \in Requests
  BY RecordFacts DEF StoreInv, Numbered
<1>5. Pending(e) \subseteq Pending(d) \cup {m}
  BY <1>2 DEF Pending
<1>6. TypesOK(e) /\ Numbered(e, n + 1, t) /\ Carried(e)
  <2>1. IsFiniteSet(e.log)
    BY <1>2, FS_AddElement DEF StoreInv, TypesOK
  <2>2. Numbered(e, n + 1, t)
    BY <1>2, <1>4 DEF StoreInv, Numbered
  <2>3. Carried(e)
    BY <1>2 DEF StoreInv, Carried
  <2> QED
    BY <1>2, <2>1, <2>2, <2>3 DEF TypesOK
<1>7. Whole(e)
  <2>1. e.payloads \subseteq e.receipts /\ e.receipts \subseteq Ids(e.log)
    BY <1>2 DEF StoreInv, Whole, Ids
  <2>2. \A k \in e.log : k.id \in e.payloads => k.kind \in Payloads
    BY <1>2, <1>4 DEF StoreInv, Whole, Ids
  <2>3. \A k \in e.log : Known(e, k.req)
    BY <1>2, <1>3 DEF StoreInv, Whole
  <2> QED
    BY <2>1, <2>2, <2>3 DEF Whole
<1>8. AcceptedFirst(e)
  <2>1. \A j, k \in e.log : j.req = k.req /\ j.kind = "accepted" =>
          j.id <= k.id /\ (k.kind = "accepted" => k = j)
    BY <1>1, <1>2, <1>4 DEF StoreInv, AcceptedFirst
  <2> QED
    BY <1>2, <1>3, <2>1 DEF StoreInv, AcceptedFirst
<1>9. Materialized(e) /\ Opened(e) /\ Deleting(e) /\ Counted(e)
  BY <1>2, <1>3 DEF StoreInv, Materialized, Opened, Deleting, Counted
<1>10. Ended(e, n + 1)
  <2>1. \A k, j \in e.log : k.req = j.req /\ k.kind = "terminal" =>
          (j.kind = "terminal" => j = k) /\ (j.id > k.id => j.kind = "frame")
    BY <1>1, <1>2, <1>4 DEF StoreInv, Ended
  <2>2. \A k \in e.log : k.kind = "terminal" /\ Terminal(e, k.req) => e.req[k.req].terminal = k.id
    BY <1>2, <1>3 DEF StoreInv, Ended
  <2>3. \A q \in Requests : Terminal(e, q) => e.req[q].terminal < n /\ e.req[q].terminal \in Nat
    BY <1>1, <1>2, <1>3, RowValues DEF StoreInv, Ended
  <2>4. \A k \in Pending(e) : Terminal(e, k.req) =>
          k.kind = "frame" /\ k.id > e.req[k.req].terminal
    BY <1>1, <1>2, <1>3, <1>5, <2>3 DEF StoreInv, Ended
  <2>5. \A q \in Requests : ~e.req[q].conflict
    BY <1>2 DEF StoreInv, Ended
  <2> QED
    BY <2>1, <2>2, <2>3, <2>4, <2>5 DEF Ended
<1>11. Named(e)
  <2>1. ASSUME NEW c \in Requests, NEW x \in Accounts, Says(e, c, x)
        PROVE  Says(d, c, x)
    <3>1. ASSUME NEW k \in e.log, ConvOf(e, k.req) = c, k.account = x
          PROVE  Says(d, c, x)
      <4>1. CASE k = m
        BY <1>1, <1>3, <2>1, <3>1, <4>1, Kind DEF Says
      <4>2. CASE k # m
        BY <1>2, <1>3, <2>1, <3>1, <4>2 DEF Says
      <4> QED
        BY <4>1, <4>2
    <3> QED
      BY <1>2, <1>3, <2>1, <3>1 DEF Says
  <2> QED
    BY <1>2, <1>3, <2>1 DEF StoreInv, Named, Opened
<1> QED
  BY <1>6, <1>7, <1>8, <1>9, <1>10, <1>11 DEF StoreInv, e

\* A new request r with its accepted record.
Insert(d, r, row, m) == Append([d EXCEPT !.row[r] = row], m)

\* What beginning a request changes, field by field.
LEMMA InsertFields ==
  ASSUME NEW d \in Database, NEW r \in Requests, NEW row \in Row, NEW m \in Entry
  PROVE  /\ Insert(d, r, row, m) \in Database
         /\ \A q \in Requests : Insert(d, r, row, m).row[q] = IF q = r THEN row ELSE d.row[q]
         /\ Insert(d, r, row, m).log = d.log \cup {m}
         /\ Insert(d, r, row, m).req = d.req /\ Insert(d, r, row, m).conv = d.conv
         /\ Insert(d, r, row, m).link = d.link /\ Insert(d, r, row, m).affinity = d.affinity
         /\ Insert(d, r, row, m).receipts = d.receipts /\ Insert(d, r, row, m).payloads = d.payloads
<1> DEFINE f == [d EXCEPT !.row[r] = row]
<1>1. /\ f \in Database
      /\ \A q \in Requests : f.row[q] = IF q = r THEN row ELSE d.row[q]
      /\ f.req = d.req /\ f.conv = d.conv /\ f.link = d.link /\ f.affinity = d.affinity
      /\ f.log = d.log /\ f.receipts = d.receipts /\ f.payloads = d.payloads
  BY DEF Database
<1> HIDE DEF f
<1>2. /\ Append(f, m) \in Database /\ Append(f, m).log = f.log \cup {m}
      /\ Append(f, m).row = f.row /\ Append(f, m).req = f.req /\ Append(f, m).conv = f.conv
      /\ Append(f, m).link = f.link /\ Append(f, m).affinity = f.affinity
      /\ Append(f, m).receipts = f.receipts /\ Append(f, m).payloads = f.payloads
  BY <1>1, AppendFields
<1>3. Insert(d, r, row, m) = Append(f, m)
  BY DEF Insert, f
<1> QED
  BY <1>1, <1>2, <1>3

\* A new request with its first record keeps the invariant.
LEMMA InsertKeeps ==
  ASSUME NEW d, NEW n \in Nat, NEW t \in Nat, StoreInv(d, n, t), NEW r \in Requests,
         NEW row \in Row, NEW m \in Entry, m.id = n, m.at = t, m.req = r, m.kind = "accepted",
         m.account = None,
         ~Known(d, r), ~Linked(d, r), row.conv \in Requests, ~d.conv[row.conv].deleting,
         d.conv[row.conv].open => d.conv[row.conv].account = row.account,
         \A x \in Accounts : Says(d, row.conv, x) => row.account = x,
         row.account # None => Says(d, row.conv, row.account)
  PROVE  StoreInv(Insert(d, r, row, m), n + 1, t)
<1> DEFINE e == Insert(d, r, row, m)
<1>1. /\ d \in Database /\ m.id \in Nat /\ row.account \in MaybeAccount
      /\ ~Stored(d, r) /\ ~Terminal(d, r) /\ d.req[r].account = None
      /\ \A k \in d.log : k.req # r
  <2>1. d \in Database /\ m.id \in Nat /\ row.account \in MaybeAccount
    BY DEF StoreInv, TypesOK, Entry, Row
  <2>2. ~Stored(d, r)
    BY DEF StoreInv, Materialized
  <2>3. ~Terminal(d, r) /\ d.req[r].account = None
    BY <2>2, Kind DEF Stored, Terminal, NoReq
  <2>4. \A k \in d.log : k.req # r
    BY DEF StoreInv, Whole
  <2> QED
    BY <2>1, <2>2, <2>3, <2>4
<1>2. /\ e \in Database
      /\ \A q \in Requests : e.row[q] = IF q = r THEN row ELSE d.row[q]
      /\ e.req = d.req /\ e.conv = d.conv /\ e.link = d.link /\ e.affinity = d.affinity
      /\ e.log = d.log \cup {m} /\ e.receipts = d.receipts /\ e.payloads = d.payloads
  BY <1>1, InsertFields
<1> HIDE DEF e
<1>3. /\ \A q \in Requests : Known(e, q) <=> Known(d, q) \/ q = r
      /\ \A q \in Requests : q # r => ConvOf(e, q) = ConvOf(d, q)
      /\ ConvOf(e, r) = row.conv
      /\ \A q : Linked(e, q) <=> Linked(d, q)
      /\ \A q : Stored(e, q) <=> Stored(d, q)
      /\ \A q : Terminal(e, q) <=> Terminal(d, q)
  BY <1>2, Kind DEF Known, ConvOf, Linked, Stored, Terminal, NoRow
<1>4. \A k \in d.log : k.id < m.id /\ k.id \in Nat /\ k.req \in Requests /\ k.req # r
  BY <1>1, RecordFacts DEF StoreInv, Numbered
<1>5. Pending(e) \subseteq Pending(d) \cup {m}
  BY <1>2 DEF Pending
<1>6. m.id \notin d.receipts /\ m.id \notin d.payloads
  BY <1>4 DEF StoreInv, Whole, Ids
<1>7. TypesOK(e) /\ Numbered(e, n + 1, t) /\ Carried(e)
  <2>1. IsFiniteSet(e.log)
    BY <1>2, FS_AddElement DEF StoreInv, TypesOK
  <2>2. Numbered(e, n + 1, t)
    BY <1>2, <1>4 DEF StoreInv, Numbered
  <2>3. Carried(e)
    BY <1>2 DEF StoreInv, Carried
  <2> QED
    BY <1>2, <2>1, <2>2, <2>3 DEF TypesOK
<1>8. Whole(e)
  <2>1. e.payloads \subseteq e.receipts /\ e.receipts \subseteq Ids(e.log)
    BY <1>2 DEF StoreInv, Whole, Ids
  <2>2. \A k \in e.log : k.id \in e.payloads => k.kind \in Payloads
    BY <1>2, <1>6 DEF StoreInv, Whole
  <2>3. \A k \in e.log : Known(e, k.req)
    BY <1>2, <1>3, <1>4 DEF StoreInv, Whole
  <2> QED
    BY <2>1, <2>2, <2>3 DEF Whole
<1>9. AcceptedFirst(e)
  <2>1. \A j, k \in e.log : j.req = k.req /\ j.kind = "accepted" =>
          j.id <= k.id /\ (k.kind = "accepted" => k = j)
    BY <1>1, <1>2, <1>4 DEF StoreInv, AcceptedFirst
  <2> QED
    BY <1>2, <1>3, <2>1 DEF StoreInv, AcceptedFirst
<1>10. Materialized(e)
  <2>1. \A k \in e.log : k.kind = "accepted" => (k.id \in e.receipts <=> Stored(e, k.req))
    BY <1>1, <1>2, <1>3, <1>6 DEF StoreInv, Materialized
  <2> QED
    BY <1>1, <1>2, <1>3, <2>1 DEF StoreInv, Materialized
<1>11. Opened(e)
  <2>1. \A q \in Requests : Stored(e, q) => e.conv[ConvOf(e, q)].open
    BY <1>1, <1>2, <1>3 DEF StoreInv, Opened
  <2> QED
    BY <1>2, <1>3, <2>1 DEF StoreInv, Opened
<1>12. Ended(e, n + 1)
  <2>1. \A k, j \in e.log : k.req = j.req /\ k.kind = "terminal" =>
          (j.kind = "terminal" => j = k) /\ (j.id > k.id => j.kind = "frame")
    BY <1>1, <1>2, <1>4 DEF StoreInv, Ended
  <2>2. \A k \in e.log : k.kind = "terminal" /\ Terminal(e, k.req) => e.req[k.req].terminal = k.id
    BY <1>2, <1>3 DEF StoreInv, Ended
  <2>3. \A q \in Requests : Terminal(e, q) => e.req[q].terminal < n /\ e.req[q].terminal \in Nat
    BY <1>1, <1>2, <1>3, RowValues DEF StoreInv, Ended
  <2>4. \A k \in Pending(e) : Terminal(e, k.req) =>
          k.kind = "frame" /\ k.id > e.req[k.req].terminal
    BY <1>1, <1>2, <1>3, <1>5 DEF StoreInv, Ended
  <2>5. \A q \in Requests : ~e.req[q].conflict
    BY <1>2 DEF StoreInv, Ended
  <2> QED
    BY <2>1, <2>2, <2>3, <2>4, <2>5 DEF Ended
<1>13. Deleting(e)
  BY <1>2, <1>3 DEF StoreInv, Deleting
<1>14. Counted(e)
  <2>1. \A c : StoredIn(e, c) = StoredIn(d, c)
    BY <1>1, <1>3 DEF StoredIn, Members
  <2> QED
    BY <1>2, <2>1 DEF StoreInv, Counted
<1>15. Named(e)
  <2>1. ASSUME NEW c \in Requests, NEW x \in Accounts, Says(e, c, x)
        PROVE  Says(d, c, x)
    <3>1. ASSUME NEW q \in Requests, ConvOf(e, q) = c, x \in {e.row[q].account, e.req[q].account}
          PROVE  Says(d, c, x)
      <4>1. CASE q = r
        BY <1>1, <1>2, <1>3, <2>1, <3>1, <4>1, Kind
      <4>2. CASE q # r
        BY <1>2, <1>3, <2>1, <3>1, <4>2, Kind DEF Says
      <4> QED
        BY <4>1, <4>2
    <3>2. ASSUME NEW k \in e.log, ConvOf(e, k.req) = c, k.account = x
          PROVE  Says(d, c, x)
      BY <1>2, <1>3, <1>4, <2>1, <3>2, Kind DEF Says
    <3> QED
      BY <1>2, <2>1, <3>1, <3>2 DEF Says
  <2>2. \A q \in Requests : Known(e, q) =>
          \A x \in Accounts : Says(e, ConvOf(e, q), x) => e.row[q].account = x
    BY <1>2, <1>3, <2>1 DEF StoreInv, Named, Opened
  <2>3. \A q \in Requests : Stored(e, q) => e.req[q].account = e.row[q].account
    BY <1>1, <1>2, <1>3 DEF StoreInv, Named
  <2>4. \A q \in Requests : Known(e, q) /\ e.conv[ConvOf(e, q)].open =>
          e.conv[ConvOf(e, q)].account = e.row[q].account
    BY <1>1, <1>2, <1>3 DEF StoreInv, Named
  <2> QED
    BY <2>1, <2>2, <2>3, <2>4 DEF StoreInv, Named
<1> QED
  BY <1>7, <1>8, <1>9, <1>10, <1>11, <1>12, <1>13, <1>14, <1>15 DEF StoreInv, e

\* What linking an answer changes, field by field.
LEMMA LinkAnswerFields ==
  ASSUME NEW d \in Database, NEW r \in Requests, NEW a \in MaybeAccount, NEW t \in Nat,
         ~Linked(d, r), ConvOf(d, r) \in Requests
  PROVE  /\ LinkAnswer(d, r, a, t) \in Database
         /\ LinkAnswer(d, r, a, t).row = d.row /\ LinkAnswer(d, r, a, t).req = d.req
         /\ LinkAnswer(d, r, a, t).conv = d.conv /\ LinkAnswer(d, r, a, t).affinity = d.affinity
         /\ LinkAnswer(d, r, a, t).log = d.log /\ LinkAnswer(d, r, a, t).receipts = d.receipts
         /\ LinkAnswer(d, r, a, t).payloads = d.payloads
         /\ \A q \in Requests : q # r => LinkAnswer(d, r, a, t).link[q] = d.link[q]
         /\ LinkAnswer(d, r, a, t).link[r].conv = ConvOf(d, r)
         /\ LinkAnswer(d, r, a, t).link[r].account = a
<1> DEFINE c == ConvOf(d, r)
           v == [conv |-> c, account |-> a, expires |-> t + MetadataTTL]
<1>1. v \in Link /\ v.conv = c /\ v.account = a
  BY StoreAssumption DEF Link
<1>2. LinkAnswer(d, r, a, t) = [d EXCEPT !.link[r] = v]
  BY DEF LinkAnswer
<1> HIDE DEF v
<1>3. [d EXCEPT !.link[r] = v] \in Database
  BY <1>1 DEF Database
<1> QED
  BY <1>1, <1>2, <1>3 DEF Database

\* Linking an answer to the account of its request keeps the invariant.
LEMMA LinkAnswerKeeps ==
  ASSUME NEW d, NEW n, NEW t, StoreInv(d, n, t), NEW r \in Requests, NEW x \in Nat,
         Known(d, r), ~Linked(d, r), d.row[r].account \in Accounts
  PROVE  /\ StoreInv(LinkAnswer(d, r, d.row[r].account, x), n, t)
         /\ Linked(LinkAnswer(d, r, d.row[r].account, x), r)
<1> DEFINE c == ConvOf(d, r)
           a == d.row[r].account
           e == LinkAnswer(d, r, a, x)
<1>1. d \in Database /\ c \in Requests /\ a \in MaybeAccount
  BY DEF StoreInv, TypesOK, Opened, MaybeAccount
<1>2. /\ e \in Database
      /\ e.row = d.row /\ e.req = d.req /\ e.conv = d.conv /\ e.affinity = d.affinity
      /\ e.log = d.log /\ e.receipts = d.receipts /\ e.payloads = d.payloads
      /\ \A q \in Requests : q # r => e.link[q] = d.link[q]
      /\ e.link[r].conv = c /\ e.link[r].account = a
  BY <1>1, LinkAnswerFields
<1> HIDE DEF e
<1>3. /\ \A q : Known(e, q) <=> Known(d, q)
      /\ \A q : ConvOf(e, q) = ConvOf(d, q)
      /\ \A q \in Requests : Linked(e, q) <=> Linked(d, q) \/ q = r
      /\ \A q : Stored(e, q) <=> Stored(d, q)
      /\ \A q : Terminal(e, q) <=> Terminal(d, q)
      /\ \A k : StoredIn(e, k) = StoredIn(d, k)
  BY <1>1, <1>2, Kind DEF Known, ConvOf, Linked, Stored, Terminal, StoredIn, Members, NoLink
<1>4. Pending(e) = Pending(d)
  BY <1>2 DEF Pending
<1>5. TypesOK(e) /\ Numbered(e, n, t) /\ Carried(e) /\ AcceptedFirst(e) /\ Whole(e)
  BY <1>2, <1>3 DEF StoreInv, TypesOK, Numbered, Carried, AcceptedFirst, Whole
<1>6. Materialized(e)
  BY <1>2, <1>3, RecordFacts DEF StoreInv, Materialized
<1>7. Ended(e, n) /\ Deleting(e) /\ Counted(e)
  BY <1>2, <1>3, <1>4 DEF StoreInv, Ended, Deleting, Counted
<1>8. Opened(e)
  BY <1>1, <1>2, <1>3 DEF StoreInv, Opened
<1>9. Named(e)
  <2>1. ASSUME NEW k \in Requests, NEW y \in Accounts, Says(e, k, y)
        PROVE  Says(d, k, y)
    <3>1. ASSUME NEW q \in Requests, e.link[q].conv = k, e.link[q].account = y
          PROVE  Says(d, k, y)
      <4>1. CASE q = r
        BY <1>2, <2>1, <3>1, <4>1, Kind DEF Says
      <4>2. CASE q # r
        BY <1>2, <2>1, <3>1, <4>2, Kind DEF Says
      <4> QED
        BY <4>1, <4>2
    <3> QED
      BY <1>2, <1>3, <2>1, <3>1 DEF Says
  <2> QED
    BY <1>2, <1>3, <2>1 DEF StoreInv, Named, Opened
<1> QED
  BY <1>3, <1>5, <1>6, <1>7, <1>8, <1>9 DEF StoreInv, e

\* The rows of requests S go, with links, affinities and conversations of theirs.
LEMMA DropKeeps ==
  ASSUME NEW d, NEW n, NEW t, StoreInv(d, n, t), NEW S, S \subseteq Requests, NEW e \in Database,
         \A q \in S : Terminal(d, q),
         \A q \in S : e.row[q] = NoRow /\ e.req[q] = NoReq,
         \A q \in Requests \ S : e.row[q] = d.row[q] /\ e.req[q] = d.req[q] /\ e.link[q] = d.link[q],
         \A q \in S : e.link[q] \in {d.link[q], NoLink},
         e.log = {m \in d.log : m.req \notin S},
         e.receipts = d.receipts \ Ids({m \in d.log : m.req \in S}),
         e.payloads = d.payloads \ Ids({m \in d.log : m.req \in S}),
         \A s \in Sessions : e.affinity[s] \in {d.affinity[s], NoAffinity},
         \A c \in Requests :
           \/ /\ e.conv[c].open = d.conv[c].open /\ e.conv[c].account = d.conv[c].account
              /\ e.conv[c].deleting = d.conv[c].deleting
              /\ d.conv[c] = NoConv => e.conv[c] = NoConv
           \/ e.conv[c] = NoConv /\ Members(d, c) \subseteq S,
         Counted(e)
  PROVE  StoreInv(e, n, t) /\ Follows(d, e) /\ Agreeing(d, e)
<1>1. d \in Database /\ \A m \in d.log : m.req \in Requests /\ m.id \in Nat
  BY RecordFacts DEF StoreInv, TypesOK
<1>2. \A q \in Requests :
        /\ Known(e, q) <=> Known(d, q) /\ q \notin S
        /\ Known(e, q) => ConvOf(e, q) = ConvOf(d, q)
        /\ ConvOf(e, q) \in Requests => ConvOf(e, q) = ConvOf(d, q) /\ q \notin S
        /\ Stored(e, q) <=> Stored(d, q) /\ q \notin S
        /\ Terminal(e, q) <=> Terminal(d, q) /\ q \notin S
        /\ Linked(e, q) => Linked(d, q) /\ e.link[q] = d.link[q]
        /\ q \notin S => (Linked(e, q) <=> Linked(d, q))
  <2>1. ASSUME NEW q \in S
        PROVE  /\ ~Known(e, q) /\ ~Stored(e, q) /\ ~Terminal(e, q) /\ ConvOf(e, q) \notin Requests
               /\ Linked(e, q) => Linked(d, q)
               /\ Linked(e, q) => e.link[q] = d.link[q]
    <3>1. q \in Requests /\ e.row[q] = NoRow /\ e.req[q] = NoReq
      OBVIOUS
    <3>2. ~Known(e, q) /\ ~Stored(e, q)
      BY <3>1 DEF Known, Stored
    <3>3. ConvOf(e, q) = None /\ e.req[q].status = "none"
      BY <3>1 DEF ConvOf, NoRow, NoReq
    <3>4. ConvOf(e, q) \notin Requests /\ ~Terminal(e, q)
      BY <3>3, Kind DEF Terminal
    <3>5. Linked(e, q) => e.link[q] = d.link[q]
      BY DEF Linked
    <3>6. Linked(e, q) => Linked(d, q)
      BY <3>5 DEF Linked
    <3> QED
      BY <3>2, <3>4, <3>5, <3>6
  <2>2. ASSUME NEW q \in Requests \ S
        PROVE  /\ Known(e, q) <=> Known(d, q)
               /\ ConvOf(e, q) = ConvOf(d, q)
               /\ Stored(e, q) <=> Stored(d, q)
               /\ Terminal(e, q) <=> Terminal(d, q)
               /\ Linked(e, q) <=> Linked(d, q)
               /\ e.link[q] = d.link[q]
    BY DEF Known, ConvOf, Stored, Terminal, Linked
  <2> QED
    BY <2>1, <2>2
<1>3. Pending(e) \subseteq {m \in Pending(d) : m.req \notin S}
  BY <1>1 DEF Pending, Ids, StoreInv, Numbered
<1>4. TypesOK(e) /\ Numbered(e, n, t) /\ Carried(e)
  <2>1. IsFiniteSet(e.log)
    BY FS_Subset DEF StoreInv, TypesOK
  <2> QED
    BY <2>1 DEF StoreInv, TypesOK, Numbered, Carried
<1>5. Whole(e)
  <2>1. e.payloads \subseteq e.receipts
    BY DEF StoreInv, Whole
  <2>2. e.receipts \subseteq Ids(e.log)
    BY DEF StoreInv, Whole, Ids
  <2>3. \A m \in e.log : m.id \in e.payloads => m.kind \in Payloads
    BY DEF StoreInv, Whole
  <2>4. \A m \in e.log : Known(e, m.req)
    BY <1>1, <1>2 DEF StoreInv, Whole
  <2> QED
    BY <2>1, <2>2, <2>3, <2>4 DEF Whole
<1>6. AcceptedFirst(e)
  BY <1>1, <1>2 DEF StoreInv, AcceptedFirst
<1>7. Materialized(e)
  <2>1. \A m \in e.log : m.id \in e.receipts <=> m.id \in d.receipts
    BY <1>1 DEF Ids, StoreInv, Numbered
  <2>2. \A m \in e.log : m.kind = "accepted" => (m.id \in e.receipts <=> Stored(e, m.req))
    BY <1>1, <1>2, <2>1 DEF StoreInv, Materialized
  <2>3. \A m \in e.log : (m.kind = "bound" => Stored(e, m.req)) /\ (m.kind = "answer" => Linked(e, m.req))
    BY <1>1, <1>2 DEF StoreInv, Materialized
  <2>4. \A r \in Requests : Stored(e, r) => Known(e, r) /\ e.req[r].status # "none"
    BY <1>2 DEF StoreInv, Materialized
  <2> QED
    BY <2>2, <2>3, <2>4 DEF Materialized
<1>8. Opened(e)
  <2>1. \A q \in Requests : Known(e, q) => ConvOf(e, q) \in Requests
    BY <1>2 DEF StoreInv, Opened
  <2>2. ASSUME NEW q \in Requests, Stored(e, q)
        PROVE  e.conv[ConvOf(e, q)].open
    <3>1. /\ Stored(d, q) /\ q \notin S /\ Known(d, q) /\ ConvOf(e, q) = ConvOf(d, q)
          /\ ConvOf(d, q) \in Requests /\ d.conv[ConvOf(d, q)].open
      BY <1>2, <2>2 DEF StoreInv, Opened, Materialized
    <3>2. ~(Members(d, ConvOf(d, q)) \subseteq S)
      BY <3>1 DEF Members
    <3> QED
      BY <3>1, <3>2
  <2>3. \A c \in Requests : ~e.conv[c].open => e.conv[c] = NoConv
    BY DEF StoreInv, Opened
  <2>4. \A q \in Requests : Linked(e, q) =>
          /\ e.link[q].conv \in Requests /\ e.link[q].account \in Accounts
          /\ Known(e, q) => e.link[q].conv = ConvOf(e, q)
    BY <1>2 DEF StoreInv, Opened
  <2>5. \A s \in Sessions : e.affinity[s] # NoAffinity => e.affinity[s].account \in Accounts
    BY DEF StoreInv, Opened
  <2> QED
    BY <2>1, <2>2, <2>3, <2>4, <2>5 DEF Opened
<1>9. Ended(e, n)
  <2>1. \A q \in Requests : ~e.req[q].conflict
    BY DEF StoreInv, Ended, NoReq
  <2>2. \A k, j \in e.log : k.req = j.req /\ k.kind = "terminal" =>
          (j.kind = "terminal" => j = k) /\ (j.id > k.id => j.kind = "frame")
    BY DEF StoreInv, Ended
  <2>3. \A k \in e.log : k.kind = "terminal" /\ Terminal(e, k.req) => e.req[k.req].terminal = k.id
    BY <1>1, <1>2 DEF StoreInv, Ended
  <2>4. \A q \in Requests : Terminal(e, q) => e.req[q].terminal < n
    BY <1>2 DEF StoreInv, Ended
  <2>5. \A m \in Pending(e) : Terminal(e, m.req) =>
          m.kind = "frame" /\ m.id > e.req[m.req].terminal
    BY <1>1, <1>2, <1>3 DEF StoreInv, Ended, Pending
  <2> QED
    BY <2>1, <2>2, <2>3, <2>4, <2>5 DEF Ended
<1>10. Deleting(e)
  <2>1. \A q \in Requests : e.req[q].deleting => Terminal(e, q)
    BY <1>2 DEF StoreInv, Deleting, NoReq
  <2>2. \A q \in Requests : Known(e, q) /\ e.conv[ConvOf(e, q)].deleting => Terminal(e, q)
    BY <1>2, <2>1 DEF StoreInv, Deleting, Opened, NoConv
  <2> QED
    BY <2>1, <2>2 DEF Deleting
<1>11. ASSUME NEW k \in Requests, NEW x \in Accounts, Says(e, k, x)
      PROVE  Says(d, k, x)
  <2>1. ASSUME NEW q \in Requests, ConvOf(e, q) = k, x \in {e.row[q].account, e.req[q].account}
        PROVE  Says(d, k, x)
    BY <1>2, <1>11, <2>1 DEF Says
  <2>2. ASSUME NEW p \in e.log, ConvOf(e, p.req) = k, p.account = x
        PROVE  Says(d, k, x)
    BY <1>1, <1>2, <1>11, <2>2 DEF Says
  <2>3. ASSUME NEW q \in Requests, e.link[q].conv = k, e.link[q].account = x
        PROVE  Says(d, k, x)
    <3>1. e.link[q] = d.link[q]
      BY <2>3, Kind DEF NoLink
    <3> QED
      BY <1>11, <2>3, <3>1 DEF Says
  <2>4. ASSUME e.conv[k].account = x
        PROVE  Says(d, k, x)
    BY <1>11, <2>4, Kind DEF Says, NoConv
  <2> QED
    BY <1>11, <2>1, <2>2, <2>3, <2>4 DEF Says
<1>12. Named(e)
  <2>2. \A q \in Requests : Stored(e, q) => e.req[q].account = e.row[q].account
    BY <1>2 DEF StoreInv, Named
  <2>3. \A q \in Requests : Known(e, q) /\ e.conv[ConvOf(e, q)].open =>
          e.conv[ConvOf(e, q)].account = e.row[q].account
    BY <1>2 DEF StoreInv, Named, Opened, NoConv
  <2>4. \A q \in Requests : Known(e, q) =>
          \A x \in Accounts : Says(e, ConvOf(e, q), x) => e.row[q].account = x
    BY <1>2, <1>11 DEF StoreInv, Named, Opened
  <2> QED
    BY <1>11, <2>2, <2>3, <2>4 DEF StoreInv, Named
<1>13. Follows(d, e) /\ Agreeing(d, e)
  <2>1. ASSUME NEW q \in Requests, Untouched(d, q)
        PROVE  Untouched(e, q)
    <3>1. e.row[q] = NoRow /\ e.req[q] = NoReq
      BY <2>1 DEF Untouched
    <3>2. e.conv[q] = NoConv /\ e.link[q] = NoLink
      BY <2>1 DEF Untouched
    <3>3. NoRow.conv # q /\ NoLink.conv # q
      BY Kind DEF NoRow, NoLink
    <3>4. \A p \in Requests : e.row[p].conv # q /\ e.link[p].conv # q
      BY <2>1, <3>3 DEF Untouched
    <3> QED
      BY <3>1, <3>2, <3>4 DEF Untouched
  <2>2. \A q \in Requests : Over(e, q) => Over(d, q)
    BY <1>2 DEF Over
  <2>3. \A q \in Requests : Known(e, q) /\ Over(d, q) => Over(e, q)
    BY <1>1, <1>2 DEF Over
  <2>4. \A m \in d.log : m \in e.log \/ Terminal(d, m.req)
    OBVIOUS
  <2>5. Follows(d, e)
    BY <1>2, <1>3, <2>1, <2>2, <2>3, <2>4 DEF Follows
  <2>6. Agreeing(d, e)
    BY <1>2, <1>11 DEF Agreeing
  <2> QED
    BY <2>5, <2>6
<1> QED
  BY <1>4, <1>5, <1>6, <1>7, <1>8, <1>9, <1>10, <1>12, <1>13 DEF StoreInv

\* Deleting one payload with its receipt and its record keeps the invariant.
LEMMA ExpireKeeps ==
  ASSUME NEW d, NEW n, NEW t, StoreInv(d, n, t), NEW m \in d.log, m.id \in d.payloads,
         NEW e \in Database, e.row = d.row, e.req = d.req, e.conv = d.conv, e.link = d.link,
         e.affinity = d.affinity, e.log = d.log \ {m}, e.receipts = d.receipts \ {m.id},
         e.payloads = d.payloads \ {m.id}
  PROVE  StoreInv(e, n, t)
<1>1. /\ \A q : Known(e, q) <=> Known(d, q)
      /\ \A q : ConvOf(e, q) = ConvOf(d, q)
      /\ \A q : Linked(e, q) <=> Linked(d, q)
      /\ \A q : Stored(e, q) <=> Stored(d, q)
      /\ \A q : Terminal(e, q) <=> Terminal(d, q)
      /\ \A c : StoredIn(e, c) = StoredIn(d, c)
  BY SameRows
<1>2. m.kind # "accepted"
  BY DEF StoreInv, Whole, Payloads
<1>3. \A k \in e.log : k \in d.log /\ k.id # m.id
  BY DEF StoreInv, Numbered
<1>4. Pending(e) \subseteq Pending(d)
  BY <1>3 DEF Pending
<1>5. TypesOK(e) /\ Numbered(e, n, t) /\ Carried(e)
  <2>1. IsFiniteSet(e.log)
    BY FS_Subset DEF StoreInv, TypesOK
  <2> QED
    BY <2>1 DEF StoreInv, TypesOK, Numbered, Carried
<1>6. Whole(e)
  BY <1>1, <1>3 DEF StoreInv, Whole, Ids
<1>7. AcceptedFirst(e)
  BY <1>1, <1>2 DEF StoreInv, AcceptedFirst
<1>8. Materialized(e)
  BY <1>1, <1>3 DEF StoreInv, Materialized
<1>9. Opened(e) /\ Deleting(e) /\ Counted(e)
  BY <1>1 DEF StoreInv, Opened, Deleting, Counted
<1>10. Ended(e, n)
  BY <1>1, <1>4 DEF StoreInv, Ended
<1>11. Named(e)
  BY SameNames DEF StoreInv
<1> QED
  BY <1>5, <1>6, <1>7, <1>8, <1>9, <1>10, <1>11 DEF StoreInv

\* A conversation or a request is marked: every request it holds has ended.
LEMMA MarkKeeps ==
  ASSUME NEW d, NEW n, NEW t, StoreInv(d, n, t), NEW e \in Database,
         e.row = d.row, e.link = d.link, e.affinity = d.affinity,
         e.log = d.log, e.receipts = d.receipts, e.payloads = d.payloads,
         \A q \in Requests :
           /\ e.req[q].account = d.req[q].account /\ e.req[q].status = d.req[q].status
           /\ e.req[q].terminal = d.req[q].terminal /\ e.req[q].conflict = d.req[q].conflict
           /\ e.req[q].deleting => d.req[q].deleting \/ Terminal(d, q)
           /\ d.req[q].deleting => e.req[q].deleting
           /\ d.req[q] = NoReq => e.req[q] = NoReq,
         \A c \in Requests :
           /\ e.conv[c].open = d.conv[c].open /\ e.conv[c].account = d.conv[c].account
           /\ e.conv[c].count = d.conv[c].count
           /\ d.conv[c].deleting => e.conv[c].deleting
           /\ e.conv[c].deleting => d.conv[c].deleting \/ \A q \in Members(d, c) : Terminal(d, q)
           /\ d.conv[c] = NoConv => e.conv[c] = NoConv
  PROVE  StoreInv(e, n, t) /\ Follows(d, e) /\ Agreeing(d, e) /\ Lasting(d, e)
<1>1. d \in Database /\ \A m \in d.log : m.req \in Requests /\ m.id \in Nat
  BY RecordFacts DEF StoreInv, TypesOK
<1>2. \A q \in Requests :
        /\ Known(e, q) <=> Known(d, q)
        /\ ConvOf(e, q) = ConvOf(d, q)
        /\ Linked(e, q) <=> Linked(d, q)
        /\ Terminal(e, q) <=> Terminal(d, q)
  BY DEF Known, ConvOf, Linked, Terminal
<1>3. ASSUME NEW q \in Requests
      PROVE  Stored(e, q) <=> Stored(d, q)
  <2>1. ASSUME Stored(d, q)
        PROVE  Stored(e, q)
    <3>1. d.req[q].status # "none"
      BY <2>1 DEF StoreInv, Materialized
    <3>2. e.req[q].status # "none"
      BY <3>1
    <3>3. NoReq.status = "none"
      BY DEF NoReq
    <3> QED
      BY <3>2, <3>3 DEF Stored
  <2>2. ASSUME ~Stored(d, q)
        PROVE  ~Stored(e, q)
    BY <2>2 DEF Stored
  <2> QED
    BY <2>1, <2>2
<1>4. \A c : StoredIn(e, c) = StoredIn(d, c)
  BY <1>2, <1>3 DEF StoredIn, Members
<1>5. Pending(e) = Pending(d)
  BY DEF Pending
<1>6. TypesOK(e) /\ Numbered(e, n, t) /\ Carried(e) /\ Whole(e) /\ AcceptedFirst(e)
  BY <1>1, <1>2 DEF StoreInv, TypesOK, Numbered, Carried, Whole, AcceptedFirst
<1>7. Materialized(e) /\ Opened(e)
  BY <1>1, <1>2, <1>3 DEF StoreInv, Materialized, Opened
<1>8. Ended(e, n)
  <2>1. \A q \in Requests : ~e.req[q].conflict
    BY DEF StoreInv, Ended
  <2> QED
    BY <1>1, <1>2, <1>5, <2>1 DEF StoreInv, Ended, Pending
<1>9. Deleting(e)
  BY <1>2 DEF StoreInv, Deleting, Opened, Members
<1>10. Counted(e)
  BY <1>4 DEF StoreInv, Counted
<1>11. ASSUME NEW k \in Requests, NEW x \in Accounts, Says(e, k, x)
      PROVE  Says(d, k, x)
  BY <1>1, <1>2, <1>11 DEF Says
<1>12. Named(e)
  <2> QED
    BY <1>2, <1>3, <1>11 DEF StoreInv, Named, Opened
<1>13. Follows(d, e) /\ Agreeing(d, e) /\ Lasting(d, e)
  <2>1. \A q \in Requests : Untouched(d, q) => Untouched(e, q)
    BY DEF Untouched
  <2>2. \A q \in Requests : Over(e, q) <=> Over(d, q)
    BY <1>2 DEF Over
  <2>5. Follows(d, e)
    BY <1>2, <1>5, <2>1, <2>2 DEF Follows
  <2>6. Agreeing(d, e)
    BY <1>2, <1>11 DEF Agreeing
  <2>7. Lasting(d, e)
    BY <1>2 DEF Lasting
  <2> QED
    BY <2>5, <2>6, <2>7
<1> QED
  BY <1>6, <1>7, <1>8, <1>9, <1>10, <1>12, <1>13 DEF StoreInv

\* A new database has the invariant.
LEMMA EmptyStore == StoreInv(EmptyDatabase, 1, 0)
<1> DEFINE d == EmptyDatabase
<1>1. d \in Database
  BY Kind DEF Database, EmptyDatabase, NoRow, NoReq, NoConv, NoLink, NoAffinity, Row, Req, Conv,
              Link, Affinity, MaybeAccount
<1>2. /\ \A r \in Requests : /\ d.row[r] = NoRow /\ d.req[r] = NoReq /\ d.conv[r] = NoConv
                             /\ d.link[r] = NoLink
      /\ \A s \in Sessions : d.affinity[s] = NoAffinity
      /\ d.log = {} /\ d.receipts = {} /\ d.payloads = {}
  BY DEF EmptyDatabase
<1> HIDE DEF d
<1>3. \A r \in Requests : ~Known(d, r) /\ ~Stored(d, r) /\ ~Terminal(d, r) /\ ~Linked(d, r)
  <2>1. NoReq.status = "none" /\ "none" \notin Outcomes
    BY Kind DEF NoReq
  <2> QED
    BY <1>2, <2>1 DEF Known, Stored, Terminal, Linked
<1>4. Pending(d) = {}
  BY <1>2 DEF Pending
<1>5. TypesOK(d) /\ Numbered(d, 1, 0) /\ Carried(d) /\ Whole(d) /\ AcceptedFirst(d)
  BY <1>1, <1>2, <1>3, FS_EmptySet DEF TypesOK, Numbered, Carried, Whole, AcceptedFirst
<1>6. Materialized(d) /\ Opened(d)
  BY <1>2, <1>3 DEF Materialized, Opened
<1>7. Ended(d, 1)
  BY <1>2, <1>3, <1>4 DEF Ended, NoReq
<1>8. Deleting(d) /\ Counted(d)
  BY <1>2, <1>3 DEF Deleting, Counted, NoReq, NoConv
<1>9. Named(d)
  BY <1>2, <1>3, Kind DEF Named, Says, ConvOf, NoRow, NoReq, NoLink, NoConv
<1> QED
  BY <1>5, <1>6, <1>7, <1>8, <1>9 DEF StoreInv, d

\* Time passes.
LEMMA LaterKeeps ==
  ASSUME NEW d, NEW n, NEW t \in Nat, StoreInv(d, n, t)
  PROVE  StoreInv(d, n, t + 1)
<1>1. \A m \in d.log : m.at \in Nat
  BY RecordFacts
<1>2. \A m \in d.log : m.at <= t + 1
  BY <1>1 DEF StoreInv, Numbered
<1>3. Numbered(d, n, t + 1)
  BY <1>2 DEF StoreInv, Numbered
<1> QED
  BY <1>3 DEF StoreInv

-----------------------------------------------------------------------------
(* One transaction after another, and what materializes a record *)

\* What transactions leave of the rest, they leave together.
LEMMA FollowsTrans ==
  ASSUME NEW d, NEW e, NEW f, Follows(d, e), Follows(e, f), f.log = e.log
  PROVE  Follows(d, f)
  BY DEF Follows

\* Marks last through two transactions.
LEMMA LastingTrans ==
  ASSUME NEW d, NEW e, NEW f, Lasting(d, e), Lasting(e, f)
  PROVE  Lasting(d, f)
  BY DEF Lasting

\* Two transactions that bind nothing bind nothing.
LEMMA AgreeingTrans ==
  ASSUME NEW d, NEW e, NEW f, Agreeing(d, e), Agreeing(e, f), Follows(e, f)
  PROVE  Agreeing(d, f)
  BY DEF Agreeing, Follows

\* Binding request r to account a and session s.
LEMMA BindingKeeps ==
  ASSUME NEW d, NEW n, NEW t, StoreInv(d, n, t), NEW r \in Requests, Stored(d, r),
         NEW a \in Accounts, CanPropagate(d, ConvOf(d, r), a), NEW s \in MaybeSession
  PROVE  LET c == ConvOf(d, r)
             e == Attach(Propagate(d, c, a), s, a, d.conv[c].expires)
         IN  /\ StoreInv(e, n, t) /\ Follows(d, e) /\ Lasting(d, e) /\ e.log = d.log
             /\ e \in Database /\ e.receipts = d.receipts
             /\ \A x \in Accounts : Says(e, c, x) => x = a
             /\ \A k \in Requests : k # c => \A x \in Accounts : Says(e, k, x) => Says(d, k, x)
             /\ \A q \in Requests :
                  e.row[q].account = IF ConvOf(d, q) = c THEN a ELSE d.row[q].account
             /\ \A q \in Requests :
                  /\ Known(e, q) <=> Known(d, q)
                  /\ ConvOf(e, q) = ConvOf(d, q)
                  /\ Linked(e, q) <=> Linked(d, q)
                  /\ Stored(e, q) <=> Stored(d, q)
                  /\ Terminal(e, q) <=> Terminal(d, q)
             /\ \A k \in Sessions : e.affinity[k] =
                  IF k = s THEN [account |-> a, expires |-> d.conv[c].expires] ELSE d.affinity[k]
<1> DEFINE c == ConvOf(d, r)
           f == Propagate(d, c, a)
           x == d.conv[c].expires
           e == Attach(f, s, a, x)
<1>1. /\ f \in Database /\ c \in Requests
      /\ f.log = d.log /\ f.receipts = d.receipts /\ f.payloads = d.payloads
      /\ f.affinity = d.affinity
      /\ Propagated(d, f, c, a)
  BY PropagateRows
<1>2. /\ StoreInv(f, n, t) /\ Follows(d, f) /\ Lasting(d, f)
      /\ \A y \in Accounts : Says(f, c, y) => y = a
      /\ \A k \in Requests : k # c => \A y \in Accounts : Says(f, k, y) => Says(d, k, y)
  BY PropagateKeeps
<1>3. x \in Nat /\ a \in MaybeAccount
  BY <1>1, RowTypes DEF StoreInv, TypesOK, Conv, MaybeAccount
<1>4. \A q : ConvOf(d, q) = d.row[q].conv
  BY DEF ConvOf
<1> HIDE DEF f, c, x
<1>5. /\ e \in Database
      /\ e.row = f.row /\ e.req = f.req /\ e.conv = f.conv /\ e.link = f.link
      /\ e.log = f.log /\ e.receipts = f.receipts /\ e.payloads = f.payloads
      /\ \A k \in Sessions : e.affinity[k] =
           IF k = s THEN [account |-> a, expires |-> x] ELSE f.affinity[k]
  BY <1>1, <1>3, AttachFields
<1> HIDE DEF e
<1>6. StoreInv(e, n, t)
  BY <1>2, <1>5, AttachKeeps
<1>7. Pending(e) = Pending(f)
  BY <1>5 DEF Pending
<1>8. Follows(f, e) /\ Lasting(f, e)
  BY <1>2, <1>5, <1>7, SameFollow
<1>9. Follows(d, e) /\ Lasting(d, e)
  BY <1>2, <1>5, <1>8, FollowsTrans, LastingTrans
<1>10. /\ \A q : ConvOf(e, q) = ConvOf(f, q)
       /\ \A q : (Known(e, q) <=> Known(f, q)) /\ (Linked(e, q) <=> Linked(f, q))
       /\ \A q : (Stored(e, q) <=> Stored(f, q)) /\ (Terminal(e, q) <=> Terminal(f, q))
  BY <1>5, SameRows
<1>11. \A k, y : Says(e, k, y) <=> Says(f, k, y)
  BY <1>5, <1>10 DEF Says
<1>12. \A q \in Requests :
         /\ e.row[q].account = IF ConvOf(d, q) = c THEN a ELSE d.row[q].account
         /\ Known(e, q) <=> Known(d, q)
         /\ ConvOf(e, q) = ConvOf(d, q)
         /\ Linked(e, q) <=> Linked(d, q)
         /\ Stored(e, q) <=> Stored(d, q)
         /\ Terminal(e, q) <=> Terminal(d, q)
  BY <1>1, <1>4, <1>5, <1>10 DEF Propagated
<1>13. \A k \in Sessions : e.affinity[k] =
         IF k = s THEN [account |-> a, expires |-> x] ELSE d.affinity[k]
  BY <1>1, <1>5
<1> QED
  BY <1>1, <1>2, <1>5, <1>6, <1>9, <1>11, <1>12, <1>13 DEF e, f, c, x

\* A conversation that has the account already does not change.
LEMMA BindingAgrees ==
  ASSUME NEW d, NEW n, NEW t, StoreInv(d, n, t), NEW r \in Requests, Stored(d, r),
         NEW a \in Accounts, CanPropagate(d, ConvOf(d, r), a), NEW s \in MaybeSession,
         d.row[r].account = a
  PROVE  LET c == ConvOf(d, r) IN
         Agreeing(d, Attach(Propagate(d, c, a), s, a, d.conv[c].expires))
<1> DEFINE c == ConvOf(d, r)
           e == Attach(Propagate(d, c, a), s, a, d.conv[c].expires)
<1>0. /\ StoreInv(e, n, t) /\ Follows(d, e) /\ Lasting(d, e) /\ e.log = d.log
      /\ e \in Database /\ e.receipts = d.receipts
      /\ \A x \in Accounts : Says(e, c, x) => x = a
      /\ \A k \in Requests : k # c => \A x \in Accounts : Says(e, k, x) => Says(d, k, x)
      /\ \A q \in Requests :
           e.row[q].account = IF ConvOf(d, q) = c THEN a ELSE d.row[q].account
      /\ \A q \in Requests :
           /\ Known(e, q) <=> Known(d, q)
           /\ ConvOf(e, q) = ConvOf(d, q)
           /\ Linked(e, q) <=> Linked(d, q)
           /\ Stored(e, q) <=> Stored(d, q)
           /\ Terminal(e, q) <=> Terminal(d, q)
      /\ \A k \in Sessions : e.affinity[k] =
           IF k = s THEN [account |-> a, expires |-> d.conv[c].expires] ELSE d.affinity[k]
  BY BindingKeeps
<1>1. /\ \A x \in Accounts : Says(e, c, x) => x = a
      /\ \A k \in Requests : k # c => \A x \in Accounts : Says(e, k, x) => Says(d, k, x)
      /\ \A q \in Requests :
           e.row[q].account = IF ConvOf(d, q) = c THEN a ELSE d.row[q].account
      /\ \A q \in Requests : Known(e, q) <=> Known(d, q)
  <2> HIDE DEF e
  <2> QED
    BY <1>0
<1>2. Says(d, c, a)
  BY Kind DEF Says
<1> HIDE DEF e
<1>3. \A q \in Requests : Known(d, q) /\ ConvOf(d, q) = c => d.row[q].account = a
  BY <1>2 DEF StoreInv, Named
<1> QED
  BY <1>1, <1>2, <1>3 DEF Agreeing, e

\* A session that has an account at time t keeps it.
LEMMA StickyAttach ==
  ASSUME NEW d, NEW n, NEW t, StoreInv(d, n, t), NEW s \in MaybeSession, NEW a \in Accounts,
         NEW at \in Nat, CanAttach(d, s, a, at), NEW e, NEW x, NEW time \in Nat, at <= time,
         \A k \in Sessions : e.affinity[k] =
           IF k = s THEN [account |-> a, expires |-> x] ELSE d.affinity[k]
  PROVE  \A k \in Sessions : d.affinity[k].expires > time =>
           e.affinity[k].account = d.affinity[k].account
<1> SUFFICES ASSUME NEW k \in Sessions, d.affinity[k].expires > time, k = s
             PROVE  d.affinity[k].account = a
  OBVIOUS
<1>1. d.affinity[k].expires \in Nat
  BY RowTypes DEF StoreInv, TypesOK, Affinity
<1>2. d.affinity[k].account \in {None, a}
  BY <1>1, Kind DEF CanAttach
<1>3. d.affinity[k] # NoAffinity
  BY <1>1 DEF NoAffinity
<1> QED
  BY <1>2, <1>3, Kind DEF StoreInv, Opened

\* The least of some numbers.
LEMMA LeastNat ==
  ASSUME NEW T, T \subseteq Nat, T # {}
  PROVE  \E x \in T : \A y \in T : x <= y
<1> DEFINE R == OpToRel(<, Nat)
<1>1. IsWellFoundedOn(R, Nat)
  BY NatLessThanWellFounded
<1>2. R = {ss \in Nat \X Nat : ss[1] < ss[2]}
  BY DEF OpToRel
<1> HIDE DEF R
<1>3. PICK x \in T : \A y \in T : ~(<<y, x>> \in R)
  BY <1>1, WFMin
<1>4. ASSUME NEW y \in T
      PROVE  x <= y
  <2>1. x \in Nat /\ y \in Nat
    OBVIOUS
  <2>2. ~(y < x)
    BY <1>2, <1>3, <2>1
  <2> QED
    BY <2>1, <2>2
<1> QED
  BY <1>4

\* A receipt leaves everything else.
LEMMA ReceiveFollows ==
  ASSUME NEW d, NEW n, NEW t, StoreInv(d, n, t), NEW m \in d.log,
         m.kind = "accepted" => Stored(d, m.req)
  PROVE  LET e == Receive(d, m) IN
         /\ StoreInv(e, n, t) /\ Follows(d, e) /\ Agreeing(d, e) /\ Lasting(d, e)
         /\ e \in Database /\ e.log = d.log /\ e.affinity = d.affinity /\ m.id \in e.receipts
<1> DEFINE e == Receive(d, m)
<1>1. d \in Database /\ m \in Entry /\ m.id \in Nat
  BY RecordFacts
<1>2. /\ e \in Database /\ e.row = d.row /\ e.req = d.req /\ e.conv = d.conv
      /\ e.link = d.link /\ e.affinity = d.affinity
      /\ e.log = d.log /\ e.receipts = d.receipts \cup {m.id}
  BY <1>1, ReceiveFields
<1>3. StoreInv(e, n, t)
  BY ReceiveKeeps
<1> HIDE DEF e
<1>4. Pending(e) \subseteq Pending(d)
  BY <1>2 DEF Pending
<1>5. Follows(d, e) /\ Agreeing(d, e) /\ Lasting(d, e)
  BY <1>2, <1>4, SameFollow
<1> QED
  BY <1>2, <1>3, <1>5 DEF e

\* What a replayed binding does: the conversation has its account already.
LEMMA BindAgainKeeps ==
  ASSUME NEW d, NEW n, NEW t \in Nat, StoreInv(d, n, t), NEW m \in d.log, m.kind = "bound",
         CanBindAgain(d, m)
  PROVE  LET e == BindAgain(d, m) IN
         /\ StoreInv(e, n, t) /\ Follows(d, e) /\ Agreeing(d, e) /\ Lasting(d, e)
         /\ e.log = d.log
         /\ \A s \in Sessions : d.affinity[s].expires > t =>
              e.affinity[s].account = d.affinity[s].account
<1> DEFINE r == m.req
           a == m.account
           s == m.session
           c == ConvOf(d, r)
           e == Attach(Propagate(d, c, a), s, a, d.conv[c].expires)
<1>1. /\ d \in Database /\ m \in Entry /\ r \in Requests /\ m.at \in Nat /\ Known(d, r)
      /\ c \in Requests
  BY RecordFacts
<1>2. a \in Accounts /\ m.at <= t /\ s \in MaybeSession
  BY <1>1 DEF StoreInv, Carried, Numbered, Entry
<1>3. Says(d, c, a)
  BY <1>2, Kind DEF Says
<1>4. d.row[r].account = a
  BY <1>1, <1>2, <1>3 DEF StoreInv, Named
<1>5. Stored(d, r) /\ CanPropagate(d, c, a) /\ CanAttach(d, s, a, m.at)
  BY DEF CanBindAgain
<1>6. BindAgain(d, m) = e
  BY DEF BindAgain
<1> HIDE DEF r, a, s
<1>7. /\ StoreInv(e, n, t) /\ Follows(d, e) /\ Lasting(d, e) /\ e.log = d.log
      /\ e \in Database /\ e.receipts = d.receipts
      /\ \A x \in Accounts : Says(e, c, x) => x = a
      /\ \A k \in Requests : k # c => \A x \in Accounts : Says(e, k, x) => Says(d, k, x)
      /\ \A q \in Requests :
           e.row[q].account = IF ConvOf(d, q) = c THEN a ELSE d.row[q].account
      /\ \A q \in Requests :
           /\ Known(e, q) <=> Known(d, q)
           /\ ConvOf(e, q) = ConvOf(d, q)
           /\ Linked(e, q) <=> Linked(d, q)
           /\ Stored(e, q) <=> Stored(d, q)
           /\ Terminal(e, q) <=> Terminal(d, q)
      /\ \A k \in Sessions : e.affinity[k] =
           IF k = s THEN [account |-> a, expires |-> d.conv[c].expires] ELSE d.affinity[k]
  BY <1>1, <1>2, <1>5, BindingKeeps
<1>8. Agreeing(d, e)
  BY <1>1, <1>2, <1>4, <1>5, BindingAgrees
<1>9. \A k \in Sessions : d.affinity[k].expires > t => e.affinity[k].account = d.affinity[k].account
  <2> HIDE DEF e
  <2> QED
    BY <1>1, <1>2, <1>5, <1>7, StickyAttach
<1> HIDE DEF e
<1> QED
  BY <1>6, <1>7, <1>8, <1>9

\* The record that is materialized is the oldest one its request has pending.
LEMMA MaterializeKeeps ==
  ASSUME NEW d, NEW n, NEW t \in Nat, StoreInv(d, n, t), NEW m \in Pending(d), Applies(d, m),
         \A k \in Pending(d) : k.req = m.req => m.id <= k.id
  PROVE  LET e == Materialize(d, m) IN
         /\ StoreInv(e, n, t) /\ Follows(d, e) /\ Agreeing(d, e) /\ Lasting(d, e)
         /\ e \in Database /\ e.log = d.log /\ m.id \in e.receipts
         /\ \A s \in Sessions : d.affinity[s].expires > t =>
              e.affinity[s].account = d.affinity[s].account
<1> DEFINE f == Effect(d, m)
           e == Receive(f, m)
<1>1. Materialize(d, m) = e
  BY DEF Materialize, Receive
<1>2. m \in d.log /\ m.id \notin d.receipts
  BY DEF Pending
<1>3. /\ d \in Database /\ m \in Entry /\ m.req \in Requests /\ m.id \in Nat
      /\ Known(d, m.req) /\ ConvOf(d, m.req) \in Requests /\ d.row[m.req].account \in MaybeAccount
  BY <1>2, RecordFacts
<1>4. CASE m.kind = "terminal"
  <2>1. f = End(d, m) /\ Owned(d, m.req)
    BY <1>4 DEF Effect, Applies
  <2>2. /\ StoreInv(e, n, t) /\ Follows(d, e) /\ Agreeing(d, e) /\ Lasting(d, e)
        /\ e.log = d.log /\ e.affinity = d.affinity /\ m.status \in Outcomes /\ ~Terminal(d, m.req)
    <3> HIDE DEF f
    <3> QED
      BY <1>4, <2>1, TerminalKeeps
  <2>3. f \in Database
    <3> HIDE DEF f
    <3> QED
      BY <1>3, <2>1, <2>2, EndFields
  <2>4. e \in Database /\ e.receipts = f.receipts \cup {m.id}
    BY <1>3, <2>3, ReceiveFields
  <2> HIDE DEF e, f
  <2> QED
    BY <1>1, <2>2, <2>4
<1>5. ASSUME StoreInv(f, n, t), Follows(d, f), Agreeing(d, f), Lasting(d, f), f.log = d.log,
             m.kind = "accepted" => Stored(f, m.req),
             \A s \in Sessions : d.affinity[s].expires > t =>
               f.affinity[s].account = d.affinity[s].account
      PROVE  /\ StoreInv(e, n, t) /\ Follows(d, e) /\ Agreeing(d, e) /\ Lasting(d, e)
             /\ e \in Database /\ e.log = d.log /\ m.id \in e.receipts
             /\ \A s \in Sessions : d.affinity[s].expires > t =>
                  e.affinity[s].account = d.affinity[s].account
  <2> HIDE DEF f
  <2>1. /\ StoreInv(e, n, t) /\ Follows(f, e) /\ Agreeing(f, e) /\ Lasting(f, e)
        /\ e \in Database /\ e.log = f.log /\ e.affinity = f.affinity /\ m.id \in e.receipts
    BY <1>2, <1>5, ReceiveFollows
  <2> HIDE DEF e
  <2>2. Follows(d, e) /\ Agreeing(d, e) /\ Lasting(d, e)
    BY <1>5, <2>1, FollowsTrans, AgreeingTrans, LastingTrans
  <2> QED
    BY <1>5, <2>1, <2>2
<1>6. CASE m.kind = "accepted"
  <2>1. f = Accept(d, m, d.row[m.req].account) /\ CanAccept(d, m, d.row[m.req].account)
    BY <1>6 DEF Effect, Applies
  <2>2. ~Stored(d, m.req)
    BY <1>2, <1>6 DEF StoreInv, Materialized
  <2> HIDE DEF f
  <2>3. StoreInv(f, n, t) /\ Follows(d, f) /\ Agreeing(d, f) /\ Lasting(d, f)
    BY <1>2, <1>6, <2>1, <2>2, AcceptKeeps
  <2>4. /\ f.log = d.log /\ f.affinity = d.affinity
        /\ f.req[m.req] = Started(d.req[m.req], m, d.row[m.req].account)
    BY <1>3, <2>1, AcceptFields
  <2>5. Stored(f, m.req)
    <3>1. d.req[m.req] = NoReq /\ d.req[m.req] \in Req
      BY <1>3, <2>2, RowTypes DEF Stored
    <3>2. f.req[m.req].status = "running"
      BY <1>3, <2>4, <3>1, StartedType
    <3> QED
      BY <3>2 DEF Stored, NoReq
  <2> HIDE DEF e
  <2> QED
    BY <1>1, <1>5, <2>3, <2>4, <2>5
<1>7. CASE m.kind = "bound"
  <2>1. f = BindAgain(d, m) /\ CanBindAgain(d, m)
    BY <1>7 DEF Effect, Applies
  <2> HIDE DEF f
  <2>2. /\ StoreInv(f, n, t) /\ Follows(d, f) /\ Agreeing(d, f) /\ Lasting(d, f) /\ f.log = d.log
        /\ \A s \in Sessions : d.affinity[s].expires > t =>
             f.affinity[s].account = d.affinity[s].account
    BY <1>2, <1>7, <2>1, BindAgainKeeps
  <2> HIDE DEF e
  <2> QED
    BY <1>1, <1>5, <1>7, <2>2
<1>8. CASE m.kind \notin {"accepted", "bound", "terminal"}
  <2>1. f = d
    <3>1. m.kind = "answer" => LinkAnswer(d, m.req, d.row[m.req].account, m.at) = d
      BY <1>2 DEF StoreInv, Materialized, LinkAnswer
    <3> QED
      BY <1>8, <3>1 DEF Effect
  <2>2. Follows(d, d) /\ Agreeing(d, d) /\ Lasting(d, d)
    BY SameFollow
  <2> HIDE DEF f, e
  <2> QED
    BY <1>1, <1>5, <1>8, <2>1, <2>2
<1> QED
  BY <1>4, <1>6, <1>7, <1>8

-----------------------------------------------------------------------------
(* The invariant of the process *)

Begun(r) == handler[r].pc \notin {"none", "arrived"}

Fresh ==
    \A r \in Requests : ~Begun(r) =>
      /\ Untouched(db, r) /\ states[r] = NoState /\ \A q \in Requests : states[q].conv # r
      /\ handler[r].binds = 0 /\ ~handler[r].marked

Memory ==
    /\ \A r \in Requests : IF states[r].known THEN states[r].conv \in Requests
                           ELSE states[r] = NoState
    /\ \A r \in Requests : states[r].known /\ Known(db, r) =>
         states[r].conv = ConvOf(db, r) /\ states[r].account = db.row[r].account
    /\ \A r \in Requests : states[r].known =>
         \A x \in Accounts : states[r].account # None /\ Says(db, states[r].conv, x)
           => states[r].account = x
    /\ \A r, q \in Requests :
         /\ states[r].known /\ states[q].known /\ states[r].conv = states[q].conv
         /\ states[r].account # None /\ states[q].account # None
         => states[r].account = states[q].account
    /\ \A r, q \in Requests :
         /\ states[r].known /\ Known(db, q) /\ ConvOf(db, q) = states[r].conv
         /\ states[r].account # None
         => states[r].account = db.row[q].account
    /\ \A r \in Requests : states[r].known /\ handler[r].binds > 0 => states[r].account # None

Progress ==
    /\ \A r \in Requests : handler[r].pc \in {"begun", "running"} =>
         states[r].known /\ ~handler[r].marked
    /\ \A r \in Requests : states[r].known => (states[r].terminal <=> handler[r].marked)
    /\ \A r \in Requests : states[r].known =>
         IF states[r].terminal THEN Known(db, r) => Over(db, r) ELSE ~Over(db, r)
    /\ mode \in {"down", "booting"} => \A r \in Requests : handler[r].pc \in {"none", "done"}

Sent ==
    /\ \A m \in sent : Begun(m.req)
    /\ \A m \in sent : Known(db, m.req) /\ ~Terminal(db, m.req) =>
         \E k \in db.log : k.id = m.id /\ k.req = m.req
    /\ \A r \in Requests : handler[r].pc = "writing" /\ Known(db, r) /\ ~Terminal(db, r) =>
         \E k \in db.log : k.id = handler[r].writing /\ k.req = r

Batched ==
    /\ \A b \in worker.batch : b.id < nextId
    /\ \A b \in worker.batch : \A k \in Pending(db) : k.id < b.id => k \in worker.batch

Recorded(d, r, kind) == \E m \in d.log : m.req = r /\ m.kind = kind
Read ==
    /\ ~Inputs => /\ \A m \in db.log : m.kind # "input"
                  /\ \A r \in Requests : handler[r].pc \notin {"begun", "running"}
    /\ now < PayloadTTL =>
         /\ \A r \in Requests : Known(db, r) /\ Linked(db, r) => Recorded(db, r, "answer")
         /\ \A r \in Requests : Known(db, r) /\ Inputs =>
              (Linked(db, r) \/ handler[r].pc \in {"open", "writing"} => Recorded(db, r, "input"))

Drained ==
    /\ mode \in {"down", "booting"} /\ drained => Pending(db) = {}
    /\ worker.pc = "booting" => mode = "booting"

\* What the journal keeps, whatever is being deleted.
Core ==
    /\ TypeOK /\ StoreInv(db, nextId, now)
    /\ Fresh /\ Memory /\ Progress /\ Sent /\ Batched /\ Read /\ Drained

Targeted ==
    /\ mode = "down" => job = NoJob
    /\ job.pc \in {"conversation files", "requests", "conversation"} =>
         db.conv[job.target].deleting
    /\ job.pc \in {"request files", "request rows"} =>
         Terminal(db, job.target) /\ db.req[job.target].deleting

Inv == RetentionTypeOK /\ Core /\ Targeted

\* What a step of the journal never does.
Calm ==
    /\ Lasting(db, db')
    /\ \A m \in db.log : m \in db'.log \/ Terminal(db, m.req)
    /\ \A s \in Sessions : db.affinity[s].expires > now =>
         db'.affinity[s].account = db.affinity[s].account

-----------------------------------------------------------------------------
(* What the parts need of a step.  N are the records it appends.           *)

Grows(d, e, N) ==
    /\ \A q \in Requests : Known(e, q) => Known(d, q) /\ ConvOf(e, q) = ConvOf(d, q)
    /\ \A q \in Requests : Untouched(d, q) => Untouched(e, q)
    /\ \A q \in Requests : Known(e, q) /\ Terminal(d, q) => Terminal(e, q)
    /\ \A q \in Requests : Known(e, q) /\ Over(d, q) => Over(e, q)
    /\ \A q \in Requests : Over(e, q) => Over(d, q) \/ \E m \in N : m.req = q /\ m.kind = "terminal"
    /\ \A q \in Requests : Known(e, q) /\ Linked(e, q) =>
         Linked(d, q) \/ \E m \in N : m.req = q /\ m.kind = "answer"
    /\ \A m \in d.log : m \in e.log \/ Terminal(d, m.req)
    /\ e.log \subseteq d.log \cup N /\ N \subseteq e.log
    /\ Pending(e) \subseteq Pending(d) \cup N

\* A transaction that follows appends nothing.
LEMMA FollowsGrows ==
  ASSUME NEW d, NEW e, Follows(d, e)
  PROVE  Grows(d, e, {})
  BY DEF Follows, Grows

\* So does none at all.
LEMMA SameGrows ==
  ASSUME NEW d
  PROVE  Grows(d, d, {}) /\ Agreeing(d, d) /\ Lasting(d, d)
  BY DEF Grows, Agreeing, Lasting

\* Appending one record, after a transaction that follows.
LEMMA AppendGrows ==
  ASSUME NEW d, NEW f \in Database, Follows(d, f), f.log = d.log, NEW m \in Entry
  PROVE  Grows(d, Append(f, m), {m})
<1> DEFINE e == Append(f, m)
<1>1. /\ e.log = d.log \cup {m} /\ e.row = f.row /\ e.req = f.req /\ e.conv = f.conv
      /\ e.link = f.link /\ e.receipts = f.receipts
  BY AppendFields
<1> HIDE DEF e
<1>2. /\ \A q : Known(e, q) <=> Known(f, q)
      /\ \A q : ConvOf(e, q) = ConvOf(f, q)
      /\ \A q : Linked(e, q) <=> Linked(f, q)
      /\ \A q : Terminal(e, q) <=> Terminal(f, q)
  BY <1>1, SameRows
<1>3. \A q \in Requests : Untouched(f, q) => Untouched(e, q)
  BY <1>1 DEF Untouched
<1>4. \A q \in Requests : Over(f, q) => Over(e, q)
  BY <1>1, <1>2 DEF Over, Follows
<1>5. \A q \in Requests : Over(e, q) => Over(f, q) \/ (m.req = q /\ m.kind = "terminal")
  BY <1>1, <1>2 DEF Over, Follows
<1>6. Pending(e) \subseteq Pending(f) \cup {m}
  BY <1>1 DEF Pending, Follows
<1> QED
  BY <1>1, <1>2, <1>3, <1>4, <1>5, <1>6 DEF Grows, Follows, e

-----------------------------------------------------------------------------
(* The parts, one by one *)

\* A handler goes on, or it is gone with what it remembers.
Onward ==
    \A r \in Requests :
      /\ Begun(r) => Begun(r)'
      /\ states'[r].conv \in {states[r].conv, None}
      /\ states[r] = NoState => states'[r] = NoState
      /\ ~Begun(r)' => handler'[r].binds = 0 /\ ~handler'[r].marked

\* What has not begun stays untouched.
LEMMA FreshKeeps ==
  ASSUME Fresh, Onward, NEW N, Grows(db, db', N)
  PROVE  Fresh'
<1> SUFFICES ASSUME NEW r \in Requests, ~Begun(r)'
             PROVE  /\ Untouched(db, r)' /\ states'[r] = NoState
                    /\ \A q \in Requests : states'[q].conv # r
                    /\ handler'[r].binds = 0 /\ ~handler'[r].marked
  BY DEF Fresh
<1>1. ~Begun(r)
  BY DEF Onward
<1>2. Untouched(db, r) /\ states[r] = NoState /\ \A q \in Requests : states[q].conv # r
  BY <1>1 DEF Fresh
<1>3. Untouched(db', r)
  BY <1>2 DEF Grows
<1>4. Untouched(db, r)'
  BY <1>3 DEF Untouched
<1> QED
  BY <1>2, <1>4, Kind DEF Onward

\* What a handler remembers of its accounts stays, or all of it goes.
Remembers ==
    \A r \in Requests :
      \/ states'[r] = NoState
      \/ /\ states[r].known /\ states'[r].known
         /\ states'[r].conv = states[r].conv /\ states'[r].account = states[r].account
         /\ handler'[r].binds = handler[r].binds

\* Memory goes on agreeing with the rows.
LEMMA MemoryKeeps ==
  ASSUME Memory, Remembers, NEW N, Grows(db, db', N), Agreeing(db, db')
  PROVE  Memory'
<1>1. ~NoState.known
  BY DEF NoState
<1>2. ASSUME NEW r \in Requests, states'[r].known
      PROVE  /\ states[r].known /\ states'[r].conv = states[r].conv
             /\ states'[r].account = states[r].account /\ handler'[r].binds = handler[r].binds
             /\ states[r].conv \in Requests
  BY <1>1, <1>2 DEF Remembers, Memory
<1>3. \A q \in Requests : Known(db', q) => /\ Known(db, q) /\ ConvOf(db', q) = ConvOf(db, q)
                                           /\ db'.row[q].account = db.row[q].account
  BY DEF Grows, Agreeing
<1>4. \A r \in Requests : IF states'[r].known THEN states'[r].conv \in Requests
                           ELSE states'[r] = NoState
  BY <1>2 DEF Remembers
<1>5. \A r \in Requests : states'[r].known /\ Known(db', r) =>
        states'[r].conv = ConvOf(db', r) /\ states'[r].account = db'.row[r].account
  BY <1>2, <1>3 DEF Memory
<1>6. \A r \in Requests : states'[r].known =>
        \A x \in Accounts : states'[r].account # None /\ Says(db', states'[r].conv, x)
          => states'[r].account = x
  BY <1>2 DEF Memory, Agreeing
<1>7. \A r, q \in Requests :
        /\ states'[r].known /\ states'[q].known /\ states'[r].conv = states'[q].conv
        /\ states'[r].account # None /\ states'[q].account # None
        => states'[r].account = states'[q].account
  BY <1>2 DEF Memory
<1>8. \A r, q \in Requests :
        /\ states'[r].known /\ Known(db', q) /\ ConvOf(db', q) = states'[r].conv
        /\ states'[r].account # None
        => states'[r].account = db'.row[q].account
  BY <1>2, <1>3 DEF Memory
<1>9. \A r \in Requests : states'[r].known /\ handler'[r].binds > 0 => states'[r].account # None
  BY <1>2 DEF Memory
<1> QED
  BY <1>4, <1>5, <1>6, <1>7, <1>8, <1>9 DEF Memory, Known, ConvOf, Says

\* A handler that runs was running, and remembers whether its request ended.
Runs ==
    /\ \A r \in Requests : handler'[r].pc \in {"begun", "running"} =>
         /\ handler[r].pc \in {"begun", "running"} /\ handler'[r].marked = handler[r].marked
         /\ states'[r] = states[r]
    /\ \A r \in Requests : states'[r].known =>
         states'[r] = states[r] /\ handler'[r].marked = handler[r].marked
    /\ mode' \in {"down", "booting"} => \A r \in Requests : handler'[r].pc \in {"none", "done"}

\* Handlers go on knowing whether their request has ended.
LEMMA ProgressKeeps ==
  ASSUME Progress, Runs, NEW N, Grows(db, db', N),
         \A m \in N : m.kind = "terminal" => ~states'[m.req].known
  PROVE  Progress'
<1>1. \A r \in Requests : handler'[r].pc \in {"begun", "running"} =>
        states'[r].known /\ ~handler'[r].marked
  BY DEF Progress, Runs
<1>2. \A r \in Requests : states'[r].known => (states'[r].terminal <=> handler'[r].marked)
  BY DEF Progress, Runs
<1>3. ASSUME NEW r \in Requests, states'[r].known
      PROVE  IF states'[r].terminal THEN Known(db', r) => Over(db', r) ELSE ~Over(db', r)
  <2>1. states'[r] = states[r]
    BY <1>3 DEF Runs
  <2>2. IF states[r].terminal THEN Known(db, r) => Over(db, r) ELSE ~Over(db, r)
    BY <1>3, <2>1 DEF Progress
  <2>3. /\ Known(db', r) => Known(db, r)
        /\ Known(db', r) /\ Over(db, r) => Over(db', r)
        /\ Over(db', r) => Over(db, r)
    BY <1>3 DEF Grows
  <2> QED
    BY <2>1, <2>2, <2>3
<1>4. mode' \in {"down", "booting"} => \A r \in Requests : handler'[r].pc \in {"none", "done"}
  BY DEF Runs
<1> QED
  BY <1>1, <1>2, <1>3, <1>4 DEF Progress, Known, Over, Terminal

\* No client write begins or ends.
Writes == \A r \in Requests :
            handler'[r].pc = "writing" => /\ handler[r].pc = "writing"
                                          /\ handler'[r].writing = handler[r].writing

\* What was sent stays in the log.
LEMMA SentKeeps ==
  ASSUME TypeOK, Sent, Onward, Writes, sent' = sent, NEW N, Grows(db, db', N)
  PROVE  Sent'
<1>1. \A m \in sent : m.req \in Requests
  BY DEF TypeOK
<1>2. \A m \in sent : Begun(m.req)'
  BY <1>1 DEF Sent, Onward
<1>3. ASSUME NEW r \in Requests, Known(db', r), ~Terminal(db', r), NEW k \in db.log, k.req = r
      PROVE  Known(db, r) /\ ~Terminal(db, r) /\ k \in db'.log
  BY <1>3 DEF Grows
<1>4. \A r \in Requests : Known(db', r) /\ ~Terminal(db', r) => Known(db, r) /\ ~Terminal(db, r)
  BY DEF Grows
<1>5. \A m \in sent : Known(db', m.req) /\ ~Terminal(db', m.req) =>
        \E k \in db'.log : k.id = m.id /\ k.req = m.req
  BY <1>1, <1>3, <1>4 DEF Sent
<1>6. \A r \in Requests : handler'[r].pc = "writing" /\ Known(db', r) /\ ~Terminal(db', r) =>
        \E k \in db'.log : k.id = handler'[r].writing /\ k.req = r
  BY <1>3, <1>4 DEF Sent, Writes
<1> QED
  BY <1>2, <1>5, <1>6 DEF Sent, Known, Terminal

\* What the worker loaded stays the oldest.
LEMMA BatchedKeeps ==
  ASSUME Core, worker'.batch \in {worker.batch, {}}, nextId' \in {nextId, nextId + 1},
         NEW N, Grows(db, db', N), \A m \in N : m.id = nextId
  PROVE  Batched'
<1>1. nextId \in Nat /\ \A b \in worker.batch : b.id \in Nat
  BY DEF Core, TypeOK, Entry
<1>2. \A b \in worker.batch : b.id < nextId
  BY DEF Core, Batched
<1>3. \A b \in worker.batch : \A k \in Pending(db') : k.id < b.id => k \in worker.batch
  <2> TAKE b \in worker.batch
  <2> TAKE k \in Pending(db')
  <2> HAVE k.id < b.id
  <2>1. k \notin N
    BY <1>1, <1>2
  <2> QED
    BY <2>1 DEF Grows, Core, Batched
<1>4. \A b \in worker.batch : b.id < nextId'
  BY <1>1, <1>2
<1> QED
  BY <1>3, <1>4 DEF Batched, Pending

\* Nothing is read, and no handler comes to serve.
Reads == \A r \in Requests :
           /\ handler'[r].pc \in {"open", "writing"} => handler[r].pc \in {"open", "writing"}
           /\ handler'[r].pc \in {"begun", "running"} => handler[r].pc \in {"begun", "running"}

\* Histories stay whole.
LEMMA ReadKeeps ==
  ASSUME TypeOK, Read, Reads, NEW N, Grows(db, db', N),
         \A m \in N : m.kind \notin {"answer", "input"},
         now' = now \/ now' = now + 1,
         now < PayloadTTL => \A m \in db.log : Known(db', m.req) => m \in db'.log
  PROVE  Read'
<1>1. now' < PayloadTTL => now < PayloadTTL
  BY StoreAssumption DEF TypeOK
<1>2. ~Inputs => /\ \A m \in db'.log : m.kind # "input"
                 /\ \A r \in Requests : handler'[r].pc \notin {"begun", "running"}
  BY DEF Grows, Read, Reads
<1>3. ASSUME now' < PayloadTTL, NEW r \in Requests, Known(db', r), NEW kind, Recorded(db, r, kind)
      PROVE  Recorded(db', r, kind)
  BY <1>1, <1>3 DEF Recorded
<1>4. \A r \in Requests : /\ Known(db', r) => Known(db, r)
                          /\ Known(db', r) /\ Linked(db', r) => Linked(db, r)
  BY DEF Grows
<1>5. ASSUME now' < PayloadTTL
      PROVE  /\ \A r \in Requests : Known(db', r) /\ Linked(db', r) => Recorded(db', r, "answer")
             /\ \A r \in Requests : Known(db', r) /\ Inputs =>
                  (Linked(db', r) \/ handler'[r].pc \in {"open", "writing"} => Recorded(db', r, "input"))
  BY <1>1, <1>3, <1>4, <1>5 DEF Read, Reads
<1> QED
  BY <1>2, <1>5 DEF Read, Known, Linked, Recorded

\* A clean close stays clean.
LEMMA DrainedKeeps ==
  ASSUME Drained, NEW N, Grows(db, db', N),
         mode' \in {"down", "booting"} /\ drained' =>
           mode \in {"down", "booting"} /\ drained /\ N = {},
         worker'.pc = "booting" => mode' = "booting" \/ (worker'.pc = worker.pc /\ mode' = mode)
  PROVE  Drained'
<1>1. mode' \in {"down", "booting"} /\ drained' => Pending(db') = {}
  BY DEF Drained, Grows
<1> QED
  BY <1>1 DEF Drained, Pending

\* The parts make the whole.
LEMMA CoreKeeps ==
  ASSUME TypeOK', StoreInv(db', nextId', now'),
         Fresh', Memory', Progress', Sent', Batched', Read', Drained'
  PROVE  Core'
<1>1. StoreInv(db, nextId, now)'
  BY DEF StoreInv, TypesOK, Numbered, Carried, Whole, AcceptedFirst, Materialized, Opened, Ended,
         Deleting, Counted, Says, Named, Known, Stored, Terminal, Linked, ConvOf, Members, StoredIn,
         Pending, Ids
<1> QED
  BY <1>1 DEF Core

-----------------------------------------------------------------------------
(* Steps that leave the database alone *)

\* A step that leaves the database alone.
LEMMA Quiet ==
  ASSUME Core, TypeOK', db' = db, nextId' = nextId, now' = now,
         Onward, Remembers, Runs, Sent', Read', Batched',
         mode' \in {"down", "booting"} /\ drained' =>
           (mode \in {"down", "booting"} /\ drained) \/ Pending(db) = {},
         worker'.pc = "booting" => mode' = "booting" \/ (worker'.pc = worker.pc /\ mode' = mode)
  PROVE  Core' /\ Calm
<1>1. Grows(db, db', {}) /\ Agreeing(db, db') /\ Lasting(db, db')
  BY SameGrows
<1>2. Fresh' /\ Memory' /\ Progress'
  BY <1>1, FreshKeeps, MemoryKeeps, ProgressKeeps DEF Core
<1>3. StoreInv(db', nextId', now')
  BY DEF Core
<1>4. Drained'
  BY DEF Drained, Core, Pending
<1>5. Core'
  BY <1>2, <1>3, <1>4, CoreKeeps
<1> QED
  BY <1>1, <1>5 DEF Calm

\* Such a step needs only say what it does to its own state.
LEMMA QuietParts ==
  ASSUME Core, db' = db, nextId' = nextId, now' = now, Onward
  PROVE  /\ Writes /\ sent' = sent => Sent'
         /\ Reads => Read'
         /\ worker'.batch \in {worker.batch, {}} => Batched'
<1>1. Grows(db, db', {})
  BY SameGrows
<1>2. Writes /\ sent' = sent => Sent'
  BY <1>1, SentKeeps DEF Core
<1>3. Reads => Read'
  BY <1>1, ReadKeeps DEF Core
<1>4. worker'.batch \in {worker.batch, {}} => Batched'
  BY <1>1, BatchedKeeps
<1> QED
  BY <1>2, <1>3, <1>4

\* Requests that have arrived are unknown to the journal.
LEMMA Unknown ==
  ASSUME Core, NEW r \in Requests, ~Begun(r)
  PROVE  /\ states[r] = NoState /\ ~states[r].known /\ Untouched(db, r) /\ ~Known(db, r)
         /\ \A q \in Requests : states[q].conv # r
         /\ handler[r].binds = 0 /\ ~handler[r].marked
<1>1. /\ handler[r].binds = 0 /\ ~handler[r].marked
      /\ states[r] = NoState /\ Untouched(db, r) /\ \A q \in Requests : states[q].conv # r
  BY DEF Core, Fresh
<1> QED
  BY <1>1 DEF NoState, Untouched, Known

\* The fields of a handler have their types.
LEMMA HandlerTypes ==
  ASSUME Core, NEW r \in Requests
  PROVE  /\ handler[r] \in Handlers /\ nextId \in Nat
         /\ handler[r].frames \in Nat /\ handler[r].binds \in Nat /\ handler[r].writing \in Nat
         /\ handler[r].prev \in Requests \cup {None}
         /\ handler[r].unread \subseteq Requests /\ handler[r].missing \subseteq Requests
<1>1. handler[r] \in Handlers /\ nextId \in Nat
  BY DEF Core, TypeOK
<1> QED
  BY <1>1 DEF Handlers

\* One that ends, writes, marks or reports usage stays one.
LEMMA HandlerGone ==
  ASSUME NEW h \in Handlers
  PROVE  /\ Gone(h) \in Handlers /\ Gone(h).pc = "done" /\ Gone(h).binds = h.binds
         /\ Gone(h).marked = h.marked
  BY DEF Handlers, Gone
LEMMA HandlerWrites ==
  ASSUME NEW h \in Handlers, NEW p \in {"open", "writing"}, NEW n \in Nat
  PROVE  LET x == [h EXCEPT !.pc = p, !.writing = n] IN
         /\ x \in Handlers /\ x.pc = p /\ x.writing = n
         /\ x.binds = h.binds /\ x.marked = h.marked
  BY DEF Handlers
LEMMA HandlerMarks ==
  ASSUME NEW h \in Handlers
  PROVE  LET x == [h EXCEPT !.marked = TRUE] IN
         x \in Handlers /\ x.pc = h.pc /\ x.binds = h.binds /\ x.marked = TRUE
  BY DEF Handlers
LEMMA HandlerUses ==
  ASSUME NEW h \in Handlers
  PROVE  LET x == [h EXCEPT !.used = TRUE] IN
         x \in Handlers /\ x.pc = h.pc /\ x.binds = h.binds /\ x.marked = h.marked
  BY DEF Handlers

\* One handler goes on, or gives up.
LEMMA OneMoves ==
  ASSUME Core, NEW r \in Requests, NEW h \in Handlers, Go(r, h), mode' = mode,
         states' = states \/ Remember(r, NoState),
         Begun(r) => h.pc \notin {"none", "arrived"},
         h.pc \in {"none", "arrived"} => h.binds = 0 /\ ~h.marked,
         states'[r].known => h.binds = handler[r].binds /\ h.marked = handler[r].marked,
         h.pc \in {"begun", "running"} => handler[r].pc \in {"begun", "running"} /\ states' = states
                                         /\ h.marked = handler[r].marked,
         handler[r].pc \notin {"none", "done"} \/ mode = "up"
  PROVE  /\ Onward /\ Remembers /\ Runs
         /\ handler' \in [Requests -> Handlers] /\ states' \in [Requests -> States]
         /\ handler'[r] = h /\ \A q \in Requests : q # r => handler'[q] = handler[q]
<1>1. /\ handler' \in [Requests -> Handlers]
      /\ handler'[r] = h /\ \A q \in Requests : q # r => handler'[q] = handler[q]
  BY DEF Go, Core, TypeOK
<1>2. NoState \in States /\ ~NoState.known /\ NoState.conv = None
  BY DEF NoState, States, MaybeAccount
<1>3. states' \in [Requests -> States] /\ \A q \in Requests : states'[q] \in {states[q], NoState}
  BY <1>2 DEF Remember, Core, TypeOK
<1>4. \A q \in Requests : q # r => states'[q] = states[q]
  BY DEF Remember, Core, TypeOK
<1>5. Onward
  <2>1. \A q \in Requests : Begun(q) => Begun(q)'
    BY <1>1 DEF Begun
  <2>2. \A q \in Requests : ~Begun(q) => handler[q].binds = 0 /\ ~handler[q].marked
    BY DEF Core, Fresh
  <2>3. \A q \in Requests : ~Begun(q)' => handler'[q].binds = 0 /\ ~handler'[q].marked
    BY <1>1, <2>2 DEF Begun
  <2> QED
    BY <1>2, <1>3, <2>1, <2>3 DEF Onward
<1>6. Remembers
  <2> SUFFICES ASSUME NEW q \in Requests
               PROVE  \/ states'[q] = NoState
                      \/ /\ states[q].known /\ states'[q].known /\ states'[q].conv = states[q].conv
                         /\ states'[q].account = states[q].account /\ handler'[q].binds = handler[q].binds
    BY DEF Remembers
  <2>1. states'[q] = NoState \/ (states'[q] = states[q] /\ states[q].known)
    BY <1>3 DEF Core, Memory
  <2>2. states'[q].known => handler'[q].binds = handler[q].binds
    BY <1>1
  <2> QED
    BY <2>1, <2>2
<1>7. Runs
  <2>1. \A q \in Requests : handler'[q].pc \in {"begun", "running"} =>
          /\ handler[q].pc \in {"begun", "running"} /\ handler'[q].marked = handler[q].marked
          /\ states'[q] = states[q]
    BY <1>1, <1>4
  <2>2. \A q \in Requests : states'[q].known =>
          states'[q] = states[q] /\ handler'[q].marked = handler[q].marked
    BY <1>1, <1>2, <1>3, <1>4
  <2>3. mode \notin {"down", "booting"}
    BY DEF Core, Progress
  <2> QED
    BY <2>1, <2>2, <2>3 DEF Runs
<1> QED
  BY <1>1, <1>3, <1>5, <1>6, <1>7

\* Arrive changes the handler of a request that has not begun.
LEMMA ArriveKeeps ==
  ASSUME Core, NEW r \in Requests, Arrive(r)
  PROVE  Core' /\ Calm
<1>1. /\ mode = "up" /\ handler[r].pc = "none"
      /\ db' = db /\ nextId' = nextId /\ states' = states /\ worker' = worker /\ signal' = signal
      /\ mode' = mode /\ drained' = drained /\ stops' = stops /\ now' = now /\ sent' = sent
  BY DEF Arrive, process
<1>2. PICK h \in Handlers : /\ Go(r, h) /\ h.pc = "arrived"
                              /\ h.binds = 0 /\ ~h.marked
  <2>1. ASSUME NEW s \in MaybeSession
        PROVE  [Idle EXCEPT !.pc = "arrived", !.session = s, !.hint = Affine(db, s, now)] \in Handlers
    <3>1. Affine(db, s, now) \in MaybeAccount
      BY RowTypes DEF Affine, MaybeAccount, MaybeSession, Affinity, Core, TypeOK
    <3> HIDE DEF Affine
    <3> QED
      BY <3>1 DEF Handlers, Idle
  <2>2. ASSUME NEW p \in Requests
        PROVE  [Idle EXCEPT !.pc = "arrived", !.prev = p] \in Handlers
    BY DEF Handlers, Idle, MaybeSession, MaybeAccount
  <2>3. \A s : LET h == [Idle EXCEPT !.pc = "arrived", !.session = s, !.hint = Affine(db, s, now)]
                IN  h.pc = "arrived" /\ h.binds = 0 /\ h.marked = FALSE
    BY DEF Idle
  <2>4. \A p : LET h == [Idle EXCEPT !.pc = "arrived", !.prev = p]
                IN  h.pc = "arrived" /\ h.binds = 0 /\ h.marked = FALSE
    BY DEF Idle
  <2>5. CASE \E s \in MaybeSession :
               Go(r, [Idle EXCEPT !.pc = "arrived", !.session = s, !.hint = Affine(db, s, now)])
    BY <2>1, <2>3, <2>5
  <2>6. CASE \E p \in Requests : Go(r, [Idle EXCEPT !.pc = "arrived", !.prev = p])
    BY <2>2, <2>4, <2>6
  <2> QED
    BY <2>5, <2>6 DEF Arrive
<1>3. ~Begun(r) /\ ~states[r].known
  BY <1>1, Unknown DEF Begun
<1>4. /\ Onward /\ Remembers /\ Runs
      /\ handler' \in [Requests -> Handlers] /\ states' \in [Requests -> States]
      /\ handler'[r] = h /\ \A q \in Requests : q # r => handler'[q] = handler[q]
  BY <1>1, <1>2, <1>3, OneMoves
<1>5. TypeOK'
  BY <1>1, <1>4 DEF Core, TypeOK
<1>6. Writes /\ Reads
  BY <1>2, <1>4 DEF Writes, Reads
<1> QED
  BY <1>1, <1>4, <1>5, <1>6, Quiet, QuietParts

\* A read of a history changes nothing but what its handler has read.
HistoryStep(r) == OpenHistory(r) \/ ReadHistory(r)
LEMMA HistoryMoves ==
  ASSUME TypeOK, NEW r \in Requests, HistoryStep(r)
  PROVE  \E h \in Handlers :
           /\ Go(r, h) /\ h.pc = handler[r].pc /\ h.binds = handler[r].binds
           /\ h.marked = handler[r].marked /\ h.writing = handler[r].writing
<1>1. handler[r] \in Handlers
  BY DEF TypeOK
<1>2. CASE OpenHistory(r)
  <2> DEFINE S == {q \in Through(handler[r].prev) : Linked(db, q)}
             h == [handler[r] EXCEPT !.read = TRUE, !.unread = S]
  <2>1. Go(r, h)
    BY <1>2 DEF OpenHistory
  <2>2. S \subseteq Requests
    BY DEF Through, Members
  <2> HIDE DEF S
  <2>3. /\ h \in Handlers /\ h.pc = handler[r].pc /\ h.binds = handler[r].binds
        /\ h.marked = handler[r].marked /\ h.writing = handler[r].writing
    BY <1>1, <2>2 DEF Handlers
  <2> HIDE DEF h
  <2> QED
    BY <2>1, <2>3
<1>3. CASE ReadHistory(r)
  <2>1. PICK q \in handler[r].unread :
          Go(r, [handler[r] EXCEPT !.unread = @ \ {q},
                                   !.missing = IF InHistory(q) THEN @ ELSE @ \cup {q}])
    BY <1>3 DEF ReadHistory
  <2> DEFINE U == handler[r].unread \ {q}
             M == IF InHistory(q) THEN handler[r].missing ELSE handler[r].missing \cup {q}
             h == [handler[r] EXCEPT !.unread = U, !.missing = M]
  <2>2. Go(r, h)
    BY <2>1
  <2>3. U \subseteq Requests /\ M \subseteq Requests
    BY <1>1 DEF Handlers
  <2> HIDE DEF U, M
  <2>4. /\ h \in Handlers /\ h.pc = handler[r].pc /\ h.binds = handler[r].binds
        /\ h.marked = handler[r].marked /\ h.writing = handler[r].writing
    BY <1>1, <2>3 DEF Handlers
  <2> HIDE DEF h
  <2> QED
    BY <2>2, <2>4
<1> QED
  BY <1>2, <1>3 DEF HistoryStep

LEMMA HistoryStepKeeps ==
  ASSUME Core, NEW r \in Requests, HistoryStep(r)
  PROVE  Core' /\ Calm
<1>1. /\ mode = "up" /\ handler[r].pc \in {"arrived", "open"}
      /\ db' = db /\ nextId' = nextId /\ states' = states /\ worker' = worker /\ signal' = signal
      /\ mode' = mode /\ drained' = drained /\ stops' = stops /\ now' = now /\ sent' = sent
  BY DEF HistoryStep, OpenHistory, ReadHistory, process
<1>2. PICK h \in Handlers :
        /\ Go(r, h) /\ h.pc = handler[r].pc /\ h.binds = handler[r].binds
        /\ h.marked = handler[r].marked /\ h.writing = handler[r].writing
  BY HistoryMoves DEF Core
<1>3. /\ Onward /\ Remembers /\ Runs
      /\ handler' \in [Requests -> Handlers] /\ states' \in [Requests -> States]
      /\ handler'[r] = h /\ \A q \in Requests : q # r => handler'[q] = handler[q]
  BY <1>1, <1>2, Unknown, OneMoves DEF Begun
<1>4. TypeOK'
  BY <1>1, <1>3 DEF Core, TypeOK
<1>5. Writes /\ Reads
  BY <1>2, <1>3 DEF Writes, Reads
<1> QED
  BY <1>1, <1>3, <1>4, <1>5, Quiet, QuietParts

\* BeginFails leaves the database and ends the handler.
LEMMA BeginFailsKeeps ==
  ASSUME Core, NEW r \in Requests, BeginFails(r)
  PROVE  Core' /\ Calm
<1> DEFINE h == Gone(handler[r])
<1>1. /\ handler[r].pc = "arrived" /\ Go(r, h)
      /\ db' = db /\ nextId' = nextId /\ states' = states /\ worker' = worker /\ signal' = signal
      /\ mode' = mode /\ drained' = drained /\ stops' = stops /\ now' = now /\ sent' = sent
  BY DEF BeginFails, process
<1>2. /\ h \in Handlers /\ h.pc = "done" /\ h.binds = handler[r].binds
      /\ h.marked = handler[r].marked
  BY HandlerTypes, HandlerGone
<1> HIDE DEF h
<1>3. /\ Onward /\ Remembers /\ Runs
      /\ handler' \in [Requests -> Handlers] /\ states' \in [Requests -> States]
      /\ handler'[r] = h /\ \A q \in Requests : q # r => handler'[q] = handler[q]
  BY <1>1, <1>2, OneMoves
<1>4. TypeOK'
  BY <1>1, <1>3 DEF Core, TypeOK
<1>5. Writes /\ Reads
  BY <1>2, <1>3 DEF Writes, Reads
<1> QED
  BY <1>1, <1>3, <1>4, <1>5, Quiet, QuietParts

\* ProceedFails forgets the request and ends the handler.
LEMMA ProceedFailsKeeps ==
  ASSUME Core, NEW r \in Requests, ProceedFails(r)
  PROVE  Core' /\ Calm
<1> DEFINE h == Gone(handler[r])
<1>1. /\ handler[r].pc \in {"begun", "running"} /\ Remember(r, NoState) /\ Go(r, h)
      /\ db' = db /\ nextId' = nextId /\ worker' = worker /\ signal' = signal
      /\ mode' = mode /\ drained' = drained /\ stops' = stops /\ now' = now /\ sent' = sent
  BY DEF ProceedFails, process
<1>2. /\ h \in Handlers /\ h.pc = "done" /\ h.binds = handler[r].binds
      /\ h.marked = handler[r].marked
  BY HandlerTypes, HandlerGone
<1> HIDE DEF h
<1>3. /\ Onward /\ Remembers /\ Runs
      /\ handler' \in [Requests -> Handlers] /\ states' \in [Requests -> States]
      /\ handler'[r] = h /\ \A q \in Requests : q # r => handler'[q] = handler[q]
  BY <1>1, <1>2, OneMoves
<1>4. TypeOK'
  BY <1>1, <1>3 DEF Core, TypeOK
<1>5. Writes /\ Reads
  BY <1>2, <1>3 DEF Writes, Reads
<1> QED
  BY <1>1, <1>3, <1>4, <1>5, Quiet, QuietParts

\* Leave ends the handler and keeps what is remembered.
LEMMA LeaveKeeps ==
  ASSUME Core, NEW r \in Requests, Leave(r)
  PROVE  Core' /\ Calm
<1> DEFINE h == Gone(handler[r])
<1>1. /\ handler[r].pc = "open" /\ Go(r, h)
      /\ db' = db /\ nextId' = nextId /\ states' = states /\ worker' = worker /\ signal' = signal
      /\ mode' = mode /\ drained' = drained /\ stops' = stops /\ now' = now /\ sent' = sent
  BY DEF Leave, process
<1>2. /\ h \in Handlers /\ h.pc = "done" /\ h.binds = handler[r].binds
      /\ h.marked = handler[r].marked
  BY HandlerTypes, HandlerGone
<1> HIDE DEF h
<1>3. /\ Onward /\ Remembers /\ Runs
      /\ handler' \in [Requests -> Handlers] /\ states' \in [Requests -> States]
      /\ handler'[r] = h /\ \A q \in Requests : q # r => handler'[q] = handler[q]
  BY <1>1, <1>2, OneMoves
<1>4. TypeOK'
  BY <1>1, <1>3 DEF Core, TypeOK
<1>5. Writes /\ Reads
  BY <1>2, <1>3 DEF Writes, Reads
<1> QED
  BY <1>1, <1>3, <1>4, <1>5, Quiet, QuietParts

\* Write hands the client the record Forward appended.
LEMMA WriteKeeps ==
  ASSUME Core, NEW r \in Requests, Write(r)
  PROVE  Core' /\ Calm
<1> DEFINE h == [handler[r] EXCEPT !.pc = "open", !.writing = 0]
           w == [id |-> handler[r].writing, req |-> r]
<1>1. /\ handler[r].pc = "writing" /\ Go(r, h) /\ sent' \in {sent \cup {w}, sent} /\ signal' = TRUE
      /\ db' = db /\ nextId' = nextId /\ states' = states /\ worker' = worker
      /\ mode' = mode /\ drained' = drained /\ stops' = stops /\ now' = now
  BY DEF Write, process
<1>2. /\ h \in Handlers /\ h.pc = "open" /\ h.binds = handler[r].binds
      /\ h.marked = handler[r].marked
      /\ handler[r].writing \in Nat
  BY HandlerTypes, HandlerWrites
<1> HIDE DEF h
<1>3. /\ Onward /\ Remembers /\ Runs
      /\ handler' \in [Requests -> Handlers] /\ states' \in [Requests -> States]
      /\ handler'[r] = h /\ \A q \in Requests : q # r => handler'[q] = handler[q]
  BY <1>1, <1>2, OneMoves
<1>4. TypeOK'
  BY <1>1, <1>2, <1>3 DEF Core, TypeOK
<1>5. Reads
  BY <1>1, <1>2, <1>3 DEF Reads
<1>6. Sent'
  <2>1. \A m \in sent' : m = w \/ m \in sent
    BY <1>1
  <2>2. \A m \in sent : m.req \in Requests
    BY DEF Core, TypeOK
  <2>3. w.req = r /\ w.id = handler[r].writing
    OBVIOUS
  <2>4. \A m \in sent' : Begun(m.req)'
    BY <1>1, <1>3, <2>1, <2>2, <2>3 DEF Core, Sent, Onward, Begun
  <2>5. \A m \in sent' : Known(db, m.req) /\ ~Terminal(db, m.req) =>
          \E k \in db.log : k.id = m.id /\ k.req = m.req
    BY <1>1, <2>1, <2>3 DEF Core, Sent
  <2>6. \A q \in Requests : handler'[q].pc = "writing" =>
          handler[q].pc = "writing" /\ handler'[q].writing = handler[q].writing
    BY <1>2, <1>3
  <2> QED
    BY <1>1, <2>4, <2>5, <2>6 DEF Core, Sent, Known, Terminal
<1> QED
  BY <1>1, <1>3, <1>4, <1>5, <1>6, Quiet, QuietParts

-----------------------------------------------------------------------------
(* The worker and the process *)

\* A step that leaves the handlers alone.
LEMMA StillMoves ==
  ASSUME Core, states' = states, handler' = handler,
         mode' \in {"down", "booting"} => mode \in {"down", "booting"}
  PROVE  Onward /\ Remembers /\ Runs /\ Writes /\ Reads
<1>1. Onward
  BY DEF Onward, Begun, Core, Fresh
<1>2. \A r \in Requests : states[r].known \/ states[r] = NoState
  BY DEF Core, Memory
<1>3. Remembers
  BY <1>2 DEF Remembers
<1>4. Runs
  BY DEF Runs, Core, Progress
<1> QED
  BY <1>1, <1>3, <1>4 DEF Writes, Reads

\* A process that ends takes its memory along.
LEMMA ForgetMoves ==
  ASSUME Core, Forget
  PROVE  /\ Onward /\ Remembers /\ Runs /\ Writes /\ Reads
         /\ handler' \in [Requests -> Handlers] /\ states' \in [Requests -> States]
<1>1. /\ \A r \in Requests : states'[r] = NoState
      /\ \A r \in Requests : handler[r].pc = "none" => handler'[r] = Idle
      /\ \A r \in Requests : handler[r].pc # "none" => handler'[r] = [Idle EXCEPT !.pc = "done"]
  BY DEF Forget
<1>2. /\ Idle.pc = "none" /\ Idle.binds = 0 /\ Idle.marked = FALSE
      /\ [Idle EXCEPT !.pc = "done"].pc = "done"
  BY DEF Idle
<1>3. Idle \in Handlers /\ [Idle EXCEPT !.pc = "done"] \in Handlers
  BY DEF Idle, Handlers, MaybeSession, MaybeAccount
<1>4. NoState \in States /\ ~NoState.known /\ NoState.conv = None
  BY DEF NoState, States, MaybeAccount
<1>5. \A r \in Requests : handler'[r].pc \in {"none", "done"}
  BY <1>1, <1>2
<1>6. \A r \in Requests : Begun(r) => Begun(r)'
  BY <1>1, <1>2 DEF Begun
<1>7. Onward /\ Remembers
  <2>1. \A r \in Requests : ~Begun(r)' => handler'[r].binds = 0 /\ ~handler'[r].marked
    BY <1>1, <1>2 DEF Begun
  <2> QED
    BY <1>1, <1>4, <1>6, <2>1 DEF Onward, Remembers
<1>8. Runs /\ Writes /\ Reads
  BY <1>1, <1>4, <1>5 DEF Runs, Writes, Reads
<1>9. handler' \in [Requests -> Handlers]
  BY <1>3 DEF Forget
<1>10. states' \in [Requests -> States]
  BY <1>4 DEF Forget
<1> QED
  BY <1>7, <1>8, <1>9, <1>10

\* Wake starts the worker.
LEMMA WakeKeeps ==
  ASSUME Core, Wake
  PROVE  Core' /\ Calm
<1>1. /\ worker' = [worker EXCEPT !.pc = "replaying"] /\ signal' = FALSE
      /\ db' = db /\ nextId' = nextId /\ states' = states /\ handler' = handler
      /\ mode' = mode /\ drained' = drained /\ stops' = stops /\ now' = now /\ sent' = sent
  BY DEF Wake, process
<1>2. worker'.batch = worker.batch /\ TypeOK'
  BY <1>1 DEF Core, TypeOK
<1> QED
  BY <1>1, <1>2, StillMoves, Quiet, QuietParts

\* Load takes the oldest pending records.
LEMMA LoadKeeps ==
  ASSUME Core, Load
  PROVE  Core' /\ Calm
<1>1. /\ worker' = [worker EXCEPT !.batch = Oldest(db, BatchSize)] /\ signal' = signal
      /\ db' = db /\ nextId' = nextId /\ states' = states /\ handler' = handler
      /\ mode' = mode /\ drained' = drained /\ stops' = stops /\ now' = now /\ sent' = sent
  BY DEF Load, process
<1>2. Oldest(db, BatchSize) \subseteq Pending(db) /\ Pending(db) \subseteq db.log /\ db.log \subseteq Entry
  BY RowTypes DEF Oldest, Pending, Core, TypeOK
<1>3. worker'.batch = Oldest(db, BatchSize) /\ worker'.pc = worker.pc
  BY <1>1 DEF Core, TypeOK
<1>4. TypeOK'
  BY <1>1, <1>2 DEF Core, TypeOK
<1>5. ASSUME NEW b \in Oldest(db, BatchSize), NEW k \in Pending(db), k.id < b.id
      PROVE  k \in Oldest(db, BatchSize)
  <2> DEFINE A == {j \in Pending(db) : j.id <= k.id}
             B == {j \in Pending(db) : j.id <= b.id}
  <2>1. \A j \in Pending(db) : j.id \in Nat
    BY <1>2 DEF Entry
  <2>2. A \subseteq B
    BY <1>2, <1>5, <2>1
  <2>3. IsFiniteSet(B)
    BY <1>2, FS_Subset DEF Core, StoreInv, TypesOK
  <2>4. Cardinality(B) <= BatchSize
    BY DEF Oldest
  <2> HIDE DEF A, B
  <2>5. IsFiniteSet(A) /\ Cardinality(A) <= Cardinality(B)
    BY <2>2, <2>3, FS_Subset
  <2>6. Cardinality(A) \in Nat /\ Cardinality(B) \in Nat /\ BatchSize \in Nat
    BY <2>3, <2>5, FS_CardinalityType, JournalAssumption
  <2>7. Cardinality(A) <= BatchSize
    BY <2>4, <2>5, <2>6
  <2> QED
    BY <2>7 DEF A, Oldest
<1>6. \A b \in Oldest(db, BatchSize) : b.id < nextId
  BY <1>2 DEF Core, StoreInv, Numbered
<1>7. Batched'
  BY <1>1, <1>3, <1>5, <1>6 DEF Batched, Pending
<1> QED
  BY <1>1, <1>4, <1>7, StillMoves, Quiet, QuietParts

\* EndReplay leaves the worker without a batch, and a shutdown reports what is left.
LEMMA EndReplayKeeps ==
  ASSUME Core, NEW failed \in BOOLEAN, EndReplay(failed), ~failed => Pending(db) = {}
  PROVE  Core' /\ Calm
<1>1. /\ db' = db /\ nextId' = nextId /\ stops' = stops /\ now' = now /\ sent' = sent
  BY DEF EndReplay
<1>2. Resting.batch = {} /\ Resting.pc = "idle"
      /\ Resting \in [pc : {"idle", "replaying", "draining", "booting"},
                      batch : SUBSET Entry, failed : BOOLEAN]
  BY DEF Resting
<1>3. CASE /\ worker' = [Resting EXCEPT !.failed = worker.failed \/ failed]
           /\ signal' = (signal /\ ~failed)
           /\ UNCHANGED <<states, handler, mode, drained>>
  <2>1. /\ worker'.batch = {} /\ worker'.pc = "idle"
        /\ worker' \in [pc : {"idle", "replaying", "draining", "booting"},
                        batch : SUBSET Entry, failed : BOOLEAN]
    <3>1. PICK b \in BOOLEAN : b = (worker.failed \/ failed)
      BY DEF Core, TypeOK
    <3> QED
      BY <1>3, <3>1 DEF Resting
  <2>2. signal' \in BOOLEAN
    BY <1>3
  <2>3. TypeOK'
    BY <1>1, <1>3, <2>1, <2>2 DEF Core, TypeOK
  <2> QED
    BY <1>1, <1>3, <2>1, <2>3, StillMoves, Quiet, QuietParts
<1>4. CASE /\ Forget
           /\ worker' = Resting /\ signal' = FALSE
           /\ mode' = "down" /\ drained' = ~(worker.failed \/ failed)
  <2>1. drained' \in BOOLEAN /\ (drained' => ~failed)
    BY <1>4
  <2>2. TypeOK'
    BY <1>1, <1>2, <1>4, <2>1, ForgetMoves DEF Core, TypeOK
  <2> QED
    BY <1>1, <1>2, <1>4, <2>1, <2>2, ForgetMoves, Quiet, QuietParts
<1>5. CASE /\ worker.pc = "booting" /\ worker' = Resting
           /\ mode' = IF failed THEN "down" ELSE "up"
           /\ UNCHANGED <<states, handler, signal, drained>>
  <2>0. mode = "booting" /\ Resting.pc = "idle"
    BY <1>5 DEF Core, Drained, Resting
  <2>1. TypeOK'
    BY <1>1, <1>2, <1>5 DEF Core, TypeOK
  <2> QED
    BY <1>1, <1>2, <1>5, <2>0, <2>1, StillMoves, Quiet, QuietParts
<1> QED
  BY <1>3, <1>4, <1>5 DEF EndReplay

\* Replay ends, with an error or with nothing left.
LEMMA ReplayEndKeeps ==
  ASSUME Core, ReplayFails \/ ReplayEnds
  PROVE  Core' /\ Calm
<1>1. CASE ReplayFails
  BY <1>1, EndReplayKeeps DEF ReplayFails
<1>2. CASE ReplayEnds
  BY <1>2, EndReplayKeeps DEF ReplayEnds
<1> QED
  BY <1>1, <1>2

\* Shutdown, crash and startup.
LEMMA ProcessKeeps ==
  ASSUME Core, Close \/ Drain \/ Crash \/ Start
  PROVE  Core' /\ Calm
<1>1. CASE Close
  <2>1. /\ mode = "up" /\ mode' = "closing" /\ stops' = stops + 1
        /\ db' = db /\ nextId' = nextId /\ states' = states /\ handler' = handler
        /\ worker' = worker /\ signal' = signal /\ drained' = drained /\ now' = now /\ sent' = sent
    BY <1>1 DEF Close, memory
  <2>2. TypeOK' /\ worker.pc # "booting"
    BY <2>1 DEF Core, TypeOK, Drained
  <2> QED
    BY <2>1, <2>2, StillMoves, Quiet, QuietParts
<1>2. CASE Drain
  <2>1. /\ worker' = [worker EXCEPT !.pc = "draining"] /\ signal' = FALSE
        /\ db' = db /\ nextId' = nextId /\ states' = states /\ handler' = handler
        /\ mode' = mode /\ drained' = drained /\ stops' = stops /\ now' = now /\ sent' = sent
    BY <1>2 DEF Drain, process
  <2>2. TypeOK' /\ worker'.batch = worker.batch /\ worker'.pc = "draining"
    BY <2>1 DEF Core, TypeOK
  <2> QED
    BY <2>1, <2>2, StillMoves, Quiet, QuietParts
<1>3. CASE Crash
  <2>1. /\ Forget /\ worker' = Resting /\ signal' = FALSE /\ mode' = "down" /\ drained' = FALSE
        /\ stops' \in {stops, stops + 1}
        /\ db' = db /\ nextId' = nextId /\ now' = now /\ sent' = sent
    BY <1>3 DEF Crash
  <2>2. /\ Resting.batch = {} /\ Resting.pc = "idle"
        /\ Resting \in [pc : {"idle", "replaying", "draining", "booting"},
                        batch : SUBSET Entry, failed : BOOLEAN]
    BY DEF Resting
  <2>3. TypeOK'
    <3>1. stops' \in Nat
      BY <2>1 DEF Core, TypeOK
    <3> QED
      BY <2>1, <2>2, <3>1, ForgetMoves DEF Core, TypeOK
  <2> QED
    BY <2>1, <2>2, <2>3, ForgetMoves, Quiet, QuietParts
<1>4. CASE Start
  <2>1. /\ mode = "down" /\ mode' = "booting" /\ worker' = [Resting EXCEPT !.pc = "booting"]
        /\ db' = db /\ nextId' = nextId /\ states' = states /\ handler' = handler
        /\ signal' = signal /\ drained' = drained /\ stops' = stops /\ now' = now /\ sent' = sent
    BY <1>4 DEF Start
  <2>2. TypeOK' /\ worker'.batch = {}
    BY <2>1 DEF Core, TypeOK, Resting
  <2> QED
    BY <2>1, <2>2, StillMoves, Quiet, QuietParts
<1> QED
  BY <1>1, <1>2, <1>3, <1>4

\* Time passes for the process.
LEMMA TickKeeps ==
  ASSUME Core, Tick
  PROVE  Core' /\ Calm
<1>1. /\ now' = now + 1 /\ db' = db /\ nextId' = nextId /\ states' = states /\ handler' = handler
      /\ worker' = worker /\ signal' = signal /\ mode' = mode /\ drained' = drained
      /\ stops' = stops /\ sent' = sent
  BY DEF Tick, memory, process
<1>2. TypeOK'
  BY <1>1 DEF Core, TypeOK
<1>3. StoreInv(db', nextId', now')
  BY <1>1, LaterKeeps DEF Core, TypeOK
<1>4. Grows(db, db', {}) /\ Agreeing(db, db') /\ Lasting(db, db')
  BY <1>1, SameGrows
<1>5. Onward /\ Remembers /\ Runs /\ Writes /\ Reads
  BY <1>1, StillMoves
<1>6. Fresh' /\ Memory' /\ Progress' /\ Sent' /\ Batched'
  BY <1>1, <1>4, <1>5, FreshKeeps, MemoryKeeps, ProgressKeeps, SentKeeps, BatchedKeeps DEF Core
<1>7. Read'
  BY <1>1, <1>4, <1>5, ReadKeeps DEF Core
<1>8. Drained'
  BY <1>1 DEF Core, Drained, Pending
<1>9. Core'
  BY <1>2, <1>3, <1>6, <1>7, <1>8, CoreKeeps
<1> QED
  BY <1>1, <1>4, <1>9 DEF Calm

-----------------------------------------------------------------------------
(* Handlers that append a record *)

\* A record of the model is typed.
LEMMA RecordType ==
  ASSUME Core, NEW r \in Requests, NEW kind \in Kinds, NEW status \in Outcomes \cup {"none"}
  PROVE  LET m == [Record(r, kind) EXCEPT !.status = status] IN
         /\ m \in Entry /\ m.id = nextId /\ m.at = now /\ m.req = r /\ m.kind = kind
         /\ m.account = None /\ m.status = status
  BY DEF Core, TypeOK, Record, Entry, MaybeAccount, MaybeSession

\* A new record, field by field.
LEMMA RecordIs ==
  ASSUME Core, NEW r \in Requests, NEW kind \in Kinds
  PROVE  /\ Record(r, kind) \in Entry /\ Record(r, kind).id = nextId /\ Record(r, kind).at = now
         /\ Record(r, kind).req = r /\ Record(r, kind).kind = kind
         /\ Record(r, kind).account = None
  BY DEF Core, TypeOK, Record, Entry, MaybeAccount, MaybeSession

\* A handler appends a record of a request that is there.
LEMMA AppendStore ==
  ASSUME Core, NEW m \in Entry, m.id = nextId, m.at = now, Known(db, m.req),
         m.kind \notin {"accepted", "bound", "answer"}, m.account = None,
         m.kind = "terminal" => m.status \in Outcomes,
         m.kind # "frame" => ~Over(db, m.req),
         db' = Append(db, m), nextId' = nextId + 1, now' = now
  PROVE  /\ StoreInv(db', nextId', now')
         /\ Grows(db, db', {m}) /\ Agreeing(db, db') /\ Lasting(db, db')
         /\ db' \in Database /\ nextId' \in Nat \ {0}
         /\ db'.log = db.log \cup {m} /\ db'.affinity = db.affinity
<1>1. db \in Database /\ nextId \in Nat \ {0} /\ now \in Nat
  BY DEF Core, TypeOK
<1>2. StoreInv(Append(db, m), nextId + 1, now)
  BY <1>1, AppendKeeps DEF Core, Over
<1>3. StoreInv(db', nextId', now')
  BY <1>2
<1>4. /\ db'.log = db.log \cup {m} /\ db'.row = db.row /\ db'.req = db.req /\ db'.conv = db.conv
      /\ db'.link = db.link /\ db'.affinity = db.affinity /\ db' \in Database
  BY <1>1, AppendFields
<1>5. Follows(db, db) /\ Lasting(db, db)
  BY SameFollow DEF Core
<1>6. Grows(db, db', {m})
  BY <1>1, <1>5, AppendGrows
<1>7. Agreeing(db, db')
  <2>1. \A q : ConvOf(db', q) = ConvOf(db, q)
    BY <1>4 DEF ConvOf
  <2>2. \A c \in Requests : \A x \in Accounts : Says(db', c, x) => Says(db, c, x)
    BY <1>4, <2>1, Kind DEF Says
  <2> QED
    BY <1>4, <2>2 DEF Agreeing
<1>8. Lasting(db, db')
  BY <1>4, <1>5 DEF Lasting, Terminal
<1> QED
  BY <1>1, <1>3, <1>4, <1>6, <1>7, <1>8

\* One handler goes on; the worker, the process and the clock do not.
Beside ==
    /\ worker' = worker /\ mode' = mode /\ drained' = drained /\ stops' = stops /\ now' = now
    /\ sent' = sent /\ signal' \in {signal, TRUE}

\* A step in which a handler appends record m.
LEMMA StepOne ==
  ASSUME Core, NEW m, m.id = nextId, StoreInv(db', nextId', now'),
         Grows(db, db', {m}), Agreeing(db, db'), Lasting(db, db'),
         db' \in Database, db'.log = db.log \cup {m}, db'.affinity = db.affinity,
         nextId' = nextId + 1, Beside, mode \notin {"down", "booting"},
         handler' \in [Requests -> Handlers], states' \in [Requests -> States],
         Onward, Remembers, Progress',
         Writes \/ Sent', (Reads /\ m.kind \notin {"input", "answer"}) \/ Read'
  PROVE  Core' /\ Calm
<1>1. TypeOK'
  <2>1. nextId' \in Nat \ {0}
    BY DEF Core, TypeOK
  <2>2. signal \in BOOLEAN /\ signal' \in {signal, TRUE}
    BY DEF Core, TypeOK, Beside
  <2>3. signal' \in BOOLEAN
    BY <2>2, Zenon
  <2> QED
    BY <2>1, <2>3 DEF Core, TypeOK, Beside
<1>2. Fresh' /\ Memory'
  BY FreshKeeps, MemoryKeeps DEF Core
<1>3. Sent'
  BY SentKeeps DEF Core, Beside
<1>4. Batched'
  BY BatchedKeeps DEF Beside
<1>5. Read'
  BY ReadKeeps DEF Core, Beside
<1>6. Drained'
  BY DEF Core, Drained, Beside
<1>7. Core'
  BY <1>1, <1>2, <1>3, <1>4, <1>5, <1>6, CoreKeeps
<1> QED
  BY <1>7 DEF Calm

\* The same, for the records that do no more than be appended.
LEMMA AppendOne ==
  ASSUME Core, NEW m \in Entry, m.id = nextId, m.at = now, Known(db, m.req),
         m.kind \notin {"accepted", "bound", "answer"}, m.account = None,
         m.kind = "terminal" => m.status \in Outcomes,
         m.kind # "frame" => ~Over(db, m.req),
         db' = Append(db, m), nextId' = nextId + 1, Beside,
         mode \notin {"down", "booting"},
         handler' \in [Requests -> Handlers], states' \in [Requests -> States],
         Onward, Remembers, Progress',
         Writes \/ Sent', (Reads /\ m.kind # "input") \/ Read'
  PROVE  Core' /\ Calm
<1>1. /\ StoreInv(db', nextId', now')
      /\ Grows(db, db', {m}) /\ Agreeing(db, db') /\ Lasting(db, db')
      /\ db' \in Database
      /\ db'.log = db.log \cup {m} /\ db'.affinity = db.affinity
  BY AppendStore DEF Beside
<1> QED
  BY <1>1, StepOne

\* A request the journal knows and has not ended.
LEMMA Unended ==
  ASSUME Core, NEW r \in Requests, states[r].known, ~handler[r].marked
  PROVE  ~states[r].terminal /\ ~Over(db, r)
  BY DEF Core, Progress, TypeOK, States, Handlers

\* Proceed appends running, then input.
LEMMA ProceedKeeps ==
  ASSUME Core, NEW r \in Requests, Proceed(r)
  PROVE  Core' /\ Calm
<1> DEFINE last == handler[r].pc = "running"
           m == Record(r, IF last THEN "input" ELSE "running")
           h == [handler[r] EXCEPT !.pc = IF last THEN "open" ELSE "running"]
<1>1. /\ handler[r].pc \in {"begun", "running"} /\ Known(db, r) /\ Go(r, h)
      /\ db' = Append(db, m) /\ nextId' = nextId + 1 /\ states' = states
      /\ Beside
  BY DEF Proceed, CanAppend, Store, process, Beside
<1>2. /\ m \in Entry /\ m.id = nextId /\ m.at = now /\ m.req = r /\ m.account = None
      /\ m.kind = IF last THEN "input" ELSE "running"
  BY RecordIs DEF Kinds
<1>3. /\ h \in Handlers /\ h.pc = (IF last THEN "open" ELSE "running") /\ h.binds = handler[r].binds
      /\ h.marked = handler[r].marked
  BY DEF Core, TypeOK, Handlers
<1> HIDE DEF h, m
<1>4. states[r].known /\ ~handler[r].marked /\ ~Over(db, r)
  BY <1>1, Unended DEF Core, Progress
<1>5. /\ Onward /\ Remembers /\ Runs
      /\ handler' \in [Requests -> Handlers] /\ states' \in [Requests -> States]
      /\ handler'[r] = h /\ \A q \in Requests : q # r => handler'[q] = handler[q]
  BY <1>1, <1>3, OneMoves DEF Beside
<1>6. Grows(db, db', {m}) /\ db'.log = db.log \cup {m}
  BY <1>1, <1>2, <1>4, AppendStore DEF Beside
<1>7. Progress'
  BY <1>2, <1>5, <1>6, ProgressKeeps DEF Core
<1>8. Writes
  BY <1>3, <1>5 DEF Writes
<1>9. mode \notin {"down", "booting"} /\ Inputs
  BY <1>1 DEF Core, Progress, Read, TypeOK, JournalAssumption
<1>10. Read'
  <2>1. ASSUME NEW q \in Requests
        PROVE  /\ Known(db', q) => Known(db, q)
               /\ Known(db', q) /\ Linked(db', q) => Linked(db, q)
               /\ \A kind : Recorded(db, q, kind) => Recorded(db', q, kind)
    BY <1>2, <1>3, <1>5, <1>6 DEF Grows, Recorded
  <2>2. ASSUME NEW q \in Requests, handler'[q].pc \in {"open", "writing"}
        PROVE  handler[q].pc \in {"open", "writing"} \/ Recorded(db', q, "input")
    BY <1>1, <1>2, <1>3, <1>5, <1>6, <2>2 DEF Recorded
  <2>3. Read /\ now' = now /\ db'.log = db.log \cup {m} /\ m.kind \in {"input", "running"}
    BY <1>1, <1>2, <1>6 DEF Core, Beside
  <2>4. \A q \in Requests : Recorded(db', q, "input") => Inputs
    BY <1>9
  <2> QED
    BY <2>1, <2>2, <2>3, <2>4, <1>9 DEF Read, Known, Linked, Recorded
<1> QED
  BY <1>1, <1>2, <1>4, <1>5, <1>7, <1>8, <1>9, <1>10, AppendOne

\* Usage appends a record.
LEMMA UsageKeeps ==
  ASSUME Core, NEW r \in Requests, Usage(r)
  PROVE  Core' /\ Calm
<1> DEFINE m == Record(r, "usage")
           h == [handler[r] EXCEPT !.used = TRUE]
<1>1. /\ mode = "up" /\ handler[r].pc = "open" /\ states[r].known /\ ~handler[r].marked
      /\ Known(db, r) /\ Go(r, h)
      /\ db' = Append(db, m) /\ nextId' = nextId + 1 /\ states' = states /\ Beside
  BY DEF Usage, MayOperate, MayEnd, CanAppend, Store, process, Beside
<1>2. /\ m \in Entry /\ m.id = nextId /\ m.at = now /\ m.req = r /\ m.account = None /\ m.kind = "usage"
  BY RecordIs DEF Kinds
<1>3. /\ h \in Handlers /\ h.pc = handler[r].pc /\ h.binds = handler[r].binds
      /\ h.marked = handler[r].marked
  BY HandlerTypes, HandlerUses
<1> HIDE DEF h, m
<1>4. ~Over(db, r)
  BY <1>1, Unended
<1>5. /\ Onward /\ Remembers /\ Runs
      /\ handler' \in [Requests -> Handlers] /\ states' \in [Requests -> States]
      /\ handler'[r] = h /\ \A q \in Requests : q # r => handler'[q] = handler[q]
  BY <1>1, <1>3, OneMoves DEF Beside, Begun
<1>6. Grows(db, db', {m})
  BY <1>1, <1>2, <1>4, AppendStore DEF Beside
<1>7. Progress'
  BY <1>2, <1>5, <1>6, ProgressKeeps DEF Core
<1>8. Writes /\ Reads
  BY <1>1, <1>3, <1>5 DEF Writes, Reads
<1> QED
  BY <1>1, <1>2, <1>4, <1>5, <1>7, <1>8, AppendOne

\* Mark appends the terminal record, unless there is one, and remembers it.
LEMMA MarkKeepsCore ==
  ASSUME Core, NEW r \in Requests, NEW status \in Outcomes, Mark(r, status)
  PROVE  Core' /\ Calm
<1> DEFINE m == [Record(r, "terminal") EXCEPT !.status = status]
           h == [handler[r] EXCEPT !.marked = TRUE]
           s == [states[r] EXCEPT !.terminal = TRUE]
<1>1. /\ mode = "up" /\ handler[r].pc = "open" /\ states[r].known /\ ~handler[r].marked
      /\ RecordTerminal(r, status) /\ Remember(r, s) /\ Go(r, h)
      /\ worker' = worker /\ mode' = mode /\ drained' = drained /\ stops' = stops
      /\ now' = now /\ sent' = sent
  BY DEF Mark, MayOperate, MayEnd, process
<1>2. ~states[r].terminal /\ ~Over(db, r)
  BY <1>1, Unended
<1>3. /\ Known(db, r) /\ db' = Append(db, m) /\ nextId' = nextId + 1 /\ signal' = TRUE
  BY <1>1, <1>2 DEF RecordTerminal, CanAppend, Store
<1>4. /\ m \in Entry /\ m.id = nextId /\ m.at = now /\ m.req = r /\ m.account = None
      /\ m.kind = "terminal" /\ m.status = status
  BY RecordType DEF Kinds
<1>5. /\ h \in Handlers /\ h.pc = handler[r].pc /\ h.binds = handler[r].binds
      /\ h.marked = TRUE
  BY HandlerTypes, HandlerMarks
<1>6. /\ s \in States /\ s.known = states[r].known /\ s.conv = states[r].conv
      /\ s.account = states[r].account /\ s.terminal = TRUE
  BY DEF Core, TypeOK, States
<1> HIDE DEF h, m, s
<1>7. /\ handler' \in [Requests -> Handlers] /\ states' \in [Requests -> States]
      /\ handler'[r] = h /\ \A q \in Requests : q # r => handler'[q] = handler[q]
      /\ states'[r] = s /\ \A q \in Requests : q # r => states'[q] = states[q]
  BY <1>1, <1>5, <1>6 DEF Core, TypeOK, Go, Remember
<1>8. Onward
  BY <1>1, <1>5, <1>6, <1>7 DEF Onward, Begun, NoState, Core, Fresh
<1>9. Remembers
  <2>1. \A q \in Requests : states[q].known \/ states[q] = NoState
    BY DEF Core, Memory
  <2>2. \A q \in Requests : handler'[q].binds = handler[q].binds
    BY <1>5, <1>7
  <2> QED
    BY <1>1, <1>6, <1>7, <2>1, <2>2 DEF Remembers
<1>10. /\ Grows(db, db', {m}) /\ db'.log = db.log \cup {m}
  BY <1>1, <1>2, <1>3, <1>4, AppendStore
<1>11. Progress'
  <2>1. \A q \in Requests : handler'[q].pc \in {"begun", "running"} =>
          states'[q].known /\ ~handler'[q].marked
    BY <1>1, <1>5, <1>7 DEF Core, Progress
  <2>2. \A q \in Requests : states'[q].known => (states'[q].terminal <=> handler'[q].marked)
    BY <1>5, <1>6, <1>7 DEF Core, Progress
  <2>3. ASSUME NEW q \in Requests, states'[q].known
        PROVE  IF states'[q].terminal THEN Known(db', q) => Over(db', q) ELSE ~Over(db', q)
    <3>1. CASE q = r
      <4>1. Over(db', r)
        BY <1>4, <1>10 DEF Over
      <4> QED
        BY <1>6, <1>7, <3>1, <4>1
    <3>2. CASE q # r
      <4>1. IF states[q].terminal THEN Known(db, q) => Over(db, q) ELSE ~Over(db, q)
        BY <1>7, <2>3, <3>2 DEF Core, Progress
      <4> QED
        BY <1>4, <1>7, <1>10, <3>2, <4>1 DEF Grows
    <3> QED
      BY <3>1, <3>2
  <2> QED
    BY <1>1, <2>1, <2>2, <2>3 DEF Progress, Known, Over, Terminal
<1>12. Writes /\ Reads
  BY <1>1, <1>5, <1>7 DEF Writes, Reads
<1>13. Beside
  BY <1>1, <1>3 DEF Beside
<1> QED
  BY <1>1, <1>2, <1>3, <1>4, <1>7, <1>8, <1>9, <1>11, <1>12, <1>13, AppendOne

\* Complete appends the terminal record, unless there is one, and forgets the request.
LEMMA CompleteKeeps ==
  ASSUME Core, NEW r \in Requests, NEW status \in Outcomes, Complete(r, status)
  PROVE  Core' /\ Calm
<1> DEFINE m == [Record(r, "terminal") EXCEPT !.status = status]
           h == Gone(handler[r])
<1>1. /\ mode = "up" /\ handler[r].pc = "open" /\ states[r].known
      /\ RecordTerminal(r, status) /\ Remember(r, NoState) /\ Go(r, h)
      /\ worker' = worker /\ mode' = mode /\ drained' = drained /\ stops' = stops
      /\ now' = now /\ sent' = sent
  BY DEF Complete, MayOperate, MayEnd, process
<1>2. /\ h \in Handlers /\ h.pc = "done" /\ h.binds = handler[r].binds
      /\ h.marked = handler[r].marked
  BY HandlerTypes, HandlerGone
<1> HIDE DEF h
<1>3. /\ Onward /\ Remembers /\ Runs
      /\ handler' \in [Requests -> Handlers] /\ states' \in [Requests -> States]
      /\ handler'[r] = h /\ \A q \in Requests : q # r => handler'[q] = handler[q]
  BY <1>1, <1>2, OneMoves
<1>4. Writes /\ Reads
  BY <1>2, <1>3 DEF Writes, Reads
<1>5. CASE states[r].terminal
  <2>1. db' = db /\ nextId' = nextId /\ signal' = signal
    BY <1>1, <1>5 DEF RecordTerminal
  <2>2. TypeOK'
    BY <1>1, <1>3, <2>1 DEF Core, TypeOK
  <2> QED
    BY <1>1, <1>3, <1>4, <2>1, <2>2, Quiet, QuietParts
<1>6. CASE ~states[r].terminal
  <2>1. Known(db, r) /\ db' = Append(db, m) /\ nextId' = nextId + 1 /\ signal' = TRUE
    BY <1>1, <1>6 DEF RecordTerminal, CanAppend, Store
  <2>2. /\ m \in Entry /\ m.id = nextId /\ m.at = now /\ m.req = r /\ m.account = None
        /\ m.kind = "terminal" /\ m.status = status
    BY RecordType DEF Kinds
  <2>3. ~Over(db, r)
    BY <1>1, <1>6 DEF Core, Progress
  <2> HIDE DEF m
  <2>4. Beside
    BY <1>1, <2>1 DEF Beside
  <2>5. Grows(db, db', {m})
    BY <1>1, <2>1, <2>2, <2>3, AppendStore
  <2>6. ~states'[r].known
    BY <1>1 DEF Remember, NoState, Core, TypeOK
  <2>7. Progress'
    BY <1>3, <2>2, <2>5, <2>6, ProgressKeeps DEF Core
  <2> QED
    BY <1>1, <1>3, <1>4, <2>1, <2>2, <2>3, <2>4, <2>7, AppendOne
<1> QED
  BY <1>5, <1>6

\* An answer is linked and appended in one transaction.
LEMMA LinkGrows ==
  ASSUME NEW d, NEW n, NEW t, StoreInv(d, n, t), NEW r \in Requests, NEW x \in Nat,
         Known(d, r), ~Linked(d, r), d.row[r].account \in Accounts,
         NEW m \in Entry, m.req = r, m.kind = "answer", m.account = None
  PROVE  LET e == Append(LinkAnswer(d, r, d.row[r].account, x), m) IN
         /\ Grows(d, e, {m}) /\ Agreeing(d, e) /\ Lasting(d, e)
         /\ e \in Database /\ e.log = d.log \cup {m} /\ e.affinity = d.affinity
<1> DEFINE a == d.row[r].account
           f == LinkAnswer(d, r, a, x)
           e == Append(f, m)
<1>1. d \in Database /\ ConvOf(d, r) \in Requests /\ a \in MaybeAccount
  BY DEF StoreInv, TypesOK, Opened, MaybeAccount
<1>2. /\ f \in Database
      /\ f.row = d.row /\ f.req = d.req /\ f.conv = d.conv /\ f.affinity = d.affinity
      /\ f.log = d.log /\ f.receipts = d.receipts /\ f.payloads = d.payloads
      /\ \A q \in Requests : q # r => f.link[q] = d.link[q]
      /\ f.link[r].conv = ConvOf(d, r) /\ f.link[r].account = a
  BY <1>1, LinkAnswerFields
<1> HIDE DEF f
<1>3. /\ e.log = d.log \cup {m} /\ e.row = d.row /\ e.req = d.req /\ e.conv = d.conv
      /\ e.link = f.link /\ e.affinity = d.affinity /\ e.receipts = d.receipts /\ e \in Database
  BY <1>2, AppendFields
<1> HIDE DEF e
<1>4. /\ \A q : Known(e, q) <=> Known(d, q)
      /\ \A q : ConvOf(e, q) = ConvOf(d, q)
      /\ \A q : Terminal(e, q) <=> Terminal(d, q)
      /\ \A q \in Requests : q # r => (Linked(e, q) <=> Linked(d, q))
  BY <1>2, <1>3 DEF Known, ConvOf, Terminal, Linked
<1>5. \A q \in Requests : Untouched(d, q) => Untouched(e, q)
  BY <1>2, <1>3 DEF Untouched, Known, ConvOf
<1>6. \A q \in Requests : Over(e, q) <=> Over(d, q)
  BY <1>3, <1>4 DEF Over
<1>7. Pending(e) \subseteq Pending(d) \cup {m}
  BY <1>3 DEF Pending
<1>8. Grows(d, e, {m})
  BY <1>3, <1>4, <1>5, <1>6, <1>7 DEF Grows
<1>9. ASSUME NEW c \in Requests, NEW y \in Accounts, Says(e, c, y)
      PROVE  Says(d, c, y)
  <2>1. ASSUME NEW q \in Requests, e.link[q].conv = c, e.link[q].account = y
        PROVE  Says(d, c, y)
    <3>1. CASE q = r
      BY <1>2, <1>3, <2>1, <3>1, Kind DEF Says
    <3>2. CASE q # r
      BY <1>2, <1>3, <2>1, <3>2, Kind DEF Says
    <3> QED
      BY <3>1, <3>2
  <2> QED
    BY <1>3, <1>4, <1>9, <2>1, Kind DEF Says
<1>10. Agreeing(d, e)
  BY <1>3, <1>9 DEF Agreeing
<1>11. Lasting(d, e)
  BY <1>3, <1>4 DEF Lasting
<1> QED
  BY <1>3, <1>8, <1>10, <1>11 DEF e, f

\* What a handler that begins a client write owes the client.
LEMMA WritingSent ==
  ASSUME Core, NEW r \in Requests, NEW m, m.id = nextId, m.req = r, Grows(db, db', {m}), Onward,
         sent' = sent, handler'[r].writing = nextId,
         \A q \in Requests : q # r => handler'[q] = handler[q]
  PROVE  Sent'
<1>1. \A k \in sent : k.req \in Requests
  BY DEF Core, TypeOK
<1>2. \A k \in sent : Begun(k.req)'
  BY <1>1 DEF Core, Sent, Onward
<1>3. ASSUME NEW q \in Requests, Known(db', q), ~Terminal(db', q), NEW k \in db.log, k.req = q
      PROVE  Known(db, q) /\ ~Terminal(db, q) /\ k \in db'.log
  BY <1>3 DEF Grows
<1>4. \A q \in Requests : Known(db', q) /\ ~Terminal(db', q) => Known(db, q) /\ ~Terminal(db, q)
  BY DEF Grows
<1>5. \A k \in sent : Known(db', k.req) /\ ~Terminal(db', k.req) =>
        \E j \in db'.log : j.id = k.id /\ j.req = k.req
  BY <1>1, <1>3, <1>4 DEF Core, Sent
<1>6. m \in db'.log
  BY DEF Grows
<1>7. \A q \in Requests : handler'[q].pc = "writing" /\ Known(db', q) /\ ~Terminal(db', q) =>
        \E k \in db'.log : k.id = handler'[q].writing /\ k.req = q
  BY <1>3, <1>4, <1>6 DEF Core, Sent
<1> QED
  BY <1>2, <1>5, <1>7 DEF Sent, Known, Terminal

\* Forward appends a frame, or links and appends the answer.
LEMMA ForwardKeeps ==
  ASSUME Core, NEW r \in Requests, Forward(r)
  PROVE  Core' /\ Calm
<1>1. /\ mode = "up" /\ handler[r].pc = "open" /\ states[r].known /\ Known(db, r)
      /\ states' = states /\ Beside
  BY DEF Forward, MayOperate, MayEnd, CanAppend, process, Beside
<1>2. CASE /\ db' = Append(db, Record(r, "frame")) /\ nextId' = nextId + 1
           /\ Go(r, [[handler[r] EXCEPT !.pc = "writing", !.writing = nextId] EXCEPT !.frames = @ + 1])
  <2> DEFINE m == Record(r, "frame")
             h == [[handler[r] EXCEPT !.pc = "writing", !.writing = nextId] EXCEPT !.frames = @ + 1]
  <2>1. /\ m \in Entry /\ m.id = nextId /\ m.at = now /\ m.req = r /\ m.account = None
        /\ m.kind = "frame"
    BY RecordIs DEF Kinds
  <2>2. /\ h \in Handlers /\ h.pc = "writing" /\ h.binds = handler[r].binds /\ h.writing = nextId
        /\ h.marked = handler[r].marked
    <3> DEFINE y == [handler[r] EXCEPT !.pc = "writing", !.writing = nextId]
    <3>1. /\ y \in Handlers /\ y.pc = "writing" /\ y.binds = handler[r].binds /\ y.writing = nextId
          /\ y.marked = handler[r].marked
      BY HandlerTypes, HandlerWrites
    <3> HIDE DEF y
    <3>2. LET x == [y EXCEPT !.frames = @ + 1] IN
          /\ x \in Handlers /\ x.pc = y.pc /\ x.binds = y.binds /\ x.writing = y.writing
          /\ x.marked = y.marked
      BY <3>1 DEF Handlers
    <3> QED
      BY <3>1, <3>2 DEF y
  <2>3. Go(r, h) /\ db' = Append(db, m)
    BY <1>2
  <2> HIDE DEF h, m
  <2>4. /\ Onward /\ Remembers /\ Runs
        /\ handler' \in [Requests -> Handlers] /\ states' \in [Requests -> States]
        /\ handler'[r] = h /\ \A q \in Requests : q # r => handler'[q] = handler[q]
    BY <1>1, <2>2, <2>3, OneMoves DEF Beside
  <2>5. Grows(db, db', {m})
    BY <1>1, <1>2, <2>1, <2>3, AppendStore DEF Beside
  <2>6. Progress'
    BY <2>1, <2>4, <2>5, ProgressKeeps DEF Core
  <2>7. Sent'
    BY <1>1, <2>1, <2>2, <2>4, <2>5, WritingSent DEF Beside
  <2>8. Reads
    BY <1>1, <2>2, <2>4 DEF Reads
  <2> QED
    BY <1>1, <1>2, <2>1, <2>3, <2>4, <2>6, <2>7, <2>8, AppendOne
<1>3. CASE /\ ~handler[r].marked /\ handler[r].binds > 0 /\ ~Linked(db, r)
           /\ db' = Append(LinkAnswer(db, r, states[r].account, now), Record(r, "answer"))
           /\ nextId' = nextId + 1
           /\ Go(r, [handler[r] EXCEPT !.pc = "writing", !.writing = nextId])
  <2> DEFINE m == Record(r, "answer")
             h == [handler[r] EXCEPT !.pc = "writing", !.writing = nextId]
             a == db.row[r].account
             f == LinkAnswer(db, r, a, now)
  <2>1. /\ m \in Entry /\ m.id = nextId /\ m.at = now /\ m.req = r /\ m.account = None
        /\ m.kind = "answer"
    BY RecordIs DEF Kinds
  <2>2. /\ h \in Handlers /\ h.pc = "writing" /\ h.binds = handler[r].binds /\ h.writing = nextId
        /\ h.marked = handler[r].marked
    BY HandlerTypes, HandlerWrites
  <2>3. states[r].account = a /\ a \in Accounts /\ now \in Nat /\ nextId \in Nat
    <3>1. states[r].account = a /\ states[r].account # None
      BY <1>1, <1>3 DEF Core, Memory
    <3>2. a \in MaybeAccount
      BY RowValues DEF Core, TypeOK
    <3> QED
      BY <3>1, <3>2 DEF MaybeAccount, Core, TypeOK
  <2>4. Go(r, h) /\ db' = Append(f, m) /\ ~Linked(db, r) /\ nextId' = nextId + 1
    BY <1>3, <2>3
  <2>5. ~Over(db, r)
    BY <1>1, <1>3, Unended
  <2>6. StoreInv(f, nextId, now) /\ Linked(f, r)
    BY <1>1, <2>3, <2>4, LinkAnswerKeeps DEF Core
  <2>7. /\ f.row = db.row /\ f.req = db.req /\ f.log = db.log
    <3>1. db \in Database /\ ConvOf(db, r) \in Requests /\ a \in MaybeAccount
      BY <1>1, <2>3 DEF Core, TypeOK, StoreInv, Opened, MaybeAccount
    <3> QED
      BY <2>3, <2>4, <3>1, LinkAnswerFields
  <2>8. /\ Grows(db, db', {m}) /\ Agreeing(db, db') /\ Lasting(db, db')
        /\ db' \in Database /\ db'.log = db.log \cup {m} /\ db'.affinity = db.affinity
    <3> DEFINE e == Append(f, m)
    <3> HIDE DEF m
    <3>1. /\ Grows(db, e, {m}) /\ Agreeing(db, e) /\ Lasting(db, e)
          /\ e \in Database /\ e.log = db.log \cup {m} /\ e.affinity = db.affinity
      <4>1. StoreInv(db, nextId, now) /\ a \in Accounts
        BY <2>3 DEF Core
      <4> QED
        BY <1>1, <2>1, <2>3, <2>4, <4>1, LinkGrows
    <3>2. db' = e
      BY <2>4
    <3> HIDE DEF e
    <3> QED
      BY <3>1, <3>2
  <2> HIDE DEF h, m, f, a
  <2>9. StoreInv(db', nextId', now')
    <3>1. StoreInv(Append(f, m), nextId + 1, now)
      BY <1>1, <2>1, <2>3, <2>5, <2>6, <2>7, AppendKeeps DEF Known, Terminal, Over
    <3> QED
      BY <1>1, <2>4, <3>1 DEF Beside
  <2>10. /\ Onward /\ Remembers /\ Runs
         /\ handler' \in [Requests -> Handlers] /\ states' \in [Requests -> States]
         /\ handler'[r] = h /\ \A q \in Requests : q # r => handler'[q] = handler[q]
    BY <1>1, <2>2, <2>4, OneMoves DEF Beside
  <2>11. Progress'
    BY <2>1, <2>8, <2>10, ProgressKeeps DEF Core
  <2>12. Sent'
    BY <1>1, <2>1, <2>2, <2>8, <2>10, WritingSent DEF Beside
  <2>13. Read'
    <3>1. ASSUME NEW q \in Requests
          PROVE  /\ Known(db', q) => Known(db, q)
                 /\ Known(db', q) /\ Linked(db', q) => Linked(db, q) \/ Recorded(db', q, "answer")
                 /\ q # r /\ Known(db', q) /\ Linked(db', q) => Linked(db, q)
                 /\ \A kind : Recorded(db, q, kind) => Recorded(db', q, kind)
      BY <2>1, <2>2, <2>8, <2>10 DEF Grows, Recorded
    <3>2. \A q \in Requests : handler'[q].pc \in {"open", "writing"} => handler[q].pc \in {"open", "writing"}
      BY <1>1, <2>2, <2>10
    <3>3. \A q \in Requests : handler'[q].pc \in {"begun", "running"} => handler[q].pc \in {"begun", "running"}
      BY <1>1, <2>2, <2>10
    <3>4. ~Inputs => \A k \in db'.log : k.kind # "input"
      BY <2>1, <2>8 DEF Core, Read
    <3>5. ASSUME now < PayloadTTL
          PROVE  /\ \A q \in Requests : Known(db', q) /\ Linked(db', q) => Recorded(db', q, "answer")
                 /\ \A q \in Requests : Known(db', q) /\ Inputs =>
                      (Linked(db', q) \/ handler'[q].pc \in {"open", "writing"} => Recorded(db', q, "input"))
      BY <1>1, <3>1, <3>2, <3>5 DEF Core, Read
    <3>6. now' = now /\ (~Inputs => \A q \in Requests : handler'[q].pc \notin {"begun", "running"})
      BY <1>1, <3>3 DEF Beside, Core, Read
    <3> QED
      BY <3>4, <3>5, <3>6 DEF Read, Known, Linked, Recorded
  <2> QED
    BY <1>1, <2>1, <2>4, <2>8, <2>9, <2>10, <2>11, <2>12, <2>13, StepOne
<1> QED
  BY <1>2, <1>3 DEF Forward, Store

-----------------------------------------------------------------------------
(* BeginRequest: the row of request r, and what it continues *)

\* The row a request begins with fits its conversation.
LEMMA BeginRow ==
  ASSUME Core, NEW r \in Requests, ~Begun(r), MayBegin(r)
  PROVE  LET p == handler[r].prev
             row == IF p = None THEN [conv |-> r, account |-> None]
                    ELSE [conv |-> db.link[p].conv, account |-> db.link[p].account]
         IN  /\ row \in Row /\ row.conv \in Requests /\ ~db.conv[row.conv].deleting
             /\ db.conv[row.conv].open => db.conv[row.conv].account = row.account
             /\ \A x \in Accounts : Says(db, row.conv, x) => row.account = x
             /\ row.account # None => Says(db, row.conv, row.account)
             /\ \A q \in Requests : ~Begun(q) /\ q # r => row.conv # q
             /\ \A q \in Requests : states[q].known /\ states[q].conv = row.conv
                  /\ states[q].account # None => states[q].account = row.account
<1> DEFINE p == handler[r].prev
           row == IF p = None THEN [conv |-> r, account |-> None]
                  ELSE [conv |-> db.link[p].conv, account |-> db.link[p].account]
<1>1. StoreInv(db, nextId, now) /\ db \in Database
  BY DEF Core, TypeOK
<1>2. p \in Requests \cup {None}
  BY DEF Core, TypeOK, Handlers
<1>3. CASE p = None
  <2>1. row = [conv |-> r, account |-> None]
    BY <1>3
  <2>2. row \in Row /\ row.conv = r /\ row.account = None
    BY <2>1 DEF Row, MaybeAccount
  <2>3. db.conv[r] = NoConv /\ ~NoConv.open /\ ~NoConv.deleting /\ NoConv.account = None
    BY Unknown DEF Untouched, NoConv
  <2>4. ASSUME NEW x \in Accounts, Says(db, r, x)
        PROVE  FALSE
    <3>1. \A q \in Requests : ConvOf(db, q) # r /\ db.link[q].conv # r
      BY Unknown DEF Untouched, ConvOf
    <3>2. \A m \in db.log : m.req \in Requests
      BY <1>1, RecordFacts
    <3> QED
      BY <2>3, <2>4, <3>1, <3>2 DEF Says
  <2>5. \A q \in Requests : states[q].conv # r
    BY Unknown
  <2> QED
    BY <2>2, <2>3, <2>4, <2>5
<1>4. CASE p # None
  <2>1. p \in Requests /\ Resolves(db, p, now)
    BY <1>2, <1>4 DEF MayBegin
  <2>2. row.conv = db.link[p].conv /\ row.account = db.link[p].account
    BY <1>4
  <2>3. row \in Row
    BY <1>1, <1>4, <2>1, RowValues DEF Row
  <2>4. /\ Linked(db, p) /\ Known(db, p) /\ ~db.conv[row.conv].deleting
        /\ ConvOf(db, p) = row.conv
    BY <2>1, <2>2 DEF Resolves, ConvOf
  <2>5. row.account = db.row[p].account
    BY <1>1, <2>1, <2>2 DEF Resolves, StoreInv, Named
  <2>6. row.conv \in Requests /\ row.account \in Accounts
    BY <1>1, <2>1, <2>2, <2>4 DEF StoreInv, Opened
  <2> HIDE DEF row
  <2>7. db.conv[row.conv].open => db.conv[row.conv].account = row.account
    BY <1>1, <2>1, <2>4, <2>5 DEF StoreInv, Named
  <2>8. \A x \in Accounts : Says(db, row.conv, x) => row.account = x
    BY <1>1, <2>1, <2>4, <2>5 DEF StoreInv, Named
  <2>9. Says(db, row.conv, row.account)
    BY <2>1, <2>2, <2>6, Kind DEF Says
  <2>10. \A q \in Requests : ~Begun(q) => row.conv # q
    BY <2>1, <2>2, Unknown DEF Untouched
  <2>11. \A q \in Requests : states[q].known /\ states[q].conv = row.conv
           /\ states[q].account # None => states[q].account = row.account
    BY <2>1, <2>4, <2>5 DEF Core, Memory
  <2> QED
    BY <2>3, <2>4, <2>6, <2>7, <2>8, <2>9, <2>10, <2>11 DEF row
<1> QED
  BY <1>3, <1>4

\* Begin inserts the row and the accepted record.
LEMMA BeginKeeps ==
  ASSUME Core, NEW r \in Requests, Begin(r)
  PROVE  Core' /\ Calm
<1> DEFINE p == handler[r].prev
           row == IF p = None THEN [conv |-> r, account |-> None]
                  ELSE [conv |-> db.link[p].conv, account |-> db.link[p].account]
           m == Record(r, "accepted")
           h == [handler[r] EXCEPT !.pc = IF Inputs THEN "begun" ELSE "open"]
           s == [NoState EXCEPT !.known = TRUE, !.conv = row.conv, !.account = row.account]
<1>1. /\ mode = "up" /\ handler[r].pc = "arrived" /\ MayBegin(r)
      /\ db' = Insert(db, r, row, m) /\ nextId' = nextId + 1
      /\ Remember(r, s) /\ Go(r, h)
      /\ worker' = worker /\ signal' = signal /\ mode' = mode /\ drained' = drained
      /\ stops' = stops /\ now' = now /\ sent' = sent
  BY DEF Begin, Store, process, Insert
<1>2. ~Begun(r)
  BY <1>1 DEF Begun
<1>3. /\ row \in Row /\ row.conv \in Requests /\ ~db.conv[row.conv].deleting
      /\ db.conv[row.conv].open => db.conv[row.conv].account = row.account
      /\ \A x \in Accounts : Says(db, row.conv, x) => row.account = x
      /\ row.account # None => Says(db, row.conv, row.account)
      /\ \A q \in Requests : ~Begun(q) /\ q # r => row.conv # q
      /\ \A q \in Requests : states[q].known /\ states[q].conv = row.conv
           /\ states[q].account # None => states[q].account = row.account
  BY <1>1, <1>2, BeginRow
<1> HIDE DEF row
<1>4. /\ m \in Entry /\ m.id = nextId /\ m.at = now /\ m.req = r /\ m.kind = "accepted"
      /\ m.account = None
  BY RecordIs DEF Kinds
<1>5. /\ h \in Handlers /\ h.pc = (IF Inputs THEN "begun" ELSE "open") /\ h.binds = handler[r].binds
      /\ h.marked = handler[r].marked
  BY DEF Core, TypeOK, Handlers
<1>6. /\ s \in States /\ s.known = TRUE /\ s.conv = row.conv
      /\ s.account = row.account /\ s.terminal = FALSE
  BY <1>3 DEF States, NoState, Row
<1> HIDE DEF h, m, s
<1>7. /\ handler' \in [Requests -> Handlers] /\ states' \in [Requests -> States]
      /\ handler'[r] = h /\ \A q \in Requests : q # r => handler'[q] = handler[q]
      /\ states'[r] = s /\ \A q \in Requests : q # r => states'[q] = states[q]
  BY <1>1, <1>5, <1>6 DEF Core, TypeOK, Go, Remember
<1>8. /\ StoreInv(db, nextId, now) /\ db \in Database /\ nextId \in Nat \ {0} /\ now \in Nat
      /\ ~Known(db, r) /\ ~Linked(db, r) /\ db.req[r] = NoReq
      /\ handler[r].binds = 0 /\ handler[r].marked = FALSE
  BY <1>2, Unknown DEF Core, TypeOK, Untouched, Linked, Handlers
<1>9. StoreInv(db', nextId', now')
  BY <1>1, <1>3, <1>4, <1>8, InsertKeeps
<1>10. /\ db' \in Database
       /\ db'.row[r] = row /\ \A q \in Requests : q # r => db'.row[q] = db.row[q]
       /\ db'.log = db.log \cup {m} /\ db'.req = db.req /\ db'.conv = db.conv
       /\ db'.link = db.link /\ db'.affinity = db.affinity /\ db'.receipts = db.receipts
  BY <1>1, <1>3, <1>4, <1>8, InsertFields
<1>11. /\ \A q \in Requests : q # r => (Known(db', q) <=> Known(db, q)) /\ ConvOf(db', q) = ConvOf(db, q)
       /\ ConvOf(db', r) = row.conv /\ db'.row[r].account = row.account
       /\ \A q : Linked(db', q) <=> Linked(db, q)
       /\ \A q : Terminal(db', q) <=> Terminal(db, q)
  BY <1>10 DEF Known, ConvOf, Linked, Terminal
<1>12. \A k \in db.log : k.req \in Requests /\ k.req # r
  <2>1. \A k \in db.log : k.req \in Requests /\ Known(db, k.req)
    BY <1>8, RecordFacts
  <2> QED
    BY <1>8, <2>1
<1>13. ASSUME NEW c \in Requests, NEW x \in Accounts, Says(db', c, x)
       PROVE  Says(db, c, x)
  <2>1. CASE ConvOf(db', r) = c /\ x \in {db'.row[r].account, db'.req[r].account}
    BY <1>3, <1>8, <1>10, <1>11, <2>1, Kind DEF NoReq
  <2>2. CASE ~(ConvOf(db', r) = c /\ x \in {db'.row[r].account, db'.req[r].account})
    <3>1. ASSUME NEW k \in db'.log, ConvOf(db', k.req) = c, k.account = x
          PROVE  Says(db, c, x)
      BY <1>4, <1>10, <1>11, <1>12, <1>13, <3>1, Kind DEF Says
    <3>2. ASSUME NEW q \in Requests, ConvOf(db', q) = c, x \in {db'.row[q].account, db'.req[q].account}
          PROVE  Says(db, c, x)
      <4>1. q # r
        BY <2>2, <3>2
      <4> QED
        BY <1>10, <1>11, <1>13, <3>2, <4>1 DEF Says
    <3> QED
      BY <1>10, <1>13, <3>1, <3>2 DEF Says
  <2> QED
    BY <2>1, <2>2
<1>14. \A q \in Requests : Over(db', q) <=> Over(db, q)
  BY <1>4, <1>10, <1>11 DEF Over
<1>15. TypeOK'
  BY <1>1, <1>7, <1>8, <1>10 DEF Core, TypeOK
<1>16. Fresh'
  <2> SUFFICES ASSUME NEW q \in Requests, ~Begun(q)'
               PROVE  /\ Untouched(db', q) /\ states'[q] = NoState
                      /\ \A k \in Requests : states'[k].conv # q
                      /\ handler'[q].binds = 0 /\ ~handler'[q].marked
    BY DEF Fresh, Untouched
  <2>1. q # r /\ ~Begun(q)
    BY <1>5, <1>7 DEF Begun
  <2>2. row.conv # q
    BY <1>3, <2>1
  <2>3. Untouched(db', q)
    BY <1>10, <2>1, <2>2, Unknown DEF Untouched
  <2> QED
    BY <1>6, <1>7, <2>1, <2>2, <2>3, Unknown
<1>17. Memory'
  <2>1. \A q \in Requests : IF states'[q].known THEN states'[q].conv \in Requests ELSE states'[q] = NoState
    BY <1>3, <1>6, <1>7 DEF Core, Memory
  <2>2. \A q \in Requests : states'[q].known /\ Known(db', q) =>
          states'[q].conv = ConvOf(db', q) /\ states'[q].account = db'.row[q].account
    BY <1>6, <1>7, <1>10, <1>11 DEF Core, Memory
  <2>3. ASSUME NEW q \in Requests, states'[q].known, NEW x \in Accounts, states'[q].account # None,
               Says(db', states'[q].conv, x)
        PROVE  states'[q].account = x
    <3>1. Says(db, states'[q].conv, x)
      BY <1>13, <2>1, <2>3
    <3>2. CASE q = r
      BY <1>3, <1>6, <1>7, <3>1, <3>2
    <3>3. CASE q # r
      BY <1>7, <2>3, <3>1, <3>3 DEF Core, Memory
    <3> QED
      BY <3>2, <3>3
  <2>4. \A q, k \in Requests :
          /\ states'[q].known /\ states'[k].known /\ states'[q].conv = states'[k].conv
          /\ states'[q].account # None /\ states'[k].account # None
          => states'[q].account = states'[k].account
    BY <1>3, <1>6, <1>7 DEF Core, Memory
  <2>5. ASSUME NEW q \in Requests, NEW k \in Requests, states'[q].known, Known(db', k),
               ConvOf(db', k) = states'[q].conv, states'[q].account # None
        PROVE  states'[q].account = db'.row[k].account
    <3>1. CASE q = r /\ k = r
      BY <1>6, <1>7, <1>10, <3>1
    <3>2. CASE q = r /\ k # r
      <4>1. Known(db, k) /\ ConvOf(db, k) = row.conv /\ row.account # None
        BY <1>6, <1>7, <1>11, <2>5, <3>2
      <4>2. Says(db, ConvOf(db, k), row.account) /\ row.account \in Accounts
        BY <1>3, <4>1 DEF Row, MaybeAccount
      <4>3. db.row[k].account = row.account
        BY <1>8, <4>1, <4>2 DEF StoreInv, Named
      <4> QED
        BY <1>6, <1>7, <1>10, <3>2, <4>3
    <3>3. CASE q # r /\ k = r
      BY <1>3, <1>7, <1>10, <1>11, <2>5, <3>3
    <3>4. CASE q # r /\ k # r
      BY <1>7, <1>10, <1>11, <2>5, <3>4 DEF Core, Memory
    <3> QED
      BY <3>1, <3>2, <3>3, <3>4
  <2>6. \A q \in Requests : states'[q].known /\ handler'[q].binds > 0 => states'[q].account # None
    BY <1>5, <1>7, <1>8 DEF Core, Memory
  <2> QED
    BY <2>1, <2>2, <2>3, <2>4, <2>5, <2>6 DEF Memory, Known, ConvOf, Says
<1>18. Progress'
  <2>1. \A q \in Requests : handler'[q].pc \in {"begun", "running"} =>
          states'[q].known /\ ~handler'[q].marked
    BY <1>5, <1>6, <1>7, <1>8 DEF Core, Progress
  <2>2. \A q \in Requests : states'[q].known => (states'[q].terminal <=> handler'[q].marked)
    BY <1>5, <1>6, <1>7, <1>8 DEF Core, Progress
  <2>3. ~Over(db, r)
    BY <1>8, <1>12, Kind DEF Over, Terminal, NoReq
  <2>4. \A q \in Requests : states'[q].known =>
          IF states'[q].terminal THEN Known(db', q) => Over(db', q) ELSE ~Over(db', q)
    BY <1>6, <1>7, <1>11, <1>14, <2>3 DEF Core, Progress
  <2> QED
    BY <1>1, <2>1, <2>2, <2>4 DEF Progress, Known, Over, Terminal
<1>19. Sent'
  <2>1. \A k \in sent : k.req \in Requests /\ Begun(k.req) /\ k.req # r
    BY <1>2 DEF Core, Sent, TypeOK
  <2>2. \A k \in sent : Begun(k.req)'
    BY <1>7, <2>1 DEF Begun
  <2>3. \A k \in sent : Known(db', k.req) /\ ~Terminal(db', k.req) =>
          \E j \in db'.log : j.id = k.id /\ j.req = k.req
    BY <1>10, <1>11, <2>1 DEF Core, Sent
  <2>4. \A q \in Requests : handler'[q].pc = "writing" /\ Known(db', q) /\ ~Terminal(db', q) =>
          \E k \in db'.log : k.id = handler'[q].writing /\ k.req = q
    BY <1>5, <1>7, <1>10, <1>11 DEF Core, Sent
  <2> QED
    BY <1>1, <2>2, <2>3, <2>4 DEF Sent, Known, Terminal
<1>20. Batched'
  <2>1. \A k \in Pending(db') : k \in Pending(db) \/ k.id = nextId
    BY <1>4, <1>10 DEF Pending
  <2>2. \A b \in worker.batch : b.id \in Nat /\ b.id < nextId
    BY DEF Core, TypeOK, Entry, Batched
  <2>3. \A b \in worker.batch : \A k \in Pending(db') : k.id < b.id => k \in worker.batch
    BY <1>8, <2>1, <2>2 DEF Core, Batched
  <2> QED
    BY <1>1, <1>8, <2>2, <2>3 DEF Batched, Pending
<1>21. Read'
  <2>1. \A q \in Requests : \A kind : Recorded(db, q, kind) => Recorded(db', q, kind)
    BY <1>10 DEF Recorded
  <2>2. ~Inputs => \A k \in db'.log : k.kind # "input"
    BY <1>4, <1>10 DEF Core, Read
  <2>3. ~Inputs => \A q \in Requests : handler'[q].pc \notin {"begun", "running"}
    BY <1>5, <1>7 DEF Core, Read
  <2>4. ASSUME now < PayloadTTL
        PROVE  /\ \A q \in Requests : Known(db', q) /\ Linked(db', q) => Recorded(db', q, "answer")
               /\ \A q \in Requests : Known(db', q) /\ Inputs =>
                    (Linked(db', q) \/ handler'[q].pc \in {"open", "writing"} => Recorded(db', q, "input"))
    <3>1. \A q \in Requests : q # r => handler'[q] = handler[q] /\ (Known(db', q) <=> Known(db, q))
      BY <1>7, <1>11
    <3>2. ~Linked(db', r) /\ (Inputs => handler'[r].pc = "begun")
      BY <1>5, <1>7, <1>8, <1>11, <2>4 DEF Core, Read
    <3> QED
      BY <1>11, <2>1, <2>4, <3>1, <3>2 DEF Core, Read
  <2> QED
    BY <1>1, <2>2, <2>3, <2>4 DEF Read, Known, Linked, Recorded
<1>22. Drained'
  BY <1>1 DEF Core, Drained
<1>23. Core'
  BY <1>9, <1>15, <1>16, <1>17, <1>18, <1>19, <1>20, <1>21, <1>22, CoreKeeps
<1>24. Lasting(db, db')
  BY <1>10, <1>11 DEF Lasting
<1> QED
  BY <1>10, <1>23, <1>24 DEF Calm

-----------------------------------------------------------------------------
(* BindAccount, and the replay of a binding *)

\* The accepted record is the one the journal reads back.
LEMMA MaterializedFirst ==
  ASSUME Core, NEW r \in Requests, states[r].known, Known(db, r),
         Stored(db, r) \/ CanAccept(db, Accepted(r), states[r].account)
  PROVE  LET d == MaterializeAccepted(r) IN
         /\ StoreInv(d, nextId, now) /\ Follows(db, d) /\ Agreeing(db, d) /\ Lasting(db, d)
         /\ Stored(d, r) /\ d.log = db.log /\ d.row = db.row /\ d.affinity = db.affinity
<1>1. CASE Stored(db, r)
  <2>1. MaterializeAccepted(r) = db
    BY <1>1 DEF MaterializeAccepted
  <2>2. Follows(db, db) /\ Agreeing(db, db) /\ Lasting(db, db)
    BY SameFollow DEF Core
  <2> QED
    BY <1>1, <2>1, <2>2 DEF Core
<1>2. CASE ~Stored(db, r)
  <2> DEFINE m == Accepted(r)
             a == db.row[r].account
             d == Accept(db, m, a)
  <2>1. m \in db.log /\ m.req = r /\ m.kind = "accepted"
    BY DEF Core, StoreInv, AcceptedFirst, Accepted
  <2> HIDE DEF m
  <2>2. states[r].account = a
    BY DEF Core, Memory
  <2>3. MaterializeAccepted(r) = d
    BY <1>2, <2>2 DEF MaterializeAccepted, m
  <2>4. StoreInv(db, nextId, now) /\ ~Stored(db, m.req) /\ CanAccept(db, m, db.row[m.req].account)
    BY <1>2, <2>1, <2>2 DEF Core, m
  <2>5. StoreInv(d, nextId, now) /\ Follows(db, d) /\ Agreeing(db, d) /\ Lasting(db, d)
    BY <2>1, <2>4, AcceptKeeps
  <2>6. db \in Database /\ m \in Entry /\ a \in MaybeAccount /\ ConvOf(db, m.req) \in Requests
    BY <2>1, <2>4, RecordFacts
  <2>7. d.log = db.log /\ d.row = db.row /\ d.affinity = db.affinity /\ d.req[r] = Started(db.req[r], m, a)
    BY <2>1, <2>6, AcceptFields
  <2>8. Stored(d, r)
    <3>1. db.req[r] = NoReq /\ db.req[r] \in Req
      BY <1>2, <2>6, RowTypes DEF Stored
    <3>2. Started(db.req[r], m, a).status = "running"
      BY <2>6, <3>1, StartedType
    <3> QED
      BY <2>7, <3>2 DEF Stored, NoReq
  <2> HIDE DEF d
  <2> QED
    BY <2>3, <2>5, <2>7, <2>8
<1> QED
  BY <1>1, <1>2

\* What BindAccount makes of the memory of the handlers.
Rebinds(r, a) ==
    states' = [q \in Requests |-> IF q \in Peers(r) /\ states[q].account = None
                                  THEN [states[q] EXCEPT !.account = a] ELSE states[q]]

\* After a binding the memory of all handlers of the conversation agrees.
LEMMA BindMemory ==
  ASSUME Core, NEW r \in Requests, NEW a \in Accounts, states[r].known, Known(db, r),
         Fits(states[r].account, a), NEW h \in Handlers, Go(r, h), h.binds \in Nat,
         Rebinds(r, a),
         \A q \in Requests : (Known(db', q) <=> Known(db, q)) /\ ConvOf(db', q) = ConvOf(db, q),
         \A q \in Requests :
           db'.row[q].account = IF ConvOf(db, q) = ConvOf(db, r) THEN a ELSE db.row[q].account,
         \A x \in Accounts : Says(db', ConvOf(db, r), x) => x = a,
         \A k \in Requests : k # ConvOf(db, r) =>
           \A x \in Accounts : Says(db', k, x) => Says(db, k, x)
  PROVE  /\ Memory' /\ states' \in [Requests -> States]
         /\ \A q \in Requests :
              /\ states'[q].known = states[q].known /\ states'[q].conv = states[q].conv
              /\ states'[q].terminal = states[q].terminal
              /\ ~states[q].known => states'[q] = states[q]
<1> DEFINE c == ConvOf(db, r)
<1>1. Memory /\ states \in [Requests -> States] /\ handler \in [Requests -> Handlers]
  BY DEF Core, TypeOK
<1>2. states[r].conv = c /\ states[r].account = db.row[r].account
  BY <1>1 DEF Memory
<1>3. ASSUME NEW q \in Requests
      PROVE  /\ states'[q] \in States
             /\ states'[q].known = states[q].known /\ states'[q].conv = states[q].conv
             /\ states'[q].terminal = states[q].terminal
             /\ ~states[q].known => states'[q] = states[q]
             /\ states[q].known => states'[q].account =
                  IF states[q].conv = c /\ states[q].account = None THEN a ELSE states[q].account
  <2>1. states[q] \in States
    BY <1>1
  <2>2. CASE q \in Peers(r) /\ states[q].account = None
    <3>1. states'[q] = [states[q] EXCEPT !.account = a] /\ states[q].known /\ states[q].conv = c
      BY <1>2, <2>2 DEF Peers, Rebinds
    <3> QED
      BY <2>1, <2>2, <3>1 DEF States, MaybeAccount
  <2>3. CASE ~(q \in Peers(r) /\ states[q].account = None)
    <3>1. states'[q] = states[q]
      BY <2>3 DEF Rebinds
    <3>2. states[q].known => ~(states[q].conv = c /\ states[q].account = None)
      BY <1>2, <2>3 DEF Peers
    <3> QED
      BY <2>1, <3>1, <3>2
  <2> QED
    BY <2>2, <2>3
<1>4. ASSUME NEW q \in Requests, states[q].known, states[q].conv = c, states[q].account # None
      PROVE  states[q].account = a
  <2>1. states[q].account = db.row[r].account
    BY <1>1, <1>4 DEF Memory
  <2> QED
    BY <1>2, <1>4, <2>1 DEF Fits
<1>5. ASSUME NEW q \in Requests, states[q].known
      PROVE  states'[q].account = IF states[q].conv = c THEN a ELSE states[q].account
  <2>1. CASE states[q].conv = c /\ states[q].account # None
    <3>1. states[q].account = a
      BY <1>4, <1>5, <2>1
    <3>2. states'[q].account = states[q].account
      BY <1>3, <1>5, <2>1
    <3> QED
      BY <2>1, <3>1, <3>2
  <2>2. CASE ~(states[q].conv = c /\ states[q].account # None)
    BY <1>3, <1>5, <2>2
  <2> QED
    BY <2>1, <2>2
<1>6. /\ \A q \in Requests : q # r => handler'[q] = handler[q]
  BY <1>1 DEF Go
<1> HIDE DEF c
<1>7. \A q \in Requests : IF states'[q].known THEN states'[q].conv \in Requests ELSE states'[q] = NoState
  BY <1>1, <1>3 DEF Memory
<1>8. \A q \in Requests : states'[q].known /\ Known(db', q) =>
        states'[q].conv = ConvOf(db', q) /\ states'[q].account = db'.row[q].account
  BY <1>1, <1>3, <1>5 DEF Memory, c
<1>9. \A q \in Requests : states'[q].known =>
        \A x \in Accounts : states'[q].account # None /\ Says(db', states'[q].conv, x)
          => states'[q].account = x
  BY <1>1, <1>3, <1>5 DEF Memory, c
<1>10. \A q, k \in Requests :
         /\ states'[q].known /\ states'[k].known /\ states'[q].conv = states'[k].conv
         /\ states'[q].account # None /\ states'[k].account # None
         => states'[q].account = states'[k].account
  BY <1>1, <1>3, <1>5 DEF Memory
<1>11. \A q, k \in Requests :
         /\ states'[q].known /\ Known(db', k) /\ ConvOf(db', k) = states'[q].conv
         /\ states'[q].account # None
         => states'[q].account = db'.row[k].account
  BY <1>1, <1>3, <1>5 DEF Memory, c
<1>12. \A q \in Requests : states'[q].known /\ handler'[q].binds > 0 => states'[q].account # None
  <2>1. a # None
    BY Kind
  <2> QED
    BY <1>1, <1>2, <1>3, <1>5, <1>6, <2>1 DEF Memory
<1>13. Memory'
  BY <1>7, <1>8, <1>9, <1>10, <1>11, <1>12 DEF Memory, Known, ConvOf, Says
<1>14. states' \in [Requests -> States]
  BY <1>3 DEF Rebinds
<1> QED
  BY <1>3, <1>13, <1>14

\* Nothing but the accounts changes beside what a binding does to the database.
LEMMA BindRest ==
  ASSUME Core, NEW r \in Requests, NEW N, Grows(db, db', N), db' \in Database,
         \A m \in N : m.id = nextId /\ m.kind = "bound",
         StoreInv(db', nextId', now'), nextId' \in {nextId, nextId + 1}, Beside,
         NEW h \in Handlers, Go(r, h), h.pc = "open", handler[r].pc = "open",
         h.marked = handler[r].marked,
         mode = "up", Memory', states' \in [Requests -> States],
         \A q \in Requests :
           /\ states'[q].known = states[q].known /\ states'[q].conv = states[q].conv
           /\ states'[q].terminal = states[q].terminal
           /\ ~states[q].known => states'[q] = states[q],
         db.log \subseteq db'.log
  PROVE  Core'
<1>1. /\ handler' \in [Requests -> Handlers]
      /\ handler'[r] = h /\ \A q \in Requests : q # r => handler'[q] = handler[q]
  BY DEF Go, Core, TypeOK
<1>2. TypeOK'
  <2>1. nextId' \in Nat \ {0}
    BY DEF Core, TypeOK
  <2>2. signal \in BOOLEAN /\ signal' \in {signal, TRUE}
    BY DEF Core, TypeOK, Beside
  <2>3. signal' \in BOOLEAN
    BY <2>2, Zenon
  <2> QED
    BY <1>1, <2>1, <2>3 DEF Core, TypeOK, Beside
<1>3. Onward
  <2>1. \A q \in Requests : Begun(q) <=> Begun(q)'
    BY <1>1 DEF Begun
  <2>2. \A q \in Requests : ~Begun(q)' => handler'[q].binds = 0 /\ ~handler'[q].marked
    BY <1>1, Unknown DEF Begun
  <2>3. ~NoState.known
    BY DEF NoState
  <2> QED
    BY <2>1, <2>2, <2>3 DEF Onward
<1>4. Fresh'
  BY <1>3, FreshKeeps DEF Core
<1>5. Progress'
  <2>1. \A q \in Requests : handler'[q].pc \in {"begun", "running"} =>
          states'[q].known /\ ~handler'[q].marked
    BY <1>1 DEF Core, Progress
  <2>2. \A q \in Requests : states'[q].known => (states'[q].terminal <=> handler'[q].marked)
    BY <1>1 DEF Core, Progress
  <2>3. \A q \in Requests : states'[q].known =>
          IF states'[q].terminal THEN Known(db', q) => Over(db', q) ELSE ~Over(db', q)
    BY DEF Core, Progress, Grows
  <2> QED
    BY <2>1, <2>2, <2>3 DEF Progress, Known, Over, Terminal, Beside
<1>6. Writes /\ Reads
  BY <1>1 DEF Writes, Reads
<1>7. Sent'
  BY <1>3, <1>6, SentKeeps DEF Core, Beside
<1>8. Batched'
  BY BatchedKeeps DEF Beside
<1>9. Read'
  BY <1>6, ReadKeeps DEF Core, Beside
<1>10. Drained'
  BY DEF Core, Drained, Beside
<1> QED
  BY <1>2, <1>4, <1>5, <1>7, <1>8, <1>9, <1>10, CoreKeeps

\* Bind materializes, propagates, attaches and appends in one transaction.
LEMMA BindKeeps ==
  ASSUME Core, NEW r \in Requests, NEW a \in Accounts, Bind(r, a)
  PROVE  Core' /\ Calm
<1> DEFINE s == IF Fits(handler[r].hint, a) THEN handler[r].session ELSE None
           c == ConvOf(db, r)
           d == MaterializeAccepted(r)
           e == Attach(Propagate(d, c, a), s, a, d.conv[c].expires)
           m == [Record(r, "bound") EXCEPT !.account = a, !.session = s]
           h == [handler[r] EXCEPT !.binds = @ + 1]
<1>1. /\ mode = "up" /\ handler[r].pc = "open" /\ states[r].known /\ ~handler[r].marked
      /\ Known(db, r) /\ Fits(states[r].account, a)
      /\ Stored(db, r) \/ CanAccept(db, Accepted(r), states[r].account)
      /\ CanPropagate(d, c, a) /\ CanAttach(d, s, a, now)
      /\ \/ db' = e /\ nextId' = nextId /\ signal' = signal
         \/ db' = Append(e, m) /\ nextId' = nextId + 1 /\ signal' = TRUE
      /\ Rebinds(r, a) /\ Go(r, h)
      /\ worker' = worker /\ mode' = mode /\ drained' = drained /\ stops' = stops
      /\ now' = now /\ sent' = sent
  BY DEF Bind, MayOperate, MayEnd, Store, process, Rebinds
<1>2. Beside
  BY <1>1 DEF Beside
<1>3. /\ h \in Handlers /\ h.pc = handler[r].pc /\ h.marked = handler[r].marked
      /\ h.binds \in Nat
  BY DEF Core, TypeOK, Handlers
<1>4. s \in MaybeSession /\ now \in Nat /\ nextId \in Nat
  BY DEF Core, TypeOK, Handlers, MaybeSession
<1> HIDE DEF s, h
<1>5. /\ m \in Entry /\ m.id = nextId /\ m.at = now /\ m.req = r /\ m.kind = "bound"
      /\ m.account = a
  BY <1>4 DEF Record, Entry, MaybeAccount, Kinds
<1> HIDE DEF m
<1>6. /\ StoreInv(d, nextId, now) /\ Follows(db, d) /\ Agreeing(db, d) /\ Lasting(db, d)
      /\ Stored(d, r) /\ d.log = db.log /\ d.row = db.row /\ d.affinity = db.affinity
  BY <1>1, MaterializedFirst
<1> HIDE DEF d
<1>7. /\ c = ConvOf(d, r)
      /\ \A q : Known(d, q) <=> Known(db, q)
      /\ \A q : ConvOf(d, q) = ConvOf(db, q)
  BY <1>6 DEF ConvOf, Known
<1> HIDE DEF c
<1>8. /\ StoreInv(e, nextId, now) /\ Follows(d, e) /\ Lasting(d, e) /\ e.log = d.log
      /\ e \in Database /\ e.receipts = d.receipts
      /\ \A x \in Accounts : Says(e, c, x) => x = a
      /\ \A k \in Requests : k # c => \A x \in Accounts : Says(e, k, x) => Says(d, k, x)
      /\ \A q \in Requests :
           e.row[q].account = IF ConvOf(d, q) = c THEN a ELSE d.row[q].account
      /\ \A q \in Requests :
           /\ Known(e, q) <=> Known(d, q)
           /\ ConvOf(e, q) = ConvOf(d, q)
           /\ Linked(e, q) <=> Linked(d, q)
           /\ Stored(e, q) <=> Stored(d, q)
           /\ Terminal(e, q) <=> Terminal(d, q)
      /\ \A k \in Sessions : e.affinity[k] =
           IF k = s THEN [account |-> a, expires |-> d.conv[c].expires] ELSE d.affinity[k]
  BY <1>1, <1>4, <1>6, <1>7, BindingKeeps
<1> HIDE DEF e
<1>9. Follows(db, e) /\ Lasting(db, e) /\ e.log = db.log
  BY <1>6, <1>8, FollowsTrans, LastingTrans
<1>10. \A k \in Sessions : db.affinity[k].expires > now => e.affinity[k].account = db.affinity[k].account
  <2>1. now <= now
    BY <1>4
  <2>2. \A k \in Sessions : d.affinity[k].expires > now => e.affinity[k].account = d.affinity[k].account
    BY <1>1, <1>4, <1>6, <1>8, <2>1, StickyAttach
  <2> QED
    BY <1>6, <2>2
<1>11. /\ \A q \in Requests : (Known(e, q) <=> Known(db, q)) /\ ConvOf(e, q) = ConvOf(db, q)
       /\ \A q \in Requests :
            e.row[q].account = IF ConvOf(db, q) = c THEN a ELSE db.row[q].account
       /\ \A k \in Requests : k # c => \A x \in Accounts : Says(e, k, x) => Says(db, k, x)
  BY <1>6, <1>7, <1>8 DEF Agreeing
<1>12. PICK N :
         /\ Grows(db, db', N) /\ \A k \in N : k.id = nextId /\ k.kind = "bound"
         /\ StoreInv(db', nextId', now') /\ nextId' \in {nextId, nextId + 1}
         /\ db' \in Database /\ db.log \subseteq db'.log /\ db'.affinity = e.affinity
         /\ db'.row = e.row /\ db'.req = e.req /\ db'.conv = e.conv
         /\ \A k : \A x \in Accounts : Says(db', k, x) => Says(e, k, x) \/ (k = c /\ x = a)
  <2>1. CASE db' = e /\ nextId' = nextId
    <3>1. Grows(db, e, {})
      BY <1>9, FollowsGrows
    <3> QED
      BY <1>1, <1>8, <1>9, <2>1, <3>1
  <2>2. CASE db' = Append(e, m) /\ nextId' = nextId + 1
    <3>1. Grows(db, Append(e, m), {m})
      BY <1>5, <1>8, <1>9, AppendGrows DEF Core, TypeOK
    <3>2. ~Over(e, r)
      <4>1. ~Over(db, r)
        BY <1>1, Unended
      <4> QED
        BY <1>9, <4>1 DEF Follows
    <3>3. StoreInv(Append(e, m), nextId + 1, now)
      <4>1. Known(e, r) /\ Stored(e, r) /\ e.row[r].account = a
        BY <1>1, <1>6, <1>7, <1>8
      <4> QED
        BY <1>4, <1>5, <1>8, <3>2, <4>1, AppendKeeps DEF Over
    <3>4. /\ Append(e, m) \in Database /\ Append(e, m).log = e.log \cup {m}
          /\ Append(e, m).row = e.row /\ Append(e, m).req = e.req /\ Append(e, m).conv = e.conv
          /\ Append(e, m).link = e.link /\ Append(e, m).affinity = e.affinity
      BY <1>5, <1>8, AppendFields
    <3>5. \A k : \A x \in Accounts : Says(db', k, x) => Says(e, k, x) \/ (k = c /\ x = a)
      <4>1. ConvOf(e, r) = c
        BY <1>7, <1>8
      <4>2. /\ db'.log = e.log \cup {m} /\ db'.row = e.row /\ db'.req = e.req
            /\ db'.conv = e.conv /\ db'.link = e.link
        BY <2>2, <3>4
      <4>3. \A q : ConvOf(db', q) = ConvOf(e, q)
        BY <4>2 DEF ConvOf
      <4> QED
        BY <1>5, <4>1, <4>2, <4>3 DEF Says
    <3>6. StoreInv(db', nextId', now')
      BY <1>1, <2>2, <3>3
    <3> QED
      BY <1>5, <1>9, <2>2, <3>1, <3>4, <3>5, <3>6
  <2> QED
    BY <1>1, <2>1, <2>2
<1>13. Memory' /\ states' \in [Requests -> States]
       /\ \A q \in Requests :
            /\ states'[q].known = states[q].known /\ states'[q].conv = states[q].conv
            /\ states'[q].terminal = states[q].terminal
            /\ ~states[q].known => states'[q] = states[q]
  <2>1. \A q \in Requests : (Known(db', q) <=> Known(db, q)) /\ ConvOf(db', q) = ConvOf(db, q)
    BY <1>11, <1>12 DEF Known, ConvOf
  <2>2. \A q \in Requests :
          db'.row[q].account = IF ConvOf(db, q) = c THEN a ELSE db.row[q].account
    BY <1>11, <1>12
  <2>3. \A x \in Accounts : Says(db', c, x) => x = a
    BY <1>8, <1>12
  <2>4. \A k \in Requests : k # c => \A x \in Accounts : Says(db', k, x) => Says(db, k, x)
    BY <1>11, <1>12
  <2> QED
    BY <1>1, <1>3, <2>1, <2>2, <2>3, <2>4, BindMemory DEF c
<1>14. Core'
  BY <1>1, <1>2, <1>3, <1>12, <1>13, BindRest
<1>15. Lasting(db, db')
  BY <1>9, <1>12 DEF Lasting, Terminal
<1> QED
  BY <1>10, <1>12, <1>14, <1>15 DEF Calm

\* The first of some records is the one with the least number.
LEMMA FirstIs ==
  ASSUME NEW S \in SUBSET Entry, S # {}
  PROVE  First(S) \in S /\ \A k \in S : First(S).id <= k.id
<1> DEFINE T == {m.id : m \in S}
<1>1. T \subseteq Nat /\ T # {}
  BY DEF Entry
<1> HIDE DEF T
<1>2. PICK x \in T : \A y \in T : x <= y
  BY <1>1, LeastNat
<1>3. \E m \in S : \A k \in S : m.id <= k.id
  BY <1>2 DEF T
<1> QED
  BY <1>3 DEF First

\* Apply materializes the first record of the batch, unless it was applied or deleted.
LEMMA ApplyKeeps ==
  ASSUME Core, Apply
  PROVE  Core' /\ Calm
<1> DEFINE m == First(worker.batch)
<1>1. /\ worker.batch # {} /\ (Applied(m) \/ Applies(db, m))
      /\ db' = (IF Applied(m) THEN db ELSE Materialize(db, m))
      /\ worker' = [worker EXCEPT !.batch = @ \ {m}] /\ signal' = signal
      /\ nextId' = nextId /\ states' = states /\ handler' = handler
      /\ mode' = mode /\ drained' = drained /\ stops' = stops /\ now' = now /\ sent' = sent
  BY DEF Apply, process
<1>2. worker.batch \in SUBSET Entry
  BY DEF Core, TypeOK
<1>3. m \in worker.batch /\ \A k \in worker.batch : m.id <= k.id
  BY <1>1, <1>2, FirstIs
<1> HIDE DEF m
<1>4. StoreInv(db, nextId, now) /\ now \in Nat /\ m \in Entry /\ m.id \in Nat
  BY <1>2, <1>3 DEF Core, TypeOK, Entry
<1>5. /\ StoreInv(db', nextId, now) /\ Follows(db, db') /\ Agreeing(db, db') /\ Lasting(db, db')
      /\ db' \in Database /\ db'.log = db.log /\ m.id \in db'.receipts
      /\ \A s \in Sessions : db.affinity[s].expires > now =>
           db'.affinity[s].account = db.affinity[s].account
  <2>1. CASE Applied(m)
    <3>1. Follows(db, db) /\ Agreeing(db, db) /\ Lasting(db, db)
      BY <1>4, SameFollow
    <3> QED
      BY <1>1, <1>4, <2>1, <3>1 DEF Applied, Core, TypeOK
  <2>2. CASE ~Applied(m)
    <3>1. m \in Pending(db) /\ Applies(db, m) /\ db' = Materialize(db, m)
      BY <1>1, <2>2 DEF Applied, Applies, Pending
    <3>2. \A k \in Pending(db) : k.id \in Nat
      BY <1>4, RecordFacts DEF Pending
    <3>3. \A k \in Pending(db) : k.req = m.req => m.id <= k.id
      BY <1>3, <1>4, <3>2 DEF Core, Batched
    <3> QED
      BY <1>4, <3>1, <3>3, MaterializeKeeps
  <2> QED
    BY <2>1, <2>2
<1>6. /\ worker'.batch = worker.batch \ {m} /\ worker'.pc = worker.pc /\ TypeOK'
  BY <1>1, <1>2, <1>5 DEF Core, TypeOK
<1>7. Grows(db, db', {})
  BY <1>5, FollowsGrows
<1>8. Onward /\ Remembers /\ Runs /\ Writes /\ Reads
  BY <1>1, StillMoves
<1>9. Fresh' /\ Memory' /\ Progress' /\ Sent'
  BY <1>1, <1>5, <1>7, <1>8, FreshKeeps, MemoryKeeps, ProgressKeeps, SentKeeps DEF Core
<1>10. Read'
  BY <1>1, <1>5, <1>7, <1>8, ReadKeeps DEF Core
<1>11. Drained'
  BY <1>1, <1>6, <1>7, DrainedKeeps DEF Core
<1>12. Batched'
  <2>1. \A k \in Pending(db') : k \in Pending(db) /\ k # m
    BY <1>5 DEF Follows, Pending
  <2>2. \A b \in worker'.batch : b.id < nextId'
    BY <1>1, <1>6 DEF Core, Batched
  <2>3. \A b \in worker'.batch : \A k \in Pending(db') : k.id < b.id => k \in worker'.batch
    BY <1>6, <2>1 DEF Core, Batched
  <2> QED
    BY <2>2, <2>3 DEF Batched, Pending
<1>13. StoreInv(db', nextId', now')
  BY <1>1, <1>5
<1>14. Core'
  BY <1>6, <1>9, <1>10, <1>11, <1>12, <1>13, CoreKeeps
<1> QED
  BY <1>1, <1>5, <1>14 DEF Calm

-----------------------------------------------------------------------------
(* A step of the journal *)

\* Every step of a handler keeps the invariant.
LEMMA ServeKeeps ==
  ASSUME Core, NEW r \in Requests, Serve(r)
  PROVE  Core' /\ Calm
<1>1. CASE Arrive(r) \/ HistoryStep(r) \/ Begin(r) \/ BeginFails(r)
  BY <1>1, ArriveKeeps, HistoryStepKeeps, BeginKeeps, BeginFailsKeeps
<1>2. CASE Proceed(r) \/ ProceedFails(r)
  BY <1>2, ProceedKeeps, ProceedFailsKeeps
<1>3. CASE \E a \in Accounts : Bind(r, a)
  BY <1>3, BindKeeps
<1>4. CASE Forward(r) \/ Write(r) \/ Usage(r)
  BY <1>4, ForwardKeeps, WriteKeeps, UsageKeeps
<1>5. CASE \E status \in Outcomes : Mark(r, status)
  BY <1>5, MarkKeepsCore
<1>6. CASE Finish(r)
  BY <1>6, CompleteKeeps, LeaveKeeps DEF Finish
<1> QED
  BY <1>1, <1>2, <1>3, <1>4, <1>5, <1>6 DEF Serve, HistoryStep

\* So does every step of the journal, ...
LEMMA NextKeeps ==
  ASSUME Core, Next
  PROVE  Core' /\ Calm
<1>1. CASE \E r \in Requests : Serve(r)
  BY <1>1, ServeKeeps
<1>2. CASE Wake
  BY <1>2, WakeKeeps
<1>3. CASE Replay
  BY <1>3, LoadKeeps, ApplyKeeps, ReplayEndKeeps DEF Replay
<1>4. CASE Close \/ Drain \/ Crash \/ Start
  BY <1>4, ProcessKeeps
<1>5. CASE Tick
  BY <1>5, TickKeeps
<1> QED
  BY <1>1, <1>2, <1>3, <1>4, <1>5 DEF Next

\* ... with the runner beside it.
LEMMA JournalStepKeeps ==
  ASSUME Inv, JournalStep
  PROVE  Inv' /\ Calm
<1>1. Core' /\ Calm
  BY NextKeeps DEF JournalStep, Inv
<1>2. \/ mode' = "down" /\ job' = NoJob /\ listed' = {}
      \/ mode' # "down" /\ job' = job /\ listed' = listed
  BY DEF JournalStep, retained
<1>3. RetentionTypeOK'
  BY <1>1, <1>2 DEF Inv, RetentionTypeOK, Core
<1>4. Targeted'
  <2>1. CASE job' = NoJob
    BY <2>1 DEF Targeted, NoJob
  <2>2. CASE mode' # "down" /\ job' = job
    <3>1. job.pc \in Jobs => job.target \in Requests
      <4>1. NoJob.pc \notin Jobs
        BY DEF NoJob, Jobs
      <4>2. job \in [pc : Jobs, target : Requests] \cup {NoJob}
        BY DEF Inv, RetentionTypeOK
      <4> QED
        BY <4>1, <4>2
    <3>2. /\ job.pc \in {"conversation files", "requests", "conversation"} =>
               db'.conv[job.target].deleting
          /\ job.pc \in {"request files", "request rows"} =>
               Terminal(db', job.target) /\ db'.req[job.target].deleting
      BY <1>1, <3>1 DEF Calm, Lasting, Inv, Targeted, Jobs
    <3> QED
      BY <2>2, <3>2 DEF Targeted, Terminal
  <2> QED
    BY <1>2, <2>1, <2>2
<1> QED
  BY <1>1, <1>3, <1>4 DEF Inv

-----------------------------------------------------------------------------
(* The retention runner *)

\* What no step may do to the records of a request that runs, or to a session.
Clean ==
    /\ \A m \in db.log : m \in db'.log \/ Terminal(db, m.req)
    /\ \A s \in Sessions : db.affinity[s].expires > now =>
         \/ db'.affinity[s].account = db.affinity[s].account
         \/ /\ db'.affinity[s] = NoAffinity
            /\ \A c \in Requests : db'.conv[c].account # db.affinity[s].account

\* The runner works on the database beneath the handlers.
LEMMA Beneath ==
  ASSUME Core, UNCHANGED Others, db' \in Database, StoreInv(db', nextId, now),
         Follows(db, db'), Agreeing(db, db'),
         now < PayloadTTL => \A m \in db.log : Known(db', m.req) => m \in db'.log
  PROVE  Core'
<1>1. /\ nextId' = nextId /\ states' = states /\ handler' = handler /\ worker' = worker
      /\ signal' = signal /\ mode' = mode /\ drained' = drained /\ stops' = stops
      /\ now' = now /\ sent' = sent
  BY DEF Others, memory, process
<1>2. TypeOK'
  BY <1>1 DEF Core, TypeOK
<1>3. Grows(db, db', {})
  BY FollowsGrows
<1>4. Onward /\ Remembers /\ Runs /\ Writes /\ Reads
  BY <1>1, StillMoves
<1>5. Fresh' /\ Memory' /\ Progress' /\ Sent' /\ Batched'
  BY <1>1, <1>3, <1>4, FreshKeeps, MemoryKeeps, ProgressKeeps, SentKeeps, BatchedKeeps DEF Core
<1>6. Read'
  BY <1>1, <1>3, <1>4, ReadKeeps DEF Core
<1>7. Drained'
  BY <1>1, <1>3, DrainedKeeps DEF Core
<1>8. StoreInv(db', nextId', now')
  BY <1>1
<1> QED
  BY <1>2, <1>5, <1>6, <1>7, <1>8, CoreKeeps

\* A step of the runner that leaves the journal alone.
LEMMA SameCore ==
  ASSUME Inv, UNCHANGED vars
  PROVE  Core' /\ Clean
<1>1. UNCHANGED Others /\ db' = db
  BY DEF vars, Others, memory, process
<1>2. Follows(db, db) /\ Agreeing(db, db) /\ Lasting(db, db) /\ StoreInv(db, nextId, now)
  BY SameFollow DEF Inv, Core
<1>3. Core'
  BY <1>1, <1>2, Beneath DEF Inv, Core, TypeOK
<1> QED
  BY <1>1, <1>3 DEF Clean

\* A job that is there has a target.
LEMMA JobIs ==
  ASSUME Inv, job # NoJob
  PROVE  /\ job.pc \in Jobs /\ job.target \in Requests /\ job \in [pc : Jobs, target : Requests]
         /\ mode # "down"
<1>1. job \in [pc : Jobs, target : Requests]
  BY DEF Inv, RetentionTypeOK
<1> QED
  BY <1>1 DEF Inv, Targeted

\* The steps of the runner outside of transactions.
LEMMA QuietRetainKeeps ==
  ASSUME Inv, ListOverdue \/ (\E c \in Requests : PassOver(c)) \/ RemoveFiles \/ GiveUp
  PROVE  Inv' /\ Clean
<1>1. UNCHANGED vars
  BY DEF ListOverdue, PassOver, RemoveFiles, GiveUp
<1>2. Core' /\ Clean
  BY <1>1, SameCore
<1>3. mode' = mode /\ db' = db
  BY <1>1 DEF vars, process
<1>4. RetentionTypeOK' /\ Targeted'
  <2>1. CASE ListOverdue
    <3>1. job' = job /\ listed' \subseteq Requests
      BY <2>1 DEF ListOverdue, Batches, Overdue
    <3> QED
      BY <1>2, <1>3, <3>1 DEF Inv, RetentionTypeOK, Core, Targeted, Terminal
  <2>2. CASE \E c \in Requests : PassOver(c)
    <3>1. job' = job /\ listed' \subseteq Requests
      BY <2>2 DEF PassOver, Inv, RetentionTypeOK
    <3> QED
      BY <1>2, <1>3, <3>1 DEF Inv, RetentionTypeOK, Core, Targeted, Terminal
  <2>3. CASE RemoveFiles
    <3>1. job.pc \in {"conversation files", "request files"} /\ listed' = listed
      BY <2>3 DEF RemoveFiles
    <3>2. job \in [pc : Jobs, target : Requests] /\ mode # "down"
      <4>1. NoJob.pc = "none"
        BY DEF NoJob
      <4>2. job # NoJob
        BY <3>1, <4>1
      <4> QED
        BY <4>2, JobIs
    <3>3. job' \in [pc : Jobs, target : Requests] /\ job'.target = job.target
      BY <2>3, <3>1, <3>2 DEF RemoveFiles, Jobs
    <3>4. job'.pc = IF job.pc = "request files" THEN "request rows" ELSE "requests"
      BY <2>3, <3>2 DEF RemoveFiles
    <3>5. Targeted'
      BY <1>3, <3>1, <3>2, <3>3, <3>4 DEF Inv, Targeted, Terminal
    <3> QED
      BY <1>2, <3>1, <3>3, <3>5 DEF Inv, RetentionTypeOK, Core
  <2>4. CASE GiveUp
    <3>1. job' = NoJob /\ listed' = {}
      BY <2>4 DEF GiveUp
    <3> QED
      BY <1>2, <3>1 DEF Inv, RetentionTypeOK, Core, Targeted, NoJob
  <2> QED
    BY <2>1, <2>2, <2>3, <2>4
<1> QED
  BY <1>2, <1>4 DEF Inv

\* A conversation is marked when all of its requests have ended.
LEMMA MarkConversationKeeps ==
  ASSUME Inv, NEW c \in Requests, MarkConversation(c)
  PROVE  Inv' /\ Clean
<1>1. /\ mode = "up" /\ db.conv[c].open /\ Live(db, c) = {} /\ listed' \subseteq listed
      /\ db' = [db EXCEPT !.conv[c].deleting = TRUE]
      /\ job' = [pc |-> "conversation files", target |-> c] /\ UNCHANGED Others
  BY DEF MarkConversation, MayMark
<1>2. Core /\ db \in Database /\ StoreInv(db, nextId, now)
  BY DEF Inv, Core, TypeOK
<1>3. /\ db' \in Database
      /\ db'.row = db.row /\ db'.req = db.req /\ db'.link = db.link /\ db'.affinity = db.affinity
      /\ db'.log = db.log /\ db'.receipts = db.receipts /\ db'.payloads = db.payloads
      /\ \A k \in Requests : db'.conv[k] = IF k = c THEN [db.conv[c] EXCEPT !.deleting = TRUE] ELSE db.conv[k]
  <2> DEFINE v == [db.conv EXCEPT ![c] = [db.conv[c] EXCEPT !.deleting = TRUE]]
  <2>1. v \in [Requests -> Conv]
    BY <1>2 DEF Database, Conv
  <2>2. \A k \in Requests : v[k] = IF k = c THEN [db.conv[c] EXCEPT !.deleting = TRUE] ELSE db.conv[k]
    BY <1>2 DEF Database
  <2>3. db' = [db EXCEPT !.conv = v]
    BY <1>1, <1>2 DEF Database
  <2> HIDE DEF v
  <2> QED
    BY <1>2, <2>1, <2>2, <2>3 DEF Database
<1>4. /\ db'.conv[c].open = db.conv[c].open /\ db'.conv[c].account = db.conv[c].account
      /\ db'.conv[c].count = db.conv[c].count /\ db'.conv[c].deleting = TRUE
  BY <1>2, <1>3, RowTypes DEF Conv
<1>5. \A q \in Members(db, c) : Terminal(db, q)
  BY <1>1 DEF Live
<1>6. db.conv[c] # NoConv
  <2>1. ~NoConv.open
    BY DEF NoConv
  <2> QED
    BY <1>1, <2>1
<1>7. /\ StoreInv(db', nextId, now) /\ Follows(db, db') /\ Agreeing(db, db')
  BY <1>2, <1>3, <1>4, <1>5, <1>6, MarkKeeps
<1>8. Core'
  BY <1>1, <1>2, <1>3, <1>7, Beneath
<1>9. Clean
  BY <1>3 DEF Clean
<1>10. Targeted'
  BY <1>1, <1>4 DEF Targeted, Others, process
<1>11. RetentionTypeOK'
  BY <1>1, <1>8 DEF Inv, RetentionTypeOK, Core, Jobs
<1> QED
  BY <1>8, <1>9, <1>10, <1>11 DEF Inv

\* A request is marked when it has ended.
LEMMA MarkRequestKeeps ==
  ASSUME Inv, NEW r \in Requests, MarkRequest(r)
  PROVE  Inv' /\ Clean
<1>1. /\ mode = "up" /\ Stored(db, r) /\ Terminal(db, r) /\ listed' = listed
      /\ db' = [db EXCEPT !.req[r].deleting = TRUE]
      /\ job' = [pc |-> "request files", target |-> r] /\ UNCHANGED Others
  BY DEF MarkRequest
<1>2. Core /\ db \in Database /\ StoreInv(db, nextId, now)
  BY DEF Inv, Core, TypeOK
<1>3. /\ db' \in Database
      /\ db'.row = db.row /\ db'.conv = db.conv /\ db'.link = db.link /\ db'.affinity = db.affinity
      /\ db'.log = db.log /\ db'.receipts = db.receipts /\ db'.payloads = db.payloads
      /\ \A k \in Requests : db'.req[k] = IF k = r THEN [db.req[r] EXCEPT !.deleting = TRUE] ELSE db.req[k]
  <2> DEFINE v == [db.req EXCEPT ![r] = [db.req[r] EXCEPT !.deleting = TRUE]]
  <2>1. v \in [Requests -> Req]
    BY <1>2 DEF Database, Req
  <2>2. \A k \in Requests : v[k] = IF k = r THEN [db.req[r] EXCEPT !.deleting = TRUE] ELSE db.req[k]
    BY <1>2 DEF Database
  <2>3. db' = [db EXCEPT !.req = v]
    BY <1>1, <1>2 DEF Database
  <2> HIDE DEF v
  <2> QED
    BY <1>2, <2>1, <2>2, <2>3 DEF Database
<1>4. /\ db'.req[r].account = db.req[r].account /\ db'.req[r].status = db.req[r].status
      /\ db'.req[r].terminal = db.req[r].terminal /\ db'.req[r].conflict = db.req[r].conflict
      /\ db'.req[r].deleting = TRUE
  BY <1>2, <1>3, RowTypes DEF Req
<1>5. db.req[r] # NoReq
  BY <1>1 DEF Stored
<1>6. /\ StoreInv(db', nextId, now) /\ Follows(db, db') /\ Agreeing(db, db')
  BY <1>1, <1>2, <1>3, <1>4, <1>5, MarkKeeps
<1>7. Core'
  BY <1>1, <1>2, <1>3, <1>6, Beneath
<1>8. Clean
  BY <1>3 DEF Clean
<1>9. Targeted'
  BY <1>1, <1>4 DEF Targeted, Others, process, Terminal
<1>10. RetentionTypeOK'
  BY <1>1, <1>7 DEF Inv, RetentionTypeOK, Core, Jobs
<1> QED
  BY <1>7, <1>8, <1>9, <1>10 DEF Inv

\* What deleting requests changes, field by field.
LEMMA DropFields ==
  ASSUME NEW d \in Database, NEW S, S \subseteq Requests
  PROVE  /\ Drop(d, S) \in Database
         /\ \A q \in Requests :
              /\ Drop(d, S).row[q] = IF q \in S THEN NoRow ELSE d.row[q]
              /\ Drop(d, S).req[q] = IF q \in S THEN NoReq ELSE d.req[q]
         /\ Drop(d, S).conv = d.conv /\ Drop(d, S).link = d.link /\ Drop(d, S).affinity = d.affinity
         /\ Drop(d, S).log = {m \in d.log : m.req \notin S}
         /\ Drop(d, S).receipts = d.receipts \ Ids({m \in d.log : m.req \in S})
         /\ Drop(d, S).payloads = d.payloads \ Ids({m \in d.log : m.req \in S})
<1> DEFINE rows == [q \in Requests |-> IF q \in S THEN NoRow ELSE d.row[q]]
           reqs == [q \in Requests |-> IF q \in S THEN NoReq ELSE d.req[q]]
           gone == {m \in d.log : m.req \in S}
<1>1. NoRow \in Row /\ NoReq \in Req
  BY DEF NoRow, NoReq, Row, Req, MaybeAccount
<1>2. rows \in [Requests -> Row] /\ reqs \in [Requests -> Req]
  BY <1>1, RowTypes
<1>3. /\ \A q \in Requests : rows[q] = IF q \in S THEN NoRow ELSE d.row[q]
      /\ \A q \in Requests : reqs[q] = IF q \in S THEN NoReq ELSE d.req[q]
  OBVIOUS
<1>4. Drop(d, S) = [d EXCEPT !.row = rows, !.req = reqs, !.log = @ \ gone,
                             !.receipts = @ \ Ids(gone), !.payloads = @ \ Ids(gone)]
  BY DEF Drop, Database
<1>5. d.log \ gone = {m \in d.log : m.req \notin S}
  OBVIOUS
<1> HIDE DEF rows, reqs, gone
<1>6. /\ Drop(d, S) \in Database
      /\ Drop(d, S).row = rows /\ Drop(d, S).req = reqs
      /\ Drop(d, S).conv = d.conv /\ Drop(d, S).link = d.link /\ Drop(d, S).affinity = d.affinity
      /\ Drop(d, S).log = d.log \ gone
      /\ Drop(d, S).receipts = d.receipts \ Ids(gone)
      /\ Drop(d, S).payloads = d.payloads \ Ids(gone)
  BY <1>2, <1>4 DEF Database
<1> QED
  BY <1>3, <1>5, <1>6 DEF gone

\* What deleting links changes, field by field.
LEMMA UnlinkFields ==
  ASSUME NEW d \in Database, NEW S, S \subseteq Requests
  PROVE  /\ Unlink(d, S) \in Database
         /\ \A q \in Requests : Unlink(d, S).link[q] = IF q \in S THEN NoLink ELSE d.link[q]
         /\ Unlink(d, S).row = d.row /\ Unlink(d, S).req = d.req /\ Unlink(d, S).conv = d.conv
         /\ Unlink(d, S).affinity = d.affinity /\ Unlink(d, S).log = d.log
         /\ Unlink(d, S).receipts = d.receipts /\ Unlink(d, S).payloads = d.payloads
<1> DEFINE links == [q \in Requests |-> IF q \in S THEN NoLink ELSE d.link[q]]
<1>1. NoLink \in Link
  BY DEF NoLink, Link, MaybeAccount
<1>2. links \in [Requests -> Link]
  BY <1>1, RowTypes
<1>3. \A q \in Requests : links[q] = IF q \in S THEN NoLink ELSE d.link[q]
  OBVIOUS
<1>4. Unlink(d, S) = [d EXCEPT !.link = links]
  BY DEF Unlink, Database
<1> HIDE DEF links
<1> QED
  BY <1>2, <1>3, <1>4 DEF Database

\* Requests that have ended go, with or without their links.
LEMMA StoredLeft ==
  ASSUME NEW d, NEW e, NEW S, S \subseteq Requests,
         \A q \in S : e.req[q] = NoReq,
         \A q \in S : e.row[q] = NoRow,
         \A q \in Requests \ S : e.row[q] = d.row[q] /\ e.req[q] = d.req[q], NEW c \in Requests
  PROVE  StoredIn(e, c) = StoredIn(d, c) \ S
<1>1. \A q \in S : ~Stored(e, q)
  BY DEF Stored
<1>2. \A q \in Requests \ S : ConvOf(e, q) = ConvOf(d, q) /\ (Stored(e, q) <=> Stored(d, q))
  BY DEF Stored, ConvOf
<1> QED
  BY <1>1, <1>2 DEF StoredIn, Members

\* A batch of a marked conversation is deleted.
LEMMA FinalizeRequestsKeeps ==
  ASSUME Inv, FinalizeRequests
  PROVE  Inv' /\ Clean
<1> DEFINE c == job.target
           stored == StoredIn(db, c)
<1>1. /\ job.pc = "requests" /\ UNCHANGED Others /\ listed' = listed
  BY DEF FinalizeRequests
<1>2. job \in [pc : Jobs, target : Requests] /\ c \in Requests /\ mode # "down"
  <2>1. NoJob.pc = "none"
    BY DEF NoJob
  <2>2. job # NoJob
    BY <1>1, <2>1
  <2> QED
    BY <2>2, JobIs
<1>3. db.conv[c].deleting
  BY <1>1 DEF Inv, Targeted
<1>4. CASE job' = [job EXCEPT !.pc = "conversation"] /\ db' = db
  <2>1. UNCHANGED vars
    BY <1>1, <1>4 DEF vars, Others, memory, process
  <2>2. Core' /\ Clean
    BY <2>1, SameCore
  <2>3. job' \in [pc : Jobs, target : Requests] /\ job'.target = job.target /\ job'.pc = "conversation"
    BY <1>2, <1>4 DEF Jobs
  <2>4. Targeted'
    BY <1>2, <1>3, <1>4, <2>1, <2>3 DEF Targeted, vars, process
  <2> QED
    BY <1>1, <2>2, <2>3, <2>4 DEF Inv, RetentionTypeOK, Core
<1>5. ASSUME NEW S \in Batches(stored), db' = Unlink(Drop(db, S), S), job' = job
      PROVE  Inv' /\ Clean
  <2> DEFINE f == Drop(db, S)
             e == Unlink(f, S)
  <2>1. S \subseteq stored /\ S \subseteq Requests
    BY <1>5 DEF Batches, StoredIn, Members
  <2>2. Core /\ db \in Database /\ StoreInv(db, nextId, now)
    BY DEF Inv, Core, TypeOK
  <2>3. /\ f \in Database
        /\ \A q \in Requests :
             /\ f.row[q] = IF q \in S THEN NoRow ELSE db.row[q]
             /\ f.req[q] = IF q \in S THEN NoReq ELSE db.req[q]
        /\ f.conv = db.conv /\ f.link = db.link /\ f.affinity = db.affinity
        /\ f.log = {m \in db.log : m.req \notin S}
        /\ f.receipts = db.receipts \ Ids({m \in db.log : m.req \in S})
        /\ f.payloads = db.payloads \ Ids({m \in db.log : m.req \in S})
    BY <2>1, <2>2, DropFields
  <2> HIDE DEF f
  <2>4. /\ e \in Database
        /\ \A q \in Requests : e.link[q] = IF q \in S THEN NoLink ELSE f.link[q]
        /\ e.row = f.row /\ e.req = f.req /\ e.conv = f.conv
        /\ e.affinity = f.affinity /\ e.log = f.log
        /\ e.receipts = f.receipts /\ e.payloads = f.payloads
    BY <2>1, <2>3, UnlinkFields
  <2> HIDE DEF e
  <2>5. db' = e
    BY <1>5 DEF e, f
  <2>6. \A q \in S : Terminal(db, q)
    <3>1. \A q \in S : Stored(db, q) /\ ConvOf(db, q) = c
      BY <2>1 DEF StoredIn, Members
    <3> QED
      BY <1>3, <2>1, <2>2, <3>1 DEF StoreInv, Materialized, Deleting
  <2>7. Counted(e)
    <3>1. ASSUME NEW k \in Requests, e.conv[k].open, ~e.conv[k].deleting
          PROVE  e.conv[k].count = Cardinality(StoredIn(e, k))
      <4>1. k # c
        BY <1>3, <2>3, <2>4, <3>1
      <4>2. StoredIn(e, k) = StoredIn(db, k) \ S
        BY <2>1, <2>3, <2>4, StoredLeft
      <4>3. StoredIn(db, k) \ S = StoredIn(db, k)
        BY <2>1, <4>1 DEF StoredIn, Members
      <4>4. db.conv[k].count = Cardinality(StoredIn(db, k))
        BY <2>2, <2>3, <2>4, <3>1 DEF StoreInv, Counted
      <4> QED
        BY <2>3, <2>4, <4>2, <4>3, <4>4
    <3> QED
      BY <3>1 DEF Counted
  <2>8. StoreInv(e, nextId, now) /\ Follows(db, e) /\ Agreeing(db, e)
    <3>1. /\ \A q \in S : e.row[q] = NoRow /\ e.req[q] = NoReq
          /\ \A q \in S : e.link[q] \in {db.link[q], NoLink}
          /\ \A q \in Requests \ S : e.row[q] = db.row[q] /\ e.req[q] = db.req[q] /\ e.link[q] = db.link[q]
      BY <2>1, <2>3, <2>4
    <3>2. \A k \in Requests :
            \/ /\ e.conv[k].open = db.conv[k].open /\ e.conv[k].account = db.conv[k].account
               /\ e.conv[k].deleting = db.conv[k].deleting
               /\ db.conv[k] = NoConv => e.conv[k] = NoConv
            \/ e.conv[k] = NoConv /\ Members(db, k) \subseteq S
      BY <2>3, <2>4
    <3>3. /\ e.log = {m \in db.log : m.req \notin S}
          /\ e.receipts = db.receipts \ Ids({m \in db.log : m.req \in S})
          /\ e.payloads = db.payloads \ Ids({m \in db.log : m.req \in S})
          /\ \A s \in Sessions : e.affinity[s] \in {db.affinity[s], NoAffinity}
      BY <2>3, <2>4
    <3> QED
      BY <2>1, <2>2, <2>4, <2>6, <2>7, <3>1, <3>2, <3>3, DropKeeps
  <2>9. \A m \in db.log : Known(e, m.req) => m \in e.log
    BY <2>1, <2>3, <2>4 DEF Known
  <2>10. Core'
    BY <1>1, <2>2, <2>4, <2>5, <2>8, <2>9, Beneath
  <2>11. Clean
    BY <2>3, <2>4, <2>5, <2>8 DEF Clean, Follows
  <2>12. Targeted'
    BY <1>1, <1>2, <1>3, <1>5, <2>3, <2>4, <2>5 DEF Targeted, Others, process
  <2> QED
    BY <1>1, <1>5, <2>10, <2>11, <2>12 DEF Inv, RetentionTypeOK, Core
<1> QED
  BY <1>4, <1>5 DEF FinalizeRequests

\* The conversation itself is deleted, with what is left of it and the sessions of its account.
LEMMA FinalizeConversationKeeps ==
  ASSUME Inv, FinalizeConversation
  PROVE  Inv' /\ Clean
<1> DEFINE c == job.target
           S == Members(db, c)
           f == Drop(db, S)
           g == Unlink(f, S)
           conv == [g.conv EXCEPT ![c] = NoConv]
           affinity == [s \in Sessions |-> IF s \in Forsaken(c) THEN NoAffinity ELSE g.affinity[s]]
           e == [g EXCEPT !.conv = conv, !.affinity = affinity]
<1>1. /\ job.pc = "conversation" /\ UNCHANGED Others /\ listed' = listed /\ job' = NoJob
      /\ db' = [g EXCEPT !.conv[c] = NoConv,
                         !.affinity = [s \in Sessions |-> IF s \in Forsaken(c) THEN NoAffinity ELSE @[s]]]
  BY DEF FinalizeConversation
<1>2. job \in [pc : Jobs, target : Requests] /\ c \in Requests /\ mode # "down"
  <2>1. NoJob.pc = "none"
    BY DEF NoJob
  <2>2. job # NoJob
    BY <1>1, <2>1
  <2> QED
    BY <2>2, JobIs
<1>3. db.conv[c].deleting
  BY <1>1 DEF Inv, Targeted
<1>4. Core /\ db \in Database /\ StoreInv(db, nextId, now) /\ S \subseteq Requests
  BY DEF Inv, Core, TypeOK, Members
<1> HIDE DEF c, S
<1>5. /\ f \in Database
      /\ \A q \in Requests :
           /\ f.row[q] = IF q \in S THEN NoRow ELSE db.row[q]
           /\ f.req[q] = IF q \in S THEN NoReq ELSE db.req[q]
      /\ f.conv = db.conv /\ f.link = db.link /\ f.affinity = db.affinity
      /\ f.log = {m \in db.log : m.req \notin S}
      /\ f.receipts = db.receipts \ Ids({m \in db.log : m.req \in S})
      /\ f.payloads = db.payloads \ Ids({m \in db.log : m.req \in S})
  BY <1>4, DropFields
<1> HIDE DEF f
<1>6. /\ g \in Database
      /\ \A q \in Requests : g.link[q] = IF q \in S THEN NoLink ELSE f.link[q]
      /\ g.row = f.row /\ g.req = f.req /\ g.conv = f.conv
      /\ g.affinity = f.affinity /\ g.log = f.log
      /\ g.receipts = f.receipts /\ g.payloads = f.payloads
  BY <1>4, <1>5, UnlinkFields
<1> HIDE DEF g
<1>7. /\ conv \in [Requests -> Conv] /\ affinity \in [Sessions -> Affinity]
      /\ \A k \in Requests : conv[k] = IF k = c THEN NoConv ELSE db.conv[k]
      /\ \A s \in Sessions : affinity[s] = IF s \in Forsaken(c) THEN NoAffinity ELSE db.affinity[s]
  <2>1. NoConv \in Conv /\ NoAffinity \in Affinity
    BY DEF NoConv, NoAffinity, Conv, Affinity, MaybeAccount
  <2>2. g.conv \in [Requests -> Conv] /\ g.affinity \in [Sessions -> Affinity]
    BY <1>6 DEF Database
  <2>3. conv \in [Requests -> Conv] /\ affinity \in [Sessions -> Affinity]
    BY <2>1, <2>2
  <2>4. \A k \in Requests : conv[k] = IF k = c THEN NoConv ELSE db.conv[k]
    BY <1>5, <1>6, <2>2
  <2>5. \A s \in Sessions : affinity[s] = IF s \in Forsaken(c) THEN NoAffinity ELSE db.affinity[s]
    BY <1>5, <1>6
  <2> QED
    BY <2>3, <2>4, <2>5
<1>8. db' = e
  BY <1>1, <1>6 DEF Database
<1> HIDE DEF conv, affinity
<1>9. /\ e \in Database /\ e.conv = conv /\ e.affinity = affinity
      /\ e.row = g.row /\ e.req = g.req /\ e.link = g.link /\ e.log = g.log
      /\ e.receipts = g.receipts /\ e.payloads = g.payloads
  BY <1>6, <1>7 DEF Database
<1> HIDE DEF e
<1>10. \A q \in S : Terminal(db, q)
  <2>1. \A q \in S : ConvOf(db, q) = c /\ Known(db, q)
    <3>1. \A q \in S : ConvOf(db, q) = c
      BY DEF S, Members
    <3>2. NoRow.conv = None /\ c # None
      BY <1>2, Kind DEF NoRow
    <3> QED
      BY <3>1, <3>2 DEF Known, ConvOf
  <2> QED
    BY <1>3, <1>4, <2>1 DEF StoreInv, Deleting
<1>11. Counted(e)
  <2>1. ASSUME NEW k \in Requests, e.conv[k].open, ~e.conv[k].deleting
        PROVE  e.conv[k].count = Cardinality(StoredIn(e, k))
    <3>1. k # c /\ e.conv[k] = db.conv[k]
      <4>1. ~NoConv.open
        BY DEF NoConv
      <4> QED
        BY <1>7, <1>9, <2>1, <4>1
    <3>2. StoredIn(e, k) = StoredIn(db, k) \ S
      BY <1>4, <1>5, <1>6, <1>9, StoredLeft
    <3>3. StoredIn(db, k) \ S = StoredIn(db, k)
      BY <3>1 DEF StoredIn, Members, S
    <3>4. db.conv[k].count = Cardinality(StoredIn(db, k))
      BY <1>4, <2>1, <3>1 DEF StoreInv, Counted
    <3> QED
      BY <3>1, <3>2, <3>3, <3>4
  <2> QED
    BY <2>1 DEF Counted
<1>12. StoreInv(e, nextId, now) /\ Follows(db, e) /\ Agreeing(db, e)
  <2>1. /\ \A q \in S : e.row[q] = NoRow /\ e.req[q] = NoReq
        /\ \A q \in S : e.link[q] \in {db.link[q], NoLink}
        /\ \A q \in Requests \ S : e.row[q] = db.row[q] /\ e.req[q] = db.req[q] /\ e.link[q] = db.link[q]
    BY <1>4, <1>5, <1>6, <1>9
  <2>2. \A k \in Requests :
          \/ /\ e.conv[k].open = db.conv[k].open /\ e.conv[k].account = db.conv[k].account
             /\ e.conv[k].deleting = db.conv[k].deleting
             /\ db.conv[k] = NoConv => e.conv[k] = NoConv
          \/ e.conv[k] = NoConv /\ Members(db, k) \subseteq S
    BY <1>7, <1>9 DEF S
  <2>3. /\ e.log = {m \in db.log : m.req \notin S}
        /\ e.receipts = db.receipts \ Ids({m \in db.log : m.req \in S})
        /\ e.payloads = db.payloads \ Ids({m \in db.log : m.req \in S})
        /\ \A s \in Sessions : e.affinity[s] \in {db.affinity[s], NoAffinity}
    BY <1>5, <1>6, <1>7, <1>9
  <2> QED
    BY <1>4, <1>9, <1>10, <1>11, <2>1, <2>2, <2>3, DropKeeps
<1>13. Core'
  <2>1. \A m \in db.log : m.req \in Requests
    BY <1>4, RecordFacts
  <2>2. \A m \in db.log : Known(e, m.req) => m \in e.log
    BY <1>5, <1>6, <1>9, <2>1 DEF Known
  <2> QED
    BY <1>1, <1>4, <1>8, <1>9, <1>12, <2>2, Beneath
<1>14. Clean
  <2>1. ASSUME NEW s \in Sessions, s \in Forsaken(c)
        PROVE  \A k \in Requests : e.conv[k].account # db.affinity[s].account
    <3>1. /\ db.conv[c].account # None /\ db.affinity[s].account = db.conv[c].account
          /\ \A k \in Requests \ {c} : db.conv[k].account # db.conv[c].account
      BY <2>1 DEF Forsaken
    <3>2. NoConv.account = None
      BY DEF NoConv
    <3> QED
      BY <1>7, <1>9, <3>1, <3>2
  <2> QED
    BY <1>7, <1>8, <1>9, <1>12, <2>1 DEF Clean, Follows
<1>15. Targeted'
  BY <1>1 DEF Targeted, NoJob
<1> QED
  BY <1>1, <1>13, <1>14, <1>15 DEF Inv, RetentionTypeOK, Core

\* A marked request is deleted, and its conversation counts one less.
LEMMA FinalizeRequestKeeps ==
  ASSUME Inv, FinalizeRequest
  PROVE  Inv' /\ Clean
<1> DEFINE r == job.target
           c == ConvOf(db, r)
           S == {r}
           f == Drop(db, S)
           one == [f.conv[c] EXCEPT !.count = IF @ > 0 THEN @ - 1 ELSE 0]
           conv == [f.conv EXCEPT ![c] = one]
           e == [f EXCEPT !.conv = conv]
<1>1. /\ job.pc = "request rows" /\ UNCHANGED Others /\ listed' = listed /\ job' = NoJob
      /\ db' = [f EXCEPT !.conv[c].count = IF @ > 0 THEN @ - 1 ELSE 0]
  BY DEF FinalizeRequest
<1>2. job \in [pc : Jobs, target : Requests] /\ r \in Requests /\ mode # "down"
  <2>1. NoJob.pc = "none"
    BY DEF NoJob
  <2>2. job # NoJob
    BY <1>1, <2>1
  <2> QED
    BY <2>2, JobIs
<1>3. Terminal(db, r)
  BY <1>1 DEF Inv, Targeted
<1> HIDE DEF r
<1>4. Core /\ db \in Database /\ StoreInv(db, nextId, now) /\ S \subseteq Requests
  BY <1>2 DEF Inv, Core, TypeOK
<1>5. Stored(db, r) /\ Known(db, r) /\ c \in Requests /\ db.conv[c].open
  <2>1. Stored(db, r)
    BY <1>3, Kind DEF Terminal, Stored, NoReq
  <2> QED
    BY <1>2, <1>4, <2>1 DEF StoreInv, Materialized, Opened
<1>6. /\ f \in Database
      /\ \A q \in Requests :
           /\ f.row[q] = IF q \in S THEN NoRow ELSE db.row[q]
           /\ f.req[q] = IF q \in S THEN NoReq ELSE db.req[q]
      /\ f.conv = db.conv /\ f.link = db.link /\ f.affinity = db.affinity
      /\ f.log = {m \in db.log : m.req \notin S}
      /\ f.receipts = db.receipts \ Ids({m \in db.log : m.req \in S})
      /\ f.payloads = db.payloads \ Ids({m \in db.log : m.req \in S})
  BY <1>4, DropFields
<1> HIDE DEF f, c
<1>7. f.conv[c] = db.conv[c] /\ db.conv[c] \in Conv
  BY <1>4, <1>5, <1>6, RowTypes
<1>8. /\ one \in Conv /\ one.open = db.conv[c].open /\ one.account = db.conv[c].account
      /\ one.deleting = db.conv[c].deleting
      /\ one.count = IF db.conv[c].count > 0 THEN db.conv[c].count - 1 ELSE 0
  BY <1>7 DEF Conv
<1>9. db' = e
  BY <1>1, <1>6 DEF Database
<1> HIDE DEF one
<1>10. /\ conv \in [Requests -> Conv]
       /\ \A k \in Requests : conv[k] = IF k = c THEN one ELSE db.conv[k]
  BY <1>4, <1>5, <1>6, <1>8 DEF Database
<1> HIDE DEF conv
<1>11. /\ e \in Database /\ e.conv = conv
       /\ e.row = f.row /\ e.req = f.req /\ e.link = f.link /\ e.log = f.log
       /\ e.receipts = f.receipts /\ e.payloads = f.payloads /\ e.affinity = f.affinity
  BY <1>6, <1>10 DEF Database
<1> HIDE DEF e
<1>12. Counted(e)
  <2>1. ASSUME NEW k \in Requests, e.conv[k].open, ~e.conv[k].deleting
        PROVE  e.conv[k].count = Cardinality(StoredIn(e, k))
    <3>1. StoredIn(e, k) = StoredIn(db, k) \ S
      <4>1. /\ \A q \in S : e.req[q] = NoReq
            /\ \A q \in S : e.row[q] = NoRow
            /\ \A q \in Requests \ S : e.row[q] = db.row[q] /\ e.req[q] = db.req[q]
        BY <1>4, <1>6, <1>11
      <4> HIDE DEF S
      <4> QED
        BY <1>4, <4>1, StoredLeft
    <3>2. CASE k = c
      <4>1. db.conv[c].count = Cardinality(StoredIn(db, c))
        BY <1>4, <1>5, <1>8, <1>10, <1>11, <2>1, <3>2 DEF StoreInv, Counted
      <4>2. r \in StoredIn(db, c)
        BY <1>2, <1>5 DEF StoredIn, Members, c
      <4>3. IsFiniteSet(StoredIn(db, c))
        BY StoredFinite
      <4>4. Cardinality(StoredIn(db, c) \ {r}) = Cardinality(StoredIn(db, c)) - 1
        BY <4>2, <4>3, FS_RemoveElement
      <4>5. Cardinality(StoredIn(db, c)) \in Nat /\ Cardinality(StoredIn(db, c) \ {r}) \in Nat
        BY <4>3, FS_CardinalityType, FS_Subset
      <4>6. one.count = Cardinality(StoredIn(db, c) \ {r})
        BY <1>8, <4>1, <4>4, <4>5
      <4> QED
        BY <1>5, <1>10, <1>11, <3>1, <3>2, <4>6
    <3>3. CASE k # c
      <4>1. StoredIn(db, k) \ S = StoredIn(db, k)
        BY <3>3 DEF StoredIn, Members, c
      <4>2. e.conv[k] = db.conv[k]
        BY <1>10, <1>11, <3>3
      <4>3. db.conv[k].count = Cardinality(StoredIn(db, k))
        BY <1>4, <2>1, <4>2 DEF StoreInv, Counted
      <4> QED
        BY <3>1, <4>1, <4>2, <4>3
    <3> QED
      BY <3>2, <3>3
  <2> QED
    BY <2>1 DEF Counted
<1>13. StoreInv(e, nextId, now) /\ Follows(db, e) /\ Agreeing(db, e)
  <2>1. /\ \A q \in S : e.row[q] = NoRow /\ e.req[q] = NoReq
        /\ \A q \in S : e.link[q] \in {db.link[q], NoLink}
        /\ \A q \in Requests \ S : e.row[q] = db.row[q] /\ e.req[q] = db.req[q] /\ e.link[q] = db.link[q]
    BY <1>4, <1>6, <1>11
  <2>2. \A k \in Requests :
          \/ /\ e.conv[k].open = db.conv[k].open /\ e.conv[k].account = db.conv[k].account
             /\ e.conv[k].deleting = db.conv[k].deleting
             /\ db.conv[k] = NoConv => e.conv[k] = NoConv
          \/ e.conv[k] = NoConv /\ Members(db, k) \subseteq S
    <3>1. db.conv[c] # NoConv
      <4>1. ~NoConv.open
        BY DEF NoConv
      <4> QED
        BY <1>5, <4>1
    <3> QED
      BY <1>8, <1>10, <1>11, <3>1
  <2>3. /\ e.log = {m \in db.log : m.req \notin S}
        /\ e.receipts = db.receipts \ Ids({m \in db.log : m.req \in S})
        /\ e.payloads = db.payloads \ Ids({m \in db.log : m.req \in S})
        /\ \A s \in Sessions : e.affinity[s] \in {db.affinity[s], NoAffinity}
    BY <1>6, <1>11
  <2>4. \A q \in S : Terminal(db, q)
    BY <1>3
  <2> HIDE DEF S
  <2> QED
    BY <1>4, <1>11, <1>12, <2>1, <2>2, <2>3, <2>4, DropKeeps
<1>14. Core'
  <2>1. \A m \in db.log : m.req \in Requests
    BY <1>4, RecordFacts
  <2>2. \A m \in db.log : Known(e, m.req) => m \in e.log
    BY <1>6, <1>11, <2>1 DEF Known
  <2> QED
    BY <1>1, <1>4, <1>9, <1>11, <1>13, <2>2, Beneath
<1>15. Clean
  BY <1>6, <1>9, <1>11, <1>13 DEF Clean, Follows
<1>16. Targeted'
  BY <1>1 DEF Targeted, NoJob
<1> QED
  BY <1>1, <1>14, <1>15, <1>16 DEF Inv, RetentionTypeOK, Core

\* The payload of a request that has ended expires, with its record.
LEMMA ExpirePayloadKeeps ==
  ASSUME Inv, NEW m \in db.log, ExpirePayload(m)
  PROVE  Inv' /\ Clean
<1>1. /\ m.id \in db.payloads /\ m.at + PayloadTTL <= now /\ Terminal(db, m.req)
      /\ db' = [db EXCEPT !.log = @ \ {m}, !.receipts = @ \ {m.id}, !.payloads = @ \ {m.id}]
      /\ UNCHANGED Others /\ job' = job /\ listed' = listed
  BY DEF ExpirePayload, retained
<1>2. Core /\ db \in Database /\ StoreInv(db, nextId, now) /\ now \in Nat
  BY DEF Inv, Core, TypeOK
<1>3. m.at \in Nat /\ PayloadTTL \in Nat \ {0}
  BY <1>2, RecordFacts, StoreAssumption
<1>4. /\ db' \in Database
      /\ db'.row = db.row /\ db'.req = db.req /\ db'.conv = db.conv /\ db'.link = db.link
      /\ db'.affinity = db.affinity /\ db'.log = db.log \ {m}
      /\ db'.receipts = db.receipts \ {m.id} /\ db'.payloads = db.payloads \ {m.id}
  BY <1>1, <1>2 DEF Database
<1>5. StoreInv(db', nextId, now)
  BY <1>1, <1>2, <1>4, ExpireKeeps
<1>6. Pending(db') \subseteq Pending(db)
  BY <1>2, <1>4 DEF Pending, StoreInv, Numbered
<1>7. Follows(db, db') /\ Agreeing(db, db') /\ Lasting(db, db')
  BY <1>1, <1>2, <1>4, <1>6, SameFollow
<1>8. ~(now < PayloadTTL)
  BY <1>1, <1>2, <1>3
<1>9. Core'
  BY <1>1, <1>2, <1>4, <1>5, <1>7, <1>8, Beneath
<1>10. Clean
  BY <1>1, <1>4 DEF Clean
<1>11. Targeted'
  BY <1>1, <1>4 DEF Inv, Targeted, Terminal, Others, process
<1> QED
  BY <1>1, <1>9, <1>10, <1>11 DEF Inv, RetentionTypeOK, Core

\* An affinity expires.
LEMMA ExpireAffinityKeeps ==
  ASSUME Inv, NEW s \in Sessions, ExpireAffinity(s)
  PROVE  Inv' /\ Clean
<1>1. /\ db.affinity[s].expires <= now /\ db' = [db EXCEPT !.affinity[s] = NoAffinity]
      /\ UNCHANGED Others /\ job' = job /\ listed' = listed
  BY DEF ExpireAffinity, retained
<1>2. Core /\ db \in Database /\ StoreInv(db, nextId, now) /\ now \in Nat
  BY DEF Inv, Core, TypeOK
<1>3. NoAffinity \in Affinity
  BY DEF NoAffinity, Affinity, MaybeAccount
<1>4. /\ db' \in Database
      /\ db'.row = db.row /\ db'.req = db.req /\ db'.conv = db.conv /\ db'.link = db.link
      /\ db'.log = db.log /\ db'.receipts = db.receipts /\ db'.payloads = db.payloads
      /\ \A v \in Sessions : db'.affinity[v] = IF v = s THEN NoAffinity ELSE db.affinity[v]
  BY <1>1, <1>2, <1>3 DEF Database
<1>5. StoreInv(db', nextId, now)
  BY <1>2, <1>4, AttachKeeps
<1>6. Pending(db') \subseteq Pending(db)
  BY <1>4 DEF Pending
<1>7. Follows(db, db') /\ Agreeing(db, db') /\ Lasting(db, db')
  BY <1>2, <1>4, <1>6, SameFollow
<1>8. Core'
  BY <1>1, <1>2, <1>4, <1>5, <1>7, Beneath
<1>9. Clean
  <2>1. db.affinity[s].expires \in Nat
    BY <1>2 DEF Database, Affinity
  <2>2. ~(db.affinity[s].expires > now)
    BY <1>1, <1>2, <2>1
  <2> QED
    BY <1>4, <2>2 DEF Clean
<1>10. Targeted'
  BY <1>1, <1>4 DEF Inv, Targeted, Terminal, Others, process
<1> QED
  BY <1>1, <1>8, <1>9, <1>10 DEF Inv, RetentionTypeOK, Core

\* Every step of the runner keeps the invariant.
LEMMA RetainKeeps ==
  ASSUME Inv, Retain
  PROVE  Inv' /\ Clean
<1>1. CASE ListOverdue \/ (\E c \in Requests : PassOver(c)) \/ RemoveFiles \/ GiveUp
  BY <1>1, QuietRetainKeeps
<1>2. CASE \E c \in Requests : MarkConversation(c)
  BY <1>2, MarkConversationKeeps
<1>3. CASE \E r \in Requests : MarkRequest(r)
  BY <1>3, MarkRequestKeeps
<1>4. CASE FinalizeRequests \/ FinalizeConversation \/ FinalizeRequest
  BY <1>4, FinalizeRequestsKeeps, FinalizeConversationKeeps, FinalizeRequestKeeps
<1>5. CASE \E m \in db.log : ExpirePayload(m)
  BY <1>5, ExpirePayloadKeeps
<1>6. CASE \E s \in Sessions : ExpireAffinity(s)
  BY <1>6, ExpireAffinityKeeps
<1> QED
  BY <1>1, <1>2, <1>3, <1>4, <1>5, <1>6 DEF Retain

\* The invariant holds at first.
LEMMA InitHolds ==
  ASSUME RetentionInit
  PROVE  Inv
<1>1. /\ db = EmptyDatabase /\ nextId = 1
      /\ states = [r \in Requests |-> NoState] /\ handler = [r \in Requests |-> Idle]
      /\ worker = Resting /\ signal = FALSE
      /\ mode = "up" /\ drained = FALSE /\ now = 0 /\ stops = 0
      /\ sent = {} /\ job = NoJob /\ listed = {}
  BY DEF RetentionInit, Init
<1>2. StoreInv(db, nextId, now)
  BY <1>1, EmptyStore
<1>3. db \in Database
  BY <1>2 DEF StoreInv, TypesOK
<1>4. \A r \in Requests : states[r] = NoState /\ handler[r] = Idle
  BY <1>1
<1>5. TypeOK
  <2>1. NoState \in States /\ Idle \in Handlers
    BY DEF NoState, States, Idle, Handlers, MaybeAccount, MaybeSession
  <2>2. worker \in [pc : {"idle", "replaying", "draining", "booting"},
                    batch : SUBSET Entry, failed : BOOLEAN]
    BY <1>1 DEF Resting
  <2>3. states \in [Requests -> States] /\ handler \in [Requests -> Handlers]
    BY <1>1, <2>1
  <2>4. signal \in BOOLEAN /\ drained \in BOOLEAN /\ sent \subseteq [id : Nat, req : Requests]
    BY <1>1, Zenon
  <2>5. nextId \in Nat \ {0} /\ now \in Nat /\ stops \in Nat
        /\ mode \in {"up", "closing", "down", "booting"}
    BY <1>1
  <2> QED
    BY <1>3, <2>2, <2>3, <2>4, <2>5 DEF TypeOK
<1>6. /\ \A r \in Requests : /\ db.row[r] = NoRow /\ db.req[r] = NoReq /\ db.link[r] = NoLink
                             /\ db.conv[r] = NoConv
      /\ db.log = {}
  BY <1>1 DEF EmptyDatabase
<1>7. Fresh
  <2>1. /\ None \notin Requests /\ NoRow.conv = None /\ NoLink.conv = None /\ NoState.conv = None
        /\ Idle.binds = 0 /\ ~Idle.marked
    BY StoreAssumption DEF NoRow, NoLink, NoState, Idle
  <2>2. \A r \in Requests : Untouched(db, r)
    BY <1>6, <2>1 DEF Untouched
  <2> QED
    BY <1>4, <2>1, <2>2 DEF Fresh
<1>8. Memory /\ Progress
  BY <1>1, <1>4 DEF Memory, Progress, NoState, Idle
<1>9. Sent /\ Batched
  BY <1>1, <1>4 DEF Sent, Batched, Resting, Idle
<1>10. Read
  BY <1>4, <1>6 DEF Read, Known, Idle
<1>11. Drained
  BY <1>1 DEF Drained, Resting
<1>12. Targeted
  BY <1>1 DEF Targeted, NoJob
<1>13. RetentionTypeOK
  BY <1>1, <1>5 DEF RetentionTypeOK
<1> QED
  BY <1>2, <1>5, <1>7, <1>8, <1>9, <1>10, <1>11, <1>12, <1>13 DEF Inv, Core

\* Every step keeps the invariant.
LEMMA StepKeeps ==
  ASSUME Inv, [RetentionNext]_retentionVars
  PROVE  Inv'
<1>1. CASE JournalStep
  BY <1>1, JournalStepKeeps
<1>2. CASE Retain
  BY <1>2, RetainKeeps
<1>3. CASE UNCHANGED retentionVars
  <2>1. UNCHANGED vars /\ job' = job /\ listed' = listed
    BY <1>3 DEF retentionVars, retained
  <2>2. Core'
    BY <2>1, SameCore
  <2>3. db' = db /\ mode' = mode
    BY <2>1 DEF vars, process
  <2> QED
    BY <2>1, <2>2, <2>3 DEF Inv, RetentionTypeOK, Core, Targeted, Terminal
<1> QED
  BY <1>1, <1>2, <1>3 DEF RetentionNext

-----------------------------------------------------------------------------
(* The properties *)

\* A set whose members are all the same has at most one.
LEMMA AtMostOne ==
  ASSUME NEW S, \A x, y \in S : x = y
  PROVE  Cardinality(S) <= 1
<1>1. CASE S = {}
  BY <1>1, FS_EmptySet
<1>2. CASE S # {}
  <2>1. PICK x \in S : S = {x}
    BY <1>2
  <2> QED
    BY <2>1, FS_Singleton
<1> QED
  BY <1>1, <1>2

\* What the database says of a request it knows, of its conversation and its links.
LEMMA OneName ==
  ASSUME NEW d, NEW n, NEW t, StoreInv(d, n, t), NEW r \in Requests, Known(d, r)
  PROVE  /\ ConvOf(d, r) \in Requests
         /\ Stored(d, r) => /\ d.req[r].account = d.row[r].account
                            /\ d.conv[ConvOf(d, r)].open
                            /\ d.conv[ConvOf(d, r)].account = d.row[r].account
         /\ d.conv[ConvOf(d, r)].open => d.conv[ConvOf(d, r)].account = d.row[r].account
         /\ Linked(d, r) => /\ d.link[r].conv = ConvOf(d, r)
                            /\ d.link[r].account = d.row[r].account
<1>1. /\ ConvOf(d, r) \in Requests
      /\ Stored(d, r) => /\ d.req[r].account = d.row[r].account
                         /\ d.conv[ConvOf(d, r)].open
      /\ d.conv[ConvOf(d, r)].open => d.conv[ConvOf(d, r)].account = d.row[r].account
  BY DEF StoreInv, Opened, Named
<1>2. ASSUME Linked(d, r)
      PROVE  d.link[r].conv = ConvOf(d, r) /\ d.link[r].account = d.row[r].account
  <2>1. d.link[r].conv = ConvOf(d, r) /\ d.link[r].account \in Accounts
    BY <1>2 DEF StoreInv, Opened
  <2>2. Says(d, ConvOf(d, r), d.link[r].account)
    BY <2>1, Kind DEF Says
  <2> QED
    BY <2>1, <2>2 DEF StoreInv, Named
<1> QED
  BY <1>1, <1>2

\* The requests of a conversation are known.
LEMMA MembersKnown ==
  ASSUME NEW d, NEW c \in Requests, NEW r \in Members(d, c)
  PROVE  r \in Requests /\ Known(d, r) /\ ConvOf(d, r) = c
  BY StoreAssumption DEF Members, Known, ConvOf, NoRow

\* The binding of a request that is materialized fits what the rows say.
LEMMA BindingFits ==
  ASSUME NEW d, NEW n, NEW t, StoreInv(d, n, t), NEW m \in d.log, m.kind = "bound"
  PROVE  /\ Stored(d, m.req) /\ Fits(d.req[m.req].account, m.account)
         /\ CanPropagate(d, ConvOf(d, m.req), m.account)
<1> DEFINE r == m.req
           c == ConvOf(d, r)
           a == m.account
<1>1. /\ d \in Database /\ r \in Requests /\ Known(d, r) /\ c \in Requests /\ a \in Accounts
      /\ Stored(d, r) /\ a # None
  BY RecordFacts, Kind DEF StoreInv, Carried, Materialized
<1>2. Says(d, c, a)
  BY <1>1 DEF Says
<1>3. d.row[r].account = a /\ d.req[r].account = a /\ d.conv[c].open /\ d.conv[c].account = a
  <2>1. d.row[r].account = a
    BY <1>1, <1>2 DEF StoreInv, Named
  <2> QED
    BY <1>1, <2>1, OneName
<1>4. ASSUME NEW q \in Members(d, c)
      PROVE  Fits(d.row[q].account, a) /\ Fits(d.req[q].account, a)
  <2>1. q \in Requests /\ Known(d, q) /\ ConvOf(d, q) = c
    BY <1>1, MembersKnown
  <2>2. d.row[q].account = a
    BY <1>1, <1>2, <2>1 DEF StoreInv, Named
  <2>3. Stored(d, q) => d.req[q].account = a
    BY <2>1, <2>2, OneName
  <2>4. ~Stored(d, q) => d.req[q].account = None
    BY DEF Stored, NoReq
  <2> QED
    BY <2>2, <2>3, <2>4 DEF Fits
<1>5. ASSUME NEW q \in Requests, d.link[q].conv = c
      PROVE  Fits(d.link[q].account, a)
  <2>1. d.link[q].account \in MaybeAccount
    BY <1>1, RowTypes DEF Link
  <2>2. d.link[q].account # None => Says(d, c, d.link[q].account)
    BY <1>5 DEF Says
  <2>3. d.link[q].account # None => d.link[q].account = a
    BY <1>1, <1>2, <2>1, <2>2 DEF StoreInv, Named, MaybeAccount
  <2> QED
    BY <2>3 DEF Fits
<1> HIDE DEF c, a, r
<1>6. CanPropagate(d, c, a)
  BY <1>3, <1>4, <1>5 DEF CanPropagate, Fits
<1> QED
  BY <1>1, <1>3, <1>6 DEF Fits, c, a, r

\* Nothing that is pending is older than the oldest.
LEMMA OldestIs ==
  ASSUME NEW d, NEW n, NEW t, StoreInv(d, n, t), NEW m \in Oldest(d, 1),
         NEW k \in Pending(d), k.id <= m.id
  PROVE  k = m
<1> DEFINE S == {j \in Pending(d) : j.id <= m.id}
<1>1. m \in Pending(d) /\ Cardinality(S) <= 1 /\ m.id \in Nat
  BY RecordFacts DEF Oldest, Pending
<1>2. IsFiniteSet(S)
  BY FS_Subset DEF Pending, StoreInv, TypesOK
<1>3. k \in S /\ m \in S
  BY <1>1
<1> HIDE DEF S
<1>4. ASSUME k # m
      PROVE  FALSE
  <2>1. Cardinality({k} \cup {m}) = 2
    <3>1. IsFiniteSet({k}) /\ Cardinality({k}) = 1
      BY FS_Singleton
    <3>2. m \notin {k}
      BY <1>4
    <3>3. Cardinality({k} \cup {m}) = Cardinality({k}) + 1
      BY <3>1, <3>2, FS_AddElement
    <3> QED
      BY <3>1, <3>3
  <2>2. {k} \cup {m} \subseteq S
    BY <1>3
  <2>3. Cardinality({k} \cup {m}) <= Cardinality(S) /\ Cardinality(S) \in Nat
    BY <1>2, <2>2, FS_Subset, FS_CardinalityType
  <2> QED
    BY <1>1, <2>1, <2>3
<1> QED
  BY <1>4

\* What stops replay is late or has been taken over.
LEMMA BlockedIs ==
  ASSUME Inv, NEW m \in Blocked
  PROVE  Known(db, m.req) /\ (Late(m) \/ TakenOver(m))
<1> DEFINE r == m.req
           c == ConvOf(db, r)
<1>1. StoreInv(db, nextId, now) /\ m \in db.log /\ m \in Pending(db) /\ m \in Oldest(db, 1)
      /\ m.id \notin db.receipts /\ ~Applies(db, m)
  BY DEF Inv, Core, Blocked, Pending
<1>2. r \in Requests /\ Known(db, r) /\ c \in Requests /\ m \in Entry
  BY <1>1, RecordFacts
<1>3. CASE m.kind = "accepted"
  <2>1. ~Stored(db, r) /\ ~Terminal(db, r)
    <3>1. ~Stored(db, r)
      BY <1>1, <1>3 DEF StoreInv, Materialized
    <3>2. NoReq.status = "none" /\ "none" \notin Outcomes
      BY Kind DEF NoReq
    <3> QED
      BY <3>1, <3>2 DEF Terminal, Stored
  <2>2. ~db.conv[c].deleting
    BY <1>1, <1>2, <2>1 DEF StoreInv, Deleting
  <2>3. db.conv[c].open => Fits(db.conv[c].account, db.row[r].account)
    BY <1>1, <1>2, OneName DEF Fits
  <2> QED
    BY <1>1, <1>2, <1>3, <2>1, <2>2, <2>3 DEF Applies, CanAccept
<1>4. CASE m.kind = "bound"
  <2>1. Stored(db, r) /\ Fits(db.req[r].account, m.account) /\ CanPropagate(db, c, m.account)
    BY <1>1, <1>4, BindingFits
  <2>2. ~CanAttach(db, m.session, m.account, m.at)
    BY <1>1, <1>2, <1>4, <2>1 DEF Applies, CanBindAgain
  <2> QED
    BY <1>2, <1>4, <2>2 DEF CanAttach, TakenOver
<1>5. CASE m.kind \notin {"accepted", "bound"}
  <2>1. Stored(db, r)
    <3>1. PICK k \in db.log : k.req = r /\ k.kind = "accepted"
      BY <1>1, <1>2 DEF StoreInv, AcceptedFirst
    <3>2. k.id <= m.id /\ k # m
      BY <1>1, <1>5, <3>1 DEF StoreInv, AcceptedFirst
    <3>3. k \notin Pending(db)
      BY <1>1, <3>2, OldestIs
    <3>4. k.id \in db.receipts
      BY <3>1, <3>3 DEF Pending
    <3> QED
      BY <1>1, <3>1, <3>4 DEF StoreInv, Materialized
  <2>2. /\ db.conv[c].open /\ db.req[r].account = db.row[r].account
        /\ Fits(db.conv[c].account, db.req[r].account)
        /\ CanLink(db, r, db.row[r].account)
    BY <1>1, <1>2, <2>1, OneName DEF Fits, CanLink
  <2>3. CASE ~db.req[r].deleting /\ ~db.conv[c].deleting
    <3>1. Owned(db, r)
      BY <2>1, <2>2, <2>3 DEF Owned
    <3>2. m.kind \in Kinds
      BY <1>2 DEF Entry
    <3> QED
      BY <1>1, <1>2, <1>5, <2>2, <3>1, <3>2 DEF Applies, Kinds
  <2>4. CASE db.req[r].deleting \/ db.conv[c].deleting
    <3>1. Terminal(db, r)
      BY <1>1, <1>2, <2>4 DEF StoreInv, Deleting
    <3>2. m.kind = "frame" /\ m.id > db.req[r].terminal
      BY <1>1, <3>1 DEF StoreInv, Ended
    <3> QED
      BY <1>2, <2>4, <3>2 DEF Late
  <2> QED
    BY <2>3, <2>4
<1> QED
  BY <1>3, <1>4, <1>5

-----------------------------------------------------------------------------
(* The history a continuation reads, in steps, while others delete *)

\* The conversation of response p is still there to be continued.
Resumable(d, p) == Known(d, p) /\ ~d.conv[ConvOf(d, p)].deleting
\* Request q hangs on to conversation c, whether its rows are there or not.
Tied(d, q, c) == Linked(d, q) /\ d.link[q].conv = c
InHand(r) == handler[r].unread \cup handler[r].missing

(* What a handler reads from stays tied to the conversation it continues,  *)
(* as long as that may be continued; and what it missed is gone.           *)
Histories ==
    \A r \in Requests :
      /\ handler[r].prev # None =>
           /\ Begun(handler[r].prev)
           /\ Known(db, handler[r].prev) => Linked(db, handler[r].prev)
           /\ Known(db, r) /\ Known(db, handler[r].prev) =>
                ConvOf(db, r) = ConvOf(db, handler[r].prev)
      /\ \A q \in InHand(r) :
           /\ handler[r].prev # None /\ Begun(q)
           /\ Known(db, q) => Linked(db, q)
           /\ handler[r].pc = "arrived" /\ Resumable(db, handler[r].prev) =>
                Tied(db, q, ConvOf(db, handler[r].prev))
           /\ Known(db, r) /\ ~Terminal(db, r) => Tied(db, q, ConvOf(db, r))
      /\ now < PayloadTTL => \A q \in handler[r].missing : ~Known(db, q)

\* What such a step leaves: links, but for those of a conversation that is
\* being deleted, and requests X that begin.
LinksLast(d, e, X) ==
    \A q \in Requests :
      /\ Linked(d, q) => Tied(e, q, d.link[q].conv)
      /\ q \notin X /\ Known(e, q) => Known(d, q) /\ ConvOf(e, q) = ConvOf(d, q)
Lasts(d, e, X) ==
    \A q \in Requests :
      /\ Linked(d, q) /\ (Known(e, q) \/ ~d.conv[d.link[q].conv].deleting) =>
           Tied(e, q, d.link[q].conv)
      /\ q \notin X /\ Known(e, q) =>
           /\ Known(d, q) /\ ConvOf(e, q) = ConvOf(d, q)
           /\ d.conv[ConvOf(d, q)].deleting => e.conv[ConvOf(d, q)].deleting
           /\ Terminal(d, q) => Terminal(e, q)
\* Handlers keep what they read, or part of it, or drop it all.
Recalls ==
    \A r \in Requests :
      /\ Begun(r) => Begun(r)'
      /\ handler'[r].pc = "arrived" => handler[r].pc = "arrived"
      /\ \/ handler'[r].prev = None /\ handler'[r].unread = {} /\ handler'[r].missing = {}
         \/ /\ handler'[r].prev = handler[r].prev
            /\ handler'[r].unread \subseteq handler[r].unread
            /\ handler'[r].missing \subseteq handler[r].missing

\* A request that is known has begun.
LEMMA KnownBegun ==
  ASSUME Core, NEW r \in Requests, Known(db, r)
  PROVE  Begun(r)
  BY DEF Core, Fresh, Untouched, Known

LEMMA HandTypes ==
  ASSUME TypeOK, NEW r \in Requests
  PROVE  /\ InHand(r) \subseteq Requests /\ handler[r].missing \subseteq InHand(r)
         /\ handler[r].prev # None => handler[r].prev \in Requests
  BY DEF TypeOK, Handlers, InHand

\* Histories stay what they are over such a step.
LEMMA HistoriesLast ==
  ASSUME Core, Histories, Recalls, NEW X, Lasts(db, db', X), now' \in {now, now + 1},
         \A r \in X : /\ r \in Requests /\ handler[r].pc = "arrived"
                      /\ handler[r].prev # None =>
                           /\ Resumable(db, handler[r].prev)
                           /\ ConvOf(db', r) = ConvOf(db, handler[r].prev)
  PROVE  Histories'
<1> DEFINE B(x) == handler'[x].pc \notin {"none", "arrived"}
<1> SUFFICES ASSUME NEW r \in Requests
             PROVE  /\ handler'[r].prev # None =>
                         /\ B(handler'[r].prev)
                         /\ Known(db', handler'[r].prev) => Linked(db', handler'[r].prev)
                         /\ Known(db', r) /\ Known(db', handler'[r].prev) =>
                              ConvOf(db', r) = ConvOf(db', handler'[r].prev)
                    /\ \A q \in InHand(r)' :
                         /\ handler'[r].prev # None /\ B(q)
                         /\ Known(db', q) => Linked(db', q)
                         /\ handler'[r].pc = "arrived" /\ Resumable(db', handler'[r].prev) =>
                              Tied(db', q, ConvOf(db', handler'[r].prev))
                         /\ Known(db', r) /\ ~Terminal(db', r) => Tied(db', q, ConvOf(db', r))
                    /\ now' < PayloadTTL => \A q \in handler'[r].missing : ~Known(db', q)
  BY DEF Histories, Begun, Known, Linked, Resumable, Tied, ConvOf, Terminal
<1> HIDE DEF B
<1> DEFINE p == handler[r].prev
<1>1. CASE handler'[r].prev = None /\ handler'[r].unread = {} /\ handler'[r].missing = {}
  BY <1>1 DEF InHand
<1>2. CASE /\ handler'[r].prev = handler[r].prev
           /\ handler'[r].unread \subseteq handler[r].unread
           /\ handler'[r].missing \subseteq handler[r].missing
  <2>1. /\ handler'[r].prev = p /\ InHand(r)' \subseteq InHand(r)
        /\ handler'[r].missing \subseteq handler[r].missing /\ handler[r].missing \subseteq InHand(r)
        /\ InHand(r) \subseteq Requests /\ (p # None => p \in Requests)
    BY <1>2, HandTypes DEF Core, InHand
  <2>2. \A q \in Requests : Begun(q) => q \notin X /\ B(q)
    BY DEF Recalls, Begun, B
  <2>3. /\ p # None => /\ Begun(p) /\ (Known(db, p) => Linked(db, p))
                       /\ Known(db, r) /\ Known(db, p) => ConvOf(db, r) = ConvOf(db, p)
        /\ \A q \in InHand(r) :
             /\ p # None /\ Begun(q)
             /\ Known(db, q) => Linked(db, q)
             /\ handler[r].pc = "arrived" /\ Resumable(db, p) => Tied(db, q, ConvOf(db, p))
             /\ Known(db, r) /\ ~Terminal(db, r) => Tied(db, q, ConvOf(db, r))
        /\ now < PayloadTTL => \A q \in handler[r].missing : ~Known(db, q)
    BY DEF Histories
  <2> HIDE DEF p
  <2>4. ASSUME NEW q \in Requests, Begun(q), Known(db, q) => Linked(db, q), Known(db', q)
        PROVE  Known(db, q) /\ Linked(db', q) /\ ConvOf(db', q) = ConvOf(db, q)
    BY <2>2, <2>4 DEF Lasts, Tied
  <2>5. ASSUME p # None, Resumable(db', p)
        PROVE  Resumable(db, p) /\ ConvOf(db', p) = ConvOf(db, p)
    <3>1. /\ p \in Requests /\ p \notin X /\ Known(db', p)
          /\ ~db'.conv[ConvOf(db', p)].deleting
      BY <2>1, <2>2, <2>3, <2>5 DEF Resumable
    <3> QED
      BY <3>1 DEF Lasts, Resumable
  <2>6. ASSUME NEW q \in Requests, NEW c, Tied(db, q, c), ~db.conv[c].deleting
        PROVE  Tied(db', q, c)
    BY <2>6 DEF Lasts, Tied
  <2>7. ASSUME p # None
        PROVE  /\ B(p)
               /\ Known(db', p) => Linked(db', p)
               /\ Known(db', r) /\ Known(db', p) => ConvOf(db', r) = ConvOf(db', p)
    <3>1. p \in Requests /\ B(p) /\ (Known(db', p) => Known(db, p) /\ Linked(db', p)
             /\ ConvOf(db', p) = ConvOf(db, p))
      BY <2>1, <2>2, <2>3, <2>4, <2>7
    <3>2. ASSUME Known(db', r), Known(db', p)
          PROVE  ConvOf(db', r) = ConvOf(db', p)
      <4>1. CASE r \in X
        BY <2>7, <3>1, <3>2, <4>1 DEF p
      <4>2. CASE r \notin X
        <5>1. Known(db, r) /\ ConvOf(db', r) = ConvOf(db, r)
          BY <3>2, <4>2 DEF Lasts
        <5> QED
          BY <2>3, <2>7, <3>1, <3>2, <5>1
      <4> QED
        BY <4>1, <4>2
    <3> QED
      BY <3>1, <3>2
  <2>8. ASSUME NEW q \in InHand(r)'
        PROVE  /\ p # None /\ B(q) /\ (Known(db', q) => Linked(db', q))
               /\ handler'[r].pc = "arrived" /\ Resumable(db', p) => Tied(db', q, ConvOf(db', p))
               /\ Known(db', r) /\ ~Terminal(db', r) => Tied(db', q, ConvOf(db', r))
    <3>1. /\ q \in Requests /\ p # None /\ Begun(q) /\ B(q) /\ (Known(db', q) => Linked(db', q))
          /\ handler[r].pc = "arrived" /\ Resumable(db, p) => Tied(db, q, ConvOf(db, p))
          /\ Known(db, r) /\ ~Terminal(db, r) => Tied(db, q, ConvOf(db, r))
      BY <2>1, <2>2, <2>3, <2>4
    <3>2. ASSUME handler'[r].pc = "arrived", Resumable(db', p)
          PROVE  Tied(db', q, ConvOf(db', p))
      <4>1. handler[r].pc = "arrived" /\ Resumable(db, p) /\ ConvOf(db', p) = ConvOf(db, p)
        BY <2>5, <3>1, <3>2 DEF Recalls
      <4>2. Tied(db, q, ConvOf(db, p)) /\ ~db.conv[ConvOf(db, p)].deleting
        BY <3>1, <4>1 DEF Resumable
      <4> QED
        BY <2>6, <3>1, <4>1, <4>2
    <3>3. ASSUME Known(db', r), ~Terminal(db', r)
          PROVE  Tied(db', q, ConvOf(db', r))
      <4>1. CASE r \in X
        <5>1. handler[r].pc = "arrived" /\ Resumable(db, p) /\ ConvOf(db', r) = ConvOf(db, p)
          BY <3>1, <4>1 DEF p
        <5>2. Tied(db, q, ConvOf(db, p)) /\ ~db.conv[ConvOf(db, p)].deleting
          BY <3>1, <5>1 DEF Resumable
        <5> QED
          BY <2>6, <3>1, <5>1, <5>2
      <4>2. CASE r \notin X
        <5>1. Known(db, r) /\ ~Terminal(db, r) /\ ConvOf(db', r) = ConvOf(db, r)
          BY <3>3, <4>2 DEF Lasts
        <5>2. ~db.conv[ConvOf(db, r)].deleting
          BY <5>1 DEF Core, StoreInv, Deleting
        <5> QED
          BY <2>6, <3>1, <5>1, <5>2
      <4> QED
        BY <4>1, <4>2
    <3> QED
      BY <3>1, <3>2, <3>3
  <2>9. ASSUME now' < PayloadTTL, NEW q \in handler'[r].missing
        PROVE  ~Known(db', q)
    <3>1. now < PayloadTTL
      BY <2>9, StoreAssumption DEF Core, TypeOK
    <3>2. q \in Requests /\ Begun(q) /\ ~Known(db, q)
      BY <2>1, <2>3, <2>9, <3>1
    <3> QED
      BY <2>2, <3>2 DEF Lasts
  <2> QED
    BY <2>1, <2>7, <2>8, <2>9
<1> QED
  BY <1>1, <1>2 DEF Recalls

-----------------------------------------------------------------------------
(* What the steps of the journal leave of it *)

\* Rows and links that do not change last.
LEMMA SameLinks ==
  ASSUME NEW d, NEW e, NEW X, e.row = d.row, e.link = d.link
  PROVE  LinksLast(d, e, X)
  BY DEF LinksLast, Tied, Linked, Known, ConvOf

\* What a handler has read stays what it is while it goes on, until it ends.
Reading(h, x) == x.prev = h.prev /\ x.unread = h.unread /\ x.missing = h.missing
LEMMA HandlerReads ==
  ASSUME NEW h \in Handlers, NEW n
  PROVE  /\ Reading(h, [h EXCEPT !.pc = n]) /\ Reading(h, [h EXCEPT !.pc = "writing", !.writing = n])
         /\ Reading(h, [h EXCEPT !.pc = "open", !.writing = n])
         /\ Reading(h, [h EXCEPT !.binds = n]) /\ Reading(h, [h EXCEPT !.frames = n])
         /\ Reading(h, [h EXCEPT !.used = TRUE]) /\ Reading(h, [h EXCEPT !.marked = TRUE])
         /\ Gone(h).prev = h.prev /\ Gone(h).unread = {} /\ Gone(h).missing = {}
  BY DEF Handlers, Gone, Reading
LEMMA HandlerPlace ==
  ASSUME NEW h \in Handlers, NEW n
  PROVE  /\ [h EXCEPT !.pc = n].pc = n /\ [h EXCEPT !.pc = "writing", !.writing = n].pc = "writing"
         /\ [h EXCEPT !.pc = "open", !.writing = n].pc = "open"
         /\ [h EXCEPT !.binds = n].pc = h.pc /\ [h EXCEPT !.frames = n].pc = h.pc
         /\ [h EXCEPT !.used = TRUE].pc = h.pc /\ [h EXCEPT !.marked = TRUE].pc = h.pc
         /\ Gone(h).pc = "done"
  BY DEF Handlers, Gone

\* One handler goes on with what it has read, or ends.
LEMMA RecallOne ==
  ASSUME Core, NEW r \in Requests, NEW x, Go(r, x),
         x.pc \notin {"none", "arrived"} \/ x.pc = handler[r].pc,
         \/ Reading(handler[r], x)
         \/ x.prev = handler[r].prev /\ x.unread = {} /\ x.missing = {}
  PROVE  Recalls
<1>1. handler'[r] = x /\ \A q \in Requests : q # r => handler'[q] = handler[q]
  BY DEF Go, Core, TypeOK
<1> QED
  BY <1>1 DEF Recalls, Reading, Begun
\* All go on, or all end.
LEMMA RecallAll ==
  ASSUME handler' = handler \/ Forget
  PROVE  Recalls
<1>1. CASE handler' = handler
  BY <1>1 DEF Recalls, Begun
<1>2. CASE Forget
  <2>1. /\ \A r \in Requests : handler[r].pc = "none" => handler'[r] = Idle
        /\ \A r \in Requests : handler[r].pc # "none" => handler'[r] = [Idle EXCEPT !.pc = "done"]
    BY <1>2 DEF Forget
  <2>2. /\ Idle.pc = "none" /\ Idle.prev = None /\ Idle.unread = {} /\ Idle.missing = {}
        /\ [Idle EXCEPT !.pc = "done"].pc = "done" /\ [Idle EXCEPT !.pc = "done"].prev = None
        /\ [Idle EXCEPT !.pc = "done"].unread = {} /\ [Idle EXCEPT !.pc = "done"].missing = {}
    BY DEF Idle
  <2> QED
    BY <2>1, <2>2 DEF Recalls, Begun
<1> QED
  BY <1>1, <1>2

\* Marks stay and what has ended stays ended, so links last.
LEMMA LinksLasting ==
  ASSUME NEW d, NEW e, NEW n, NEW t, StoreInv(d, n, t), NEW X,
         LinksLast(d, e, X), Lasting(d, e)
  PROVE  Lasts(d, e, X)
  BY DEF LinksLast, Lasting, Lasts, StoreInv, Opened

\* A session that is attached leaves rows and links.
LEMMA AttachRows ==
  ASSUME NEW g \in Database, NEW s \in MaybeSession, NEW a \in MaybeAccount, NEW x \in Nat
  PROVE  /\ Attach(g, s, a, x) \in Database
         /\ Attach(g, s, a, x).row = g.row /\ Attach(g, s, a, x).link = g.link
<1>1. CASE s = None
  BY <1>1, Kind DEF Attach
<1>2. CASE s # None
  <2> DEFINE v == [account |-> a, expires |-> x]
  <2>1. v \in Affinity /\ s \in Sessions
    BY <1>2 DEF Affinity, MaybeSession
  <2>2. Attach(g, s, a, x) = [g EXCEPT !.affinity[s] = v]
    BY <1>2 DEF Attach
  <2> HIDE DEF v
  <2>3. [g EXCEPT !.affinity[s] = v] \in Database
    BY <2>1 DEF Database
  <2> QED
    BY <2>1, <2>2, <2>3 DEF Database, v
<1> QED
  BY <1>1, <1>2

\* Materializing a record leaves rows and links, but for a new link or account.
LEMMA MaterializeLinks ==
  ASSUME NEW d, NEW n, NEW t, StoreInv(d, n, t), NEW m \in Pending(d), Applies(d, m)
  PROVE  LinksLast(d, Materialize(d, m), {})
<1> DEFINE f == Effect(d, m)
           e == Materialize(d, m)
<1>1. /\ m \in d.log /\ d \in Database /\ m \in Entry /\ m.req \in Requests /\ Known(d, m.req)
      /\ ConvOf(d, m.req) \in Requests /\ d.row[m.req].account \in MaybeAccount
  BY RecordFacts DEF Pending
<1>2. ASSUME f \in Database, LinksLast(d, f, {})
      PROVE  LinksLast(d, e, {})
  <2>1. e = Receive(f, m)
    BY DEF Materialize, Receive
  <2> HIDE DEF f, e
  <2>2. e.row = f.row /\ e.link = f.link
    BY <1>1, <1>2, <2>1, ReceiveFields
  <2> QED
    BY <1>2, <2>2 DEF LinksLast, Tied, Linked, Known, ConvOf
<1>3. f \in Database /\ LinksLast(d, f, {})
  <2>1. CASE m.kind = "accepted"
    <3>1. f = Accept(d, m, d.row[m.req].account)
      BY <2>1 DEF Effect
    <3> HIDE DEF f
    <3> QED
      BY <1>1, <3>1, AcceptFields, SameLinks
  <2>2. CASE m.kind = "bound"
    <3> DEFINE c == ConvOf(d, m.req)
               g == Propagate(d, c, m.account)
    <3>1. f = Attach(g, m.session, m.account, d.conv[c].expires)
      BY <2>2 DEF Effect, BindAgain
    <3>2. CanPropagate(d, c, m.account) /\ Stored(d, m.req)
      BY <1>1, <2>2 DEF Applies, CanBindAgain
    <3>3. m.account \in Accounts /\ m.session \in MaybeSession
      BY <1>1, <2>2 DEF StoreInv, Carried, Entry
    <3>4. g \in Database /\ Propagated(d, g, c, m.account)
      BY <1>1, <3>2, <3>3, PropagateRows
    <3>5. f \in Database /\ f.row = g.row /\ f.link = g.link
      <4> DEFINE x == d.conv[c].expires
      <4>1. x \in Nat /\ m.account \in MaybeAccount
        BY <1>1, <3>3, RowTypes DEF Conv, MaybeAccount
      <4>2. f = Attach(g, m.session, m.account, x)
        BY <3>1
      <4> HIDE DEF g, f, x
      <4>3. /\ Attach(g, m.session, m.account, x) \in Database
            /\ Attach(g, m.session, m.account, x).row = g.row
            /\ Attach(g, m.session, m.account, x).link = g.link
        BY <3>3, <3>4, <4>1, AttachRows
      <4> QED
        BY <4>2, <4>3
    <3> HIDE DEF f, g, c
    <3> QED
      BY <3>4, <3>5 DEF LinksLast, Propagated, Tied, Linked, Known, ConvOf
  <2>3. CASE m.kind = "answer"
    <3>1. f = d
      <4>1. Linked(d, m.req)
        BY <1>1, <2>3 DEF StoreInv, Materialized
      <4> QED
        BY <2>3, <4>1 DEF Effect, LinkAnswer
    <3> HIDE DEF f
    <3> QED
      BY <1>1, <3>1, SameLinks
  <2>4. CASE m.kind = "terminal"
    <3>1. f = End(d, m)
      BY <2>4 DEF Effect
    <3>2. m.status \in Outcomes /\ ~Terminal(d, m.req)
      BY <1>1, <2>4 DEF StoreInv, Carried, Ended
    <3> HIDE DEF f
    <3>3. f \in Database /\ f.row = d.row /\ f.link = d.link
      BY <1>1, <3>1, <3>2, EndFields
    <3> QED
      BY <3>3, SameLinks
  <2>5. CASE m.kind \notin {"accepted", "bound", "answer", "terminal"}
    <3>1. f = d
      BY <2>5 DEF Effect
    <3> HIDE DEF f
    <3> QED
      BY <1>1, <3>1, SameLinks
  <2> QED
    BY <2>1, <2>2, <2>3, <2>4, <2>5
<1> QED
  BY <1>2, <1>3

\* A binding leaves rows and links too.
LEMMA BindLinks ==
  ASSUME Core, NEW r \in Requests, NEW a \in Accounts, Bind(r, a)
  PROVE  LinksLast(db, db', {})
<1> DEFINE s == IF Fits(handler[r].hint, a) THEN handler[r].session ELSE None
           c == ConvOf(db, r)
           d == MaterializeAccepted(r)
           g == Propagate(d, c, a)
           e == Attach(g, s, a, d.conv[c].expires)
           m == [Record(r, "bound") EXCEPT !.account = a, !.session = s]
<1>1. /\ states[r].known /\ Known(db, r)
      /\ Stored(db, r) \/ CanAccept(db, Accepted(r), states[r].account)
      /\ CanPropagate(d, c, a)
      /\ db' = e \/ db' = Append(e, m)
  BY DEF Bind, MayOperate, MayEnd, Store
<1>2. s \in MaybeSession /\ a \in MaybeAccount /\ c \in Requests
  BY <1>1 DEF Core, TypeOK, Handlers, MaybeSession, MaybeAccount, StoreInv, Opened
<1> HIDE DEF s
<1>3. m \in Entry
  <2>1. nextId \in Nat /\ now \in Nat
    BY DEF Core, TypeOK
  <2> QED
    BY <1>2, <2>1 DEF Record, Entry, Kinds, MaybeAccount
<1> HIDE DEF m
<1>4. StoreInv(d, nextId, now) /\ Stored(d, r) /\ d.row = db.row
  BY <1>1, MaterializedFirst
<1>5. d.link = db.link
  <2>1. CASE Stored(db, r)
    BY <2>1 DEF MaterializeAccepted
  <2>2. CASE ~Stored(db, r)
    <3>1. /\ Accepted(r) \in db.log /\ Accepted(r).req = r
          /\ d = Accept(db, Accepted(r), states[r].account)
      BY <1>1, <2>2 DEF Core, StoreInv, AcceptedFirst, Accepted, MaterializeAccepted
    <3>2. db \in Database /\ Accepted(r) \in Entry /\ states[r].account \in MaybeAccount
      BY <3>1, RecordFacts DEF Core, TypeOK, States
    <3> HIDE DEF d
    <3> QED
      BY <1>1, <1>2, <3>1, <3>2, AcceptFields DEF c
  <2> QED
    BY <2>1, <2>2
<1> HIDE DEF d
<1>6. c = ConvOf(d, r) /\ d \in Database
  BY <1>4 DEF ConvOf, StoreInv, TypesOK
<1> HIDE DEF c
<1>7. g \in Database /\ Propagated(d, g, c, a)
  BY <1>1, <1>4, <1>6, PropagateRows
<1> HIDE DEF g
<1>8. e \in Database /\ e.row = g.row /\ e.link = g.link
  <2> DEFINE x == d.conv[c].expires
  <2>1. x \in Nat
    BY <1>2, <1>6, RowTypes DEF Conv
  <2>2. e = Attach(g, s, a, x)
    OBVIOUS
  <2> HIDE DEF e, x
  <2>3. /\ Attach(g, s, a, x) \in Database
        /\ Attach(g, s, a, x).row = g.row /\ Attach(g, s, a, x).link = g.link
    BY <1>2, <1>7, <2>1, AttachRows
  <2> QED
    BY <2>2, <2>3
<1> HIDE DEF e
<1>9. db'.row = g.row /\ db'.link = g.link
  BY <1>1, <1>3, <1>8, AppendFields
<1> QED
  BY <1>4, <1>5, <1>7, <1>9 DEF LinksLast, Propagated, Tied, Linked, Known, ConvOf

\* So do the steps of one handler that began, ...
LEMMA ServeLinks ==
  ASSUME Core, NEW r \in Requests, Serve(r), ~Arrive(r), ~HistoryStep(r), ~Begin(r)
  PROVE  LinksLast(db, db', {}) /\ Recalls /\ now' = now
<1>1. handler[r] \in Handlers /\ db \in Database /\ nextId \in Nat /\ now \in Nat
  BY HandlerTypes DEF Core, TypeOK
<1>2. ASSUME NEW kind \in Kinds, NEW f \in Database, f.row = db.row, LinksLast(db, f, {}),
             db' = Append(f, Record(r, kind))
      PROVE  LinksLast(db, db', {})
  <2>1. Record(r, kind) \in Entry
    BY RecordIs
  <2>2. db'.row = f.row /\ db'.link = f.link
    BY <1>2, <2>1, AppendFields
  <2> QED
    BY <1>2, <2>2 DEF LinksLast, Tied, Linked, Known, ConvOf
<1>3. LinksLast(db, db, {})
  BY SameLinks
<1>4. CASE BeginFails(r) \/ ProceedFails(r) \/ Leave(r)
  <2>1. db' = db /\ now' = now /\ Go(r, Gone(handler[r]))
    BY <1>4 DEF BeginFails, ProceedFails, Leave, process
  <2>2. Recalls
    BY <1>1, <2>1, HandlerReads, HandlerPlace, RecallOne
  <2> QED
    BY <1>3, <2>1, <2>2
<1>5. CASE Proceed(r)
  <2>1. PICK n \in {"open", "running"} : Go(r, [handler[r] EXCEPT !.pc = n])
    BY <1>5 DEF Proceed
  <2>2. now' = now /\ \E kind \in Kinds : db' = Append(db, Record(r, kind))
    BY <1>5 DEF Proceed, Store, Kinds
  <2>3. Recalls
    <3> DEFINE x == [handler[r] EXCEPT !.pc = n]
    <3>1. x.pc = n /\ Reading(handler[r], x)
      BY <1>1, HandlerReads, HandlerPlace
    <3> HIDE DEF x
    <3> QED
      BY <2>1, <3>1, RecallOne DEF x
  <2> QED
    BY <1>1, <1>2, <1>3, <2>2, <2>3
<1>6. CASE \E a \in Accounts : Bind(r, a)
  <2> DEFINE n == handler[r].binds + 1
  <2>1. now' = now /\ Go(r, [handler[r] EXCEPT !.binds = n])
    BY <1>6 DEF Bind
  <2> HIDE DEF n
  <2>2. Recalls
    BY <1>1, <2>1, HandlerReads, HandlerPlace, RecallOne
  <2> QED
    BY <1>6, <2>1, <2>2, BindLinks
<1>7. CASE Forward(r)
  <2> DEFINE busy == [handler[r] EXCEPT !.pc = "writing", !.writing = nextId]
  <2>0. now' = now
    BY <1>7 DEF Forward
  <2>1. \/ Go(r, busy)
        \/ Go(r, [busy EXCEPT !.frames = busy.frames + 1])
    BY <1>7 DEF Forward
  <2>2. busy \in Handlers /\ busy.pc = "writing" /\ Reading(handler[r], busy)
    BY <1>1, HandlerWrites, HandlerReads
  <2> HIDE DEF busy
  <2>3. Recalls
    <3> DEFINE n == busy.frames + 1
    <3>1. CASE Go(r, busy)
      BY <2>2, <3>1, RecallOne
    <3>2. CASE Go(r, [busy EXCEPT !.frames = n])
      <4> HIDE DEF n
      <4>1. [busy EXCEPT !.frames = n].pc = "writing" /\ Reading(handler[r], [busy EXCEPT !.frames = n])
        BY <2>2, HandlerReads, HandlerPlace DEF Reading
      <4> QED
        BY <3>2, <4>1, RecallOne
    <3> QED
      BY <2>1, <3>1, <3>2
  <2>4. \/ db' = Append(db, Record(r, "frame"))
        \/ /\ states[r].known /\ CanAppend(r) /\ ~Linked(db, r)
           /\ db' = Append(LinkAnswer(db, r, states[r].account, now), Record(r, "answer"))
    BY <1>7 DEF Forward, MayOperate, MayEnd, Store
  <2>5. CASE db' = Append(db, Record(r, "frame"))
    <3>1. "frame" \in Kinds
      BY DEF Kinds
    <3>2. LinksLast(db, db', {})
      BY <1>1, <1>2, <1>3, <2>5, <3>1
    <3> QED
      BY <2>0, <2>3, <3>2
  <2>6. CASE /\ states[r].known /\ CanAppend(r) /\ ~Linked(db, r)
             /\ db' = Append(LinkAnswer(db, r, states[r].account, now), Record(r, "answer"))
    <3> DEFINE f == LinkAnswer(db, r, states[r].account, now)
    <3>1. states[r].account \in MaybeAccount /\ ConvOf(db, r) \in Requests
      BY <2>6 DEF Core, TypeOK, States, CanAppend, StoreInv, Opened
    <3>2. f \in Database /\ f.row = db.row /\ \A q \in Requests : q # r => f.link[q] = db.link[q]
      BY <1>1, <2>6, <3>1, LinkAnswerFields
    <3> HIDE DEF f
    <3>3. LinksLast(db, f, {})
      BY <2>6, <3>2 DEF LinksLast, Tied, Linked, Known, ConvOf
    <3>4. db' = Append(f, Record(r, "answer")) /\ "answer" \in Kinds
      BY <2>6 DEF f, Kinds
    <3>5. LinksLast(db, db', {})
      BY <1>2, <3>2, <3>3, <3>4
    <3> QED
      BY <2>0, <2>3, <3>5
  <2> QED
    BY <2>4, <2>5, <2>6
<1>8. CASE Write(r)
  <2>1. db' = db /\ now' = now /\ Go(r, [handler[r] EXCEPT !.pc = "open", !.writing = 0])
    BY <1>8 DEF Write, process
  <2>2. Recalls
    BY <1>1, <2>1, HandlerReads, HandlerPlace, RecallOne
  <2> QED
    BY <1>3, <2>1, <2>2
<1>9. CASE Usage(r)
  <2>1. /\ now' = now /\ Go(r, [handler[r] EXCEPT !.used = TRUE])
        /\ db' = Append(db, Record(r, "usage"))
    BY <1>9 DEF Usage, Store
  <2>2. Recalls
    BY <1>1, <2>1, HandlerReads, HandlerPlace, RecallOne
  <2> QED
    BY <1>1, <1>2, <1>3, <2>1, <2>2 DEF Kinds
<1>10. ASSUME NEW status \in Outcomes, RecordTerminal(r, status)
       PROVE  LinksLast(db, db', {})
  <2> DEFINE m == [Record(r, "terminal") EXCEPT !.status = status]
  <2>1. db' = db \/ db' = Append(db, m)
    BY <1>10 DEF RecordTerminal, Store
  <2>2. m \in Entry
    BY <1>10, RecordType DEF Kinds
  <2> HIDE DEF m
  <2>3. db'.row = db.row /\ db'.link = db.link
    BY <1>1, <2>1, <2>2, AppendFields
  <2> QED
    BY <2>3, SameLinks
<1>11. CASE \E status \in Outcomes : Mark(r, status)
  <2>1. /\ now' = now /\ Go(r, [handler[r] EXCEPT !.marked = TRUE])
        /\ \E status \in Outcomes : RecordTerminal(r, status)
    BY <1>11 DEF Mark
  <2>2. Recalls
    BY <1>1, <2>1, HandlerReads, HandlerPlace, RecallOne
  <2> QED
    BY <1>10, <2>1, <2>2
<1>12. CASE \E status \in Outcomes : Complete(r, status)
  <2>1. /\ now' = now /\ Go(r, Gone(handler[r]))
        /\ \E status \in Outcomes : RecordTerminal(r, status)
    BY <1>12 DEF Complete
  <2>2. Recalls
    BY <1>1, <2>1, HandlerReads, HandlerPlace, RecallOne
  <2> QED
    BY <1>10, <2>1, <2>2
<1> QED
  BY <1>4, <1>5, <1>6, <1>7, <1>8, <1>9, <1>11, <1>12 DEF Serve, Finish, HistoryStep

\* ... and those of replay and of the process.
LEMMA OtherLinks ==
  ASSUME Core, Next, ~\E r \in Requests : Serve(r)
  PROVE  LinksLast(db, db', {}) /\ Recalls /\ now' \in {now, now + 1}
<1>1. LinksLast(db, db, {})
  BY SameLinks
<1>2. CASE Apply
  <2> DEFINE m == First(worker.batch)
  <2>1. /\ worker.batch # {} /\ (Applied(m) \/ Applies(db, m)) /\ now' = now /\ handler' = handler
        /\ db' = IF Applied(m) THEN db ELSE Materialize(db, m)
    BY <1>2 DEF Apply
  <2> HIDE DEF m
  <2>2. Recalls
    BY <2>1, RecallAll
  <2>3. LinksLast(db, db', {})
    <3>1. CASE Applied(m)
      BY <1>1, <2>1, <3>1
    <3>2. CASE ~Applied(m)
      <4>1. m \in Pending(db) /\ Applies(db, m) /\ db' = Materialize(db, m)
        BY <2>1, <3>2 DEF Applied, Applies, Pending
      <4> QED
        BY <4>1, MaterializeLinks DEF Core
    <3> QED
      BY <3>1, <3>2
  <2> QED
    BY <2>1, <2>2, <2>3
<1>3. CASE Wake \/ Load \/ ReplayFails \/ ReplayEnds \/ Close \/ Drain \/ Crash \/ Start
  <2>1. db' = db /\ now' = now /\ (handler' = handler \/ Forget)
    BY <1>3 DEF Wake, Load, ReplayFails, ReplayEnds, EndReplay, Close, Drain, Crash, Start, memory
  <2> QED
    BY <1>1, <2>1, RecallAll
<1>4. CASE Tick
  <2>1. db' = db /\ now' = now + 1 /\ handler' = handler
    BY <1>4 DEF Tick, memory
  <2> QED
    BY <1>1, <2>1, RecallAll
<1> QED
  BY <1>2, <1>3, <1>4 DEF Next, Replay

-----------------------------------------------------------------------------
(* The steps that read *)

\* One handler begins to read, or reads on; the rows stay.
LEMMA HistoriesOne ==
  ASSUME Core, Histories, NEW r \in Requests, db' = db, now' = now,
         \A q \in Requests : q # r => handler'[q] = handler[q],
         Begun(r) => handler'[r].pc \notin {"none", "arrived"},
         NEW p, p = handler'[r].prev,
         p # None =>
           /\ p \in Requests /\ Begun(p) /\ (Known(db, p) => Linked(db, p))
           /\ Known(db, r) /\ Known(db, p) => ConvOf(db, r) = ConvOf(db, p),
         \A q \in handler'[r].unread \cup handler'[r].missing :
           /\ p # None /\ q \in Requests /\ Begun(q) /\ (Known(db, q) => Linked(db, q))
           /\ handler'[r].pc = "arrived" /\ Resumable(db, p) => Tied(db, q, ConvOf(db, p))
           /\ Known(db, r) /\ ~Terminal(db, r) => Tied(db, q, ConvOf(db, r)),
         now < PayloadTTL => \A q \in handler'[r].missing : ~Known(db, q)
  PROVE  Histories'
<1> DEFINE B(x) == handler'[x].pc \notin {"none", "arrived"}
<1>1. \A q \in Requests : Begun(q) => B(q)
  BY DEF Begun
<1> HIDE DEF B
<1>2. ASSUME NEW k \in Requests
      PROVE  LET o == handler'[k].prev IN
             /\ o # None =>
                  /\ B(o) /\ (Known(db, o) => Linked(db, o))
                  /\ Known(db, k) /\ Known(db, o) => ConvOf(db, k) = ConvOf(db, o)
             /\ \A q \in handler'[k].unread \cup handler'[k].missing :
                  /\ o # None /\ B(q) /\ (Known(db, q) => Linked(db, q))
                  /\ handler'[k].pc = "arrived" /\ Resumable(db, o) => Tied(db, q, ConvOf(db, o))
                  /\ Known(db, k) /\ ~Terminal(db, k) => Tied(db, q, ConvOf(db, k))
             /\ now < PayloadTTL => \A q \in handler'[k].missing : ~Known(db, q)
  <2>1. CASE k = r
    BY <1>1, <2>1
  <2>2. CASE k # r
    <3>1. handler'[k] = handler[k] /\ InHand(k) \subseteq Requests
          /\ (handler[k].prev # None => handler[k].prev \in Requests)
      BY <2>2, HandTypes DEF Core
    <3> QED
      BY <1>1, <3>1 DEF Histories, InHand
  <2> QED
    BY <2>1, <2>2
<1> QED
  BY <1>2 DEF Histories, InHand, B, Begun, Known, Linked, Resumable, Tied, ConvOf, Terminal

\* A request arrives, perhaps to continue a response.
LEMMA ArriveHistories ==
  ASSUME Core, Histories, NEW r \in Requests, Arrive(r)
  PROVE  Histories'
<1>1. /\ handler[r].pc = "none" /\ db' = db /\ now' = now
      /\ \/ \E s \in MaybeSession :
              Go(r, [Idle EXCEPT !.pc = "arrived", !.session = s, !.hint = Affine(db, s, now)])
         \/ \E p \in Requests : Resolves(db, p, now) /\ Go(r, [Idle EXCEPT !.pc = "arrived", !.prev = p])
  BY DEF Arrive
<1>2. ~Begun(r) /\ ~Known(db, r)
  BY <1>1, Unknown DEF Begun
<1>3. PICK p \in Requests \cup {None} :
        /\ handler'[r].prev = p /\ handler'[r].unread = {} /\ handler'[r].missing = {}
        /\ p # None => Resolves(db, p, now)
        /\ \A q \in Requests : q # r => handler'[q] = handler[q]
  <2>1. handler \in [Requests -> Handlers]
    BY DEF Core, TypeOK
  <2>2. ASSUME NEW s, NEW a
        PROVE  LET x == [Idle EXCEPT !.pc = "arrived", !.session = s, !.hint = a] IN
               x.prev = None /\ x.unread = {} /\ x.missing = {}
    BY DEF Idle
  <2>3. ASSUME NEW q
        PROVE  LET x == [Idle EXCEPT !.pc = "arrived", !.prev = q] IN
               x.prev = q /\ x.unread = {} /\ x.missing = {}
    BY DEF Idle
  <2>4. CASE \E s \in MaybeSession :
               Go(r, [Idle EXCEPT !.pc = "arrived", !.session = s, !.hint = Affine(db, s, now)])
    BY <2>1, <2>2, <2>4 DEF Go
  <2>5. CASE \E p \in Requests : Resolves(db, p, now) /\ Go(r, [Idle EXCEPT !.pc = "arrived", !.prev = p])
    <3>1. PICK p \in Requests : Resolves(db, p, now) /\ Go(r, [Idle EXCEPT !.pc = "arrived", !.prev = p])
      BY <2>5
    <3> QED
      BY <2>1, <2>3, <3>1 DEF Go
  <2> QED
    BY <1>1, <2>4, <2>5
<1>4. p # None => /\ p \in Requests /\ Begun(p) /\ (Known(db, p) => Linked(db, p))
                  /\ Known(db, r) /\ Known(db, p) => ConvOf(db, r) = ConvOf(db, p)
  BY <1>2, <1>3, KnownBegun DEF Resolves
<1> QED
  BY <1>1, <1>2, <1>3, <1>4, HistoriesOne

\* The requests a history is made of hang on to the conversation.
LEMMA OpenHistories ==
  ASSUME Core, Histories, NEW r \in Requests, OpenHistory(r)
  PROVE  Histories'
<1> DEFINE p == handler[r].prev
           S == {q \in Through(p) : Linked(db, q)}
           h == [handler[r] EXCEPT !.read = TRUE, !.unread = S]
<1>1. /\ handler[r].pc \in {"arrived", "open"} /\ p # None /\ Known(db, p)
      /\ Go(r, h) /\ db' = db /\ now' = now
  BY DEF OpenHistory
<1>2. h.prev = p /\ h.unread = S /\ h.missing = handler[r].missing /\ h.pc = handler[r].pc
  <2>1. handler[r] \in Handlers
    BY HandlerTypes
  <2> HIDE DEF S
  <2> QED
    BY <2>1 DEF Handlers
<1>3. handler'[r] = h /\ \A q \in Requests : q # r => handler'[q] = handler[q]
  BY <1>1 DEF Core, TypeOK, Go
<1> HIDE DEF h
<1>4. p \in Requests /\ ConvOf(db, p) \in Requests
  BY <1>1, HandTypes DEF Core, StoreInv, Opened
<1>5. /\ p # None => /\ p \in Requests /\ Begun(p) /\ (Known(db, p) => Linked(db, p))
                     /\ Known(db, r) /\ Known(db, p) => ConvOf(db, r) = ConvOf(db, p)
      /\ \A q \in InHand(r) :
           /\ q \in Requests /\ Begun(q) /\ (Known(db, q) => Linked(db, q))
           /\ handler[r].pc = "arrived" /\ Resumable(db, p) => Tied(db, q, ConvOf(db, p))
           /\ Known(db, r) /\ ~Terminal(db, r) => Tied(db, q, ConvOf(db, r))
      /\ now < PayloadTTL => \A q \in handler[r].missing : ~Known(db, q)
  BY <1>4, HandTypes DEF Core, Histories
<1> HIDE DEF p
<1>6. ASSUME NEW q \in S
      PROVE  /\ q \in Requests /\ Begun(q) /\ Linked(db, q) /\ Tied(db, q, ConvOf(db, p))
             /\ Known(db, r) => Tied(db, q, ConvOf(db, r))
  <2>1. q \in Requests /\ ConvOf(db, q) = ConvOf(db, p) /\ Linked(db, q)
    BY DEF Through, Members
  <2>2. Known(db, q)
    BY <1>4, <2>1, Kind DEF Known, ConvOf, NoRow
  <2>3. db.link[q].conv = ConvOf(db, q)
    BY <2>1, <2>2 DEF Core, StoreInv, Opened
  <2> QED
    BY <1>1, <1>5, <2>1, <2>2, <2>3, KnownBegun DEF Tied
<1> HIDE DEF S
<1>7. \A q \in handler'[r].unread \cup handler'[r].missing :
        /\ p # None /\ q \in Requests /\ Begun(q) /\ (Known(db, q) => Linked(db, q))
        /\ handler'[r].pc = "arrived" /\ Resumable(db, p) => Tied(db, q, ConvOf(db, p))
        /\ Known(db, r) /\ ~Terminal(db, r) => Tied(db, q, ConvOf(db, r))
  <2>1. ASSUME NEW q \in handler'[r].unread \cup handler'[r].missing
        PROVE  q \in S \/ q \in InHand(r)
    BY <1>2, <1>3 DEF InHand
  <2> QED
    BY <1>1, <1>2, <1>3, <1>5, <1>6, <2>1
<1>8. /\ handler'[r].prev = p /\ handler'[r].missing = handler[r].missing
      /\ Begun(r) => handler'[r].pc \notin {"none", "arrived"}
  BY <1>2, <1>3 DEF Begun
<1> QED
  BY <1>1, <1>3, <1>5, <1>7, <1>8, HistoriesOne

\* Before any payload expires, the records of an answered request are there.
LEMMA RecordsThere ==
  ASSUME Core, now < PayloadTTL, NEW q \in Requests, Known(db, q), Linked(db, q)
  PROVE  InHistory(q)
<1>1. Recorded(db, q, "answer") /\ (Inputs => Recorded(db, q, "input"))
  BY DEF Core, Read
<1>2. ~Inputs => ~Recorded(db, q, "input")
  BY DEF Core, Read, Recorded
<1>3. \A kind : kind \in {m.kind : m \in RecordsOf(db, q)} <=> Recorded(db, q, kind)
  BY DEF Recorded, RecordsOf
<1>4. {m.kind : m \in RecordsOf(db, q)} \cap {"input", "answer"}
        = IF Inputs THEN {"input", "answer"} ELSE {"answer"}
  <2>1. CASE Inputs
    BY <1>1, <1>3, <2>1
  <2>2. CASE ~Inputs
    BY <1>1, <1>2, <1>3, <2>2
  <2> QED
    BY <2>1, <2>2
<1> QED
  BY <1>4 DEF InHistory

\* What is missing is gone.
LEMMA ReadHistories ==
  ASSUME Core, Histories, NEW r \in Requests, ReadHistory(r)
  PROVE  Histories'
<1>1. PICK q \in handler[r].unread :
        Go(r, [handler[r] EXCEPT !.unread = @ \ {q},
                                 !.missing = IF InHistory(q) THEN @ ELSE @ \cup {q}])
  BY DEF ReadHistory
<1> DEFINE p == handler[r].prev
           U == handler[r].unread \ {q}
           M == IF InHistory(q) THEN handler[r].missing ELSE handler[r].missing \cup {q}
           h == [handler[r] EXCEPT !.unread = U, !.missing = M]
<1>2. /\ handler[r].pc \in {"arrived", "open"} /\ Go(r, h) /\ db' = db /\ now' = now
  BY <1>1 DEF ReadHistory
<1>3. h.prev = p /\ h.unread = U /\ h.missing = M /\ h.pc = handler[r].pc
  <2>1. handler[r] \in Handlers
    BY HandlerTypes
  <2> HIDE DEF U, M
  <2> QED
    BY <2>1 DEF Handlers
<1>4. handler'[r] = h /\ \A k \in Requests : k # r => handler'[k] = handler[k]
  BY <1>2 DEF Core, TypeOK, Go
<1> HIDE DEF h
<1>5. /\ p # None => /\ p \in Requests /\ Begun(p) /\ (Known(db, p) => Linked(db, p))
                     /\ Known(db, r) /\ Known(db, p) => ConvOf(db, r) = ConvOf(db, p)
      /\ \A k \in InHand(r) :
           /\ p # None /\ k \in Requests /\ Begun(k) /\ (Known(db, k) => Linked(db, k))
           /\ handler[r].pc = "arrived" /\ Resumable(db, p) => Tied(db, k, ConvOf(db, p))
           /\ Known(db, r) /\ ~Terminal(db, r) => Tied(db, k, ConvOf(db, r))
      /\ now < PayloadTTL => \A k \in handler[r].missing : ~Known(db, k)
  BY HandTypes DEF Core, Histories
<1> HIDE DEF p
<1>6. q \in InHand(r) /\ U \cup M \subseteq InHand(r)
  BY <1>1 DEF InHand
<1>7. ASSUME now < PayloadTTL, NEW k \in M
      PROVE  ~Known(db, k)
  <2>1. CASE k \in handler[r].missing
    BY <1>5, <1>7, <2>1
  <2>2. CASE k = q /\ ~InHistory(q)
    <3>1. q \in Requests /\ (Known(db, q) => Linked(db, q))
      BY <1>5, <1>6
    <3> QED
      BY <1>7, <2>2, <3>1, RecordsThere
  <2> QED
    BY <1>7, <2>1, <2>2
<1> HIDE DEF U, M
<1>8. /\ handler'[r].prev = p /\ handler'[r].unread \cup handler'[r].missing \subseteq InHand(r)
      /\ handler'[r].missing = M /\ handler'[r].pc = handler[r].pc
      /\ Begun(r) => handler'[r].pc \notin {"none", "arrived"}
  BY <1>3, <1>4, <1>6 DEF Begun
<1> QED
  BY <1>2, <1>4, <1>5, <1>7, <1>8, HistoriesOne

\* A request that begins hangs on to the conversation it continues.
LEMMA BeginHistories ==
  ASSUME Core, Histories, NEW r \in Requests, Begin(r)
  PROVE  Histories'
<1> DEFINE p == handler[r].prev
           row == IF p = None THEN [conv |-> r, account |-> None]
                  ELSE [conv |-> db.link[p].conv, account |-> db.link[p].account]
           m == Record(r, "accepted")
           n == IF Inputs THEN "begun" ELSE "open"
<1>1. /\ handler[r].pc = "arrived" /\ MayBegin(r) /\ now' = now
      /\ db' = Insert(db, r, row, m) /\ Go(r, [handler[r] EXCEPT !.pc = n])
  BY DEF Begin, Store, Insert
<1>2. handler[r] \in Handlers /\ db \in Database /\ StoreInv(db, nextId, now)
  BY HandlerTypes DEF Core, TypeOK
<1>3. Recalls
  <2> DEFINE x == [handler[r] EXCEPT !.pc = n]
  <2>1. x.pc = n /\ Reading(handler[r], x)
    <3> HIDE DEF n
    <3> QED
      BY <1>2, HandlerReads, HandlerPlace
  <2>2. x.pc \notin {"none", "arrived"} /\ Go(r, x)
    BY <1>1, <2>1
  <2> HIDE DEF x
  <2> QED
    BY <2>1, <2>2, RecallOne
<1>4. ~Begun(r)
  BY <1>1 DEF Begun
<1>5. row \in Row
  BY <1>1, <1>4, BeginRow
<1>6. m \in Entry
  BY RecordIs DEF Kinds
<1>7. p # None => /\ Resumable(db, p) /\ row.conv = ConvOf(db, p)
  BY <1>1 DEF MayBegin, Resolves, Resumable, ConvOf
<1> HIDE DEF row, m, p, n
<1>8. /\ \A q \in Requests : db'.row[q] = IF q = r THEN row ELSE db.row[q]
      /\ db'.link = db.link
  BY <1>1, <1>2, <1>5, <1>6, InsertFields
<1>9. LinksLast(db, db', {r}) /\ ConvOf(db', r) = row.conv
  BY <1>8 DEF LinksLast, Tied, Linked, Known, ConvOf
<1>10. Lasts(db, db', {r})
  BY <1>2, <1>9, BeginKeeps, LinksLasting DEF Calm
<1> QED
  BY <1>1, <1>3, <1>7, <1>9, <1>10, HistoriesLast DEF p

\* Every step of the journal keeps it.
LEMMA JournalHistories ==
  ASSUME Core, Histories, Next
  PROVE  Histories'
<1>1. CASE \E r \in Requests : Arrive(r) \/ HistoryStep(r) \/ Begin(r)
  BY <1>1, ArriveHistories, OpenHistories, ReadHistories, BeginHistories DEF HistoryStep
<1>2. CASE ~\E r \in Requests : Arrive(r) \/ HistoryStep(r) \/ Begin(r)
  <2>1. LinksLast(db, db', {}) /\ Recalls /\ now' \in {now, now + 1}
    <3>1. CASE \E r \in Requests : Serve(r)
      BY <1>2, <3>1, ServeLinks
    <3>2. CASE ~\E r \in Requests : Serve(r)
      BY <3>2, OtherLinks
    <3> QED
      BY <3>1, <3>2
  <2>2. Lasting(db, db') /\ StoreInv(db, nextId, now)
    BY NextKeeps DEF Calm, Core
  <2>3. Lasts(db, db', {})
    BY <2>1, <2>2, LinksLasting
  <2> QED
    BY <2>1, <2>3, HistoriesLast
<1> QED
  BY <1>1, <1>2

-----------------------------------------------------------------------------
(* The steps that delete *)

\* Requests S go, each with its link only if its conversation is being deleted.
LEMMA DeletionLasts ==
  ASSUME NEW d, NEW e, NEW n, NEW t, StoreInv(d, n, t), NEW S, S \subseteq Requests,
         \A q \in Requests \ S : e.row[q] = d.row[q] /\ e.link[q] = d.link[q] /\ (Terminal(d, q) => Terminal(e, q)),
         \A q \in S : e.row[q] = NoRow /\ Known(d, q),
         \A q \in S : e.link[q] = d.link[q] \/ d.conv[ConvOf(d, q)].deleting,
         \A k \in Requests : d.conv[k].deleting => e.conv[k].deleting \/ Members(d, k) \subseteq S
  PROVE  Lasts(d, e, {})
<1>1. ASSUME NEW q \in Requests, Linked(d, q), Known(e, q) \/ ~d.conv[d.link[q].conv].deleting
      PROVE  Tied(e, q, d.link[q].conv)
  <2>1. e.link[q] = d.link[q]
    <3>1. CASE q \in S
      <4>1. ~Known(e, q) /\ d.link[q].conv = ConvOf(d, q)
        BY <1>1, <3>1 DEF Known, StoreInv, Opened
      <4> QED
        BY <1>1, <3>1, <4>1
    <3> QED
      BY <3>1
  <2> QED
    BY <1>1, <2>1 DEF Tied, Linked
<1>2. ASSUME NEW q \in Requests, Known(e, q)
      PROVE  /\ Known(d, q) /\ ConvOf(e, q) = ConvOf(d, q)
             /\ d.conv[ConvOf(d, q)].deleting => e.conv[ConvOf(d, q)].deleting
             /\ Terminal(d, q) => Terminal(e, q)
  <2>1. q \notin S
    BY <1>2 DEF Known
  <2>2. Known(d, q) /\ ConvOf(e, q) = ConvOf(d, q) /\ ConvOf(d, q) \in Requests
    BY <1>2, <2>1 DEF Known, ConvOf, StoreInv, Opened
  <2>3. q \in Members(d, ConvOf(d, q))
    BY DEF Members
  <2> QED
    BY <2>1, <2>2, <2>3
<1> QED
  BY <1>1, <1>2 DEF Lasts

\* Rows, links and conversations when requests S go.
Dropped(d, S, f) ==
    /\ f \in Database /\ f.conv = d.conv
    /\ \A q \in Requests : f.row[q] = IF q \in S THEN NoRow ELSE d.row[q]
    /\ \A q \in Requests \ S : Terminal(d, q) => Terminal(f, q)
LEMMA DropRows ==
  ASSUME NEW d \in Database, NEW S, S \subseteq Requests
  PROVE  Dropped(d, S, Drop(d, S)) /\ Drop(d, S).link = d.link
<1> DEFINE f == Drop(d, S)
<1>1. /\ f \in Database
      /\ \A q \in Requests :
           /\ f.row[q] = IF q \in S THEN NoRow ELSE d.row[q]
           /\ f.req[q] = IF q \in S THEN NoReq ELSE d.req[q]
      /\ f.conv = d.conv /\ f.link = d.link /\ f.affinity = d.affinity
      /\ f.log = {m \in d.log : m.req \notin S}
      /\ f.receipts = d.receipts \ Ids({m \in d.log : m.req \in S})
      /\ f.payloads = d.payloads \ Ids({m \in d.log : m.req \in S})
  BY DropFields
<1> HIDE DEF f
<1>2. Dropped(d, S, f) /\ f.link = d.link
  BY <1>1 DEF Dropped, Terminal
<1> QED
  BY <1>2 DEF f
LEMMA UnlinkRows ==
  ASSUME NEW d \in Database, NEW S, S \subseteq Requests
  PROVE  LET g == Unlink(Drop(d, S), S) IN
         Dropped(d, S, g) /\ \A q \in Requests : g.link[q] = IF q \in S THEN NoLink ELSE d.link[q]
<1> DEFINE f == Drop(d, S)
           g == Unlink(f, S)
<1>1. Dropped(d, S, f) /\ f.link = d.link
  BY DropRows
<1> HIDE DEF f
<1>2. /\ g \in Database
      /\ \A q \in Requests : g.link[q] = IF q \in S THEN NoLink ELSE f.link[q]
      /\ g.row = f.row /\ g.req = f.req /\ g.conv = f.conv
      /\ g.affinity = f.affinity /\ g.log = f.log
      /\ g.receipts = f.receipts /\ g.payloads = f.payloads
  BY <1>1, UnlinkFields DEF Dropped
<1> HIDE DEF g
<1>3. Dropped(d, S, g) /\ \A q \in Requests : g.link[q] = IF q \in S THEN NoLink ELSE d.link[q]
  BY <1>1, <1>2 DEF Dropped, Terminal
<1> QED
  BY <1>3 DEF g, f

\* Every step of the runner keeps what was read.
LEMMA RetainLasts ==
  ASSUME Inv, Retain
  PROVE  Lasts(db, db', {}) /\ handler' = handler /\ now' = now
<1>1. StoreInv(db, nextId, now) /\ db \in Database
  BY DEF Inv, Core, TypeOK
<1>2. ASSUME db'.row = db.row, db'.link = db.link,
             \A q \in Requests : Terminal(db, q) => Terminal(db', q),
             \A k \in Requests : db.conv[k].deleting => db'.conv[k].deleting
      PROVE  Lasts(db, db', {})
  BY <1>1, <1>2, DeletionLasts
<1>3. CASE ListOverdue \/ (\E c \in Requests : PassOver(c)) \/ RemoveFiles \/ GiveUp
  <2>1. UNCHANGED vars
    BY <1>3 DEF ListOverdue, PassOver, RemoveFiles, GiveUp
  <2> QED
    BY <1>2, <2>1 DEF vars, memory
<1>4. CASE \E c \in Requests : MarkConversation(c)
  <2>1. PICK c \in Requests : db' = [db EXCEPT !.conv[c].deleting = TRUE] /\ UNCHANGED Others
    BY <1>4 DEF MarkConversation
  <2>2. /\ db'.row = db.row /\ db'.link = db.link /\ db'.req = db.req
        /\ \A k \in Requests : db.conv[k].deleting => db'.conv[k].deleting
    BY <1>1, <2>1 DEF Database, Conv
  <2> QED
    BY <1>2, <2>1, <2>2 DEF Terminal, Others, memory
<1>5. CASE \E r \in Requests : MarkRequest(r)
  <2>1. PICK r \in Requests : db' = [db EXCEPT !.req[r].deleting = TRUE] /\ UNCHANGED Others
    BY <1>5 DEF MarkRequest
  <2>2. /\ db'.row = db.row /\ db'.link = db.link /\ db'.conv = db.conv
        /\ \A k \in Requests : db'.req[k].status = db.req[k].status
    BY <1>1, <2>1 DEF Database, Req
  <2> QED
    BY <1>2, <2>1, <2>2 DEF Terminal, Others, memory
<1>6. CASE FinalizeRequests
  <2> DEFINE c == job.target
  <2>1. handler' = handler /\ now' = now /\ db.conv[c].deleting /\ c \in Requests
    <3>1. job.pc = "requests" /\ NoJob.pc = "none"
      BY <1>6 DEF FinalizeRequests, NoJob
    <3>2. job \in [pc : Jobs, target : Requests]
      BY <3>1, JobIs
    <3> QED
      BY <1>6, <3>1, <3>2 DEF FinalizeRequests, Inv, Targeted, Others, memory
  <2>2. CASE db' = db
    BY <1>2, <2>1, <2>2
  <2>3. ASSUME NEW S \in Batches(StoredIn(db, c)), db' = Unlink(Drop(db, S), S)
        PROVE  Lasts(db, db', {})
    <3>1. S \subseteq Requests /\ \A q \in S : Stored(db, q) /\ ConvOf(db, q) = c /\ Known(db, q)
      BY <1>1 DEF Batches, StoredIn, Members, StoreInv, Materialized
    <3>2. /\ Dropped(db, S, db')
          /\ \A q \in Requests : db'.link[q] = IF q \in S THEN NoLink ELSE db.link[q]
      BY <1>1, <2>3, <3>1, UnlinkRows
    <3> HIDE DEF c
    <3> QED
      BY <1>1, <2>1, <3>1, <3>2, DeletionLasts DEF Dropped
  <2> QED
    BY <1>6, <2>1, <2>2, <2>3 DEF FinalizeRequests
<1>7. CASE FinalizeConversation
  <2> DEFINE c == job.target
             S == Members(db, c)
             g == Unlink(Drop(db, S), S)
  <2>1. handler' = handler /\ now' = now /\ db.conv[c].deleting /\ c \in Requests
    <3>1. job.pc = "conversation" /\ NoJob.pc = "none"
      BY <1>7 DEF FinalizeConversation, NoJob
    <3>2. job \in [pc : Jobs, target : Requests]
      BY <3>1, JobIs
    <3> QED
      BY <1>7, <3>1, <3>2 DEF FinalizeConversation, Inv, Targeted, Others, memory
  <2>2. S \subseteq Requests /\ \A q \in S : Known(db, q) /\ ConvOf(db, q) = c
    BY <2>1, Kind DEF Members, Known, ConvOf, NoRow
  <2>3. db' = [g EXCEPT !.conv[c] = NoConv,
                        !.affinity = [s \in Sessions |-> IF s \in Forsaken(c) THEN NoAffinity ELSE @[s]]]
    BY <1>7 DEF FinalizeConversation
  <2> HIDE DEF c, S
  <2>4. /\ Dropped(db, S, g)
        /\ \A q \in Requests : g.link[q] = IF q \in S THEN NoLink ELSE db.link[q]
    BY <1>1, <2>2, UnlinkRows
  <2> HIDE DEF g
  <2>5. g \in Database /\ g.conv = db.conv
    BY <2>4 DEF Dropped
  <2>6. /\ db'.row = g.row /\ db'.req = g.req /\ db'.link = g.link
        /\ \A k \in Requests : k # c => db'.conv[k] = g.conv[k]
    BY <2>3, <2>5 DEF Database
  <2>7. \A k \in Requests : db.conv[k].deleting => db'.conv[k].deleting \/ Members(db, k) \subseteq S
    BY <2>5, <2>6 DEF S
  <2>8. \A q \in S : /\ db'.row[q] = NoRow /\ Known(db, q)
                    /\ (db'.link[q] = db.link[q] \/ db.conv[ConvOf(db, q)].deleting)
    BY <2>1, <2>2, <2>4, <2>6 DEF Dropped
  <2>9. \A q \in Requests \ S : db'.row[q] = db.row[q] /\ db'.link[q] = db.link[q] /\ (Terminal(db, q) => Terminal(db', q))
    BY <2>1, <2>2, <2>4, <2>6 DEF Dropped, Terminal
  <2>10. Lasts(db, db', {})
    BY <1>1, <2>2, <2>7, <2>8, <2>9, DeletionLasts
  <2> QED
    BY <2>1, <2>10
<1>8. CASE FinalizeRequest
  <2> DEFINE r == job.target
             S == {r}
             c == ConvOf(db, r)
             f == Drop(db, S)
  <2>1. /\ handler' = handler /\ now' = now /\ Terminal(db, r) /\ r \in Requests
        /\ db' = [f EXCEPT !.conv[c].count = IF @ > 0 THEN @ - 1 ELSE 0]
    <3>1. job.pc = "request rows" /\ NoJob.pc = "none"
      BY <1>8 DEF FinalizeRequest, NoJob
    <3>2. job \in [pc : Jobs, target : Requests]
      BY <3>1, JobIs
    <3> QED
      BY <1>8, <3>1, <3>2 DEF FinalizeRequest, Inv, Targeted, Others, memory
  <2>2. S \subseteq Requests /\ Known(db, r)
    BY <1>1, <2>1, Kind DEF Terminal, Stored, NoReq, StoreInv, Materialized
  <2> HIDE DEF r, c
  <2>3. Dropped(db, S, f) /\ f.link = db.link /\ f \in Database
    BY <1>1, <2>2, DropRows DEF Dropped
  <2> HIDE DEF f
  <2>4. /\ db'.row = f.row /\ db'.req = f.req /\ db'.link = f.link
        /\ \A k \in Requests : db'.conv[k].deleting = f.conv[k].deleting
    BY <2>1, <2>3 DEF Database, Conv
  <2>5. \A q \in S : /\ db'.row[q] = NoRow /\ Known(db, q)
                    /\ (db'.link[q] = db.link[q] \/ db.conv[ConvOf(db, q)].deleting)
    BY <2>2, <2>3, <2>4 DEF Dropped
  <2>6. \A q \in Requests \ S : db'.row[q] = db.row[q] /\ db'.link[q] = db.link[q] /\ (Terminal(db, q) => Terminal(db', q))
    BY <2>2, <2>3, <2>4 DEF Dropped, Terminal
  <2>7. \A k \in Requests : db.conv[k].deleting => db'.conv[k].deleting \/ Members(db, k) \subseteq S
    BY <2>3, <2>4 DEF Dropped
  <2> HIDE DEF S
  <2>8. Lasts(db, db', {})
    BY <1>1, <2>2, <2>5, <2>6, <2>7, DeletionLasts
  <2> QED
    BY <2>1, <2>8
<1>9. CASE \E m \in db.log : ExpirePayload(m)
  <2>1. /\ UNCHANGED Others /\ \E m \in db.log :
             db' = [db EXCEPT !.log = @ \ {m}, !.receipts = @ \ {m.id}, !.payloads = @ \ {m.id}]
    BY <1>9 DEF ExpirePayload
  <2>2. db'.row = db.row /\ db'.req = db.req /\ db'.conv = db.conv /\ db'.link = db.link
    BY <1>1, <2>1 DEF Database
  <2> QED
    BY <1>2, <2>1, <2>2 DEF Terminal, Others, memory
<1>10. CASE \E s \in Sessions : ExpireAffinity(s)
  <2>1. UNCHANGED Others /\ \E s \in Sessions : db' = [db EXCEPT !.affinity[s] = NoAffinity]
    BY <1>10 DEF ExpireAffinity
  <2>2. db'.row = db.row /\ db'.req = db.req /\ db'.conv = db.conv /\ db'.link = db.link
    BY <1>1, <2>1 DEF Database
  <2> QED
    BY <1>2, <2>1, <2>2 DEF Terminal, Others, memory
<1> QED
  BY <1>3, <1>4, <1>5, <1>6, <1>7, <1>8, <1>9, <1>10 DEF Retain

\* So a history stays what it is.
LEMMA HistoriesKeep ==
  ASSUME Inv, Histories, [RetentionNext]_retentionVars
  PROVE  Histories'
<1>1. CASE JournalStep
  BY <1>1, JournalHistories DEF JournalStep, Inv
<1>2. CASE Retain
  <2>1. Lasts(db, db', {}) /\ Recalls /\ now' = now
    BY <1>2, RetainLasts, RecallAll
  <2> QED
    BY <2>1, HistoriesLast DEF Inv
<1>3. CASE UNCHANGED retentionVars
  <2>1. db' = db /\ handler' = handler /\ now' = now
    BY <1>3 DEF retentionVars, vars, memory
  <2> QED
    BY <2>1 DEF Histories, InHand, Begun, Known, Linked, Resumable, Tied, ConvOf, Terminal
<1> QED
  BY <1>1, <1>2, <1>3 DEF RetentionNext

\* There is none at first.
LEMMA HistoriesBegin ==
  ASSUME RetentionInit
  PROVE  Histories
<1>1. \A r \in Requests : /\ handler[r].prev = None /\ handler[r].unread = {}
                          /\ handler[r].missing = {}
  BY DEF RetentionInit, Init, Idle
<1> QED
  BY <1>1 DEF Histories, InHand

(* The invariant holds in every state. *)
THEOREM InvHolds == RetentionSpec => []Inv
<1>1. RetentionInit => Inv
  BY InitHolds
<1>2. Inv /\ [RetentionNext]_retentionVars => Inv'
  BY StepKeeps
<1> QED
  BY <1>1, <1>2, PTL DEF RetentionSpec

(* And with it what is known of the histories that are read.               *)
THEOREM HistoriesHold == RetentionSpec => []Histories
<1>1. RetentionInit => Histories
  BY HistoriesBegin
<1>2. Inv /\ Histories /\ [RetentionNext]_retentionVars => Histories'
  BY HistoriesKeep
<1> QED
  BY <1>1, <1>2, InvHolds, PTL DEF RetentionSpec

(* The rows, the records, the memory of the handlers and the job of the    *)
(* runner have the types the code gives them.                              *)
THEOREM TypesHold == RetentionSpec => []RetentionTypeOK
<1>1. Inv => RetentionTypeOK
  BY DEF Inv
<1> QED
  BY <1>1, InvHolds, PTL

(* A deletion takes a request as a whole and nothing else; what it leaves  *)
(* stops no replay, but for a frame that came after the end of a request   *)
(* that is being deleted, or a binding whose session another has taken     *)
(* (finalizeRequestDelete, applyReceipt).                                  *)
THEOREM DeletionsAreClean == RetentionSpec => []DeletionIsClean
<1>1. Inv => NothingLeftBehind
  BY DEF Inv, Core, StoreInv, Whole, Materialized, NothingLeftBehind
<1>2. Inv => OnlyLateRecordsBlockReplay
  BY BlockedIs DEF OnlyLateRecordsBlockReplay
<1>3. Inv => AcceptedStays
  BY DEF Inv, Core, StoreInv, Materialized, AcceptedFirst, AcceptedStays, RecordsOf
<1>4. Inv => DeletionIsClean
  BY <1>1, <1>2, <1>3 DEF DeletionIsClean
<1> QED
  BY <1>4, InvHolds, PTL

(* One terminal record for each request, memory that says what the rows    *)
(* say, and every payload a client got in the journal until its request    *)
(* has ended: through faults, crashes and deletions (RecordTerminal,       *)
(* BindAccount, Forward).                                                  *)
THEOREM RecordsKeepAgreeing == RetentionSpec => []RecordsAgree
<1>1. ASSUME Inv
      PROVE  OneTerminalEach
  <2> SUFFICES ASSUME NEW r \in Requests
               PROVE  /\ Cardinality({m \in RecordsOf(db, r) : m.kind = "terminal"}) <= 1
                      /\ ~db.req[r].conflict
    BY DEF OneTerminalEach
  <2>1. StoreInv(db, nextId, now)
    BY <1>1 DEF Inv, Core
  <2>2. \A m, k \in {j \in RecordsOf(db, r) : j.kind = "terminal"} : m = k
    BY <2>1 DEF RecordsOf, StoreInv, Ended
  <2>3. Cardinality({m \in RecordsOf(db, r) : m.kind = "terminal"}) <= 1
    BY <2>2, AtMostOne
  <2> QED
    BY <2>1, <2>3 DEF StoreInv, Ended
<1>2. Inv => MemoryAgreesWithRows
  BY DEF Inv, Core, Memory, Progress, Over, MemoryAgreesWithRows, RecordsOf
<1>3. Inv => SentIsKept
  BY DEF Inv, Core, TypeOK, Sent, SentIsKept
<1>4. Inv => RecordsAgree
  BY <1>1, <1>2, <1>3 DEF RecordsAgree
<1> QED
  BY <1>4, InvHolds, PTL

(* The rows, the memory, the counters and the links of a conversation      *)
(* agree with each other, whoever binds, ends and deletes; a history that  *)
(* is read while others delete lacks nothing but what they deleted, and    *)
(* the request that goes on with it nothing of a deleted conversation      *)
(* (BindAccount, propagateConversationAccount, ResolvePreviousResponse,    *)
(* LoadConversationInputThrough, BeginRequest).                            *)
THEOREM ConversationsKeepAgreeing == RetentionSpec => []ConversationsAgree
<1>1. ASSUME Inv
      PROVE  OneAccountPerConversation
  <2> SUFFICES ASSUME NEW c \in Requests
               PROVE  Cardinality(AccountsOf(c) \ {None}) <= 1
    BY DEF OneAccountPerConversation
  <2>1. StoreInv(db, nextId, now) /\ Memory /\ TypeOK /\ db \in Database
    BY <1>1 DEF Inv, Core, TypeOK
  <2>2. ASSUME NEW x \in AccountsOf(c) \ {None}
        PROVE  /\ x \in Accounts
               /\ Says(db, c, x) \/ \E r \in Requests : states[r].known /\ states[r].conv = c /\ states[r].account = x
    <3>1. CASE \E r \in Members(db, c) : x \in {db.row[r].account, db.req[r].account}
      BY <2>1, <2>2, <3>1, RowTypes DEF Says, Members, Row, Req, MaybeAccount
    <3>2. CASE \E r \in Requests : db.link[r].conv = c /\ x = db.link[r].account
      BY <2>1, <2>2, <3>2, RowTypes DEF Says, Link, MaybeAccount
    <3>3. CASE \E r \in Requests : states[r].conv = c /\ x = states[r].account
      <4>1. PICK r \in Requests : states[r].conv = c /\ x = states[r].account
        BY <3>3
      <4>2. states[r].known
        BY <2>1, <4>1, StoreAssumption DEF Memory, NoState
      <4>3. states[r] \in States
        BY <2>1 DEF TypeOK
      <4> QED
        BY <2>2, <4>1, <4>2, <4>3 DEF States, MaybeAccount
    <3>4. CASE \E m \in db.log : ConvOf(db, m.req) = c /\ x = m.account
      <4>1. \A m \in db.log : m \in Entry
        BY <2>1, RecordFacts
      <4> QED
        BY <2>2, <3>4, <4>1 DEF Says, Entry, MaybeAccount
    <3>5. CASE x = db.conv[c].account
      BY <2>1, <2>2, <3>5, RowTypes DEF Says, Conv, MaybeAccount
    <3>6. \/ \E r \in Members(db, c) : x \in {db.row[r].account, db.req[r].account}
          \/ x \in {db.link[r].account : r \in {q \in Requests : db.link[q].conv = c}}
          \/ x \in {states[r].account : r \in {q \in Requests : states[q].conv = c}}
          \/ x \in {m.account : m \in {k \in db.log : ConvOf(db, k.req) = c}}
          \/ x = db.conv[c].account
      <4> DEFINE P == {{db.row[r].account, db.req[r].account} : r \in Members(db, c)}
                 L == {db.link[r].account : r \in {q \in Requests : db.link[q].conv = c}}
                 H == {states[r].account : r \in {q \in Requests : states[q].conv = c}}
                 R == {m.account : m \in {k \in db.log : ConvOf(db, k.req) = c}}
      <4>1. x \in (UNION P) \cup L \cup H \cup R \cup {db.conv[c].account}
        BY <2>2 DEF AccountsOf
      <4>2. x \in (UNION P) => \E p \in P : x \in p
        OBVIOUS
      <4>3. \A p \in P : \E r \in Members(db, c) : p = {db.row[r].account, db.req[r].account}
        OBVIOUS
      <4>4. x \in (UNION P) => \E r \in Members(db, c) : x \in {db.row[r].account, db.req[r].account}
        BY <4>2, <4>3
      <4> HIDE DEF P, L, H, R
      <4>5. x \in (UNION P) \/ x \in L \/ x \in H \/ x \in R \/ x = db.conv[c].account
        BY <4>1
      <4> QED
        BY <4>4, <4>5, Zenon DEF L, H, R
    <3> QED
      BY <3>1, <3>2, <3>3, <3>4, <3>5, <3>6
  <2>3. \A x, y \in AccountsOf(c) \ {None} : x = y
    <3> SUFFICES ASSUME NEW x \in AccountsOf(c) \ {None}, NEW y \in AccountsOf(c) \ {None}
                 PROVE  x = y
      OBVIOUS
    <3> DEFINE Held(z) == \E r \in Requests : states[r].known /\ states[r].conv = c /\ states[r].account = z
    <3>1. /\ x \in Accounts /\ y \in Accounts /\ x # None /\ y # None
          /\ Says(db, c, x) \/ Held(x)
          /\ Says(db, c, y) \/ Held(y)
      BY <2>2
    <3>2. Says(db, c, x) /\ Says(db, c, y) => x = y
      BY <2>1, <3>1 DEF StoreInv, Named
    <3>3. Says(db, c, x) /\ Held(y) => x = y
      BY <2>1, <3>1 DEF Memory
    <3>4. Held(x) /\ Says(db, c, y) => x = y
      BY <2>1, <3>1 DEF Memory
    <3>5. Held(x) /\ Held(y) => x = y
      BY <2>1, <3>1 DEF Memory
    <3> HIDE DEF Held
    <3> QED
      BY <3>1, <3>2, <3>3, <3>4, <3>5
  <2> HIDE DEF Inv
  <2> QED
    BY <2>3, AtMostOne
<1>2. Inv => CountsMatch
  BY DEF Inv, Core, StoreInv, Counted, CountsMatch
<1>3. ASSUME Inv
      PROVE  LinksResolve
  <2> SUFFICES ASSUME NEW r \in Requests, Linked(db, r), db.link[r].expires > now, Known(db, r),
                      ~db.req[r].deleting, ~db.conv[ConvOf(db, r)].deleting
               PROVE  Resolves(db, r, now)
    BY DEF LinksResolve
  <2>1. StoreInv(db, nextId, now)
    BY <1>3 DEF Inv, Core
  <2>2. /\ db.link[r].conv = ConvOf(db, r) /\ db.link[r].account = db.row[r].account
        /\ Stored(db, r) => db.req[r].account = db.row[r].account
    BY <2>1, OneName
  <2> QED
    BY <2>2 DEF Resolves, ConvOf
<1>4. Inv /\ Histories => HistoryIsWhole
  <2> SUFFICES ASSUME Inv, Histories, now < PayloadTTL, NEW r \in Requests, NEW q \in handler[r].missing
               PROVE  ~Known(db, q) /\ (Known(db, r) /\ ~Terminal(db, r) => Linked(db, q))
    BY DEF HistoryIsWhole
  <2>1. q \in InHand(r)
    BY DEF InHand
  <2>2. Known(db, r) /\ ~Terminal(db, r) => Tied(db, q, ConvOf(db, r))
    BY <2>1 DEF Histories
  <2>3. ~Known(db, q)
    BY DEF Histories
  <2> QED
    BY <2>2, <2>3 DEF Tied
<1>5. Inv => RetentionTypeOK
  BY DEF Inv
<1>6. Inv /\ Histories => ConversationsAgree
  BY <1>1, <1>2, <1>3, <1>4, <1>5 DEF ConversationsAgree
<1> QED
  BY <1>6, InvHolds, HistoriesHold, PTL

(* A close that reports no error has left nothing for startup, and what is *)
(* being deleted has ended, request by request, whatever began meanwhile   *)
(* (Close, pendingConversationJournalRequests).                            *)
THEOREM ClosesAndDeletionsWait == RetentionSpec => [](CleanCloseDrains /\ DeletingHasEnded)
<1>1. Inv => CleanCloseDrains
  BY DEF Inv, Core, Drained, CleanCloseDrains
<1>2. ASSUME Inv
      PROVE  DeletingHasEnded
  <2> SUFFICES ASSUME NEW c \in Requests, db.conv[c].deleting, NEW r \in Members(db, c)
               PROVE  Stored(db, r) /\ Terminal(db, r)
    BY DEF DeletingHasEnded
  <2>1. r \in Requests /\ Known(db, r) /\ ConvOf(db, r) = c
    BY MembersKnown
  <2>2. Terminal(db, r)
    BY <1>2, <2>1 DEF Inv, Core, StoreInv, Deleting
  <2>3. NoReq.status = "none" /\ "none" \notin Outcomes
    BY Kind DEF NoReq
  <2> QED
    BY <2>2, <2>3 DEF Terminal, Stored
<1> QED
  BY <1>1, <1>2, InvHolds, PTL

\* Neither a frame nor the binding of a session waits for replay.
Plain == \A m \in Pending(db) : m.kind # "frame" /\ (m.kind = "bound" => m.session = None)

(* So nothing ever stops replay, at startup or later, while no frame and   *)
(* no session is in the journal: all other records apply in the order they *)
(* were appended in, whatever was bound, ended, deleted or crashed between *)
(* (applyReceipt).                                                         *)
THEOREM ReplayStaysSafe == RetentionSpec => [](Plain => ReplayIsSafe)
<1>1. ASSUME Inv, Plain
      PROVE  NothingBlocksReplay
  <2> SUFFICES ASSUME NEW m \in Blocked
               PROVE  FALSE
    BY DEF NothingBlocksReplay
  <2>1. m \in Pending(db)
    BY DEF Blocked
  <2>2. Late(m) \/ TakenOver(m)
    BY <1>1, BlockedIs
  <2> QED
    BY <1>1, <2>1, <2>2 DEF Plain, Late, TakenOver
<1>2. Inv /\ CleanCloseDrains /\ DeletingHasEnded => (Plain => ReplayIsSafe)
  BY <1>1 DEF ReplayIsSafe
<1> QED
  BY <1>2, InvHolds, ClosesAndDeletionsWait, PTL

(* No step deletes a record of a request that has not ended: neither the   *)
(* journal nor the runner, whose sweeps and deletions come in between      *)
(* (deleteExpiredPayload, finalizeConversationDelete).                     *)
THEOREM RecordsStayWhileRunning == RetentionSpec => RunningKeepRecords
<1>1. Inv /\ [RetentionNext]_retentionVars =>
        [\A m \in db.log : ~Terminal(db, m.req) => m \in db'.log]_retentionVars
  <2> SUFFICES ASSUME Inv, RetentionNext
               PROVE  \A m \in db.log : ~Terminal(db, m.req) => m \in db'.log
    OBVIOUS
  <2>1. CASE JournalStep
    BY <2>1, JournalStepKeeps DEF Calm
  <2>2. CASE Retain
    BY <2>2, RetainKeeps DEF Clean
  <2> QED
    BY <2>1, <2>2 DEF RetentionNext
<1> QED
  BY <1>1, InvHolds, PTL DEF RetentionSpec, RunningKeepRecords

(* A session keeps its account until the affinity expires or the account   *)
(* has no conversation any more, whichever requests bind and replay beside *)
(* it (ensureSessionAffinity, finalizeConversationDelete).                 *)
THEOREM SessionsStay == RetentionSpec => SessionsAreSticky
<1> DEFINE Sticks == \A s \in Sessions :
                       LET old == db.affinity[s] IN
                       old.expires > now =>
                         \/ db.affinity'[s].account = old.account
                         \/ /\ db.affinity'[s] = NoAffinity
                            /\ \A c \in Requests : db.conv'[c].account # old.account
<1>1. Inv /\ [RetentionNext]_retentionVars => [Sticks]_vars
  <2> SUFFICES ASSUME Inv, [RetentionNext]_retentionVars
               PROVE  Sticks \/ vars' = vars
    OBVIOUS
  <2>1. CASE JournalStep
    BY <2>1, JournalStepKeeps DEF Calm
  <2>2. CASE Retain
    BY <2>2, RetainKeeps DEF Clean
  <2>3. CASE UNCHANGED retentionVars
    BY <2>3 DEF retentionVars
  <2> QED
    BY <2>1, <2>2, <2>3 DEF RetentionNext
<1> QED
  BY <1>1, InvHolds, PTL DEF RetentionSpec, SessionsAreSticky
=============================================================================
