------------------------------ MODULE Listing --------------------------------
(***************************************************************************)
(* The lists of the administration: API keys, requests and conversations,  *)
(* newest first, a page at a time.  A cursor names the last row of a page; *)
(* rows are inserted, changed and removed between two pages, and several   *)
(* rows may have the same time.  Identifiers are random, so any free one   *)
(* may be the next; they are compared as the numbers that stand for them.  *)
(***************************************************************************)
EXTENDS Integers, Sequences, FiniteSets, Functions

CONSTANTS Rows,      \* identifiers, a set of numbers
          Limit,     \* rows of a page
          MaxTime, MaxChanges

\* Identifiers are compared, and a page has a row (parseAdminAPIKeyListFilter).
ListingAssumption == IsFiniteSet(Rows) /\ Rows \subseteq Nat /\ Limit \in Nat \ {0} /\ MaxTime \in Nat

VARIABLES now, table, rows, walk, changes
vars == <<now, table, rows, walk, changes>>

Lists == {"keys", "requests", "conversations"}
Start == [at |-> MaxTime + 1, id |-> 0]
NoWalk == [pc |-> "idle", filter |-> "all", cursor |-> Start, got |-> <<>>, due |-> {}]

Init ==
    /\ now = 0 /\ table \in Lists /\ changes = 0
    /\ rows = [r \in Rows |-> [state |-> "free", at |-> 0, set |-> FALSE]]
    /\ walk = NoWalk

\* set: a key is disabled (or revoked), a request or a conversation is being
\* deleted, a conversation has a request in the wanted state.
Matches(r, filter, state) ==
    state[r].state = "there" /\ CASE filter = "all" -> TRUE
                                  [] filter = "set" -> state[r].set
                                  [] filter = "unset" -> ~state[r].set

(* The order of a list, and the rows a cursor leaves. *)
Newer(a, b) == rows[a].at > rows[b].at \/ (rows[a].at = rows[b].at /\ a > b)
\* seeded fault
AfterTime(r, cursor) == rows[r].at < cursor.at
After(r, cursor) == rows[r].at < cursor.at \/ (rows[r].at = cursor.at /\ r < cursor.id)

-----------------------------------------------------------------------------
(* Writers.  The time of a row is read before its insertion waits for the  *)
(* database; a change may make a row match a filter, or no longer.         *)
Writes(state) ==
    /\ changes < MaxChanges /\ changes' = changes + 1 /\ rows' = state
    /\ walk' = [walk EXCEPT !.due = {r \in @ : Matches(r, walk.filter, state)}]
    /\ UNCHANGED <<now, table>>
Stamp(r) == rows[r].state = "free" /\ Writes([rows EXCEPT ![r].state = "stamped", ![r].at = now])
Insert(r) == rows[r].state = "stamped" /\ Writes([rows EXCEPT ![r].state = "there"])
Change(r) == rows[r].state = "there" /\ Writes([rows EXCEPT ![r].set = ~@])
\* Keys are never removed; retention removes requests and conversations.
Erase(r) == table # "keys" /\ rows[r].state = "there" /\ Writes([rows EXCEPT ![r].state = "gone"])
Tick == now < MaxTime /\ now' = now + 1 /\ UNCHANGED <<table, rows, walk, changes>>

-----------------------------------------------------------------------------
(* One more row than a page holds is asked for: if it is there, the last   *)
(* row of the page is the cursor of the next.                              *)
Begin ==
    /\ walk.pc = "idle"
    /\ \E filter \in {"all", "set", "unset"} :
         walk' = [NoWalk EXCEPT !.pc = "walking", !.filter = filter,
                                !.due = {r \in Rows : Matches(r, filter, rows)}]
    /\ UNCHANGED <<now, table, rows, changes>>
InOrder(S) == CHOOSE s \in [1..Cardinality(S) -> S] : \A i, j \in DOMAIN s : i < j => Newer(s[i], s[j])
Found == InOrder({r \in Rows : Matches(r, walk.filter, rows) /\ After(r, walk.cursor)})
trimPage(found) ==
    IF Len(found) <= Limit
    THEN [walk EXCEPT !.pc = "done", !.got = @ \o found]
    ELSE [walk EXCEPT !.cursor = [at |-> rows[found[Limit]].at, id |-> found[Limit]],
                      !.got = @ \o SubSeq(found, 1, Limit)]
Page == walk.pc = "walking" /\ walk' = trimPage(Found) /\ UNCHANGED <<now, table, rows, changes>>

ListKeys == table = "keys" /\ Page
ListRequests == table = "requests" /\ Page
ListConversations == table = "conversations" /\ Page

Next == \/ Tick \/ Begin \/ ListKeys \/ ListRequests \/ ListConversations
        \/ \E r \in Rows : Stamp(r) \/ Insert(r) \/ Change(r) \/ Erase(r)
Spec == Init /\ [][Next]_vars

(* A walk through the pages shows every row that matched from its first    *)
(* page to its last, and no row twice, whatever was inserted, changed or   *)
(* removed between the pages (listAdminAPIKeys, listAdminRequests,         *)
(* listAdminConversations).                                                *)
WalksAreComplete ==
    /\ IsInjective(walk.got)
    /\ walk.pc = "done" => walk.due \subseteq Range(walk.got)
=============================================================================
