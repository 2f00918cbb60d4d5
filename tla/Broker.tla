------------------------------- MODULE Broker -------------------------------
(***************************************************************************)
(* How a request finds its account: what makes an account usable, the     *)
(* account a request insists on, and the selectors that choose one when it *)
(* insists on none.  The availability of every account is copied under the *)
(* broker's lock and the choice is made from the copy.                     *)
(***************************************************************************)
EXTENDS Integers, Sequences, SequencesExt, FiniteSets, FiniteSetsExt

CONSTANTS
    Accounts,
    Order,      \* the accounts in the order of their identifiers
    Default,    \* the default profile
    None,       \* no account
    Selector    \* "single" or "rotating"

ASSUME BrokerAssumption ==
    /\ None \notin Accounts /\ Default \in Accounts
    /\ Order \in [1..Cardinality(Accounts) -> Accounts]
    /\ ToSet(Order) = Accounts
    /\ Selector \in {"single", "rotating"}

MaybeAccount == Accounts \cup {None}

(* A credential that is being refreshed, has expired or failed for a       *)
(* moment is still worth a request: the refresher will renew it.           *)
CredentialUsable(c) ==
    c.state \in {"expired", "refreshing", "transient"} \/ c.available

Usable(p) ==
    /\ p.enabled /\ ~p.cooling /\ CredentialUsable(p.credential)
    /\ p.catalog # "loading" /\ (p.catalog = "loaded" => p.lists)

(* The account a request insists on: the caller's, or its hint.  The hint  *)
(* of a continuation stands even when that account is not usable.          *)
\* seeded fault
HintOnly(forced, hint, continues, seen) == IF hint \in seen THEN hint ELSE None
Insists(forced, hint, continues, seen) ==
    CASE forced # None -> forced
      [] forced = None /\ hint # None /\ (continues \/ hint \in seen) -> hint
      [] OTHER -> None

(* The accounts the selector may return: the counter of the rotating ones  *)
(* is shared with every other request.                                     *)
Eligible(seen) == SelectSeq(Order, LAMBDA a : a \in seen)
Pick(seen, counter) == LET e == Eligible(seen) IN e[(counter % Len(e)) + 1]
Candidates(seen) ==
    IF Selector = "single" THEN {Default} \cap seen
    ELSE {Pick(seen, n) : n \in 0..Cardinality(seen) - 1}
=============================================================================
