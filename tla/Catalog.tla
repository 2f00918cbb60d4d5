------------------------------- MODULE Catalog -------------------------------
(***************************************************************************)
(* The model catalogs of the accounts: what a provider offers is listed,   *)
(* saved as a row, kept in the manager's state and given to the broker, in *)
(* that order; and the catalogs of several accounts are merged into the    *)
(* one the clients see.  A catalog offers one model, or none, and its tag  *)
(* stands for what it offers.                                              *)
(***************************************************************************)
EXTENDS Integers, FiniteSets, FiniteSetsExt, Sequences, SequencesExt

CONSTANTS
    Accounts,      \* the enabled accounts
    First,         \* the default account
    Offers,        \* what a provider may offer: models, see Merge
    Nothing,       \* no catalog, or no tag
    MaxChanges,    \* bound on the changes of the providers, on expiries and
    MaxRestarts    \* on restarts
Empty == {}        \* a catalog that lists no model
Catalogs == {{o} : o \in Offers} \cup {Empty}

VARIABLES
    provider,   \* what each account's provider offers now
    rows,       \* the saved catalogs
    states,     \* manager.states
    broker,     \* the catalog the broker selects by
    expired,    \* accounts whose catalog is older than its time to live
    work,       \* the refresh of each account: pc, and the answer it got
    answered,   \* the offer behind the last answer that was recorded
    manager,    \* "down", "starting", "serving", "closing" or "closed"
    broken,     \* operationalErr
    changes, restarts

vars == <<provider, rows, states, broker, expired, work, answered, manager, broken,
          changes, restarts>>

NoWork == [pc |-> "idle", catalog |-> Nothing]
At(pc, c) == [pc |-> pc, catalog |-> c]
Init ==
    /\ provider \in [Accounts -> Catalogs]
    /\ rows = [a \in Accounts |-> Nothing] /\ states = rows /\ broker = rows
    /\ expired = {} /\ work = [a \in Accounts |-> NoWork] /\ answered = rows
    /\ manager = "down" /\ broken = FALSE /\ changes = 0 /\ restarts = 0

Stays == UNCHANGED <<provider, changes, restarts>>
Working == {a \in Accounts : work[a].pc # "idle"}
Canceled == manager \in {"closing", "closed"}

-----------------------------------------------------------------------------
(* The manager                                                             *)

(* The saved catalogs are loaded, then every account is refreshed before   *)
(* anything is served.  A row that cannot be decoded is no row.            *)
Start ==
    /\ manager = "down" /\ manager' = "starting"
    /\ \E S \in SUBSET Accounts :
         states' = [a \in Accounts |-> IF a \in S THEN Nothing ELSE rows[a]]
    /\ broker' = states'
    /\ expired' = Accounts
    /\ work' = [a \in Accounts |-> At("ask", Nothing)]
    /\ UNCHANGED <<rows, answered, broken>> /\ Stays
(* An error of the first round keeps the service from starting.            *)
Serve ==
    /\ manager = "starting" /\ Working = {}
    /\ manager' = IF broken THEN "closed" ELSE "serving"
    /\ UNCHANGED <<rows, states, broker, expired, work, answered, broken>> /\ Stays
(* The loop waits for a round to end before it begins another.             *)
Tick ==
    /\ manager = "serving" /\ Working = {}
    /\ LET S == expired \cup {a \in Accounts : states[a] = Nothing} IN
       /\ S # {}
       /\ work' = [a \in Accounts |-> IF a \in S THEN At("ask", Nothing) ELSE NoWork]
    /\ UNCHANGED <<rows, states, broker, expired, answered, manager, broken>> /\ Stays
Close ==
    /\ manager \in {"starting", "serving"} /\ manager' = "closing"
    /\ UNCHANGED <<rows, states, broker, expired, work, answered, broken>> /\ Stays
CloseDone ==
    /\ manager = "closing" /\ Working = {} /\ manager' = "closed"
    /\ UNCHANGED <<rows, states, broker, expired, work, answered, broken>> /\ Stays

-----------------------------------------------------------------------------
(* refreshAccount                                                          *)

Set(a, w) == work' = [work EXCEPT ![a] = w]
Keep == UNCHANGED <<manager, expired>> /\ Stays
(* The provider answers that nothing changed since the tag, or what it     *)
(* offers, or fails; then the catalog from before stays.                   *)
Ask(a) ==
    /\ work[a].pc = "ask"
    /\ \/ ~Canceled /\ Set(a, At(IF states[a] = provider[a] THEN "touch" ELSE "save", provider[a]))
       \/ Set(a, NoWork)
    /\ UNCHANGED <<rows, states, broker, answered, broken>> /\ Keep
\* An error of the store is kept, unless the manager is closing.
Fails(a) == /\ Set(a, NoWork) /\ broken' = (broken \/ ~Canceled)
            /\ UNCHANGED <<rows, answered>>
(* Touch renews the row of the catalog, which must be there.               *)
Touch(a) ==
    /\ work[a].pc = "touch"
    /\ \/ /\ rows[a] # Nothing
          /\ answered' = [answered EXCEPT ![a] = work[a].catalog]
          /\ Set(a, At("renew", work[a].catalog)) /\ UNCHANGED <<rows, broken>>
       \/ Fails(a)
    /\ UNCHANGED <<states, broker>> /\ Keep
Renew(a) ==
    /\ work[a].pc = "renew" /\ Set(a, NoWork) /\ expired' = expired \ {a}
    /\ UNCHANGED <<rows, states, broker, answered, manager, broken>> /\ Stays
Save(a) ==
    /\ work[a].pc = "save"
    /\ \/ /\ rows' = [rows EXCEPT ![a] = work[a].catalog]
          /\ answered' = [answered EXCEPT ![a] = work[a].catalog]
          /\ Set(a, At("keep", work[a].catalog)) /\ UNCHANGED broken
       \/ Fails(a)
    /\ UNCHANGED <<states, broker>> /\ Keep
KeepState(a) ==
    /\ work[a].pc = "keep" /\ Set(a, At("tell", work[a].catalog))
    /\ states' = [states EXCEPT ![a] = work[a].catalog] /\ expired' = expired \ {a}
    /\ UNCHANGED <<rows, broker, answered, manager, broken>> /\ Stays
TellBroker(a) ==
    /\ work[a].pc = "tell" /\ Set(a, NoWork)
    /\ broker' = [broker EXCEPT ![a] = work[a].catalog]
    /\ UNCHANGED <<rows, states, answered, broken>> /\ Keep
Refresh(a) == Ask(a) \/ Touch(a) \/ Renew(a) \/ Save(a) \/ KeepState(a) \/ TellBroker(a)

-----------------------------------------------------------------------------
(* What the clients see                                                    *)

(* A model: a flag of what it supports, a limit (0: unknown), the efforts  *)
(* it takes, one capability, what it shows (its name, its description, its *)
(* source and whether it is listed), and anything else it says.  A         *)
(* capability is absent, a flag, a number or a list; its value is a set,   *)
(* {1} of a flag that is true and {n} of a number.                         *)
Absent == [type |-> "absent", value |-> {}]
True == {1}
False == {}
All(models, P(_)) == \A m \in ToSet(models) : P(m)
\* minimumPositiveInt64: one that is unknown makes the least unknown.
\* seeded fault
LeastKnown(S) == IF S \ {0} = {} THEN 0 ELSE Min(S \ {0})
Least(S) == IF 0 \in S THEN 0 ELSE Min(S)
Common(sets) == {x \in UNION sets : \A s \in sets : x \in s}
(* The type of the first decides; where it is a flag, the first of the     *)
(* others that is no flag, or false, ends the comparison.                  *)
MergeCapability(values) ==
    LET S == ToSet(values)
        type == Head(values).type
        mixed == \E v \in S : v.type # type
        others == Tail(values)
        stop == SelectInSeq(others, LAMBDA v : v.type # "flag" \/ v.value = False)
    IN CASE Absent \in S -> Absent
         [] Absent \notin S /\ type = "flag" ->
              IF stop = 0 THEN Head(values)
              ELSE IF others[stop].type = "flag" THEN others[stop] ELSE Absent
         [] Absent \notin S /\ type # "flag" /\ mixed -> Absent
         [] Absent \notin S /\ type = "number" /\ ~mixed ->
              [type |-> type, value |-> {Min(UNION {v.value : v \in S})}]
         [] Absent \notin S /\ type = "list" /\ ~mixed ->
              [type |-> type, value |-> Common({v.value : v \in S})]
IsCapability(c) ==
    \/ c = Absent \/ c \in {[type |-> "flag", value |-> v] : v \in {True, False}}
    \/ c.type = "number" /\ \E n \in c.value : n \in Int /\ c = [type |-> "number", value |-> {n}]
    \/ c.type = "list" /\ c = [type |-> "list", value |-> c.value]
IsModel(m) == m.flag \in BOOLEAN /\ m.limit \in Nat /\ IsCapability(m.capability)
CatalogAssumption ==
    IsFiniteSet(Accounts) /\ Nothing \notin Catalogs /\ \A o \in Offers : IsModel(o)
\* What is shown is the first account's, though others show something else.
Merge(models) ==
    [flag |-> All(models, LAMBDA m : m.flag),
     limit |-> Least({m.limit : m \in ToSet(models)}),
     efforts |-> Common({m.efforts : m \in ToSet(models)}),
     capability |-> MergeCapability([i \in DOMAIN models |-> models[i].capability]),
     shown |-> Head(models).shown,
     other |-> IF All(models, LAMBDA m : m.other = Head(models).other)
               THEN Head(models).other ELSE Nothing]

(* PublicModels: the catalogs of the accounts that have one, the default   *)
(* account's first.                                                        *)
Listing == {a \in Accounts : broker[a] # Nothing /\ states[a] \notin {Nothing, Empty}}
InOrder(S) == IF First \in S THEN <<First>> \o SetToSeq(S \ {First}) ELSE SetToSeq(S)
Offered(a) == CHOOSE m \in states[a] : TRUE
PublicModels ==
    IF Listing = {} THEN {}
    ELSE {Merge([i \in 1..Cardinality(Listing) |-> Offered(InOrder(Listing)[i])])}

-----------------------------------------------------------------------------
(* Everything else                                                         *)
ManagerStays == UNCHANGED <<rows, states, broker, work, answered, manager, broken, restarts>>
ProviderChanges(a) ==
    /\ changes < MaxChanges /\ changes' = changes + 1
    /\ \E c \in Catalogs \ {provider[a]} : provider' = [provider EXCEPT ![a] = c]
    /\ ManagerStays /\ UNCHANGED expired
Expires(a) ==
    /\ a \notin expired /\ states[a] # Nothing /\ changes < MaxChanges /\ changes' = changes + 1
    /\ expired' = expired \cup {a}
    /\ ManagerStays /\ UNCHANGED provider
Restart ==
    /\ restarts < MaxRestarts /\ restarts' = restarts + 1
    /\ manager' = "down" /\ broken' = FALSE
    /\ states' = [a \in Accounts |-> Nothing] /\ broker' = states'
    /\ work' = [a \in Accounts |-> NoWork]
    /\ UNCHANGED <<rows, expired, answered, provider, changes>>

Next ==
    \/ Start \/ Serve \/ Tick \/ Close \/ CloseDone \/ Restart
    \/ \E a \in Accounts : Refresh(a) \/ ProviderChanges(a) \/ Expires(a)
Spec == Init /\ [][Next]_vars
-----------------------------------------------------------------------------
(* Properties                                                              *)

(* While no refresh of it is under way, the catalog the clients see, the   *)
(* one the broker selects by and the saved one are the same, and are what  *)
(* the provider offered with the last answer that was recorded.            *)
CatalogsAgree ==
    \A a \in Accounts : work[a].pc = "idle" /\ states[a] # Nothing =>
        states[a] = broker[a] /\ states[a] = rows[a] /\ states[a] = answered[a]

(* What a client is told of a model holds on every account that may serve  *)
(* it; only what is shown is that of one account, the default one if it    *)
(* may serve the model.                                                    *)
Holds(p, m) ==
    /\ p.flag => m.flag
    /\ p.limit = 0 \/ (m.limit # 0 /\ p.limit <= m.limit)
    /\ p.efforts \subseteq m.efforts
    /\ p.other \in {m.other, Nothing}
    /\ p.capability # Absent =>
         /\ m.capability # Absent
         /\ p.capability = [type |-> "flag", value |-> True] => m.capability = p.capability
         /\ p.capability.type = "number" => Max(p.capability.value) <= Max(m.capability.value)
         /\ p.capability.type = "list" => p.capability.value \subseteq m.capability.value
ShownBy(p, a) == p.shown = Offered(a).shown
MergedHolds ==
    \A p \in PublicModels :
        /\ \A a \in Listing : Holds(p, Offered(a))
        /\ \E a \in Listing : ShownBy(p, a) /\ (First \in Listing => a = First)
CatalogsHold == CatalogsAgree /\ MergedHolds
=============================================================================
