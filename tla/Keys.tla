-------------------------------- MODULE Keys ---------------------------------
(***************************************************************************)
(* API keys: issued by the administration or by the command line, changed  *)
(* and revoked by administrators, and used by callers.  A caller is        *)
(* authenticated when it connects and authorized, by a transaction of its  *)
(* own, for every request; on a WebSocket long after and more than once.   *)
(***************************************************************************)
EXTENDS Integers, FiniteSets

CONSTANTS Keys, Callers, Admins, Models,
          MaxTime, MaxChanges, MaxRequests  \* bounds on the clock, the changes, the requests

VARIABLES now, keys, call, changes, requests
vars == <<now, keys, call, changes, requests>>

Nobody == "nobody"
Never == MaxTime + 1
NoKey == [made |-> FALSE, models |-> {}, expires |-> Never, disabled |-> FALSE,
          revoked |-> Nobody, used |-> -1]
Policies == [models : SUBSET Models, expires : (1..MaxTime) \cup {Never}]
NoCall == [pc |-> "idle", key |-> Nobody, model |-> Nobody, policy |-> NoKey]

Init == /\ now = 0 /\ changes = 0 /\ requests = 0
        /\ keys = [k \in Keys |-> NoKey] /\ call = [c \in Callers |-> NoCall]

(* RevokedAt, DisabledAt and ExpiresAt of a record; its policy.            *)
Live(key) == key.made /\ key.revoked = Nobody /\ ~key.disabled /\ now < key.expires
Allows(key, model) == model \in key.models

-----------------------------------------------------------------------------
(* Administrators: each change is one transaction, with its audit record,  *)
(* which is not modelled.                                                  *)
Changes(k, key) == /\ changes < MaxChanges /\ changes' = changes + 1
                   /\ keys' = [keys EXCEPT ![k] = key]
                   /\ UNCHANGED <<now, call, requests>>
WithPolicy(key, p) == [key EXCEPT !.models = p.models, !.expires = p.expires]
CreateTx(k, p) == ~keys[k].made /\ now < p.expires /\ Changes(k, [WithPolicy(NoKey, p) EXCEPT !.made = TRUE])
\* By an administrator, or by the command line.
Issue(k) == \E p \in Policies : CreateTx(k, p)
\* A revoked or expired key may be changed too; its revocation stays.
Patch(k) ==
    /\ keys[k].made
    /\ \E p \in Policies, disabled \in BOOLEAN :
         \E key \in {keys[k], WithPolicy(keys[k], p)} : Changes(k, [key EXCEPT !.disabled = disabled])
Revoked(a, key) == IF key.revoked = Nobody THEN [key EXCEPT !.revoked = a] ELSE key
Revoke(a, k) == keys[k].made /\ Changes(k, Revoked(a, keys[k]))

-----------------------------------------------------------------------------
(* Callers                                                                 *)
CallStays == UNCHANGED <<now, changes>>
Authenticate(c, k) ==
    /\ call[c].pc = "idle" /\ Live(keys[k])
    /\ call' = [call EXCEPT ![c] = [NoCall EXCEPT !.pc = "known", !.key = k, !.policy = keys[k]]]
    /\ UNCHANGED <<keys, requests>> /\ CallStays
Request(c) ==
    /\ call[c].pc \in {"known", "served"} /\ requests < MaxRequests /\ requests' = requests + 1
    /\ \E model \in Models : call' = [call EXCEPT ![c].pc = "ask", ![c].model = model]
    /\ UNCHANGED keys /\ CallStays
Granted(c) == LET key == keys[call[c].key] IN Live(key) /\ Allows(key, call[c].model)
(* The record is read again, its policy replaces the caller's, and its     *)
(* last use is stored with the decision.                                   *)
AuthorizePrincipal(c) ==
    /\ call[c].pc = "ask"
    /\ IF Granted(c)
       THEN /\ call' = [call EXCEPT ![c].pc = "served", ![c].policy = keys[call[c].key]]
            /\ keys' = [keys EXCEPT ![call[c].key].used = IF @ < now THEN now ELSE @]
       ELSE call' = [call EXCEPT ![c].pc = "known"] /\ UNCHANGED keys
    /\ UNCHANGED requests /\ CallStays
Disconnect(c) == /\ call[c].pc \in {"known", "served"} /\ call' = [call EXCEPT ![c] = NoCall]
                 /\ UNCHANGED <<keys, requests>> /\ CallStays
Tick == now < MaxTime /\ now' = now + 1 /\ UNCHANGED <<keys, call, changes, requests>>

Next == \/ Tick
        \/ \E k \in Keys : Issue(k) \/ Patch(k) \/ \E a \in Admins : Revoke(a, k)
        \/ \E c \in Callers : \/ \E k \in Keys : Authenticate(c, k)
                              \/ Request(c) \/ AuthorizePrincipal(c) \/ Disconnect(c)
Spec == Init /\ [][Next]_vars

(* However long ago a caller was authenticated and whatever was changed in *)
(* between, a request is granted by the policy of its key as it is then;   *)
(* and the first revocation of a key is its last (AuthorizePrincipal,      *)
(* Revoke, Patch).                                                         *)
Grants(c) == call[c].pc # "served" /\ call'[c].pc = "served"
Obeys ==
    /\ \A c \in Callers : Grants(c) =>
         LET key == keys'[call[c].key] IN
         /\ key.revoked = Nobody /\ ~key.disabled /\ now < key.expires
         /\ call[c].model \in key.models
    /\ \A k \in Keys : keys[k].revoked # Nobody => keys'[k].revoked = keys[k].revoked
AuthorityIsCurrent == [][Obeys]_vars
=============================================================================
