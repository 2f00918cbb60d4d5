------------------------------- MODULE Access --------------------------------
(***************************************************************************)
(* Who may use the administration: stored tokens, the nonces of the login  *)
(* page, and the sessions of the browsers.  Every operation is a few       *)
(* transactions, one after the other, and the clock is read before a       *)
(* transaction waits for the only connection of the database: op[c].at is  *)
(* the time a client's next transaction works with.  The retention runner  *)
(* deletes what is over: audit records, sessions and nonces.               *)
(***************************************************************************)
EXTENDS Integers, FiniteSets, FiniteSetsExt

CONSTANTS
    Clients,       \* browsers and programs, each with one request at a time
    Tokens, First, \* identifiers of tokens; the one configured as bootstrap token
    Sessions, Nonces,
    NonceCap,                       \* adminLoginNonceMaxOutstanding
    NonceTTL, IdleTTL, SessionTTL,
    AuditTTL,                       \* adminAuditTTL, seven days
    MaxTime, MaxStarts, MaxRequests \* bounds on the clock, the starts and the requests

\* Lifetimes are not negative, and a token is configured.
AccessAssumption ==
    /\ {NonceTTL, IdleTTL, SessionTTL, AuditTTL, NonceCap, MaxTime} \subseteq Nat
    /\ First \in Tokens /\ IsFiniteSet(Nonces)

VARIABLES
    now,
    tokens,    \* admin_tokens
    sessions,  \* admin_sessions
    nonces,    \* admin_login_nonces
    op,        \* the request of each client: what it does next, for whom
    cookie,    \* the session cookie of each client
    audit,     \* the audit records
    past,      \* history: the audit records of logins that were swept
    listed,    \* the sessions the runner has listed and not yet deleted
    starts, requests

bounds == <<starts, requests>>
sweep == <<past, listed>>
vars == <<now, tokens, sessions, nonces, op, cookie, audit, sweep, bounds>>

Nobody == "none"
Never == MaxTime + 1
Scopes == {"metadata", "content"}
NoToken == [made |-> FALSE, created |-> 0, revoked |-> FALSE, revokedAt |-> 0,
            expires |-> Never, scopes |-> {}]
Absent == [state |-> "free", token |-> Nobody, expires |-> 0, idle |-> 0]
Idle == [do |-> "idle", token |-> Nobody, session |-> Nobody, nonce |-> Nobody, at |-> 0]
Record(action, by, target, at) ==
    [action |-> action, by |-> by, target |-> target, nonce |-> Nobody, expires |-> at + AuditTTL]

Init ==
    /\ now = 0 /\ starts = 0 /\ requests = 0
    /\ tokens = [t \in Tokens |-> NoToken]
    /\ sessions = [s \in Sessions |-> Absent]
    /\ nonces = [n \in Nonces |-> [state |-> "free", expires |-> 0]]
    /\ op = [c \in Clients |-> Idle] /\ cookie = [c \in Clients |-> Nobody]
    /\ audit = {} /\ past = {} /\ listed = {}

Live(t, at) == tokens[t].made /\ ~tokens[t].revoked /\ at < tokens[t].expires
availableForAuth == \E t \in Tokens : Live(t, now)
\* Client c goes on, at the present time, with step do of request f.
Goes(c, do, f) == op' = [op EXCEPT ![c] = [f EXCEPT !.do = do, !.at = now]]
Ends(c) == op' = [op EXCEPT ![c] = Idle]
Tables == <<tokens, sessions, nonces, audit, sweep>>

-----------------------------------------------------------------------------
(* A start ends every request and stores the bootstrap token if no token   *)
(* was ever stored; failing to do so is only logged.                       *)
MayMaterialize == \A t \in Tokens : ~tokens[t].made
MaterializeBootstrap ==
    \/ /\ MayMaterialize
       /\ tokens' = [tokens EXCEPT ![First] = [@ EXCEPT !.made = TRUE, !.created = now, !.scopes = Scopes]]
       /\ audit' = audit \cup {Record("bootstrap", "bootstrap", First, now)}
    \/ UNCHANGED <<tokens, audit>>
Start ==
    /\ starts < MaxStarts /\ starts' = starts + 1
    /\ op' = [c \in Clients |-> Idle]
    /\ MaterializeBootstrap /\ listed' = {}
    /\ UNCHANGED <<now, sessions, nonces, cookie, past, requests>>
Tick == now < MaxTime /\ now' = now + 1
        /\ UNCHANGED <<tokens, sessions, nonces, op, cookie, audit, sweep, bounds>>
\* A request that fails leaves its transaction without effect.
Fail(c) == op[c].do # "idle" /\ Ends(c) /\ UNCHANGED <<now, cookie, bounds>> /\ UNCHANGED Tables

-----------------------------------------------------------------------------
(* Requests begin.                                                         *)
Begin(c) ==
    /\ op[c].do = "idle" /\ starts > 0 /\ requests < MaxRequests /\ requests' = requests + 1
    /\ \/ Goes(c, "page", Idle)
       \/ \E n \in Nonces, t \in Tokens :
            /\ nonces[n].state # "free" /\ tokens[t].made
            /\ Goes(c, "consume", [Idle EXCEPT !.nonce = n, !.token = t])
       \/ /\ cookie[c] # Nobody /\ availableForAuth
          /\ Goes(c, "session", [Idle EXCEPT !.session = cookie[c]])
       \/ \E t \in Tokens : /\ Live(t, now)
                            /\ Goes(c, "authorize", [Idle EXCEPT !.token = t])
    /\ UNCHANGED <<now, cookie, starts>> /\ UNCHANGED Tables

(* The login page: spent nonces are removed, and a new one is stored while *)
(* fewer than the cap are outstanding.                                     *)
Spent(n, at) == nonces[n].state = "used" \/ (nonces[n].state = "out" /\ nonces[n].expires <= at)
Outstanding(at) == {n \in Nonces : nonces[n].state = "out" /\ nonces[n].expires > at}
NonceRoom(at) == Cardinality(Outstanding(at)) < NonceCap
CreateLoginNonce(c) ==
    LET at == op[c].at
        pruned == [n \in Nonces |-> IF Spent(n, at) THEN [nonces[n] EXCEPT !.state = "gone"] ELSE nonces[n]]
    IN  /\ op[c].do = "page" /\ NonceRoom(at)
        /\ \E n \in Nonces : /\ nonces[n].state = "free"
                             /\ nonces' = [pruned EXCEPT ![n] = [state |-> "out", expires |-> at + NonceTTL]]
        /\ Ends(c) /\ UNCHANGED <<now, tokens, sessions, cookie, audit, sweep, bounds>>

(* The login form. *)
\* seeded fault
UsableNonceTwice(n, at) == nonces[n].state \in {"out", "used"} /\ at < nonces[n].expires
UsableNonce(n, at) == nonces[n].state = "out" /\ at < nonces[n].expires
ConsumeLoginNonce(c) ==
    LET f == op[c] IN
    /\ f.do = "consume" /\ UsableNonce(f.nonce, f.at)
    /\ nonces' = [nonces EXCEPT ![f.nonce].state = "used"]
    /\ Goes(c, "check", f) /\ UNCHANGED <<now, tokens, sessions, cookie, audit, sweep, bounds>>
\* Authenticate reads the token and then the clock; a session the browser
\* has is ended first, if it still authenticates; if it does not, or the
\* attempt fails, the login goes on and leaves it as it is.
CheckToken(c) ==
    /\ op[c].do = "check" /\ Live(op[c].token, now)
    /\ IF cookie[c] = Nobody THEN Goes(c, "login", op[c])
       ELSE Goes(c, "old", [op[c] EXCEPT !.session = cookie[c]])
    /\ UNCHANGED <<now, cookie, bounds>> /\ UNCHANGED Tables
Usable(s, at) == /\ sessions[s].state = "live" /\ at < sessions[s].expires /\ at < sessions[s].idle
                 /\ Live(sessions[s].token, at)
extended(s, at) == Min({sessions[s].expires, Max({sessions[s].idle, at + IdleTTL})})
Touch(s, at) == sessions' = [sessions EXCEPT ![s].idle = extended(s, at)]
ReplaceSession(c) ==
    LET f == op[c] IN
    \/ /\ f.do = "old"
       /\ \/ Usable(f.session, f.at) /\ Touch(f.session, f.at) /\ Goes(c, "revoke", f)
          \/ UNCHANGED sessions /\ Goes(c, "login", f)
       /\ UNCHANGED <<now, tokens, nonces, cookie, audit, sweep, bounds>>
    \/ /\ f.do = "revoke"
       /\ sessions' = [sessions EXCEPT ![f.session] = [Absent EXCEPT !.state = "gone"]]
       /\ Goes(c, "login", f) /\ UNCHANGED <<now, tokens, nonces, cookie, audit, sweep, bounds>>
CreateSession(c) ==
    LET f == op[c] IN
    /\ f.do = "login" /\ Live(f.token, f.at)
    /\ \E s \in Sessions :
         /\ sessions[s].state = "free"
         /\ sessions' = [sessions EXCEPT ![s] =
               [state |-> "live", token |-> f.token, expires |-> f.at + SessionTTL,
                idle |-> Min({f.at + IdleTTL, f.at + SessionTTL})]]
         /\ audit' = audit \cup {[Record("login", f.token, s, f.at) EXCEPT !.nonce = f.nonce]}
         /\ cookie' = [cookie EXCEPT ![c] = s]
    /\ Ends(c) /\ UNCHANGED <<now, tokens, nonces, sweep, bounds>>

-----------------------------------------------------------------------------
(* Requests to the API, by a session or by a token, and the logout, which  *)
(* is not authorized for a scope.                                          *)
AuthenticateSession(c) ==
    LET f == op[c] IN
    /\ f.do = "session" /\ Usable(f.session, f.at) /\ Touch(f.session, f.at)
    /\ \/ Goes(c, "authorize", [f EXCEPT !.token = sessions[f.session].token])
       \/ Goes(c, "logout", [f EXCEPT !.token = sessions[f.session].token])
    /\ UNCHANGED <<now, tokens, nonces, cookie, audit, sweep, bounds>>
\* The scope is in the authenticated principal, the rest is looked up again.
\* seeded fault
StillLiveOnce(t, at) == tokens[t].made
StillLive(t, at) == Live(t, at)
Authorize(c) ==
    LET f == op[c] IN
    /\ f.do = "authorize" /\ "metadata" \in tokens[f.token].scopes /\ StillLive(f.token, f.at)
    /\ Goes(c, "run", f) /\ UNCHANGED <<now, cookie, bounds>> /\ UNCHANGED Tables
LogoutSession(c) ==
    LET f == op[c] IN
    /\ f.do = "logout" /\ sessions[f.session].state = "live"
    /\ sessions' = [sessions EXCEPT ![f.session] = [Absent EXCEPT !.state = "gone"]]
    /\ audit' = audit \cup {Record("logout", f.token, f.session, f.at)}
    /\ cookie' = [cookie EXCEPT ![c] = Nobody]
    /\ Ends(c) /\ UNCHANGED <<now, tokens, nonces, sweep, bounds>>
CreateToken(c) ==
    LET f == op[c] IN
    /\ f.do = "run" /\ availableForAuth
    /\ \E t \in Tokens \ {First}, scopes \in {Scopes, {"content"}}, expires \in {f.at + 1, Never} :
         /\ ~tokens[t].made
         /\ tokens' = [tokens EXCEPT ![t] = [NoToken EXCEPT !.made = TRUE, !.created = f.at,
                                             !.expires = expires, !.scopes = scopes]]
         /\ audit' = audit \cup {Record("create", f.token, t, f.at)}
    /\ Ends(c) /\ UNCHANGED <<now, sessions, nonces, cookie, sweep, bounds>>
RevokeToken(c) ==
    LET f == op[c] IN
    /\ f.do = "run" /\ availableForAuth
    /\ \E t \in Tokens : /\ tokens[t].made
                         /\ tokens' = [tokens EXCEPT ![t].revoked = TRUE,
                                         ![t].revokedAt = IF tokens[t].revoked THEN @ ELSE now]
                         /\ audit' = audit \cup {Record("revoke", f.token, t, now)}
    /\ Ends(c) /\ UNCHANGED <<now, sessions, nonces, cookie, sweep, bounds>>

-----------------------------------------------------------------------------
(* The retention runner, row by row: an audit record is deleted if it is   *)
(* over, a session if it was when the sessions were listed.                *)
SweepAudit(a) ==
    /\ a.expires <= now
    /\ audit' = audit \ {a}
    /\ past' = past \cup {b \in {a} : b.action = "login"}
    /\ UNCHANGED <<now, tokens, sessions, nonces, op, cookie, listed, bounds>>
Over == {s \in Sessions : sessions[s].state = "live" /\ (sessions[s].expires <= now \/ sessions[s].idle <= now)}
ListSessions ==
    /\ listed = {} /\ \E S \in SUBSET Over : S # {} /\ listed' = S
    /\ UNCHANGED <<now, tokens, sessions, nonces, op, cookie, audit, past, bounds>>
SweepSession(s) ==
    /\ sessions' = [sessions EXCEPT ![s] = [Absent EXCEPT !.state = "gone"]]
    /\ listed' = listed \ {s}
    /\ UNCHANGED <<now, tokens, nonces, op, cookie, audit, past, bounds>>
SweepNonce(n) ==
    /\ Spent(n, now) /\ nonces' = [nonces EXCEPT ![n].state = "gone"]
    /\ UNCHANGED <<now, tokens, sessions, op, cookie, audit, sweep, bounds>>
Sweep ==
    \/ \E a \in audit : SweepAudit(a)
    \/ ListSessions \/ \E s \in listed : SweepSession(s)
    \/ \E n \in Nonces : SweepNonce(n)

Next ==
    \/ Start \/ Tick \/ Sweep
    \/ \E c \in Clients :
         \/ Fail(c) \/ Begin(c) \/ CreateLoginNonce(c) \/ ConsumeLoginNonce(c) \/ CheckToken(c)
         \/ ReplaceSession(c) \/ CreateSession(c) \/ AuthenticateSession(c) \/ Authorize(c)
         \/ LogoutSession(c) \/ CreateToken(c) \/ RevokeToken(c)
Spec == Init /\ [][Next]_vars

-----------------------------------------------------------------------------
(* Properties                                                              *)

(* A nonce of the login page, however often and from wherever its form is  *)
(* sent, logs in once (ConsumeLoginNonce), also when the audit of the      *)
(* login is long gone; and never more of them are open than the cap,       *)
(* although the clock of a waiting transaction is old.                     *)
Logins == {a \in audit \cup past : a.action = "login"}
NoncesAreSpent ==
    /\ \A a, b \in Logins : a.nonce = b.nonce => a = b
    /\ Cardinality(Outstanding(now)) <= NonceCap
(* Use prolongs a session neither beyond its end nor beyond the idle time  *)
(* from now (AuthenticateSession).                                         *)
SessionsAreBounded ==
    \A s \in Sessions : sessions[s].state = "live" =>
        /\ sessions[s].idle <= sessions[s].expires /\ sessions[s].idle <= now + IdleTTL
(* For as long as audits are kept, the administration tells where a token  *)
(* came from: the one bootstrap, or an audited creation by a token that    *)
(* was there before; and a revocation is audited with it.                  *)
Kept(at) == now < at + AuditTTL
TokensAreAccountedFor ==
    /\ \A t \in Tokens : tokens[t].made /\ Kept(tokens[t].created) =>
         \E a \in audit : /\ a.target = t
                          /\ IF t = First THEN a.action = "bootstrap"
                             ELSE a.action = "create" /\ tokens[a.by].made
    /\ \A t \in Tokens : tokens[t].revoked /\ Kept(tokens[t].revokedAt) =>
         \E a \in audit : a.target = t /\ a.action = "revoke" /\ tokens[a.by].made
AccessIsAccountedFor == NoncesAreSpent /\ SessionsAreBounded /\ TokensAreAccountedFor

(* A request that was authenticated before its token was revoked does not  *)
(* get past the authorization after it, whether it came by the token or by *)
(* a session, old or made meanwhile.                                       *)
Unrevoked == \A c \in Clients : op[c].do # "run" /\ op'[c].do = "run" => ~tokens[op'[c].token].revoked
AuthorityIsCurrent == [][Unrevoked]_vars
=============================================================================
