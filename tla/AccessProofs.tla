---------------------------- MODULE AccessProofs -----------------------------
(***************************************************************************)
(* Theorems about Access, for any clients, tokens, sessions, nonces,       *)
(* lifetimes and caps, then about the other parts of the administration:   *)
(* Keys, for any keys and callers, and Listing, for any rows and pages.    *)
(***************************************************************************)
EXTENDS Access, Sequences, FiniteSetTheorems, TLAPS

-----------------------------------------------------------------------------
(* The inductive invariant *)

Steps == {"idle", "page", "consume", "session", "authorize", "check", "login", "old", "revoke",
          "logout", "run"}
Token == [made : BOOLEAN, created : Nat, revoked : BOOLEAN, revokedAt : Nat,
          expires : Nat, scopes : SUBSET Scopes]
Session == [state : {"free", "live", "gone"}, token : Tokens \cup {Nobody}, expires : Nat, idle : Nat]
Nonce == [state : {"free", "out", "used", "gone"}, expires : Nat]
Request == [do : Steps, token : Tokens \cup {Nobody}, session : Sessions \cup {Nobody},
            nonce : Nonces \cup {Nobody}, at : Nat]
TypeInv ==
    /\ now \in Nat /\ tokens \in [Tokens -> Token] /\ sessions \in [Sessions -> Session]
    /\ nonces \in [Nonces -> Nonce] /\ cookie \in [Clients -> Sessions \cup {Nobody}]
    /\ listed \subseteq Sessions

(* A request works with a time that was, for a token that was made, and    *)
(* has what its next step needs.                                           *)
Past == {"check", "old", "revoke", "login"}
Ready(f) ==
    /\ f.do \in Past \cup {"consume"} => f.nonce \in Nonces
    /\ f.do \in {"session", "old", "revoke", "logout"} => f.session \in Sessions
    /\ f.do \in Past \cup {"consume", "authorize", "run", "logout"} =>
         f.token \in Tokens /\ tokens[f.token].made
OpInv == op \in [Clients -> Request] /\ \A c \in Clients : op[c].at <= now /\ Ready(op[c])

(* Past the form a request has a nonce that nobody else logs in with.      *)
Consumed(n) == nonces[n].state \in {"used", "gone"}
NonceInv ==
    /\ \A c \in Clients : op[c].do \in Past =>
         /\ Consumed(op[c].nonce)
         /\ \A d \in Clients : d # c /\ op[d].do \in Past => op[d].nonce # op[c].nonce
    /\ \A a \in Logins :
         /\ a.nonce \in Nonces /\ Consumed(a.nonce)
         /\ \A c \in Clients : op[c].do \in Past => op[c].nonce # a.nonce
         /\ \A b \in Logins : a.nonce = b.nonce => a = b
CapInv == Cardinality(Outstanding(now)) <= NonceCap

(* Sessions and revocations are of tokens that were made.                  *)
MadeInv ==
    /\ \A s \in Sessions : sessions[s].state = "live" =>
         sessions[s].token \in Tokens /\ tokens[sessions[s].token].made
    /\ \A t \in Tokens : tokens[t].revoked => tokens[t].made

(* What accounts for a token lasts as long as audits are kept from when it *)
(* was made, or revoked, and names a token that was made before.           *)
MadeBy(t, a) ==
    /\ a.target = t /\ a.expires = tokens[t].created + AuditTTL
    /\ IF t = First THEN a.action = "bootstrap"
       ELSE a.action = "create" /\ a.by \in Tokens /\ tokens[a.by].made
RevokedBy(t, a) ==
    /\ a.target = t /\ a.action = "revoke" /\ a.expires = tokens[t].revokedAt + AuditTTL
    /\ a.by \in Tokens /\ tokens[a.by].made
Accounted(t) ==
    /\ tokens[t].made /\ Kept(tokens[t].created) => \E a \in audit : MadeBy(t, a)
    /\ tokens[t].revoked /\ Kept(tokens[t].revokedAt) => \E a \in audit : RevokedBy(t, a)
AccountInv == \A t \in Tokens : Accounted(t)

Inv == /\ TypeInv /\ OpInv /\ NonceInv /\ CapInv /\ MadeInv
       /\ SessionsAreBounded /\ AccountInv

-----------------------------------------------------------------------------
(* Operators *)

(* The lesser of two numbers is one of them and not above the other.       *)
LEMMA MinOfTwo ==
    ASSUME NEW a \in Nat, NEW b \in Nat
    PROVE  Min({a, b}) \in Nat /\ Min({a, b}) <= a /\ Min({a, b}) <= b /\ Min({a, b}) \in {a, b}
<1>1. \E x \in {a, b} : \A y \in {a, b} : x <= y
  <2>1. CASE a <= b
    BY <2>1
  <2>2. CASE b <= a
    BY <2>2
  <2>. QED  BY <2>1, <2>2
<1>. QED  BY <1>1 DEF Min

(* The greater of two numbers is one of them.                              *)
LEMMA MaxOfTwo ==
    ASSUME NEW a \in Nat, NEW b \in Nat
    PROVE  Max({a, b}) \in {a, b}
<1>1. \E x \in {a, b} : \A y \in {a, b} : x >= y
  <2>1. CASE a >= b
    BY <2>1
  <2>2. CASE b >= a
    BY <2>2
  <2>. QED  BY <2>1, <2>2
<1>. QED  BY <1>1 DEF Max

-----------------------------------------------------------------------------
(* What the parts of a step keep *)

TokensGrow == /\ tokens' \in [Tokens -> Token]
              /\ \A t \in Tokens : tokens[t].made => tokens'[t].made

(* A request that goes on keeps what its next step needs.                  *)
LEMMA GoesKeeps ==
    ASSUME TypeInv, OpInv, NEW c \in Clients, NEW do \in Steps, NEW f \in Request, Goes(c, do, f),
           Ready([f EXCEPT !.do = do, !.at = now]), now' = now, TokensGrow
    PROVE  /\ OpInv'
           /\ op'[c].do = do /\ op'[c].nonce = f.nonce /\ op'[c].token = f.token
           /\ \A d \in Clients \ {c} : op'[d] = op[d]
<1>1. [f EXCEPT !.do = do, !.at = now] \in Request
  BY DEF Request, TypeInv
<1>2. op' = [op EXCEPT ![c] = [f EXCEPT !.do = do, !.at = now]]
  BY DEF Goes
<1>3. /\ op'[c] = [f EXCEPT !.do = do, !.at = now]
      /\ \A d \in Clients \ {c} : op'[d] = op[d]
      /\ op' \in [Clients -> Request]
  BY <1>1, <1>2 DEF OpInv
<1>4. op'[c].do = do /\ op'[c].nonce = f.nonce /\ op'[c].token = f.token /\ op'[c].at = now
  BY <1>3 DEF Request
<1>5. ASSUME NEW d \in Clients  PROVE op'[d].at <= now' /\ Ready(op[d])'
  <2>1. CASE d = c
    <3>1. Ready(op'[c])
      BY <1>3
    <3>2. op'[c].token \in Tokens /\ tokens[op'[c].token].made => tokens'[op'[c].token].made
      BY DEF TokensGrow
    <3>. QED  BY <1>4, <2>1, <3>1, <3>2 DEF Ready, TypeInv
  <2>2. CASE d # c
    BY <1>3, <2>2 DEF OpInv, Ready, TokensGrow, TypeInv, Request
  <2>. QED  BY <2>1, <2>2
<1>. QED  BY <1>3, <1>4, <1>5 DEF OpInv

(* A request that ends leaves the others alone.                            *)
LEMMA EndsKeeps ==
    ASSUME TypeInv, OpInv, NEW c \in Clients, Ends(c), now' = now, TokensGrow
    PROVE  OpInv' /\ op'[c].do = "idle" /\ \A d \in Clients \ {c} : op'[d] = op[d]
<1>1. Idle \in Request /\ Idle.do = "idle" /\ Idle.at = 0
  BY DEF Idle, Request, Steps
<1>2. op'[c] = Idle /\ op' \in [Clients -> Request] /\ \A d \in Clients \ {c} : op'[d] = op[d]
  BY <1>1 DEF Ends, OpInv
<1>3. ASSUME NEW d \in Clients  PROVE op'[d].at <= now' /\ Ready(op[d])'
  <2>1. CASE d = c
    BY <1>1, <1>2, <2>1 DEF Ready, TypeInv, Past
  <2>2. CASE d # c
    BY <1>2, <2>2 DEF OpInv, Ready, TokensGrow, TypeInv, Request
  <2>. QED  BY <2>1, <2>2
<1>. QED  BY <1>1, <1>2, <1>3 DEF OpInv

(* No nonce comes back, and nobody gets past the form: nonces stay spent.  *)
LEMMA NoncesKept ==
    ASSUME NonceInv, OpInv,
           \A n \in Nonces : Consumed(n) => Consumed(n)',
           \A c \in Clients : op'[c].do \in Past => op[c].do \in Past /\ op'[c].nonce = op[c].nonce,
           Logins' \subseteq Logins
    PROVE  NonceInv'
BY SMTT(30) DEF NonceInv, OpInv, Ready

(* No more nonces are open when those that are were before.                *)
LEMMA CapKept ==
    ASSUME AccessAssumption, TypeInv, CapInv, Outstanding(now)' \subseteq Outstanding(now)
    PROVE  CapInv'
<1>1. IsFiniteSet(Outstanding(now))
  BY FS_Subset DEF Outstanding, AccessAssumption
<1>2. Cardinality(Outstanding(now)') <= Cardinality(Outstanding(now))
  BY <1>1, FS_Subset
<1>3. Cardinality(Outstanding(now)') \in Nat /\ Cardinality(Outstanding(now)) \in Nat
  BY <1>1, FS_Subset, FS_CardinalityType
<1>. QED  BY <1>2, <1>3 DEF CapInv, AccessAssumption

(* A token is accounted for as long as it is what it was and only audits   *)
(* that are over have gone.                                                *)
LEMMA AccountedStays ==
    ASSUME AccessAssumption, TypeInv, TokensGrow, now' \in Nat, now <= now',
           NEW t \in Tokens, Accounted(t), tokens'[t] = tokens[t],
           \A a \in audit : a.expires > now => a \in audit'
    PROVE  Accounted(t)'
<1>1. /\ now \in Nat /\ AuditTTL \in Nat /\ tokens[t].created \in Nat /\ tokens[t].revokedAt \in Nat
  BY DEF TypeInv, Token, AccessAssumption
<1>2. ASSUME tokens[t].made, now' < tokens[t].created + AuditTTL  PROVE \E a \in audit' : MadeBy(t, a)'
  <2>1. PICK a \in audit : MadeBy(t, a)
    BY <1>1, <1>2 DEF Accounted, Kept
  <2>2. a \in audit'
    BY <1>1, <1>2, <2>1 DEF MadeBy
  <2>3. MadeBy(t, a)'
    BY <2>1 DEF MadeBy, TokensGrow
  <2>. QED  BY <2>2, <2>3
<1>3. ASSUME tokens[t].revoked, now' < tokens[t].revokedAt + AuditTTL
      PROVE  \E a \in audit' : RevokedBy(t, a)'
  <2>1. PICK a \in audit : RevokedBy(t, a)
    BY <1>1, <1>3 DEF Accounted, Kept
  <2>2. a \in audit'
    BY <1>1, <1>3, <2>1 DEF RevokedBy
  <2>3. RevokedBy(t, a)'
    BY <2>1 DEF RevokedBy, TokensGrow
  <2>. QED  BY <2>2, <2>3
<1>. QED  BY <1>2, <1>3 DEF Accounted, Kept
LEMMA AccountKept ==
    ASSUME AccessAssumption, Inv, UNCHANGED <<now, tokens>>, audit \subseteq audit'
    PROVE  AccountInv'
<1>1. TokensGrow /\ now' \in Nat /\ now <= now'
  BY DEF Inv, TypeInv, TokensGrow
<1>2. \A t \in Tokens : Accounted(t)'
  BY <1>1, AccountedStays DEF Inv, AccountInv
<1>. QED  BY <1>2 DEF AccountInv

(* A step that leaves the tables alone keeps what is said of them.         *)
LEMMA TablesKept ==
    ASSUME AccessAssumption, Inv, UNCHANGED Tables, UNCHANGED now, cookie' = cookie
    PROVE  /\ TypeInv' /\ CapInv' /\ MadeInv' /\ SessionsAreBounded' /\ AccountInv' /\ TokensGrow
           /\ \A n \in Nonces : Consumed(n)' = Consumed(n)
BY AccountKept DEF Inv, TypeInv, CapInv, MadeInv, SessionsAreBounded, TokensGrow, Tables, sweep,
       Outstanding, Consumed

(* The idle end of a session that is used lies between now and its end.    *)
LEMMA TouchKeeps ==
    ASSUME AccessAssumption, Inv, NEW s \in Sessions, NEW at \in Nat, at <= now, Touch(s, at), now' = now,
           UNCHANGED <<tokens, nonces, audit, cookie, listed>>
    PROVE  /\ TypeInv' /\ CapInv' /\ MadeInv' /\ SessionsAreBounded' /\ AccountInv' /\ TokensGrow
           /\ \A n \in Nonces : Consumed(n)' = Consumed(n)
<1>. DEFINE e == sessions[s].expires
            i == Max({sessions[s].idle, at + IdleTTL})
<1>1. /\ e \in Nat /\ sessions[s].idle \in Nat /\ at + IdleTTL \in Nat
  BY DEF Inv, TypeInv, Session, AccessAssumption
<1>2. i \in {sessions[s].idle, at + IdleTTL}
  BY <1>1, MaxOfTwo
<1>3. /\ extended(s, at) \in Nat /\ extended(s, at) <= e /\ extended(s, at) <= i
  BY <1>1, <1>2, MinOfTwo DEF extended
<1>4. /\ sessions' = [sessions EXCEPT ![s].idle = extended(s, at)]
      /\ sessions' \in [Sessions -> Session]
  BY <1>3 DEF Touch, Inv, TypeInv, Session
<1>5. SessionsAreBounded'
  <2>1. sessions[s].state = "live" => i <= now + IdleTTL
    BY <1>1, <1>2 DEF Inv, SessionsAreBounded, TypeInv, AccessAssumption
  <2>. QED  BY <1>1, <1>2, <1>3, <1>4, <2>1 DEF Inv, SessionsAreBounded, TypeInv, Session, AccessAssumption
<1>6. MadeInv'
  BY <1>4 DEF Inv, MadeInv, TypeInv, Session
<1>. QED  BY <1>4, <1>5, <1>6, AccountKept DEF Inv, TypeInv, CapInv, TokensGrow, Outstanding, Consumed

-----------------------------------------------------------------------------
(* Every step keeps the invariant *)

(* A start ends every request and may store the bootstrap token.           *)
LEMMA StartKeeps ==
    ASSUME AccessAssumption, Inv, Start
    PROVE  Inv'
<1>1. Idle \in Request /\ Idle.do = "idle" /\ Idle.at = 0
  BY DEF Idle, Request, Steps
<1>2. \A c \in Clients : op'[c] = Idle
  BY DEF Start
<1>3. OpInv'
  BY <1>1, <1>2 DEF Start, OpInv, Ready, Past, Inv, TypeInv
<1>4. CASE UNCHANGED <<tokens, audit>>
  <2>2. NonceInv'
    BY <1>1, <1>2, <1>4 DEF Start, Inv, NonceInv, Past, Consumed, Logins
  <2>3. AccountInv'
    BY <1>4, AccountKept DEF Start
  <2>. QED  BY <1>3, <1>4, <2>2, <2>3 DEF Start, Inv, TypeInv, CapInv, Outstanding, MadeInv, SessionsAreBounded
<1>5. CASE /\ MayMaterialize
           /\ tokens' = [tokens EXCEPT ![First] = [@ EXCEPT !.made = TRUE, !.created = now, !.scopes = Scopes]]
           /\ audit' = audit \cup {Record("bootstrap", "bootstrap", First, now)}
  <2>0. PICK new : new = Record("bootstrap", "bootstrap", First, now)
    OBVIOUS
  <2>1. new.action = "bootstrap" /\ new.target = First /\ new.expires = now + AuditTTL /\ new \in audit'
    BY <1>5, <2>0 DEF Record
  <2>2. NonceInv'
    BY <1>1, <1>2, <1>5, <2>0, <2>1 DEF Start, Inv, NonceInv, Past, Consumed, Logins
  <2>3. TypeInv'
    BY <1>5 DEF Start, Inv, TypeInv, Token, AccessAssumption
  <2>4. /\ \A t \in Tokens : tokens'[t].made => t = First
        /\ \A t \in Tokens : ~tokens'[t].revoked
        /\ tokens'[First].made /\ tokens'[First].created = now
    BY <1>5 DEF Inv, TypeInv, MayMaterialize, Token, AccessAssumption, MadeInv
  <2>5. MadeInv'
    BY <1>5, <2>4 DEF Start, Inv, MadeInv, MayMaterialize
  <2>6. AccountInv'
    <3>1. MadeBy(First, new)'
      BY <2>1, <2>4 DEF MadeBy
    <3>. QED  BY <2>1, <2>4, <3>1 DEF AccountInv, Accounted
  <2>7. CapInv' /\ SessionsAreBounded'
    BY DEF Start, Inv, CapInv, SessionsAreBounded, Outstanding
  <2>. QED  BY <1>3, <2>2, <2>3, <2>5, <2>6, <2>7 DEF Inv
<1>. QED  BY <1>4, <1>5 DEF Start, MaterializeBootstrap

(* Time passes: what was not too late may be now.                          *)
LEMMA TickKeeps ==
    ASSUME AccessAssumption, Inv, Tick
    PROVE  Inv'
<1>1. TypeInv' /\ OpInv' /\ NonceInv' /\ MadeInv'
  BY SMTT(30) DEF Tick, Inv, TypeInv, OpInv, Ready, Request, NonceInv, Consumed, MadeInv, Logins, sweep
<1>4. AccountInv'
  <2>1. TokensGrow /\ now' \in Nat /\ now <= now' /\ tokens' = tokens /\ audit' = audit
    BY DEF Tick, TokensGrow, Inv, TypeInv
  <2>2. \A t \in Tokens : Accounted(t)'
    BY <2>1, AccountedStays DEF Inv, AccountInv
  <2>. QED  BY <2>2 DEF AccountInv
<1>2. CapInv'
  <2>1. Outstanding(now)' \subseteq Outstanding(now)
    BY DEF Tick, Outstanding, Inv, TypeInv, Nonce
  <2>. QED  BY <2>1, CapKept DEF Inv
<1>3. SessionsAreBounded'
  BY DEF Tick, SessionsAreBounded, Inv, TypeInv, Session, AccessAssumption
<1>. QED  BY <1>1, <1>2, <1>3, <1>4 DEF Inv

(* A request that fails leaves everything as it was.                       *)
LEMMA FailKeeps ==
    ASSUME AccessAssumption, Inv, NEW c \in Clients, Fail(c)
    PROVE  Inv'
<1>1. UNCHANGED Tables /\ UNCHANGED now /\ UNCHANGED cookie /\ Ends(c)
  BY DEF Fail
<1>2. OpInv' /\ op'[c].do = "idle" /\ \A d \in Clients \ {c} : op'[d] = op[d]
  BY <1>1, TablesKept, EndsKeeps DEF Inv
<1>3. NonceInv'
  BY <1>1, <1>2, TablesKept, NoncesKept DEF Inv, Past, Tables, sweep, Logins
<1>. QED  BY <1>1, <1>2, <1>3, TablesKept DEF Inv

(* A request of any kind begins with what it needs.                        *)
LEMMA BeginKeeps ==
    ASSUME AccessAssumption, Inv, NEW c \in Clients, Begin(c)
    PROVE  Inv'
<1>1. UNCHANGED Tables /\ UNCHANGED now /\ UNCHANGED cookie
  BY DEF Begin
<1>2. PICK do \in {"page", "consume", "session", "authorize"}, f \in Request :
        Goes(c, do, f) /\ Ready([f EXCEPT !.do = do, !.at = now])
  <2>. DEFINE Chosen(do, f) == f \in Request /\ Goes(c, do, f) /\ Ready([f EXCEPT !.do = do, !.at = now])
  <2>1. CASE Goes(c, "page", Idle)
    <3>1. Chosen("page", Idle)
      BY <2>1 DEF Idle, Request, Steps, Ready, Past
    <3>. QED  BY <3>1
  <2>2. ASSUME NEW n \in Nonces, NEW t \in Tokens, tokens[t].made,
               Goes(c, "consume", [Idle EXCEPT !.nonce = n, !.token = t])
        PROVE  Chosen("consume", [Idle EXCEPT !.nonce = n, !.token = t])
    BY <2>2 DEF Idle, Request, Steps, Ready, Past
  <2>3. ASSUME cookie[c] # Nobody, Goes(c, "session", [Idle EXCEPT !.session = cookie[c]])
        PROVE  Chosen("session", [Idle EXCEPT !.session = cookie[c]])
    BY <2>3 DEF Idle, Request, Steps, Ready, Past, Inv, TypeInv
  <2>4. ASSUME NEW t \in Tokens, Live(t, now), Goes(c, "authorize", [Idle EXCEPT !.token = t])
        PROVE  Chosen("authorize", [Idle EXCEPT !.token = t])
    BY <2>4 DEF Idle, Request, Steps, Ready, Past, Live
  <2>. QED  BY <2>1, <2>2, <2>3, <2>4 DEF Begin
<1>3. OpInv' /\ op'[c].do = do /\ \A d \in Clients \ {c} : op'[d] = op[d]
  BY <1>1, <1>2, TablesKept, GoesKeeps DEF Inv, Steps
<1>4. NonceInv'
  BY <1>1, <1>2, <1>3, TablesKept, NoncesKept DEF Inv, Past, Tables, sweep, Logins
<1>. QED  BY <1>1, <1>3, <1>4, TablesKept DEF Inv

(* The page opens a nonce only below the cap, and what another page with   *)
(* a later clock removed was not open at this one.                         *)
LEMMA CreateLoginNonceKeeps ==
    ASSUME AccessAssumption, Inv, NEW c \in Clients, CreateLoginNonce(c)
    PROVE  Inv'
<1>. DEFINE at == op[c].at
            pruned == [n \in Nonces |-> IF Spent(n, at) THEN [nonces[n] EXCEPT !.state = "gone"]
                                        ELSE nonces[n]]
<1>1. /\ NonceRoom(at) /\ Ends(c)
      /\ UNCHANGED <<now, tokens, sessions, cookie, audit, past, listed>>
  BY DEF CreateLoginNonce, sweep
<1>2. PICK new \in Nonces : /\ nonces[new].state = "free"
                            /\ nonces' = [pruned EXCEPT ![new] = [state |-> "out", expires |-> at + NonceTTL]]
  BY DEF CreateLoginNonce
<1>3. at \in Nat /\ at <= now
  BY DEF Inv, OpInv, Request
<1>4. nonces' \in [Nonces -> Nonce]
  BY <1>2, <1>3 DEF Inv, TypeInv, Nonce, AccessAssumption
<1>5. \A n \in Nonces \ {new} : /\ nonces'[n].expires = nonces[n].expires
                               /\ nonces'[n].state \in {nonces[n].state, "gone"}
  BY <1>2 DEF Inv, TypeInv, Nonce
<1>6. OpInv' /\ op'[c].do = "idle" /\ (\A d \in Clients \ {c} : op'[d] = op[d]) /\ TokensGrow
  <2>1. TokensGrow
    BY <1>1 DEF TokensGrow, Inv, TypeInv
  <2>. QED  BY <1>1, <2>1, EndsKeeps DEF Inv
<1>7. NonceInv'
  <2>1. \A n \in Nonces : Consumed(n) => Consumed(n)'
    <3>1. ASSUME NEW n \in Nonces, Consumed(n)  PROVE n # new
      BY <1>2, <3>1 DEF Consumed
    <3>2. ASSUME NEW n \in Nonces \ {new}, Consumed(n)  PROVE Consumed(n)'
      BY <1>5, <3>2 DEF Consumed
    <3>. QED  BY <3>1, <3>2
  <2>2. \A d \in Clients : op'[d].do \in Past => op[d].do \in Past /\ op'[d].nonce = op[d].nonce
    BY <1>6 DEF Past
  <2>3. Logins' = Logins
    BY <1>1 DEF Logins
  <2>. QED  BY <1>1, <2>1, <2>2, <2>3, NoncesKept DEF Inv
<1>8. CapInv'
  <2>. DEFINE before == Outstanding(at)
  <2>1. IsFiniteSet(before) /\ Cardinality(before) \in Nat /\ Cardinality(before) < NonceCap
    BY <1>1, FS_Subset, FS_CardinalityType DEF Outstanding, AccessAssumption, NonceRoom
  <2>2. Outstanding(now)' \subseteq before \cup {new}
    <3>1. now \in Nat /\ \A n \in Nonces : nonces[n].expires \in Nat
      BY DEF Inv, TypeInv, Nonce
    <3>2. ASSUME NEW n \in Nonces \ {new}, nonces'[n].state = "out", nonces'[n].expires > now
          PROVE  nonces[n].state = "out" /\ nonces[n].expires > at
      BY <1>3, <1>5, <3>1, <3>2
    <3>. QED  BY <1>1, <3>2 DEF Outstanding
  <2>3. IsFiniteSet(before \cup {new}) /\ Cardinality(before \cup {new}) <= Cardinality(before) + 1
    <3>. HIDE DEF before
    <3>1. Cardinality(before \cup {new})
            = IF new \in before THEN Cardinality(before) ELSE Cardinality(before) + 1
      BY <2>1, FS_AddElement
    <3>. QED  BY <2>1, <3>1, FS_AddElement
  <2>4. /\ Cardinality(Outstanding(now)') <= Cardinality(before \cup {new})
        /\ Cardinality(Outstanding(now)') \in Nat /\ Cardinality(before \cup {new}) \in Nat
    BY <2>2, <2>3, FS_Subset, FS_CardinalityType
  <2>. QED  BY <2>1, <2>3, <2>4 DEF CapInv, AccessAssumption
<1>9. TypeInv' /\ MadeInv' /\ SessionsAreBounded' /\ AccountInv'
  BY <1>1, <1>4, AccountKept DEF Inv, TypeInv, MadeInv, SessionsAreBounded
<1>. QED  BY <1>6, <1>7, <1>8, <1>9 DEF Inv

(* The form takes a nonce that nobody else has taken.                      *)
LEMMA ConsumeLoginNonceKeeps ==
    ASSUME AccessAssumption, Inv, NEW c \in Clients, ConsumeLoginNonce(c)
    PROVE  Inv'
<1>. DEFINE f == op[c]
<1>1. /\ f.do = "consume" /\ nonces[f.nonce].state = "out" /\ Goes(c, "check", f)
      /\ nonces' = [nonces EXCEPT ![f.nonce].state = "used"]
      /\ UNCHANGED <<now, tokens, sessions, cookie, audit, past, listed>>
  BY DEF ConsumeLoginNonce, UsableNonce, sweep
<1>2. f \in Request /\ f.nonce \in Nonces /\ Ready([f EXCEPT !.do = "check", !.at = now]) /\ TokensGrow
  BY <1>1 DEF Inv, OpInv, Ready, Request, Past, TokensGrow, TypeInv
<1>3. /\ OpInv' /\ op'[c].do = "check" /\ op'[c].nonce = f.nonce
      /\ \A d \in Clients \ {c} : op'[d] = op[d]
  <2>1. "check" \in Steps
    BY DEF Steps
  <2>2. TypeInv /\ OpInv /\ Goes(c, "check", f) /\ now' = now
    BY <1>1 DEF Inv
  <2>. HIDE DEF f
  <2>. QED  BY <1>2, <2>1, <2>2, GoesKeeps
<1>4. /\ TypeInv'
      /\ \A n \in Nonces : Consumed(n) => Consumed(n)'
      /\ nonces'[f.nonce].state = "used" /\ ~Consumed(f.nonce)
  <2>1. nonces' \in [Nonces -> Nonce] /\ nonces'[f.nonce].state = "used"
        /\ \A n \in Nonces \ {f.nonce} : nonces'[n] = nonces[n]
    BY <1>1, <1>2 DEF Inv, TypeInv, Nonce
  <2>2. ~Consumed(f.nonce)
    BY <1>1, <2>1 DEF Consumed
  <2>3. \A n \in Nonces : Consumed(n) => Consumed(n)'
    BY <2>1, <2>2 DEF Consumed
  <2>. QED  BY <1>1, <2>1, <2>2, <2>3 DEF Inv, TypeInv
<1>5. NonceInv'
  <2>1. ASSUME NEW d \in Clients \ {c}, op[d].do \in Past  PROVE op[d].nonce # f.nonce
    BY <2>1, <1>4 DEF Inv, NonceInv
  <2>2. ASSUME NEW a \in Logins  PROVE a.nonce # f.nonce
    BY <2>2, <1>4 DEF Inv, NonceInv
  <2>3. \A d \in Clients : op[d].do \in Past => op[d].nonce \in Nonces
    BY DEF Inv, OpInv, Ready
  <2>4. nonces'[f.nonce].state \in {"used", "gone"}
    BY <1>4
  <2>. DEFINE n == f.nonce
  <2>5. n \in Nonces /\ (\A d \in Clients \ {c} : op[d].do \in Past => op[d].nonce # n)
        /\ (\A a \in Logins : a.nonce # n) /\ op'[c].nonce = n
        /\ nonces'[n].state \in {"used", "gone"}
    BY <1>2, <1>3, <2>1, <2>2, <2>4
  <2>. HIDE DEF n
  <2>6. ASSUME NEW d \in Clients, op'[d].do \in Past
        PROVE  /\ Consumed(op[d].nonce)'
               /\ \A e \in Clients : e # d /\ op'[e].do \in Past => op'[e].nonce # op'[d].nonce
    <3>1. CASE d = c
      BY <1>3, <2>5, <3>1 DEF Consumed
    <3>2. CASE d # c
      BY <1>3, <1>4, <2>3, <2>5, <2>6, <3>2 DEF Inv, NonceInv
    <3>. QED  BY <3>1, <3>2
  <2>8. Logins' = Logins
    BY <1>1 DEF Logins
  <2>7. ASSUME NEW a \in Logins'
        PROVE  /\ a.nonce \in Nonces /\ Consumed(a.nonce)'
               /\ \A d \in Clients : op'[d].do \in Past => op'[d].nonce # a.nonce
               /\ \A b \in Logins' : a.nonce = b.nonce => a = b
    BY <1>1, <1>3, <1>4, <2>5, <2>7, <2>8 DEF Inv, NonceInv
  <2>. QED  BY <2>6, <2>7 DEF NonceInv
<1>6. CapInv'
  <2>1. Outstanding(now)' \subseteq Outstanding(now)
    BY <1>1, <1>2 DEF Outstanding, Inv, TypeInv, Nonce
  <2>. QED  BY <2>1, CapKept DEF Inv
<1>7. MadeInv' /\ SessionsAreBounded' /\ AccountInv'
  BY <1>1, AccountKept DEF Inv, MadeInv, SessionsAreBounded
<1>. QED  BY <1>3, <1>4, <1>5, <1>6, <1>7 DEF Inv

(* The token is looked at; the request goes on to log in, or to end the    *)
(* session that its browser has.                                           *)
LEMMA CheckTokenKeeps ==
    ASSUME AccessAssumption, Inv, NEW c \in Clients, CheckToken(c)
    PROVE  Inv'
<1>1. UNCHANGED Tables /\ UNCHANGED now /\ UNCHANGED cookie /\ op[c].do = "check"
  BY DEF CheckToken
<1>2. PICK do \in {"login", "old"}, f \in Request :
        Goes(c, do, f) /\ f.nonce = op[c].nonce /\ Ready([f EXCEPT !.do = do, !.at = now])
  <2>. DEFINE Chosen(do, f) == /\ f \in Request /\ Goes(c, do, f) /\ f.nonce = op[c].nonce
                               /\ Ready([f EXCEPT !.do = do, !.at = now])
  <2>1. ASSUME Goes(c, "login", op[c])  PROVE Chosen("login", op[c])
    BY <1>1, <2>1 DEF Inv, OpInv, Request, Ready, Past
  <2>2. ASSUME cookie[c] # Nobody, Goes(c, "old", [op[c] EXCEPT !.session = cookie[c]])
        PROVE  Chosen("old", [op[c] EXCEPT !.session = cookie[c]])
    BY <1>1, <2>2 DEF Inv, OpInv, TypeInv, Request, Ready, Past
  <2>. QED  BY <2>1, <2>2 DEF CheckToken
<1>3. OpInv' /\ op'[c].nonce = op[c].nonce /\ \A d \in Clients \ {c} : op'[d] = op[d]
  BY <1>1, <1>2, TablesKept, GoesKeeps DEF Inv, Steps
<1>4. NonceInv'
  BY <1>1, <1>3, TablesKept, NoncesKept DEF Inv, Past, Tables, sweep, Logins
<1>. QED  BY <1>1, <1>3, <1>4, TablesKept DEF Inv

(* A request that goes on with the same nonce, when it had one.            *)
LEMMA NonceGoesOn ==
    ASSUME Inv, NEW c \in Clients, NEW do \in Steps, NEW f \in Request, Goes(c, do, f), TokensGrow,
           Ready([f EXCEPT !.do = do, !.at = now]), do \in Past => op[c].do \in Past /\ f.nonce = op[c].nonce,
           now' = now, UNCHANGED <<audit, past>>, \A n \in Nonces : Consumed(n)' = Consumed(n)
    PROVE  OpInv' /\ NonceInv'
<1>1. /\ OpInv' /\ op'[c].do = do /\ op'[c].nonce = f.nonce
      /\ \A d \in Clients \ {c} : op'[d] = op[d]
  BY GoesKeeps DEF Inv
<1>. QED  BY <1>1, NoncesKept DEF Inv, Logins

(* A session that is gone is nobody's: what is said of live ones holds.    *)
LEMMA RemovedKeeps ==
    ASSUME AccessAssumption, Inv, NEW s \in Sessions, now' = now, UNCHANGED <<tokens, nonces>>,
           listed' \subseteq Sessions,
           sessions' = [sessions EXCEPT ![s] = [Absent EXCEPT !.state = "gone"]],
           cookie' \in [Clients -> Sessions \cup {Nobody}], audit \subseteq audit'
    PROVE  /\ TypeInv' /\ CapInv' /\ MadeInv' /\ SessionsAreBounded' /\ AccountInv' /\ TokensGrow
           /\ \A n \in Nonces : Consumed(n)' = Consumed(n)
<1>1. sessions' \in [Sessions -> Session] /\ sessions'[s].state = "gone"
      /\ \A q \in Sessions \ {s} : sessions'[q] = sessions[q]
  BY DEF Inv, TypeInv, Session, Absent
<1>2. MadeInv' /\ SessionsAreBounded'
  BY <1>1 DEF Inv, MadeInv, SessionsAreBounded
<1>. QED  BY <1>1, <1>2, AccountKept DEF Inv, TypeInv, CapInv, TokensGrow, Outstanding, Consumed

(* The session of the browser is looked up, then ended.                    *)
LEMMA ReplaceSessionKeeps ==
    ASSUME AccessAssumption, Inv, NEW c \in Clients, ReplaceSession(c)
    PROVE  Inv'
<1>. DEFINE f == op[c]
            Holds == /\ TypeInv' /\ CapInv' /\ MadeInv' /\ SessionsAreBounded' /\ AccountInv'
                     /\ TokensGrow /\ \A n \in Nonces : Consumed(n)' = Consumed(n)
<1>1. /\ f.do \in {"old", "revoke"} /\ UNCHANGED <<now, tokens, nonces, cookie, audit, past, listed>>
      /\ Goes(c, "revoke", f) \/ Goes(c, "login", f)
  BY DEF ReplaceSession, sweep
<1>2. f \in Request /\ f.at \in Nat /\ f.at <= now /\ f.session \in Sessions
  BY <1>1 DEF Inv, OpInv, Ready, Request
<1>3. /\ Ready([f EXCEPT !.do = "revoke", !.at = now]) /\ Ready([f EXCEPT !.do = "login", !.at = now])
  BY <1>1, <1>2 DEF Inv, OpInv, Ready, Request, Past
<1>4. ASSUME Touch(f.session, f.at)  PROVE Holds
  BY <1>1, <1>2, <1>4, TouchKeeps
<1>5. ASSUME sessions' = sessions  PROVE Holds
  BY <1>1, <1>5, TablesKept DEF Tables, sweep
<1>6. ASSUME sessions' = [sessions EXCEPT ![f.session] = [Absent EXCEPT !.state = "gone"]]
      PROVE  Holds
  <2>1. cookie' \in [Clients -> Sessions \cup {Nobody}]
    BY <1>1 DEF Inv, TypeInv
  <2>2. listed' \subseteq Sessions
    BY <1>1 DEF Inv, TypeInv
  <2>. QED  BY <1>1, <1>2, <1>6, <2>1, <2>2, RemovedKeeps
<1>7. Holds
  BY <1>4, <1>5, <1>6 DEF ReplaceSession
<1>8. OpInv' /\ NonceInv'
  BY <1>1, <1>2, <1>3, <1>7, NonceGoesOn DEF Steps, Past
<1>. QED  BY <1>7, <1>8 DEF Inv

(* The login makes one session, for a nonce that has no login yet.         *)
LEMMA CreateSessionKeeps ==
    ASSUME AccessAssumption, Inv, NEW c \in Clients, CreateSession(c)
    PROVE  Inv'
<1>. DEFINE f == op[c]
<1>1. /\ f.do = "login" /\ Live(f.token, f.at) /\ Ends(c)
      /\ UNCHANGED <<now, tokens, nonces, past, listed>>
  BY DEF CreateSession, sweep
<1>2. PICK s \in Sessions :
        /\ sessions' = [sessions EXCEPT ![s] =
              [state |-> "live", token |-> f.token, expires |-> f.at + SessionTTL,
               idle |-> Min({f.at + IdleTTL, f.at + SessionTTL})]]
        /\ audit' = audit \cup {[Record("login", f.token, s, f.at) EXCEPT !.nonce = f.nonce]}
        /\ cookie' = [cookie EXCEPT ![c] = s]
  BY DEF CreateSession
<1>3. f \in Request /\ f.at \in Nat /\ f.at <= now /\ f.nonce \in Nonces
      /\ f.token \in Tokens /\ tokens[f.token].made
  BY <1>1 DEF Inv, OpInv, Ready, Request, Past
<1>. DEFINE i == Min({f.at + IdleTTL, f.at + SessionTTL})
<1>4. i \in Nat /\ i <= f.at + IdleTTL /\ i <= f.at + SessionTTL /\ f.at + SessionTTL \in Nat
  <2>1. f.at + IdleTTL \in Nat /\ f.at + SessionTTL \in Nat
    BY <1>3 DEF AccessAssumption
  <2>. QED  BY <2>1, MinOfTwo
<1>5. TypeInv'
  BY <1>1, <1>2, <1>3, <1>4 DEF Inv, TypeInv, Session
<1>6. SessionsAreBounded' /\ MadeInv'
  <2>1. /\ sessions'[s].expires = f.at + SessionTTL /\ sessions'[s].idle = i /\ sessions'[s].token = f.token
        /\ \A q \in Sessions \ {s} : sessions'[q] = sessions[q]
    BY <1>2 DEF Inv, TypeInv, Session
  <2>2. i <= now + IdleTTL
    BY <1>3, <1>4 DEF Inv, TypeInv, AccessAssumption
  <2>. QED  BY <1>1, <1>3, <1>4, <2>1, <2>2 DEF Inv, SessionsAreBounded, MadeInv
<1>7. TokensGrow
  BY <1>1 DEF Inv, TypeInv, TokensGrow
<1>8. OpInv' /\ op'[c].do = "idle" /\ \A d \in Clients \ {c} : op'[d] = op[d]
  BY <1>1, <1>7, EndsKeeps DEF Inv
<1>9. NonceInv'
  <2>. DEFINE new == [Record("login", f.token, s, f.at) EXCEPT !.nonce = f.nonce]
  <2>1. new.action = "login" /\ new.nonce = f.nonce
    BY DEF Record
  <2>2. /\ Consumed(f.nonce) /\ \A d \in Clients \ {c} : op[d].do \in Past => op[d].nonce # f.nonce
        /\ \A a \in Logins : a.nonce # f.nonce
    BY <1>1 DEF Inv, NonceInv, Past
  <2>3. \A n : Consumed(n)' = Consumed(n)
    BY <1>1 DEF Consumed
  <2>4. Logins' = Logins \cup {new}
    BY <1>1, <1>2, <2>1 DEF Logins
  <2>. HIDE DEF new
  <2>5. \A d \in Clients : op'[d].do \in Past => d # c
    BY <1>8 DEF Past
  <2>. QED  BY <1>3, <1>8, <2>1, <2>2, <2>3, <2>4, <2>5, SMTT(30) DEF Inv, NonceInv
<1>10. CapInv' /\ AccountInv'
  BY <1>1, <1>2, AccountKept DEF Inv, CapInv, Outstanding
<1>. QED  BY <1>5, <1>6, <1>8, <1>9, <1>10 DEF Inv

(* A session that authenticates a request is prolonged, and the request    *)
(* acts for its token.                                                     *)
LEMMA AuthenticateSessionKeeps ==
    ASSUME AccessAssumption, Inv, NEW c \in Clients, AuthenticateSession(c)
    PROVE  Inv'
<1>. DEFINE f == op[c]
            g == [f EXCEPT !.token = sessions[f.session].token]
<1>1. /\ f.do = "session" /\ Usable(f.session, f.at) /\ Touch(f.session, f.at)
      /\ Goes(c, "authorize", g) \/ Goes(c, "logout", g)
      /\ UNCHANGED <<now, tokens, nonces, cookie, audit, past, listed>>
  BY DEF AuthenticateSession, sweep
<1>2. f \in Request /\ f.at \in Nat /\ f.at <= now /\ f.session \in Sessions
  BY <1>1 DEF Inv, OpInv, Ready, Request
<1>3. sessions[f.session].token \in Tokens /\ tokens[sessions[f.session].token].made
  BY <1>1, <1>2 DEF Inv, MadeInv, Usable
<1>4. /\ TypeInv' /\ CapInv' /\ MadeInv' /\ SessionsAreBounded' /\ AccountInv' /\ TokensGrow
      /\ \A n \in Nonces : Consumed(n)' = Consumed(n)
  BY <1>1, <1>2, TouchKeeps
<1>5. /\ g \in Request
      /\ Ready([g EXCEPT !.do = "authorize", !.at = now]) /\ Ready([g EXCEPT !.do = "logout", !.at = now])
  BY <1>2, <1>3 DEF Request, Ready, Past
<1>6. OpInv' /\ NonceInv'
  <2>. HIDE DEF g
  <2>. QED  BY <1>1, <1>4, <1>5, NonceGoesOn DEF Steps, Past
<1>. QED  BY <1>4, <1>6 DEF Inv

(* A request that is authorized acts for the same token.                   *)
LEMMA AuthorizeKeeps ==
    ASSUME AccessAssumption, Inv, NEW c \in Clients, Authorize(c)
    PROVE  Inv'
<1>. DEFINE f == op[c]
<1>1. /\ f.do = "authorize" /\ Goes(c, "run", f)
      /\ UNCHANGED Tables /\ UNCHANGED now /\ UNCHANGED cookie
  BY DEF Authorize
<1>2. f \in Request /\ Ready([f EXCEPT !.do = "run", !.at = now])
  BY <1>1 DEF Inv, OpInv, Request, Ready, Past
<1>3. OpInv' /\ NonceInv'
  BY <1>1, <1>2, TablesKept, NonceGoesOn DEF Steps, Past, Tables, sweep
<1>. QED  BY <1>1, <1>3, TablesKept DEF Inv

(* What a request that ends leaves, but for the tables it writes.          *)
LEMMA RequestEnds ==
    ASSUME Inv, NEW c \in Clients, Ends(c), TokensGrow, now' = now, nonces' = nonces,
           past' = past, \A a \in audit' \ audit : a.action # "login"
    PROVE  OpInv' /\ NonceInv' /\ CapInv'
<1>1. OpInv' /\ op'[c].do = "idle" /\ \A d \in Clients \ {c} : op'[d] = op[d]
  BY EndsKeeps DEF Inv
<1>2. \A n \in Nonces : Consumed(n)' = Consumed(n)
  BY DEF Consumed
<1>3. NonceInv'
  BY <1>1, <1>2, NoncesKept DEF Inv, Past, Logins
<1>. QED  BY <1>1, <1>3 DEF Inv, CapInv, Outstanding

(* The logout removes the session of the request.                          *)
LEMMA LogoutSessionKeeps ==
    ASSUME AccessAssumption, Inv, NEW c \in Clients, LogoutSession(c)
    PROVE  Inv'
<1>. DEFINE f == op[c]
<1>1. /\ f.do = "logout" /\ Ends(c) /\ UNCHANGED <<now, tokens, nonces, past, listed>>
      /\ sessions' = [sessions EXCEPT ![f.session] = [Absent EXCEPT !.state = "gone"]]
      /\ audit' = audit \cup {Record("logout", f.token, f.session, f.at)}
      /\ cookie' = [cookie EXCEPT ![c] = Nobody]
  BY DEF LogoutSession, sweep
<1>2. f.session \in Sessions
  BY <1>1 DEF Inv, OpInv, Ready
<1>3. cookie' \in [Clients -> Sessions \cup {Nobody}]
  BY <1>1 DEF Inv, TypeInv
<1>4. TypeInv' /\ MadeInv' /\ SessionsAreBounded' /\ AccountInv' /\ TokensGrow
  <2>1. listed' \subseteq Sessions
    BY <1>1 DEF Inv, TypeInv
  <2>. QED  BY <1>1, <1>2, <1>3, <2>1, RemovedKeeps
<1>5. \A a \in audit' \ audit : a.action # "login"
  BY <1>1 DEF Record
<1>. QED  BY <1>1, <1>4, <1>5, RequestEnds DEF Inv

(* A new token is audited, with the token that made it.                    *)
LEMMA CreateTokenKeeps ==
    ASSUME AccessAssumption, Inv, NEW c \in Clients, CreateToken(c)
    PROVE  Inv'
<1>. DEFINE f == op[c]
<1>1. f.do = "run" /\ Ends(c) /\ UNCHANGED <<now, sessions, nonces, cookie, past, listed>>
  BY DEF CreateToken, sweep
<1>2. PICK t \in Tokens \ {First}, scopes \in {Scopes, {"content"}}, expires \in {f.at + 1, Never} :
        /\ ~tokens[t].made
        /\ tokens' = [tokens EXCEPT ![t] = [NoToken EXCEPT !.made = TRUE, !.created = f.at,
                                            !.expires = expires, !.scopes = scopes]]
        /\ audit' = audit \cup {Record("create", f.token, t, f.at)}
  BY DEF CreateToken
<1>3. /\ expires \in Nat /\ scopes \in SUBSET Scopes /\ f.at \in Nat
      /\ f.token \in Tokens /\ tokens[f.token].made
  BY <1>1, <1>2 DEF Inv, OpInv, Ready, Request, Never, AccessAssumption, Scopes
<1>4. /\ tokens' \in [Tokens -> Token] /\ tokens'[t].made /\ ~tokens'[t].revoked
      /\ tokens'[t].created = f.at
      /\ \A u \in Tokens \ {t} : tokens'[u] = tokens[u]
  BY <1>2, <1>3 DEF Inv, TypeInv, Token, NoToken
<1>5. TypeInv' /\ TokensGrow /\ MadeInv' /\ SessionsAreBounded'
  BY <1>1, <1>4 DEF Inv, TypeInv, TokensGrow, MadeInv, SessionsAreBounded
<1>6. AccountInv'
  <2>0. PICK new : new = Record("create", f.token, t, f.at)
    OBVIOUS
  <2>1. /\ new.target = t /\ new.action = "create" /\ new.by = f.token
        /\ new.expires = f.at + AuditTTL
    BY <2>0 DEF Record
  <2>2. audit \subseteq audit' /\ new \in audit'
    BY <1>2, <2>0
  <2>3. MadeBy(t, new)'
    BY <1>2, <1>3, <1>4, <1>5, <2>1 DEF MadeBy, TokensGrow
  <2>4. Accounted(t)'
    BY <1>4, <2>2, <2>3 DEF Accounted
  <2>5. ASSUME NEW u \in Tokens \ {t}  PROVE Accounted(u)'
    BY <1>1, <1>4, <1>5, <2>2, AccountedStays DEF Inv, TypeInv, AccountInv
  <2>. QED  BY <2>4, <2>5 DEF AccountInv
<1>7. \A a \in audit' \ audit : a.action # "login"
  BY <1>2 DEF Record
<1>. QED  BY <1>1, <1>5, <1>6, <1>7, RequestEnds DEF Inv

(* A revocation is audited with the token that asked for it, which was     *)
(* made and stays so.                                                      *)
LEMMA RevokeTokenKeeps ==
    ASSUME AccessAssumption, Inv, NEW c \in Clients, RevokeToken(c)
    PROVE  Inv'
<1>. DEFINE f == op[c]
<1>1. f.do = "run" /\ Ends(c) /\ UNCHANGED <<now, sessions, nonces, cookie, past, listed>>
  BY DEF RevokeToken, sweep
<1>2. PICK t \in Tokens : /\ tokens[t].made
                          /\ tokens' = [tokens EXCEPT ![t].revoked = TRUE,
                                          ![t].revokedAt = IF tokens[t].revoked THEN @ ELSE now]
                          /\ audit' = audit \cup {Record("revoke", f.token, t, now)}
  BY DEF RevokeToken
<1>3. f.token \in Tokens /\ tokens[f.token].made
  BY <1>1 DEF Inv, OpInv, Ready
<1>4. /\ tokens' \in [Tokens -> Token] /\ tokens'[t].revoked
      /\ \A u \in Tokens : tokens'[u].made = tokens[u].made /\ tokens'[u].created = tokens[u].created
      /\ \A u \in Tokens \ {t} : tokens'[u] = tokens[u]
      /\ tokens'[t].revokedAt = IF tokens[t].revoked THEN tokens[t].revokedAt ELSE now
  BY <1>2 DEF Inv, TypeInv, Token
<1>5. TypeInv' /\ TokensGrow /\ MadeInv' /\ SessionsAreBounded'
  BY <1>1, <1>2, <1>4 DEF Inv, TypeInv, TokensGrow, MadeInv, SessionsAreBounded
<1>6. AccountInv'
  <2>0. PICK new : new = Record("revoke", f.token, t, now)
    OBVIOUS
  <2>1. /\ new.target = t /\ new.action = "revoke" /\ new.by = f.token
        /\ new.expires = now + AuditTTL
    BY <2>0 DEF Record
  <2>2. audit \subseteq audit' /\ new \in audit'
    BY <1>2, <2>0
  <2>3. ASSUME NEW u \in Tokens \ {t}  PROVE Accounted(u)'
    BY <1>1, <1>4, <1>5, <2>2, AccountedStays DEF Inv, TypeInv, AccountInv
  <2>4. tokens'[t].made /\ Kept(tokens[t].created)' => \E a \in audit' : MadeBy(t, a)'
    <3>1. \A a : MadeBy(t, a) => MadeBy(t, a)'
      BY <1>4 DEF MadeBy
    <3>. QED  BY <1>1, <1>4, <2>2, <3>1 DEF Inv, AccountInv, Accounted, Kept
  <2>5. Kept(tokens[t].revokedAt)' => \E a \in audit' : RevokedBy(t, a)'
    <3>1. CASE tokens[t].revoked
      <4>1. \A a : RevokedBy(t, a) => RevokedBy(t, a)'
        BY <1>4, <3>1 DEF RevokedBy
      <4>. QED  BY <1>1, <1>4, <2>2, <3>1, <4>1 DEF Inv, AccountInv, Accounted, Kept
    <3>2. CASE ~tokens[t].revoked
      <4>1. RevokedBy(t, new)'
        BY <1>3, <1>4, <2>1, <3>2 DEF RevokedBy
      <4>. QED  BY <2>2, <4>1
    <3>. QED  BY <3>1, <3>2
  <2>. QED  BY <2>3, <2>4, <2>5 DEF AccountInv, Accounted
<1>7. \A a \in audit' \ audit : a.action # "login"
  BY <1>2 DEF Record
<1>. QED  BY <1>1, <1>5, <1>6, <1>7, RequestEnds DEF Inv

(* The sweep deletes what is over, and keeps the logins in mind.           *)
LEMMA SweepKeeps ==
    ASSUME AccessAssumption, Inv, Sweep
    PROVE  Inv'
<1>1. ASSUME UNCHANGED <<now, tokens, nonces, op, cookie>>  PROVE OpInv' /\ CapInv' /\ TokensGrow
  BY <1>1 DEF Inv, OpInv, Ready, CapInv, Outstanding, TokensGrow, TypeInv
<1>2. ASSUME UNCHANGED <<nonces, op>>, Logins' = Logins  PROVE NonceInv'
  BY <1>2 DEF Inv, NonceInv, Consumed
<1>3. ASSUME NEW a \in audit, SweepAudit(a)  PROVE Inv'
  <2>1. /\ a.expires <= now /\ audit' = audit \ {a}
        /\ UNCHANGED <<now, tokens, sessions, nonces, op, cookie, listed>>
    BY <1>3 DEF SweepAudit
  <2>2. Logins' = Logins
    BY <1>3 DEF SweepAudit, Logins
  <2>3. now \in Nat /\ TypeInv' /\ MadeInv' /\ SessionsAreBounded'
    BY <2>1 DEF Inv, TypeInv, MadeInv, SessionsAreBounded
  <2>5. AccountInv'
    <3>1. ASSUME NEW t \in Tokens  PROVE Accounted(t)'
      <4>1. /\ tokens[t].created + AuditTTL \in Nat /\ tokens[t].revokedAt + AuditTTL \in Nat
        BY DEF Inv, TypeInv, Token, AccessAssumption
      <4>2. \A b : MadeBy(t, b)' = MadeBy(t, b) /\ RevokedBy(t, b)' = RevokedBy(t, b)
        BY <2>1 DEF MadeBy, RevokedBy
      <4>3. ASSUME NEW b \in audit, MadeBy(t, b), Kept(tokens[t].created)  PROVE b \in audit'
        BY <2>1, <2>3, <4>1, <4>3 DEF MadeBy, Kept
      <4>4. ASSUME NEW b \in audit, RevokedBy(t, b), Kept(tokens[t].revokedAt)  PROVE b \in audit'
        BY <2>1, <2>3, <4>1, <4>4 DEF RevokedBy, Kept
      <4>. QED  BY <2>1, <4>2, <4>3, <4>4 DEF Inv, AccountInv, Accounted, Kept
    <3>. QED  BY <3>1 DEF AccountInv
  <2>. QED  BY <1>1, <1>2, <2>1, <2>2, <2>3, <2>5 DEF Inv
<1>4. CASE ListSessions
  <2>1. /\ listed' \subseteq Sessions
        /\ UNCHANGED <<now, tokens, sessions, nonces, op, cookie, audit, past>>
    BY <1>4 DEF ListSessions, Over
  <2>2. TypeInv' /\ MadeInv' /\ SessionsAreBounded' /\ AccountInv'
    BY <2>1, AccountKept DEF Inv, TypeInv, MadeInv, SessionsAreBounded
  <2>. QED  BY <1>1, <1>2, <2>1, <2>2 DEF Inv, Logins
<1>5. ASSUME NEW s \in listed, SweepSession(s)  PROVE Inv'
  <2>1. /\ s \in Sessions /\ listed' \subseteq Sessions
        /\ sessions' = [sessions EXCEPT ![s] = [Absent EXCEPT !.state = "gone"]]
        /\ UNCHANGED <<now, tokens, nonces, op, cookie, audit, past>>
    BY <1>5 DEF SweepSession, Inv, TypeInv
  <2>2. cookie' \in [Clients -> Sessions \cup {Nobody}]
    BY <2>1 DEF Inv, TypeInv
  <2>. QED  BY <1>1, <1>2, <2>1, <2>2, RemovedKeeps DEF Inv, Logins
<1>6. ASSUME NEW n \in Nonces, SweepNonce(n)  PROVE Inv'
  <2>1. /\ Spent(n, now) /\ nonces' = [nonces EXCEPT ![n].state = "gone"]
        /\ UNCHANGED <<now, tokens, sessions, op, cookie, audit, past, listed>>
    BY <1>6 DEF SweepNonce, sweep
  <2>2. /\ nonces' \in [Nonces -> Nonce] /\ nonces'[n].state = "gone"
        /\ \A m \in Nonces \ {n} : nonces'[m] = nonces[m]
    BY <2>1 DEF Inv, TypeInv, Nonce
  <2>3. TypeInv' /\ MadeInv' /\ SessionsAreBounded' /\ AccountInv' /\ OpInv'
    BY <2>1, <2>2, AccountKept DEF Inv, TypeInv, MadeInv, SessionsAreBounded, OpInv, Ready
  <2>4. \A m \in Nonces : Consumed(m) => Consumed(m)'
    BY <2>2 DEF Consumed
  <2>5. NonceInv'
    BY <2>1, <2>4, NoncesKept DEF Inv, Logins
  <2>6. CapInv'
    <3>1. Outstanding(now)' \subseteq Outstanding(now)
      BY <2>1, <2>2 DEF Outstanding
    <3>. QED  BY <3>1, CapKept DEF Inv
  <2>. QED  BY <2>3, <2>5, <2>6 DEF Inv
<1>. QED  BY <1>3, <1>4, <1>5, <1>6 DEF Sweep

-----------------------------------------------------------------------------
(* Theorems                                                                *)

(* Nothing is stored, and nobody asks, at first.                           *)
LEMMA InvInit == AccessAssumption /\ Init => Inv
<1>. SUFFICES ASSUME AccessAssumption, Init  PROVE Inv
  OBVIOUS
<1>1. NoToken \in Token /\ ~NoToken.made /\ ~NoToken.revoked
  BY DEF NoToken, Token, Never, AccessAssumption
<1>2. Absent \in Session /\ Absent.state = "free"
  BY DEF Absent, Session
<1>3. Idle \in Request /\ Idle.do = "idle" /\ Idle.at = 0
  BY DEF Idle, Request, Steps
<1>4. TypeInv
  BY <1>1, <1>2 DEF Init, TypeInv, Nonce
<1>5. OpInv /\ NonceInv
  BY <1>3 DEF Init, OpInv, NonceInv, Ready, Past, Logins
<1>6. MadeInv /\ SessionsAreBounded /\ AccountInv
  BY <1>1, <1>2 DEF Init, MadeInv, SessionsAreBounded, AccountInv, Accounted
<1>7. CapInv
  <2>1. Outstanding(now) = {}
    BY DEF Init, Outstanding
  <2>. QED  BY <2>1, FS_EmptySet DEF CapInv, AccessAssumption
<1>. QED  BY <1>4, <1>5, <1>6, <1>7 DEF Inv

(* Every step of every client keeps the invariant.                         *)
LEMMA InvNext == AccessAssumption /\ Inv /\ [Next]_vars => Inv'
<1>. SUFFICES ASSUME AccessAssumption, Inv, [Next]_vars  PROVE Inv'
  OBVIOUS
<1>1. CASE UNCHANGED vars
  BY <1>1, AccountKept DEF vars, sweep, Inv, TypeInv, OpInv, Ready, NonceInv, Consumed, Logins, CapInv,
              Outstanding, MadeInv, SessionsAreBounded
<1>2. CASE Start \/ Tick \/ Sweep
  BY <1>2, StartKeeps, TickKeeps, SweepKeeps
<1>3. ASSUME NEW c \in Clients,
             \/ Fail(c) \/ Begin(c) \/ CreateLoginNonce(c) \/ ConsumeLoginNonce(c) \/ CheckToken(c)
             \/ ReplaceSession(c) \/ CreateSession(c) \/ AuthenticateSession(c) \/ Authorize(c)
             \/ LogoutSession(c) \/ CreateToken(c) \/ RevokeToken(c)
      PROVE  Inv'
  BY <1>3, FailKeeps, BeginKeeps, CreateLoginNonceKeeps, ConsumeLoginNonceKeeps, CheckTokenKeeps,
     ReplaceSessionKeeps, CreateSessionKeeps, AuthenticateSessionKeeps, AuthorizeKeeps,
     LogoutSessionKeeps, CreateTokenKeeps, RevokeTokenKeeps
<1>. QED  BY <1>1, <1>2, <1>3 DEF Next

(* Requests, nonces, sessions and tokens agree in every behaviour.         *)
THEOREM InvHolds ==
    ASSUME AccessAssumption
    PROVE  Spec => []Inv
BY InvInit, InvNext, PTL DEF Spec

(* ConsumeLoginNonce, AuthenticateSession, CreateToken, RevokeToken: a     *)
(* nonce logs in once and never more are open than the cap, sessions end   *)
(* in time, and every token and revocation is audited for as long as       *)
(* audits are kept, for any number of clients, however long their          *)
(* transactions wait and whatever the runner sweeps meanwhile.             *)
THEOREM EverythingIsAccountedFor ==
    ASSUME AccessAssumption
    PROVE  Spec => []AccessIsAccountedFor
<1>1. Inv => AccessIsAccountedFor
  <2>1. ASSUME Inv, NEW t \in Tokens, tokens[t].made, Kept(tokens[t].created)
        PROVE  \E a \in audit : /\ a.target = t
                                /\ IF t = First THEN a.action = "bootstrap"
                                   ELSE a.action = "create" /\ tokens[a.by].made
    BY <2>1 DEF Inv, AccountInv, Accounted, MadeBy
  <2>2. ASSUME Inv, NEW t \in Tokens, tokens[t].revoked, Kept(tokens[t].revokedAt)
        PROVE  \E a \in audit : a.target = t /\ a.action = "revoke" /\ tokens[a.by].made
    BY <2>2 DEF Inv, AccountInv, Accounted, RevokedBy
  <2>3. Inv => TokensAreAccountedFor
    BY <2>1, <2>2 DEF TokensAreAccountedFor
  <2>. QED  BY <2>3 DEF Inv, NonceInv, CapInv, AccessIsAccountedFor, NoncesAreSpent
<1>. QED  BY <1>1, InvHolds, PTL

(* Authorize: a request that was authenticated before its token was        *)
(* revoked does not get past the authorization after it.                   *)
THEOREM RevokedTokensStop ==
    ASSUME AccessAssumption
    PROVE  Spec => AuthorityIsCurrent
<1>1. ASSUME Inv, [Next]_vars, NEW c \in Clients, op[c].do # "run", op'[c].do = "run"
      PROVE  ~tokens[op'[c].token].revoked
  <2>1. op \in [Clients -> Request] /\ cookie \in [Clients -> Sessions \cup {Nobody}]
    BY <1>1 DEF Inv, OpInv, TypeInv
  <2>2. Idle \in Request /\ Idle.do = "idle"
    BY DEF Idle, Request, Steps
  <2>3. ASSUME NEW d \in Clients, Ends(d)  PROVE FALSE
    BY <1>1, <2>1, <2>2, <2>3 DEF Ends
  <2>4. CASE Authorize(c)
    BY <2>1, <2>4 DEF Authorize, StillLive, Live, Tables, Goes, Request
  <2>5. ASSUME NEW d \in Clients, Authorize(d), d # c  PROVE FALSE
    BY <1>1, <2>1, <2>5 DEF Authorize, Goes
  <2>6. ASSUME NEW d \in Clients, Begin(d)  PROVE FALSE
    BY <1>1, <2>1, <2>2, <2>6 DEF Begin, Goes, Idle
  <2>7. ASSUME NEW d \in Clients,
               ConsumeLoginNonce(d) \/ CheckToken(d) \/ ReplaceSession(d) \/ AuthenticateSession(d)
        PROVE  FALSE
    BY <1>1, <2>1, <2>7 DEF ConsumeLoginNonce, CheckToken, ReplaceSession, AuthenticateSession, Goes, Request
  <2>8. CASE Start \/ Tick \/ Sweep \/ UNCHANGED vars
    BY <1>1, <2>2, <2>8 DEF Start, Tick, Sweep, SweepAudit, ListSessions, SweepSession, SweepNonce, vars
  <2>9. ASSUME NEW d \in Clients,
                \/ Fail(d) \/ CreateLoginNonce(d) \/ CreateSession(d) \/ LogoutSession(d)
                \/ CreateToken(d) \/ RevokeToken(d)
         PROVE  FALSE
    BY <2>3, <2>9 DEF Fail, CreateLoginNonce, CreateSession, LogoutSession, CreateToken, RevokeToken
  <2>. QED  BY <1>1, <2>4, <2>5, <2>6, <2>7, <2>8, <2>9 DEF Next
<1>2. ASSUME Inv, [Next]_vars  PROVE Unrevoked
  BY <1>1, <1>2 DEF Unrevoked
<1>. QED  BY <1>2, InvHolds, PTL DEF Spec, AuthorityIsCurrent

-----------------------------------------------------------------------------
(* API keys: the same of their callers                                     *)

CONSTANTS Keys, Callers, Admins, Models, MaxChanges
VARIABLES keys, call, changes, asked
K == INSTANCE Keys WITH requests <- asked

Key == [made : BOOLEAN, models : SUBSET Models, expires : (1..MaxTime) \cup {K!Never},
        disabled : BOOLEAN, revoked : Admins \cup {K!Nobody}, used : Nat \cup {-1}]
Call == [pc : {"idle", "known", "ask", "served"}, key : Keys \cup {K!Nobody},
         model : Models \cup {K!Nobody}, policy : Key]
(* Who is connected has a key, and a key that was revoked was made: it is  *)
(* never issued again.                                                     *)
KeysInv ==
    /\ now \in Nat /\ keys \in [Keys -> Key] /\ call \in [Callers -> Call]
    /\ \A c \in Callers : call[c].pc # "idle" => call[c].key \in Keys
    /\ \A k \in Keys : keys[k].revoked # K!Nobody => keys[k].made

(* Nobody is connected and no key is issued at first.                      *)
LEMMA KeysInit == K!Init => KeysInv
<1>. SUFFICES ASSUME K!Init PROVE KeysInv
  OBVIOUS
<1>1. K!NoKey \in Key
  BY DEF K!NoKey, Key, K!Never, K!Nobody
<1>2. K!NoCall \in Call
  BY <1>1 DEF K!NoCall, Call
<1>3. K!NoCall.pc = "idle" /\ K!NoKey.revoked = K!Nobody
  BY DEF K!NoCall, K!NoKey
<1>. QED  BY <1>1, <1>2, <1>3 DEF K!Init, KeysInv

(* A change by an administrator makes, changes or revokes one key.         *)
LEMMA KeyChangeKeeps ==
    ASSUME KeysInv, NEW k \in Keys, NEW key \in Key, K!Changes(k, key),
           key.revoked # K!Nobody => key.made
    PROVE  KeysInv'
BY DEF KeysInv, K!Changes, K!Nobody

(* A policy is put on a key without a change to its revocation.            *)
LEMMA PolicyOfKey ==
    ASSUME NEW key \in Key, NEW p \in K!Policies
    PROVE  /\ K!WithPolicy(key, p) \in Key
           /\ K!WithPolicy(key, p).revoked = key.revoked /\ K!WithPolicy(key, p).made = key.made
BY DEF Key, K!Policies, K!WithPolicy, K!Nobody, K!Never

(* Issuing, changing and revoking keep the invariant and the first         *)
(* revocation.                                                             *)
LEMMA AdministrationObeys ==
    ASSUME KeysInv, NEW k \in Keys, K!Issue(k) \/ K!Patch(k) \/ \E a \in Admins : K!Revoke(a, k)
    PROVE  KeysInv' /\ K!Obeys
<1>1. keys[k] \in Key /\ K!NoKey \in Key
  BY DEF KeysInv, K!NoKey, Key, K!Never, K!Nobody
<1>2. PICK key \in Key : /\ K!Changes(k, key) /\ (key.revoked # K!Nobody => key.made)
                         /\ keys[k].revoked # K!Nobody => key.revoked = keys[k].revoked
  <2>1. CASE K!Issue(k)
    <3>1. PICK p \in K!Policies : K!CreateTx(k, p)
      BY <2>1 DEF K!Issue
    <3> DEFINE key == [K!WithPolicy(K!NoKey, p) EXCEPT !.made = TRUE]
    <3>2. key \in Key /\ key.made
      BY <1>1, PolicyOfKey DEF Key, K!Nobody
    <3>3. ~keys[k].made /\ K!Changes(k, key)
      BY <3>1 DEF K!CreateTx
    <3> HIDE DEF key
    <3>. QED  BY <3>2, <3>3 DEF KeysInv
  <2>2. CASE K!Patch(k)
    <3>0. PICK p \in K!Policies, disabled \in BOOLEAN :
              /\ keys[k].made
              /\ \E old \in {keys[k], K!WithPolicy(keys[k], p)} :
                   K!Changes(k, [old EXCEPT !.disabled = disabled])
      BY <2>2 DEF K!Patch
    <3>1. PICK old \in {keys[k], K!WithPolicy(keys[k], p)} :
              keys[k].made /\ K!Changes(k, [old EXCEPT !.disabled = disabled])
      BY <3>0
    <3> DEFINE key == [old EXCEPT !.disabled = disabled]
    <3> DEFINE with == K!WithPolicy(keys[k], p)
    <3>4. with \in Key /\ with.revoked = keys[k].revoked /\ with.made = keys[k].made
      BY <1>1, PolicyOfKey
    <3>6. old \in {keys[k], with}
      BY <3>1
    <3> HIDE DEF with
    <3>2. old \in Key /\ old.revoked = keys[k].revoked /\ old.made = keys[k].made
      BY <1>1, <3>4, <3>6
    <3>3. key \in Key /\ key.revoked = old.revoked /\ key.made = old.made
      BY <3>2 DEF Key, K!Nobody
    <3>5. K!Changes(k, key)
      BY <3>1
    <3> HIDE DEF key
    <3>. QED  BY <3>1, <3>2, <3>3, <3>5
  <2>3. CASE \E a \in Admins : K!Revoke(a, k)
    <3>1. PICK a \in Admins : keys[k].made /\ K!Changes(k, K!Revoked(a, keys[k]))
      BY <2>3 DEF K!Revoke
    <3> DEFINE key == K!Revoked(a, keys[k])
    <3>2. /\ key \in Key /\ key.made = keys[k].made
          /\ keys[k].revoked # K!Nobody => key.revoked = keys[k].revoked
      BY <1>1 DEF Key, K!Revoked, K!Nobody
    <3>3. K!Changes(k, key)
      BY <3>1
    <3> HIDE DEF key
    <3>. QED  BY <3>1, <3>2, <3>3
  <2>. QED  BY <2>1, <2>2, <2>3
<1>3. KeysInv'
  BY <1>2, KeyChangeKeeps
<1>4. K!Obeys
  BY <1>2 DEF K!Obeys, K!Grants, K!Changes, KeysInv
<1>. QED  BY <1>3, <1>4

(* A caller connects, asks and leaves with its key; only the decision on a *)
(* request grants one, by the key as it is.                                *)
LEMMA CallersObey ==
    ASSUME KeysInv, NEW c \in Callers,
           \/ \E k \in Keys : K!Authenticate(c, k)
           \/ K!Request(c) \/ K!AuthorizePrincipal(c) \/ K!Disconnect(c)
    PROVE  KeysInv' /\ K!Obeys
<1>. USE DEF KeysInv
<1>1. CASE \E k \in Keys : K!Authenticate(c, k)
  <2>1. PICK k \in Keys : K!Authenticate(c, k)
    BY <1>1
  <2> DEFINE new == [K!NoCall EXCEPT !.pc = "known", !.key = k, !.policy = keys[k]]
  <2>2. new \in Call /\ new.pc = "known" /\ new.key = k
    BY DEF Call, K!NoCall, K!Nobody
  <2>3. call' = [call EXCEPT ![c] = new] /\ keys' = keys /\ now' = now
    BY <2>1 DEF K!Authenticate, K!CallStays
  <2> HIDE DEF new
  <2>. QED  BY <2>2, <2>3 DEF K!Obeys, K!Grants
<1>2. CASE K!Request(c)
  <2>1. PICK model \in Models : call' = [call EXCEPT ![c].pc = "ask", ![c].model = model]
    BY <1>2 DEF K!Request
  <2>2. /\ call' \in [Callers -> Call] /\ call'[c].pc = "ask" /\ call'[c].key = call[c].key
        /\ \A d \in Callers \ {c} : call'[d] = call[d]
    BY <2>1 DEF Call
  <2>3. keys' = keys /\ now' = now /\ call[c].pc # "idle"
    BY <1>2 DEF K!Request, K!CallStays
  <2>. QED  BY <2>2, <2>3 DEF K!Obeys, K!Grants
<1>3. CASE K!AuthorizePrincipal(c)
  <2> DEFINE k == call[c].key
  <2>1. k \in Keys /\ call[c] \in Call /\ keys[k] \in Key /\ now' = now
    BY <1>3 DEF K!AuthorizePrincipal, K!CallStays
  <2>2. CASE K!Granted(c)
    <3>1. /\ call' = [call EXCEPT ![c].pc = "served", ![c].policy = keys[k]]
          /\ keys' = [keys EXCEPT ![k].used = IF @ < now THEN now ELSE @]
      BY <1>3, <2>2 DEF K!AuthorizePrincipal
    <3>2. /\ call' \in [Callers -> Call] /\ call'[c].pc = "served" /\ call'[c].key = k
          /\ \A d \in Callers \ {c} : call'[d] = call[d]
      BY <2>1, <3>1 DEF Call
    <3>3. /\ keys' \in [Keys -> Key]
          /\ \A j \in Keys : /\ keys'[j].revoked = keys[j].revoked /\ keys'[j].made = keys[j].made
                             /\ keys'[j].disabled = keys[j].disabled
                             /\ keys'[j].expires = keys[j].expires /\ keys'[j].models = keys[j].models
      BY <2>1, <3>1 DEF Key
    <3>4. /\ keys[k].revoked = K!Nobody /\ ~keys[k].disabled /\ now < keys[k].expires
          /\ call[c].model \in keys[k].models
      BY <2>2 DEF K!Granted, K!Live, K!Allows
    <3>. QED  BY <2>1, <3>2, <3>3, <3>4 DEF K!Obeys, K!Grants
  <2>3. CASE ~K!Granted(c)
    <3>1. call' = [call EXCEPT ![c].pc = "known"] /\ keys' = keys
      BY <1>3, <2>3 DEF K!AuthorizePrincipal
    <3>2. /\ call' \in [Callers -> Call] /\ call'[c].pc = "known" /\ call'[c].key = k
          /\ \A d \in Callers \ {c} : call'[d] = call[d]
      BY <2>1, <3>1 DEF Call
    <3>. QED  BY <2>1, <3>1, <3>2 DEF K!Obeys, K!Grants
  <2>. QED  BY <2>2, <2>3
<1>4. CASE K!Disconnect(c)
  <2>1. K!NoCall \in Call /\ K!NoCall.pc = "idle"
    BY DEF Call, K!NoCall, K!NoKey, Key, K!Nobody, K!Never
  <2>2. call' = [call EXCEPT ![c] = K!NoCall] /\ keys' = keys /\ now' = now
    BY <1>4 DEF K!Disconnect, K!CallStays
  <2>. QED  BY <2>1, <2>2 DEF K!Obeys, K!Grants
<1>. QED  BY <1>1, <1>2, <1>3, <1>4

(* Authorize, AuthorizePrincipal, Revoke, Patch: however long ago a caller *)
(* was authenticated, a request is granted by the policy of its key as it  *)
(* is then, and the first revocation of a key stays, for any keys,         *)
(* callers, administrators and numbers of changes and requests.            *)
THEOREM KeysAreObeyed == K!Spec => K!AuthorityIsCurrent
<1>1. ASSUME KeysInv, [K!Next]_K!vars  PROVE KeysInv' /\ K!Obeys
  <2>1. CASE K!Tick \/ UNCHANGED K!vars
    BY <1>1, <2>1 DEF K!Tick, K!vars, KeysInv, K!Obeys, K!Grants
  <2>2. CASE \E k \in Keys : K!Issue(k) \/ K!Patch(k) \/ \E a \in Admins : K!Revoke(a, k)
    BY <1>1, <2>2, AdministrationObeys
  <2>3. CASE \E c \in Callers : \/ \E k \in Keys : K!Authenticate(c, k)
                               \/ K!Request(c) \/ K!AuthorizePrincipal(c) \/ K!Disconnect(c)
    BY <1>1, <2>3, CallersObey
  <2>. QED  BY <1>1, <2>1, <2>2, <2>3 DEF K!Next
<1>2. KeysInv /\ [K!Next]_K!vars => KeysInv' /\ [K!Obeys]_K!vars
  BY <1>1
<1>. QED  BY KeysInit, <1>2, PTL DEF K!Spec, K!AuthorityIsCurrent

-----------------------------------------------------------------------------
(* The lists (Listing), for any finite set of rows, any size of a page and *)
(* any number of changes, under the clock of this module.                  *)

CONSTANTS Rows, Limit
VARIABLES table, rows, walk
L == INSTANCE Listing

Row == [state : {"free", "stamped", "there", "gone"}, at : Nat, set : BOOLEAN]
Walk == [pc : {"idle", "walking", "done"}, filter : {"all", "set", "unset"},
         cursor : [at : Nat, id : Nat], got : Seq(Rows), due : SUBSET Rows]
Shown == {walk.got[i] : i \in DOMAIN walk.got}

(* Rows are not stamped with times to come.  Before the last page, what    *)
(* was shown is before the cursor and has its time for good, and what is   *)
(* due is still ahead or was shown.                                        *)
ListingInv ==
    /\ now \in Nat /\ now <= MaxTime /\ rows \in [Rows -> Row] /\ walk \in Walk
    /\ \A r \in Rows : rows[r].at <= now
    /\ L!IsInjective(walk.got)
    /\ walk.pc = "idle" => walk = L!NoWalk
    /\ \A r \in walk.due : L!Matches(r, walk.filter, rows)
    /\ \A r \in Shown : rows[r].state \in {"there", "gone"}
    /\ walk.pc = "walking" => /\ \A r \in Shown : ~L!After(r, walk.cursor)
                              /\ \A r \in walk.due : L!After(r, walk.cursor) \/ r \in Shown
    /\ walk.pc = "done" => walk.due \subseteq Shown

(* The operators Listing takes from the library are those this module      *)
(* takes from it.                                                          *)
LEMMA CardinalityOfListing == \A S : L!Cardinality(S) = Cardinality(S)
BY DEF L!Cardinality, Cardinality

(* A finite set of rows has an order in which each is newer than the next: *)
(* the position of a row is the number of the rows that are not older.     *)
LEMMA RowsHaveOrder ==
    ASSUME rows \in [Rows -> Row], Rows \subseteq Nat, NEW S, S \subseteq Rows, IsFiniteSet(S)
    PROVE  /\ Cardinality(S) \in Nat
           /\ L!InOrder(S) \in [1..Cardinality(S) -> S]
           /\ \A i, j \in 1..Cardinality(S) : i < j => L!Newer(L!InOrder(S)[i], L!InOrder(S)[j])
           /\ \A r \in S : \E i \in 1..Cardinality(S) : L!InOrder(S)[i] = r
<1> DEFINE Ahead(r) == {q \in S : ~L!Newer(r, q)}
           n == Cardinality(S)
           rank == [r \in S |-> Cardinality(Ahead(r))]
<1>1. n \in Nat /\ IsFiniteSet(1..n) /\ Cardinality(1..n) = n
  BY FS_CardinalityType, FS_Interval
<1>2. ASSUME NEW q \in S, NEW r \in S
      PROVE  /\ q # r => (L!Newer(q, r) \/ L!Newer(r, q))
             /\ ~(L!Newer(q, r) /\ L!Newer(r, q))
             /\ \A t \in S : L!Newer(q, r) /\ L!Newer(r, t) => L!Newer(q, t)
  BY DEF L!Newer, Row
<1>3. ASSUME NEW r \in S
      PROVE  Ahead(r) \in SUBSET S /\ IsFiniteSet(Ahead(r)) /\ rank[r] \in 1..n
  <2>1. Ahead(r) \in SUBSET S /\ Ahead(r) # {}
    BY <1>2
  <2> HIDE DEF Ahead
  <2>2. /\ IsFiniteSet(Ahead(r)) /\ Cardinality(Ahead(r)) <= Cardinality(S)
        /\ Cardinality(Ahead(r)) \in Nat /\ Cardinality(Ahead(r)) # 0
    BY <2>1, FS_Subset, FS_CardinalityType, FS_EmptySet
  <2>. QED  BY <1>1, <2>1, <2>2
<1>4. ASSUME NEW q \in S, NEW r \in S, L!Newer(q, r)
      PROVE  rank[q] < rank[r]
  <2>1. Ahead(q) \in SUBSET Ahead(r) /\ r \in Ahead(r) /\ r \notin Ahead(q)
    BY <1>2, <1>4
  <2> HIDE DEF Ahead
  <2>2. Cardinality(Ahead(q)) <= Cardinality(Ahead(r)) /\ Cardinality(Ahead(q)) # Cardinality(Ahead(r))
    BY <1>3, <2>1, FS_Subset
  <2>. QED  BY <1>3, <2>2
<1>5. rank \in [S -> 1..n] /\ \A q, r \in S : rank[q] = rank[r] => q = r
  <2>1. rank \in [S -> 1..n]
    BY <1>3
  <2>2. ASSUME NEW q \in S, NEW r \in S, rank[q] = rank[r]  PROVE q = r
    BY <1>2, <1>3, <1>4, <2>2
  <2>. QED  BY <2>1, <2>2
<1> HIDE DEF rank, n
<1>6. \A i \in 1..n : \E r \in S : rank[r] = i
  <2>1. rank \in Injection(S, 1..n)
    BY <1>5 DEF Injection, IsInjective
  <2>2. rank \in Surjection(S, 1..n)
    BY <1>1, <2>1, FS_Injection DEF n
  <2>. QED  BY <2>2 DEF Surjection
<1> DEFINE s == [i \in 1..n |-> CHOOSE r \in S : rank[r] = i]
<1>7. s \in [1..n -> S] /\ \A i \in 1..n : rank[s[i]] = i
  BY <1>6
<1>8. \A i, j \in 1..n : i < j => L!Newer(s[i], s[j])
  <2> HIDE DEF s
  <2>. SUFFICES ASSUME NEW i \in 1..n, NEW j \in 1..n, i < j  PROVE L!Newer(s[i], s[j])
    OBVIOUS
  <2>1. s[i] \in S /\ s[j] \in S /\ rank[s[i]] = i /\ rank[s[j]] = j
    BY <1>7
  <2>2. s[i] # s[j] /\ ~(rank[s[j]] < rank[s[i]])
    BY <1>1, <2>1
  <2>. QED  BY <1>2, <1>4, <2>1, <2>2
<1>9. \E o \in [1..n -> S] : \A i, j \in DOMAIN o : i < j => L!Newer(o[i], o[j])
  <2> HIDE DEF s
  <2>1. DOMAIN s = 1..n
    BY <1>7
  <2>. QED  BY <1>7, <1>8, <2>1
<1> HIDE DEF s
<1> DEFINE o == L!InOrder(S)
<1>10. o \in [1..n -> S] /\ \A i, j \in 1..n : i < j => L!Newer(o[i], o[j])
  <2>1. o = CHOOSE t \in [1..n -> S] : \A i, j \in DOMAIN t : i < j => L!Newer(t[i], t[j])
    BY CardinalityOfListing, Zenon DEF L!InOrder, n
  <2>2. o \in [1..n -> S] /\ \A i, j \in DOMAIN o : i < j => L!Newer(o[i], o[j])
    BY <1>9, <2>1, Zenon
  <2>. QED  BY <2>2
<1> HIDE DEF o
<1>11. \A r \in S : \E i \in 1..n : o[i] = r
  <2>1. ASSUME NEW i \in 1..n, NEW j \in 1..n, o[i] = o[j]  PROVE i = j
    <3>1. o[i] \in S /\ o[j] \in S /\ (i < j => L!Newer(o[i], o[j])) /\ (j < i => L!Newer(o[j], o[i]))
      BY <1>10
    <3>2. ~L!Newer(o[i], o[j]) /\ ~L!Newer(o[j], o[i])
      BY <1>2, <2>1, <3>1
    <3>. QED  BY <1>1, <3>1, <3>2
  <2>2. o \in Injection(1..n, S)
    BY <1>10, <2>1 DEF Injection, IsInjective
  <2>3. o \in Surjection(1..n, S)
    BY <1>1, <2>2, FS_Injection DEF n
  <2>. QED  BY <2>3 DEF Surjection
<1>. QED  BY <1>1, <1>10, <1>11 DEF o, n

(* Whatever a writer does to a row, its time is that of its stamping, and  *)
(* a row that was there is there or gone: the walk stays as complete.      *)
LEMMA WritesKeep ==
    ASSUME ListingInv, NEW q \in Rows, NEW row \in Row, L!Writes([rows EXCEPT ![q] = row]),
           row.at <= now,
           \/ rows[q].state = "free" /\ row.state = "stamped"
           \/ /\ row.state \in {"there", "gone"} /\ row.at = rows[q].at
              /\ rows[q].state \in {"stamped", "there"}
    PROVE  ListingInv'
<1> DEFINE due == {r \in walk.due : L!Matches(r, walk.filter, [rows EXCEPT ![q] = row])}
<1>1. rows' = [rows EXCEPT ![q] = row] /\ walk' = [walk EXCEPT !.due = due] /\ now' = now
  BY Zenon DEF L!Writes
<1>2. /\ rows' \in [Rows -> Row] /\ rows \in [Rows -> Row]
      /\ \A r \in Rows : rows'[r].at <= now' /\ (r # q => rows'[r] = rows[r])
      /\ rows'[q] = row
  BY <1>1 DEF ListingInv
<1>3. due \in SUBSET walk.due /\ walk.due \in SUBSET Rows /\ \A r \in due : L!Matches(r, walk.filter, rows')
  BY <1>1 DEF ListingInv, Walk
<1> HIDE DEF due
<1>4. /\ walk' \in Walk /\ walk'.got = walk.got /\ walk'.pc = walk.pc /\ walk'.due = due
      /\ walk'.filter = walk.filter /\ walk'.cursor = walk.cursor
  BY <1>1, <1>3 DEF ListingInv, Walk
<1>5. Shown' = Shown /\ \A r \in Shown : r \in Rows
  BY <1>4 DEF Shown, ListingInv, Walk
<1>6. \A r \in Rows : rows[r].state \in {"there", "gone"} =>
        rows'[r].state \in {"there", "gone"} /\ rows'[r].at = rows[r].at
  BY <1>2
<1>7. \A r \in due : rows[r].state = "there"
  BY <1>3 DEF L!Matches, ListingInv
<1>8. walk.pc = "idle" => walk' = L!NoWalk
  <2>. SUFFICES ASSUME walk.pc = "idle"  PROVE walk' = L!NoWalk
    OBVIOUS
  <2>1. walk = L!NoWalk /\ due = {}
    BY <1>3 DEF ListingInv, L!NoWalk
  <2>. QED  BY <1>1, <2>1 DEF L!NoWalk
<1>9. L!IsInjective(walk'.got)
  BY <1>4 DEF ListingInv
<1>10. ASSUME walk.pc = "walking"
       PROVE  /\ \A r \in Shown' : ~(L!After(r, walk.cursor)')
              /\ \A r \in due : L!After(r, walk.cursor)' \/ r \in Shown'
  BY <1>3, <1>4, <1>5, <1>6, <1>7, <1>10 DEF ListingInv, L!After
<1>11. walk.pc = "done" => due \subseteq Shown'
  BY <1>3, <1>5 DEF ListingInv
<1>12. now' \in Nat /\ now' <= MaxTime /\ \A r \in Shown' : rows'[r].state \in {"there", "gone"}
  BY <1>1, <1>5, <1>6 DEF ListingInv
<1>13. \A r \in walk'.due : L!Matches(r, walk'.filter, rows')
  BY <1>3, <1>4
<1>. QED  BY <1>2, <1>4, <1>8, <1>9, <1>10, <1>11, <1>12, <1>13, Zenon DEF ListingInv

(* A row is stamped, inserted, changed or erased.                          *)
LEMMA WritersKeep ==
    ASSUME ListingInv, NEW r \in Rows, L!Stamp(r) \/ L!Insert(r) \/ L!Change(r) \/ L!Erase(r)
    PROVE  ListingInv'
<1>1. rows \in [Rows -> Row] /\ now \in Nat /\ rows[r].at <= now /\ rows[r] \in Row
  BY DEF ListingInv
<1>0. ASSUME NEW row \in Row, L!Writes([rows EXCEPT ![r] = row]),
             row.at = now, row.state = "stamped", rows[r].state = "free"
      PROVE  ListingInv'
  <2>1. row.at <= now
    BY <1>0, <1>1
  <2>. QED  BY <1>0, <2>1, WritesKeep, Zenon
<1>2. CASE L!Stamp(r)
  <2> DEFINE row == [rows[r] EXCEPT !.state = "stamped", !.at = now]
  <2>1. row \in Row /\ row.at = now /\ row.state = "stamped"
    BY <1>1 DEF Row
  <2>2. [rows EXCEPT ![r] = row] = [rows EXCEPT ![r].state = "stamped", ![r].at = now]
    BY <1>1 DEF Row
  <2>3. L!Writes([rows EXCEPT ![r] = row]) /\ rows[r].state = "free"
    BY <1>2, <2>2 DEF L!Stamp
  <2> HIDE DEF row
  <2>. QED  BY <1>0, <2>1, <2>3
<1>3. ASSUME NEW row \in Row, L!Writes([rows EXCEPT ![r] = row]),
             row.state \in {"there", "gone"}, row.at = rows[r].at, rows[r].state \in {"stamped", "there"}
      PROVE  ListingInv'
  BY <1>1, <1>3, WritesKeep
<1>4. CASE L!Insert(r)
  <2> DEFINE row == [rows[r] EXCEPT !.state = "there"]
  <2>1. row \in Row /\ row.at = rows[r].at /\ row.state = "there"
    BY <1>1 DEF Row
  <2>2. [rows EXCEPT ![r] = row] = [rows EXCEPT ![r].state = "there"]
    BY <1>1 DEF Row
  <2>3. L!Writes([rows EXCEPT ![r] = row]) /\ rows[r].state = "stamped"
    BY <1>4, <2>2 DEF L!Insert
  <2> HIDE DEF row
  <2>. QED  BY <1>3, <2>1, <2>3
<1>5. CASE L!Change(r)
  <2> DEFINE row == [rows[r] EXCEPT !.set = ~rows[r].set]
  <2>1. row \in Row /\ row.at = rows[r].at /\ row.state = rows[r].state
    BY <1>1 DEF Row
  <2>2. [rows EXCEPT ![r] = row] = [rows EXCEPT ![r].set = ~rows[r].set]
    BY <1>1 DEF Row
  <2>3. L!Writes([rows EXCEPT ![r] = row]) /\ rows[r].state = "there"
    BY <1>5, <2>2 DEF L!Change
  <2> HIDE DEF row
  <2>. QED  BY <1>3, <2>1, <2>3
<1>6. CASE L!Erase(r)
  <2> DEFINE row == [rows[r] EXCEPT !.state = "gone"]
  <2>1. row \in Row /\ row.at = rows[r].at /\ row.state = "gone"
    BY <1>1 DEF Row
  <2>2. [rows EXCEPT ![r] = row] = [rows EXCEPT ![r].state = "gone"]
    BY <1>1 DEF Row
  <2>3. L!Writes([rows EXCEPT ![r] = row]) /\ rows[r].state = "there"
    BY <1>6, <2>2 DEF L!Erase
  <2> HIDE DEF row
  <2>. QED  BY <1>3, <2>1, <2>3
<1>. QED  BY <1>2, <1>4, <1>5, <1>6

(* Nothing is shown at first; time passes.                                 *)
LEMMA ListingInit == L!ListingAssumption /\ L!Init => ListingInv
BY DEF L!ListingAssumption, L!Init, ListingInv, L!NoWalk, L!Start, Walk, Row, Shown, L!IsInjective, L!Matches

LEMMA ListingTick ==
    ASSUME L!ListingAssumption, ListingInv, L!Tick \/ UNCHANGED L!vars
    PROVE  ListingInv'
<1>1. now' \in Nat /\ now <= now' /\ now' <= MaxTime /\ rows' = rows /\ walk' = walk
  BY DEF ListingInv, L!Tick, L!vars, L!ListingAssumption
<1>2. Shown' = Shown
  BY <1>1 DEF Shown
<1>3. \A r \in Rows : rows[r].at \in Nat /\ rows[r].at <= now
  BY DEF ListingInv, Row
<1>4. \A r \in Rows : rows'[r].at <= now'
  BY <1>1, <1>3 DEF ListingInv
<1>5. /\ \A r \in walk'.due : L!Matches(r, walk'.filter, rows')
      /\ \A r \in Shown' : L!After(r, walk.cursor)' <=> L!After(r, walk.cursor)
      /\ \A r \in walk'.due : L!After(r, walk.cursor)' <=> L!After(r, walk.cursor)
  BY <1>1 DEF ListingInv, L!After
<1>. QED  BY <1>1, <1>2, <1>4, <1>5 DEF ListingInv

(* A walk begins before the first row: what matches is ahead.              *)
LEMMA BeginKeepsListing ==
    ASSUME L!ListingAssumption, ListingInv, L!Begin
    PROVE  ListingInv'
<1>1. PICK f \in {"all", "set", "unset"} :
        /\ walk' = [L!NoWalk EXCEPT !.pc = "walking", !.filter = f,
                                    !.due = {r \in Rows : L!Matches(r, f, rows)}]
        /\ UNCHANGED <<now, rows>>
  BY Zenon DEF L!Begin
<1> DEFINE due == {r \in Rows : L!Matches(r, f, rows)}
<1>2. due \in SUBSET Rows /\ \A r \in due : L!Matches(r, f, rows)
  OBVIOUS
<1>3. walk' = [L!NoWalk EXCEPT !.pc = "walking", !.filter = f, !.due = due]
  BY <1>1
<1> HIDE DEF due
<1>4. /\ walk' \in Walk /\ walk'.got = <<>> /\ walk'.pc = "walking" /\ walk'.due = due
      /\ walk'.filter = f /\ walk'.cursor = L!Start
  <2>1. L!NoWalk.got = <<>> /\ <<>> \in Seq(Rows) /\ L!NoWalk.cursor = L!Start
    BY DEF L!NoWalk
  <2>2. L!Start \in [at : Nat, id : Nat]
    BY DEF L!Start, L!ListingAssumption
  <2>3. walk' = [pc |-> "walking", filter |-> f, cursor |-> L!Start, got |-> <<>>, due |-> due]
    BY <1>3 DEF L!NoWalk
  <2>. QED  BY <1>2, <2>1, <2>2, <2>3 DEF Walk
<1>5. Shown' = {} /\ L!IsInjective(walk'.got)
  BY <1>4 DEF Shown, L!IsInjective
<1>6. \A r \in due : L!After(r, walk.cursor)'
  BY <1>1, <1>2, <1>4 DEF L!After, L!Start, ListingInv, L!ListingAssumption, Row
<1>. QED  BY <1>1, <1>2, <1>4, <1>5, <1>6 DEF ListingInv
(* What is appended comes after what was there.                            *)
LEMMA Appended ==
    \A a, b \in Seq(Rows) :
        /\ a \o b \in Seq(Rows) /\ DOMAIN (a \o b) = 1..(Len(a) + Len(b))
        /\ \A i \in 1..Len(a) : (a \o b)[i] = a[i]
        /\ \A i \in 1..Len(b) : (a \o b)[Len(a) + i] = b[i]
<1>. SUFFICES ASSUME NEW a \in Seq(Rows), NEW b \in Seq(Rows)
     PROVE  /\ a \o b \in Seq(Rows) /\ DOMAIN (a \o b) = 1..(Len(a) + Len(b))
            /\ \A i \in 1..Len(a) : (a \o b)[i] = a[i]
            /\ \A i \in 1..Len(b) : (a \o b)[Len(a) + i] = b[i]
  BY Zenon
<1>1. a \o b \in Seq(Rows) /\ Len(a) \in Nat /\ Len(b) \in Nat /\ Len(a \o b) = Len(a) + Len(b)
  OBVIOUS
<1>2. DOMAIN (a \o b) = 1..(Len(a) + Len(b))
  BY <1>1
<1>3. \A i \in 1..Len(a) : (a \o b)[i] = a[i]
  OBVIOUS
<1>4. \A i \in 1..Len(b) : (a \o b)[Len(a) + i] = b[i]
  OBVIOUS
<1>. QED  BY <1>1, <1>2, <1>3, <1>4

(* A page shows what it finds first, and its last row is the next cursor;  *)
(* what is due was found, so it is shown or still ahead.                   *)
LEMMA PageKeeps ==
    ASSUME L!ListingAssumption, ListingInv, L!Page
    PROVE  ListingInv'
<1> DEFINE S == {r \in Rows : L!Matches(r, walk.filter, rows) /\ L!After(r, walk.cursor)}
           n == Cardinality(S)
           found == L!Found
<1>1. /\ rows \in [Rows -> Row] /\ Rows \subseteq Nat /\ S \in SUBSET Rows /\ IsFiniteSet(S)
      /\ Limit \in Nat /\ Limit > 0
  <2>1. S \in SUBSET Rows /\ IsFiniteSet(Rows)
    BY DEF L!ListingAssumption, IsFiniteSet, L!IsFiniteSet
  <2> HIDE DEF S
  <2>2. IsFiniteSet(S)
    BY <2>1, FS_Subset
  <2>. QED  BY <2>1, <2>2 DEF L!ListingAssumption, ListingInv
<1>2. \A r \in S : /\ r \in Rows /\ rows[r].state = "there" /\ L!After(r, walk.cursor)
                   /\ L!Matches(r, walk.filter, rows)
  BY DEF L!Matches
<1>3. \A r \in walk.due : r \in S \/ r \in Shown
  BY DEF ListingInv, L!Page, Walk
<1>4. found = L!InOrder(S)
  BY Zenon DEF L!Found
<1>5. walk.pc = "walking" /\ walk \in Walk /\ walk' = L!trimPage(found) /\ rows' = rows /\ now' = now
  BY DEF L!Page, ListingInv
<1> HIDE DEF S, found
<1>6. /\ n \in Nat /\ found \in [1..n -> S] /\ \A r \in S : \E i \in 1..n : found[i] = r
      /\ \A i, j \in 1..n : i < j => L!Newer(found[i], found[j])
  BY <1>1, <1>4, RowsHaveOrder
<1> HIDE DEF n
<1>7. found \in Seq(Rows) /\ Len(found) = n /\ DOMAIN found = 1..n /\ walk.got \in Seq(Rows)
  <2>1. found \in [1..n -> Rows]
    BY <1>1, <1>6
  <2>2. found \in Seq(Rows)
    BY <1>6, <2>1
  <2>3. Len(found) = n /\ DOMAIN found = 1..n
    BY <1>6, <2>1, <2>2
  <2>. QED  BY <1>5, <2>2, <2>3 DEF Walk
<1>8. \A i \in 1..n : found[i] \in S
  BY <1>6
<1>9. ASSUME NEW m \in 0..n, NEW c \in [at : Nat, id : Nat], NEW to \in {"walking", "done"},
             walk' = [walk EXCEPT !.pc = to, !.cursor = c, !.got = walk.got \o SubSeq(found, 1, m)],
             to = "done" => m = n,
             to = "walking" => m > 0 /\ c = [at |-> rows[found[m]].at, id |-> found[m]]
      PROVE  ListingInv'
  <2> DEFINE g == walk.got
             k == Len(g)
  <2>1. k \in Nat /\ DOMAIN g = 1..k /\ \A i \in 1..k : g[i] \in Rows /\ g[i] \in Shown
    BY <1>7 DEF Shown
  <2>2. /\ walk'.got = g \o SubSeq(found, 1, m) /\ walk'.pc = to /\ walk'.cursor = c
        /\ walk'.due = walk.due /\ walk'.filter = walk.filter
    BY <1>5, <1>9 DEF Walk
  <2> DEFINE h == walk'.got
  <2>3. /\ h \in Seq(Rows) /\ DOMAIN h = 1..(k+m)
        /\ \A i \in 1..k : h[i] = g[i]
        /\ \A i \in 1..m : h[k+i] = found[i]
    <3> DEFINE page == SubSeq(found, 1, m)
    <3>1. page \in Seq(Rows) /\ Len(page) = m
      BY <1>6, <1>7
    <3>2. \A i \in 1..m : page[i] = found[i]
      BY <1>6, <1>7
    <3>3. h = g \o page /\ g \in Seq(Rows)
      BY <1>7, <2>2
    <3> HIDE DEF page, g, h
    <3>4. /\ g \o page \in Seq(Rows) /\ DOMAIN (g \o page) = 1..(Len(g) + Len(page))
          /\ \A i \in 1..Len(g) : (g \o page)[i] = g[i]
          /\ \A i \in 1..Len(page) : (g \o page)[Len(g) + i] = page[i]
      BY <3>1, <3>3, Appended, Zenon
    <3> DEFINE joined == g \o page
    <3>5. h = joined /\ k = Len(g)
      BY <3>3
    <3>6. joined \in Seq(Rows) /\ DOMAIN joined = 1..(k+m) /\ \A i \in 1..k : joined[i] = g[i]
      BY <3>1, <3>4, Zenon
    <3>7. \A i \in 1..m : joined[k+i] = page[i]
      BY <3>1, <3>4, Zenon
    <3> HIDE DEF joined, k
    <3>. QED  BY <3>2, <3>5, <3>6, <3>7, Zenon DEF h, g
  <2>4. walk' \in Walk
    BY <1>5, <1>9, <2>2, <2>3 DEF Walk
  <2> HIDE DEF g, k
  <2>5. \A i \in 1..(k+m) : i \in 1..k \/ (i-k \in 1..m /\ i = k + (i-k))
    BY <1>6, <2>1
  <2>6. /\ Shown \subseteq Shown' /\ \A i \in 1..m : found[i] \in Shown'
        /\ \A r \in Shown' : r \in Shown \/ \E i \in 1..m : r = found[i]
    <3>1. Shown' = {h[i] : i \in 1..(k+m)} /\ Shown = {g[i] : i \in 1..k}
      BY <2>1, <2>3 DEF Shown, g
    <3>2. \A i \in 1..m : k + i \in 1..(k+m)
      BY <2>1
    <3>3. \A i \in 1..k : i \in 1..(k+m)
      BY <2>1
    <3> HIDE DEF h
    <3>4. ASSUME NEW r \in Shown'  PROVE r \in Shown \/ \E i \in 1..m : r = found[i]
      <4>1. PICK i \in 1..(k+m) : r = h[i]
        BY <3>1
      <4>2. CASE i \in 1..k
        BY <2>3, <3>1, <4>1, <4>2 DEF h
      <4>3. CASE i-k \in 1..m /\ i = k + (i-k)
        BY <2>3, <4>1, <4>3 DEF h
      <4>. QED  BY <2>5, <4>2, <4>3
    <3>. QED  BY <2>3, <3>1, <3>2, <3>3, <3>4 DEF h
  <2>7. \A i \in 1..m : i \in 1..n
    BY <1>6
  <2>8. L!IsInjective(walk'.got)
    <3>1. \A i, j \in 1..k : g[i] = g[j] => i = j
      BY <2>1 DEF ListingInv, L!IsInjective, g
    <3>2. \A i, j \in 1..m : found[i] = found[j] => i = j
      <4>. SUFFICES ASSUME NEW i \in 1..m, NEW j \in 1..m, found[i] = found[j], i < j  PROVE FALSE
        BY <1>6
      <4>1. i \in 1..n /\ j \in 1..n
        BY <2>7
      <4>2. found[i] \in Rows /\ L!Newer(found[i], found[i])
        BY <1>2, <1>6, <1>8, <4>1
      <4>3. rows[found[i]].at \in Nat /\ found[i] \in Nat
        BY <1>1, <4>2 DEF Row
      <4>. QED  BY <4>2, <4>3 DEF L!Newer
    <3>3. \A i \in 1..k, j \in 1..m : g[i] # found[j]
      BY <1>2, <1>5, <1>8, <2>1, <2>7 DEF ListingInv
    <3> HIDE DEF h
    <3>. SUFFICES ASSUME NEW i \in 1..(k+m), NEW j \in 1..(k+m), h[i] = h[j]  PROVE i = j
      BY <2>3 DEF L!IsInjective, h
    <3>4. CASE i \in 1..k /\ j \in 1..k
      BY <2>3, <3>1, <3>4 DEF h
    <3>5. CASE i \in 1..k /\ j-k \in 1..m /\ j = k + (j-k)
      BY <2>3, <3>3, <3>5 DEF h
    <3>6. CASE j \in 1..k /\ i-k \in 1..m /\ i = k + (i-k)
      BY <2>3, <3>3, <3>6 DEF h
    <3>7. CASE i-k \in 1..m /\ i = k + (i-k) /\ j-k \in 1..m /\ j = k + (j-k)
      <4>1. h[i] = found[i-k] /\ h[j] = found[j-k]
        BY <2>3, <3>7 DEF h
      <4>2. i-k = j-k
        BY <3>2, <3>7, <4>1
      <4>. QED  BY <2>1, <3>7, <4>2
    <3>. QED  BY <2>5, <3>4, <3>5, <3>6, <3>7
  <2> HIDE DEF h
  <2>9. \A r \in Shown' : rows'[r].state \in {"there", "gone"} /\ r \in Rows
    <3>1. \A r \in Shown : rows[r].state \in {"there", "gone"} /\ r \in Rows
      BY <1>7 DEF ListingInv, Shown
    <3>2. \A i \in 1..m : rows[found[i]].state = "there" /\ found[i] \in Rows
      BY <1>2, <1>8, <2>7
    <3>. QED  BY <1>5, <2>6, <3>1, <3>2
  <2>10. \A r \in walk'.due : L!Matches(r, walk'.filter, rows')
    BY <1>5, <2>2 DEF ListingInv
  <2>11. \A r \in walk.due : r \in Shown \/ \E i \in 1..n : found[i] = r
    BY <1>3, <1>6
  <2>12. ASSUME to = "done"  PROVE walk'.due \subseteq Shown'
    BY <1>9, <2>2, <2>6, <2>11, <2>12
  <2>13. ASSUME to = "walking"
         PROVE  /\ \A r \in Shown' : ~(L!After(r, walk.cursor)')
                /\ \A r \in walk'.due : L!After(r, walk.cursor)' \/ r \in Shown'
    <3> DEFINE last == found[m]
    <3>1. /\ m \in 1..n /\ m \in 1..m /\ last \in S /\ last \in Rows
          /\ c.at = rows[last].at /\ c.id = last /\ walk.cursor \in [at : Nat, id : Nat]
      BY <1>2, <1>5, <1>6, <1>8, <1>9, <2>13 DEF Walk
    <3> HIDE DEF last
    <3>2. \A r \in Rows : L!After(r, walk.cursor)' <=> L!Newer(last, r)
      BY <1>1, <1>5, <2>2, <3>1 DEF L!After, L!Newer, Row
    <3>3. \A r \in Shown : ~L!Newer(last, r)
      <4>. SUFFICES ASSUME NEW r \in Shown, L!Newer(last, r)  PROVE FALSE
        OBVIOUS
      <4>1. ~L!After(r, walk.cursor) /\ r \in Rows /\ L!After(last, walk.cursor)
        BY <1>2, <1>5, <2>6, <2>9, <3>1 DEF ListingInv
      <4>2. rows[r].at \in Nat /\ rows[last].at \in Nat /\ r \in Nat /\ last \in Nat
        BY <1>1, <3>1, <4>1 DEF Row
      <4>. QED  BY <3>1, <4>1, <4>2 DEF L!After, L!Newer
    <3>4. \A i \in 1..m : ~L!Newer(last, found[i])
      <4>. SUFFICES ASSUME NEW i \in 1..m, L!Newer(last, found[i])  PROVE FALSE
        OBVIOUS
      <4>1. i \in 1..n /\ found[i] \in Rows /\ (i < m => L!Newer(found[i], last)) /\ (i = m => found[i] = last)
        BY <1>2, <1>6, <1>8, <2>7, <3>1 DEF last
      <4>2. i < m \/ i = m
        BY <3>1
      <4>3. rows[found[i]].at \in Nat /\ rows[last].at \in Nat /\ found[i] \in Nat /\ last \in Nat
        BY <1>1, <3>1, <4>1 DEF Row
      <4>. QED  BY <4>1, <4>2, <4>3 DEF L!Newer
    <3>5. \A i \in 1..n : i \in 1..m \/ L!Newer(last, found[i])
      BY <1>6, <3>1 DEF last
    <3>6. \A r \in walk'.due : r \in Rows
      BY <2>2, <1>5 DEF Walk
    <3>7. \A r \in Shown' : ~L!Newer(last, r) /\ r \in Rows
      BY <2>6, <2>9, <3>3, <3>4
    <3>8. \A r \in walk'.due : L!Newer(last, r) \/ r \in Shown'
      BY <2>2, <2>6, <2>11, <3>5
    <3>. QED  BY <3>2, <3>6, <3>7, <3>8
  <2>14. /\ now' \in Nat /\ now' <= MaxTime /\ rows' \in [Rows -> Row]
         /\ \A r \in Rows : rows'[r].at <= now'
    BY <1>5 DEF ListingInv
  <2>. QED  BY <2>2, <2>4, <2>8, <2>9, <2>10, <2>12, <2>13, <2>14 DEF ListingInv
<1>10. CASE n <= Limit
  <2>1. SubSeq(found, 1, n) = found
    BY <1>6, <1>7
  <2>2. walk' = [walk EXCEPT !.pc = "done", !.got = walk.got \o found]
    BY <1>5, <1>7, <1>10 DEF L!trimPage
  <2>3. walk' = [walk EXCEPT !.pc = "done", !.cursor = walk.cursor, !.got = walk.got \o SubSeq(found, 1, n)]
    BY <1>5, <2>1, <2>2 DEF Walk
  <2>4. n \in 0..n /\ walk.cursor \in [at : Nat, id : Nat]
    BY <1>5, <1>6 DEF Walk
  <2>. QED  BY <1>9, <2>3, <2>4
<1>11. CASE ~(n <= Limit)
  <2> DEFINE c == [at |-> rows[found[Limit]].at, id |-> found[Limit]]
  <2>1. Limit \in 1..n /\ Limit \in 0..n
    BY <1>1, <1>6, <1>11
  <2>2. c \in [at : Nat, id : Nat]
    BY <1>1, <1>2, <1>8, <2>1 DEF Row
  <2>3. walk' = [walk EXCEPT !.cursor = c, !.got = walk.got \o SubSeq(found, 1, Limit)]
    BY <1>5, <1>7, <1>11 DEF L!trimPage
  <2>4. walk' = [walk EXCEPT !.pc = "walking", !.cursor = c, !.got = walk.got \o SubSeq(found, 1, Limit)]
    BY <1>5, <2>3 DEF Walk
  <2>. QED  BY <1>1, <1>9, <2>1, <2>2, <2>4
<1>. QED  BY <1>10, <1>11

(* The invariant of tables and walks holds of every behaviour.             *)
THEOREM ListingInvHolds == L!ListingAssumption => (L!Spec => []ListingInv)
<1>1. ASSUME L!ListingAssumption, ListingInv, [L!Next]_L!vars  PROVE ListingInv'
  BY <1>1, ListingTick, BeginKeepsListing, PageKeeps, WritersKeep
     DEF L!Next, L!ListKeys, L!ListRequests, L!ListConversations
<1>2. ASSUME L!ListingAssumption  PROVE L!Spec => []ListingInv
  <2>1. ListingInv /\ [L!Next]_L!vars => ListingInv'
    BY <1>1, <1>2
  <2>2. L!Init => ListingInv
    BY <1>2, ListingInit
  <2>. QED  BY <2>1, <2>2, PTL DEF L!Spec
<1>. QED  BY <1>2

(* listAdminAPIKeys, listAdminRequests, listAdminConversations: a walk     *)
(* shows every row that matched from its first page to its last, and none  *)
(* twice, for any identifiers, page sizes and writers.                     *)
THEOREM WalksMissNothing == L!ListingAssumption => (L!Spec => []L!WalksAreComplete)
<1>1. ListingInv => L!WalksAreComplete
  BY DEF ListingInv, L!WalksAreComplete, Shown, L!Range
<1>. QED  BY <1>1, ListingInvHolds, PTL
=============================================================================
