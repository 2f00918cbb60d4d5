-------------------------- MODULE RefresherProofs --------------------------
(***************************************************************************)
(* Theorems about Refresher, for every set of callers and probes and every *)
(* bound on calls, credentials, expiries, rejections and logins.           *)
(***************************************************************************)
EXTENDS Refresher, TLAPS

-----------------------------------------------------------------------------
(* Types *)

(* There is always room for a first credential. *)
LEMMA NoneIsIssued == None \in Issued /\ 1 \in Issued
  BY RefresherAssumption DEF None, Issued

(* A caller waits only for a refresh call that exists. *)
Waiting == \A p \in Callers : caller[p].pc \in {"await", "join"} => caller[p].flight \in CallIds
TypeInv == TypeOK /\ Waiting

(* Two ways to change one caller or one call and keep its type. *)
LEMMA BecomeType ==
    ASSUME TypeInv, NEW p \in Callers, NEW c \in CallerType, Become(p, c),
           c.pc \in {"await", "join"} => c.flight \in CallIds
    PROVE  caller' \in [Callers -> CallerType] /\ Waiting'
  BY DEF TypeInv, TypeOK, Waiting, Become

LEMMA StepType ==
    ASSUME TypeInv, NEW n \in CallIds, NEW w \in CallType, Step(n, w)
    PROVE  call' \in [CallIds -> CallType]
  BY DEF TypeInv, TypeOK, Step

(* Forgetting failures keeps the shared state well typed. *)
LEMMA ClearType ==
    ASSUME TypeInv, NEW c \in Issued, ClearChangedFailures(c)
    PROVE  /\ permanentToken' \in {permanentToken, None}
           /\ transientToken' \in {transientToken, None}
           /\ generation' \in Nat /\ inFlight' = inFlight
           /\ permanentToken' \in {None, c}
  BY DEF TypeInv, TypeOK, ClearChangedFailures, Changed, None

(* The file may get any credential; callers only remember having seen it. *)
LEMMA StoreType ==
    ASSUME TypeInv, NEW c \in Issued \ {None}, Store(c)
    PROVE  /\ file' \in Issued \ {None}
           /\ caller' \in [Callers -> CallerType] /\ Waiting'
  <1>1. \A p \in Callers : caller[p] \in CallerType
    BY DEF TypeInv, TypeOK
  <1>2. \A p \in Callers : caller'[p] \in CallerType
    BY <1>1 DEF Store, CallerType
  <1>3. \A p \in Callers : caller'[p].pc = caller[p].pc /\ caller'[p].flight = caller[p].flight
    BY <1>1 DEF Store, CallerType
  <1>4. caller' \in [Callers -> CallerType]
    <2>1. caller' = [p \in Callers |-> caller'[p]]
      BY DEF Store
    <2> QED
      BY <1>2, <2>1
  <1> QED
    BY <1>3, <1>4 DEF Store, Waiting, TypeInv

(* The state agrees in type before and after a step of a caller. *)
LEMMA ObserveType == ASSUME TypeInv, NEW p \in Callers, Observe(p) PROVE TypeInv'
  <1> DEFINE c == caller[p]
             d == [c EXCEPT !.pc = "load", !.generation = generation, !.flight = inFlight,
                            !.permanent = permanentToken, !.transient = transientToken,
                            !.held = IF c.pc = "idle" THEN {file} ELSE @]
  <1>0. /\ c \in CallerType /\ file \in Issued /\ generation \in Nat
        /\ inFlight \in CallIds \cup {None}
        /\ permanentToken \in Issued /\ transientToken \in Issued
    BY DEF TypeInv, TypeOK
  <1>1. d \in CallerType /\ d.pc = "load"
    BY <1>0 DEF CallerType
  <1>2. Become(p, d)
    BY DEF Observe
  <1>3. caller' \in [Callers -> CallerType] /\ Waiting'
    BY <1>1, <1>2, BecomeType
  <1> QED
    BY <1>3 DEF TypeInv, TypeOK, Observe, shared, upstream, tokens, clocks

LEMMA LoadType == ASSUME TypeInv, NEW p \in Callers, Load(p) PROVE TypeInv'
  <1>1. PICK c \in {file} \cup {None} :
            Become(p, [caller[p] EXCEPT !.pc = "check", !.credential = c])
    BY DEF Load
  <1> DEFINE d == [caller[p] EXCEPT !.pc = "check", !.credential = c]
  <1>0. caller[p] \in CallerType /\ c \in Issued
    BY NoneIsIssued DEF TypeInv, TypeOK
  <1>2. d \in CallerType /\ d.pc = "check"
    BY <1>0 DEF CallerType
  <1>3. caller' \in [Callers -> CallerType] /\ Waiting'
    BY <1>1, <1>2, BecomeType
  <1> QED
    BY <1>3 DEF TypeInv, TypeOK, Load, shared, upstream, tokens, clocks

(* A call that ends keeps only its result. *)
LEMMA EndedType ==
    ASSUME NEW c \in CallerType, NEW result \in Results
    PROVE  Ended(c, result) \in CallerType /\ Ended(c, result).pc = "done"
  BY NoneIsIssued DEF Ended, NoCaller, CallerType, Results, None

LEMMA CheckType == ASSUME TypeInv, NEW p \in Callers, Check(p) PROVE TypeInv'
  <1> DEFINE c == caller[p]
  <1>1. c \in CallerType /\ inFlight \in CallIds \cup {None}
    BY DEF TypeInv, TypeOK
  <1>2. PICK d \in CallerType : Become(p, d) /\ (d.pc \in {"await", "join"} => d.flight \in CallIds)
    <2>1. CASE Moved(p) /\ inFlight # None /\ p \notin Probes
      <3>1. Become(p, [c EXCEPT !.pc = "await", !.flight = inFlight])
        BY <2>1 DEF Check
      <3>2. [c EXCEPT !.pc = "await", !.flight = inFlight] \in CallerType
        BY <1>1 DEF CallerType
      <3>3. [c EXCEPT !.pc = "await", !.flight = inFlight].flight \in CallIds
        BY <1>1, <2>1 DEF CallerType
      <3> QED
        BY <3>1, <3>2, <3>3
    <2>2. CASE Moved(p) /\ ~(inFlight # None /\ p \notin Probes)
      <3>1. Become(p, [c EXCEPT !.pc = "observe"])
        BY <2>2 DEF Check
      <3> QED
        BY <1>1, <3>1 DEF CallerType
    <2>3. CASE ~Moved(p)
      <3>1. Decide(p)
        BY <2>3 DEF Check
      <3>2. \A r \in Results : Ended(c, r) \in CallerType /\ Ended(c, r).pc = "done"
        BY <1>1, EndedType
      <3>3. \/ \E r \in {"load", "login", "ok"} : Become(p, Ended(c, r))
            \/ \E pc \in {"clear", "start", "send"} : Become(p, [c EXCEPT !.pc = pc])
            \/ c.flight # None /\ Become(p, [c EXCEPT !.pc = "await"])
        BY <3>1 DEF Decide
      <3>4. \A pc \in {"clear", "start", "send", "await"} :
               [c EXCEPT !.pc = pc] \in CallerType /\ [c EXCEPT !.pc = pc].pc = pc
                 /\ [c EXCEPT !.pc = pc].flight = c.flight
        BY <1>1 DEF CallerType
      <3>5. c.flight \in CallIds \cup {None}
        BY <1>1 DEF CallerType
      <3> HIDE DEF c
      <3> QED
        BY <3>2, <3>3, <3>4, <3>5 DEF Results
    <2> QED
      BY <2>1, <2>2, <2>3
  <1>3. caller' \in [Callers -> CallerType] /\ Waiting'
    BY <1>2, BecomeType
  <1> QED
    BY <1>3 DEF TypeInv, TypeOK, Check, shared, upstream, tokens, clocks

LEMMA ClearTypeStep == ASSUME TypeInv, NEW p \in Callers, Clear(p) PROVE TypeInv'
  <1> DEFINE c == caller[p]
             d == [c EXCEPT !.pc = IF c.rejected = None THEN "observe" ELSE "confirm"]
  <1>0. c \in CallerType
    BY DEF TypeInv, TypeOK
  <1>1. d \in CallerType /\ d.pc \notin {"await", "join"} /\ c.credential \in Issued
    BY <1>0 DEF CallerType
  <1>2. Become(p, d) /\ ClearChangedFailures(c.credential)
    BY DEF Clear
  <1>3. caller' \in [Callers -> CallerType] /\ Waiting'
    BY <1>1, <1>2, BecomeType
  <1>4. permanentToken' \in Issued /\ transientToken' \in Issued /\ generation' \in Nat
          /\ inFlight' = inFlight
    BY <1>1, <1>2, ClearType, NoneIsIssued DEF TypeInv, TypeOK
  <1> QED
    BY <1>3, <1>4 DEF TypeInv, TypeOK, Clear, upstream, tokens, clocks

LEMMA SingleFlightType == ASSUME TypeInv, NEW p \in Callers, SingleFlight(p) PROVE TypeInv'
  <1> DEFINE c == caller[p]
  <1>0. c \in CallerType /\ inFlight \in CallIds \cup {None}
    BY DEF TypeInv, TypeOK
  <1>1. CASE Join(p)
    <2>1. [c EXCEPT !.pc = "join", !.flight = inFlight] \in CallerType
      BY <1>0 DEF CallerType
    <2>2. [c EXCEPT !.pc = "join", !.flight = inFlight].flight \in CallIds
      BY <1>0, <1>1 DEF CallerType, Join
    <2>3. caller' \in [Callers -> CallerType] /\ Waiting'
      BY <1>1, <2>1, <2>2, BecomeType DEF Join
    <2> QED
      BY <1>1, <2>3 DEF TypeInv, TypeOK, SingleFlight, Join, shared, upstream, tokens, clocks
  <1>2. CASE StartCall(p)
    <2> DEFINE n == started + 1
               w == [NoCall EXCEPT !.pc = "load", !.force = c.rejected # None,
                                   !.observed = c.credential]
    <2>1. n \in CallIds /\ started' = n /\ inFlight' = n /\ generation' = generation + 1
            /\ Step(n, w) /\ Become(p, [c EXCEPT !.pc = "join", !.flight = n])
            /\ UNCHANGED <<permanentToken, transientToken>>
      BY <1>2 DEF StartCall, Step
    <2>2. w \in CallType
      BY <1>0, NoneIsIssued DEF NoCall, CallType, CallerType, Results
    <2>3. call' \in [CallIds -> CallType]
      BY <2>1, <2>2, StepType
    <2>4. [c EXCEPT !.pc = "join", !.flight = n] \in CallerType
            /\ [c EXCEPT !.pc = "join", !.flight = n].flight = n
      BY <1>0, <2>1 DEF CallerType
    <2>5. caller' \in [Callers -> CallerType] /\ Waiting'
      BY <2>1, <2>4, BecomeType
    <2>6. started' \in 0..MaxCalls /\ inFlight' \in CallIds \cup {None} /\ generation' \in Nat
      BY <2>1 DEF TypeInv, TypeOK, CallIds
    <2> QED
      BY <2>1, <2>3, <2>5, <2>6 DEF TypeInv, TypeOK, SingleFlight, upstream, tokens, clocks
  <1> QED
    BY <1>1, <1>2 DEF SingleFlight

LEMMA WaitType == ASSUME TypeInv, NEW p \in Callers, Wait(p) PROVE TypeInv'
  <1> DEFINE c == caller[p]
             f == call[c.flight]
  <1>1. c \in CallerType /\ c.flight \in CallIds /\ f \in CallType
    BY DEF TypeInv, TypeOK, Waiting, Wait
  <1>2. \A r \in Results : Ended(c, r) \in CallerType /\ Ended(c, r).pc = "done"
    BY <1>1, EndedType
  <1>3. /\ f.err \in Results /\ f.credential \in Issued
        /\ [c EXCEPT !.pc = "observe"] \in CallerType
        /\ [c EXCEPT !.pc = "observe"].pc = "observe"
    BY <1>1 DEF CallType, CallerType
  <1>4. /\ [c EXCEPT !.pc = "send", !.credential = f.credential] \in CallerType
        /\ [c EXCEPT !.pc = "send", !.credential = f.credential].pc = "send"
    BY <1>1, <1>3 DEF CallerType
  <1>5. \/ Become(p, Ended(c, f.err))
        \/ Become(p, [c EXCEPT !.pc = "observe"])
        \/ Become(p, [c EXCEPT !.pc = "send", !.credential = f.credential])
    BY DEF Wait
  <1>6. caller' \in [Callers -> CallerType] /\ Waiting'
    <2> HIDE DEF c, f
    <2> QED
      BY <1>2, <1>3, <1>4, <1>5, BecomeType
  <1> QED
    BY <1>6 DEF TypeInv, TypeOK, Wait, shared, upstream, tokens, clocks

(* Steps that move a caller on or end its call and leave all else alone. *)
LEMMA MoveOn ==
    ASSUME TypeInv, NEW p \in Callers,
           NEW pc \in {"observe", "start", "send", "clear", "confirm"},
           Become(p, [caller[p] EXCEPT !.pc = pc])
    PROVE  caller' \in [Callers -> CallerType] /\ Waiting'
  <1>1. [caller[p] EXCEPT !.pc = pc] \in CallerType /\ [caller[p] EXCEPT !.pc = pc].pc = pc
    BY DEF TypeInv, TypeOK, CallerType
  <1> QED
    BY <1>1, BecomeType

LEMMA EndCall ==
    ASSUME TypeInv, NEW p \in Callers, NEW r \in Results, Become(p, Ended(caller[p], r))
    PROVE  caller' \in [Callers -> CallerType] /\ Waiting'
  <1>1. Ended(caller[p], r) \in CallerType /\ Ended(caller[p], r).pc = "done"
    BY EndedType DEF TypeInv, TypeOK
  <1> QED
    BY <1>1, BecomeType

LEMMA SendType == ASSUME TypeInv, NEW p \in Callers, Send(p) PROVE TypeInv'
  <1> DEFINE c == caller[p]
  <1>1. \/ \E r \in {"ok", "unauthorized"} : Become(p, Ended(c, r))
        \/ Become(p, [c EXCEPT !.pc = "reload", !.rejected = c.credential])
    BY DEF Send
  <1>2. /\ [c EXCEPT !.pc = "reload", !.rejected = c.credential] \in CallerType
        /\ [c EXCEPT !.pc = "reload", !.rejected = c.credential].pc = "reload"
    BY DEF TypeInv, TypeOK, CallerType
  <1>3. caller' \in [Callers -> CallerType] /\ Waiting'
    <2>1. CASE \E r \in {"ok", "unauthorized"} : Become(p, Ended(c, r))
      BY <2>1, EndCall DEF Results
    <2>2. CASE Become(p, [c EXCEPT !.pc = "reload", !.rejected = c.credential])
      BY <2>2, <1>2, BecomeType
    <2> QED
      BY <1>1, <2>1, <2>2
  <1> QED
    BY <1>3 DEF TypeInv, TypeOK, Send, shared, upstream, tokens, clocks

LEMMA ReloadType == ASSUME TypeInv, NEW p \in Callers, Reload(p) PROVE TypeInv'
  <1> DEFINE c == caller[p]
  <1>1. \/ Become(p, Ended(c, "load"))
        \/ Become(p, [c EXCEPT !.pc = "clear", !.credential = file])
    BY DEF Reload
  <1>2. /\ [c EXCEPT !.pc = "clear", !.credential = file] \in CallerType
        /\ [c EXCEPT !.pc = "clear", !.credential = file].pc = "clear"
    BY DEF TypeInv, TypeOK, CallerType
  <1>3. caller' \in [Callers -> CallerType] /\ Waiting'
    <2>1. CASE Become(p, Ended(c, "load"))
      BY <2>1, EndCall DEF Results
    <2>2. CASE Become(p, [c EXCEPT !.pc = "clear", !.credential = file])
      BY <2>2, <1>2, BecomeType
    <2> QED
      BY <1>1, <2>1, <2>2
  <1> QED
    BY <1>3 DEF TypeInv, TypeOK, Reload, shared, upstream, tokens, clocks

LEMMA ConfirmType == ASSUME TypeInv, NEW p \in Callers, Confirm(p) PROVE TypeInv'
  <1>1. \/ Become(p, Ended(caller[p], "login"))
        \/ \E pc \in {"send", "start"} : Become(p, [caller[p] EXCEPT !.pc = pc])
    BY DEF Confirm
  <1>2. caller' \in [Callers -> CallerType] /\ Waiting'
    BY <1>1, EndCall, MoveOn DEF Results
  <1> QED
    BY <1>2 DEF TypeInv, TypeOK, Confirm, shared, upstream, tokens, clocks

LEMMA CancelType == ASSUME TypeInv, NEW p \in Callers, Cancel(p) PROVE TypeInv'
  <1>1. caller' \in [Callers -> CallerType] /\ Waiting'
    BY EndCall DEF Cancel, Results
  <1> QED
    BY <1>1 DEF TypeInv, TypeOK, Cancel, shared, upstream, tokens, clocks

-----------------------------------------------------------------------------
(* A failing refresh records why. *)
LEMMA FailedType ==
    ASSUME NEW w \in CallType, NEW err \in Results
    PROVE  /\ Failed(w, err) \in CallType /\ Failed(w, err).pc = "finish"
           /\ Failed(w, err).err = err /\ Failed(w, err).source = w.source
  BY DEF Failed, CallType

(* What a refresh call may look like on the way. *)
LEMMA CallShapes ==
    ASSUME NEW w \in CallType, NEW c \in Issued
    PROVE  /\ [w EXCEPT !.pc = "clear", !.source = c] \in CallType
           /\ [w EXCEPT !.pc = "clear", !.source = c].pc = "clear"
           /\ [w EXCEPT !.pc = "decide"] \in CallType
           /\ [w EXCEPT !.pc = "decide"].pc = "decide"
           /\ [w EXCEPT !.pc = "finish", !.credential = c] \in CallType
           /\ [w EXCEPT !.pc = "finish", !.credential = c].pc = "finish"
           /\ [w EXCEPT !.pc = "post"] \in CallType
           /\ [w EXCEPT !.pc = "post"].pc = "post"
           /\ [w EXCEPT !.pc = "save", !.fresh = c] \in CallType
           /\ [w EXCEPT !.pc = "save", !.fresh = c].pc = "save"
  BY DEF CallType

LEMMA RunLoadType == ASSUME TypeInv, NEW n \in CallIds, RunLoad(n) PROVE TypeInv'
  <1>1. call[n] \in CallType /\ file \in Issued
    BY DEF TypeInv, TypeOK
  <1>2. call' \in [CallIds -> CallType]
    BY <1>1, CallShapes, FailedType, StepType DEF RunLoad, Results
  <1> QED
    BY <1>2 DEF TypeInv, TypeOK, Waiting, RunLoad, shared, upstream, tokens, clocks

LEMMA RunClearType == ASSUME TypeInv, NEW n \in CallIds, RunClear(n) PROVE TypeInv'
  <1>1. call[n] \in CallType /\ call[n].source \in Issued
    BY DEF TypeInv, TypeOK, CallType
  <1>2. call' \in [CallIds -> CallType]
    BY <1>1, CallShapes, StepType DEF RunClear
  <1>3. permanentToken' \in Issued /\ transientToken' \in Issued /\ generation' \in Nat
          /\ inFlight' = inFlight
    BY <1>1, ClearType, NoneIsIssued DEF TypeInv, TypeOK, RunClear
  <1> QED
    BY <1>2, <1>3 DEF TypeInv, TypeOK, Waiting, RunClear, upstream, tokens, clocks

LEMMA RunDecideType == ASSUME TypeInv, NEW n \in CallIds, RunDecide(n) PROVE TypeInv'
  <1>1. call[n] \in CallType /\ call[n].source \in Issued
    BY DEF TypeInv, TypeOK, CallType
  <1>2. call' \in [CallIds -> CallType]
    BY <1>1, CallShapes, FailedType, StepType DEF RunDecide, Results
  <1> QED
    BY <1>2 DEF TypeInv, TypeOK, Waiting, RunDecide, shared, upstream, tokens, clocks

LEMMA RunPostType == ASSUME TypeInv, NEW n \in CallIds, RunPost(n) PROVE TypeInv'
  <1>1. call[n] \in CallType /\ call[n].source \in Issued /\ issued \in Nat
    BY DEF TypeInv, TypeOK, CallType, Issued
  <1>2. Rotate(call[n].source) => issued + 1 \in Issued \ {None}
    BY RefresherAssumption DEF Rotate, TypeInv, TypeOK, Issued, None
  <1>3. call' \in [CallIds -> CallType]
    BY <1>1, <1>2, CallShapes, FailedType, StepType DEF RunPost, Results
  <1>4. /\ issued' \in Issued \ {None} /\ login' \in [Issued -> Issued]
        /\ logins' \subseteq Issued /\ consumed' \subseteq Issued /\ denied' \subseteq Issued
        /\ lost' \subseteq Issued
    <2>0. lost' \subseteq Issued
      <3>1. lost' = lost \/ lost' = lost \cup {call[n].source}
        BY DEF RunPost, upstream
      <3> QED
        BY <1>1, <3>1 DEF TypeInv, TypeOK
    <2>1. CASE Rotate(call[n].source)
      BY <1>1, <1>2, <2>0, <2>1 DEF Rotate, TypeInv, TypeOK
    <2>2. CASE UNCHANGED <<issued, login, logins, consumed>> /\ denied' = denied \cup {call[n].source}
      BY <1>1, <2>0, <2>2 DEF TypeInv, TypeOK
    <2>3. CASE UNCHANGED upstream
      BY <2>3 DEF TypeInv, TypeOK, upstream, tokens
    <2> QED
      BY <2>1, <2>2, <2>3 DEF RunPost
  <1> QED
    BY <1>3, <1>4 DEF TypeInv, TypeOK, Waiting, RunPost, shared, clocks

LEMMA RunSaveType == ASSUME TypeInv, NEW n \in CallIds, RunSave(n),
                            call[n].fresh # None
                     PROVE  TypeInv'
  <1>1. call[n] \in CallType /\ call[n].fresh \in Issued \ {None} /\ file \in Issued
    BY DEF TypeInv, TypeOK, CallType
  <1>2. call' \in [CallIds -> CallType]
    BY <1>1, CallShapes, FailedType, StepType DEF RunSave, Results
  <1>3. file' \in Issued \ {None} /\ caller' \in [Callers -> CallerType] /\ Waiting'
    BY <1>1, StoreType DEF RunSave, TypeInv, TypeOK, Waiting
  <1>4. lost' \subseteq Issued
    <2>1. lost' = lost \/ lost' = lost \cup {call[n].source}
      BY DEF RunSave
    <2>2. call[n].source \in Issued
      BY <1>1 DEF CallType
    <2> QED
      BY <2>1, <2>2 DEF TypeInv, TypeOK
  <1> QED
    BY <1>2, <1>3, <1>4 DEF TypeInv, TypeOK, RunSave, shared, tokens, clocks

LEMMA RunFinishType == ASSUME TypeInv, NEW n \in CallIds, RunFinish(n) PROVE TypeInv'
  <1> DEFINE w == call[n]
  <1>1. w \in CallType /\ w.source \in Issued /\ w.credential \in Issued /\ w.err \in Results
    BY DEF TypeInv, TypeOK, CallType
  <1>2. [NoCall EXCEPT !.pc = "done", !.credential = w.credential, !.err = w.err] \in CallType
    BY <1>1, NoneIsIssued DEF NoCall, CallType
  <1>3. call' \in [CallIds -> CallType]
    BY <1>2, StepType DEF RunFinish
  <1>4. permanentToken' \in Issued /\ transientToken' \in Issued
    BY <1>1, NoneIsIssued DEF RunFinish, Blamed, TypeInv, TypeOK
  <1>5. inFlight' \in CallIds \cup {None} /\ generation' \in Nat
    BY DEF RunFinish, TypeInv, TypeOK
  <1> QED
    BY <1>3, <1>4, <1>5 DEF TypeInv, TypeOK, Waiting, RunFinish, upstream, tokens, clocks

LEMMA SaveCredentialType == ASSUME TypeInv, SaveCredential PROVE TypeInv'
  <1>1. issued + 1 \in Issued \ {None} /\ issued' = issued + 1
    BY RefresherAssumption DEF SaveCredential, TypeInv, TypeOK, Issued, None
  <1>2. file' \in Issued \ {None} /\ caller' \in [Callers -> CallerType] /\ Waiting'
    BY <1>1, StoreType DEF SaveCredential
  <1>3. login' \in [Issued -> Issued] /\ logins' \subseteq Issued
    BY <1>1 DEF SaveCredential, TypeInv, TypeOK
  <1> QED
    BY <1>1, <1>2, <1>3 DEF TypeInv, TypeOK, SaveCredential, shared, clocks

LEMMA ClocksType == ASSUME TypeInv, Expire \/ Reject PROVE TypeInv'
  <1>1. \A c \in 1..issued : c \in Issued
    BY RefresherAssumption DEF TypeInv, TypeOK, Issued
  <1>2. expired' \subseteq Issued /\ rejected' \subseteq Issued
    BY <1>1 DEF Expire, Reject, TypeInv, TypeOK
  <1> QED
    BY <1>2 DEF TypeInv, TypeOK, Waiting, Expire, Reject, shared, upstream, tokens

-----------------------------------------------------------------------------
(* Single flight *)

(* inFlight and the calls agree: the step of a call that goes on. *)
LEMMA GoesOn ==
    ASSUME TypeInv, OneRefreshAtATime, NEW n \in CallIds, Running(n),
           NEW w \in CallType, w.pc \notin {"none", "done"}, Step(n, w), inFlight' = inFlight
    PROVE  OneRefreshAtATime'
  BY DEF TypeInv, TypeOK, OneRefreshAtATime, Running, Step

LEMMA OneRefreshStep ==
    ASSUME TypeInv, OneRefreshAtATime, Next
    PROVE  OneRefreshAtATime'
  <1>1. ASSUME NEW p \in Callers, StartCall(p), MayStart PROVE OneRefreshAtATime'
    <2> DEFINE n == started + 1
    <2>1. n \in CallIds /\ inFlight = None /\ inFlight' = n
      BY <1>1 DEF StartCall, MayStart
    <2>2. \A m \in CallIds : ~Running(m)
      BY <2>1 DEF OneRefreshAtATime, None, CallIds
    <2>3. call' = [call EXCEPT ![n] = [NoCall EXCEPT !.pc = "load", !.force = caller[p].rejected # None,
                                                     !.observed = caller[p].credential]]
      BY <1>1 DEF StartCall
    <2>4. \A m \in CallIds : call'[m].pc = IF m = n THEN "load" ELSE call[m].pc
      BY <2>1, <2>3 DEF TypeInv, TypeOK, NoCall
    <2> QED
      BY <2>1, <2>2, <2>4 DEF OneRefreshAtATime, Running
  <1>2. ASSUME NEW p \in Callers, Proceed(p) PROVE OneRefreshAtATime'
    <2>1. CASE SingleFlight(p)
      <3>1. CASE Join(p)
        BY <3>1 DEF Join, shared, OneRefreshAtATime, Running
      <3> QED
        BY <1>1, <2>1, <3>1 DEF SingleFlight
    <2>2. CASE Clear(p)
      BY <2>2 DEF Clear, ClearChangedFailures, OneRefreshAtATime, Running
    <2>3. CASE Observe(p) \/ Load(p) \/ Check(p) \/ Wait(p) \/ Send(p) \/ Reload(p) \/ Confirm(p)
      BY <2>3 DEF Observe, Load, Check, Wait, Send, Reload, Confirm, shared,
                  OneRefreshAtATime, Running
    <2> QED
      BY <1>2, <2>1, <2>2, <2>3 DEF Proceed
  <1>3. ASSUME NEW p \in Callers, Cancel(p) PROVE OneRefreshAtATime'
    BY <1>3 DEF Cancel, shared, OneRefreshAtATime, Running
  <1>4. ASSUME NEW n \in CallIds, Refresh(n) PROVE OneRefreshAtATime'
    <2>0. call[n] \in CallType /\ call[n].source \in Issued /\ file \in Issued
      BY DEF TypeInv, TypeOK, CallType
    <2>1. CASE RunLoad(n)
      <3>1. PICK w \in CallType : w.pc \notin {"none", "done"} /\ Step(n, w)
        BY <2>0, <2>1, CallShapes, FailedType DEF RunLoad, Results
      <3> QED
        BY <2>1, <3>1, GoesOn DEF RunLoad, Running, shared
    <2>2. CASE RunClear(n)
      <3>1. [call[n] EXCEPT !.pc = "decide"] \in CallType
              /\ [call[n] EXCEPT !.pc = "decide"].pc = "decide"
        BY <2>0 DEF CallType
      <3> QED
        BY <2>2, <3>1, GoesOn DEF RunClear, Running, ClearChangedFailures
    <2>3. CASE RunDecide(n)
      <3>1. PICK w \in CallType : w.pc \notin {"none", "done"} /\ Step(n, w)
        BY <2>0, <2>3, CallShapes, FailedType DEF RunDecide, Results
      <3> QED
        BY <2>3, <3>1, GoesOn DEF RunDecide, Running, shared
    <2>4. CASE RunPost(n)
      <3>1. Rotate(call[n].source) => issued + 1 \in Issued
        BY RefresherAssumption DEF Rotate, TypeInv, TypeOK, Issued
      <3>2. PICK w \in CallType : w.pc \notin {"none", "done"} /\ Step(n, w)
        BY <2>0, <2>4, <3>1, CallShapes, FailedType DEF RunPost, Results
      <3> QED
        BY <2>4, <3>2, GoesOn DEF RunPost, Running, shared
    <2>5. CASE RunSave(n)
      <3>1. call[n].fresh \in Issued
        BY <2>0 DEF CallType
      <3>2. PICK w \in CallType : w.pc \notin {"none", "done"} /\ Step(n, w)
        BY <2>0, <2>5, <3>1, CallShapes, FailedType DEF RunSave, Results
      <3> QED
        BY <2>5, <3>2, GoesOn DEF RunSave, Running, shared
    <2>6. CASE RunFinish(n)
      <3>1. inFlight = n /\ inFlight' = None
        BY <2>6 DEF RunFinish, OneRefreshAtATime, Running
      <3>2. \A m \in CallIds : call'[m].pc = IF m = n THEN "done" ELSE call[m].pc
        BY <2>6 DEF RunFinish, Step, NoCall, TypeInv, TypeOK
      <3> QED
        BY <3>1, <3>2 DEF OneRefreshAtATime, Running, None, CallIds
    <2> QED
      BY <1>4, <2>1, <2>2, <2>3, <2>4, <2>5, <2>6 DEF Refresh
  <1>5. CASE SaveCredential \/ Expire \/ Reject
    BY <1>5 DEF SaveCredential, Expire, Reject, shared, OneRefreshAtATime, Running
  <1> QED
    BY <1>2, <1>3, <1>4, <1>5 DEF Next

-----------------------------------------------------------------------------
(* The refresh invariant *)

Inv == TypeInv /\ OneRefreshAtATime /\ RefreshInv /\ LoginIsAskedForAReason

(* While one refresh runs the others do not, and those satisfy CallInv in  *)
(* any state.                                                              *)
LEMMA Alone ==
    ASSUME OneRefreshAtATime, NEW n \in CallIds, Running(n), NEW m \in CallIds, m # n
    PROVE  call[m].pc \in {"none", "done"}
  BY DEF OneRefreshAtATime, Running

LEMMA IdleCalls ==
    ASSUME NEW m \in CallIds, call'[m].pc \in {"none", "done"}
    PROVE  CallInv(call[m])'
  BY DEF CallInv

(* In a step of the running refresh only its own CallInv is at stake. *)
LEMMA OwnCall ==
    ASSUME TypeInv, OneRefreshAtATime, NEW n \in CallIds, Running(n), NEW w, Step(n, w),
           CallInv(call[n])'
    PROVE  /\ call'[n] = w
           /\ \A m \in CallIds : CallInv(call[m])'
           /\ \A m \in CallIds \ {n} : call'[m] = call[m] /\ call'[m].pc \in {"none", "done"}
  <1>1. call'[n] = w /\ \A m \in CallIds \ {n} : call'[m] = call[m]
    BY DEF Step, TypeInv, TypeOK
  <1>2. \A m \in CallIds \ {n} : call'[m].pc \in {"none", "done"}
    BY <1>1, Alone
  <1> QED
    BY <1>1, <1>2, IdleCalls

(* The stored refresh token is unused, unless its successor was lost or    *)
(* the running refresh is about to replace it.                             *)
LEMMA FileUnused ==
    ASSUME OneRefreshAtATime, FileInv,
           \A n \in CallIds : Running(n) => call[n].pc # "save"
    PROVE  file \notin consumed \ lost
  BY DEF FileInv, Running

(* Steps that change neither file nor calls, and at most forget failures. *)
LEMMA ForgettingKeeps ==
    ASSUME Inv, UNCHANGED <<file, call, upstream>>,
           permanentToken' \in {permanentToken, None}, transientToken' \in {transientToken, None}
    PROVE  RefreshInv' /\ LoginIsAskedForAReason'
  <1>1. LoginIsAskedForAReason'
    BY DEF Inv, LoginIsAskedForAReason, upstream, tokens
  <1>2. FileInv'
    BY DEF Inv, RefreshInv, FileInv, upstream, tokens
  <1>3. \A n \in CallIds : CallInv(call[n])'
    BY DEF Inv, RefreshInv, CallInv, upstream, tokens
  <1> QED
    BY <1>1, <1>2, <1>3 DEF RefreshInv

LEMMA StartCallKeeps ==
    ASSUME Inv, NEW p \in Callers, StartCall(p), MayStart, UNCHANGED <<file, upstream>>
    PROVE  RefreshInv' /\ LoginIsAskedForAReason'
  <1>1. PICK n \in CallIds :
          /\ call' = [call EXCEPT ![n] = [NoCall EXCEPT !.pc = "load",
                         !.force = caller[p].rejected # None, !.observed = caller[p].credential]]
          /\ inFlight = None
    BY DEF StartCall, MayStart
  <1>2. \A m \in CallIds : call[m].pc \in {"none", "done"}
    BY <1>1 DEF Inv, OneRefreshAtATime, Running, None, CallIds
  <1>3. /\ call'[n].pc = "load" /\ call'[n].source = None /\ call'[n].err = "none"
        /\ \A m \in CallIds \ {n} : call'[m] = call[m]
    BY <1>1 DEF Inv, TypeInv, TypeOK, NoCall
  <1>5. CallInv(call[n])'
    BY <1>3 DEF CallInv
  <1>6. \A m \in CallIds : CallInv(call[m])'
    BY <1>2, <1>3, <1>5, IdleCalls
  <1>7. FileInv'
    BY <1>2 DEF Inv, RefreshInv, FileInv, upstream, tokens
  <1>8. LoginIsAskedForAReason'
    BY DEF Inv, LoginIsAskedForAReason, StartCall, upstream, tokens
  <1> QED
    BY <1>6, <1>7, <1>8 DEF RefreshInv

(* What the step to a failure leaves of a call. *)
LEMMA FailStep ==
    ASSUME TypeInv, NEW n \in CallIds, NEW err, Step(n, Failed(call[n], err))
    PROVE  call'[n].pc = "finish" /\ call'[n].err = err /\ call'[n].source = call[n].source
  BY DEF TypeInv, TypeOK, CallType, Step, Failed

LEMMA RunLoadKeeps ==
    ASSUME Inv, NEW n \in CallIds, RunLoad(n)
    PROVE  RefreshInv' /\ LoginIsAskedForAReason'
  <1> DEFINE w == call[n]
  <1>0. TypeInv /\ OneRefreshAtATime /\ Running(n) /\ w \in CallType /\ CallInv(w) /\ FileInv
          /\ UNCHANGED <<file, permanentToken, transientToken, upstream>> /\ w.pc = "load"
    BY DEF Inv, RunLoad, Running, shared, TypeInv, TypeOK, RefreshInv
  <1>1. file \notin consumed \ lost
    BY <1>0, Alone DEF FileInv
  <1>2. PICK d : Step(n, d)
    BY DEF RunLoad
  <1>3. CallInv(call[n])'
    <2>1. CASE Step(n, [w EXCEPT !.pc = "clear", !.source = file])
      <3>1. call'[n].pc = "clear" /\ call'[n].source = file /\ call'[n].err = w.err
        BY <2>1, <1>0 DEF Step, CallType, TypeInv, TypeOK
      <3> QED
        BY <3>1, <1>0, <1>1 DEF CallInv, FileInv, upstream, tokens
    <2>2. CASE Step(n, Failed(w, "load"))
      <3>1. call'[n].pc = "finish" /\ call'[n].source = w.source /\ call'[n].err = "load"
        BY <2>2, <1>0, FailStep
      <3> QED
        BY <3>1, <1>0 DEF CallInv
    <2> QED
      BY <2>1, <2>2 DEF RunLoad
  <1>4. \A m \in CallIds : CallInv(call[m])'
    BY <1>0, <1>2, <1>3, OwnCall
  <1>5. FileInv'
    BY <1>0, <1>1 DEF FileInv, upstream, tokens
  <1>6. LoginIsAskedForAReason'
    BY <1>0 DEF Inv, LoginIsAskedForAReason, upstream, tokens
  <1> QED
    BY <1>4, <1>5, <1>6 DEF RefreshInv

LEMMA RunClearKeeps ==
    ASSUME Inv, NEW n \in CallIds, RunClear(n)
    PROVE  RefreshInv' /\ LoginIsAskedForAReason'
  <1> DEFINE w == call[n]
  <1>0. TypeInv /\ OneRefreshAtATime /\ Running(n) /\ w \in CallType /\ CallInv(w) /\ FileInv
          /\ UNCHANGED <<file, upstream>> /\ w.pc = "clear" /\ w.source \in Issued
    BY DEF Inv, RunClear, Running, TypeInv, TypeOK, RefreshInv, CallType
  <1>1. /\ permanentToken' \in {permanentToken, None} /\ transientToken' \in {transientToken, None}
        /\ permanentToken' \in {None, w.source}
    BY <1>0, ClearType DEF RunClear
  <1>2. Step(n, [w EXCEPT !.pc = "decide"])
    BY DEF RunClear
  <1>3. CallInv(call[n])'
    <2>1. call'[n].pc = "decide" /\ call'[n].source = w.source /\ call'[n].err = w.err
      BY <1>0, <1>2 DEF Step, CallType, TypeInv, TypeOK
    <2> QED
      BY <2>1, <1>0, <1>1 DEF CallInv, upstream, tokens
  <1>4. \A m \in CallIds : CallInv(call[m])'
    BY <1>0, <1>2, <1>3, OwnCall
  <1>5. file \notin consumed \ lost
    BY <1>0, Alone DEF FileInv
  <1>6. FileInv'
    BY <1>0, <1>5 DEF FileInv, upstream, tokens
  <1>7. LoginIsAskedForAReason'
    BY <1>0, <1>1 DEF Inv, LoginIsAskedForAReason, upstream, tokens
  <1> QED
    BY <1>4, <1>6, <1>7 DEF RefreshInv

LEMMA RunDecideKeeps ==
    ASSUME Inv, NEW n \in CallIds, RunDecide(n)
    PROVE  RefreshInv' /\ LoginIsAskedForAReason'
  <1> DEFINE w == call[n]
  <1>0. TypeInv /\ OneRefreshAtATime /\ Running(n) /\ w \in CallType /\ CallInv(w) /\ FileInv
          /\ UNCHANGED <<file, permanentToken, transientToken, upstream>> /\ w.pc = "decide"
    BY DEF Inv, RunDecide, Running, shared, TypeInv, TypeOK, RefreshInv
  <1>1. permanentToken \in {None, w.source} /\ w.err = "none"
    BY <1>0 DEF CallInv
  <1>2. PICK d : Step(n, d)
    BY DEF RunDecide
  <1>3. CallInv(call[n])'
    <2>1. CASE HasPermanentFailure(w.source)
      <3>1. Step(n, Failed(w, "login"))
        BY <2>1 DEF RunDecide
      <3>2. call'[n].pc = "finish" /\ call'[n].source = w.source /\ call'[n].err = "login"
        BY <3>1, <1>0, FailStep
      <3>3. w.source \in denied
        BY <2>1 DEF HasPermanentFailure, Inv, LoginIsAskedForAReason
      <3> QED
        BY <3>2, <3>3, <1>0 DEF CallInv, upstream, tokens
    <2>2. CASE ~HasPermanentFailure(w.source) /\ NothingToDo(w)
      <3>1. Step(n, [w EXCEPT !.pc = "finish", !.credential = w.source])
        BY <2>2 DEF RunDecide
      <3>2. call'[n].pc = "finish" /\ call'[n].err = "none"
        BY <3>1, <1>0, <1>1 DEF Step, CallType, TypeInv, TypeOK
      <3> QED
        BY <3>2 DEF CallInv
    <2>3. CASE ~HasPermanentFailure(w.source) /\ ~NothingToDo(w)
      <3>1. Step(n, [w EXCEPT !.pc = "post"])
        BY <2>3 DEF RunDecide
      <3>2. call'[n].pc = "post" /\ call'[n].source = w.source /\ call'[n].err = "none"
        BY <3>1, <1>0, <1>1 DEF Step, CallType, TypeInv, TypeOK
      <3>3. permanentToken = None
        BY <2>3, <1>1 DEF HasPermanentFailure
      <3> QED
        BY <3>2, <3>3, <1>0 DEF CallInv, upstream, tokens
    <2> QED
      BY <2>1, <2>2, <2>3
  <1>4. \A m \in CallIds : CallInv(call[m])'
    BY <1>0, <1>2, <1>3, OwnCall
  <1>5. file \notin consumed \ lost
    BY <1>0, Alone DEF FileInv
  <1>6. FileInv'
    BY <1>0, <1>5 DEF FileInv, upstream, tokens
  <1>7. LoginIsAskedForAReason'
    BY <1>0 DEF Inv, LoginIsAskedForAReason, upstream, tokens
  <1> QED
    BY <1>4, <1>6, <1>7 DEF RefreshInv

LEMMA RunFinishKeeps ==
    ASSUME Inv, NEW n \in CallIds, RunFinish(n)
    PROVE  RefreshInv' /\ LoginIsAskedForAReason'
  <1> DEFINE w == call[n]
  <1>0. TypeInv /\ OneRefreshAtATime /\ Running(n) /\ w \in CallType /\ CallInv(w) /\ FileInv
          /\ UNCHANGED <<file, upstream>> /\ w.pc = "finish" /\ w.err \in Results
    BY DEF Inv, RunFinish, Running, TypeInv, TypeOK, RefreshInv, CallType
  <1>1. call'[n].pc = "done" /\ \A m \in CallIds \ {n} : call'[m] = call[m]
    BY <1>0 DEF RunFinish, Step, NoCall, TypeInv, TypeOK
  <1>2. \A m \in CallIds : call'[m].pc \in {"none", "done"}
    BY <1>0, <1>1, Alone
  <1>3. \A m \in CallIds : CallInv(call[m])'
    BY <1>2, IdleCalls
  <1>4. file \notin consumed \ lost
    BY <1>0, Alone DEF FileInv
  <1>5. FileInv'
    BY <1>0, <1>4 DEF FileInv, upstream, tokens
  <1>6. LoginIsAskedForAReason'
    <2>1. \/ w.err \in {"none", "canceled"}
          \/ w.err = "login" /\ w.source \in denied
          \/ w.err = "load" /\ w.source = None
          \/ w.err = "temporary" /\ permanentToken = None
      BY <1>0 DEF CallInv
    <2>2. LoginIsAskedForAReason /\ denied' = denied
      BY <1>0 DEF Inv, upstream, tokens
    <2>3. permanentToken' = CASE w.err = "none" -> None
                              [] w.err = "login" -> w.source
                              [] OTHER -> permanentToken
      BY DEF RunFinish, Blamed
    <2>4. transientToken' = CASE w.err \in {"none", "login"} -> None
                              [] w.err = "canceled" -> transientToken
                              [] OTHER -> w.source
      BY DEF RunFinish, Blamed
    <2> HIDE DEF w
    <2> QED
      BY <2>1, <2>2, <2>3, <2>4 DEF LoginIsAskedForAReason
  <1> QED
    BY <1>3, <1>5, <1>6 DEF RefreshInv

LEMMA RunPostKeeps ==
    ASSUME Inv, NEW n \in CallIds, RunPost(n)
    PROVE  RefreshInv' /\ LoginIsAskedForAReason'
  <1> DEFINE w == call[n]
  <1>0. /\ TypeInv /\ OneRefreshAtATime /\ Running(n) /\ w \in CallType /\ CallInv(w) /\ FileInv
        /\ LoginIsAskedForAReason
        /\ UNCHANGED <<file, permanentToken, transientToken>> /\ w.pc = "post"
    BY DEF Inv, RunPost, Running, shared, TypeInv, TypeOK, RefreshInv
  <1>1. w.source \in 1..issued /\ w.err = "none" /\ permanentToken = None
          /\ w.source \notin consumed \ lost
    BY <1>0 DEF CallInv
  <1>2. issued \in Nat /\ issued \in Issued /\ login \in [Issued -> Issued]
    BY <1>0 DEF TypeInv, TypeOK, Issued
  <1>3. file \notin consumed \ lost
    BY <1>0, Alone DEF FileInv
  <1>4. PICK d : Step(n, d)
    BY DEF RunPost
  <1>5. denied \subseteq denied' /\ issued <= issued' /\ issued' \in Nat
    BY <1>2 DEF RunPost, Rotate, upstream, tokens
  <1>6. LoginIsAskedForAReason'
    BY <1>0, <1>5 DEF LoginIsAskedForAReason
  <1>7. CASE Rotate(w.source) /\ UNCHANGED lost /\ Step(n, [w EXCEPT !.pc = "save", !.fresh = issued + 1])
    <2>1. /\ issued' = issued + 1 /\ consumed' = consumed \cup {w.source}
          /\ logins' = logins /\ issued + 1 \in Issued
          /\ login' = [login EXCEPT ![issued + 1] = login[w.source]]
      BY <1>2, <1>7, RefresherAssumption DEF Rotate, Issued
    <2>2. /\ call'[n].pc = "save" /\ call'[n].source = w.source /\ call'[n].fresh = issued + 1
          /\ call'[n].err = w.err
      BY <1>7, <1>0 DEF Step, CallType, TypeInv, TypeOK
    <2>3. login'[issued + 1] = login[w.source] /\ login'[w.source] = login[w.source]
      BY <1>1, <1>2, <2>1
    <2>4. consumed \subseteq 1..issued
      BY <1>0 DEF FileInv
    <2>5. call'[n].fresh \in (1..issued') \ consumed'
      BY <1>1, <1>2, <2>1, <2>2, <2>4
    <2>6. call'[n].source \in 1..issued'
      BY <1>1, <1>2, <2>1, <2>2
    <2>7. CallInv(call[n])'
      BY <1>0, <1>1, <2>2, <2>3, <2>5, <2>6 DEF CallInv
    <2>8. \A m \in CallIds : CallInv(call[m])'
      BY <1>0, <1>4, <2>7, OwnCall
    <2>9. FileInv'
      <3>1. file \in 1..issued /\ logins \subseteq 1..issued
        BY <1>0 DEF FileInv
      <3>0. (1..issued) \subseteq (1..issued')
        BY <1>2, <2>1
      <3>2. file' \in 1..issued' /\ logins' \subseteq 1..issued' /\ consumed' \subseteq 1..issued'
        <4>1. file' = file /\ w.source \in 1..issued
          BY <1>0, <1>1
        <4> HIDE DEF w
        <4> QED
          BY <4>1, <2>1, <2>4, <3>0, <3>1
      <3>3. file' \in consumed' \ lost' => file' = call'[n].source
        BY <1>0, <1>3, <1>7, <2>1, <2>2
      <3> QED
        BY <2>2, <3>2, <3>3 DEF FileInv
    <2> QED
      BY <1>6, <2>8, <2>9 DEF RefreshInv
  <1>8. CASE Rotate(w.source) /\ lost' = lost \cup {w.source}
               /\ \E err \in {"temporary", "canceled"} : Step(n, Failed(w, err))
    <2>1. call'[n].pc = "finish" /\ call'[n].err \in {"temporary", "canceled"}
      BY <1>0, <1>8, FailStep
    <2>2. CallInv(call[n])'
      BY <1>0, <1>1, <2>1 DEF CallInv
    <2>3. \A m \in CallIds : CallInv(call[m])'
      BY <1>0, <1>4, <2>2, OwnCall
    <2>4. FileInv'
      <3>1. file \in 1..issued /\ logins \subseteq 1..issued /\ consumed \subseteq 1..issued
        BY <1>0 DEF FileInv
      <3>2. issued' = issued + 1 /\ consumed' = consumed \cup {w.source} /\ logins' = logins
        BY <1>8 DEF Rotate
      <3>0. (1..issued) \subseteq (1..issued')
        BY <1>2, <3>2
      <3>3. file' \in 1..issued' /\ logins' \subseteq 1..issued' /\ consumed' \subseteq 1..issued'
        <4>1. file' = file /\ w.source \in 1..issued
          BY <1>0, <1>1
        <4> HIDE DEF w
        <4> QED
          BY <4>1, <3>0, <3>1, <3>2
      <3>4. file' \notin consumed' \ lost'
        BY <1>0, <1>3, <1>8, <3>2
      <3> QED
        BY <3>3, <3>4 DEF FileInv
    <2> QED
      BY <1>6, <2>3, <2>4 DEF RefreshInv
  <1>9. CASE denied' = denied \cup {w.source} /\ Step(n, Failed(w, "login"))
               /\ UNCHANGED <<issued, login, logins, consumed, lost>>
    <2>1. call'[n].pc = "finish" /\ call'[n].err = "login" /\ call'[n].source = w.source
      BY <1>0, <1>9, FailStep
    <2>2. CallInv(call[n])'
      BY <1>9, <2>1 DEF CallInv
    <2>3. \A m \in CallIds : CallInv(call[m])'
      BY <1>0, <1>4, <2>2, OwnCall
    <2>4. FileInv'
      BY <1>0, <1>3, <1>9 DEF FileInv
    <2> QED
      BY <1>6, <2>3, <2>4 DEF RefreshInv
  <1>10. CASE UNCHANGED upstream /\ \E err \in {"temporary", "canceled"} : Step(n, Failed(w, err))
    <2>1. call'[n].pc = "finish" /\ call'[n].err \in {"temporary", "canceled"}
      BY <1>0, <1>10, FailStep
    <2>2. CallInv(call[n])'
      BY <1>0, <1>1, <2>1 DEF CallInv
    <2>3. \A m \in CallIds : CallInv(call[m])'
      BY <1>0, <1>4, <2>2, OwnCall
    <2>4. FileInv'
      BY <1>0, <1>3, <1>10 DEF FileInv, upstream, tokens
    <2> QED
      BY <1>6, <2>3, <2>4 DEF RefreshInv
  <1> QED
    BY <1>7, <1>8, <1>9, <1>10 DEF RunPost

LEMMA RunSaveKeeps ==
    ASSUME Inv, NEW n \in CallIds, RunSave(n)
    PROVE  RefreshInv' /\ LoginIsAskedForAReason'
  <1> DEFINE w == call[n]
  <1>0. /\ TypeInv /\ OneRefreshAtATime /\ Running(n) /\ w \in CallType /\ CallInv(w) /\ FileInv
        /\ LoginIsAskedForAReason
        /\ UNCHANGED <<permanentToken, transientToken, tokens>> /\ w.pc = "save"
    BY DEF Inv, RunSave, Running, shared, TypeInv, TypeOK, RefreshInv
  <1>1. /\ w.source \in 1..issued /\ w.err = "none" /\ permanentToken = None
        /\ w.fresh \in (1..issued) \ consumed
    BY <1>0 DEF CallInv
  <1>2. PICK d : Step(n, d)
    BY DEF RunSave
  <1>3. /\ call'[n].pc = "finish" /\ call'[n].err \in {"none", "temporary", "canceled"}
    <2>1. CASE \E c : Step(n, [w EXCEPT !.pc = "finish", !.credential = c])
      BY <1>0, <1>1, <2>1 DEF Step, CallType, TypeInv, TypeOK
    <2>2. CASE \E err \in {"temporary", "canceled"} : Step(n, Failed(w, err))
      BY <1>0, <2>2, FailStep
    <2> QED
      BY <2>1, <2>2 DEF RunSave
  <1>4. CallInv(call[n])'
    BY <1>0, <1>1, <1>3 DEF CallInv
  <1>5. \A m \in CallIds : CallInv(call[m])'
    BY <1>0, <1>2, <1>4, OwnCall
  <1>6. /\ file' \in {file, w.fresh} /\ lost \subseteq lost'
        /\ file' = w.fresh \/ file # w.source \/ w.source \in lost'
    BY DEF RunSave, Store, StillThere
  <1>7. file' \notin consumed' \ lost'
    <2>1. CASE file' = w.fresh
      BY <1>0, <1>1, <2>1 DEF tokens
    <2>2. CASE file' = file /\ (file # w.source \/ w.source \in lost')
      <3>1. \A m \in CallIds : call[m].pc = "save" => m = n
        BY <1>0, Alone
      <3> HIDE DEF w
      <3>2. file \in consumed \ lost => file = w.source
        BY <1>0, <3>1 DEF FileInv, w
      <3> QED
        BY <1>0, <1>6, <2>2, <3>2 DEF tokens
    <2> QED
      BY <1>6, <2>1, <2>2
  <1>8. FileInv'
    BY <1>0, <1>1, <1>6, <1>7 DEF FileInv, upstream, tokens
  <1>9. LoginIsAskedForAReason'
    BY <1>0 DEF LoginIsAskedForAReason, upstream, tokens
  <1> QED
    BY <1>5, <1>8, <1>9 DEF RefreshInv

LEMMA SaveCredentialKeeps ==
    ASSUME Inv, SaveCredential
    PROVE  RefreshInv' /\ LoginIsAskedForAReason'
  <1>0. /\ TypeInv /\ FileInv /\ (\A m \in CallIds : CallInv(call[m])) /\ LoginIsAskedForAReason
        /\ UNCHANGED <<permanentToken, transientToken, call, consumed, denied, lost>>
    BY DEF Inv, RefreshInv, SaveCredential, shared
  <1>1. issued \in Nat /\ issued' = issued + 1 /\ file' = issued + 1
          /\ logins' = logins \cup {issued + 1}
    BY <1>0 DEF SaveCredential, Store, TypeInv, TypeOK, Issued
  <1>2. \A c \in 1..issued : login'[c] = login[c]
    BY <1>0, <1>1 DEF SaveCredential, TypeInv, TypeOK, Issued
  <1>3. \A m \in CallIds : CallInv(call[m])'
    BY <1>0, <1>1, <1>2 DEF CallInv
  <1>4. FileInv'
    <2>1. logins \subseteq 1..issued /\ consumed \subseteq 1..issued
      BY <1>0 DEF FileInv
    <2>2. file' \in 1..issued' /\ logins' \subseteq 1..issued' /\ consumed' \subseteq 1..issued'
      BY <1>0, <1>1, <2>1
    <2>3. file' \notin consumed' \ lost'
      BY <1>0, <1>1, <2>1
    <2> QED
      BY <2>2, <2>3 DEF FileInv
  <1>5. LoginIsAskedForAReason'
    BY <1>0 DEF LoginIsAskedForAReason
  <1> QED
    BY <1>3, <1>4, <1>5 DEF RefreshInv

-----------------------------------------------------------------------------
(* Putting the steps together *)

LEMMA InitInv == Init => Inv
  <1> SUFFICES ASSUME Init PROVE Inv
    OBVIOUS
  <1>1. TypeInv
    <2>1. NoCall \in CallType /\ NoCaller \in CallerType
      BY NoneIsIssued DEF NoCall, NoCaller, CallType, CallerType, Results
    <2>2. started = 0 /\ started \in 0..MaxCalls
      BY RefresherAssumption DEF Init
    <2>3. \A p \in Callers : caller[p].pc = "idle"
      BY DEF Init, NoCaller
    <2>4. login \in [Issued -> Issued]
      BY NoneIsIssued DEF Init
    <2> QED
      BY <2>1, <2>2, <2>3, <2>4, NoneIsIssued DEF Init, TypeInv, TypeOK, Waiting, None
  <1>2. \A n \in CallIds : call[n].pc = "none"
    BY DEF Init, NoCall
  <1>3. OneRefreshAtATime
    BY <1>2 DEF Init, OneRefreshAtATime, Running, None, CallIds
  <1>4. RefreshInv
    BY <1>2 DEF Init, RefreshInv, FileInv, CallInv
  <1>5. LoginIsAskedForAReason
    BY DEF Init, LoginIsAskedForAReason
  <1> QED
    BY <1>1, <1>3, <1>4, <1>5 DEF Inv

LEMMA TypeStep == ASSUME Inv, Next PROVE TypeInv'
  <1>0. TypeInv /\ \A n \in CallIds : CallInv(call[n])
    BY DEF Inv, RefreshInv
  <1>1. ASSUME NEW p \in Callers, Proceed(p) \/ Cancel(p) PROVE TypeInv'
    BY <1>0, <1>1, ObserveType, LoadType, CheckType, ClearTypeStep, SingleFlightType, WaitType,
       SendType, ReloadType, ConfirmType, CancelType DEF Proceed
  <1>2. ASSUME NEW n \in CallIds, Refresh(n) PROVE TypeInv'
    <2>1. RunSave(n) => call[n].fresh # None
      BY <1>0 DEF RunSave, CallInv, None
    <2> QED
      BY <1>0, <1>2, <2>1, RunLoadType, RunClearType, RunDecideType, RunPostType, RunSaveType,
         RunFinishType DEF Refresh
  <1> QED
    BY <1>0, <1>1, <1>2, SaveCredentialType, ClocksType DEF Next

LEMMA RefreshStep == ASSUME Inv, Next PROVE RefreshInv' /\ LoginIsAskedForAReason'
  <1>1. ASSUME NEW p \in Callers, Proceed(p) \/ Cancel(p) PROVE RefreshInv' /\ LoginIsAskedForAReason'
    <2>1. CASE SingleFlight(p)
      <3>1. CASE Join(p)
        BY <2>1, <3>1, ForgettingKeeps DEF SingleFlight, Join, shared
      <3>2. CASE MayStart /\ StartCall(p)
        BY <2>1, <3>2, StartCallKeeps DEF SingleFlight
      <3> QED
        BY <2>1, <3>1, <3>2 DEF SingleFlight
    <2>2. CASE Clear(p)
      <3>1. caller[p].credential \in Issued
        BY DEF Inv, TypeInv, TypeOK, CallerType
      <3>2. /\ permanentToken' \in {permanentToken, None}
            /\ transientToken' \in {transientToken, None}
        BY <2>2, <3>1, ClearType DEF Clear, Inv
      <3> QED
        BY <2>2, <3>2, ForgettingKeeps DEF Clear
    <2>3. CASE Observe(p) \/ Load(p) \/ Check(p) \/ Wait(p) \/ Send(p) \/ Reload(p) \/ Confirm(p)
                 \/ Cancel(p)
      <3>1. UNCHANGED <<file, shared, call, upstream>>
        BY <2>3 DEF Observe, Load, Check, Wait, Send, Reload, Confirm, Cancel
      <3> QED
        BY <3>1, ForgettingKeeps DEF shared
    <2> QED
      BY <1>1, <2>1, <2>2, <2>3 DEF Proceed
  <1>2. ASSUME NEW n \in CallIds, Refresh(n) PROVE RefreshInv' /\ LoginIsAskedForAReason'
    BY <1>2, RunLoadKeeps, RunClearKeeps, RunDecideKeeps, RunPostKeeps, RunSaveKeeps, RunFinishKeeps
       DEF Refresh
  <1>3. CASE Expire \/ Reject
    BY <1>3, ForgettingKeeps DEF Expire, Reject, shared
  <1> QED
    BY <1>1, <1>2, <1>3, SaveCredentialKeeps DEF Next

LEMMA StutterKeeps == ASSUME Inv, UNCHANGED vars PROVE Inv'
  BY DEF Inv, vars, shared, upstream, tokens, clocks, TypeInv, TypeOK, Waiting, OneRefreshAtATime, Running,
         RefreshInv, FileInv, CallInv, LoginIsAskedForAReason

LEMMA InvHolds == Spec => []Inv
  <1>1. Inv /\ [Next]_vars => Inv'
    <2>1. ASSUME Inv, Next PROVE Inv'
      BY <2>1, TypeStep, OneRefreshStep, RefreshStep DEF Inv
    <2> QED
      BY <2>1, StutterKeeps
  <1> QED
    BY <1>1, InitInv, PTL DEF Spec

(* The shared state, every refresh call and every caller keep their shape. *)
THEOREM RefresherTypes == Spec => []TypeOK
  BY InvHolds, PTL DEF Inv, TypeInv

(* At most one refresh runs, and inFlight names it for as long as it runs. *)
THEOREM RefreshesAreSingleFlight == Spec => []OneRefreshAtATime
  BY InvHolds, PTL DEF Inv

(* What a running refresh holds agrees with the shared state and the file. *)
THEOREM RefreshesAgreeWithTheFile == Spec => []RefreshInv
  BY InvHolds, PTL DEF Inv

(* A failure is remembered only for a credential that was really refused,  *)
(* although a failure ends a refresh long after it began.                  *)
THEOREM FailuresBlameTheRefused == Spec => []LoginIsAskedForAReason
  BY InvHolds, PTL DEF Inv

(* A refresh token is presented once, however many callers saw the         *)
(* credential it came with, unless the credential it was rotated into was  *)
(* lost on the way or could not be saved.                                  *)
THEOREM TokensAreUsedOnce == Spec => []UsedTokensStayUsed
  <1>1. Inv => UsedTokensStayUsed
    BY DEF Inv, RefreshInv, CallInv, UsedTokensStayUsed
  <1> QED
    BY <1>1, InvHolds, PTL

(* The stored credential descends from the newest login.                   *)
LEMMA LoginStep ==
    ASSUME Inv, NewestLoginWins, [Next]_vars
    PROVE  NewestLoginWins'
  <1>0. /\ TypeInv /\ FileInv /\ logins \subseteq 1..issued /\ issued \in Nat
        /\ login \in [Issued -> Issued] /\ file \in Issued /\ file \in 1..issued
        /\ \A n \in CallIds : CallInv(call[n])
    BY DEF Inv, RefreshInv, FileInv, TypeInv, TypeOK, Issued
  <1>1. ASSUME UNCHANGED <<file, login, logins>> PROVE NewestLoginWins'
    BY <1>1 DEF NewestLoginWins
  <1>2. ASSUME NEW p \in Callers, Proceed(p) \/ Cancel(p) PROVE NewestLoginWins'
    <2>1. UNCHANGED <<file, upstream>>
      BY <1>2 DEF Proceed, Observe, Load, Check, Clear, SingleFlight, Wait, Send, Reload, Confirm, Cancel
    <2> QED
      BY <1>1, <2>1 DEF upstream, tokens
  <1>3. ASSUME NEW n \in CallIds, Refresh(n) PROVE NewestLoginWins'
    <2>1. CASE RunLoad(n) \/ RunClear(n) \/ RunDecide(n) \/ RunFinish(n)
      BY <1>1, <2>1 DEF RunLoad, RunClear, RunDecide, RunFinish, upstream, tokens
    <2>2. CASE RunPost(n)
      <3>1. file' = file /\ logins' = logins
        BY <2>2 DEF RunPost, Rotate, upstream, tokens
      <3>2. login'[file] = login[file]
        <4>1. CASE Rotate(call[n].source)
          <5>1. login' = [login EXCEPT ![issued + 1] = login[call[n].source]]
            BY <4>1 DEF Rotate
          <5>2. file # issued + 1
            BY <1>0
          <5> QED
            BY <1>0, <5>1, <5>2
        <4>2. CASE login' = login
          BY <4>2
        <4> QED
          BY <2>2, <4>1, <4>2 DEF RunPost, upstream, tokens
      <3> QED
        BY <3>1, <3>2 DEF NewestLoginWins
    <2>3. CASE RunSave(n)
      <3>1. UNCHANGED <<login, logins>>
        BY <2>3 DEF RunSave, upstream, tokens
      <3>2. file' = file \/ (file = call[n].source /\ file' = call[n].fresh)
        BY <2>3 DEF RunSave, Store, StillThere
      <3>3. login[call[n].fresh] = login[call[n].source]
        BY <1>0, <2>3 DEF RunSave, CallInv
      <3> QED
        BY <3>1, <3>2, <3>3 DEF NewestLoginWins
    <2> QED
      BY <1>3, <2>1, <2>2, <2>3 DEF Refresh
  <1>4. CASE SaveCredential
    <2>1. file' = issued + 1 /\ logins' = logins \cup {issued + 1}
      BY <1>4 DEF SaveCredential, Store
    <2>2. issued + 1 \in Issued
      BY <1>0, <1>4, RefresherAssumption DEF SaveCredential, Issued
    <2>3. login'[issued + 1] = issued + 1
      BY <1>0, <1>4, <2>2 DEF SaveCredential
    <2>4. \A c \in logins : c <= issued + 1
      BY <1>0
    <2>5. issued + 1 <= issued + 1
      BY <1>0
    <2>6. login'[file'] = issued + 1
      BY <2>1, <2>3
    <2> QED
      BY <2>1, <2>4, <2>5, <2>6 DEF NewestLoginWins
  <1>5. CASE Expire \/ Reject \/ UNCHANGED vars
    BY <1>1, <1>5 DEF Expire, Reject, vars, upstream, tokens
  <1> QED
    BY <1>2, <1>3, <1>4, <1>5 DEF Next

(* A refresh that began before a login never overwrites it. *)
THEOREM LoginsAreKept == Spec => []NewestLoginWins
  <1>1. Init => NewestLoginWins
    BY NoneIsIssued DEF Init, NewestLoginWins
  <1> QED
    BY <1>1, InvHolds, LoginStep, PTL DEF Spec

(* The invariant of the refresher: the types and the agreement of running  *)
(* refreshes with the file, the failures and the upstream.                 *)
THEOREM RefresherIsConsistent == Spec => []RefresherInv
  BY RefresherTypes, RefreshesAgreeWithTheFile, PTL DEF RefresherInv

(* Refreshes do not overlap, no login is overwritten, and a new login is   *)
(* asked for only when the upstream refused the credential.                *)
THEOREM RefresherKeepsItsPromises == Spec => []RefreshPromises
  BY RefreshesAreSingleFlight, LoginsAreKept, FailuresBlameTheRefused, PTL DEF RefreshPromises

-----------------------------------------------------------------------------
(* What is sent was stored.  A credential that was in the file when a call *)
(* began, or came into it since, is in held.                               *)

(* The credential a refresh read from the file and may still hand out, or  *)
(* the one it will hand out.                                               *)
Kept(n) ==
    CASE call[n].pc \in {"clear", "decide", "post", "save"} -> {call[n].source}
      [] call[n].pc = "finish" /\ call[n].err = "none" -> {call[n].credential}
      [] OTHER -> {}
(* A caller that will read the file again before it sends anything. *)
LooksAgain(c) == c.pc \in {"observe", "load", "check", "await"} \/ (c.pc = "clear" /\ c.rejected = None)

HeldBy(c) ==
    /\ file \in c.held
    /\ c.pc \in {"observe", "load", "check", "await"} => c.rejected = None
    /\ c.pc \in {"clear", "confirm", "send"} => c.credential \in c.held
    /\ c.pc = "check" => c.credential \in c.held \cup {None}
    /\ c.pc = "join" /\ call[c.flight].pc = "done" /\ call[c.flight].err = "none"
         => call[c.flight].credential \in c.held
    /\ \A n \in CallIds : Kept(n) \subseteq c.held \/ (LooksAgain(c) /\ c.flight = n)
HeldInv == \A p \in Callers : /\ caller[p].pc = "idle" => caller[p].rejected = None
                              /\ Active(p) => HeldBy(caller[p])

(* The step of one caller that leaves file and calls alone. *)
LEMMA HeldByOne ==
    ASSUME TypeInv, HeldInv, NEW p \in Callers, NEW d, Become(p, d), UNCHANGED <<file, call>>,
           d.pc # "idle", d.pc # "done" => HeldBy(d)
    PROVE  HeldInv'
  <1>1. \A q \in Callers : caller'[q] = IF q = p THEN d ELSE caller[q]
    BY DEF Become, TypeInv, TypeOK
  <1>2. \A c : HeldBy(c) => HeldBy(c)'
    BY DEF HeldBy, Kept, LooksAgain
  <1> QED
    BY <1>1, <1>2 DEF HeldInv, Active

(* A call that ends owes nothing. *)
LEMMA HeldEnd ==
    ASSUME TypeInv, HeldInv, NEW p \in Callers, NEW r, Become(p, Ended(caller[p], r)),
           UNCHANGED <<file, call>>
    PROVE  HeldInv'
  <1>1. Ended(caller[p], r).pc = "done"
    BY DEF Ended, NoCaller
  <1> QED
    BY <1>1, HeldByOne

LEMMA HeldObserve ==
    ASSUME Inv, HeldInv, NEW p \in Callers, Observe(p) PROVE HeldInv'
  <1> DEFINE c == caller[p]
             d == [c EXCEPT !.pc = "load", !.generation = generation, !.flight = inFlight,
                            !.permanent = permanentToken, !.transient = transientToken,
                            !.held = IF c.pc = "idle" THEN {file} ELSE @]
  <1>0. TypeInv /\ OneRefreshAtATime /\ c \in CallerType /\ call \in [CallIds -> CallType]
    BY DEF Inv, TypeInv, TypeOK
  <1>1. /\ Become(p, d) /\ UNCHANGED <<file, call>> /\ c.pc \in {"idle", "observe"}
    BY DEF Observe
  <1>2. /\ d.pc = "load" /\ d.flight = inFlight /\ d.rejected = c.rejected
        /\ d.held = IF c.pc = "idle" THEN {file} ELSE c.held
    BY <1>0 DEF CallerType
  <1>3. c.pc = "observe" => HeldBy(c)
    BY DEF HeldInv, Active
  <1>4. c.pc = "idle" => c.rejected = None
    BY DEF HeldInv
  <1>5. \A n \in CallIds : Kept(n) # {} => inFlight = n
    BY <1>0 DEF Kept, OneRefreshAtATime, Running
  <1>6. HeldBy(d)
    <2> HIDE DEF d, c
    <2> QED
      BY <1>1, <1>2, <1>3, <1>4, <1>5 DEF HeldBy, LooksAgain
  <1> QED
    BY <1>0, <1>1, <1>2, <1>6, HeldByOne

LEMMA HeldLoad ==
    ASSUME Inv, HeldInv, NEW p \in Callers, Load(p) PROVE HeldInv'
  <1> DEFINE c == caller[p]
  <1>0. TypeInv /\ c \in CallerType /\ c.pc = "load" /\ HeldBy(c) /\ UNCHANGED <<file, call>>
    BY DEF Inv, TypeInv, TypeOK, Load, HeldInv, Active
  <1>1. PICK f \in {file, None} : Become(p, [c EXCEPT !.pc = "check", !.credential = f])
    BY DEF Load
  <1> DEFINE d == [c EXCEPT !.pc = "check", !.credential = f]
  <1>2. /\ d.pc = "check" /\ d.credential = f /\ d.flight = c.flight /\ d.rejected = c.rejected
        /\ d.held = c.held
    BY <1>0 DEF CallerType
  <1>3. HeldBy(d)
    <2> HIDE DEF d, c
    <2> QED
      BY <1>0, <1>2 DEF HeldBy, LooksAgain
  <1> QED
    BY <1>0, <1>1, <1>2, <1>3, HeldByOne

(* The look at the file counts unless a refresh was seen on the way. *)
LEMMA HeldCheck ==
    ASSUME Inv, HeldInv, NEW p \in Callers, Check(p) PROVE HeldInv'
  <1> DEFINE c == caller[p]
  <1>0. /\ TypeInv /\ OneRefreshAtATime /\ c \in CallerType /\ c.pc = "check" /\ HeldBy(c)
        /\ UNCHANGED <<file, call>>
    BY DEF Inv, TypeInv, TypeOK, Check, HeldInv, Active
  <1>1. \A pc \in {"observe", "clear", "await", "start", "send"} :
           LET d == [c EXCEPT !.pc = pc] IN
           /\ d.pc = pc /\ d.credential = c.credential /\ d.flight = c.flight
           /\ d.rejected = c.rejected /\ d.held = c.held
    BY <1>0 DEF CallerType
  <1>2. \A n \in CallIds : Kept(n) # {} => inFlight = n /\ n # None
    BY <1>0 DEF Kept, OneRefreshAtATime, Running, CallIds, None
  <1>3. ASSUME NEW pc \in {"observe", "clear", "await", "start", "send"},
               Become(p, [c EXCEPT !.pc = pc]),
               pc = "clear" => c.credential # None,
               pc \in {"start", "send"} => c.credential # None /\ c.flight = None
        PROVE  HeldInv'
    <2> DEFINE d == [c EXCEPT !.pc = pc]
    <2>1. /\ d.pc = pc /\ d.credential = c.credential /\ d.flight = c.flight
          /\ d.rejected = c.rejected /\ d.held = c.held
      BY <1>1
    <2>2. HeldBy(d)
      <3> HIDE DEF d, c
      <3> QED
        BY <1>0, <1>2, <1>3, <2>1 DEF HeldBy, LooksAgain
    <2> QED
      BY <1>0, <1>3, <2>1, <2>2, HeldByOne
  <1>4. CASE Moved(p) /\ inFlight # None /\ p \notin Probes
    <2> DEFINE d == [c EXCEPT !.pc = "await", !.flight = inFlight]
    <2>1. Become(p, d)
      BY <1>4 DEF Check
    <2>2. /\ d.pc = "await" /\ d.flight = inFlight /\ d.rejected = c.rejected /\ d.held = c.held
      BY <1>0 DEF CallerType
    <2>3. HeldBy(d)
      <3> HIDE DEF d, c
      <3> QED
        BY <1>0, <1>2, <2>2 DEF HeldBy, LooksAgain
    <2> QED
      BY <1>0, <2>1, <2>2, <2>3, HeldByOne
  <1>5. CASE Moved(p) /\ ~(inFlight # None /\ p \notin Probes)
    <2>1. Become(p, [c EXCEPT !.pc = "observe"])
      BY <1>5 DEF Check
    <2> QED
      BY <1>3, <2>1
  <1>6. CASE ~Moved(p)
    <2>1. Decide(p)
      BY <1>6 DEF Check
    <2>2. \/ \E r \in {"load", "login", "ok"} : Become(p, Ended(c, r))
          \/ c.credential # None /\ Become(p, [c EXCEPT !.pc = "clear"])
          \/ c.credential # None /\ Become(p, [c EXCEPT !.pc = "await"])
          \/ \E pc \in {"start", "send"} :
                c.credential # None /\ c.flight = None /\ Become(p, [c EXCEPT !.pc = pc])
      BY <2>1 DEF Decide
    <2>3. CASE \E r \in {"load", "login", "ok"} : Become(p, Ended(c, r))
      BY <1>0, <2>3, HeldEnd
    <2>4. CASE \/ c.credential # None /\ Become(p, [c EXCEPT !.pc = "clear"])
               \/ Become(p, [c EXCEPT !.pc = "await"])
      BY <1>3, <2>4
    <2>5. CASE \E pc \in {"start", "send"} :
                c.credential # None /\ c.flight = None /\ Become(p, [c EXCEPT !.pc = pc])
      BY <1>3, <2>5
    <2> QED
      BY <2>2, <2>3, <2>4, <2>5
  <1> QED
    BY <1>4, <1>5, <1>6

LEMMA HeldClear ==
    ASSUME Inv, HeldInv, NEW p \in Callers, Clear(p) PROVE HeldInv'
  <1> DEFINE c == caller[p]
             d == [c EXCEPT !.pc = IF c.rejected = None THEN "observe" ELSE "confirm"]
  <1>0. TypeInv /\ c \in CallerType /\ c.pc = "clear" /\ HeldBy(c) /\ UNCHANGED <<file, call>>
    BY DEF Inv, TypeInv, TypeOK, Clear, HeldInv, Active
  <1>1. Become(p, d)
    BY DEF Clear
  <1>2. /\ d.pc = IF c.rejected = None THEN "observe" ELSE "confirm"
        /\ d.credential = c.credential /\ d.flight = c.flight /\ d.rejected = c.rejected
        /\ d.held = c.held
    BY <1>0 DEF CallerType
  <1>3. d.pc # "idle" /\ HeldBy(d)
    <2> HIDE DEF d, c
    <2> QED
      BY <1>0, <1>2 DEF HeldBy, LooksAgain
  <1> QED
    BY <1>0, <1>1, <1>2, <1>3, HeldByOne

LEMMA HeldWait ==
    ASSUME Inv, HeldInv, NEW p \in Callers, Wait(p) PROVE HeldInv'
  <1> DEFINE c == caller[p]
             f == call[c.flight]
  <1>0. /\ TypeInv /\ c \in CallerType /\ c.pc \in {"await", "join"} /\ HeldBy(c)
        /\ UNCHANGED <<file, call>> /\ c.flight \in CallIds /\ f.pc = "done"
    BY DEF Inv, TypeInv, Waiting, TypeOK, Wait, HeldInv, Active
  <1>1. CASE Become(p, Ended(c, f.err))
    BY <1>0, <1>1, HeldEnd
  <1>2. CASE c.pc = "await" /\ Become(p, [c EXCEPT !.pc = "observe"])
    <2> DEFINE d == [c EXCEPT !.pc = "observe"]
    <2>1. d.pc = "observe" /\ d.flight = c.flight /\ d.rejected = c.rejected /\ d.held = c.held
      BY <1>0 DEF CallerType
    <2>2. HeldBy(d)
      <3> HIDE DEF d, c
      <3> QED
        BY <1>0, <1>2, <2>1 DEF HeldBy, LooksAgain
    <2> QED
      BY <1>0, <1>2, <2>1, <2>2, HeldByOne
  <1>3. CASE c.pc = "join" /\ f.err = "none"
                /\ Become(p, [c EXCEPT !.pc = "send", !.credential = f.credential])
    <2> DEFINE d == [c EXCEPT !.pc = "send", !.credential = f.credential]
    <2>1. d.pc = "send" /\ d.credential = f.credential /\ d.flight = c.flight /\ d.held = c.held
      BY <1>0 DEF CallerType
    <2>2. HeldBy(d)
      <3> HIDE DEF d, c
      <3> QED
        BY <1>0, <1>3, <2>1 DEF HeldBy, LooksAgain
    <2> QED
      BY <1>0, <1>3, <2>1, <2>2, HeldByOne
  <1> QED
    BY <1>0, <1>1, <1>2, <1>3 DEF Wait

LEMMA HeldSend ==
    ASSUME Inv, HeldInv, NEW p \in Callers, Send(p) \/ Reload(p) \/ Confirm(p) \/ Cancel(p)
    PROVE  HeldInv'
  <1> DEFINE c == caller[p]
  <1>0. TypeInv /\ c \in CallerType /\ UNCHANGED <<file, call>> /\ HeldBy(c)
    BY DEF Inv, TypeInv, TypeOK, HeldInv, Active, Send, Reload, Confirm, Cancel
  <1>1. \/ \E r \in {"ok", "unauthorized", "load", "login", "canceled"} : Become(p, Ended(c, r))
        \/ c.pc = "send" /\ Become(p, [c EXCEPT !.pc = "reload", !.rejected = c.credential])
        \/ c.pc = "reload" /\ Become(p, [c EXCEPT !.pc = "clear", !.credential = file])
        \/ \E pc \in {"send", "start"} : c.pc = "confirm" /\ Become(p, [c EXCEPT !.pc = pc])
    BY DEF Send, Reload, Confirm, Cancel
  <1>2. CASE \E r \in {"ok", "unauthorized", "load", "login", "canceled"} : Become(p, Ended(c, r))
    BY <1>0, <1>2, HeldEnd
  <1>3. CASE c.pc = "send" /\ Become(p, [c EXCEPT !.pc = "reload", !.rejected = c.credential])
    <2> DEFINE d == [c EXCEPT !.pc = "reload", !.rejected = c.credential]
    <2>1. d.pc = "reload" /\ d.held = c.held /\ d.flight = c.flight
      BY <1>0 DEF CallerType
    <2>2. HeldBy(d)
      <3> HIDE DEF d, c
      <3> QED
        BY <1>0, <1>3, <2>1 DEF HeldBy, LooksAgain
    <2> QED
      BY <1>0, <1>3, <2>1, <2>2, HeldByOne
  <1>4. CASE c.pc = "reload" /\ Become(p, [c EXCEPT !.pc = "clear", !.credential = file])
    <2> DEFINE d == [c EXCEPT !.pc = "clear", !.credential = file]
    <2>1. d.pc = "clear" /\ d.credential = file /\ d.held = c.held /\ d.flight = c.flight
      BY <1>0 DEF CallerType
    <2>2. HeldBy(d)
      <3> HIDE DEF d, c
      <3> QED
        BY <1>0, <1>4, <2>1 DEF HeldBy, LooksAgain
    <2> QED
      BY <1>0, <1>4, <2>1, <2>2, HeldByOne
  <1>5. ASSUME NEW pc \in {"send", "start"}, c.pc = "confirm", Become(p, [c EXCEPT !.pc = pc])
        PROVE  HeldInv'
    <2> DEFINE d == [c EXCEPT !.pc = pc]
    <2>1. d.pc = pc /\ d.credential = c.credential /\ d.held = c.held /\ d.flight = c.flight
      BY <1>0 DEF CallerType
    <2>2. HeldBy(d)
      <3> HIDE DEF d, c
      <3> QED
        BY <1>0, <1>5, <2>1 DEF HeldBy, LooksAgain
    <2> QED
      BY <1>0, <1>5, <2>1, <2>2, HeldByOne
  <1> QED
    BY <1>1, <1>2, <1>3, <1>4, <1>5

(* A caller that finds a refresh under way joins it; what that refresh     *)
(* holds was stored since this caller looked.                              *)
LEMMA HeldJoin ==
    ASSUME Inv, HeldInv, NEW p \in Callers, caller[p].pc = "start", Join(p), UNCHANGED <<file, upstream>>
    PROVE  HeldInv'
  <1> DEFINE c == caller[p]
             d == [c EXCEPT !.pc = "join", !.flight = inFlight]
  <1>0. /\ TypeInv /\ OneRefreshAtATime /\ c \in CallerType /\ c.pc = "start" /\ HeldBy(c)
        /\ UNCHANGED <<file, call>> /\ Become(p, d) /\ inFlight \in CallIds
    BY DEF Inv, TypeInv, TypeOK, HeldInv, Active, Join
  <1>1. d.pc = "join" /\ d.flight = inFlight /\ d.held = c.held
    BY <1>0 DEF CallerType
  <1>2. call[inFlight].pc # "done"
    BY <1>0 DEF OneRefreshAtATime, Running
  <1>3. HeldBy(d)
    <2> HIDE DEF d, c
    <2> QED
      BY <1>0, <1>1, <1>2 DEF HeldBy, LooksAgain
  <1> QED
    BY <1>0, <1>1, <1>3, HeldByOne

LEMMA HeldStart ==
    ASSUME Inv, HeldInv, NEW p \in Callers, caller[p].pc = "start", MayStart, StartCall(p),
           UNCHANGED <<file, upstream>>
    PROVE  HeldInv'
  <1> DEFINE c == caller[p]
             n == started + 1
             d == [c EXCEPT !.pc = "join", !.flight = n]
             w == [NoCall EXCEPT !.pc = "load", !.force = c.rejected # None,
                                 !.observed = c.credential]
  <1>0. /\ TypeInv /\ OneRefreshAtATime /\ c \in CallerType /\ HeldBy(c) /\ n \in CallIds
        /\ file' = file /\ Become(p, d) /\ call' = [call EXCEPT ![n] = w]
    BY DEF Inv, TypeInv, TypeOK, HeldInv, Active, StartCall
  <1>1. d.pc = "join" /\ d.flight = n /\ d.held = c.held
    BY <1>0 DEF CallerType
  <1>2. /\ \A q \in Callers : caller'[q] = IF q = p THEN d ELSE caller[q]
        /\ \A m \in CallIds : call'[m] = IF m = n THEN w ELSE call[m]
    BY <1>0 DEF Become, TypeInv, TypeOK
  <1>3. w.pc = "load"
    BY DEF NoCall
  <1>4. \A m \in CallIds : Kept(m)' = {}
    <2>1. \A m \in CallIds : call[m].pc \in {"none", "done"}
      BY DEF Inv, OneRefreshAtATime, Running, MayStart, None, CallIds
    <2> HIDE DEF w
    <2> QED
      BY <1>2, <1>3, <2>1 DEF Kept
  <1>5. \A q \in Callers : (caller[q].pc = "join" => caller[q].flight \in CallIds)
    BY <1>0 DEF TypeInv, Waiting
  <1>6. ASSUME NEW q \in Callers, q # p, HeldBy(caller[q]) PROVE HeldBy(caller[q])'
    <2> HIDE DEF w, d
    <2> QED
      BY <1>0, <1>2, <1>3, <1>4, <1>5, <1>6 DEF HeldBy, LooksAgain
  <1>7. HeldBy(caller[p])'
    <2> HIDE DEF w, d
    <2> QED
      BY <1>0, <1>1, <1>2, <1>3, <1>4 DEF HeldBy, LooksAgain
  <1> HIDE DEF w, d
  <1> QED
    BY <1>0, <1>1, <1>2, <1>6, <1>7 DEF HeldInv, Active

(* A step of the running refresh that stores nothing and keeps at most     *)
(* what it kept or the credential in the file.                             *)
LEMMA HeldRun ==
    ASSUME Inv, HeldInv, NEW n \in CallIds, NEW w, Step(n, w), UNCHANGED <<file, caller>>,
           Running(n), Kept(n)' \subseteq Kept(n) \cup {file},
           w.pc = "done" /\ w.err = "none" => call[n].pc = "finish" /\ call[n].err = "none"
                                                /\ w.credential = call[n].credential
    PROVE  HeldInv'
  <1>0. TypeInv /\ OneRefreshAtATime /\ call \in [CallIds -> CallType]
    BY DEF Inv, TypeInv, TypeOK
  <1>1. \A m \in CallIds : call'[m] = IF m = n THEN w ELSE call[m]
    BY <1>0 DEF Step
  <1>2. \A m \in CallIds \ {n} : Kept(m)' = Kept(m)
    BY <1>1 DEF Kept
  <1>3. \A q \in Callers : caller[q].pc = "join" => caller[q].flight \in CallIds
    BY <1>0 DEF TypeInv, Waiting
  <1>4. ASSUME NEW q \in Callers, HeldBy(caller[q]), Active(q) PROVE HeldBy(caller[q])'
    <2> DEFINE c == caller[q]
    <2>1. ASSUME c.pc = "join", call'[c.flight].pc = "done", call'[c.flight].err = "none"
          PROVE  call'[c.flight].credential \in c.held
      <3>1. CASE c.flight = n
        <4>1. Kept(n) = {call[n].credential} /\ call'[n] = w
          BY <1>1, <2>1, <3>1 DEF Kept
        <4>2. Kept(n) \subseteq c.held
          BY <1>4, <2>1 DEF HeldBy, LooksAgain
        <4> QED
          BY <1>1, <2>1, <3>1, <4>1, <4>2
      <3>2. CASE c.flight # n
        BY <1>1, <1>3, <1>4, <2>1, <3>2 DEF HeldBy
      <3> QED
        BY <3>1, <3>2
    <2>2. \A m \in CallIds : Kept(m)' \subseteq c.held \/ (LooksAgain(c) /\ c.flight = m)
      BY <1>2, <1>4 DEF HeldBy
    <2> QED
      BY <1>4, <2>1, <2>2 DEF HeldBy, LooksAgain
  <1> QED
    BY <1>4 DEF HeldInv, Active

(* Storing a credential shows it to every call that is under way. *)
LEMMA HeldStore ==
    ASSUME Inv, HeldInv, NEW f, Store(f),
           NEW n \in CallIds, NEW w, call' = call \/ (Running(n) /\ Step(n, w) /\ w.pc = "finish"),
           call' # call => Kept(n)' \subseteq {f}
    PROVE  HeldInv'
  <1>0. /\ TypeInv /\ OneRefreshAtATime /\ call \in [CallIds -> CallType]
        /\ file' = f /\ caller \in [Callers -> CallerType]
    BY DEF Inv, TypeInv, TypeOK, Store
  <1>1. \A m \in CallIds : call'[m] = IF m = n /\ call' # call THEN w ELSE call[m]
    BY <1>0 DEF Step
  <1>2. \A m \in CallIds : Kept(m)' \subseteq Kept(m) \cup {f}
    BY <1>1 DEF Kept
  <1>3. \A q \in Callers : caller[q].pc = "join" => caller[q].flight \in CallIds
    BY <1>0 DEF TypeInv, Waiting
  <1>4. ASSUME NEW q \in Callers
        PROVE  LET c == caller[q] d == caller'[q] IN
               /\ d.pc = c.pc /\ d.credential = c.credential /\ d.flight = c.flight
               /\ d.rejected = c.rejected
               /\ Active(q) => d.held = c.held \cup {f}
    BY <1>0 DEF Store, CallerType
  <1>5. ASSUME NEW q \in Callers, HeldBy(caller[q]), Active(q) PROVE HeldBy(caller[q])'
    BY <1>0, <1>1, <1>2, <1>3, <1>4, <1>5 DEF HeldBy, LooksAgain
  <1> QED
    BY <1>4, <1>5 DEF HeldInv, Active

LEMMA HeldRefresh ==
    ASSUME Inv, HeldInv, NEW n \in CallIds, Refresh(n) PROVE HeldInv'
  <1> DEFINE w == call[n]
  <1>0. /\ TypeInv /\ w \in CallType /\ CallInv(w) /\ call \in [CallIds -> CallType]
        /\ \A x : Step(n, x) => call'[n] = x
    BY DEF Inv, RefreshInv, TypeInv, TypeOK, Step
  <1>1. ASSUME NEW err \in Results \ {"none"}, Step(n, Failed(w, err)), Running(n),
               UNCHANGED <<file, caller>>
        PROVE  HeldInv'
    <2>1. Failed(w, err).pc = "finish" /\ Failed(w, err).err = err
      BY <1>0, FailedType
    <2>2. Kept(n)' = {}
      BY <1>0, <1>1, <2>1 DEF Kept
    <2> QED
      BY <1>1, <2>1, <2>2, HeldRun
  <1>2. CASE RunLoad(n)
    <2>1. CASE Step(n, [w EXCEPT !.pc = "clear", !.source = file])
      <3>1. LET x == [w EXCEPT !.pc = "clear", !.source = file] IN x.pc = "clear" /\ x.source = file
        BY <1>0 DEF CallType
      <3>2. Kept(n)' = {file}
        BY <1>0, <2>1, <3>1 DEF Kept
      <3> QED
        BY <1>2, <2>1, <3>1, <3>2, HeldRun DEF RunLoad, Running
    <2> QED
      BY <1>1, <1>2, <2>1 DEF RunLoad, Running, Results
  <1>3. ASSUME NEW pc \in {"decide", "post"}, Step(n, [w EXCEPT !.pc = pc]),
               w.pc \in {"clear", "decide"}, UNCHANGED <<file, caller>>
        PROVE  HeldInv'
    <2>1. LET x == [w EXCEPT !.pc = pc] IN x.pc = pc /\ x.source = w.source
      BY <1>0 DEF CallType
    <2>2. Kept(n)' = {w.source} /\ Kept(n) = {w.source}
      BY <1>0, <1>3, <2>1 DEF Kept
    <2> QED
      BY <1>3, <2>1, <2>2, HeldRun DEF Running
  <1>4. ASSUME NEW c \in Kept(n) \cup {file}, Step(n, [w EXCEPT !.pc = "finish", !.credential = c]),
               w.pc \in {"decide", "save"}, UNCHANGED <<file, caller>>
        PROVE  HeldInv'
    <2> DEFINE x == [w EXCEPT !.pc = "finish", !.credential = c]
    <2>1. x.pc = "finish" /\ x.credential = c /\ x.err = "none"
      BY <1>0, <1>4 DEF CallType, CallInv
    <2>2. Kept(n)' = {c}
      BY <1>0, <1>4, <2>1 DEF Kept
    <2> QED
      BY <1>4, <2>1, <2>2, HeldRun DEF Running
  <1>5. CASE RunClear(n)
    BY <1>3, <1>5 DEF RunClear
  <1>6. CASE RunDecide(n)
    <2>1. w.source \in Kept(n)
      BY <1>6 DEF RunDecide, Kept
    <2> QED
      BY <1>1, <1>3, <1>4, <1>6, <2>1 DEF RunDecide, Running, Results
  <1>7. CASE RunPost(n)
    <2>1. CASE Step(n, [w EXCEPT !.pc = "save", !.fresh = issued + 1])
      <3>1. LET x == [w EXCEPT !.pc = "save", !.fresh = issued + 1] IN
            x.pc = "save" /\ x.source = w.source
        BY <1>0 DEF CallType
      <3>2. Kept(n)' = {w.source} /\ Kept(n) = {w.source}
        BY <1>0, <1>7, <2>1, <3>1 DEF Kept, RunPost
      <3> QED
        BY <1>7, <2>1, <3>1, <3>2, HeldRun DEF RunPost, Running
    <2>2. CASE \E err \in {"temporary", "canceled", "login"} : Step(n, Failed(w, err))
      BY <1>1, <1>7, <2>2 DEF RunPost, Running, Results
    <2> QED
      BY <1>7, <2>1, <2>2 DEF RunPost
  <1>8. CASE RunSave(n)
    <2>1. CASE /\ Store(w.fresh)
               /\ \/ Step(n, [w EXCEPT !.pc = "finish", !.credential = w.fresh])
                  \/ Step(n, Failed(w, "temporary"))
      <3>1. PICK x : Step(n, x) /\ (\/ x = [w EXCEPT !.pc = "finish", !.credential = w.fresh]
                                    \/ x = Failed(w, "temporary"))
        BY <2>1
      <3>2. x.pc = "finish" /\ (x.err = "none" => x.credential = w.fresh)
        BY <1>0, <3>1 DEF CallType, Failed
      <3>3. Kept(n)' \subseteq {w.fresh}
        BY <1>0, <3>1, <3>2 DEF Kept
      <3> QED
        BY <1>8, <2>1, <3>1, <3>2, <3>3, HeldStore DEF RunSave, Running
    <2>2. CASE UNCHANGED <<file, caller>> /\ Step(n, [w EXCEPT !.pc = "finish", !.credential = file])
      BY <1>4, <1>8, <2>2 DEF RunSave
    <2>3. CASE UNCHANGED <<file, caller>> /\ \E err \in {"temporary", "canceled"} : Step(n, Failed(w, err))
      BY <1>1, <1>8, <2>3 DEF RunSave, Running, Results
    <2> QED
      BY <1>8, <2>1, <2>2, <2>3 DEF RunSave
  <1>9. CASE RunFinish(n)
    <2> DEFINE x == [NoCall EXCEPT !.pc = "done", !.credential = w.credential, !.err = w.err]
    <2>1. Step(n, x) /\ w.pc = "finish" /\ UNCHANGED <<file, caller>>
      BY <1>9 DEF RunFinish
    <2>2. x.pc = "done" /\ x.err = w.err /\ x.credential = w.credential
      BY DEF NoCall
    <2>3. Kept(n)' = {}
      BY <1>0, <2>1, <2>2 DEF Kept
    <2> QED
      BY <2>1, <2>2, <2>3, HeldRun DEF Running
  <1> QED
    BY <1>2, <1>5, <1>6, <1>7, <1>8, <1>9 DEF Refresh

LEMMA HeldStep == ASSUME Inv, HeldInv, Next PROVE HeldInv'
  <1>1. ASSUME NEW p \in Callers, Proceed(p) \/ Cancel(p) PROVE HeldInv'
    <2>1. CASE SingleFlight(p)
      BY <2>1, HeldJoin, HeldStart DEF SingleFlight
    <2> QED
      BY <1>1, <2>1, HeldObserve, HeldLoad, HeldCheck, HeldClear, HeldWait, HeldSend DEF Proceed
  <1>2. CASE SaveCredential
    <2>1. Store(issued + 1) /\ call' = call
      BY <1>2 DEF SaveCredential
    <2>2. CASE CallIds = {}
      <3>1. \A q \in Callers : caller[q].pc = "join" => FALSE
        BY <2>2 DEF Inv, TypeInv, Waiting
      <3>2. \A q \in Callers : LET c == caller[q] d == caller'[q] IN
               /\ d.pc = c.pc /\ d.credential = c.credential /\ d.flight = c.flight
               /\ d.rejected = c.rejected
               /\ Active(q) => d.held = c.held \cup {issued + 1}
        BY <2>1 DEF Store, CallerType, Inv, TypeInv, TypeOK
      <3> QED
        BY <2>1, <2>2, <3>1, <3>2 DEF HeldInv, HeldBy, Active, Store
    <2>3. CASE CallIds # {}
      BY <2>1, <2>3, HeldStore
    <2> QED
      BY <2>2, <2>3
  <1>3. CASE Expire \/ Reject
    BY <1>3 DEF Expire, Reject, HeldInv, HeldBy, Active, Kept, LooksAgain
  <1> QED
    BY <1>1, <1>2, <1>3, HeldRefresh DEF Next

LEMMA HeldInvHolds == Spec => []HeldInv
  <1>1. Init => HeldInv
    BY DEF Init, NoCaller, HeldInv, Active
  <1>2. Inv /\ HeldInv /\ [Next]_vars => HeldInv'
    <2>1. ASSUME HeldInv, UNCHANGED vars PROVE HeldInv'
      BY <2>1 DEF vars, HeldInv, HeldBy, Active, Kept, LooksAgain
    <2> QED
      BY <2>1, HeldStep
  <1> QED
    BY <1>1, <1>2, InvHolds, PTL DEF Spec

(* A caller sends only a credential that was in the file at some moment of *)
(* its call, although it reads the file outside the mutex and may take the *)
(* result of a refresh that others started.                                *)
THEOREM SentCredentialsWereStored == Spec => []SentWasStored
  <1>1. HeldInv => SentWasStored
    BY DEF HeldInv, HeldBy, SentWasStored, Active
  <1> QED
    BY <1>1, HeldInvHolds, PTL

-----------------------------------------------------------------------------
(* What Snapshot tells.  As long as the generation is the one that was     *)
(* observed, so are the failures: whatever changes them moves it.          *)
LookInv == \A p \in Callers : caller[p].pc \in {"load", "check"} =>
    /\ caller[p].generation <= generation
    /\ caller[p].generation = generation => caller[p].permanent = permanentToken

(* Who looks later is not disturbed by the step of another caller.         *)
LEMMA LooksOn ==
    ASSUME TypeInv, LookInv, NEW p \in Callers, NEW d, Become(p, d), UNCHANGED shared,
           d.pc \in {"load", "check"} => /\ d.generation <= generation
                                         /\ d.generation = generation => d.permanent = permanentToken
    PROVE  LookInv'
  <1>1. \A q \in Callers : caller'[q] = IF q = p THEN d ELSE caller[q]
    BY DEF TypeInv, TypeOK, Become
  <1>2. generation' = generation /\ permanentToken' = permanentToken
    BY DEF shared
  <1>3. ASSUME NEW q \in Callers, caller'[q].pc \in {"load", "check"}
        PROVE  /\ caller'[q].generation <= generation
               /\ caller'[q].generation = generation => caller'[q].permanent = permanentToken
    <2>1. CASE q = p
      <3>1. caller'[q] = d
        BY <1>1, <2>1
      <3> QED
        BY <1>3, <3>1
    <2>2. CASE q # p
      BY <1>1, <1>3, <2>2 DEF LookInv
    <2> QED
      BY <2>1, <2>2
  <1> QED
    BY <1>2, <1>3 DEF LookInv

(* The shared state moves on: what was seen of it before is not current.   *)
Onward == \/ UNCHANGED <<generation, permanentToken>>
          \/ generation' = generation + 1
LEMMA LooksStay ==
    ASSUME TypeInv, LookInv, Onward,
           \A q \in Callers : \/ caller'[q].pc \notin {"load", "check"}
                              \/ /\ caller'[q].pc = caller[q].pc
                                 /\ caller'[q].generation = caller[q].generation
                                 /\ caller'[q].permanent = caller[q].permanent
    PROVE  LookInv'
  BY DEF TypeInv, TypeOK, LookInv, CallerType, Onward

LEMMA ForgettingMovesOn ==
    ASSUME TypeInv, NEW c, ClearChangedFailures(c) PROVE Onward
  BY DEF ClearChangedFailures, Onward

(* Caller p goes on to something else than a look. *)
Turned(p) == /\ \A q \in Callers \ {p} : caller'[q] = caller[q]
             /\ caller'[p].pc \notin {"load", "check"}
LEMMA TurnsTo ==
    ASSUME TypeInv, NEW p \in Callers, NEW d, Become(p, d), d.pc \notin {"load", "check"}
    PROVE  Turned(p)
  BY DEF Turned, TypeInv, TypeOK, Become
LEMMA TurnsToStep ==
    ASSUME TypeInv, NEW p \in Callers, NEW pc \in {"observe", "clear", "await", "join", "start", "send", "reload", "confirm"}
    PROVE  /\ Become(p, [caller[p] EXCEPT !.pc = pc]) => Turned(p)
           /\ \A x : Become(p, [caller[p] EXCEPT !.pc = pc, !.flight = x]) => Turned(p)
           /\ \A x : Become(p, [caller[p] EXCEPT !.pc = pc, !.credential = x]) => Turned(p)
           /\ \A x : Become(p, [caller[p] EXCEPT !.pc = pc, !.rejected = x]) => Turned(p)
  BY TurnsTo DEF CallerType, TypeInv, TypeOK
LEMMA TurnsToEnd ==
    ASSUME TypeInv, NEW p \in Callers, NEW r, Become(p, Ended(caller[p], r)) PROVE Turned(p)
  BY TurnsTo DEF Ended, NoCaller

LEMMA CheckTurns == ASSUME TypeInv, NEW p \in Callers, Check(p) PROVE Turned(p)
  <1>1. CASE Moved(p)
    BY <1>1, TurnsToStep DEF Check
  <1>2. CASE Decide(p)
    BY <1>2, TurnsToStep, TurnsToEnd DEF Decide
  <1> QED
    BY <1>1, <1>2 DEF Check
LEMMA WaitTurns == ASSUME TypeInv, NEW p \in Callers, Wait(p) PROVE Turned(p)
  BY TurnsToStep, TurnsToEnd DEF Wait
LEMMA OthersTurn ==
    ASSUME TypeInv, NEW p \in Callers, Clear(p) \/ Send(p) \/ Reload(p) \/ Confirm(p) \/ Cancel(p)
    PROVE  Turned(p)
  <1>1. CASE Clear(p) \/ Cancel(p)
    BY <1>1, TurnsToStep, TurnsToEnd DEF Clear, Cancel
  <1>2. CASE Send(p) \/ Reload(p) \/ Confirm(p)
    BY <1>2, TurnsToStep, TurnsToEnd DEF Send, Reload, Confirm
  <1> QED
    BY <1>1, <1>2
LEMMA SingleFlightTurns == ASSUME TypeInv, NEW p \in Callers, SingleFlight(p) PROVE Turned(p)
  <1>1. CASE Join(p)
    BY <1>1, TurnsToStep DEF Join
  <1>2. CASE StartCall(p)
    BY <1>2, TurnsToStep DEF StartCall
  <1> QED
    BY <1>1, <1>2 DEF SingleFlight

LEMMA LookStep == ASSUME Inv, LookInv, Next PROVE LookInv'
  <1>0. TypeInv /\ \A p \in Callers : caller[p] \in CallerType
    BY DEF Inv, TypeInv, TypeOK
  <1>1. ASSUME NEW p \in Callers, Observe(p) PROVE LookInv'
    <2> DEFINE c == caller[p]
               d == [c EXCEPT !.pc = "load", !.generation = generation, !.flight = inFlight,
                           !.permanent = permanentToken, !.transient = transientToken,
                           !.held = IF c.pc = "idle" THEN {file} ELSE @]
    <2>1. Become(p, d) /\ UNCHANGED shared
      BY <1>1 DEF Observe
    <2>2. d.generation = generation /\ d.permanent = permanentToken
      BY <1>0 DEF CallerType
    <2> HIDE DEF d
    <2> QED
      BY <1>0, <2>1, <2>2, LooksOn DEF TypeInv, TypeOK
  <1>2. ASSUME NEW p \in Callers, Load(p) PROVE LookInv'
    <2> DEFINE c == caller[p]
    <2>1. PICK f \in {file, None} : Become(p, [c EXCEPT !.pc = "check", !.credential = f])
      BY <1>2 DEF Load
    <2> DEFINE d == [c EXCEPT !.pc = "check", !.credential = f]
    <2>2. d.generation = c.generation /\ d.permanent = c.permanent /\ c.pc = "load"
      BY <1>0, <1>2 DEF CallerType, Load
    <2>3. UNCHANGED shared
      BY <1>2 DEF Load
    <2>4. Become(p, d)
      BY <2>1
    <2> HIDE DEF d
    <2> QED
      BY <1>0, <2>2, <2>3, <2>4, LooksOn DEF LookInv
  <1>3. ASSUME NEW p \in Callers, Check(p) \/ Wait(p) \/ Send(p) \/ Reload(p) \/ Confirm(p) \/ Cancel(p)
        PROVE  LookInv'
    <2>1. UNCHANGED shared
      BY <1>3 DEF Check, Wait, Send, Reload, Confirm, Cancel
    <2>2. Turned(p)
      BY <1>0, <1>3, CheckTurns, WaitTurns, OthersTurn
    <2> QED
      BY <1>0, <2>1, <2>2, LooksStay DEF Turned, Onward, shared
  <1>4. ASSUME NEW p \in Callers, Clear(p) \/ SingleFlight(p) PROVE LookInv'
    <2>1. Onward
      <3>1. CASE Clear(p)
        BY <1>0, <3>1, ForgettingMovesOn DEF Clear
      <3>2. CASE SingleFlight(p)
        BY <3>2 DEF SingleFlight, Join, StartCall, Onward, shared
      <3> QED
        BY <1>4, <3>1, <3>2
    <2>2. Turned(p)
      BY <1>0, <1>4, OthersTurn, SingleFlightTurns
    <2> QED
      BY <1>0, <2>1, <2>2, LooksStay DEF Turned
  <1>5. ASSUME NEW n \in CallIds, Refresh(n) PROVE LookInv'
    <2>1. Onward
      BY <1>0, <1>5, ForgettingMovesOn
         DEF Refresh, RunLoad, RunClear, RunDecide, RunPost, RunSave, RunFinish, Onward, shared
    <2>2. caller' = caller \/ \E c : Store(c)
      BY <1>5 DEF Refresh, RunLoad, RunClear, RunDecide, RunPost, RunSave, RunFinish
    <2>3. \A q \in Callers : /\ caller'[q].pc = caller[q].pc
                             /\ caller'[q].generation = caller[q].generation
                             /\ caller'[q].permanent = caller[q].permanent
      BY <1>0, <2>2 DEF Store, CallerType
    <2> QED
      BY <1>0, <2>1, <2>3, LooksStay
  <1>6. CASE SaveCredential \/ Expire \/ Reject
    <2>1. Onward
      BY <1>6 DEF SaveCredential, Expire, Reject, Onward, shared
    <2>2. caller' = caller \/ \E c : Store(c)
      BY <1>6 DEF SaveCredential, Expire, Reject
    <2>3. \A q \in Callers : /\ caller'[q].pc = caller[q].pc
                             /\ caller'[q].generation = caller[q].generation
                             /\ caller'[q].permanent = caller[q].permanent
      BY <1>0, <2>2 DEF Store, CallerType
    <2> QED
      BY <1>0, <2>1, <2>3, LooksStay
  <1> QED
    BY <1>1, <1>2, <1>3, <1>4, <1>5, <1>6 DEF Next, Proceed

LEMMA LookInvHolds == Spec => []LookInv
  <1>1. Init => LookInv
    BY DEF Init, NoCaller, LookInv
  <1>2. Inv /\ LookInv /\ [Next]_vars => LookInv'
    <2>1. ASSUME LookInv, UNCHANGED vars PROVE LookInv'
      BY <2>1 DEF vars, shared, LookInv
    <2> QED
      BY <2>1, LookStep
  <1> QED
    BY <1>1, <1>2, InvHolds, PTL DEF Spec

(* A look ends only in its own check, and what it answers then. *)
LEMMA OnlyCheckEndsIt ==
    ASSUME TypeInv, Next, NEW p \in Callers, caller[p].pc = "check", caller'[p].pc = "done"
    PROVE  Check(p)
  <1>0. \A q \in Callers : caller[q] \in CallerType
    BY DEF TypeInv, TypeOK
  <1>1. ASSUME NEW q \in Callers, q # p, Proceed(q) \/ Cancel(q) PROVE caller'[p] = caller[p]
    <2>1. \A d : Become(q, d) => caller'[p] = caller[p]
      BY <1>1 DEF Become, TypeInv, TypeOK
    <2>2. CASE Check(q)
      BY <2>1, <2>2 DEF Check, Decide
    <2>3. CASE Observe(q) \/ Load(q) \/ Clear(q) \/ Cancel(q)
      BY <2>1, <2>3 DEF Observe, Load, Clear, Cancel
    <2>4. CASE SingleFlight(q)
      BY <2>1, <2>4 DEF SingleFlight, Join, StartCall
    <2>5. CASE Wait(q) \/ Send(q) \/ Reload(q) \/ Confirm(q)
      BY <2>1, <2>5 DEF Wait, Send, Reload, Confirm
    <2> QED
      BY <1>1, <2>2, <2>3, <2>4, <2>5 DEF Proceed
  <1>2. ASSUME Proceed(p) \/ Cancel(p) PROVE Check(p)
    BY <1>2 DEF Proceed, Cancel, Observe, Load, Clear, SingleFlight, Wait, Send, Reload, Confirm
  <1>3. ASSUME NEW n \in CallIds, Refresh(n) PROVE caller'[p].pc = caller[p].pc
    <2>1. caller' = caller \/ \E c : Store(c)
      BY <1>3 DEF Refresh, RunLoad, RunClear, RunDecide, RunPost, RunSave, RunFinish
    <2> QED
      BY <1>0, <2>1 DEF Store, CallerType
  <1>4. CASE SaveCredential \/ Expire \/ Reject
    <2>1. caller' = caller \/ \E c : Store(c)
      BY <1>4 DEF SaveCredential, Expire, Reject
    <2>2. caller'[p].pc = caller[p].pc
      BY <1>0, <2>1 DEF Store, CallerType
    <2> QED
      BY <2>2
  <1> QED
    BY <1>1, <1>2, <1>3, <1>4 DEF Next

LEMMA LooksResult ==
    ASSUME TypeInv, NEW p \in Callers, caller[p].credential # None, Decide(p), caller'[p].pc = "done"
    PROVE  caller'[p].result = "login" <=> (caller[p].permanent # None /\ caller[p].permanent = caller[p].credential)
  <1> DEFINE c == caller[p]
             refused == c.permanent # None /\ c.permanent = c.credential
  <1>1. \A r : Become(p, Ended(c, r)) => caller'[p].result = r
    BY DEF TypeInv, TypeOK, Become, Ended, NoCaller
  <1>2. \A pc \in {"clear", "await", "start", "send"} : Become(p, [c EXCEPT !.pc = pc]) => caller'[p].pc = pc
    BY DEF TypeInv, TypeOK, Become, CallerType
  <1>3. CASE Become(p, [c EXCEPT !.pc = "clear"])
    BY <1>2, <1>3
  <1>4. CASE p \in Probes /\ Become(p, Ended(c, IF refused THEN "login" ELSE "ok"))
    BY <1>1, <1>4
  <1>5. CASE refused /\ Become(p, Ended(c, "login"))
    BY <1>1, <1>5
  <1>6. CASE Become(p, [c EXCEPT !.pc = "await"])
    BY <1>2, <1>6
  <1>7. CASE Become(p, [c EXCEPT !.pc = IF NeedsRefresh(c.credential) THEN "start" ELSE "send"])
    BY <1>2, <1>7
  <1> QED
    BY <1>3, <1>4, <1>5, <1>6, <1>7 DEF Decide

(* Snapshot says that a login is needed exactly of a credential that was   *)
(* stored during its look and that the upstream refused, whatever refreshes *)
(* and logins meet it between its two looks at the shared state.           *)
THEOREM SnapshotsTellTheTruth == Spec => SnapshotsAreTrue
  <1>1. ASSUME Inv, HeldInv, LookInv, [Next]_vars, RefresherAssumption, NEW p \in Probes
        PROVE  TellsTheTruth(p)
    <2> DEFINE c == caller[p]
    <2>0. p \in Callers /\ c \in CallerType
      BY <1>1 DEF RefresherAssumption, Inv, TypeInv, TypeOK
    <2> SUFFICES ASSUME c.pc = "check", caller'[p].pc = "done", c.credential # None
                 PROVE  /\ c.credential \in c.held
                        /\ caller'[p].result = "login" <=> permanentToken = c.credential
                        /\ permanentToken = c.credential => c.credential \in denied
      BY DEF TellsTheTruth
    <2> Next
      BY <1>1 DEF vars
    <2>1. c.credential \in c.held
      BY <1>1, <2>0 DEF HeldInv, HeldBy, Active
    <2>2. permanentToken = c.credential => c.credential \in denied
      BY <1>1 DEF Inv, LoginIsAskedForAReason
    <2>3. Check(p)
      BY <1>1, <2>0, OnlyCheckEndsIt DEF Inv
    <2>4. ~Moved(p) /\ Decide(p)
      <3>1. caller'[p].pc # "done" \/ ~Moved(p)
        BY <1>1, <2>0, <2>3 DEF Check, Become, CallerType, Inv, TypeInv, TypeOK
      <3> QED
        BY <2>3, <3>1 DEF Check
    <2>5. c.permanent = permanentToken
      BY <1>1, <2>0, <2>4 DEF LookInv, Moved
    <2>6. caller'[p].result = "login" <=> c.permanent # None /\ c.permanent = c.credential
      BY <1>1, <2>0, <2>4, LooksResult DEF Inv
    <2> QED
      BY <2>1, <2>2, <2>5, <2>6
  <1>2. Inv /\ HeldInv /\ LookInv /\ [Next]_vars => [\A p \in Probes : TellsTheTruth(p)]_vars
    BY <1>1, RefresherAssumption
  <1> QED
    BY <1>2, InvHolds, HeldInvHolds, LookInvHolds, PTL DEF Spec, SnapshotsAreTrue
=============================================================================
