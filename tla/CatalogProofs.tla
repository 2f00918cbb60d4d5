---------------------------- MODULE CatalogProofs -----------------------------
(***************************************************************************)
(* Theorems about Catalog, for any finite set of accounts, any offers of   *)
(* the providers, and any number of changes, expiries and restarts.        *)
(***************************************************************************)
EXTENDS Catalog, FiniteSetTheorems, SequenceTheorems, TLAPS

-----------------------------------------------------------------------------
(* The inductive invariant *)

Steps == {"idle", "ask", "touch", "renew", "save", "keep", "tell"}
Known == Catalogs \cup {Nothing}
TypeInv ==
    /\ provider \in [Accounts -> Catalogs]
    /\ rows \in [Accounts -> Known] /\ states \in [Accounts -> Known]
    /\ broker \in [Accounts -> Known] /\ answered \in [Accounts -> Known]
    /\ work \in [Accounts -> [pc : Steps, catalog : Known]]

(* Nothing is refreshed before the manager starts.                         *)
DownInv == manager = "down" => Working = {}

(* The saved catalog is that of the last answer.  What a refresh has done  *)
(* with its own is in the order of its steps: until the row is saved the   *)
(* catalog of the manager is the saved one, until the manager has it the   *)
(* row is that of the refresh, and until the broker is told both are.  A   *)
(* catalog is confirmed only when it is the one that is saved.             *)
StepInv(a) ==
    LET w == work[a] IN
    /\ rows[a] = answered[a]
    /\ w.pc \in {"idle", "ask", "touch", "renew", "save"} /\ states[a] # Nothing =>
         states[a] = broker[a] /\ states[a] = rows[a]
    /\ w.pc \in {"touch", "renew"} => w.catalog = states[a] /\ states[a] # Nothing
    /\ w.pc \in {"keep", "tell"} => w.catalog = rows[a]
    /\ w.pc = "tell" => w.catalog = states[a]
    /\ w.pc # "idle" /\ w.pc # "ask" => w.catalog \in Catalogs
Inv == TypeInv /\ DownInv /\ \A a \in Accounts : StepInv(a)

-----------------------------------------------------------------------------
(* The steps *)

(* No catalog is saved at first.                                           *)
LEMMA InvInit == ASSUME CatalogAssumption, Init PROVE Inv
BY DEF CatalogAssumption, Init, Inv, TypeInv, Known, Steps, NoWork, DownInv, Working, StepInv

(* A step of one account's refresh leaves the others alone.                *)
LEMMA OneAccount ==
    ASSUME Inv, NEW a \in Accounts, NEW w \in [pc : Steps, catalog : Known], Set(a, w),
           work[a].pc # "idle", manager' = manager, provider' = provider,
           rows' \in [Accounts -> Known], states' \in [Accounts -> Known],
           broker' \in [Accounts -> Known], answered' \in [Accounts -> Known],
           \A b \in Accounts \ {a} : /\ rows'[b] = rows[b] /\ states'[b] = states[b]
                                     /\ broker'[b] = broker[b] /\ answered'[b] = answered[b],
           StepInv(a)'
    PROVE  Inv'
<1>1. work' \in [Accounts -> [pc : Steps, catalog : Known]] /\ \A b \in Accounts \ {a} : work'[b] = work[b]
  BY DEF Inv, TypeInv, Set
<1>2. TypeInv'
  BY <1>1 DEF Inv, TypeInv
<1>3. manager # "down"
  BY DEF Inv, DownInv, Working
<1>4. DownInv'
  BY <1>3 DEF DownInv
<1>5. ASSUME NEW b \in Accounts PROVE StepInv(b)'
  <2>1. CASE b = a
    BY <2>1
  <2>2. CASE b # a
    BY <1>1, <2>2 DEF Inv, StepInv
  <2>. QED  BY <2>1, <2>2
<1>. QED  BY <1>2, <1>4, <1>5 DEF Inv

(* What the provider answers is a catalog, and it is confirmed only when   *)
(* it is the one from before.                                              *)
LEMMA RefreshKeeps ==
    ASSUME CatalogAssumption, Inv, NEW a \in Accounts, Refresh(a)
    PROVE  Inv'
<1>0. /\ TypeInv /\ StepInv(a) /\ Nothing \notin Catalogs /\ provider[a] \in Catalogs
      /\ work[a] \in [pc : Steps, catalog : Known] /\ NoWork \in [pc : Steps, catalog : Known]
      /\ NoWork.pc = "idle"
  BY DEF Inv, TypeInv, CatalogAssumption, NoWork, Steps, Known
<1>1. CASE Ask(a)
  <2>1. PICK w \in {At("touch", provider[a]), At("save", provider[a]), NoWork} :
          Set(a, w) /\ (w.pc = "touch" => states[a] = provider[a])
    BY <1>0, <1>1 DEF Ask, At
  <2>2. w \in [pc : Steps, catalog : Known] /\ work'[a] = w
    BY <1>0, <2>1 DEF At, Steps, Known, Set, TypeInv
  <2>3. work[a].pc = "ask" /\ UNCHANGED <<rows, states, broker, answered, manager, provider>>
    BY <1>1 DEF Ask, Keep, Stays
  <2>4. StepInv(a)'
    BY <1>0, <2>1, <2>2, <2>3 DEF StepInv, At
  <2>. QED  BY <1>0, <2>1, <2>2, <2>3, <2>4, OneAccount DEF TypeInv
<1>2. CASE Touch(a)
  <2>0. work[a].pc = "touch" /\ UNCHANGED <<rows, states, broker, manager, provider>>
    BY <1>2 DEF Touch, Keep, Stays, Fails
  <2>1. CASE /\ answered' = [answered EXCEPT ![a] = work[a].catalog]
             /\ Set(a, At("renew", work[a].catalog))
    <3> DEFINE w == At("renew", work[a].catalog)
    <3>1. w \in [pc : Steps, catalog : Known] /\ work'[a] = w /\ w.pc = "renew" /\ w.catalog = work[a].catalog
      BY <1>0, <2>1 DEF At, Steps, Set, TypeInv
    <3>2. answered' \in [Accounts -> Known] /\ answered'[a] = work[a].catalog
          /\ \A b \in Accounts \ {a} : answered'[b] = answered[b]
      BY <1>0, <2>1 DEF TypeInv
    <3>3. StepInv(a)'
      BY <1>0, <2>0, <3>1, <3>2 DEF StepInv
    <3> HIDE DEF w
    <3>4. Set(a, w)
      BY <2>1 DEF w
    <3>. QED  BY <1>0, <2>0, <3>1, <3>2, <3>3, <3>4, OneAccount DEF TypeInv
  <2>2. CASE Fails(a)
    <3>1. Set(a, NoWork) /\ work'[a] = NoWork /\ answered' = answered
      BY <1>0, <2>2 DEF Fails, Set, TypeInv
    <3>2. StepInv(a)'
      BY <1>0, <2>0, <3>1 DEF StepInv
    <3>. QED  BY <1>0, <2>0, <3>1, <3>2, OneAccount DEF TypeInv
  <2>. QED  BY <1>2, <2>1, <2>2 DEF Touch
<1>3. CASE Renew(a)
  <2>1. /\ Set(a, NoWork) /\ work'[a] = NoWork /\ work[a].pc = "renew"
        /\ UNCHANGED <<rows, states, broker, answered, manager, provider>>
    BY <1>0, <1>3 DEF Renew, Set, Stays, TypeInv
  <2>2. StepInv(a)'
    BY <1>0, <2>1 DEF StepInv
  <2>. QED  BY <1>0, <2>1, <2>2, OneAccount DEF TypeInv
<1>4. CASE Save(a)
  <2>0. work[a].pc = "save" /\ UNCHANGED <<states, broker, manager, provider>>
    BY <1>4 DEF Save, Keep, Stays, Fails
  <2>1. CASE /\ rows' = [rows EXCEPT ![a] = work[a].catalog]
             /\ answered' = [answered EXCEPT ![a] = work[a].catalog]
             /\ Set(a, At("keep", work[a].catalog))
    <3> DEFINE w == At("keep", work[a].catalog)
    <3>1. w \in [pc : Steps, catalog : Known] /\ work'[a] = w /\ w.pc = "keep" /\ w.catalog = work[a].catalog
      BY <1>0, <2>1 DEF At, Steps, Set, TypeInv
    <3>2. /\ answered' \in [Accounts -> Known] /\ answered'[a] = work[a].catalog
          /\ rows' \in [Accounts -> Known] /\ rows'[a] = work[a].catalog
          /\ \A b \in Accounts \ {a} : answered'[b] = answered[b] /\ rows'[b] = rows[b]
      BY <1>0, <2>1 DEF TypeInv
    <3>3. StepInv(a)'
      BY <1>0, <2>0, <3>1, <3>2 DEF StepInv
    <3> HIDE DEF w
    <3>4. Set(a, w)
      BY <2>1 DEF w
    <3>. QED  BY <1>0, <2>0, <3>1, <3>2, <3>3, <3>4, OneAccount DEF TypeInv
  <2>2. CASE Fails(a)
    <3>1. Set(a, NoWork) /\ work'[a] = NoWork /\ answered' = answered /\ rows' = rows
      BY <1>0, <2>2 DEF Fails, Set, TypeInv
    <3>2. StepInv(a)'
      BY <1>0, <2>0, <3>1 DEF StepInv
    <3>. QED  BY <1>0, <2>0, <3>1, <3>2, OneAccount DEF TypeInv
  <2>. QED  BY <1>4, <2>1, <2>2 DEF Save
<1>5. CASE KeepState(a)
  <2> DEFINE w == At("tell", work[a].catalog)
  <2>1. /\ work[a].pc = "keep" /\ Set(a, w)
        /\ UNCHANGED <<rows, broker, answered, manager, provider>>
    BY <1>5 DEF KeepState, Stays
  <2>2. w \in [pc : Steps, catalog : Known] /\ work'[a] = w /\ w.pc = "tell" /\ w.catalog = work[a].catalog
    BY <1>0, <2>1 DEF At, Steps, Set, TypeInv
  <2>3. /\ states' \in [Accounts -> Known] /\ states'[a] = work[a].catalog
        /\ \A b \in Accounts \ {a} : states'[b] = states[b]
    BY <1>0, <1>5 DEF KeepState, TypeInv
  <2>4. StepInv(a)'
    BY <1>0, <2>1, <2>2, <2>3 DEF StepInv
  <2> HIDE DEF w
  <2>. QED  BY <1>0, <2>1, <2>2, <2>3, <2>4, OneAccount DEF TypeInv
<1>6. CASE TellBroker(a)
  <2>1. /\ work[a].pc = "tell" /\ Set(a, NoWork) /\ work'[a] = NoWork
        /\ UNCHANGED <<rows, states, answered, manager, provider>>
    BY <1>0, <1>6 DEF TellBroker, Keep, Set, Stays, TypeInv
  <2>2. /\ broker' \in [Accounts -> Known] /\ broker'[a] = work[a].catalog
        /\ \A b \in Accounts \ {a} : broker'[b] = broker[b]
    BY <1>0, <1>6 DEF TellBroker, TypeInv
  <2>3. StepInv(a)'
    BY <1>0, <2>1, <2>2 DEF StepInv
  <2>. QED  BY <1>0, <2>1, <2>2, <2>3, OneAccount DEF TypeInv
<1>. QED  BY <1>1, <1>2, <1>3, <1>4, <1>5, <1>6 DEF Refresh

(* The manager's own steps: a start loads what was saved, a round begins   *)
(* when none is under way, and a restart forgets all but the saved.        *)
LEMMA ManagerKeeps ==
    ASSUME CatalogAssumption, Inv, Start \/ Serve \/ Tick \/ Close \/ CloseDone \/ Restart
    PROVE  Inv'
<1>. USE DEF Inv, TypeInv, DownInv, Working, Stays
<1>0. /\ NoWork \in [pc : Steps, catalog : Known] /\ NoWork.pc = "idle"
      /\ At("ask", Nothing) \in [pc : Steps, catalog : Known] /\ At("ask", Nothing).pc = "ask"
  BY DEF NoWork, At, Steps, Known
<1>1. CASE Start
  <2>1. PICK S \in SUBSET Accounts :
          states' = [a \in Accounts |-> IF a \in S THEN Nothing ELSE rows[a]]
    BY <1>1 DEF Start
  <2>2. states' \in [Accounts -> Known] /\ \A a \in Accounts : states'[a] \in {Nothing, rows[a]}
    BY <2>1 DEF Known
  <2>3. /\ broker' = states' /\ work' = [a \in Accounts |-> At("ask", Nothing)]
        /\ manager' = "starting" /\ UNCHANGED <<provider, rows, answered>>
    BY <1>1 DEF Start
  <2>4. ASSUME NEW a \in Accounts PROVE StepInv(a)'
    BY <1>0, <2>2, <2>3 DEF StepInv
  <2>. QED  BY <1>0, <2>2, <2>3, <2>4
<1>2. CASE Serve \/ Close \/ CloseDone
  BY <1>2 DEF Serve, Close, CloseDone, StepInv
<1>3. CASE Tick
  <2>1. /\ work' \in [Accounts -> [pc : Steps, catalog : Known]]
        /\ \A a \in Accounts : work'[a].pc \in {"idle", "ask"} /\ work[a].pc = "idle"
    BY <1>0, <1>3 DEF Tick
  <2>2. manager' # "down" /\ UNCHANGED <<provider, rows, states, broker, answered>>
    BY <1>3 DEF Tick
  <2>. QED  BY <2>1, <2>2 DEF StepInv
<1>4. CASE Restart
  <2>1. /\ states' = [a \in Accounts |-> Nothing] /\ broker' = states'
        /\ work' = [a \in Accounts |-> NoWork] /\ UNCHANGED <<rows, answered, provider>>
    BY <1>4 DEF Restart
  <2>. QED  BY <1>0, <2>1 DEF StepInv, Known
<1>. QED  BY <1>1, <1>2, <1>3, <1>4

LEMMA InvNext == ASSUME CatalogAssumption, Inv, [Next]_vars PROVE Inv'
<1>1. CASE \E a \in Accounts : Refresh(a)
  BY <1>1, RefreshKeeps
<1>2. CASE Start \/ Serve \/ Tick \/ Close \/ CloseDone \/ Restart
  BY <1>2, ManagerKeeps
<1>3. CASE (\E a \in Accounts : ProviderChanges(a) \/ Expires(a)) \/ UNCHANGED vars
  BY <1>3 DEF ProviderChanges, Expires, ManagerStays, vars, Inv, TypeInv, DownInv, Working, StepInv
<1>. QED  BY <1>1, <1>2, <1>3 DEF Next

(* The catalogs agree in every behaviour, whatever fails and restarts.     *)
THEOREM InvHolds == ASSUME CatalogAssumption PROVE Spec => []Inv
BY InvInit, InvNext, PTL DEF Spec

(* refreshAccount: while no refresh of an account is under way, the        *)
(* catalog the clients see, the one the broker selects by and the saved    *)
(* one are the same, and that of the last answer.                          *)
LEMMA CatalogsDoAgree == ASSUME Inv PROVE CatalogsAgree
BY DEF Inv, StepInv, CatalogsAgree

-----------------------------------------------------------------------------
(* Merging *)

(* A finite set of integers that is not empty has a least one: the one     *)
(* that the fewest are below.                                              *)
LEMMA LeastOf ==
    ASSUME NEW S, S \subseteq Int, IsFiniteSet(S), S # {}
    PROVE  Min(S) \in S /\ \A y \in S : Min(S) <= y
<1> DEFINE Below(x) == {z \in S : z < x}
           Rank(x) == Cardinality(Below(x))
           Ranks == {Rank(x) : x \in S}
<1>1. ASSUME NEW x \in S PROVE IsFiniteSet(Below(x)) /\ Rank(x) \in Nat
  <2>1. IsFiniteSet(Below(x))
    BY FS_Subset
  <2>. QED  BY <2>1, FS_CardinalityType
<1>2. Ranks \subseteq Nat /\ Ranks # {}
  BY <1>1
<1>3. PICK r \in Ranks : \A q \in Ranks : ~(<<q, r>> \in OpToRel(<, Nat))
  <2> HIDE DEF Ranks
  <2>. QED  BY <1>2, WFMin, NatLessThanWellFounded
<1>4. PICK x \in S : r = Rank(x)
  OBVIOUS
<1>5. ASSUME NEW y \in S, y < x PROVE FALSE
  <2>1. Below(y) \subseteq Below(x) /\ y \in Below(x) /\ y \notin Below(y)
    <3>1. x \in Int /\ y \in Int /\ y < x
      BY <1>5
    <3>2. ASSUME NEW z \in S, z < y PROVE z < x
      <4>1. z \in Int
        OBVIOUS
      <4>. QED  BY <3>1, <3>2, <4>1
    <3>3. ~(y < y)
      BY <3>1
    <3>. QED  BY <3>1, <3>2, <3>3
  <2>2. Rank(y) <= Rank(x) /\ (Rank(x) = Rank(y) => Below(x) = Below(y))
    <3> HIDE DEF Below
    <3>. QED  BY <1>1, <2>1, FS_Subset
  <2>3. Rank(y) < Rank(x)
    <3> HIDE DEF Rank, Below
    <3>. QED  BY <1>1, <2>1, <2>2
  <2>4. Rank(y) \in Ranks /\ Rank(y) \in Nat /\ Rank(x) \in Nat
    BY <1>1
  <2>5. <<Rank(y), Rank(x)>> \in OpToRel(<, Nat)
    <3> HIDE DEF Rank
    <3>. QED  BY <2>3, <2>4 DEF OpToRel
  <2>. QED  BY <1>3, <1>4, <2>4, <2>5
<1>6. \A y \in S : x <= y
  BY <1>5
<1>. QED  BY <1>6 DEF Min

(* What a finite sequence has, as a set, is finite.                        *)
LEMMA ImageFinite ==
    ASSUME NEW n \in Nat, NEW R, NEW f \in [1..n -> R]
    PROVE  IsFiniteSet({f[i] : i \in 1..n})
<1> DEFINE T == {f[i] : i \in 1..n}
<1>1. f \in [1..n -> T] /\ DOMAIN f = 1..n
  OBVIOUS
<1>2. \A t \in T : \E i \in 1..n : f[i] = t
  OBVIOUS
<1> HIDE DEF T
<1>3. f \in Surjection(1..n, T)
  BY <1>1, <1>2 DEF Surjection
<1>4. IsFiniteSet(1..n)
  BY FS_Interval
<1>. QED  BY <1>3, <1>4, FS_Surjection DEF T

(* A least limit is that of no model above it, and unknown when one is.    *)
LEMMA LeastHolds ==
    ASSUME NEW S, S \subseteq Nat, IsFiniteSet(S), NEW x \in S
    PROVE  Least(S) = 0 \/ (x # 0 /\ Least(S) <= x)
<1>1. CASE 0 \in S
  BY <1>1 DEF Least
<1>2. CASE 0 \notin S
  <2>1. S \subseteq Int /\ S # {}
    OBVIOUS
  <2>2. Min(S) <= x
    BY <2>1, LeastOf
  <2>. QED  BY <1>2, <2>2 DEF Least
<1>. QED  BY <1>1, <1>2

(* A capability of the merged model holds of each model.                   *)
CapabilityHolds(c, v) ==
    c # Absent =>
      /\ v # Absent
      /\ c = [type |-> "flag", value |-> True] => v = c
      /\ c.type = "number" => Max(c.value) <= Max(v.value)
      /\ c.type = "list" => c.value \subseteq v.value

LEMMA MaxOfOne == ASSUME NEW x \in Int PROVE Max({x}) = x
BY DEF Max

(* Numbers merge into the least of them.                                   *)
LEMMA NumbersMerge ==
    ASSUME NEW n \in Nat, NEW values, values = [i \in 1..n |-> values[i]],
           \A i \in 1..n : values[i].type = "number" /\ IsCapability(values[i]),
           NEW j \in 1..n
    PROVE  CapabilityHolds([type |-> "number", value |-> {Min(UNION {v.value : v \in ToSet(values)})}],
                           values[j])
<1> DEFINE num == [i \in 1..n |-> CHOOSE x : values[i].value = {x}]
           U == UNION {v.value : v \in ToSet(values)}
           N == {num[i] : i \in 1..n}
<1>1. ASSUME NEW i \in 1..n
      PROVE  num[i] \in Int /\ values[i].value = {num[i]} /\ values[i] # Absent
  <2>1. PICK x \in Int : values[i] = [type |-> "number", value |-> {x}]
    BY DEF IsCapability, Absent
  <2>2. values[i].value = {x} /\ values[i].type = "number"
    BY <2>1
  <2>3. (CHOOSE y : values[i].value = {y}) = x
    BY <2>2
  <2>4. num[i] = x
    BY <2>3
  <2> HIDE DEF num
  <2>. QED  BY <2>2, <2>4 DEF Absent
<1>2. U = N
  <2>1. ToSet(values) = {values[i] : i \in 1..n}
    BY DEF ToSet
  <2>2. U = UNION {values[i].value : i \in 1..n}
    BY <2>1
  <2>3. UNION {values[i].value : i \in 1..n} = UNION {{num[i]} : i \in 1..n}
    <3> HIDE DEF num
    <3>. QED  BY <1>1
  <2> HIDE DEF num, U
  <2>. QED  BY <2>2, <2>3
<1>3. N \subseteq Int /\ num[j] \in N
  BY <1>1
<1>4. IsFiniteSet(N)
  <2>1. num \in [1..n -> Int]
    BY <1>1
  <2> HIDE DEF num
  <2>. QED  BY <2>1, ImageFinite
<1>5. Min(N) \in Int /\ Min(N) <= num[j]
  <2> HIDE DEF N
  <2>. QED  BY <1>3, <1>4, LeastOf
<1>6. Max({Min(N)}) = Min(N) /\ Max(values[j].value) = num[j]
  <2> HIDE DEF N
  <2>. QED  BY <1>1, <1>5, MaxOfOne
<1> HIDE DEF U, N
<1>7. CapabilityHolds([type |-> "number", value |-> {Min(U)}], values[j])
  BY <1>1, <1>2, <1>5, <1>6 DEF CapabilityHolds
<1>. QED  BY <1>7 DEF U

(* Flags merge into the first when the others are flags that are true, and *)
(* into one that is false, or none, otherwise.                             *)
LEMMA FlagsMerge ==
    ASSUME NEW n \in Nat \ {0}, NEW values, values = [i \in 1..n |-> values[i]],
           \A i \in 1..n : IsCapability(values[i]) /\ values[i] # Absent,
           values[1].type = "flag", NEW j \in 1..n
    PROVE  CapabilityHolds(MergeCapability(values), values[j])
<1> DEFINE others == Tail(values)
           Ends == {i \in 1..Len(others) : others[i].type # "flag" \/ others[i].value = False}
           stop == IF Ends # {} THEN Min(Ends) ELSE 0
           merged == IF stop = 0 THEN Head(values)
                     ELSE IF others[stop].type = "flag" THEN others[stop] ELSE Absent
<1>1. /\ values \in Seq(ToSet(values)) /\ Len(values) = n /\ DOMAIN values = 1..n
      /\ Head(values) = values[1] /\ Len(others) = n - 1
      /\ \A i \in 1..(n - 1) : others[i] = values[i + 1]
  <2>1. DOMAIN values = 1..n
    OBVIOUS
  <2>2. values \in [1..n -> ToSet(values)]
    BY <2>1 DEF ToSet
  <2>3. values \in Seq(ToSet(values))
    BY <2>2, SeqDef
  <2>4. Len(values) = n
    BY <2>1, <2>3, LenProperties
  <2>. QED  BY <2>1, <2>3, <2>4, HeadTailProperties
<1>2. Absent \notin ToSet(values)
  BY <1>1 DEF ToSet
<1>3. MergeCapability(values) = merged
  BY <1>1, <1>2 DEF MergeCapability, SelectInSeq
<1>4. Ends \subseteq Int /\ IsFiniteSet(Ends)
  <2>1. IsFiniteSet(1..(n - 1))
    BY FS_Interval
  <2>2. Ends \subseteq 1..(n - 1)
    BY <1>1
  <2> HIDE DEF Ends
  <2>3. IsFiniteSet(Ends)
    BY <2>1, <2>2, FS_Subset
  <2>. QED  BY <2>2, <2>3
<1>5. CASE Ends = {}
  <2>1. merged = values[1]
    BY <1>1, <1>5
  <2>2. CASE j = 1
    BY <1>3, <2>1, <2>2 DEF CapabilityHolds
  <2>3. CASE j # 1
    <3>1. j - 1 \in 1..(n - 1) /\ others[j - 1] = values[j]
      BY <1>1, <2>3
    <3>2. values[j].type = "flag" /\ values[j].value # False
      BY <1>1, <1>5, <3>1
    <3>3. values[j] = [type |-> "flag", value |-> True]
      BY <3>2 DEF IsCapability, Absent
    <3>. QED  BY <1>3, <2>1, <3>3 DEF CapabilityHolds
  <2>. QED  BY <2>2, <2>3
<1>6. CASE Ends # {}
  <2>1. stop \in Ends
    <3> HIDE DEF Ends
    <3>. QED  BY <1>4, <1>6, LeastOf
  <2>3. \A e \in Ends : e # 0 /\ (others[e].type # "flag" \/ others[e].value = False)
    BY <1>1
  <2>2. stop # 0 /\ (others[stop].type # "flag" \/ others[stop].value = False)
    <3> HIDE DEF stop, Ends, others
    <3>. QED  BY <2>1, <2>3
  <2> HIDE DEF stop
  <2>4. merged = Absent \/ (merged.type = "flag" /\ merged.value = False)
    BY <2>2
  <2>5. False # True
    BY DEF True, False
  <2> HIDE DEF merged
  <2>. QED  BY <1>2, <1>3, <2>4, <2>5 DEF CapabilityHolds
<1>. QED  BY <1>5, <1>6

(* mergeCapabilities: what the merged model says of a capability holds of  *)
(* every model.                                                            *)
LEMMA CapabilitiesMerge ==
    ASSUME NEW n \in Nat \ {0}, NEW values, values = [i \in 1..n |-> values[i]],
           \A i \in 1..n : IsCapability(values[i]), NEW j \in 1..n
    PROVE  CapabilityHolds(MergeCapability(values), values[j])
<1> DEFINE S == ToSet(values)
           type == Head(values).type
           mixed == \E v \in S : v.type # type
<1>1. values[1] \in S /\ Head(values) = values[1] /\ (\A i \in 1..n : values[i] \in S)
  <2>1. DOMAIN values = 1..n
    OBVIOUS
  <2>2. values \in [1..n -> S]
    BY <2>1 DEF ToSet
  <2>3. values \in Seq(S)
    BY <2>2, SeqDef
  <2>. QED  BY <2>1, <2>2, <2>3, LenProperties
<1>2. CASE Absent \in S
  <2>1. MergeCapability(values) = Absent
    BY <1>2 DEF MergeCapability
  <2>. QED  BY <2>1 DEF CapabilityHolds
<1>3. CASE Absent \notin S /\ type = "flag"
  BY <1>1, <1>3, FlagsMerge
<1>4. CASE Absent \notin S /\ type # "flag" /\ mixed
  <2>1. MergeCapability(values) = Absent
    BY <1>4 DEF MergeCapability
  <2>. QED  BY <2>1 DEF CapabilityHolds
<1>5. CASE Absent \notin S /\ type = "number" /\ ~mixed
  <2>1. MergeCapability(values) = [type |-> "number", value |-> {Min(UNION {v.value : v \in S})}]
    BY <1>5 DEF MergeCapability
  <2>2. \A i \in 1..n : values[i].type = "number"
    BY <1>1, <1>5
  <2> HIDE DEF S
  <2>3. CapabilityHolds([type |-> "number", value |-> {Min(UNION {v.value : v \in ToSet(values)})}], values[j])
    BY <2>2, NumbersMerge
  <2>. QED  BY <2>1, <2>3 DEF S
<1>6. CASE Absent \notin S /\ type = "list" /\ ~mixed
  <2>1. MergeCapability(values) = [type |-> "list", value |-> Common({v.value : v \in S})]
    BY <1>6 DEF MergeCapability
  <2>2. Common({v.value : v \in S}) \subseteq values[j].value
    BY <1>1 DEF Common
  <2>3. values[j] # Absent
    BY <1>1, <1>6
  <2> DEFINE lists == Common({v.value : v \in S})
  <2> HIDE DEF lists
  <2>4. CapabilityHolds([type |-> "list", value |-> lists], values[j])
    BY <2>2, <2>3 DEF CapabilityHolds, lists
  <2>. QED  BY <2>1, <2>4 DEF lists
<1>7. type \in {"flag", "number", "list", "absent"} /\ (type = "absent" => Absent \in S)
  <2>1. IsCapability(values[1])
    OBVIOUS
  <2>2. values[1].type = "absent" => values[1] = Absent
    BY <2>1 DEF IsCapability
  <2>3. values[1].type \in {"flag", "number", "list", "absent"}
    BY <2>1 DEF IsCapability, Absent
  <2>. QED  BY <1>1, <2>2, <2>3
<1>. QED  BY <1>2, <1>3, <1>4, <1>5, <1>6, <1>7

(* mergeModelInfo: what the merged model says holds of every one it was    *)
(* merged from.                                                            *)
LEMMA MergeHolds ==
    ASSUME NEW n \in Nat \ {0}, NEW models, models = [i \in 1..n |-> models[i]],
           \A i \in 1..n : IsModel(models[i]), NEW j \in 1..n
    PROVE  Holds(Merge(models), models[j])
<1> DEFINE S == ToSet(models)
           p == Merge(models)
           m == models[j]
           limits == {x.limit : x \in S}
           values == [i \in DOMAIN models |-> models[i].capability]
<1>1. DOMAIN models = 1..n /\ S = {models[i] : i \in 1..n} /\ m \in S
  BY DEF ToSet
<1>2. p.flag => m.flag
  <2>1. p.flag = All(models, LAMBDA x : x.flag)
    BY DEF Merge
  <2>. QED  BY <1>1, <2>1 DEF All
<1>3. p.limit = 0 \/ (m.limit # 0 /\ p.limit <= m.limit)
  <2> DEFINE f == [i \in 1..n |-> models[i].limit]
  <2>1. f \in [1..n -> Nat]
    BY DEF IsModel
  <2>0. limits = {models[i].limit : i \in 1..n}
    BY <1>1
  <2>2. limits = {f[i] : i \in 1..n} /\ limits \subseteq Nat /\ m.limit \in limits
    BY <2>0 DEF IsModel
  <2>3. IsFiniteSet(limits)
    <3> HIDE DEF f, limits
    <3>. QED  BY <2>1, <2>2, ImageFinite
  <2>4. p.limit = Least(limits)
    BY DEF Merge
  <2> HIDE DEF limits, p, m
  <2>. QED  BY <2>2, <2>3, <2>4, LeastHolds
<1>4. p.efforts \subseteq m.efforts
  <2>1. p.efforts = Common({x.efforts : x \in S})
    BY DEF Merge
  <2>. QED  BY <1>1, <2>1 DEF Common
<1>5. p.other \in {m.other, Nothing}
  <2>1. p.other = IF All(models, LAMBDA x : x.other = Head(models).other)
                  THEN Head(models).other ELSE Nothing
    BY DEF Merge
  <2>. QED  BY <1>1, <2>1 DEF All
<1>6. CapabilityHolds(p.capability, m.capability)
  <2>1. values = [i \in 1..n |-> values[i]] /\ values[j] = m.capability
    BY <1>1
  <2>2. \A i \in 1..n : IsCapability(values[i])
    BY <1>1 DEF IsModel
  <2>3. p.capability = MergeCapability(values)
    BY DEF Merge
  <2> HIDE DEF values, p, m
  <2>. QED  BY <2>1, <2>2, <2>3, CapabilitiesMerge
<1> HIDE DEF p, m
<1>7. Holds(p, m)
  BY <1>2, <1>3, <1>4, <1>5, <1>6 DEF Holds, CapabilityHolds
<1>. QED  BY <1>7 DEF p, m

(* Every element of a finite set is in the sequence of it.                 *)
LEMMA SeqOfSet ==
    ASSUME NEW S, IsFiniteSet(S)
    PROVE  /\ SetToSeq(S) \in [1..Cardinality(S) -> S] /\ Cardinality(S) \in Nat
           /\ \A x \in S : \E i \in 1..Cardinality(S) : SetToSeq(S)[i] = x
<1> DEFINE n == Cardinality(S)
<1>1. n \in Nat /\ ExistsBijection(1..n, S)
  BY FS_CardinalityType
<1>2. \E f \in [1..n -> S] : IsInjective(f)
  BY <1>1 DEF ExistsBijection, Bijection, Injection
<1>3. SetToSeq(S) \in [1..n -> S] /\ IsInjective(SetToSeq(S))
  BY <1>2 DEF SetToSeq
<1>4. SetToSeq(S) \in Injection(1..n, S)
  BY <1>3 DEF Injection
<1>5. Cardinality(1..n) = n
  BY <1>1, FS_Interval
<1>6. SetToSeq(S) \in Surjection(1..n, S)
  BY <1>4, <1>5, FS_Injection
<1>. QED  BY <1>1, <1>3, <1>6 DEF Surjection

(* So it is with the default account's first.                              *)
LEMMA OrderHasAll ==
    ASSUME NEW S, IsFiniteSet(S)
    PROVE  /\ Cardinality(S) \in Nat
           /\ \A i \in 1..Cardinality(S) : InOrder(S)[i] \in S
           /\ \A x \in S : \E i \in 1..Cardinality(S) : InOrder(S)[i] = x
<1>1. CASE First \notin S
  BY <1>1, SeqOfSet DEF InOrder
<1>2. CASE First \in S
  <2> DEFINE R == S \ {First}
             k == Cardinality(R)
             s == SetToSeq(R)
             t == <<First>> \o s
  <2>1. IsFiniteSet(R) /\ k = Cardinality(S) - 1 /\ Cardinality(S) \in Nat
    BY <1>2, FS_RemoveElement, FS_CardinalityType
  <2>2. s \in [1..k -> R] /\ k \in Nat /\ \A x \in R : \E i \in 1..k : s[i] = x
    <3> HIDE DEF R
    <3>. QED  BY <2>1, SeqOfSet
  <2>3. s \in Seq(S) /\ Len(s) = k /\ <<First>> \in Seq(S) /\ Len(<<First>>) = 1
    <3>1. s \in [1..k -> S]
      BY <2>2
    <3>2. s \in Seq(S)
      <4> HIDE DEF s, k
      <4>. QED  BY <2>2, <3>1, SeqDef
    <3>3. Len(s) \in Nat /\ DOMAIN s = 1..Len(s)
      <4> HIDE DEF s
      <4>. QED  BY <3>2, LenProperties
    <3>4. DOMAIN s = 1..k
      BY <2>2
    <3>5. Len(s) = k
      <4> HIDE DEF s, k
      <4>. QED  BY <2>2, <3>3, <3>4
    <3>. QED  BY <1>2, <3>2, <3>5
  <2>4. \A i \in 1..(k + 1) : t[i] = IF i = 1 THEN First ELSE s[i - 1]
    <3> HIDE DEF s, k
    <3>. QED  BY <2>2, <2>3, ConcatProperties
  <2>5. InOrder(S) = t /\ Cardinality(S) = k + 1
    BY <1>2, <2>1, <2>2 DEF InOrder
  <2> HIDE DEF s, t, k
  <2>6. ASSUME NEW i \in 1..(k + 1) PROVE t[i] \in S
    <3>1. CASE i = 1
      BY <1>2, <2>2, <2>4, <3>1
    <3>2. CASE i # 1
      <4>1. i - 1 \in 1..k
        BY <2>2, <3>2
      <4>. QED  BY <2>2, <2>4, <3>2, <4>1
    <3>. QED  BY <3>1, <3>2
  <2>7. ASSUME NEW x \in S PROVE \E i \in 1..(k + 1) : t[i] = x
    <3>1. CASE x = First
      <4>1. 1 \in 1..(k + 1)
        BY <2>2
      <4>. QED  BY <2>4, <3>1, <4>1
    <3>2. CASE x # First
      <4>1. PICK i \in 1..k : s[i] = x
        BY <2>2, <3>2
      <4>2. i + 1 \in 1..(k + 1) /\ i + 1 # 1 /\ (i + 1) - 1 = i
        BY <2>2
      <4>3. t[i + 1] = s[(i + 1) - 1]
        BY <2>4, <4>2
      <4>. QED  BY <4>1, <4>2, <4>3
    <3>. QED  BY <3>1, <3>2
  <2>. QED  BY <2>1, <2>5, <2>6, <2>7
<1>. QED  BY <1>1, <1>2

(* PublicModels: what a client is told of a model holds on every account   *)
(* that may serve it.                                                      *)
LEMMA PublicModelsHold == ASSUME CatalogAssumption, Inv PROVE MergedHolds
<1> DEFINE n == Cardinality(Listing)
           models == [i \in 1..n |-> Offered(InOrder(Listing)[i])]
<1>1. Listing \subseteq Accounts /\ IsFiniteSet(Listing)
  <2>1. Listing \subseteq Accounts
    BY DEF Listing
  <2>. QED  BY <2>1, FS_Subset DEF CatalogAssumption
<1>2. /\ n \in Nat /\ \A i \in 1..n : InOrder(Listing)[i] \in Listing
      /\ \A a \in Listing : \E i \in 1..n : InOrder(Listing)[i] = a
  BY <1>1, OrderHasAll
<1>3. ASSUME NEW a \in Listing PROVE IsModel(Offered(a))
  <2>1. states[a] \in Catalogs \ {Empty}
    BY <1>1 DEF Listing, Inv, TypeInv, Known
  <2>2. PICK o \in Offers : states[a] = {o}
    BY <2>1 DEF Catalogs
  <2>. QED  BY <2>2 DEF Offered, CatalogAssumption
<1>4. \A p \in PublicModels : p = Merge(models)
  BY DEF PublicModels
<1>5. ASSUME NEW p \in PublicModels
      PROVE  \E a \in Listing : ShownBy(p, a) /\ (First \in Listing => a = First)
  <2>1. p.shown = Head(models).shown
    <3> HIDE DEF models
    <3>1. Merge(models).shown = Head(models).shown
      BY DEF Merge
    <3>. QED  BY <1>4, <1>5, <3>1
  <2>2. n # 0
    BY <1>1, FS_EmptySet DEF PublicModels
  <2>3. 1 \in 1..n /\ Head(models) = Offered(InOrder(Listing)[1])
    BY <1>2, <2>2
  <2>4. First \in Listing => InOrder(Listing)[1] = First
    BY DEF InOrder
  <2>. QED  BY <1>2, <2>1, <2>3, <2>4 DEF ShownBy
<1>10. SUFFICES ASSUME NEW p \in PublicModels, NEW a \in Listing PROVE Holds(p, Offered(a))
  BY <1>5 DEF MergedHolds
<1>6. PICK j \in 1..n : InOrder(Listing)[j] = a
  BY <1>2
<1>7. n \in Nat \ {0} /\ models[j] = Offered(a) /\ models = [i \in 1..n |-> models[i]]
  BY <1>2, <1>6
<1>8. \A i \in 1..n : IsModel(models[i])
  BY <1>2, <1>3
<1> HIDE DEF models, n
<1>9. Holds(Merge(models), models[j])
  BY <1>7, <1>8, MergeHolds
<1>. QED  BY <1>4, <1>7, <1>9

(* refreshAccount, mergeModels: the catalogs agree, and what a client is   *)
(* told holds on every account, for any accounts and offers.               *)
THEOREM CatalogsAlwaysHold == ASSUME CatalogAssumption PROVE Spec => []CatalogsHold
<1>1. Inv => CatalogsHold
  BY CatalogsDoAgree, PublicModelsHold DEF CatalogsHold
<1>. QED  BY <1>1, InvHolds, PTL
=============================================================================
