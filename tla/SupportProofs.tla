--------------------------- MODULE SupportProofs ---------------------------
(****************************************************************************)
(* For every value of their constants, what the checked runs say of the     *)
(* parts around the coders: HandlerHelper (who stays registered is called   *)
(* exactly once by a walk, a removal by address hits the callback it        *)
(* means), the tables of MultiHandlerHelper, the client of the tests, the   *)
(* logger and the command line.                                             *)
(****************************************************************************)
EXTENDS HandlerHelper, TestClient, Log4JLogger, CommandLine, SequenceLemmas, FiniteSetTheorems,
        TLAPS

--------------------------------------------------------------------------------
(* HandlerHelper: the inductive invariant. *)

\* addCallback numbers the callbacks in the order of registration.
Numbered == \E n \in 0 .. MaxCallbacks : fn_ptr \in [1 .. n -> Addresses]

\* A callback lives nowhere but at the address that was returned for it.
AtItsAddress ==
    \A a \in Occupied : callbacks_[a] \in DOMAIN fn_ptr /\ fn_ptr[callbacks_[a]] = a

\* The walk goes up: what it has called has an address it has passed, or is at.
CalledArePassed ==
    iter # 0 => \A k \in Callbacks : calls[k] > 0 => k \in DOMAIN fn_ptr /\ fn_ptr[k] <= iter

HelperInv == /\ TypeOK
             /\ Numbered
             /\ AtItsAddress
             /\ CalledArePassed
             /\ StayedAreCalledOnce
             /\ RemovalIsOwn

--------------------------------------------------------------------------------
(* Lemmas. *)

\* What stayed is found by its own address, and each address holds one callback.
LEMMA OneAddressEach ==
    ASSUME HelperInv
    PROVE  /\ \A k \in Live : fn_ptr[k] \in Occupied /\ callbacks_[fn_ptr[k]] = k
           /\ \A k \in Live : k \in Callbacks /\ k \in DOMAIN fn_ptr
           /\ stayed \subseteq Live
<1>1. \A k \in Live : \E a \in Occupied : k = callbacks_[a]
  BY DEF Live
<1> QED
  BY <1>1 DEF HelperInv, TypeOK, AtItsAddress, Occupied

--------------------------------------------------------------------------------
(* The actions. *)

LEMMA InitHelper == Init => HelperInv
<1> SUFFICES ASSUME Init PROVE HelperInv
  OBVIOUS
<1> USE MaxCallbacksAssumption, AddressesAssumption DEF Init
<1>1. Occupied = {} /\ Live = {}
  BY DEF Occupied, Live
<1>2. DOMAIN fn_ptr = {} /\ fn_ptr \in [1 .. 0 -> Addresses]
  OBVIOUS
<1>3. TypeOK
  BY <1>1, <1>2 DEF TypeOK, Callbacks
<1>4. Numbered
  BY <1>2 DEF Numbered
<1>5. AtItsAddress /\ CalledArePassed /\ StayedAreCalledOnce /\ RemovalIsOwn
  BY <1>1, <1>2 DEF AtItsAddress, CalledArePassed, StayedAreCalledOnce, RemovalIsOwn, Callbacks
<1> QED
  BY <1>3, <1>4, <1>5 DEF HelperInv

LEMMA AddCallbackStep ==
    ASSUME HelperInv, NEW a \in Addresses, AddCallback(a)
    PROVE  HelperInv'
<1> USE MaxCallbacksAssumption, AddressesAssumption
<1>1. PICK n \in 0 .. MaxCallbacks : fn_ptr \in [1 .. n -> Addresses]
  BY DEF HelperInv, Numbered
<1>2. DOMAIN fn_ptr = 1 .. n /\ Cardinality(DOMAIN fn_ptr) = n
  BY <1>1, FS_Interval, 1 \in Int, n \in Int
<1>3. /\ n + 1 \in 1 .. MaxCallbacks
      /\ callbacks_' = [callbacks_ EXCEPT ![a] = n + 1]
      /\ fn_ptr' = [i \in 1 .. n + 1 |-> IF i = n + 1 THEN a ELSE fn_ptr[i]]
      /\ a \notin Occupied
      /\ UNCHANGED <<removed, iter, calls, stayed, considerate, intact, alive>>
  <2>1. /\ Cardinality(DOMAIN fn_ptr) < MaxCallbacks
        /\ callbacks_' = [callbacks_ EXCEPT ![a] = Cardinality(DOMAIN fn_ptr) + 1]
        /\ fn_ptr' = [i \in 1 .. Cardinality(DOMAIN fn_ptr) + 1 |->
                         IF i = Cardinality(DOMAIN fn_ptr) + 1 THEN a ELSE fn_ptr[i]]
        /\ a \notin Occupied
        /\ UNCHANGED <<removed, iter, calls, stayed, considerate, intact, alive>>
    BY Zenon DEF AddCallback
  <2>2. n + 1 \in 1 .. MaxCallbacks
    BY <1>2, <2>1
  <2> QED
    BY <1>2, <2>1, <2>2, Zenon
<1>4. fn_ptr' \in [1 .. n + 1 -> Addresses] /\ DOMAIN fn_ptr' = DOMAIN fn_ptr \union {n + 1}
  BY <1>1, <1>2, <1>3
<1>5. Occupied' = Occupied \union {a}
  BY <1>3 DEF Occupied, HelperInv, TypeOK
<1>6. Live' = Live \union {n + 1}
  <2>1. \A b \in Occupied : callbacks_'[b] = callbacks_[b]
    BY <1>3 DEF Occupied, HelperInv, TypeOK
  <2>2. callbacks_'[a] = n + 1
    BY <1>3 DEF HelperInv, TypeOK
  <2> QED
    BY <1>5, <2>1, <2>2 DEF Live
<1>7. n + 1 \notin DOMAIN fn_ptr /\ \A k \in DOMAIN fn_ptr : fn_ptr'[k] = fn_ptr[k]
  BY <1>2, <1>3, <1>4
<1>8. TypeOK'
  <2>1. callbacks_' \in [Addresses -> Callbacks \union {0}]
    BY <1>3 DEF HelperInv, TypeOK, Callbacks
  <2>2. DOMAIN fn_ptr' \subseteq Callbacks
    BY <1>3, <1>4 DEF HelperInv, TypeOK, Callbacks
  <2> QED
    BY <1>3, <1>4, <1>6, <2>1, <2>2 DEF HelperInv, TypeOK
<1>9. Numbered'
  BY <1>3, <1>4 DEF Numbered
<1>10. AtItsAddress'
  <2> SUFFICES ASSUME NEW b \in Occupied'
               PROVE  callbacks_'[b] \in DOMAIN fn_ptr' /\ fn_ptr'[callbacks_'[b]] = b
    BY DEF AtItsAddress
  <2>1. CASE b = a
    BY <1>3, <1>4, <2>1 DEF HelperInv, TypeOK
  <2>2. CASE b # a
    BY <1>3, <1>4, <1>5, <1>7, <2>2 DEF HelperInv, AtItsAddress, TypeOK, Occupied
  <2> QED
    BY <2>1, <2>2
<1>11. CalledArePassed'
  BY <1>3, <1>4, <1>7 DEF HelperInv, CalledArePassed
<1>12. StayedAreCalledOnce'
  <2>1. \A k \in stayed : k \in DOMAIN fn_ptr
    BY OneAddressEach
  <2> QED
    BY <1>3, <1>7, <2>1 DEF HelperInv, StayedAreCalledOnce
<1>13. RemovalIsOwn'
  <2>1. removed \subseteq DOMAIN fn_ptr
    BY DEF HelperInv, TypeOK
  <2> QED
    BY <1>3, <1>4, <1>6, <1>7, <2>1 DEF HelperInv, RemovalIsOwn
<1> QED
  BY <1>8, <1>9, <1>10, <1>11, <1>12, <1>13 DEF HelperInv

LEMMA RemoveCallbackStep ==
    ASSUME HelperInv, NEW k \in Callbacks, RemoveCallback(k)
    PROVE  HelperInv'
<1> DEFINE a == fn_ptr[k]
<1>1. /\ k \in DOMAIN fn_ptr /\ a \in Addresses
      /\ removed' = removed \union {k}
      /\ considerate' = (considerate /\ k \notin removed /\ a # iter)
      /\ UNCHANGED <<fn_ptr, iter, calls, alive>>
      /\ considerate' \in BOOLEAN
  BY DEF RemoveCallback, HelperInv, TypeOK
<1>2. Numbered' /\ CalledArePassed'
  BY <1>1 DEF HelperInv, Numbered, CalledArePassed
<1>3. CASE a \notin Occupied
  <2>1. UNCHANGED <<callbacks_, stayed, intact>> /\ Occupied' = Occupied /\ Live' = Live
    BY <1>3 DEF RemoveCallback, Occupied, Live
  <2>2. ~considerate'
    <3>1. k \notin Live
      BY <1>3, OneAddressEach
    <3> QED
      BY <1>1, <3>1 DEF HelperInv, RemovalIsOwn
  <2>3. TypeOK'
    BY <1>1, <2>1 DEF HelperInv, TypeOK
  <2>4. AtItsAddress' /\ StayedAreCalledOnce'
    BY <1>1, <2>1 DEF HelperInv, AtItsAddress, StayedAreCalledOnce
  <2>5. RemovalIsOwn'
    BY <2>2 DEF RemovalIsOwn
  <2> QED
    BY <1>2, <2>3, <2>4, <2>5 DEF HelperInv
<1>4. CASE a \in Occupied
  <2>1. /\ callbacks_' = [callbacks_ EXCEPT ![a] = 0]
        /\ stayed' = stayed \ {callbacks_[a]}
        /\ intact' = (a # iter)
    BY <1>4 DEF RemoveCallback, Erase, Held
  <2>2. Occupied' = Occupied \ {a} /\ \A b \in Occupied' : callbacks_'[b] = callbacks_[b]
    BY <2>1 DEF Occupied, HelperInv, TypeOK
  <2>3. Live' = Live \ {callbacks_[a]}
    <3>1. \A b \in Occupied' : callbacks_[b] # callbacks_[a]
      BY <1>4, <2>2 DEF HelperInv, AtItsAddress
    <3> QED
      BY <2>2, <3>1 DEF Live
  <2>4. TypeOK'
    <3>1. callbacks_' \in [Addresses -> Callbacks \union {0}]
      BY <2>1 DEF HelperInv, TypeOK
    <3>2. stayed' \subseteq Live'
      BY <2>1, <2>3 DEF HelperInv, TypeOK
    <3> QED
      BY <1>1, <2>1, <3>1, <3>2 DEF HelperInv, TypeOK
  <2>5. AtItsAddress'
    BY <1>1, <2>2 DEF HelperInv, AtItsAddress
  <2>6. StayedAreCalledOnce'
    BY <1>1, <2>1 DEF HelperInv, StayedAreCalledOnce
  <2>7. RemovalIsOwn'
    <3> SUFFICES ASSUME considerate' PROVE intact' /\ Live' = DOMAIN fn_ptr' \ removed'
      BY DEF RemovalIsOwn
    <3>1. k \in Live /\ Live = DOMAIN fn_ptr \ removed
      BY <1>1 DEF HelperInv, RemovalIsOwn
    <3>2. callbacks_[a] = k
      BY <3>1, OneAddressEach
    <3> QED
      BY <1>1, <2>1, <2>3, <3>1, <3>2
  <2> QED
    BY <1>2, <2>4, <2>5, <2>6, <2>7 DEF HelperInv
<1> QED
  BY <1>3, <1>4

LEMMA TriggerStep ==
    ASSUME HelperInv, Trigger
    PROVE  HelperInv'
<1> USE AddressesAssumption
<1> DEFINE m == Min(Occupied)
<1>1. Occupied \in SUBSET Nat /\ Occupied # {}
  BY DEF Trigger, Occupied
<1>2. m \in Occupied /\ \A b \in Occupied : m <= b
  BY <1>1, FirstPlace
<1>3. /\ iter' = m
      /\ calls' = [k \in Callbacks |-> IF k = callbacks_[m] THEN 1 ELSE 0]
      /\ stayed' = Live
      /\ UNCHANGED <<callbacks_, fn_ptr, removed, considerate, intact, alive>>
  BY DEF Trigger
<1> HIDE DEF m
<1>4. Occupied' = Occupied /\ Live' = Live
  BY <1>3 DEF Occupied, Live
<1>5. m \in Nat \ {0} /\ m \in Addresses
  BY <1>2 DEF Occupied
<1>6. TypeOK'
  <2>1. calls' \in [Callbacks -> Nat]
    BY <1>3
  <2> QED
    BY <1>3, <1>4, <1>5, <2>1 DEF HelperInv, TypeOK
<1>7. Numbered' /\ AtItsAddress' /\ RemovalIsOwn'
  BY <1>3, <1>4 DEF HelperInv, Numbered, AtItsAddress, RemovalIsOwn
<1>8. CalledArePassed'
  <2>1. callbacks_[m] \in DOMAIN fn_ptr /\ fn_ptr[callbacks_[m]] = m
    BY <1>2 DEF HelperInv, AtItsAddress
  <2> QED
    BY <1>3, <1>5, <2>1 DEF CalledArePassed
<1>9. StayedAreCalledOnce'
  <2>1. \A k \in Callbacks : calls'[k] <= 1
    BY <1>3
  <2> SUFFICES ASSUME NEW k \in Live
               PROVE  calls'[k] = IF fn_ptr[k] <= m THEN 1 ELSE 0
    BY <1>3, <2>1 DEF StayedAreCalledOnce
  <2>2. fn_ptr[k] \in Occupied /\ callbacks_[fn_ptr[k]] = k /\ k \in Callbacks
    BY OneAddressEach
  <2>3. fn_ptr[k] \in Nat /\ m <= fn_ptr[k]
    BY <1>1, <1>2, <2>2
  <2>4. k = callbacks_[m] => fn_ptr[k] = m
    BY <1>2 DEF HelperInv, AtItsAddress
  <2> QED
    BY <1>3, <1>5, <2>2, <2>3, <2>4
<1> QED
  BY <1>6, <1>7, <1>8, <1>9 DEF HelperInv

\* What stayed and is not ahead of the walk has been called, once.
LEMMA StayedBehindAreCalled ==
    ASSUME HelperInv, iter # 0, NEW k \in stayed, fn_ptr[k] \notin Ahead
    PROVE  calls[k] = 1
<1>1. fn_ptr[k] \in Occupied
  BY OneAddressEach
<1>2. fn_ptr[k] \in Nat /\ iter \in Nat
  BY <1>1, AddressesAssumption DEF Occupied, HelperInv, TypeOK
<1>3. fn_ptr[k] <= iter
  BY <1>1, <1>2 DEF Ahead
<1> QED
  BY <1>3 DEF HelperInv, StayedAreCalledOnce

LEMMA ReturnStep ==
    ASSUME HelperInv, Return
    PROVE  HelperInv'
<1> USE AddressesAssumption
<1>1. iter # 0 /\ UNCHANGED <<callbacks_, fn_ptr, removed, stayed, considerate, intact, alive>>
  BY DEF Return
<1>2. Occupied' = Occupied /\ Live' = Live
  BY <1>1 DEF Occupied, Live
<1>3. Numbered' /\ AtItsAddress' /\ RemovalIsOwn'
  BY <1>1, <1>2 DEF HelperInv, Numbered, AtItsAddress, RemovalIsOwn
<1>4. CASE Ahead = {}
  <2>1. iter' = 0 /\ calls' = calls
    BY <1>4 DEF Return
  <2> QED
    BY <1>1, <1>2, <1>3, <2>1 DEF HelperInv, TypeOK, CalledArePassed, StayedAreCalledOnce
<1>5. CASE Ahead # {}
  <2> DEFINE m == Min(Ahead)
  <2>1. Ahead \in SUBSET Nat
    BY DEF Ahead, Occupied
  <2>2. m \in Ahead /\ \A b \in Ahead : m <= b
    BY <1>5, <2>1, FirstPlace
  <2> DEFINE c == callbacks_[m]
  <2>3. iter' = m /\ calls' = [calls EXCEPT ![c] = @ + 1]
    BY <1>5 DEF Return, Call
  <2> HIDE DEF m
  <2>4. /\ iter \in Nat /\ m \in Nat \ {0} /\ iter < m
        /\ m \in Occupied /\ m \in Addresses
    BY <2>2 DEF Ahead, Occupied, HelperInv, TypeOK
  <2>5. c \in Callbacks /\ c \in DOMAIN fn_ptr /\ fn_ptr[c] = m
    BY <2>4 DEF HelperInv, AtItsAddress, TypeOK
  <2> HIDE DEF c
  <2>6. calls[c] = 0
    BY <1>1, <2>4, <2>5 DEF HelperInv, CalledArePassed, TypeOK
  <2>7. /\ \A k \in Callbacks : calls'[k] = IF k = c THEN 1 ELSE calls[k]
        /\ calls' \in [Callbacks -> Nat]
    BY <2>3, <2>5, <2>6 DEF HelperInv, TypeOK
  <2>8. TypeOK'
    BY <1>1, <1>2, <2>3, <2>4, <2>7 DEF HelperInv, TypeOK
  <2>9. CalledArePassed'
    <3> SUFFICES ASSUME NEW k \in Callbacks, calls'[k] > 0
                 PROVE  k \in DOMAIN fn_ptr /\ fn_ptr[k] <= m
      BY <1>1, <2>3 DEF CalledArePassed
    <3>1. CASE k = c
      BY <2>4, <2>5, <3>1
    <3>2. CASE k # c
      <4>1. k \in DOMAIN fn_ptr /\ fn_ptr[k] <= iter
        BY <1>1, <2>7, <3>2 DEF HelperInv, CalledArePassed
      <4>2. fn_ptr[k] \in Nat
        BY <4>1 DEF HelperInv, TypeOK
      <4> QED
        BY <2>4, <4>1, <4>2
    <3> QED
      BY <3>1, <3>2
  <2>10. StayedAreCalledOnce'
    <3>1. \A k \in Callbacks : calls'[k] <= 1
      BY <2>7 DEF HelperInv, StayedAreCalledOnce
    <3> SUFFICES ASSUME NEW k \in stayed
                 PROVE  calls'[k] = IF fn_ptr[k] <= m THEN 1 ELSE 0
      BY <1>1, <2>3, <3>1 DEF StayedAreCalledOnce
    <3>2. /\ k \in Callbacks /\ fn_ptr[k] \in Occupied /\ fn_ptr[k] \in Nat
          /\ callbacks_[fn_ptr[k]] = k
      BY OneAddressEach DEF Occupied
    <3>3. CASE k = c
      BY <2>4, <2>5, <2>7, <3>2, <3>3
    <3>4. CASE k # c
      <4>1. fn_ptr[k] # m
        BY <3>2, <3>4 DEF c
      <4>2. calls'[k] = IF fn_ptr[k] <= iter THEN 1 ELSE 0
        BY <1>1, <2>7, <3>2, <3>4 DEF HelperInv, StayedAreCalledOnce
      <4>3. fn_ptr[k] > iter => m < fn_ptr[k]
        BY <2>2, <2>4, <3>2, <4>1 DEF Ahead
      <4> QED
        BY <2>4, <3>2, <4>2, <4>3
    <3> QED
      BY <3>3, <3>4
  <2> QED
    BY <1>3, <2>8, <2>9, <2>10 DEF HelperInv
<1> QED
  BY <1>4, <1>5

LEMMA ThrowStep ==
    ASSUME HelperInv, Throw
    PROVE  HelperInv'
<1>1. alive' = FALSE /\ UNCHANGED <<callbacks_, fn_ptr, removed, iter, calls, stayed, considerate, intact>>
  BY DEF Throw
<1>2. Occupied' = Occupied /\ Live' = Live
  BY <1>1 DEF Occupied, Live
<1> QED
  BY <1>1, <1>2 DEF HelperInv, TypeOK, Numbered, AtItsAddress, CalledArePassed,
                    StayedAreCalledOnce, RemovalIsOwn

\* The invariant holds of every set of callbacks that is ever reached.
THEOREM HelperInvariant == Spec => []HelperInv
<1>1. HelperInv /\ [Next]_vars => HelperInv'
  <2> SUFFICES ASSUME HelperInv, [Next]_vars PROVE HelperInv'
    OBVIOUS
  <2>1. CASE \E a \in Addresses : AddCallback(a)
    BY <2>1, AddCallbackStep
  <2>2. CASE \E k \in Callbacks : RemoveCallback(k)
    BY <2>2, RemoveCallbackStep
  <2>3. CASE Trigger
    BY <2>3, TriggerStep
  <2>4. CASE Return
    BY <2>4, ReturnStep
  <2>5. CASE Throw
    BY <2>5, ThrowStep
  <2>6. CASE UNCHANGED vars
    BY <2>6 DEF vars, HelperInv, TypeOK, Numbered, AtItsAddress, CalledArePassed,
                StayedAreCalledOnce, RemovalIsOwn, Occupied, Live
  <2> QED
    BY <2>1, <2>2, <2>3, <2>4, <2>5, <2>6 DEF Next
<1> QED
  BY <1>1, InitHelper, PTL DEF Spec

--------------------------------------------------------------------------------

\* Types are right, whatever the callbacks do: a walk never leaves the addresses, and what
\* is said to have stayed is registered.
THEOREM HelperTypes == Spec => []TypeOK
<1>1. HelperInv => TypeOK
  BY DEF HelperInv
<1> QED
  BY <1>1, HelperInvariant, PTL

\* A walk calls every callback that stays exactly once, in whatever way the callbacks add
\* and remove others (handler_helpers.tcc:21-26).
THEOREM CalledOnce == Spec => []StayedAreCalledOnce
<1>1. HelperInv => StayedAreCalledOnce
  BY DEF HelperInv
<1> QED
  BY <1>1, HelperInvariant, PTL

\* Considerate registrants remove their own callbacks and nothing that is in use, though
\* addresses are used again (handler_helpers.tcc:5-13).
THEOREM RemovesItsOwn == Spec => []RemovalIsOwn
<1>1. HelperInv => RemovalIsOwn
  BY DEF HelperInv
<1> QED
  BY <1>1, HelperInvariant, PTL

\* When a walk ends, all that stayed were called.
THEOREM WalkIsComplete == Spec => EndsComplete
<1>1. HelperInv /\ [Next]_vars => [iter # 0 /\ iter' = 0 => \A k \in stayed : calls[k] = 1]_vars
  <2> SUFFICES ASSUME HelperInv, [Next]_vars, iter # 0, iter' = 0, NEW k \in stayed
               PROVE  calls[k] = 1
    OBVIOUS
  <2>1. Return
    BY AddressesAssumption
       DEF Next, vars, AddCallback, RemoveCallback, Trigger, Throw
  <2>2. Ahead = {}
    <3> SUFFICES ASSUME Ahead # {} PROVE FALSE
      OBVIOUS
    <3>1. Min(Ahead) \in Ahead
      BY FirstPlace, AddressesAssumption DEF Ahead, Occupied
    <3>2. iter' = Min(Ahead)
      BY <2>1 DEF Return, Call
    <3> QED
      BY <3>1, <3>2, AddressesAssumption DEF Ahead, Occupied
  <2> QED
    BY <2>2, StayedBehindAreCalled
<1> QED
  BY <1>1, HelperInvariant, PTL DEF Spec, EndsComplete

--------------------------------------------------------------------------------
(* The tables of MultiHandlerHelper. *)

VARIABLES alternative, agreed

Tables == INSTANCE MultiHandlerHelper WITH alive <- agreed

\* The tables agree with themselves: an event has one type of handler wherever it is
\* registered, and is triggered with that type.
LEMMA OneTypeForAnEvent ==
    \A r \in Tables!Registrations, t \in Tables!Registrations \union Tables!Triggers :
        Tables!Key(r) = Tables!Key(t) => Tables!Type(r) = Tables!Type(t)
<1> USE DEF Tables!Registrations, Tables!Triggers, Tables!Key, Tables!Type
<1>1. \A r, t \in {"receiver"} \X Tables!ReceiverEvents : r[2][1] = t[2][1] => r[2][2] = t[2][2]
  BY DEF Tables!ReceiverEvents
<1>2. \A r, t \in {"session"} \X Tables!SessionEvents : r[2][1] = t[2][1] => r[2][2] = t[2][2]
  BY DEF Tables!SessionEvents
<1>3. \A r, t \in {"runner"} \X Tables!RunnerEvents : r[2][1] = t[2][1] => r[2][2] = t[2][2]
  BY DEF Tables!RunnerEvents
<1>4. Tables!ReceiverTriggers = Tables!ReceiverEvents
  BY DEF Tables!ReceiverTriggers, Tables!ReceiverEvents
<1> QED
  BY <1>1, <1>2, <1>3, <1>4

\* Nothing the three classes register or trigger finds a handler of another type, for
\* any number of handlers and any order of the calls (handler_helpers.tcc:36-50).
THEOREM TypesAlwaysAgree == Tables!Spec => []Tables!TypesAgree
<1>1. Tables!Init => Tables!TableInv
  BY DEF Tables!Init, Tables!TableInv, Tables!TypesAgree, Tables!HeldIsRegistered, Tables!Absent
<1>2. Tables!TableInv /\ [Tables!Next]_Tables!vars => Tables!TableInv'
  <2> SUFFICES ASSUME Tables!TableInv, [Tables!Next]_Tables!vars PROVE Tables!TableInv'
    OBVIOUS
  <2> USE DEF Tables!TableInv, Tables!TypesAgree, Tables!HeldIsRegistered
  <2>1. ASSUME NEW r \in Tables!Registrations, Tables!AddCallback(r) PROVE Tables!TableInv'
    <3>1. Tables!Key(r) \in Tables!Keys /\ Tables!Type(r) \in Tables!Types
      BY DEF Tables!Keys, Tables!Types
    <3>2. alternative[Tables!Key(r)] \in {Tables!Absent, Tables!Type(r)}
      BY <3>1, OneTypeForAnEvent
    <3> QED
      BY <2>1, <3>1, <3>2 DEF Tables!AddCallback
  <2>2. ASSUME NEW t \in Tables!Triggers, Tables!TriggerCallbacks(t) PROVE Tables!TableInv'
    <3>1. Tables!Key(t) \in Tables!Keys
      BY DEF Tables!Keys, Tables!Triggers, Tables!ReceiverTriggers, Tables!ReceiverEvents, Tables!Registrations
    <3>2. alternative[Tables!Key(t)] \in {Tables!Absent, Tables!Type(t)}
      BY <3>1, OneTypeForAnEvent
    <3> QED
      BY <2>2, <3>2 DEF Tables!TriggerCallbacks
  <2>3. CASE UNCHANGED Tables!vars
    BY <2>3 DEF Tables!vars
  <2> QED
    BY <2>1, <2>2, <2>3 DEF Tables!Next
<1>3. Tables!TableInv => Tables!TypesAgree
  BY DEF Tables!TableInv
<1> QED
  BY <1>1, <1>2, <1>3, PTL DEF Tables!Spec

--------------------------------------------------------------------------------
(* Log4JLogger: the inductive invariant. *)

\* Nothing happens before log4cpp is configured.
FreshStart ==
    state = "starting" => /\ \A c \in Categories : attached[c] = {}
                          /\ created = {}
                          /\ DOMAIN loggers = {}
                          /\ line = NoLine

\* Categories own the default appender at most, and only finitely many do.
OwnsDefault == /\ \A c \in Categories : owned[c] \subseteq {Console}
               /\ IsFiniteSet({c \in Categories : owned[c] # {}})

\* Until the register deletes them, nobody has deleted what a file defined.
KeptUntilExit == state # "exited" => \A a \in Appenders : freed[a] = 0

FiniteAttached == \A c \in Categories : IsFiniteSet(attached[c])

\* The root's logger is the one of the root category.
RootsOwn == \A l \in DOMAIN loggers : l = Root <=> loggers[l].category = Root

\* A priority filters like a level: it lets the same messages through.
Filters(p, level) == \A x \in LogLevels : (p >= fromLogLevel[x]) = Within(x, level)

\* A logger's category has a priority of its own, and it filters like the logger's level
\* if no other logger sets it.
Synced ==
    /\ HasLevels => priority[Root] >= ERROR
    /\ \A l \in DOMAIN loggers :
          /\ priority[loggers[l].category] < NOTSET
          /\ HasLevels /\ Alone(l) => Filters(priority[loggers[l].category], loggers[l].level)

\* What was logged was logged by a logger there is.
LoggedBy == line # NoLine => line.logger \in DOMAIN loggers

LoggerInv == /\ LoggerTypeOK
             /\ FreshStart
             /\ OwnsDefault
             /\ KeptUntilExit
             /\ FreedOnce
             /\ FiniteAttached
             /\ RootsOwn
             /\ Synced
             /\ LoggedBy
             /\ LevelFilters

\* The invariant speaks of the state only.
LEMMA LoggerStutters == LoggerInv /\ UNCHANGED logger_vars => LoggerInv'
BY DEF logger_vars, LoggerInv, LoggerTypeOK, FreshStart, OwnsDefault, KeptUntilExit, FreedOnce,
       FiniteAttached, RootsOwn, Synced, LoggedBy, LevelFilters, Alone, HasLevels

--------------------------------------------------------------------------------
(* Log4JLogger: levels and priorities. *)

\* The two units agree: a level's priority filters like the level, and so does every
\* priority from ERROR up like the level it is read as.
LEMMA UnitsAgree ==
    /\ \A level \in LogLevels : /\ fromLogLevel[level] \in ERROR .. DEBUG
                                /\ Filters(fromLogLevel[level], level)
    /\ \A p \in EMERG .. NOTSET : fromPriorityLevel(p) \in LogLevels
    /\ \A p \in ERROR .. DEBUG : Filters(p, fromPriorityLevel(p))
<1> USE DEF EMERG, ERROR, WARN, NOTICE, INFO, DEBUG, NOTSET, fromLogLevel, LogLevels, Filters, Within
<1>1. \A level \in LogLevels : /\ fromLogLevel[level] \in ERROR .. DEBUG
                               /\ Filters(fromLogLevel[level], level)
  OBVIOUS
<1>2. \A p \in EMERG .. NOTSET : fromPriorityLevel(p) \in LogLevels
  BY DEF fromPriorityLevel
<1>3. ASSUME NEW p \in ERROR .. DEBUG PROVE Filters(p, fromPriorityLevel(p))
  <2>1. p \in {3, 4, 5, 6, 7}
    OBVIOUS
  <2> QED
    BY <2>1 DEF fromPriorityLevel
<1> QED
  BY <1>1, <1>2, <1>3

\* What is true of the loggers stays true when one is made or set, if the priority its
\* category is left with filters like its level.
LEMMA LoggerPut ==
    ASSUME LoggerInv,
           NEW l \in Loggers \union {Root}, NEW c \in Categories, NEW level \in LogLevels,
           PutLogger(l, c, level),
           l = Root <=> c = Root,
           l \in DOMAIN loggers => loggers[l].category = c,
           priority' \in [Categories -> EMERG .. NOTSET],
           priority'[c] < NOTSET,
           HasLevels => priority'[c] >= ERROR /\ Filters(priority'[c], level),
           \A d \in Categories \ {c} : priority'[d] = priority[d],
           UNCHANGED line,
           attached'[Root] = attached[Root]
    PROVE  /\ priority'[Root] < NOTSET
           /\ DOMAIN loggers' \subseteq Loggers \union {Root}
           /\ \A x \in DOMAIN loggers' : loggers'[x] \in [category : Categories, level : LogLevels]
           /\ RootsOwn'
           /\ Synced'
           /\ LoggedBy'
           /\ LevelFilters'
<1>1. /\ DOMAIN loggers' = DOMAIN loggers \union {l}
      /\ loggers'[l] = [category |-> c, level |-> level]
      /\ \A x \in DOMAIN loggers \ {l} : loggers'[x] = loggers[x]
  BY DEF PutLogger
<1>2. loggers'[l].category = c /\ loggers'[l].level = level
  BY <1>1
<1>3. \A x \in DOMAIN loggers : loggers'[x].category = loggers[x].category
  BY <1>1, <1>2
<1>4. /\ \A x \in DOMAIN loggers : loggers[x] \in [category : Categories, level : LogLevels]
      /\ DOMAIN loggers \subseteq Loggers \union {Root}
      /\ priority \in [Categories -> EMERG .. NOTSET] /\ priority[Root] < NOTSET
      /\ Root \in Categories
  BY DEF LoggerInv, LoggerTypeOK, Categories
<1>5. \A x \in DOMAIN loggers' : loggers'[x] \in [category : Categories, level : LogLevels]
  <2>1. [category |-> c, level |-> level] \in [category : Categories, level : LogLevels]
    OBVIOUS
  <2> QED
    BY <1>1, <1>4, <2>1
<1>6. RootsOwn'
  BY <1>1, <1>2 DEF LoggerInv, RootsOwn
<1>7. \A x \in DOMAIN loggers : Alone(x)' => Alone(x)
  BY <1>1, <1>3 DEF Alone
<1>8. HasLevels' = HasLevels
  BY DEF HasLevels
<1>9. Synced'
  <2>1. HasLevels => priority'[Root] >= ERROR
    BY <1>4 DEF LoggerInv, Synced
  <2>2. ASSUME NEW x \in DOMAIN loggers \ {l}
        PROVE  /\ priority'[loggers[x].category] < NOTSET
               /\ HasLevels /\ Alone(x)' => Filters(priority'[loggers[x].category], loggers[x].level)
    <3>1. /\ priority[loggers[x].category] < NOTSET
          /\ HasLevels /\ Alone(x) => Filters(priority[loggers[x].category], loggers[x].level)
          /\ loggers[x].category \in Categories
      BY <1>4 DEF LoggerInv, Synced
    <3>2. CASE loggers[x].category = c
      <4>1. ~ Alone(x)'
        BY <1>1, <1>2, <3>2 DEF Alone
      <4> QED
        BY <3>2, <4>1
    <3>3. CASE loggers[x].category # c
      BY <1>7, <3>1, <3>3
    <3> QED
      BY <3>2, <3>3
  <2>3. ASSUME NEW x \in DOMAIN loggers'
        PROVE  /\ priority'[loggers'[x].category] < NOTSET
               /\ HasLevels /\ Alone(x)' => Filters(priority'[loggers'[x].category], loggers'[x].level)
    <3>1. CASE x = l
      BY <1>2, <3>1
    <3>2. CASE x # l
      BY <1>1, <2>2, <3>2
    <3> QED
      BY <3>1, <3>2
  <2> QED
    BY <1>8, <2>1, <2>3 DEF Synced, Filters, Within
<1>10. LoggedBy'
  BY <1>1 DEF LoggerInv, LoggedBy
<1>11. LevelFilters'
  <2> SUFFICES ASSUME HasLevels, line # NoLine, Alone(line.logger)', attached[Root] # {}
               PROVE  (line.copies > 0) = Within(line.level, line.limit)
    BY <1>8 DEF LevelFilters, Within
  <2>1. Alone(line.logger)
    BY <1>7 DEF LoggerInv, LoggedBy
  <2> QED
    BY <2>1 DEF LoggerInv, LevelFilters
<1>12. priority'[Root] < NOTSET
  BY <1>4
<1> QED
  BY <1>1, <1>4, <1>5, <1>6, <1>9, <1>10, <1>11, <1>12

--------------------------------------------------------------------------------
(* Log4JLogger: the actions. *)

LEMMA InitLogger == LoggerInit => LoggerInv
<1> SUFFICES ASSUME LoggerInit PROVE LoggerInv
  OBVIOUS
<1> USE DEF LoggerInit
<1>1. DOMAIN loggers = {}
  OBVIOUS
<1>2. LoggerTypeOK
  BY <1>1 DEF LoggerTypeOK, Categories, AllAppenders, EMERG, INFO, NOTSET
<1>3. FreshStart /\ KeptUntilExit /\ FreedOnce /\ LevelFilters /\ LoggedBy
  BY <1>1 DEF FreshStart, KeptUntilExit, FreedOnce, LevelFilters, LoggedBy, AllAppenders
<1>4. OwnsDefault
  <2>1. {c \in Categories : owned[c] # {}} = {}
    OBVIOUS
  <2> QED
    BY <2>1, FS_EmptySet DEF OwnsDefault
<1>5. FiniteAttached
  BY FS_EmptySet DEF FiniteAttached
<1>6. RootsOwn /\ Synced
  BY <1>1 DEF RootsOwn, Synced, Categories, INFO, ERROR
<1> QED
  BY <1>2, <1>3, <1>4, <1>5, <1>6 DEF LoggerInv

LEMMA ConfigureStep ==
    ASSUME LoggerInv, NEW f \in Files, configureFromFile(f)
    PROVE  LoggerInv'
<1>1. /\ state = "starting" /\ state' \in {"terminated", "running"}
      /\ created' = UNION {f[c].appenders : c \in DOMAIN f}
      /\ UNCHANGED <<freed, loggers, line>>
  BY DEF configureFromFile
<1>2. /\ \A c \in Categories : attached[c] = {} /\ owned[c] = {}
      /\ DOMAIN loggers = {} /\ line = NoLine
  BY <1>1 DEF LoggerInv, FreshStart, LoggerTypeOK
<1>3. /\ DOMAIN f \subseteq Categories
      /\ \A c \in DOMAIN f : /\ f[c].priority \in EMERG .. NOTSET
                             /\ f[c].appenders \subseteq Appenders
                             /\ IsFiniteSet(f[c].appenders)
  BY FilesAssumption
<1>4. created' \subseteq AllAppenders /\ \A c \in DOMAIN f : f[c].appenders \subseteq created'
  BY <1>1, <1>3 DEF AllAppenders
<1>5. /\ attached' \in [Categories -> SUBSET created']
      /\ \A c \in Categories : owned'[c] = {} /\ IsFiniteSet(attached'[c])
  <2>1. CASE Refuses(f)
    <3>1. attached' = attached /\ owned' = owned /\ attached \in [Categories -> SUBSET created]
      BY <2>1 DEF configureFromFile, LoggerInv, LoggerTypeOK
    <3> QED
      BY <1>2, <3>1, FS_EmptySet
  <2>2. CASE ~ Refuses(f)
    <3>1. /\ attached' = [c \in Categories |-> IF c \in DOMAIN f THEN f[c].appenders ELSE attached[c]]
          /\ owned' = [c \in Categories |-> IF c \in DOMAIN f THEN {} ELSE owned[c]]
      BY <2>2 DEF configureFromFile, ConfiguredOwned
    <3> QED
      BY <1>2, <1>3, <1>4, <3>1, FS_EmptySet
  <2> QED
    BY <2>1, <2>2
<1>6. /\ priority' \in [Categories -> EMERG .. NOTSET]
      /\ priority'[Root] < NOTSET
      /\ HasLevels => priority'[Root] >= ERROR
  <2>1. /\ priority \in [Categories -> EMERG .. NOTSET] /\ priority[Root] < NOTSET
        /\ HasLevels => priority[Root] >= ERROR
        /\ Root \in Categories
    BY DEF LoggerInv, LoggerTypeOK, Synced, Categories
  <2>2. CASE Refuses(f)
    BY <2>1, <2>2 DEF configureFromFile
  <2>3. CASE ~ Refuses(f)
    <3>1. priority' = [c \in Categories |-> IF c \in DOMAIN f THEN f[c].priority ELSE priority[c]]
      BY <2>3 DEF configureFromFile
    <3>2. Root \in DOMAIN f => f[Root].priority # NOTSET
      BY <2>3 DEF Refuses
    <3>3. priority' \in [Categories -> EMERG .. NOTSET]
      BY <1>3, <2>1, <3>1
    <3>4. priority'[Root] < NOTSET
      BY <1>3, <2>1, <3>1, <3>2 DEF EMERG, NOTSET
    <3>5. HasLevels => priority'[Root] >= ERROR
      BY <2>1, <3>1 DEF HasLevels
    <3> QED
      BY <3>3, <3>4, <3>5
  <2> QED
    BY <2>2, <2>3
<1>7. LoggerTypeOK'
  BY <1>1, <1>2, <1>4, <1>5, <1>6 DEF LoggerInv, LoggerTypeOK
<1>8. FreshStart' /\ KeptUntilExit' /\ FreedOnce' /\ LevelFilters' /\ LoggedBy'
  BY <1>1, <1>2
     DEF LoggerInv, FreshStart, KeptUntilExit, FreedOnce, LevelFilters, LoggedBy
<1>9. OwnsDefault'
  <2>1. {c \in Categories : owned'[c] # {}} = {}
    BY <1>5
  <2> QED
    BY <1>5, <2>1, FS_EmptySet DEF OwnsDefault
<1>10. FiniteAttached' /\ RootsOwn' /\ Synced'
  BY <1>1, <1>2, <1>5, <1>6 DEF FiniteAttached, RootsOwn, Synced, HasLevels
<1> QED
  BY <1>7, <1>8, <1>9, <1>10 DEF LoggerInv

\* What the appenders go through leaves alone what is said of levels, and the other way
\* round: a step of a running process that moves no appender keeps what is said of them.
LEMMA AppendersRest ==
    ASSUME LoggerInv, state = "running", state' # "starting", state' # "exited",
           UNCHANGED <<attached, owned, created, freed>>
    PROVE  /\ attached' \in [Categories -> SUBSET created']
           /\ \A c \in Categories : owned'[c] \subseteq attached'[c]
           /\ created' \subseteq AllAppenders
           /\ freed' \in [AllAppenders -> Nat]
           /\ FreshStart' /\ OwnsDefault' /\ KeptUntilExit' /\ FreedOnce' /\ FiniteAttached'
BY DEF LoggerInv, LoggerTypeOK, FreshStart, OwnsDefault, KeptUntilExit, FreedOnce, FiniteAttached

LEMMA UnconfiguredStep ==
    ASSUME LoggerInv, Unconfigured
    PROVE  LoggerInv'
<1>1. /\ state = "starting" /\ state' = "running"
      /\ UNCHANGED <<priority, attached, owned, created, freed, loggers, line>>
  BY DEF Unconfigured
<1> QED
  BY <1>1
     DEF LoggerInv, LoggerTypeOK, FreshStart, OwnsDefault, KeptUntilExit, FreedOnce, FiniteAttached,
         RootsOwn, Synced, LoggedBy, LevelFilters, Alone, HasLevels

\* A step that makes or sets a logger by its level and touches no appender.
LEMMA SetLevelStep ==
    ASSUME LoggerInv, state = "running", state' \in {"running", "terminated"},
           NEW l \in Loggers \union {Root}, NEW c \in Categories, NEW level \in LogLevels,
           SetLevel(l, c, level),
           l = Root <=> c = Root,
           l \in DOMAIN loggers => loggers[l].category = c,
           UNCHANGED line,
           attached'[Root] = attached[Root]
    PROVE  /\ priority' \in [Categories -> EMERG .. NOTSET]
           /\ priority'[Root] < NOTSET
           /\ DOMAIN loggers' \subseteq Loggers \union {Root}
           /\ \A x \in DOMAIN loggers' : loggers'[x] \in [category : Categories, level : LogLevels]
           /\ RootsOwn' /\ Synced' /\ LoggedBy' /\ LevelFilters'
<1> DEFINE p == fromLogLevel[level]
<1>1. p \in ERROR .. DEBUG /\ Filters(p, level)
  BY UnitsAgree
<1>2. p \in EMERG .. NOTSET /\ p < NOTSET /\ p >= ERROR
  BY <1>1 DEF EMERG, ERROR, DEBUG, NOTSET
<1>3. PutLogger(l, c, level) /\ priority' = [priority EXCEPT ![c] = p]
  BY DEF SetLevel
<1>4. priority \in [Categories -> EMERG .. NOTSET]
  BY DEF LoggerInv, LoggerTypeOK
<1> HIDE DEF p
<1>5. /\ priority' \in [Categories -> EMERG .. NOTSET]
      /\ priority'[c] = p
      /\ \A d \in Categories \ {c} : priority'[d] = priority[d]
  BY <1>2, <1>3, <1>4
<1> QED
  BY <1>1, <1>2, <1>3, <1>5, LoggerPut

LEMMA GetRootStep ==
    ASSUME LoggerInv, GetRoot
    PROVE  LoggerInv'
<1> DEFINE level == fromPriorityLevel(priority[Root])
<1>1. /\ state = "running"
      /\ PutLogger(Root, Root, level)
      /\ UNCHANGED <<state, priority, attached, owned, created, freed, line>>
      /\ Root \notin DOMAIN loggers
  BY DEF GetRoot
<1>2. /\ priority \in [Categories -> EMERG .. NOTSET] /\ priority[Root] < NOTSET
      /\ Root \in Categories
      /\ HasLevels => priority[Root] >= ERROR
  BY DEF LoggerInv, LoggerTypeOK, Synced, Categories
<1>3. level \in LogLevels /\ (HasLevels => Filters(priority[Root], level))
  <2>1. HasLevels => priority[Root] \in ERROR .. DEBUG
    BY <1>2 DEF EMERG, ERROR, DEBUG, NOTSET
  <2> QED
    BY <1>2, <2>1, UnitsAgree
<1> HIDE DEF level
<1>4. /\ DOMAIN loggers' \subseteq Loggers \union {Root}
      /\ \A x \in DOMAIN loggers' : loggers'[x] \in [category : Categories, level : LogLevels]
      /\ RootsOwn' /\ Synced' /\ LoggedBy' /\ LevelFilters'
  BY <1>1, <1>2, <1>3, LoggerPut
<1> QED
  BY <1>1, <1>2, <1>4, AppendersRest DEF LoggerInv, LoggerTypeOK

LEMMA SetByLevelStep ==
    ASSUME LoggerInv, NEW l \in Loggers \union {Root}, NEW level \in LogLevels,
           \/ l = Root /\ GetRootAt(level)
           \/ setLevel(l, level)
    PROVE  LoggerInv'
<1> DEFINE c == IF l \in DOMAIN loggers THEN loggers[l].category ELSE Root
<1>1. /\ state = "running" /\ SetLevel(l, c, level)
      /\ UNCHANGED <<state, attached, owned, created, freed, line>>
      /\ l \in DOMAIN loggers \/ l = Root
  BY DEF GetRootAt, setLevel, LoggerInv, RootsOwn
<1>2. /\ c \in Categories
      /\ l = Root <=> c = Root
      /\ l \in DOMAIN loggers => loggers[l].category = c
  BY <1>1 DEF LoggerInv, LoggerTypeOK, RootsOwn, Categories
<1> HIDE DEF c
<1>3. /\ priority' \in [Categories -> EMERG .. NOTSET]
      /\ priority'[Root] < NOTSET
      /\ DOMAIN loggers' \subseteq Loggers \union {Root}
      /\ \A x \in DOMAIN loggers' : loggers'[x] \in [category : Categories, level : LogLevels]
      /\ RootsOwn' /\ Synced' /\ LoggedBy' /\ LevelFilters'
  BY <1>1, <1>2, SetLevelStep
<1> QED
  BY <1>1, <1>3, AppendersRest DEF LoggerInv, LoggerTypeOK

LEMMA NewStep ==
    ASSUME LoggerInv, NEW l \in Loggers, NEW c \in Names, NEW level \in LogLevels,
           NEW configured \in BOOLEAN, New(l, c, level, configured)
    PROVE  LoggerInv'
<1>1. /\ state = "running" /\ l \notin DOMAIN loggers
      /\ IF configured THEN NewConfigured(l, c, level) ELSE NewUnconfigured(l, c, level)
      /\ UNCHANGED <<freed, line>>
  BY DEF New
<1>2. SetLevel(l, c, level) /\ state' \in {"running", "terminated"}
  BY <1>1 DEF NewConfigured, NewUnconfigured
<1>3. l # Root /\ c # Root /\ c \in Categories /\ Root \in Categories
  BY NamesAssumption DEF Categories
<1>4. attached'[Root] = attached[Root]
  BY <1>1, <1>3 DEF NewConfigured, NewUnconfigured, AddAppender, LoggerInv, LoggerTypeOK
<1>5. /\ priority' \in [Categories -> EMERG .. NOTSET]
      /\ priority'[Root] < NOTSET
      /\ DOMAIN loggers' \subseteq Loggers \union {Root}
      /\ \A x \in DOMAIN loggers' : loggers'[x] \in [category : Categories, level : LogLevels]
      /\ RootsOwn' /\ Synced' /\ LoggedBy' /\ LevelFilters'
  BY <1>1, <1>2, <1>3, <1>4, SetLevelStep
<1>6. CASE UNCHANGED <<attached, owned, created>>
  BY <1>1, <1>2, <1>5, <1>6, AppendersRest DEF LoggerInv, LoggerTypeOK
<1>7. CASE ~ configured /\ Console \in attached[c]
  <2>1. UNCHANGED <<attached, owned>> /\ created' = created \union {Console}
    BY <1>1, <1>7 DEF NewUnconfigured, AddAppender
  <2>2. Console \in created
    BY <1>3, <1>7 DEF LoggerInv, LoggerTypeOK
  <2> QED
    BY <1>6, <2>1, <2>2
<1>8. CASE ~ configured /\ Console \notin attached[c]
  <2>1. /\ attached' = [attached EXCEPT ![c] = @ \union {Console}]
        /\ owned' = [owned EXCEPT ![c] = @ \union {Console}]
        /\ created' = created \union {Console}
    BY <1>1, <1>8 DEF NewUnconfigured, AddAppender
  <2>2. /\ attached \in [Categories -> SUBSET created]
        /\ \A d \in Categories : owned[d] \subseteq attached[d]
        /\ created \subseteq AllAppenders
    BY DEF LoggerInv, LoggerTypeOK
  <2>3. /\ DOMAIN owned' = DOMAIN owned
        /\ attached'[c] = attached[c] \union {Console}
        /\ \A d \in Categories \ {c} : attached'[d] = attached[d] /\ owned'[d] = owned[d]
    BY <1>3, <2>1, <2>2
  <2>4. attached' \in [Categories -> SUBSET created']
    BY <2>1, <2>2
  <2>5. owned'[c] \in {owned[c] \union {Console}, owned[c]}
    BY <1>3, <2>1
  <2>6. \A d \in Categories : owned'[d] \subseteq attached'[d]
    BY <2>2, <2>3, <2>5
  <2>7. LoggerTypeOK'
    BY <1>1, <1>2, <1>5, <2>1, <2>2, <2>4, <2>6 DEF LoggerInv, LoggerTypeOK, AllAppenders
  <2>8. OwnsDefault'
    <3>1. \A d \in Categories : owned'[d] \subseteq {Console}
      BY <2>3, <2>5 DEF LoggerInv, OwnsDefault
    <3>2. {d \in Categories : owned'[d] # {}} \subseteq {d \in Categories : owned[d] # {}} \union {c}
      BY <2>3
    <3>3. IsFiniteSet({d \in Categories : owned[d] # {}} \union {c})
      BY FS_AddElement DEF LoggerInv, OwnsDefault
    <3> QED
      BY <3>1, <3>2, <3>3, FS_Subset DEF OwnsDefault
  <2>9. FiniteAttached'
    <3>1. IsFiniteSet(attached[c] \union {Console})
      BY <1>3, FS_AddElement DEF LoggerInv, FiniteAttached
    <3> QED
      BY <2>3, <3>1 DEF LoggerInv, FiniteAttached
  <2>10. FreshStart' /\ KeptUntilExit' /\ FreedOnce'
    BY <1>1, <1>2 DEF LoggerInv, FreshStart, KeptUntilExit, FreedOnce
  <2> QED
    BY <1>5, <2>7, <2>8, <2>9, <2>10 DEF LoggerInv
<1>9. configured => UNCHANGED <<attached, owned, created>>
  BY <1>1 DEF NewConfigured
<1> QED
  BY <1>6, <1>7, <1>8, <1>9

LEMMA LogStep ==
    ASSUME LoggerInv, NEW l \in Loggers \union {Root}, NEW level \in LogLevels, log(l, level)
    PROVE  LoggerInv'
<1> DEFINE c == loggers[l].category
<1>1. /\ state = "running" /\ l \in DOMAIN loggers
      /\ line' = [logger |-> l, level |-> level, limit |-> loggers[l].level,
                  copies |-> IF ChainedPriority(c) >= fromLogLevel[level] THEN Copies(c) ELSE 0]
      /\ UNCHANGED <<state, priority, attached, owned, created, freed, loggers>>
  BY DEF log
<1>2. /\ c \in Categories /\ Root \in Categories /\ priority[c] < NOTSET
      /\ HasLevels /\ Alone(l) => Filters(priority[c], loggers[l].level)
      /\ priority \in [Categories -> EMERG .. NOTSET]
  BY <1>1 DEF LoggerInv, LoggerTypeOK, Synced, Categories
<1>3. ChainedPriority(c) = priority[c]
  BY <1>2 DEF ChainedPriority, EMERG, NOTSET
<1>4. attached[Root] # {} => Copies(c) > 0
  <2>1. \A d \in Categories : Cardinality(attached[d]) \in Nat
    BY FS_CardinalityType DEF LoggerInv, FiniteAttached
  <2>2. attached[Root] # {} => Cardinality(attached[Root]) > 0
    <3>1. IsFiniteSet(attached[Root])
      BY <1>2 DEF LoggerInv, FiniteAttached
    <3>2. attached[Root] # {} => Cardinality(attached[Root]) # 0
      BY <3>1, FS_EmptySet
    <3> QED
      BY <1>2, <2>1, <3>2
  <2> QED
    BY <1>2, <2>1, <2>2 DEF Copies
<1> HIDE DEF c
<1>5. LevelFilters'
  <2> SUFFICES ASSUME HasLevels, Alone(l), attached[Root] # {}
               PROVE  (line'.copies > 0) = Within(level, loggers[l].level)
    BY <1>1 DEF LevelFilters, Alone, HasLevels, Within
  <2>1. (priority[c] >= fromLogLevel[level]) = Within(level, loggers[l].level)
    BY <1>2 DEF Filters
  <2> QED
    BY <1>1, <1>3, <1>4, <2>1
<1>6. LoggerTypeOK' /\ RootsOwn' /\ LoggedBy'
  BY <1>1 DEF LoggerInv, LoggerTypeOK, RootsOwn, LoggedBy
<1>7. Synced'
  BY <1>1 DEF LoggerInv, Synced, Alone, HasLevels
<1> QED
  BY <1>1, <1>5, <1>6, <1>7, AppendersRest DEF LoggerInv

\* What the exit does to loggers and levels: nothing, and no message is logged any more.
LEMMA LevelsRest ==
    ASSUME LoggerInv, UNCHANGED <<priority, loggers, line>>,
           \/ UNCHANGED attached
           \/ \A c \in Categories : attached'[c] = {}
    PROVE  RootsOwn' /\ Synced' /\ LoggedBy' /\ LevelFilters'
<1>1. attached'[Root] # {} => attached[Root] # {}
  BY DEF Categories
<1> QED
  BY <1>1 DEF LoggerInv, RootsOwn, Synced, LoggedBy, LevelFilters, Alone, HasLevels

LEMMA ShutdownStep ==
    ASSUME LoggerInv, Shutdown
    PROVE  LoggerInv'
<1> DEFINE Owners(a) == {c \in Categories : a \in owned[c]}
<1>1. /\ state = "running" /\ state' = "categories gone"
      /\ freed' = [a \in AllAppenders |-> freed[a] + Cardinality(Owners(a))]
      /\ attached' = [c \in Categories |-> {}]
      /\ owned' = [c \in Categories |-> {}]
      /\ UNCHANGED <<priority, created, loggers, line>>
  BY DEF Shutdown
<1>2. freed \in [AllAppenders -> Nat]
  BY DEF LoggerInv, LoggerTypeOK
<1>3. ASSUME NEW a \in AllAppenders PROVE Cardinality(Owners(a)) \in Nat
  <2>1. Owners(a) \subseteq {c \in Categories : owned[c] # {}}
    OBVIOUS
  <2>2. IsFiniteSet(Owners(a))
    BY <2>1, FS_Subset DEF LoggerInv, OwnsDefault
  <2> QED
    BY <2>2, FS_CardinalityType
<1>4. ASSUME NEW a \in Appenders PROVE a \in AllAppenders /\ Cardinality(Owners(a)) = 0
  <2>1. a # Console
    BY NamesAssumption
  <2>2. Owners(a) = {}
    BY <2>1 DEF LoggerInv, OwnsDefault
  <2> QED
    BY <2>2, FS_EmptySet DEF AllAppenders
<1>5. freed' \in [AllAppenders -> Nat]
  <2>1. \A a \in AllAppenders : freed[a] + Cardinality(Owners(a)) \in Nat
    BY <1>2, <1>3
  <2> HIDE DEF Owners
  <2> QED
    BY <1>1, <2>1, Zenon
<1>6. \A a \in Appenders : freed'[a] = 0
  <2> SUFFICES ASSUME NEW a \in Appenders PROVE freed'[a] = 0
    OBVIOUS
  <2>1. freed[a] = 0
    BY <1>1 DEF LoggerInv, KeptUntilExit
  <2>2. freed'[a] = freed[a] + Cardinality(Owners(a))
    BY <1>1, <1>4, Zenon
  <2> QED
    BY <1>4, <2>1, <2>2
<1>7. LoggerTypeOK'
  <2>1. /\ state' = "categories gone"
        /\ attached' = [c \in Categories |-> {}]
        /\ owned' = [c \in Categories |-> {}]
        /\ UNCHANGED <<priority, created, loggers>>
    BY <1>1
  <2> QED
    BY <1>5, <2>1 DEF LoggerInv, LoggerTypeOK
<1>8. FreshStart' /\ KeptUntilExit' /\ FreedOnce'
  <2>1. state' = "categories gone"
    BY <1>1
  <2>2. \A a \in Appenders : freed'[a] <= 1
    BY <1>6
  <2>3. FreshStart' /\ KeptUntilExit'
    BY <1>6, <2>1 DEF FreshStart, KeptUntilExit
  <2> QED
    BY <2>1, <2>2, <2>3 DEF FreedOnce
<1>9. OwnsDefault' /\ FiniteAttached'
  <2>1. {c \in Categories : owned'[c] # {}} = {}
    BY <1>1
  <2> QED
    BY <1>1, <2>1, FS_EmptySet DEF OwnsDefault, FiniteAttached
<1> QED
  BY <1>1, <1>7, <1>8, <1>9, LevelsRest DEF LoggerInv

LEMMA ReleaseDefaultStep ==
    ASSUME LoggerInv, ReleaseDefault
    PROVE  LoggerInv'
<1>1. /\ state = "categories gone" /\ state' = "default gone"
      /\ freed' = [freed EXCEPT ![Console] = IF Console \in created THEN @ + 1 ELSE @]
      /\ UNCHANGED <<priority, attached, owned, created, loggers, line>>
  BY DEF ReleaseDefault
<1>2. freed \in [AllAppenders -> Nat]
  BY DEF LoggerInv, LoggerTypeOK
<1>3. freed' \in [AllAppenders -> Nat] /\ \A a \in AllAppenders \ {Console} : freed'[a] = freed[a]
  <2>1. \E n \in Nat : freed' = [freed EXCEPT ![Console] = n]
    <3>1. Console \in AllAppenders
      BY DEF AllAppenders
    <3>2. freed[Console] \in Nat /\ freed[Console] + 1 \in Nat
      BY <1>2, <3>1
    <3> QED
      BY <1>1, <3>2
  <2> QED
    BY <1>2, <2>1
<1>4. \A a \in Appenders : freed'[a] = freed[a]
  BY <1>3, NamesAssumption DEF AllAppenders
<1>5. KeptUntilExit' /\ FreedOnce'
  BY <1>1, <1>4 DEF LoggerInv, KeptUntilExit, FreedOnce
<1>6. LoggerTypeOK' /\ FreshStart' /\ OwnsDefault' /\ FiniteAttached'
  BY <1>1, <1>3 DEF LoggerInv, LoggerTypeOK, FreshStart, OwnsDefault, FiniteAttached
<1> QED
  BY <1>1, <1>5, <1>6, LevelsRest DEF LoggerInv

LEMMA DeleteAllAppendersStep ==
    ASSUME LoggerInv, DeleteAllAppenders
    PROVE  LoggerInv'
<1>1. /\ state = "default gone" /\ state' = "exited"
      /\ freed' = [a \in AllAppenders |-> IF a \in created /\ freed[a] = 0 THEN 1 ELSE freed[a]]
      /\ UNCHANGED <<priority, attached, owned, created, loggers, line>>
  BY DEF DeleteAllAppenders
<1>2. freed' \in [AllAppenders -> Nat]
  BY <1>1 DEF LoggerInv, LoggerTypeOK
<1>3. FreedOnce'
  <2>1. ASSUME NEW a \in Appenders PROVE freed'[a] = IF a \in created THEN 1 ELSE 0
    <3>1. a \in AllAppenders /\ freed[a] = 0
      BY <1>1 DEF AllAppenders, LoggerInv, KeptUntilExit
    <3>2. freed'[a] = IF a \in created /\ freed[a] = 0 THEN 1 ELSE freed[a]
      BY <1>1, <3>1, Zenon
    <3> QED
      BY <3>1, <3>2
  <2>2. state' = "exited" /\ created' = created
    BY <1>1
  <2>3. \A a \in Appenders : freed'[a] <= 1
    BY <2>1
  <2> QED
    BY <2>1, <2>2, <2>3 DEF FreedOnce
<1>4. LoggerTypeOK' /\ FreshStart' /\ OwnsDefault' /\ FiniteAttached' /\ KeptUntilExit'
  BY <1>1, <1>2 DEF LoggerInv, LoggerTypeOK, FreshStart, OwnsDefault, FiniteAttached, KeptUntilExit
<1> QED
  BY <1>1, <1>3, <1>4, LevelsRest DEF LoggerInv

--------------------------------------------------------------------------------
(* Log4JLogger: the theorems. *)

\* The invariant holds of every process, whatever the files say and the program logs.
THEOREM LoggerInvariant == LoggerSpec => []LoggerInv
<1>1. LoggerInv /\ [LoggerNext]_logger_vars => LoggerInv'
  <2> SUFFICES ASSUME LoggerInv, [LoggerNext]_logger_vars PROVE LoggerInv'
    OBVIOUS
  <2>1. CASE \E f \in Files : configureFromFile(f)
    BY <2>1, ConfigureStep
  <2>2. CASE \E level \in LogLevels, l \in Loggers, c \in Names, b \in BOOLEAN : New(l, c, level, b)
    BY <2>2, NewStep
  <2>3. CASE \E level \in LogLevels, l \in Loggers \union {Root} : setLevel(l, level)
    BY <2>3, SetByLevelStep
  <2>4. CASE \E level \in LogLevels, l \in Loggers \union {Root} : log(l, level)
    BY <2>4, LogStep
  <2>5. CASE \E level \in LogLevels : GetRootAt(level)
    <3>1. Root \in Loggers \union {Root}
      OBVIOUS
    <3> QED
      BY <2>5, <3>1, SetByLevelStep
  <2>6. CASE Unconfigured
    BY <2>6, UnconfiguredStep
  <2>7. CASE GetRoot
    BY <2>7, GetRootStep
  <2>8. CASE Shutdown
    BY <2>8, ShutdownStep
  <2>9. CASE ReleaseDefault
    BY <2>9, ReleaseDefaultStep
  <2>10. CASE DeleteAllAppenders
    BY <2>10, DeleteAllAppendersStep
  <2>11. CASE UNCHANGED logger_vars
    BY <2>11, LoggerStutters
  <2> QED
    BY <2>1, <2>2, <2>3, <2>4, <2>5, <2>6, <2>7, <2>8, <2>9, <2>10, <2>11, Zenon DEF LoggerNext
<1> QED
  BY <1>1, InitLogger, PTL DEF LoggerSpec

\* Every reachable state has the types the module says.
THEOREM LoggerTypes == LoggerSpec => []LoggerTypeOK
<1>1. LoggerInv => LoggerTypeOK
  BY DEF LoggerInv
<1> QED
  BY <1>1, LoggerInvariant, PTL

\* For any files, categories, appenders and loggers, the exit deletes each appender a
\* file defined exactly once (Log4JLogger.cc:38-50, the destructors of log4cpp).
THEOREM AppendersFreedOnce == LoggerSpec => []FreedOnce
<1>1. LoggerInv => FreedOnce
  BY DEF LoggerInv
<1> QED
  BY <1>1, LoggerInvariant, PTL

\* A logger that has its category to itself filters as its getLevel() says, whatever was
\* configured and set before (Log4JLogger.cc:52-75, 100-127).
THEOREM LoggersFilter == LoggerSpec => []LevelFilters
<1>1. LoggerInv => LevelFilters
  BY DEF LoggerInv
<1> QED
  BY <1>1, LoggerInvariant, PTL

--------------------------------------------------------------------------------
(* TestClient: the inductive invariant. *)

\* What was taken is the beginning of the reply, and had come in.
TakenIsPrefix ==
    /\ reply \in Replies
    /\ received_data \in Seq(Bytes)
    /\ arrived \in Nat
    /\ Len(received_data) <= arrived
    /\ arrived <= Len(reply)
    /\ \A i \in 1 .. Len(received_data) : received_data[i] = reply[i]

\* The braces the client counts are those of the object, if its strings hold none.
BalanceIsDepth == Plain(reply) => scope_balance = Depth(reply, Len(received_data))

\* As long as the connection stays, the loop runs on just as long as the object is open.
RunsWhileOpen ==
    Plain(reply) /\ stream = "open" /\ call = "running" => Len(received_data) < Len(reply)

ClientInv == TakenIsPrefix /\ BalanceIsDepth /\ RunsWhileOpen /\ PlainReplyTaken

--------------------------------------------------------------------------------
(* TestClient: lemmas. *)

\* The first n places that hold x.
Places(r, x, n) == {i \in 1 .. n : r[i] = x}

\* One more place holds one x more, or not.
LEMMA OneMorePlace ==
    ASSUME NEW r, NEW x, NEW n \in Nat
    PROVE  /\ Cardinality(Places(r, x, n)) \in Nat
           /\ Cardinality(Places(r, x, n + 1)) =
                 Cardinality(Places(r, x, n)) + IF r[n + 1] = x THEN 1 ELSE 0
<1>1. IsFiniteSet(1 .. n)
  BY FS_Interval, 1 \in Int, n \in Int
<1>2. IsFiniteSet(Places(r, x, n)) /\ Cardinality(Places(r, x, n)) \in Nat
  BY <1>1, FS_Subset, FS_CardinalityType DEF Places
<1>3. Places(r, x, n + 1) = IF r[n + 1] = x THEN Places(r, x, n) \union {n + 1} ELSE Places(r, x, n)
  BY DEF Places
<1>4. n + 1 \notin Places(r, x, n)
  BY DEF Places
<1>5. Cardinality(Places(r, x, n) \union {n + 1}) = Cardinality(Places(r, x, n)) + 1
  BY <1>2, <1>4, FS_AddElement
<1> QED
  BY <1>2, <1>3, <1>5

\* A brace opens or closes the object by one, and nothing else does.
LEMMA DepthStep ==
    ASSUME NEW r, NEW n \in Nat
    PROVE  /\ Depth(r, n) \in Int
           /\ r[n + 1] = "open" => Depth(r, n + 1) = Depth(r, n) + 1
           /\ r[n + 1] = "close" => Depth(r, n + 1) = Depth(r, n) - 1
           /\ r[n + 1] \notin {"open", "close"} => Depth(r, n + 1) = Depth(r, n)
<1>1. \A m : Depth(r, m) = Cardinality(Places(r, "open", m)) - Cardinality(Places(r, "close", m))
  BY DEF Depth, Places
<1> QED
  BY <1>1, OneMorePlace

\* Before its first byte nothing is open.
LEMMA DepthZero == \A r : Depth(r, 0) = 0
<1> SUFFICES ASSUME NEW r PROVE Depth(r, 0) = 0
  OBVIOUS
<1>1. \A x : {i \in 1 .. 0 : r[i] = x} = {}
  OBVIOUS
<1>2. Cardinality({}) = 0
  BY FS_EmptySet
<1> QED
  BY <1>1, <1>2 DEF Depth

--------------------------------------------------------------------------------
(* TestClient: the steps. *)

LEMMA InitClient == ClientInit => ClientInv
<1> SUFFICES ASSUME ClientInit PROVE ClientInv
  OBVIOUS
<1>1. reply \in Replies /\ reply \in Seq(Bytes) /\ reply # << >>
  BY RepliesAssumption DEF ClientInit, IsObject
<1>2. /\ arrived = 0 /\ received_data = << >> /\ scope_balance = 0 /\ call = "running"
      /\ Len(received_data) = 0
  BY DEF ClientInit
<1>3. Len(reply) \in Nat /\ Len(reply) > 0
  BY <1>1, EmptySeq, LenProperties
<1>4. TakenIsPrefix
  BY <1>1, <1>2, <1>3 DEF TakenIsPrefix
<1>5. BalanceIsDepth
  BY <1>2, DepthZero DEF BalanceIsDepth
<1> QED
  BY <1>2, <1>3, <1>4, <1>5 DEF ClientInv, RunsWhileOpen, PlainReplyTaken

LEMMA RecvByteStep ==
    ASSUME ClientInv, RecvByte
    PROVE  ClientInv'
<1> DEFINE n == Len(received_data)
           b == reply[n + 1]
<1>1. /\ call = "running" /\ arrived > n /\ b # "wide"
      /\ received_data' = Append(received_data, b)
      /\ scope_balance' = Balance(b)
      /\ Judge(received_data', scope_balance')
      /\ UNCHANGED <<reply, arrived, stream>>
  BY DEF RecvByte, Receiving, Unread, NextByte
<1>2. /\ reply \in Replies /\ reply \in Seq(Bytes) /\ IsObject(reply)
      /\ received_data \in Seq(Bytes) /\ n \in Nat /\ arrived \in Nat
      /\ arrived <= Len(reply) /\ Len(reply) \in Nat
      /\ \A i \in 1 .. n : received_data[i] = reply[i]
  BY RepliesAssumption, LenProperties DEF ClientInv, TakenIsPrefix
<1>3. n + 1 \in 1 .. Len(reply) /\ n + 1 <= arrived
  BY <1>1, <1>2
<1>4. b \in Bytes
  BY <1>2, <1>3, ElementOfSeq
<1>5. /\ received_data' \in Seq(Bytes)
      /\ Len(received_data') = n + 1
      /\ \A i \in 1 .. n + 1 : received_data'[i] = reply[i]
  <2>1. /\ received_data' \in Seq(Bytes)
        /\ Len(received_data') = n + 1
        /\ \A i \in 1 .. n : received_data'[i] = received_data[i]
        /\ received_data'[n + 1] = b
    BY <1>1, <1>2, <1>4, AppendProperties
  <2> HIDE DEF b
  <2>2. \A i \in 1 .. n : received_data'[i] = reply[i]
    BY <1>2, <2>1
  <2>3. received_data'[n + 1] = reply[n + 1]
    BY <2>1 DEF b
  <2> HIDE DEF n
  <2> QED
    BY <1>2, <2>1, <2>2, <2>3
<1>6. TakenIsPrefix'
  BY <1>1, <1>2, <1>3, <1>5 DEF TakenIsPrefix
<1>7. Plain(reply) => scope_balance' = Depth(reply, n + 1) /\ scope_balance' \in Int
  <2> SUFFICES ASSUME Plain(reply)
               PROVE  scope_balance' = Depth(reply, n + 1) /\ scope_balance' \in Int
    OBVIOUS
  <2>1. b \in {"open", "close", "ascii"}
    BY <1>2, <1>3, LenProperties DEF Plain, ToSet
  <2>2. scope_balance = Depth(reply, n)
    BY DEF ClientInv, BalanceIsDepth
  <2>3. /\ Depth(reply, n) \in Int
        /\ b = "open" => Depth(reply, n + 1) = Depth(reply, n) + 1
        /\ b = "close" => Depth(reply, n + 1) = Depth(reply, n) - 1
        /\ b = "ascii" => Depth(reply, n + 1) = Depth(reply, n)
    BY <1>2, DepthStep
  <2> HIDE DEF b, n
  <2>4. /\ b = "open" => Balance(b) = scope_balance + 1
        /\ b = "close" => Balance(b) = scope_balance - 1
        /\ b = "ascii" => Balance(b) = scope_balance
    BY DEF Balance
  <2>5. scope_balance' = Balance(b)
    BY <1>1
  <2> QED
    BY <2>1, <2>2, <2>3, <2>4, <2>5
<1>8. CASE n + 1 < Len(reply)
  <2>1. Plain(reply) => scope_balance' > 0 /\ Depth(reply, n + 1) > 0
    BY <1>2, <1>7, <1>8 DEF IsObject
  <2>2. Plain(reply) => call' = "running"
    <3>1. Judge(received_data', scope_balance')
      BY <1>1
    <3> QED
      BY <1>7, <2>1, <3>1 DEF Judge
  <2> QED
    BY <1>1, <1>5, <1>6, <1>7, <1>8, <2>2
       DEF ClientInv, BalanceIsDepth, RunsWhileOpen, PlainReplyTaken
<1>9. CASE n + 1 = Len(reply)
  <2>1. Plain(reply) => scope_balance' = 0
    BY <1>2, <1>7, <1>9 DEF IsObject
  <2>2. received_data' = reply
    BY <1>2, <1>5, <1>9, SeqEqual
  <2>3. Plain(reply) => call' = "object"
    BY <1>1, <2>1, <2>2 DEF Judge
  <2> QED
    BY <1>1, <1>5, <1>6, <1>7, <2>3
       DEF ClientInv, BalanceIsDepth, RunsWhileOpen, PlainReplyTaken
<1> QED
  BY <1>2, <1>3, <1>8, <1>9

\* A plain reply has no byte the client cannot decode.
LEMMA RecvWideStep ==
    ASSUME ClientInv, RecvWide
    PROVE  ClientInv'
<1> DEFINE n == Len(received_data)
<1>1. /\ call = "running" /\ arrived > n /\ reply[n + 1] = "wide"
      /\ call' = "raised"
      /\ UNCHANGED <<reply, arrived, stream, received_data, scope_balance, has_received>>
  BY DEF RecvWide, Receiving, Unread, NextByte
<1>2. ~ Plain(reply)
  <2>1. n \in Nat /\ arrived \in Nat /\ arrived <= Len(reply) /\ reply \in Seq(Bytes)
    BY RepliesAssumption, LenProperties DEF ClientInv, TakenIsPrefix
  <2>2. n + 1 \in 1 .. Len(reply) /\ DOMAIN reply = 1 .. Len(reply)
    BY <1>1, <2>1, LenProperties
  <2>3. reply[n + 1] \in ToSet(reply)
    BY <2>2 DEF ToSet
  <2> QED
    BY <1>1, <2>3 DEF Plain
<1>3. ~ Plain(reply)'
  BY <1>1, <1>2 DEF Plain
<1> QED
  BY <1>1, <1>3
     DEF ClientInv, TakenIsPrefix, BalanceIsDepth, RunsWhileOpen, PlainReplyTaken

\* The other steps take no byte.
LEMMA NoByteStep ==
    ASSUME ClientInv, Arrive \/ Break \/ Timeout \/ RecvReset \/ RecvEof
    PROVE  ClientInv'
<1>1. UNCHANGED <<reply, received_data, scope_balance>>
  BY DEF Arrive, Break, Timeout, RecvReset, RecvEof
<1>2. Len(received_data) \in Nat /\ Len(reply) \in Nat
  BY RepliesAssumption, LenProperties DEF ClientInv, TakenIsPrefix
<1>3. TakenIsPrefix'
  <2>1. /\ arrived' \in Nat
        /\ Len(received_data) <= arrived'
        /\ arrived' <= Len(reply)
    BY <1>2 DEF Arrive, Break, Timeout, RecvReset, RecvEof, ClientInv, TakenIsPrefix
  <2> QED
    BY <1>1, <2>1 DEF ClientInv, TakenIsPrefix
<1>4. BalanceIsDepth'
  BY <1>1 DEF ClientInv, BalanceIsDepth
<1>5. stream' = "open" => stream = "open" /\ (call' = call \/ call' = "timeout")
  BY DEF Arrive, Break, Timeout, RecvReset, RecvEof
<1> QED
  BY <1>1, <1>3, <1>4, <1>5 DEF ClientInv, RunsWhileOpen, PlainReplyTaken

\* The invariant holds of every call, however the bytes come in and whatever happens to
\* the connection.
THEOREM ClientInvariant == ClientSpec => []ClientInv
<1>1. ClientInv /\ [ClientNext]_client_vars => ClientInv'
  <2> SUFFICES ASSUME ClientInv, [ClientNext]_client_vars PROVE ClientInv'
    OBVIOUS
  <2>1. CASE UNCHANGED client_vars
    BY <2>1 DEF client_vars, ClientInv, TakenIsPrefix, BalanceIsDepth, RunsWhileOpen, PlainReplyTaken
  <2> QED
    BY <2>1, RecvByteStep, RecvWideStep, NoByteStep DEF ClientNext, RecvResult
<1> QED
  BY <1>1, InitClient, PTL DEF ClientSpec

\* For objects of any length and depth: if the strings hold no braces and only ASCII, the
\* counting client returns the object itself or times out (_test_runner.py:21-46).
THEOREM PlainRepliesTaken == ClientSpec => []PlainReplyTaken
<1>1. ClientInv => PlainReplyTaken
  BY DEF ClientInv
<1> QED
  BY <1>1, ClientInvariant, PTL

--------------------------------------------------------------------------------
(* CommandLine: the inductive invariant. *)

\* The arguments read so far may begin grammatical ones: all is in order but that a
\* valued name may be the last.
BeginsGrammatical ==
    \A k \in 1 .. Len(args) :
        /\ IsName(k) \/ IsValue(k)
        /\ IsName(k) => args[k].text \in VALUED_OPTS \union FLAG_OPTS
        /\ IsValued(k) /\ k < Len(args) => IsValue(k + 1)
        /\ IsValue(k) => k > 1 /\ IsName(k - 1) /\ \E j \in 1 .. k - 1 : IsValued(j)

\* What is expected tells what the last argument was.
ExpectsNext ==
    LET n == Len(args)
    IN  /\ expect = "value" => n > 0 /\ IsValued(n)
        /\ expect = "any" => n > 0 /\ IsName(n) /\ ~ IsValued(n)
        /\ expect = "name" /\ n > 0 => IsValue(n)

\* last_option is the valued name read last.
RemembersLast ==
    \/ last_option = NoOption /\ \A j \in 1 .. Len(args) : ~ IsValued(j)
    \/ \E j \in 1 .. Len(args) : /\ IsValued(j)
                                 /\ \A i \in j + 1 .. Len(args) : ~ IsValued(i)
                                 /\ last_option = args[j].text

\* The options set so far: the flags named, and the owners of the values.
FlagsNamed == {args[k].text : k \in {i \in 1 .. Len(args) : IsName(i) /\ ~ IsValued(i)}}
Valued     == {Owner(k) : k \in {i \in 1 .. Len(args) : IsValue(i)}}
SetSoFar   == FlagsNamed \union Valued

OptionsSoFar ==
    current_options_ = [o \in DOMAIN before \union SetSoFar |->
                          IF o \in SetSoFar THEN Given(o) ELSE before[o]]

ParseInv == /\ BeginsGrammatical
            /\ ExpectsNext
            /\ RemembersLast
            /\ OptionsSoFar

OptionsAreFunction == current_options_ = [o \in DOMAIN current_options_ |-> current_options_[o]]

CommandInv == /\ CommandTypeOK
              /\ OptionsAreFunction
              /\ outcome = "parsing" => ParseInv
              /\ ParserFollowsGrammar

--------------------------------------------------------------------------------
(* CommandLine: lemmas. *)

\* The last of finitely many places.
LEMMA LastPlace ==
    ASSUME NEW n \in Nat, NEW S \in SUBSET (1 .. n), S # {}
    PROVE  Max(S) \in S /\ \A a \in S : a <= Max(S)
<1> DEFINE T == {n - a : a \in S}
           m == Min(T)
<1>1. T \in SUBSET Nat /\ T # {}
  <2>1. \A a \in S : n - a \in Nat
    OBVIOUS
  <2> QED
    BY <2>1
<1>2. m \in T /\ \A b \in T : m <= b
  BY <1>1, FirstPlace
<1> HIDE DEF m
<1>3. PICK a \in S : m = n - a
  BY <1>2
<1>4. \A b \in S : b <= a
  <2> SUFFICES ASSUME NEW b \in S PROVE b <= a
    OBVIOUS
  <2>1. m <= n - b
    BY <1>2
  <2>2. a \in Int /\ b \in Int
    OBVIOUS
  <2> QED
    BY <1>3, <2>1, <2>2
<1>5. \A b \in S : a >= b
  BY <1>4
<1>6. Max(S) \in S /\ \A b \in S : Max(S) >= b
  BY <1>5 DEF Max
<1> QED
  BY <1>6

LEMMA TheLastPlace ==
    ASSUME NEW n \in Nat, NEW S \in SUBSET (1 .. n), NEW m \in S, \A a \in S : a <= m
    PROVE  Max(S) = m
<1> DEFINE x == Max(S)
<1>1. x \in S /\ m <= x
  BY LastPlace
<1> HIDE DEF x
<1>2. x \in Int /\ m \in Int
  BY <1>1
<1>3. x <= m
  BY <1>1, Zenon
<1>4. x = m
  BY <1>1, <1>2, <1>3
<1> QED
  BY <1>4 DEF x

\* The k-th argument is taken for what it was.
SameRole(k) == /\ args'[k] = args[k]
               /\ IsName(k)' = IsName(k)
               /\ IsValue(k)' = IsValue(k)
               /\ IsValued(k)' = IsValued(k)
               /\ (\E j \in 1 .. k - 1 : IsValued(j)) => Owner(k)' = Owner(k)

\* One more argument is read: what is said of the others stays.
LEMMA ArgumentRead ==
    ASSUME CommandTypeOK, NEW t \in Token, args' = Append(args, t), NEW n, n = Len(args)
    PROVE  /\ n \in Nat
           /\ args' \in Seq(Token)
           /\ Len(args') = n + 1
           /\ args'[n + 1] = t
           /\ \A k \in 1 .. n : SameRole(k)
           /\ IsName(n + 1)' = (t.type = "OPTION_NAME")
           /\ IsValue(n + 1)' = (t.type = "OPTION_VALUE")
           /\ IsValued(n + 1)' = (t.type = "OPTION_NAME" /\ t.text \in VALUED_OPTS)
<1>1. args \in Seq(Token) /\ n \in Nat
  BY LenProperties DEF CommandTypeOK
<1>2. /\ args' \in Seq(Token)
      /\ Len(args') = n + 1
      /\ args'[n + 1] = t
      /\ \A k \in 1 .. n : args'[k] = args[k]
  BY <1>1, AppendProperties
<1>3. \A k \in 1 .. n : /\ IsName(k)' = IsName(k)
                        /\ IsValue(k)' = IsValue(k)
                        /\ IsValued(k)' = IsValued(k)
  BY <1>2 DEF IsName, IsValue, IsValued
<1>4. ASSUME NEW k \in 1 .. n, NEW i \in 1 .. k - 1, IsValued(i)
      PROVE  Owner(k)' = Owner(k)
  <2> DEFINE S == {j \in 1 .. k - 1 : IsValued(j)}
  <2>1. \A j \in 1 .. k - 1 : j \in 1 .. n
    BY <1>1
  <2>2. {j \in 1 .. k - 1 : IsValued(j)'} = S
    BY <1>3, <2>1
  <2>3. k - 1 \in Nat /\ S \in SUBSET (1 .. k - 1) /\ S # {}
    BY <1>1, <1>4
  <2>4. Max(S) \in 1 .. n
    BY <2>1, <2>3, LastPlace
  <2>5. Owner(k)' = args'[Max(S)].text
    BY <2>2 DEF Owner
  <2>6. Owner(k) = args[Max(S)].text
    BY DEF Owner
  <2> QED
    BY <1>2, <2>4, <2>5, <2>6
<1>5. /\ IsName(n + 1)' = (t.type = "OPTION_NAME")
      /\ IsValue(n + 1)' = (t.type = "OPTION_VALUE")
      /\ IsValued(n + 1)' = (t.type = "OPTION_NAME" /\ t.text \in VALUED_OPTS)
  BY <1>2 DEF IsName, IsValue, IsValued
<1>6. ASSUME NEW k \in 1 .. n PROVE SameRole(k)
  BY <1>2, <1>3, <1>4 DEF SameRole
<1> QED
  BY <1>1, <1>2, <1>5, <1>6

\* A value has its owner before it, which is a valued option; and what is set is a flag
\* that was named or a valued option with its value.
LEMMA OwnersAreValued ==
    ASSUME CommandTypeOK, BeginsGrammatical
    PROVE  /\ \A k \in 1 .. Len(args) :
                 IsValue(k) => /\ \E j \in 1 .. k - 1 : IsValued(j)
                               /\ Owner(k) \in VALUED_OPTS
           /\ FlagsNamed \subseteq FLAG_OPTS
           /\ Valued \subseteq VALUED_OPTS
<1>1. ASSUME NEW k \in 1 .. Len(args), IsValue(k)
      PROVE  /\ \E j \in 1 .. k - 1 : IsValued(j)
             /\ Owner(k) \in VALUED_OPTS
  <2>1. \E j \in 1 .. k - 1 : IsValued(j)
    BY <1>1 DEF BeginsGrammatical
  <2> DEFINE S == {j \in 1 .. k - 1 : IsValued(j)}
  <2>2. k - 1 \in Nat /\ S \in SUBSET (1 .. k - 1) /\ S # {}
    BY <2>1
  <2>3. IsValued(Max(S))
    BY <2>2, LastPlace
  <2> QED
    BY <2>1, <2>3 DEF Owner, IsValued
<1>2. \A k \in 1 .. Len(args) : IsName(k) /\ ~ IsValued(k) => args[k].text \in FLAG_OPTS
  BY DEF BeginsGrammatical, IsValued
<1> QED
  BY <1>1, <1>2 DEF FlagsNamed, Valued

\* What one more argument does to the options set so far.
LEMMA SetsGrow ==
    ASSUME CommandTypeOK, BeginsGrammatical, NEW t \in Token, args' = Append(args, t),
           NEW n, n = Len(args)
    PROVE  /\ FlagsNamed' = FlagsNamed \union
                 IF IsName(n + 1)' /\ ~ IsValued(n + 1)' THEN {t.text} ELSE {}
           /\ Valued' = Valued \union IF IsValue(n + 1)' THEN {Owner(n + 1)'} ELSE {}
<1>1. /\ n \in Nat /\ Len(args') = n + 1 /\ args'[n + 1] = t
      /\ \A k \in 1 .. n : SameRole(k)
  BY ArgumentRead
<1>2. 1 .. n + 1 = (1 .. n) \union {n + 1}
  BY <1>1
<1>3. \A k \in 1 .. n : /\ args'[k] = args[k]
                        /\ IsName(k)' = IsName(k)
                        /\ IsValue(k)' = IsValue(k)
                        /\ IsValued(k)' = IsValued(k)
  BY <1>1 DEF SameRole
<1>4. \A k \in 1 .. n : IsValue(k) => Owner(k)' = Owner(k)
  BY <1>1, OwnersAreValued DEF SameRole
<1>5. FlagsNamed' = FlagsNamed \union
         IF IsName(n + 1)' /\ ~ IsValued(n + 1)' THEN {t.text} ELSE {}
  BY <1>1, <1>2, <1>3 DEF FlagsNamed
<1>6. Valued' = Valued \union IF IsValue(n + 1)' THEN {Owner(n + 1)'} ELSE {}
  BY <1>1, <1>2, <1>3, <1>4 DEF Valued
<1> QED
  BY <1>5, <1>6

\* Who is not given a value by the argument keeps the one it has.
LEMMA GivenKept ==
    ASSUME CommandTypeOK, BeginsGrammatical, NEW t \in Token, args' = Append(args, t),
           NEW n, n = Len(args), NEW o \in SetSoFar,
           IsValue(n + 1)' => Owner(n + 1)' # o
    PROVE  Given(o)' = Given(o)
<1> DEFINE V == {k \in 1 .. n : IsValue(k) /\ Owner(k) = o}
<1>1. CASE o \in FLAG_OPTS
  BY <1>1 DEF Given
<1>2. CASE o \notin FLAG_OPTS
  <2>1. /\ n \in Nat /\ Len(args') = n + 1 /\ args' \in Seq(Token) /\ args \in Seq(Token)
        /\ \A k \in 1 .. n : SameRole(k)
    BY ArgumentRead DEF CommandTypeOK
  <2>2. DOMAIN args = 1 .. n /\ DOMAIN args' = 1 .. n + 1
    BY <2>1, LenProperties
  <2>3. \A k \in 1 .. n : args'[k] = args[k] /\ IsValue(k)' = IsValue(k)
    BY <2>1 DEF SameRole
  <2>4. {k \in 1 .. n + 1 : IsValue(k)' /\ Owner(k)' = o} = V
    <3>1. \A k \in 1 .. n : IsValue(k) => \E j \in 1 .. k - 1 : IsValued(j)
      BY OwnersAreValued
    <3>2. \A k \in 1 .. n : IsValue(k) => Owner(k)' = Owner(k)
      BY <2>1, <3>1 DEF SameRole
    <3> QED
      BY <2>1, <2>3, <3>2
  <2>5. V \in SUBSET (1 .. n) /\ V # {}
    BY <1>2, OwnersAreValued DEF SetSoFar, Valued
  <2>6. Max(V) \in 1 .. n
    BY <2>1, <2>5, LastPlace
  <2>7. Given(o) = args[Max(V)].text
    BY <1>2, <2>2 DEF Given
  <2>8. Given(o)' = args'[Max(V)].text
    BY <1>2, <2>2, <2>4 DEF Given
  <2> QED
    BY <2>3, <2>6, <2>7, <2>8
<1> QED
  BY <1>1, <1>2

\* The next argument is in order if it is what is expected.
LEMMA GrammarGrows ==
    ASSUME CommandTypeOK, BeginsGrammatical, ExpectsNext, RemembersLast,
           NEW t \in Token, args' = Append(args, t), NEW n, n = Len(args),
           \/ /\ t.type = "OPTION_NAME" /\ expect # "value"
              /\ t.text \in VALUED_OPTS \union FLAG_OPTS
           \/ t.type = "OPTION_VALUE" /\ expect # "name" /\ last_option # NoOption
    PROVE  BeginsGrammatical'
<1>1. /\ n \in Nat /\ Len(args') = n + 1 /\ args'[n + 1] = t
      /\ \A k \in 1 .. n : SameRole(k)
      /\ IsName(n + 1)' = (t.type = "OPTION_NAME")
      /\ IsValue(n + 1)' = (t.type = "OPTION_VALUE")
      /\ IsValued(n + 1)' = (t.type = "OPTION_NAME" /\ t.text \in VALUED_OPTS)
  BY ArgumentRead
<1>2. \A k \in 1 .. n : /\ args'[k] = args[k]
                        /\ IsName(k)' = IsName(k)
                        /\ IsValue(k)' = IsValue(k)
                        /\ IsValued(k)' = IsValued(k)
  BY <1>1 DEF SameRole
<1>3. expect \in {"name", "value", "any"}
  BY DEF CommandTypeOK
<1> SUFFICES ASSUME NEW k \in 1 .. n + 1
             PROVE  /\ IsName(k)' \/ IsValue(k)'
                    /\ IsName(k)' => args'[k].text \in VALUED_OPTS \union FLAG_OPTS
                    /\ IsValued(k)' /\ k < n + 1 => IsValue(k + 1)'
                    /\ IsValue(k)' => k > 1 /\ IsName(k - 1)' /\ \E j \in 1 .. k - 1 : IsValued(j)'
  BY <1>1 DEF BeginsGrammatical
<1>7. ASSUME k \in 1 .. n
      PROVE  /\ IsName(k)' \/ IsValue(k)'
             /\ IsName(k)' => args'[k].text \in VALUED_OPTS \union FLAG_OPTS
             /\ IsValue(k)' => k > 1 /\ IsName(k - 1)' /\ \E j \in 1 .. k - 1 : IsValued(j)'
  <2>1. /\ IsName(k) \/ IsValue(k)
        /\ IsName(k) => args[k].text \in VALUED_OPTS \union FLAG_OPTS
        /\ IsValue(k) => k > 1 /\ IsName(k - 1) /\ \E j \in 1 .. k - 1 : IsValued(j)
    BY <1>7 DEF BeginsGrammatical
  <2>2. ASSUME k > 1, IsName(k - 1), NEW j \in 1 .. k - 1, IsValued(j)
        PROVE  IsName(k - 1)' /\ IsValued(j)'
    BY <1>1, <1>2, <1>7, <2>2
  <2> QED
    BY <1>2, <1>7, <2>1, <2>2
<1>4. CASE k = n + 1
  <2>1. /\ IsName(k)' \/ IsValue(k)'
        /\ IsName(k)' => args'[k].text \in VALUED_OPTS \union FLAG_OPTS
    BY <1>1, <1>4 DEF IsName, IsValue
  <2>2. ASSUME IsValue(k)'
        PROVE  k > 1 /\ IsName(k - 1)' /\ \E j \in 1 .. k - 1 : IsValued(j)'
    <3>1. expect # "name" /\ last_option # NoOption
      BY <1>1, <1>4, <2>2 DEF IsValue
    <3>2. n > 0 /\ IsName(n)
      BY <1>3, <3>1 DEF ExpectsNext, IsValued
    <3>3. \E j \in 1 .. n : IsValued(j)
      BY <3>1 DEF RemembersLast
    <3> QED
      BY <1>1, <1>2, <1>4, <3>2, <3>3
  <2> QED
    BY <1>1, <1>4, <2>1, <2>2
<1>5. CASE k = n
  <2>1. k \in 1 .. n
    BY <1>1, <1>5
  <2>2. IsValued(k)' => IsValue(k + 1)'
    <3> SUFFICES ASSUME IsValued(k) PROVE t.type = "OPTION_VALUE"
      BY <1>1, <1>2, <1>5, <2>1 DEF IsValue
    <3>1. expect = "value"
      BY <1>3, <1>5, <2>1 DEF ExpectsNext, IsValued, IsName, IsValue
    <3> QED
      BY <3>1
  <2> QED
    BY <1>7, <2>1, <2>2
<1>6. CASE k < n
  <2>1. k \in 1 .. n /\ k + 1 \in 1 .. n
    BY <1>1, <1>6
  <2>2. IsValued(k)' => IsValue(k + 1)'
    BY <1>2, <1>6, <2>1 DEF BeginsGrammatical
  <2> QED
    BY <1>7, <2>1, <2>2
<1> QED
  BY <1>1, <1>4, <1>5, <1>6

\* A flag or a value sets its option, the others stay as they are.
LEMMA OptionPut ==
    ASSUME OptionsSoFar, NEW name, NEW value, PutOption(name, value), UNCHANGED before,
           SetSoFar' = SetSoFar \union {name},
           Given(name)' = value,
           \A o \in SetSoFar \ {name} : Given(o)' = Given(o)
    PROVE  OptionsSoFar'
<1> DEFINE dom == DOMAIN before \union SetSoFar
<1>1. DOMAIN current_options_ = dom
  BY DEF OptionsSoFar
<1>2. \A o \in dom : current_options_[o] = IF o \in SetSoFar THEN Given(o) ELSE before[o]
  BY DEF OptionsSoFar
<1>3. current_options_' = [o \in dom \union {name} |->
                             IF o = name THEN value ELSE current_options_[o]]
  BY <1>1 DEF PutOption
<1>4. \A o \in dom \union {name} :
         (IF o = name THEN value ELSE current_options_[o])
            = IF o \in SetSoFar \union {name} THEN Given(o)' ELSE before[o]
  BY <1>2
<1>5. dom \union {name} = DOMAIN before \union (SetSoFar \union {name})
  OBVIOUS
<1>6. current_options_' = [o \in DOMAIN before \union (SetSoFar \union {name}) |->
                             IF o \in SetSoFar \union {name} THEN Given(o)' ELSE before[o]]
  BY <1>3, <1>4, <1>5
<1> QED
  BY <1>6 DEF OptionsSoFar

--------------------------------------------------------------------------------
(* CommandLine: the steps. *)

\* An option that is set keeps the types.
OptionStep == \/ UNCHANGED current_options_
              \/ \E o, v : /\ PutOption(o, v)
                           /\ \/ o \in FLAG_OPTS /\ v = ""
                              \/ o \in VALUED_OPTS /\ v \in Values

LEMMA TypesKept ==
    ASSUME CommandInv, args' \in Seq(Token), UNCHANGED before, OptionStep,
           expect' \in {"name", "value", "any"},
           last_option' \in VALUED_OPTS \union {NoOption},
           outcome' \in {"none", "parsing", "threw", "length_error"}
    PROVE  CommandTypeOK' /\ OptionsAreFunction'
<1>1. CommandTypeOK /\ OptionsAreFunction
  BY DEF CommandInv
<1>2. CASE UNCHANGED current_options_
  BY <1>1, <1>2 DEF CommandTypeOK, OptionsAreFunction
<1>3. ASSUME NEW o, NEW v, PutOption(o, v),
             \/ o \in FLAG_OPTS /\ v = ""
             \/ o \in VALUED_OPTS /\ v \in Values
      PROVE  CommandTypeOK' /\ OptionsAreFunction'
  <2>1. /\ DOMAIN current_options_' = DOMAIN current_options_ \union {o}
        /\ current_options_'[o] = v
        /\ \A x \in DOMAIN current_options_ : x # o => current_options_'[x] = current_options_[x]
    BY <1>3 DEF PutOption
  <2>2. OptionsAreFunction'
    <3> DEFINE D == DOMAIN current_options_ \union {o}
               F(x) == IF x = o THEN v ELSE current_options_[x]
    <3>1. current_options_' = [x \in D |-> F(x)]
      BY <1>3 DEF PutOption
    <3> HIDE DEF D, F
    <3>2. LET f == [x \in D |-> F(x)] IN f = [x \in DOMAIN f |-> f[x]]
      OBVIOUS
    <3> QED
      BY <3>1, <3>2, Zenon DEF OptionsAreFunction
  <2>3. \A x \in DOMAIN current_options_' :
           \/ x \in FLAG_OPTS /\ current_options_'[x] = ""
           \/ x \in VALUED_OPTS /\ current_options_'[x] \in Values
    BY <1>1, <1>3, <2>1 DEF CommandTypeOK
  <2>4. DOMAIN before' \subseteq DOMAIN current_options_'
    BY <1>1, <2>1 DEF CommandTypeOK
  <2> QED
    BY <2>2, <2>3, <2>4 DEF CommandTypeOK
<1> QED
  BY <1>2, <1>3, Zenon DEF OptionStep

\* An argument that is read keeps them too.
LEMMA TypesRead ==
    ASSUME CommandInv, NEW t \in Token, args' = Append(args, t), UNCHANGED before, OptionStep,
           expect' \in {"name", "value", "any"},
           last_option' \in VALUED_OPTS \union {NoOption},
           outcome' \in {"parsing", "threw", "length_error"}
    PROVE  CommandTypeOK' /\ OptionsAreFunction'
<1>1. args' \in Seq(Token)
  BY ArgumentRead DEF CommandInv
<1> QED
  BY <1>1, TypesKept

\* A start that throws at an argument.
LEMMA ThrownAt ==
    ASSUME CommandTypeOK', OptionsAreFunction', outcome' \in {"threw", "length_error"},
           ~ Grammatical'
    PROVE  CommandInv'
BY DEF CommandInv, ParserFollowsGrammar

\* The parser refuses only what is not in order.
LEMMA RefusalStep ==
    ASSUME CommandInv, NEW t \in Token, BadToken(t) \/ UnexpectedToken(t) \/ UnknownOption(t)
    PROVE  CommandInv'
<1>1. /\ outcome = "parsing" /\ args' = Append(args, t)
      /\ UNCHANGED <<expect, last_option, current_options_, before>>
      /\ outcome' \in {"threw", "length_error"}
  BY DEF BadToken, UnexpectedToken, UnknownOption, Read, Reject
<1>2. CommandTypeOK /\ ExpectsNext
  BY <1>1 DEF CommandInv, ParseInv
<1>3. CommandTypeOK' /\ OptionsAreFunction'
  BY <1>1, <1>2, TypesRead DEF CommandTypeOK, OptionStep
<1>4. PICK n : n = Len(args)
  OBVIOUS
<1>5. /\ n \in Nat /\ Len(args') = n + 1 /\ args'[n + 1] = t /\ args' \in Seq(Token)
      /\ \A k \in 1 .. n : SameRole(k)
      /\ IsName(n + 1)' = (t.type = "OPTION_NAME")
      /\ IsValue(n + 1)' = (t.type = "OPTION_VALUE")
  BY <1>1, <1>2, <1>4, ArgumentRead
<1>6. DOMAIN args' = 1 .. n + 1 /\ n + 1 \in 1 .. n + 1
  BY <1>5, LenProperties
<1>7. CASE BadToken(t)
  <2>1. t.type \notin {"OPTION_NAME", "OPTION_VALUE"}
    BY <1>7 DEF BadToken
  <2> QED
    BY <1>1, <1>3, <1>5, <1>6, <2>1, ThrownAt DEF Grammatical
<1>8. CASE UnknownOption(t)
  <2>1. IsName(n + 1)' /\ args'[n + 1].text \notin VALUED_OPTS \union FLAG_OPTS
    BY <1>5, <1>8 DEF UnknownOption
  <2> QED
    BY <1>1, <1>3, <1>6, <2>1, ThrownAt DEF Grammatical
<1>9. CASE t.type = "OPTION_NAME" /\ ~ Expected("name")
  <2>1. n > 0 /\ IsValued(n)
    BY <1>2, <1>4, <1>9 DEF CommandTypeOK, ExpectsNext, Expected
  <2>2. n \in 1 .. n /\ n \in 1 .. n + 1
    BY <1>5, <2>1
  <2>3. IsValued(n)' /\ ~ IsValue(n + 1)'
    BY <1>5, <1>9, <2>1, <2>2 DEF SameRole
  <2> QED
    BY <1>1, <1>3, <1>6, <2>2, <2>3, ThrownAt DEF Grammatical
<1>10. CASE t.type = "OPTION_VALUE" /\ ~ Expected("value")
  <2>1. n > 0 => IsValue(n)
    BY <1>2, <1>4, <1>10 DEF CommandTypeOK, ExpectsNext, Expected
  <2>2. IsValue(n + 1)'
    BY <1>5, <1>10
  <2>3. n > 0 => ~ IsName(n)'
    <3> SUFFICES ASSUME n > 0 PROVE ~ IsName(n)'
      OBVIOUS
    <3>1. n \in 1 .. n
      BY <1>5
    <3>2. ~ IsName(n)
      BY <2>1 DEF IsName, IsValue
    <3> QED
      BY <1>5, <3>1, <3>2 DEF SameRole
  <2>4. ~ (n + 1 > 1 /\ IsName((n + 1) - 1)')
    <3>1. (n + 1) - 1 = n
      BY <1>5
    <3> QED
      BY <1>5, <2>3, <3>1 DEF IsName
  <2> QED
    BY <1>1, <1>3, <1>6, <2>2, <2>4, ThrownAt DEF Grammatical
<1> QED
  BY <1>7, <1>8, <1>9, <1>10 DEF UnexpectedToken

\* An argument that is taken leaves the start parsing.
LEMMA StillParses ==
    ASSUME CommandTypeOK', OptionsAreFunction', outcome' = "parsing", ParseInv'
    PROVE  CommandInv'
BY DEF CommandInv, ParserFollowsGrammar

\* last_option stays the valued name read last when the argument is none.
LEMMA StillRemembers ==
    ASSUME CommandTypeOK, RemembersLast, NEW t \in Token, args' = Append(args, t),
           NEW n, n = Len(args), ~ IsValued(n + 1)', UNCHANGED last_option
    PROVE  RemembersLast'
<1>1. n \in Nat /\ Len(args') = n + 1 /\ \A k \in 1 .. n : SameRole(k)
  BY ArgumentRead
<1>2. \A k \in 1 .. n : args'[k] = args[k] /\ IsValued(k)' = IsValued(k)
  BY <1>1 DEF SameRole
<1>3. \A k \in 1 .. n + 1 : k \in 1 .. n \/ k = n + 1
  BY <1>1
<1>4. CASE last_option = NoOption /\ \A j \in 1 .. n : ~ IsValued(j)
  <2>1. \A j \in 1 .. n + 1 : ~ IsValued(j)'
    BY <1>2, <1>3, <1>4 DEF IsValued, IsName
  <2> QED
    BY <1>1, <1>4, <2>1 DEF RemembersLast
<1>5. CASE \E j \in 1 .. n : /\ IsValued(j)
                             /\ \A i \in j + 1 .. n : ~ IsValued(i)
                             /\ last_option = args[j].text
  <2>1. PICK j \in 1 .. n : /\ IsValued(j)
                            /\ \A i \in j + 1 .. n : ~ IsValued(i)
                            /\ last_option = args[j].text
    BY <1>5
  <2>2. j \in 1 .. n + 1 /\ IsValued(j)' /\ last_option' = args'[j].text
    BY <1>1, <1>2, <2>1
  <2>3. ASSUME NEW i \in j + 1 .. n + 1 PROVE ~ IsValued(i)'
    <3>1. i \in 1 .. n + 1
      BY <1>1
    <3>2. CASE i = n + 1
      BY <3>2 DEF IsValued, IsName
    <3>3. CASE i \in 1 .. n
      BY <1>2, <2>1, <3>3
    <3> QED
      BY <1>3, <3>1, <3>2, <3>3
  <2> QED
    BY <1>1, <2>2, <2>3 DEF RemembersLast
<1> QED
  BY <1>4, <1>5 DEF RemembersLast

LEMMA FlagStep ==
    ASSUME CommandInv, NEW t \in Token, Flag(t)
    PROVE  CommandInv'
<1>1. /\ outcome = "parsing" /\ args' = Append(args, t)
      /\ t.type = "OPTION_NAME" /\ expect # "value" /\ t.text \in FLAG_OPTS
      /\ PutOption(t.text, "") /\ outcome' = "parsing" /\ expect' = "any"
      /\ UNCHANGED <<last_option, before>>
  BY DEF Flag, Read, Expected, Set, AfterFlag
<1>2. CommandTypeOK /\ BeginsGrammatical /\ ExpectsNext /\ RemembersLast /\ OptionsSoFar
  BY <1>1 DEF CommandInv, ParseInv
<1>3. CommandTypeOK' /\ OptionsAreFunction'
  <2>1. OptionStep
    BY <1>1 DEF OptionStep
  <2> QED
    BY <1>1, <1>2, <2>1, TypesRead DEF CommandTypeOK, OptionStep
<1>4. PICK n : n = Len(args)
  OBVIOUS
<1>5. /\ n \in Nat /\ Len(args') = n + 1
      /\ IsName(n + 1)' /\ ~ IsValue(n + 1)' /\ ~ IsValued(n + 1)'
  BY <1>1, <1>2, <1>4, ArgumentRead, OptionsAssumption
<1>6. BeginsGrammatical'
  BY <1>1, <1>2, <1>4, GrammarGrows
<1>7. ExpectsNext'
  <2>1. Len(args') > 0
    BY <1>5
  <2> QED
    BY <1>1, <1>5, <2>1 DEF ExpectsNext, IsName, IsValued
<1>8. RemembersLast'
  BY <1>1, <1>2, <1>4, <1>5, StillRemembers
<1>9. OptionsSoFar'
  <2>1. FlagsNamed' = FlagsNamed \union {t.text} /\ Valued' = Valued
    BY <1>1, <1>2, <1>4, <1>5, SetsGrow
  <2>2. SetSoFar' = SetSoFar \union {t.text}
    BY <2>1 DEF SetSoFar
  <2>3. Given(t.text)' = ""
    BY <1>1 DEF Given
  <2>4. \A o \in SetSoFar : Given(o)' = Given(o)
    BY <1>1, <1>2, <1>4, <1>5, GivenKept
  <2> QED
    BY <1>1, <1>2, <2>2, <2>3, <2>4, OptionPut
<1> QED
  BY <1>1, <1>3, <1>6, <1>7, <1>8, <1>9, StillParses DEF ParseInv

LEMMA ValuedNameStep ==
    ASSUME CommandInv, NEW t \in Token, ValuedName(t)
    PROVE  CommandInv'
<1>1. /\ outcome = "parsing" /\ args' = Append(args, t)
      /\ t.type = "OPTION_NAME" /\ expect # "value" /\ t.text \in VALUED_OPTS
      /\ expect' = "value" /\ last_option' = t.text
      /\ UNCHANGED <<current_options_, outcome, before>>
  BY DEF ValuedName, Read, Expected
<1>2. CommandTypeOK /\ BeginsGrammatical /\ ExpectsNext /\ RemembersLast /\ OptionsSoFar
  BY <1>1 DEF CommandInv, ParseInv
<1>3. CommandTypeOK' /\ OptionsAreFunction'
  BY <1>1, <1>2, TypesRead DEF CommandTypeOK, OptionStep
<1>4. PICK n : n = Len(args)
  OBVIOUS
<1>5. /\ n \in Nat /\ Len(args') = n + 1 /\ args'[n + 1] = t
      /\ IsName(n + 1)' /\ ~ IsValue(n + 1)' /\ IsValued(n + 1)'
  BY <1>1, <1>2, <1>4, ArgumentRead
<1>6. BeginsGrammatical'
  BY <1>1, <1>2, <1>4, GrammarGrows
<1>7. ExpectsNext'
  <2>1. Len(args') > 0
    BY <1>5
  <2> QED
    BY <1>1, <1>5, <2>1 DEF ExpectsNext, IsName, IsValued
<1>8. RemembersLast'
  <2>1. n + 1 \in 1 .. n + 1 /\ \A i \in (n + 1) + 1 .. n + 1 : FALSE
    BY <1>5
  <2>2. last_option' = args'[n + 1].text
    BY <1>1, <1>5
  <2> QED
    BY <1>5, <2>1, <2>2 DEF RemembersLast
<1>9. OptionsSoFar'
  <2>1. FlagsNamed' = FlagsNamed /\ Valued' = Valued
    BY <1>1, <1>2, <1>4, <1>5, SetsGrow
  <2>2. SetSoFar' = SetSoFar
    BY <2>1 DEF SetSoFar
  <2>3. \A o \in SetSoFar : Given(o)' = Given(o)
    BY <1>1, <1>2, <1>4, <1>5, GivenKept
  <2> QED
    BY <1>1, <1>2, <2>2, <2>3 DEF OptionsSoFar
<1> QED
  BY <1>1, <1>3, <1>6, <1>7, <1>8, <1>9, StillParses DEF ParseInv

\* A value goes to the last valued name; without one the arguments are not in order.
LEMMA ValueStep ==
    ASSUME CommandInv, NEW t \in Token, Value(t)
    PROVE  CommandInv'
<1>1. /\ outcome = "parsing" /\ args' = Append(args, t)
      /\ t.type = "OPTION_VALUE" /\ expect # "name" /\ expect' = "name"
      /\ Set(VALUED_OPTS, last_option, t.text, "parsing")
      /\ UNCHANGED <<last_option, before>>
  BY DEF Value, Read, Expected
<1>2. CommandTypeOK /\ BeginsGrammatical /\ ExpectsNext /\ RemembersLast /\ OptionsSoFar
  BY <1>1 DEF CommandInv, ParseInv
<1>3. PICK n : n = Len(args)
  OBVIOUS
<1>4. /\ n \in Nat /\ Len(args') = n + 1 /\ args'[n + 1] = t /\ args' \in Seq(Token)
      /\ \A k \in 1 .. n : SameRole(k)
      /\ ~ IsName(n + 1)' /\ IsValue(n + 1)' /\ ~ IsValued(n + 1)'
  BY <1>1, <1>2, <1>3, ArgumentRead
<1>5. DOMAIN args' = 1 .. n + 1 /\ n + 1 \in 1 .. n + 1
  BY <1>4, LenProperties
<1>6. \A k \in 1 .. n : args'[k] = args[k] /\ IsValued(k)' = IsValued(k)
  BY <1>4 DEF SameRole
<1>7. t.text \in Values
  BY <1>1 DEF Token
<1>8. CASE last_option \in VALUED_OPTS
  <2>1. PutOption(last_option, t.text) /\ outcome' = "parsing"
    BY <1>1, <1>8 DEF Set
  <2>2. last_option # NoOption
    BY <1>8, OptionsAssumption DEF NoOption
  <2>3. CommandTypeOK' /\ OptionsAreFunction'
    <3>1. OptionStep
      BY <1>7, <1>8, <2>1 DEF OptionStep
    <3> QED
      BY <1>1, <1>2, <2>1, <3>1, TypesRead DEF CommandTypeOK, OptionStep
  <2>4. BeginsGrammatical'
    BY <1>1, <1>2, <1>3, <2>2, GrammarGrows
  <2>5. ExpectsNext'
    BY <1>1, <1>4 DEF ExpectsNext, IsValue
  <2>6. RemembersLast'
    BY <1>1, <1>2, <1>3, <1>4, StillRemembers
  <2>7. Owner(n + 1)' = last_option
    <3>1. PICK j \in 1 .. n : /\ IsValued(j)
                              /\ \A i \in j + 1 .. n : ~ IsValued(i)
                              /\ last_option = args[j].text
      BY <1>2, <1>3, <2>2 DEF RemembersLast
    <3> DEFINE S == {i \in 1 .. n : IsValued(i)}
    <3>2. j \in S /\ S \in SUBSET (1 .. n) /\ \A a \in S : a <= j
      BY <1>4, <3>1
    <3>3. Max(S) = j
      BY <1>4, <3>2, TheLastPlace
    <3>4. {i \in 1 .. (n + 1) - 1 : IsValued(i)'} = S
      <4>1. (n + 1) - 1 = n
        BY <1>4
      <4> QED
        BY <1>6, <4>1
    <3>5. Owner(n + 1)' = args'[Max(S)].text
      BY <3>4 DEF Owner
    <3> QED
      BY <1>6, <3>1, <3>3, <3>5
  <2>8. OptionsSoFar'
    <3>1. FlagsNamed' = FlagsNamed /\ Valued' = Valued \union {last_option}
      BY <1>1, <1>2, <1>3, <1>4, <2>7, SetsGrow
    <3>2. SetSoFar' = SetSoFar \union {last_option}
      BY <3>1 DEF SetSoFar
    <3>3. Given(last_option)' = t.text
      <4> DEFINE V == {k \in 1 .. n + 1 : IsValue(k)' /\ Owner(k)' = last_option}
      <4>1. n + 1 \in V /\ V \in SUBSET (1 .. n + 1) /\ n + 1 \in Nat
        BY <1>4, <1>5, <2>7
      <4>2. \A a \in V : a <= n + 1
        BY <1>4
      <4>3. Max(V) = n + 1
        BY <4>1, <4>2, TheLastPlace
      <4>4. last_option \notin FLAG_OPTS
        BY <1>8, OptionsAssumption
      <4>5. \A o : o \notin FLAG_OPTS =>
               Given(o)' = args'[Max({k \in 1 .. n + 1 : IsValue(k)' /\ Owner(k)' = o})].text
        BY <1>5 DEF Given
      <4>6. Given(last_option)' = args'[Max(V)].text
        BY <1>1, <4>4, <4>5
      <4> QED
        BY <1>4, <4>3, <4>6
    <3>4. \A o \in SetSoFar \ {last_option} : Given(o)' = Given(o)
      BY <1>1, <1>2, <1>3, <1>4, <2>7, GivenKept
    <3> QED
      BY <1>1, <1>2, <2>1, <3>2, <3>3, <3>4, OptionPut
  <2> QED
    BY <2>1, <2>3, <2>4, <2>5, <2>6, <2>8, StillParses DEF ParseInv
<1>9. CASE last_option = NoOption
  <2>1. last_option \notin VALUED_OPTS
    BY <1>9, OptionsAssumption DEF NoOption
  <2>2. outcome' = "threw" /\ UNCHANGED current_options_
    BY <1>1, <2>1 DEF Set
  <2>3. CommandTypeOK' /\ OptionsAreFunction'
    BY <1>1, <1>2, <2>2, TypesRead DEF CommandTypeOK, OptionStep
  <2>4. \A j \in 1 .. n : ~ IsValued(j)
    <3>1. \A j \in 1 .. n : IsValued(j) => args[j].text \in VALUED_OPTS
      BY DEF IsValued
    <3> QED
      BY <1>2, <1>3, <2>1, <3>1 DEF RemembersLast
  <2>5. ~ \E j \in 1 .. (n + 1) - 1 : IsValued(j)'
    <3>1. (n + 1) - 1 = n
      BY <1>4
    <3> QED
      BY <1>6, <2>4, <3>1
  <2> QED
    BY <1>4, <1>5, <2>2, <2>3, <2>5, ThrownAt DEF Grammatical
<1> QED
  BY <1>2, <1>8, <1>9 DEF CommandTypeOK

\* At the end, with grammatical arguments, what is set is what is named.
LEMMA NamedIsSet ==
    ASSUME CommandTypeOK, Grammatical
    PROVE  SetSoFar = Named
<1> DEFINE n == Len(args)
<1>1. DOMAIN args = 1 .. n /\ n \in Nat
  BY LenProperties DEF CommandTypeOK
<1>2. BeginsGrammatical
  BY <1>1 DEF Grammatical, BeginsGrammatical
<1>3. ASSUME NEW k \in 1 .. n, IsValue(k) PROVE Owner(k) \in Named
  <2> DEFINE S == {j \in 1 .. k - 1 : IsValued(j)}
  <2>1. k - 1 \in Nat /\ S \in SUBSET (1 .. k - 1) /\ S # {}
    BY <1>2, <1>3, OwnersAreValued
  <2>2. Max(S) \in 1 .. n /\ IsName(Max(S))
    <3>1. Max(S) \in S
      BY <2>1, LastPlace
    <3>2. \A j \in S : j \in 1 .. n /\ IsName(j)
      BY <1>1 DEF IsValued
    <3> QED
      BY <3>1, <3>2
  <2>3. Owner(k) = args[Max(S)].text
    BY DEF Owner
  <2> QED
    BY <1>1, <2>2, <2>3 DEF Named
<1>4. ASSUME NEW k \in 1 .. n, IsValued(k) PROVE args[k].text \in Valued
  <2>1. k + 1 \in 1 .. n /\ IsValue(k + 1)
    BY <1>1, <1>4 DEF Grammatical
  <2> DEFINE S == {j \in 1 .. (k + 1) - 1 : IsValued(j)}
  <2>2. k \in Nat /\ k \in S /\ S \in SUBSET (1 .. k) /\ \A a \in S : a <= k
    BY <1>4
  <2>3. Max(S) = k
    BY <2>2, TheLastPlace
  <2>4. Owner(k + 1) = args[Max(S)].text
    BY DEF Owner
  <2> QED
    BY <2>1, <2>3, <2>4 DEF Valued
<1>5. FlagsNamed \subseteq Named
  BY <1>1 DEF FlagsNamed, Named
<1>6. Valued \subseteq Named
  BY <1>3 DEF Valued
<1>7. Named \subseteq SetSoFar
  BY <1>1, <1>4 DEF Named, SetSoFar, FlagsNamed
<1> QED
  BY <1>5, <1>6, <1>7 DEF SetSoFar

LEMMA FinishStep ==
    ASSUME CommandInv, Finish
    PROVE  CommandInv'
<1>1. /\ outcome = "parsing" /\ args # << >>
      /\ outcome' = IF expect = "value" THEN "threw" ELSE "no mode"
      /\ UNCHANGED <<args, expect, last_option, current_options_, before>>
  BY DEF Finish, Reject
<1>2. /\ CommandTypeOK /\ OptionsAreFunction
      /\ BeginsGrammatical /\ ExpectsNext /\ RemembersLast /\ OptionsSoFar
  BY <1>1 DEF CommandInv, ParseInv
<1>3. CommandTypeOK' /\ OptionsAreFunction'
  BY <1>1, <1>2 DEF CommandTypeOK, OptionsAreFunction
<1>4. DOMAIN args = 1 .. Len(args) /\ Len(args) \in Nat /\ Len(args) > 0
  <2>1. args \in Seq(Token)
    BY <1>2 DEF CommandTypeOK
  <2>2. DOMAIN args = 1 .. Len(args) /\ Len(args) \in Nat
    BY <2>1, LenProperties
  <2>3. Len(args) # 0
    BY <1>1, <2>1, EmptySeq
  <2> QED
    BY <2>2, <2>3
<1>5. Grammatical' <=> Grammatical
  BY <1>1 DEF Grammatical, IsName, IsValue, IsValued
<1>6. CASE expect = "value"
  <2>1. ~ Grammatical
    BY <1>2, <1>4, <1>6 DEF ExpectsNext, Grammatical
  <2> QED
    BY <1>1, <1>3, <1>5, <1>6, <2>1, ThrownAt
<1>7. CASE expect # "value"
  <2>1. ~ IsValued(Len(args))
    BY <1>2, <1>4, <1>7 DEF ExpectsNext, CommandTypeOK, IsValued, IsName, IsValue
  <2>2. Grammatical
    <3> SUFFICES ASSUME NEW k \in DOMAIN args, IsValued(k)
                 PROVE  k < Len(args) /\ IsValue(k + 1)
      BY <1>2, <1>4 DEF Grammatical, BeginsGrammatical
    <3>1. k # Len(args)
      BY <2>1
    <3>2. k \in 1 .. Len(args) /\ k < Len(args)
      BY <1>4, <3>1
    <3> QED
      BY <1>2, <3>2 DEF BeginsGrammatical
  <2>3. current_options_ = [o \in DOMAIN before \union Named |->
                              IF o \in Named THEN Given(o) ELSE before[o]]
    BY <1>2, <2>2, NamedIsSet DEF OptionsSoFar
  <2>4. Named' = Named /\ \A o : Given(o)' = Given(o)
    BY <1>1 DEF Named, Given, Owner, IsName, IsValue, IsValued
  <2>5. current_options_' = [o \in DOMAIN before' \union Named' |->
                               IF o \in Named' THEN Given(o)' ELSE before'[o]]
    <3>1. \A o : (IF o \in Named THEN Given(o)' ELSE before[o])
                    = IF o \in Named THEN Given(o) ELSE before[o]
      BY <2>4
    <3> QED
      BY <1>1, <2>3, <2>4, <3>1
  <2>6. outcome' = "no mode"
    BY <1>1, <1>7
  <2>7. ParserFollowsGrammar'
    BY <1>5, <2>2, <2>5, <2>6 DEF ParserFollowsGrammar
  <2> QED
    BY <1>3, <2>6, <2>7 DEF CommandInv
<1> QED
  BY <1>6, <1>7

\* Calls between two starts: what the last start read is forgotten.
LEMMA BetweenStarts ==
    ASSUME CommandInv, Help \/ start \/ \E name : setOpt(name)
    PROVE  CommandInv'
<1>1. /\ args' = << >> /\ args' \in Seq(Token)
      /\ outcome' \in {"help", "parsing", "none", "threw"}
      /\ Len(args') = 0
  BY EmptySeq DEF Help, start, setOpt, Set
<1>2. CommandTypeOK /\ OptionsAreFunction
  BY DEF CommandInv
<1>3. ParserFollowsGrammar'
  BY <1>1 DEF ParserFollowsGrammar
<1>4. CASE Help
  <2>1. outcome' = "help" /\ UNCHANGED <<expect, last_option, current_options_, before>>
    BY <1>4 DEF Help
  <2> QED
    BY <1>1, <1>2, <1>3, <2>1 DEF CommandInv, CommandTypeOK, OptionsAreFunction
<1>5. CASE start
  <2>1. /\ expect' = "name" /\ last_option' = NoOption /\ outcome' = "parsing"
        /\ before' = current_options_ /\ UNCHANGED current_options_
    BY <1>5 DEF start
  <2>2. CommandTypeOK' /\ OptionsAreFunction'
    BY <1>1, <1>2, <2>1 DEF CommandTypeOK, OptionsAreFunction
  <2>3. BeginsGrammatical' /\ ExpectsNext' /\ RemembersLast'
    BY <1>1, <2>1 DEF BeginsGrammatical, ExpectsNext, RemembersLast
  <2>4. SetSoFar' = {}
    BY <1>1 DEF SetSoFar, FlagsNamed, Valued
  <2>5. OptionsSoFar'
    BY <1>2, <2>1, <2>4 DEF OptionsAreFunction, OptionsSoFar
  <2> QED
    BY <1>3, <2>2, <2>3, <2>5 DEF CommandInv, ParseInv
<1>6. ASSUME NEW name, setOpt(name) PROVE CommandInv'
  <2>1. outcome' \in {"none", "threw"} /\ UNCHANGED <<expect, last_option, before>>
    BY <1>6 DEF setOpt, Set
  <2>2. OptionStep
    BY <1>6 DEF setOpt, Set, OptionStep
  <2>3. CommandTypeOK' /\ OptionsAreFunction'
    BY <1>1, <1>2, <2>1, <2>2, TypesKept DEF CommandTypeOK
  <2> QED
    BY <1>3, <2>1, <2>3 DEF CommandInv
<1> QED
  BY <1>4, <1>5, <1>6

LEMMA InitCommand == CommandInit => CommandInv
<1> SUFFICES ASSUME CommandInit PROVE CommandInv
  OBVIOUS
<1> USE DEF CommandInit
<1>1. args \in Seq(Token) /\ DOMAIN current_options_ = {}
  BY EmptySeq
<1>2. OptionsAreFunction
  BY <1>1 DEF OptionsAreFunction
<1> QED
  BY <1>1, <1>2 DEF CommandInv, CommandTypeOK, ParserFollowsGrammar

\* The invariant speaks of the state only.
LEMMA CommandStutters == CommandInv /\ UNCHANGED command_vars => CommandInv'
<1> SUFFICES ASSUME CommandInv, UNCHANGED command_vars PROVE CommandInv'
  OBVIOUS
<1>1. UNCHANGED <<args, expect, last_option, current_options_, before, outcome>>
  BY DEF command_vars
<1>2. /\ Named' = Named /\ SetSoFar' = SetSoFar
      /\ \A o : Given(o)' = Given(o)
  BY <1>1 DEF Named, SetSoFar, FlagsNamed, Valued, Given, Owner, IsName, IsValue, IsValued
<1>3. Grammatical' <=> Grammatical
  BY <1>1 DEF Grammatical, IsName, IsValue, IsValued
<1>4. CommandTypeOK' /\ OptionsAreFunction'
  BY <1>1 DEF CommandInv, CommandTypeOK, OptionsAreFunction
<1>5. outcome' = "parsing" => ParseInv'
  <2> SUFFICES ASSUME outcome = "parsing" PROVE ParseInv'
    BY <1>1
  <2>1. BeginsGrammatical' /\ ExpectsNext' /\ RemembersLast'
    BY <1>1 DEF CommandInv, ParseInv, BeginsGrammatical, ExpectsNext, RemembersLast, IsName,
                IsValue, IsValued
  <2>2. OptionsSoFar'
    BY <1>1, <1>2 DEF CommandInv, ParseInv, OptionsSoFar
  <2> QED
    BY <2>1, <2>2 DEF ParseInv
<1>6. ParserFollowsGrammar'
  BY <1>1, <1>2, <1>3 DEF CommandInv, ParserFollowsGrammar
<1> QED
  BY <1>4, <1>5, <1>6 DEF CommandInv

--------------------------------------------------------------------------------
(* CommandLine: the theorems. *)

\* The invariant holds of every sequence of starts and setOpts, with any arguments.
THEOREM CommandInvariant == CommandSpec => []CommandInv
<1>1. CommandInv /\ [CommandNext]_command_vars => CommandInv'
  <2> SUFFICES ASSUME CommandInv, [CommandNext]_command_vars PROVE CommandInv'
    OBVIOUS
  <2>1. CASE UNCHANGED command_vars
    BY <2>1, CommandStutters
  <2>2. CASE \E t \in Token : BadToken(t) \/ UnexpectedToken(t) \/ UnknownOption(t)
    BY <2>2, RefusalStep
  <2>3. CASE \E t \in Token : Flag(t)
    BY <2>3, FlagStep
  <2>4. CASE \E t \in Token : ValuedName(t)
    BY <2>4, ValuedNameStep
  <2>5. CASE \E t \in Token : Value(t)
    BY <2>5, ValueStep
  <2>6. CASE Finish
    BY <2>6, FinishStep
  <2>7. CASE Help \/ start \/ \E name \in VALUED_OPTS \union FLAG_OPTS \union Unknown : setOpt(name)
    BY <2>7, BetweenStarts
  <2> QED
    BY <2>1, <2>2, <2>3, <2>4, <2>5, <2>6, <2>7 DEF CommandNext
<1> QED
  BY <1>1, InitCommand, PTL DEF CommandSpec

\* Every reachable state has the types the module says: no start that throws half-way
\* leaves an option there is none of, or a value it cannot have.
THEOREM CommandTypes == CommandSpec => []CommandTypeOK
<1>1. CommandInv => CommandTypeOK
  BY DEF CommandInv
<1> QED
  BY <1>1, CommandInvariant, PTL

\* For any options and any number of arguments, the parser takes exactly the grammatical
\* ones and sets what they say over what was there (cmd.h:179-218, cmd.cc:19-81).
THEOREM ParserIsGrammar == CommandSpec => []ParserFollowsGrammar
<1>1. CommandInv => ParserFollowsGrammar
  BY DEF CommandInv
<1> QED
  BY <1>1, CommandInvariant, PTL

================================================================================
