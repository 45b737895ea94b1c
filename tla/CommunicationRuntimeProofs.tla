--------------------- MODULE CommunicationRuntimeProofs ---------------------
(***************************************************************************)
(* Two components, the second built on the first:                          *)
(*   - the registries: the tables of the bus agree after any sequence of   *)
(*     registrations, failed ones included; no registration changes what   *)
(*     earlier ones established, but for an explicit action id that is     *)
(*     generated again; the eight probes find the most specific slot;      *)
(*   - the reentrant bus: whatever handlers do while they run, the room    *)
(*     that a pumped message reserved stays, its guard is exact, every     *)
(*     message and every output is accounted for, and a message in A is    *)
(*     stranded only by a registration that takes its address over.        *)
(* For every set of names, every limit, every capacity and every depth of  *)
(* nesting.                                                                *)
(***************************************************************************)
EXTENDS CommunicationRuntime, FiniteSetTheorems, TLAPS

-----------------------------------------------------------------------------
(* The registries.                                                         *)

\* The id that a handler gets is one of the generated ones.
LEMMA AutoIdTyped ==
  ASSUME NEW key \in Key, autoActionCounter \in 0..AutoLimit, autoActionCounter < AutoLimit
  PROVE  /\ key.signal[1] \in Actions
         /\ NextAutoId(key) = AutoId(key.signal[1], autoActionCounter)
         /\ NextAutoId(key) \in AutoIds
<1>1. key.signal \in Actions \X Kinds
  BY DEF Key, Signal
<1>2. key.signal[1] \in Actions /\ autoActionCounter \in 0..(AutoLimit - 1)
  BY <1>1, RegistryAssumption DEF RegistryAssumption
<1> QED
  BY <1>2 DEF NextAutoId, AutoIds

\* Every step of the registries, with what it does to the tables: a new signal, a new
\* action, an action that a rollback takes away, or a new slot whose signal is
\* declared with a schema that it may expect.
SignalAdded == \E s \in Signal, schema \in Schemas :
  /\ s \notin DOMAIN signals
  /\ signals' = Extend(signals, s, schema)
  /\ UNCHANGED <<actions, slots, routes, autoActionCounter>>
ActionAdded == \E id \in ActionIds :
  /\ actions' = actions \cup {id}
  /\ UNCHANGED <<signals, slots, routes, autoActionCounter>>
ActionLost == \E a \in Actions :
  /\ autoActionCounter < AutoLimit
  /\ autoActionCounter' = autoActionCounter + 1
  /\ AutoId(a, autoActionCounter) \in actions
  /\ actions' = actions \ {AutoId(a, autoActionCounter)}
  /\ UNCHANGED <<signals, slots, routes>>
OnExistingAction(key, slot) ==
  /\ key.signal \in DOMAIN signals
  /\ slot.expected \in {Wildcard, signals[key.signal]}
  /\ slot.actionId \in actions
  /\ UNCHANGED <<signals, actions, autoActionCounter>>
WithNewAction(key, slot) ==
  /\ slot.expected \in Schemas
  /\ key.signal \in DOMAIN signals => signals[key.signal] = slot.expected
  /\ signals' = Extend(signals, key.signal, slot.expected)
  /\ autoActionCounter < AutoLimit
  /\ autoActionCounter' = autoActionCounter + 1
  /\ \E a \in Actions : slot.actionId = AutoId(a, autoActionCounter)
  /\ slot.actionId \in AutoIds
  /\ actions' = actions \cup {slot.actionId}
SlotAdded == \E key \in Key, slot \in Slot :
  /\ key \notin DOMAIN slots
  /\ slots' = Extend(slots, key, slot)
  /\ routes' = Extend(routes, key, slot.actionId)
  /\ OnExistingAction(key, slot) \/ WithNewAction(key, slot)

LEMMA StepKinds ==
  ASSUME RegistriesTypeOK, Register
  PROVE  SignalAdded \/ ActionAdded \/ ActionLost \/ SlotAdded
<1>1. ASSUME NEW s \in Signal, NEW schema \in Schemas, DeclareSignal(s, schema)
      PROVE  SignalAdded
  BY <1>1 DEF DeclareSignal, SignalAdded
<1>2. ASSUME NEW id \in ActionIds, RegisterAction(id)
      PROVE  ActionAdded
  BY <1>2 DEF RegisterAction, ActionAdded
<1>3. ASSUME NEW key \in Key, NEW id \in ActionIds, NEW limit \in OutputLimits,
             NEW expected \in Schemas \cup {Wildcard}, RegisterSlot(key, expected, id, limit)
      PROVE  SlotAdded
  <2> DEFINE slot == [expected |-> expected, actionId |-> id, maxOutputs |-> limit]
  <2>1. slot \in Slot
    BY DEF Slot
  <2>2. slot.expected = expected /\ slot.actionId = id
    OBVIOUS
  <2> HIDE DEF slot
  <2>3. slots' = Extend(slots, key, slot) /\ routes' = Extend(routes, key, slot.actionId)
    BY <1>3, <2>2 DEF RegisterSlot, Bind, slot
  <2> QED
    BY <1>3, <2>1, <2>2, <2>3 DEF RegisterSlot, SlotAdded, OnExistingAction
<1>4. ASSUME NEW key \in Key, NEW schema \in Schemas, NEW limit \in OutputLimits,
             RegisterHandler(key, schema, limit)
      PROVE  SlotAdded
  <2> DEFINE slot == [expected |-> schema, actionId |-> NextAutoId(key), maxOutputs |-> limit]
  <2>1. /\ NextAutoId(key) \in AutoIds /\ autoActionCounter < AutoLimit
        /\ \E a \in Actions : NextAutoId(key) = AutoId(a, autoActionCounter)
    BY <1>4, AutoIdTyped DEF RegisterHandler, HandlerAdmissible, RegistriesTypeOK
  <2>2. slot \in Slot
    BY <2>1 DEF Slot
  <2>3. slot.expected = schema /\ slot.actionId = NextAutoId(key)
    OBVIOUS
  <2> HIDE DEF slot
  <2>4. slots' = Extend(slots, key, slot) /\ routes' = Extend(routes, key, slot.actionId)
    BY <1>4, <2>3 DEF RegisterHandler, Bind, slot
  <2> QED
    BY <1>4, <2>1, <2>2, <2>3, <2>4
       DEF RegisterHandler, HandlerAdmissible, SlotAdded, WithNewAction
<1>5. ASSUME NEW key \in Key, NEW schema \in Schemas, RegisterHandlerRollback(key, schema)
      PROVE  ActionLost
  <2>1. /\ key.signal[1] \in Actions /\ autoActionCounter < AutoLimit
        /\ NextAutoId(key) = AutoId(key.signal[1], autoActionCounter)
    BY <1>5, AutoIdTyped DEF RegisterHandlerRollback, HandlerAdmissible, RegistriesTypeOK
  <2> QED
    BY <1>5, <2>1 DEF RegisterHandlerRollback, ActionLost
<1> QED
  BY <1>1, <1>2, <1>3, <1>4, <1>5 DEF Register
-----------------------------------------------------------------------------
(* The tables agree.                                                       *)

LEMMA IntervalGrows ==
  ASSUME NEW c \in Nat, NEW d \in Nat, c <= d, NEW n \in 0..(c - 1)
  PROVE  n \in 0..(d - 1)
OBVIOUS

\* An id determines the counter that it was generated with, and the counter only
\* grows: what is behind it stays behind it.
LEMMA OriginsStay ==
  ASSUME RegistriesTypeOK, autoActionCounter' \in Nat, autoActionCounter <= autoActionCounter',
         NEW id, Generated(id)
  PROVE  Generated(id)'
<1>1. PICK a \in Actions, n \in 0..(autoActionCounter - 1) : id = AutoId(a, n)
  BY DEF Generated
<1>2. autoActionCounter \in Nat
  BY RegistryAssumption DEF RegistriesTypeOK, RegistryAssumption
<1>3. n \in 0..(autoActionCounter' - 1)
  BY <1>1, <1>2, IntervalGrows
<1> QED
  BY <1>1, <1>3 DEF Generated

LEMMA NextNotGenerated ==
  ASSUME RegistriesTypeOK, NEW a \in Actions
  PROVE  ~Generated(AutoId(a, autoActionCounter))
<1>1. ASSUME NEW b \in Actions, NEW n \in 0..(autoActionCounter - 1),
             AutoId(a, autoActionCounter) = AutoId(b, n)
      PROVE  FALSE
  <2>1. autoActionCounter = n /\ autoActionCounter \in Nat
    BY <1>1, RegistryAssumption DEF AutoId, RegistriesTypeOK, RegistryAssumption
  <2> QED
    BY <2>1
<1> QED
  BY <1>1 DEF Generated

LEMMA NextGenerated ==
  ASSUME RegistriesTypeOK, NEW a \in Actions, NEW id, id = AutoId(a, autoActionCounter),
         autoActionCounter' = autoActionCounter + 1
  PROVE  Generated(id)'
<1>1. autoActionCounter \in Nat /\ autoActionCounter \in 0..(autoActionCounter' - 1)
  BY RegistryAssumption DEF RegistriesTypeOK, RegistryAssumption
<1> QED
  BY <1>1 DEF Generated

\* What BoundActionsExist says of one slot.
Backed(k) == \/ slots[k].actionId \in actions
             \/ slots[k].actionId \in ActionIds /\ Generated(slots[k].actionId)

LEMMA SafeStep ==
  ASSUME RegistriesInv, Register
  PROVE  RegistriesInv'
<1> USE DEF RegistriesInv
<1>0. /\ autoActionCounter \in 0..AutoLimit /\ autoActionCounter \in Nat /\ AutoLimit \in Nat
      /\ RegistriesTypeOK
  BY RegistryAssumption DEF RegistriesTypeOK, RegistryAssumption
<1>1. CASE SignalAdded
  <2>1. PICK s \in Signal, schema \in Schemas :
          /\ s \notin DOMAIN signals
          /\ signals' = Extend(signals, s, schema)
          /\ UNCHANGED <<actions, slots, routes, autoActionCounter>>
    BY <1>1 DEF SignalAdded
  <2>2. /\ DOMAIN signals' = DOMAIN signals \cup {s}
        /\ signals'[s] = schema
        /\ \A x \in DOMAIN signals : signals'[x] = signals[x]
    BY <2>1 DEF Extend
  <2>3. (RegistriesTypeOK /\ SlotsAndRoutesAgree /\ SlotSchemasAccepted)'
    BY <2>1, <2>2 DEF RegistriesTypeOK, SlotsAndRoutesAgree, SlotSchemasAccepted
  <2>4. (ActionsHaveAnOrigin /\ BoundActionsExist)'
    BY <2>1 DEF ActionsHaveAnOrigin, BoundActionsExist, Generated
  <2> QED
    BY <2>3, <2>4
<1>2. CASE ActionAdded
  <2>1. PICK id \in ActionIds : /\ actions' = actions \cup {id}
                                /\ UNCHANGED <<signals, slots, routes, autoActionCounter>>
    BY <1>2 DEF ActionAdded
  <2>2. (RegistriesTypeOK /\ SlotsAndRoutesAgree /\ SlotSchemasAccepted)'
    BY <2>1 DEF RegistriesTypeOK, SlotsAndRoutesAgree, SlotSchemasAccepted
  <2>3. (ActionsHaveAnOrigin /\ BoundActionsExist)'
    BY <2>1 DEF ActionsHaveAnOrigin, BoundActionsExist, Generated
  <2> QED
    BY <2>2, <2>3
\* The id that a rollback takes away is not behind the counter yet: it was registered
\* explicitly.
<1>3. CASE ActionLost
  <2>1. PICK a \in Actions :
          /\ autoActionCounter < AutoLimit
          /\ autoActionCounter' = autoActionCounter + 1
          /\ AutoId(a, autoActionCounter) \in actions
          /\ actions' = actions \ {AutoId(a, autoActionCounter)}
          /\ UNCHANGED <<signals, slots, routes>>
    BY <1>3 DEF ActionLost
  <2>2. ASSUME NEW id, id = AutoId(a, autoActionCounter)
        PROVE  id \in ActionIds /\ Generated(id)'
    BY <1>0, <2>1, <2>2, NextNotGenerated, NextGenerated DEF ActionsHaveAnOrigin
  <2>3. \A id : Generated(id) => Generated(id)'
    BY <1>0, <2>1, OriginsStay
  <2>4. (RegistriesTypeOK /\ SlotsAndRoutesAgree /\ SlotSchemasAccepted)'
    BY <1>0, <2>1 DEF RegistriesTypeOK, SlotsAndRoutesAgree, SlotSchemasAccepted
  <2>5. ActionsHaveAnOrigin'
    BY <2>1, <2>3 DEF ActionsHaveAnOrigin
  <2>6. BoundActionsExist'
    <3>1. ASSUME NEW k \in DOMAIN slots'
          PROVE  Backed(k)'
      <4> DEFINE id == slots[k].actionId
      <4>1. slots'[k].actionId = id /\ k \in DOMAIN slots
        BY <2>1, <3>1
      <4>2. id \in actions \/ (id \in ActionIds /\ Generated(id))
        BY <4>1 DEF BoundActionsExist
      <4>3. PICK x : x = id
        OBVIOUS
      <4> HIDE DEF id
      <4>4. x \in actions' \/ (x \in ActionIds /\ Generated(x)')
        BY <2>1, <2>2, <2>3, <4>2, <4>3
      <4>5. slots'[k].actionId = x
        BY <4>1, <4>3
      <4> QED
        BY <4>4, <4>5 DEF Backed, Generated
    <3> QED
      BY <3>1 DEF BoundActionsExist, Backed
  <2> QED
    BY <2>4, <2>5, <2>6
<1>4. CASE SlotAdded
  <2>1. PICK key \in Key, slot \in Slot :
          /\ key \notin DOMAIN slots
          /\ slots' = Extend(slots, key, slot)
          /\ routes' = Extend(routes, key, slot.actionId)
          /\ OnExistingAction(key, slot) \/ WithNewAction(key, slot)
    BY <1>4 DEF SlotAdded
  <2>2. /\ DOMAIN slots' = DOMAIN slots \cup {key}
        /\ slots'[key] = slot
        /\ \A k \in DOMAIN slots : slots'[k] = slots[k]
    BY <2>1 DEF Extend
  <2>3. /\ DOMAIN routes' = DOMAIN routes \cup {key}
        /\ routes'[key] = slot.actionId
        /\ \A k \in DOMAIN routes : k # key => routes'[k] = routes[k]
    BY <2>1 DEF Extend
  <2>4. key.signal \in Signal
    BY DEF Key
  <2>5. /\ DOMAIN signals' = DOMAIN signals \cup {key.signal}
        /\ \A s \in DOMAIN signals : signals'[s] = signals[s]
        /\ slot.expected \in {Wildcard, signals'[key.signal]}
        /\ signals'[key.signal] \in Schemas
    <3>1. CASE OnExistingAction(key, slot)
      BY <1>0, <3>1 DEF OnExistingAction, RegistriesTypeOK
    <3>2. CASE WithNewAction(key, slot)
      BY <3>2 DEF WithNewAction, Extend
    <3> QED
      BY <2>1, <3>1, <3>2
  <2>6. /\ actions \subseteq actions' /\ actions' \subseteq actions \cup AutoIds
        /\ slot.actionId \in actions'
        /\ autoActionCounter' \in 0..AutoLimit /\ autoActionCounter <= autoActionCounter'
        /\ \A id \in actions' : id \in actions \/ Generated(id)'
    <3>1. CASE OnExistingAction(key, slot)
      BY <1>0, <3>1 DEF OnExistingAction
    <3>2. CASE WithNewAction(key, slot)
      <4>1. PICK x : x = slot.actionId /\ \E a \in Actions : x = AutoId(a, autoActionCounter)
        BY <3>2 DEF WithNewAction
      <4>2. Generated(x)'
        BY <1>0, <3>2, <4>1, NextGenerated DEF WithNewAction
      <4> QED
        BY <1>0, <3>2, <4>1, <4>2 DEF WithNewAction
    <3> QED
      BY <2>1, <3>1, <3>2
  <2>7. RegistriesTypeOK'
    BY <1>0, <2>2, <2>3, <2>4, <2>5, <2>6 DEF RegistriesTypeOK
  <2>8. SlotsAndRoutesAgree'
    BY <2>1, <2>2, <2>3, <2>5 DEF SlotsAndRoutesAgree
  <2>9. SlotSchemasAccepted'
    BY <2>2, <2>5 DEF SlotSchemasAccepted, SlotsAndRoutesAgree
  <2>10. \A id : Generated(id) => Generated(id)'
    BY <1>0, <2>6, OriginsStay
  <2>11. ActionsHaveAnOrigin'
    BY <2>6, <2>10 DEF ActionsHaveAnOrigin
  <2>12. BoundActionsExist'
    <3>1. ASSUME NEW k \in DOMAIN slots'
          PROVE  Backed(k)'
      <4>1. CASE k = key
        BY <2>2, <2>6, <4>1 DEF Backed
      <4>2. CASE k \in DOMAIN slots
        <5> DEFINE id == slots[k].actionId
        <5>1. slots'[k].actionId = id
          BY <2>2, <4>2
        <5>2. id \in actions \/ (id \in ActionIds /\ Generated(id))
          BY <4>2 DEF BoundActionsExist
        <5>3. PICK x : x = id
          OBVIOUS
        <5> HIDE DEF id
        <5>4. x \in actions' \/ (x \in ActionIds /\ Generated(x)')
          BY <2>6, <2>10, <5>2, <5>3
        <5>5. slots'[k].actionId = x
          BY <5>1, <5>3
        <5> QED
          BY <5>4, <5>5 DEF Backed, Generated
      <4> QED
        BY <2>2, <3>1, <4>1, <4>2
    <3> QED
      BY <3>1 DEF BoundActionsExist, Backed
  <2> QED
    BY <2>7, <2>8, <2>9, <2>11, <2>12
<1> QED
  BY <1>0, <1>1, <1>2, <1>3, <1>4, StepKinds

LEMMA SafeInit == RegistriesInit => RegistriesInv
BY RegistryAssumption
   DEF RegistriesInit, RegistriesInv, RegistriesTypeOK, SlotsAndRoutesAgree, SlotSchemasAccepted,
       ActionsHaveAnOrigin, BoundActionsExist, RegistryAssumption

LEMMA SafeNext == RegistriesInv /\ [Register]_registries => RegistriesInv'
<1>1. CASE Register
  BY <1>1, SafeStep
<1>2. CASE UNCHANGED registries
  BY <1>2 DEF registries, RegistriesInv, RegistriesTypeOK, SlotsAndRoutesAgree, SlotSchemasAccepted,
              ActionsHaveAnOrigin, BoundActionsExist, Generated
<1> QED
  BY <1>1, <1>2

\* Whatever the bus does, the tables change by registrations only.
LEMMA OnlyRegister == [Next]_vars => [Register]_registries
BY DEF Next, vars, registries, Submit, Dispatch, PumpOne, HandlerEnds, HandlerReturns,
       HandlerThrows, NextOutput, GrantCapability, Registration

\* The slot that authorises a message is the one whose reaction runs, its signal
\* is declared, it expects a schema that the signal carries, and its action exists,
\* unless a rollback of registerHandler met its explicit id.
THEOREM RegistriesSafe == Spec => []RegistriesInv
<1>1. Init => RegistriesInv
  BY SafeInit DEF Init
<1>2. RegistriesInv /\ [Next]_vars => RegistriesInv'
  BY SafeNext, OnlyRegister
<1> QED
  BY <1>1, <1>2, PTL DEF Spec
-----------------------------------------------------------------------------
(* Registrations are additive.                                             *)

LEMMA AdditiveStep ==
  ASSUME RegistriesInv, Register
  PROVE  /\ \A k \in DOMAIN slots : k \in DOMAIN slots' /\ slots'[k] = slots[k]
         /\ \A s \in DOMAIN signals : s \in DOMAIN signals' /\ signals'[s] = signals[s]
         /\ \A id \in actions \ actions' :
              id \in ActionIds /\ \E a \in Actions : id = AutoId(a, autoActionCounter)
<1>1. CASE SignalAdded
  BY <1>1 DEF SignalAdded, Extend
<1>2. CASE ActionAdded
  BY <1>2 DEF ActionAdded
<1>3. CASE ActionLost
  <2>1. PICK a \in Actions :
          /\ AutoId(a, autoActionCounter) \in actions
          /\ actions' = actions \ {AutoId(a, autoActionCounter)}
          /\ UNCHANGED <<signals, slots, routes>>
    BY <1>3 DEF ActionLost
  <2>2. AutoId(a, autoActionCounter) \in ActionIds
    BY <2>1, NextNotGenerated DEF RegistriesInv, ActionsHaveAnOrigin
  <2> QED
    BY <2>1, <2>2
<1>4. CASE SlotAdded
  <2>1. PICK key \in Key, slot \in Slot :
          /\ key \notin DOMAIN slots
          /\ slots' = Extend(slots, key, slot)
          /\ OnExistingAction(key, slot) \/ WithNewAction(key, slot)
    BY <1>4 DEF SlotAdded
  <2>2. \A k \in DOMAIN slots : k \in DOMAIN slots' /\ slots'[k] = slots[k]
    BY <2>1 DEF Extend
  <2>3. /\ \A s \in DOMAIN signals : s \in DOMAIN signals' /\ signals'[s] = signals[s]
        /\ actions \subseteq actions'
    <3>1. CASE OnExistingAction(key, slot)
      BY <3>1 DEF OnExistingAction
    <3>2. CASE WithNewAction(key, slot)
      BY <3>2 DEF WithNewAction, Extend
    <3> QED
      BY <2>1, <3>1, <3>2
  <2> QED
    BY <2>2, <2>3
<1> QED
  BY <1>1, <1>2, <1>3, <1>4, StepKinds DEF RegistriesInv

\* No registration, successful or rolled back, changes a slot or a signal that an
\* earlier one established, and none takes an action away but one whose generated id
\* was registered explicitly before.
THEOREM Additive == Spec => RegistrationsAreAdditive
<1>1. RegistriesInv /\ [Next]_vars =>
        [/\ \A k \in DOMAIN slots : k \in DOMAIN slots' /\ slots'[k] = slots[k]
         /\ \A s \in DOMAIN signals : s \in DOMAIN signals' /\ signals'[s] = signals[s]
         /\ \A id \in actions \ actions' :
              id \in ActionIds /\ \E a \in Actions : id = AutoId(a, autoActionCounter)
        ]_registries
  BY AdditiveStep, OnlyRegister
<1> QED
  BY <1>1, RegistriesSafe, PTL DEF Spec, RegistrationsAreAdditive
-----------------------------------------------------------------------------
(* The lookup.  An address is probed from the most specific key on, so the *)
(* first probe that hits is the most specific slot that accepts it.        *)

LEMMA FirstHit ==
  ASSUME NEW S \in SUBSET (1..8), S # {}
  PROVE  \E i \in S : \A j \in S : i <= j
<1>1. \A i \in S : i \in {1, 2, 3, 4, 5, 6, 7, 8}
  OBVIOUS
<1>2. CASE {1, 2, 3, 4} \cap S # {}
  <2>1. \/ 1 \in S
        \/ 1 \notin S /\ 2 \in S
        \/ 1 \notin S /\ 2 \notin S /\ 3 \in S
        \/ 1 \notin S /\ 2 \notin S /\ 3 \notin S /\ 4 \in S
    BY <1>2
  <2> QED
    BY <1>1, <2>1
<1>3. CASE {1, 2, 3, 4} \cap S = {}
  <2>1. \A i \in S : i \in {5, 6, 7, 8}
    BY <1>1, <1>3
  <2>2. \/ 5 \in S
        \/ 5 \notin S /\ 6 \in S
        \/ 5 \notin S /\ 6 \notin S /\ 7 \in S
        \/ 5 \notin S /\ 6 \notin S /\ 7 \notin S /\ 8 \in S
    BY <2>1
  <2> QED
    BY <2>1, <2>2
<1> QED
  BY <1>2, <1>3

\* The probes of an address are the keys that accept it.
LEMMA ProbesAccept ==
  ASSUME NEW a \in Address, NEW key \in Key
  PROVE  Accepts(key, a) <=> \E i \in 1..8 : Probes(a)[i] = key
<1>1. key = [signal |-> key.signal, receiver |-> key.receiver,
             context |-> key.context, capability |-> key.capability]
  BY DEF Key
<1>2. ASSUME Accepts(key, a)
      PROVE  \E i \in 1..8 : Probes(a)[i] = key
  <2>1. key = ProbeKey(a, key.receiver, key.context, key.capability)
    BY <1>1, <1>2 DEF Accepts, ProbeKey
  <2>2. \E i \in 1..8 : Probes(a)[i] = ProbeKey(a, key.receiver, key.context, key.capability)
    BY <1>2 DEF Accepts, Probes
  <2> QED
    BY <2>1, <2>2
<1>3. ASSUME NEW i \in 1..8, Probes(a)[i] = key
      PROVE  Accepts(key, a)
  BY <1>3 DEF Accepts, Probes, ProbeKey
<1> QED
  BY <1>2, <1>3

\* An earlier probe is at least as specific as a later one.
LEMMA ProbesDescend ==
  ASSUME NEW a \in Address, NEW i \in 1..8, NEW j \in 1..8, i <= j
  PROVE  Specificity(Probes(a)[j]) <= Specificity(Probes(a)[i])
<1>1. a.receiver # Wildcard /\ a.context # Wildcard
  BY RegistryAssumption DEF Address, RegistryAssumption
<1> DEFINE c == IF a.capability # Wildcard THEN 1 ELSE 0
<1>2. c \in {0, 1}
  OBVIOUS
<1>3. /\ Specificity(Probes(a)[1]) = 6 + c /\ Specificity(Probes(a)[2]) = 6
      /\ Specificity(Probes(a)[3]) = 4 + c /\ Specificity(Probes(a)[4]) = 4
      /\ Specificity(Probes(a)[5]) = 2 + c /\ Specificity(Probes(a)[6]) = 2
      /\ Specificity(Probes(a)[7]) = c /\ Specificity(Probes(a)[8]) = 0
  BY <1>1 DEF Specificity, Probes, ProbeKey
<1> HIDE DEF c
<1>4. /\ i \in {1, 2, 3, 4, 5, 6, 7, 8}
      /\ j \in {1, 2, 3, 4, 5, 6, 7, 8}
  OBVIOUS
<1> QED
  BY <1>2, <1>3, <1>4

LEMMA FindsFirst ==
  ASSUME NEW table, NEW a \in Address, HitsIn(table, a) # {}
  PROVE  \E i \in HitsIn(table, a) : /\ FindIn(table, a) = Probes(a)[i]
                                     /\ \A j \in HitsIn(table, a) : i <= j
<1>1. HitsIn(table, a) \in SUBSET (1..8)
  BY DEF HitsIn
<1>2. \E i \in HitsIn(table, a) : \A j \in HitsIn(table, a) : i <= j
  BY <1>1, FirstHit
<1> QED
  BY <1>2 DEF FindIn

LEMMA MostSpecificState == RegistriesInv => LookupMostSpecific
<1> SUFFICES ASSUME RegistriesInv, NEW a \in Address
             PROVE  LET accepting == {k \in DOMAIN slots : Accepts(k, a)}
                        found == FindSlot(a)
                    IN /\ HasSlot(a) <=> accepting # {}
                       /\ accepting # {} =>
                            /\ found \in accepting
                            /\ \A k \in accepting : Specificity(k) <= Specificity(found)
                            /\ routes[FindIn(routes, a)] = slots[found].actionId
  BY DEF LookupMostSpecific
<1> DEFINE accepting == {k \in DOMAIN slots : Accepts(k, a)}
<1>1. /\ DOMAIN slots \subseteq Key
      /\ DOMAIN routes = DOMAIN slots
      /\ \A k \in DOMAIN slots : routes[k] = slots[k].actionId
  BY DEF RegistriesInv, RegistriesTypeOK, SlotsAndRoutesAgree
<1>2. \A k \in DOMAIN slots : Accepts(k, a) <=> \E i \in 1..8 : Probes(a)[i] = k
  BY <1>1, ProbesAccept
<1>3. HasSlot(a) <=> accepting # {}
  BY <1>2 DEF HasSlot, HitsIn
<1>4. ASSUME HasSlot(a)
      PROVE  /\ FindSlot(a) \in accepting
             /\ \A k \in accepting : Specificity(k) <= Specificity(FindSlot(a))
             /\ routes[FindIn(routes, a)] = slots[FindSlot(a)].actionId
  <2>1. PICK i \in HitsIn(slots, a) : /\ FindSlot(a) = Probes(a)[i]
                                      /\ \A j \in HitsIn(slots, a) : i <= j
    BY <1>4, FindsFirst DEF HasSlot, FindSlot
  <2>2. i \in 1..8 /\ FindSlot(a) \in DOMAIN slots
    BY <2>1 DEF HitsIn
  <2>3. FindSlot(a) \in accepting
    BY <1>2, <2>1, <2>2
  <2>4. ASSUME NEW k \in accepting
        PROVE  Specificity(k) <= Specificity(FindSlot(a))
    <3>1. PICK j \in 1..8 : Probes(a)[j] = k
      BY <1>2, <2>4
    <3>2. j \in HitsIn(slots, a)
      BY <3>1 DEF HitsIn
    <3> QED
      BY <2>1, <2>2, <3>1, <3>2, ProbesDescend
  <2>5. HitsIn(routes, a) = HitsIn(slots, a)
    BY <1>1 DEF HitsIn
  <2>6. FindIn(routes, a) = FindSlot(a)
    BY <2>5 DEF FindIn, FindSlot
  <2> QED
    BY <1>1, <2>2, <2>3, <2>4, <2>6
<1> QED
  BY <1>3, <1>4

\* The eight probes take, of the slots that accept a message, the one with a specific
\* receiver, then context, then capability, and the route is the one of that slot.
THEOREM MostSpecific == Spec => []LookupMostSpecific
BY RegistriesSafe, MostSpecificState, PTL
-----------------------------------------------------------------------------
(* The reentrant bus.                                                      *)

\* The slots of running handlers and of waiting outputs stay registered.
SlotsKnown == /\ \A i \in DOMAIN stack : stack[i].key \in DOMAIN slots
              /\ \A i \in DOMAIN outbound : outbound[i].key \in DOMAIN slots

BusInv == RegistriesInv /\ PumpInv /\ SlotsKnown

\* Sequences, in the form the steps need.
LEMMA FrontFacts ==
  ASSUME NEW S, NEW s \in Seq(S), s # <<>>
  PROVE  /\ Front(s) \in Seq(S) /\ Last(s) \in S
         /\ DOMAIN s = 1..Len(s) /\ Len(s) \in Nat \ {0}
         /\ DOMAIN Front(s) = 1..(Len(s) - 1)
         /\ \A i \in 1..(Len(s) - 1) : Front(s)[i] = s[i]
         /\ Last(s) = s[Len(s)]
BY DEF Front, Last

LEMMA AppendFacts ==
  ASSUME NEW S, NEW s \in Seq(S), NEW x \in S
  PROVE  /\ Append(s, x) \in Seq(S)
         /\ Len(s) \in Nat /\ DOMAIN s = 1..Len(s)
         /\ DOMAIN Append(s, x) = 1..(Len(s) + 1)
         /\ \A i \in 1..Len(s) : Append(s, x)[i] = s[i]
         /\ Append(s, x)[Len(s) + 1] = x
OBVIOUS

LEMMA TailFacts ==
  ASSUME NEW S, NEW s \in Seq(S), s # <<>>
  PROVE  /\ Tail(s) \in Seq(S) /\ Head(s) \in S /\ Head(s) = s[1]
         /\ DOMAIN s = 1..Len(s) /\ Len(s) \in Nat \ {0}
         /\ DOMAIN Tail(s) = 1..(Len(s) - 1) /\ Len(Tail(s)) = Len(s) - 1
         /\ \A i \in 1..(Len(s) - 1) : Tail(s)[i] = s[i + 1]
OBVIOUS

LEMMA ConcatFacts ==
  ASSUME NEW S, NEW s \in Seq(S), NEW t \in Seq(S)
  PROVE  /\ s \o t \in Seq(S)
         /\ DOMAIN s = 1..Len(s) /\ Len(s) \in Nat /\ Len(t) \in Nat
         /\ Len(s \o t) = Len(s) + Len(t)
         /\ DOMAIN (s \o t) = 1..(Len(s) + Len(t))
         /\ \A i \in 1..Len(s) : (s \o t)[i] = s[i]
         /\ \A i \in (Len(s) + 1)..(Len(s) + Len(t)) :
              i - Len(s) \in 1..Len(t) /\ (s \o t)[i] = t[i - Len(s)]
OBVIOUS

\* A position of a sequence is the last one or one before it.
LEMMA UpTo ==
  ASSUME NEW n \in Nat, NEW i \in 1..n
  PROVE  i = n \/ (i \in 1..(n - 1) /\ i # n)
OBVIOUS

LEMMA Positions ==
  ASSUME NEW n \in Nat \ {0}
  PROVE  n \in 1..n /\ \A i \in 1..(n - 1) : i \in 1..n /\ i # n
OBVIOUS

\* A slot that is found is a registered one.
LEMMA FoundIsSlot ==
  ASSUME NEW a \in Address, HasSlot(a)
  PROVE  FindSlot(a) \in DOMAIN slots
BY FindsFirst DEF HasSlot, FindSlot, HitsIn

\* Every step leaves the tables alone or registers something more.
LEMMA SlotsStay ==
  ASSUME RegistriesInv, [Next]_vars
  PROVE  /\ RegistriesInv'
         /\ \A k \in DOMAIN slots : k \in DOMAIN slots' /\ slots'[k] = slots[k]
<1>1. [Register]_registries
  BY OnlyRegister
<1>2. RegistriesInv'
  BY <1>1, SafeNext
<1> QED
  BY <1>1, <1>2, AdditiveStep DEF registries

\* What the types say of the handler on top and of its reply.
LEMMA TopTyped ==
  ASSUME BusInv, stack # <<>>
  PROVE  /\ Top \in Frame /\ Top = stack[Len(stack)]
         /\ DOMAIN stack = 1..Len(stack) /\ Len(stack) \in Nat \ {0}
         /\ Front(stack) \in Seq(Frame)
         /\ DOMAIN Front(stack) = 1..(Len(stack) - 1)
         /\ \A i \in 1..(Len(stack) - 1) : Front(stack)[i] = stack[i]
         /\ Top.key \in DOMAIN slots /\ slots[Top.key].maxOutputs \in Nat
<1>1. stack \in Seq(Frame)
  BY DEF BusInv, PumpInv, TypeOK
<1>2. /\ Top \in Frame /\ Top = stack[Len(stack)]
      /\ DOMAIN stack = 1..Len(stack) /\ Len(stack) \in Nat \ {0}
      /\ Front(stack) \in Seq(Frame)
      /\ DOMAIN Front(stack) = 1..(Len(stack) - 1)
      /\ \A i \in 1..(Len(stack) - 1) : Front(stack)[i] = stack[i]
  BY <1>1, FrontFacts DEF Top
<1>3. Top.key \in DOMAIN slots
  BY <1>2 DEF BusInv, SlotsKnown
<1>4. slots[Top.key] \in Slot
  BY <1>3 DEF BusInv, RegistriesInv, RegistriesTypeOK
<1>5. slots[Top.key].maxOutputs \in Nat
  BY <1>4, RegistryAssumption DEF Slot, RegistryAssumption
<1> QED
  BY <1>2, <1>3, <1>5

\* The limit of a message that has a slot is a number.
LEMMA LimitTyped ==
  ASSUME RegistriesInv, NEW e \in Envelope, HasSlot(e.address)
  PROVE  /\ FindSlot(e.address) \in DOMAIN slots /\ FindSlot(e.address) \in Key
         /\ Limit(e) \in Nat
<1>1. FindSlot(e.address) \in DOMAIN slots
  BY FoundIsSlot DEF Envelope
<1>2. FindSlot(e.address) \in Key /\ slots[FindSlot(e.address)] \in Slot
  BY <1>1 DEF RegistriesInv, RegistriesTypeOK
<1> QED
  BY <1>1, <1>2, RegistryAssumption DEF Limit, Slot, RegistryAssumption

\* The outputs of a handler, appended to B.
LEMMA RepliesTyped ==
  ASSUME BusInv, stack # <<>>, NEW n \in Nat, nextId + n <= MaxId + 1
  PROVE  /\ Replies(n) \in Seq(Output) /\ Len(Replies(n)) = n
         /\ \A i \in 1..n : /\ Replies(n)[i].id = nextId + i - 1
                            /\ Replies(n)[i].cause = Top.message.id
                            /\ Replies(n)[i].key = Top.key
<1>1. Top \in Frame /\ nextId \in 1..(MaxId + 1) /\ MaxId \in Nat
  BY TopTyped, RuntimeAssumption DEF BusInv, PumpInv, TypeOK, RuntimeAssumption
<1>2. Top.message.id \in Ids /\ Top.key \in Key
  BY <1>1 DEF Frame, Envelope
<1>3. \A i \in 1..n : nextId + i - 1 \in Ids
  BY <1>1 DEF Ids
<1>4. \A i \in 1..n : [id |-> nextId + i - 1, cause |-> Top.message.id, key |-> Top.key] \in Output
  BY <1>2, <1>3 DEF Output
<1> QED
  BY <1>4 DEF Replies
-----------------------------------------------------------------------------
(* The reservation, the guard and the grants.                              *)

\* A frame that is pushed keeps the invariant when it reserves what it needs and
\* is the only pumped one.
LEMMA PushStep ==
  ASSUME BusInv, NEW e \in Envelope, NEW isAsync \in BOOLEAN,
         ValidInbound(e), Reacts(e), Run(e, isAsync), UNCHANGED <<registries, outbound, grants>>,
         isAsync => ~pumpActive /\ Limit(e) <= Available,
         pumpActive' = (pumpActive \/ isAsync)
  PROVE  /\ stack' \in Seq(Frame) /\ pumpActive' \in BOOLEAN
         /\ (ReservationHolds /\ PumpGuardExact /\ AuthorizedExecution /\ SlotsKnown)'
<1> DEFINE f == [message |-> e, key |-> FindSlot(e.address), async |-> isAsync]
<1>1. /\ FindSlot(e.address) \in DOMAIN slots /\ FindSlot(e.address) \in Key
      /\ Limit(e) \in Nat
  BY LimitTyped DEF ValidInbound, BusInv
<1>2. /\ f \in Frame /\ f.message = e /\ f.key = FindSlot(e.address) /\ f.async = isAsync
  BY <1>1 DEF Frame
<1> HIDE DEF f
<1>3. /\ stack' \in Seq(Frame) /\ Len(stack) \in Nat /\ DOMAIN stack = 1..Len(stack)
      /\ DOMAIN stack' = 1..(Len(stack) + 1)
      /\ \A i \in 1..Len(stack) : stack'[i] = stack[i]
      /\ stack'[Len(stack) + 1] = f
  <2>1. stack \in Seq(Frame) /\ stack' = Append(stack, f)
    BY DEF BusInv, PumpInv, TypeOK, Run, f
  <2> QED
    BY <1>2, <2>1, AppendFacts
<1>4. /\ slots' = slots /\ outbound' = outbound /\ grants' = grants
      /\ Len(outbound) \in Nat /\ OutCapacity \in Nat
  BY RuntimeAssumption DEF registries, BusInv, PumpInv, TypeOK, RuntimeAssumption
<1>5. \A i \in 1..(Len(stack) + 1) : i \in 1..Len(stack) \/ i = Len(stack) + 1
  BY <1>3
<1>6. ReservationHolds'
  <2>1. isAsync => Len(outbound) + slots[f.key].maxOutputs <= OutCapacity
    BY <1>1, <1>2, <1>4 DEF Limit, Available
  <2> QED
    BY <1>2, <1>3, <1>4, <1>5, <2>1 DEF ReservationHolds, BusInv, PumpInv
<1>7. PumpGuardExact'
  <2>1. isAsync => \A i \in 1..Len(stack) : ~stack[i].async
    BY <1>3 DEF BusInv, PumpInv, PumpGuardExact
  <2>2. pumpActive' <=> \E i \in DOMAIN stack' : stack'[i].async
    <3>1. CASE isAsync
      <4>1. pumpActive'
        BY <3>1
      <4>2. Len(stack) + 1 \in DOMAIN stack'
        BY <1>3
      <4>3. stack'[Len(stack) + 1].async
        BY <1>2, <1>3, <3>1
      <4> QED
        BY <4>1, <4>2, <4>3
    <3>2. CASE ~isAsync
      BY <1>2, <1>3, <1>5, <3>2 DEF BusInv, PumpInv, PumpGuardExact, TypeOK
    <3> QED
      BY <3>1, <3>2
  <2> QED
    BY <1>2, <1>3, <1>5, <2>1, <2>2 DEF BusInv, PumpInv, PumpGuardExact
<1>8. AuthorizedExecution'
  <2>1. f.key.capability = Wildcard \/ <<f.message.sender, f.key.capability>> \in grants
    BY <1>2 DEF ValidInbound, Authorized
  <2> QED
    BY <1>3, <1>4, <1>5, <2>1 DEF AuthorizedExecution, BusInv, PumpInv
<1>9. SlotsKnown'
  BY <1>1, <1>2, <1>3, <1>4, <1>5 DEF SlotsKnown, BusInv
<1>10. pumpActive' \in BOOLEAN
  BY DEF BusInv, PumpInv, TypeOK
<1> QED
  BY <1>3, <1>6, <1>7, <1>8, <1>9, <1>10

\* A frame that is popped releases its guard, and the replies of a pumped one fit
\* into the room it reserved.
LEMMA PopStep ==
  ASSUME BusInv, stack # <<>>, Return, pumpActive' = (pumpActive /\ ~Top.async),
         NEW n \in Nat, n <= slots[Top.key].maxOutputs, nextId + n <= MaxId + 1,
         outbound' = outbound \/ (Top.async /\ outbound' = outbound \o Replies(n)),
         UNCHANGED <<registries, grants>>
  PROVE  /\ stack' \in Seq(Frame) /\ outbound' \in Seq(Output) /\ pumpActive' \in BOOLEAN
         /\ (ReservationHolds /\ PumpGuardExact /\ AuthorizedExecution /\ SlotsKnown)'
<1>1. /\ DOMAIN stack = 1..Len(stack) /\ Len(stack) \in Nat \ {0}
      /\ Top = stack[Len(stack)]
      /\ stack' \in Seq(Frame) /\ DOMAIN stack' = 1..(Len(stack) - 1)
      /\ \A i \in 1..(Len(stack) - 1) : stack'[i] = stack[i]
      /\ Top.key \in DOMAIN slots /\ slots[Top.key].maxOutputs \in Nat
      /\ Top.async \in BOOLEAN
  BY TopTyped DEF Return, Frame
<1>2. /\ slots' = slots /\ grants' = grants
      /\ outbound \in Seq(Output) /\ Len(outbound) \in Nat /\ DOMAIN outbound = 1..Len(outbound)
      /\ OutCapacity \in Nat /\ pumpActive \in BOOLEAN
  BY RuntimeAssumption DEF registries, BusInv, PumpInv, TypeOK, RuntimeAssumption
<1>3. /\ Replies(n) \in Seq(Output) /\ Len(Replies(n)) = n
      /\ \A i \in 1..n : Replies(n)[i].key = Top.key
  BY RepliesTyped
<1>4. ASSUME outbound' = outbound \o Replies(n)
      PROVE  /\ outbound' \in Seq(Output)
             /\ Len(outbound') = Len(outbound) + n
             /\ DOMAIN outbound' = 1..(Len(outbound) + n)
             /\ \A i \in 1..Len(outbound) : outbound'[i] = outbound[i]
             /\ \A i \in (Len(outbound) + 1)..(Len(outbound) + n) :
                  i - Len(outbound) \in 1..n /\ outbound'[i] = Replies(n)[i - Len(outbound)]
  <2> DEFINE t == Replies(n)
  <2>1. t \in Seq(Output) /\ Len(t) = n /\ outbound' = outbound \o t
    BY <1>3, <1>4
  <2> HIDE DEF t
  <2>2. /\ outbound' \in Seq(Output)
        /\ Len(outbound') = Len(outbound) + Len(t)
        /\ DOMAIN outbound' = 1..(Len(outbound) + Len(t))
        /\ \A i \in 1..Len(outbound) : outbound'[i] = outbound[i]
        /\ \A i \in (Len(outbound) + 1)..(Len(outbound) + Len(t)) :
             i - Len(outbound) \in 1..Len(t) /\ outbound'[i] = t[i - Len(outbound)]
    BY <1>2, <2>1, ConcatFacts
  <2> QED
    BY <2>1, <2>2 DEF t
<1>5. Top.async => \A i \in 1..(Len(stack) - 1) : ~stack[i].async
  BY <1>1 DEF BusInv, PumpInv, PumpGuardExact
<1>6. ReservationHolds'
  <2>1. CASE outbound' = outbound
    BY <1>1, <1>2, <2>1 DEF ReservationHolds, BusInv, PumpInv
  <2>2. CASE Top.async /\ outbound' = outbound \o Replies(n)
    <3>1. Len(outbound') = Len(outbound) + n
      BY <1>4, <2>2
    <3>2. Len(outbound) + slots[Top.key].maxOutputs <= OutCapacity
      BY <1>1, <2>2 DEF ReservationHolds, BusInv, PumpInv
    <3>3. Len(outbound') <= OutCapacity
      BY <1>1, <1>2, <3>1, <3>2
    <3> QED
      BY <1>1, <1>5, <2>2, <3>3 DEF ReservationHolds
  <2> QED
    BY <2>1, <2>2
<1>7. PumpGuardExact'
  <2>1. pumpActive <=> \E i \in 1..Len(stack) : stack[i].async
    BY <1>1 DEF BusInv, PumpInv, PumpGuardExact
  <2>2. \A i \in 1..Len(stack) : i \in 1..(Len(stack) - 1) \/ i = Len(stack)
    BY <1>1, UpTo
  <2>3. pumpActive' <=> \E i \in DOMAIN stack' : stack'[i].async
    <3>1. CASE Top.async
      BY <1>1, <1>5, <3>1
    <3>2. CASE ~Top.async
      <4>1. pumpActive' <=> pumpActive
        BY <1>2, <3>2
      <4>2. (\E i \in 1..Len(stack) : stack[i].async)
              <=> \E i \in 1..(Len(stack) - 1) : stack[i].async
        <5>1. \A i \in 1..(Len(stack) - 1) : i \in 1..Len(stack)
          BY <1>1
        <5>2. ~stack[Len(stack)].async
          BY <1>1, <3>2
        <5> QED
          BY <2>2, <5>1, <5>2, Zenon
      <4>3. (\E i \in 1..(Len(stack) - 1) : stack[i].async)
              <=> \E i \in DOMAIN stack' : stack'[i].async
        BY <1>1
      <4> QED
        BY <2>1, <4>1, <4>2, <4>3
    <3> QED
      BY <3>1, <3>2
  <2> QED
    BY <1>1, <2>3 DEF BusInv, PumpInv, PumpGuardExact
<1>8. AuthorizedExecution'
  BY <1>1, <1>2 DEF AuthorizedExecution, BusInv, PumpInv
<1>9. SlotsKnown'
  <2>1. \A i \in DOMAIN stack' : stack'[i].key \in DOMAIN slots'
    BY <1>1, <1>2 DEF SlotsKnown, BusInv
  <2>2. \A i \in DOMAIN outbound' : outbound'[i].key \in DOMAIN slots'
    <3>1. CASE outbound' = outbound
      BY <1>2, <3>1 DEF SlotsKnown, BusInv
    <3>2. CASE outbound' = outbound \o Replies(n)
      <4>1. /\ DOMAIN outbound' = 1..(Len(outbound) + n)
            /\ \A i \in 1..Len(outbound) : outbound'[i] = outbound[i]
            /\ \A i \in (Len(outbound) + 1)..(Len(outbound) + n) :
                 i - Len(outbound) \in 1..n /\ outbound'[i] = Replies(n)[i - Len(outbound)]
        BY <1>4, <3>2
      <4>2. \A i \in 1..(Len(outbound) + n) :
              i \in 1..Len(outbound) \/ i \in (Len(outbound) + 1)..(Len(outbound) + n)
        BY <1>2
      <4>3. \A i \in 1..Len(outbound) : outbound'[i].key \in DOMAIN slots'
        BY <1>2, <4>1 DEF SlotsKnown, BusInv
      <4>4. \A i \in (Len(outbound) + 1)..(Len(outbound) + n) : outbound'[i].key \in DOMAIN slots'
        BY <1>1, <1>2, <1>3, <4>1
      <4> QED
        BY <4>1, <4>2, <4>3, <4>4
    <3> QED
      BY <3>1, <3>2
  <2> QED
    BY <2>1, <2>2 DEF SlotsKnown
<1> QED
  BY <1>1, <1>2, <1>4, <1>6, <1>7, <1>8, <1>9

\* Steps that touch no handler: the slots and the grants may grow, B may shrink.
LEMMA QuietStep ==
  ASSUME BusInv, UNCHANGED <<stack, pumpActive>>,
         \A k \in DOMAIN slots : k \in DOMAIN slots' /\ slots'[k] = slots[k],
         grants \subseteq grants',
         outbound' = outbound \/ (outbound # <<>> /\ outbound' = Tail(outbound))
  PROVE  /\ outbound' \in Seq(Output)
         /\ (ReservationHolds /\ PumpGuardExact /\ AuthorizedExecution /\ SlotsKnown)'
<1>1. outbound \in Seq(Output) /\ stack \in Seq(Frame)
  BY DEF BusInv, PumpInv, TypeOK
<1>2. /\ outbound' \in Seq(Output)
      /\ Len(outbound) \in Nat /\ Len(outbound') \in Nat /\ Len(outbound') <= Len(outbound)
      /\ \A i \in DOMAIN outbound' : \E j \in DOMAIN outbound : outbound'[i] = outbound[j]
  <2>1. CASE outbound' = outbound
    BY <1>1, <2>1
  <2>2. CASE outbound # <<>> /\ outbound' = Tail(outbound)
    <3>1. /\ outbound' \in Seq(Output) /\ Len(outbound) \in Nat \ {0}
          /\ Len(outbound') = Len(outbound) - 1
          /\ DOMAIN outbound' = 1..(Len(outbound) - 1) /\ DOMAIN outbound = 1..Len(outbound)
          /\ \A i \in 1..(Len(outbound) - 1) : outbound'[i] = outbound[i + 1]
      BY <1>1, <2>2, TailFacts
    <3>2. \A i \in DOMAIN outbound' : i + 1 \in DOMAIN outbound /\ outbound'[i] = outbound[i + 1]
      BY <3>1
    <3> QED
      BY <3>1, <3>2
  <2> QED
    BY <2>1, <2>2
<1>3. OutCapacity \in Nat
  BY RuntimeAssumption DEF RuntimeAssumption
<1>4. ReservationHolds'
  <2>1. \A i \in DOMAIN stack : slots[stack[i].key].maxOutputs \in Nat
    BY RegistryAssumption
       DEF BusInv, SlotsKnown, RegistriesInv, RegistriesTypeOK, Slot, RegistryAssumption
  <2>2. Len(outbound') <= OutCapacity
    BY <1>2, <1>3 DEF BusInv, PumpInv, ReservationHolds
  <2>3. ASSUME NEW i \in DOMAIN stack, stack[i].async
        PROVE  Len(outbound') + slots'[stack[i].key].maxOutputs <= OutCapacity
    <3>1. Len(outbound) + slots[stack[i].key].maxOutputs <= OutCapacity
      BY <2>3 DEF BusInv, PumpInv, ReservationHolds
    <3>2. slots'[stack[i].key] = slots[stack[i].key]
      BY DEF BusInv, SlotsKnown
    <3> QED
      BY <1>2, <1>3, <2>1, <3>1, <3>2
  <2> QED
    BY <2>2, <2>3 DEF ReservationHolds
<1>5. PumpGuardExact' /\ AuthorizedExecution'
  BY DEF BusInv, PumpInv, PumpGuardExact, AuthorizedExecution
<1>6. SlotsKnown'
  BY <1>2 DEF BusInv, SlotsKnown
<1> QED
  BY <1>2, <1>4, <1>5, <1>6

LEMMA BusInit == Init => BusInv
<1> SUFFICES ASSUME Init PROVE BusInv
  OBVIOUS
<1>1. RegistriesInv
  BY SafeInit DEF Init
<1>2. /\ stack = <<>> /\ outbound = <<>> /\ inbound = <<>> /\ accepted = <<>> /\ consumed = <<>>
      /\ grants = {} /\ pumpActive = FALSE /\ nextId = 1
      /\ MaxId \in Nat /\ OutCapacity \in Nat /\ InCapacity \in Nat
  BY RuntimeAssumption DEF Init, RuntimeAssumption
<1>3. DOMAIN stack = {} /\ DOMAIN outbound = {} /\ Len(outbound) = 0 /\ Len(inbound) = 0
  BY <1>2
<1>4. TypeOK
  <2>1. /\ inbound \in Seq(Envelope) /\ outbound \in Seq(Output) /\ stack \in Seq(Frame)
        /\ accepted \in Seq(Ids) /\ consumed \in Seq(Ids)
    BY <1>2
  <2>2. Len(inbound) <= InCapacity /\ nextId \in 1..(MaxId + 1)
    BY <1>2, <1>3
  <2>3. pumpActive \in BOOLEAN /\ grants \subseteq Senders \X Capabilities
    BY <1>2
  <2> QED
    BY <2>1, <2>2, <2>3 DEF TypeOK
<1>5. ReservationHolds
  BY <1>2, <1>3 DEF ReservationHolds
<1>6. PumpGuardExact
  BY <1>2, <1>3 DEF PumpGuardExact
<1>7. AuthorizedExecution /\ SlotsKnown
  BY <1>3 DEF AuthorizedExecution, SlotsKnown
<1> QED
  BY <1>1, <1>4, <1>5, <1>6, <1>7 DEF BusInv, PumpInv

\* The types of everything but the stack and B, which the lemmas above have.
OtherTypes == /\ inbound \in Seq(Envelope) /\ Len(inbound) <= InCapacity
              /\ grants \subseteq Senders \X Capabilities
              /\ nextId \in 1..(MaxId + 1)
              /\ accepted \in Seq(Ids) /\ consumed \in Seq(Ids)


LEMMA NewEnvelopeTyped ==
  ASSUME nextId \in Ids, NEW a \in Address, NEW s \in Senders
  PROVE  /\ NewEnvelope(a, s) \in Envelope /\ NewEnvelope(a, s).id = nextId
         /\ NewEnvelope(a, s).address = a
         /\ nextId + 1 \in 1..(MaxId + 1)
BY RuntimeAssumption DEF NewEnvelope, Envelope, Ids, RuntimeAssumption

LEMMA BusNext == BusInv /\ [Next]_vars => BusInv'
<1> SUFFICES ASSUME BusInv, [Next]_vars
             PROVE  BusInv'
  OBVIOUS
<1>1. /\ RegistriesInv'
      /\ \A k \in DOMAIN slots : k \in DOMAIN slots' /\ slots'[k] = slots[k]
  BY SlotsStay DEF BusInv
<1>2. OtherTypes /\ stack \in Seq(Frame) /\ pumpActive \in BOOLEAN /\ outbound \in Seq(Output)
  BY DEF BusInv, PumpInv, TypeOK, OtherTypes
<1> DEFINE Goal == /\ OtherTypes' /\ stack' \in Seq(Frame) /\ outbound' \in Seq(Output)
                   /\ pumpActive' \in BOOLEAN
                   /\ (ReservationHolds /\ PumpGuardExact /\ AuthorizedExecution /\ SlotsKnown)'
<1>3. ASSUME UNCHANGED <<stack, pumpActive>>, OtherTypes', grants \subseteq grants',
             outbound' = outbound \/ (outbound # <<>> /\ outbound' = Tail(outbound))
      PROVE  Goal
  BY <1>1, <1>2, <1>3, QuietStep
<1> HIDE DEF Goal
<1>4. ASSUME NEW a \in Address, NEW s \in Senders, Submit(a, s)
      PROVE  Goal
  <2> DEFINE e == NewEnvelope(a, s)
  <2>1. e \in Envelope /\ e.id = nextId /\ nextId + 1 \in 1..(MaxId + 1) /\ nextId \in Ids
    BY <1>4, NewEnvelopeTyped DEF Submit
  <2>2. /\ inbound' = Append(inbound, e) /\ accepted' = Append(accepted, e.id)
        /\ nextId' = nextId + 1 /\ Len(inbound) < InCapacity
        /\ UNCHANGED <<registries, outbound, grants, stack, pumpActive, consumed>>
    BY <1>4 DEF Submit
  <2> HIDE DEF e
  <2>3. OtherTypes'
    BY <1>2, <2>1, <2>2, RuntimeAssumption DEF OtherTypes, RuntimeAssumption
  <2> QED
    BY <1>3, <2>2, <2>3
<1>5. ASSUME NEW a \in Address, NEW s \in Senders, Dispatch(a, s)
      PROVE  Goal
  <2> DEFINE e == NewEnvelope(a, s)
  <2>1. e \in Envelope /\ nextId + 1 \in 1..(MaxId + 1)
    BY <1>5, NewEnvelopeTyped DEF Dispatch
  <2>2. /\ ValidInbound(e) /\ Reacts(e) /\ Run(e, FALSE) /\ nextId' = nextId + 1
        /\ UNCHANGED <<registries, inbound, outbound, grants, pumpActive, accepted, consumed>>
    BY <1>5 DEF Dispatch
  <2> HIDE DEF e
  <2>3. OtherTypes'
    BY <1>2, <2>1, <2>2 DEF OtherTypes
  <2>4. pumpActive' = (pumpActive \/ FALSE)
    BY <1>2, <2>2
  <2> QED
    BY <1>2, <2>1, <2>2, <2>3, <2>4, PushStep DEF Goal
<1>6. ASSUME PumpOne
      PROVE  Goal
  <2> DEFINE e == Head(inbound)
  <2>1. /\ inbound \in Seq(Envelope) /\ inbound # <<>> /\ consumed \in Seq(Ids)
    BY <1>2, <1>6 DEF PumpOne, OtherTypes
  <2>2. e \in Envelope /\ Tail(inbound) \in Seq(Envelope) /\ Len(Tail(inbound)) = Len(inbound) - 1
        /\ Len(inbound) \in Nat
    BY <2>1, TailFacts
  <2>3. /\ ~pumpActive /\ ValidInbound(e) /\ Limit(e) <= Available /\ pumpActive' = Reacts(e)
        /\ inbound' = Tail(inbound) /\ consumed' = Append(consumed, e.id) /\ Run(e, TRUE)
        /\ UNCHANGED <<registries, outbound, grants, nextId, accepted>>
    BY <1>6 DEF PumpOne
  <2> HIDE DEF e
  <2>4. OtherTypes'
    <3>1. e.id \in Ids
      BY <2>2 DEF Envelope
    <3>2. Len(inbound') <= InCapacity
      BY <1>2, <2>2, <2>3, RuntimeAssumption DEF OtherTypes, RuntimeAssumption
    <3> QED
      BY <1>2, <2>1, <2>2, <2>3, <3>1, <3>2, AppendFacts DEF OtherTypes
  <2>5. CASE Reacts(e)
    <3>1. pumpActive' = (pumpActive \/ TRUE)
      BY <2>3, <2>5
    <3> QED
      BY <1>2, <2>2, <2>3, <2>4, <2>5, <3>1, PushStep DEF Goal
  \* The action is gone: the message is consumed and nothing runs.
  <2>6. CASE ~Reacts(e)
    <3>1. stack' = stack
      BY <2>3, <2>6 DEF Run
    <3>2. ~pumpActive'
      BY <2>3, <2>6
    <3>3. pumpActive' \in BOOLEAN
      BY <2>3 DEF Reacts
    <3>4. pumpActive' = pumpActive
      BY <1>2, <2>3, <3>2, <3>3
    <3> QED
      BY <1>3, <2>3, <2>4, <3>1, <3>4
  <2> QED
    BY <2>5, <2>6
<1>7. ASSUME HandlerThrows
      PROVE  Goal
  <2>1. /\ stack # <<>> /\ Return /\ pumpActive' = (pumpActive /\ ~Top.async)
        /\ UNCHANGED <<registries, inbound, outbound, grants, nextId, accepted, consumed>>
    BY <1>7 DEF HandlerThrows
  <2>2. 0 \in Nat /\ 0 <= slots[Top.key].maxOutputs /\ nextId + 0 <= MaxId + 1
    BY <1>2, <2>1, TopTyped, RuntimeAssumption DEF OtherTypes, RuntimeAssumption
  <2>3. OtherTypes'
    BY <1>2, <2>1 DEF OtherTypes
  <2> QED
    BY <2>1, <2>2, <2>3, PopStep DEF Goal
<1>8. ASSUME NEW n \in 0..(OutCapacity + 1), HandlerReturns(n)
      PROVE  Goal
  <2>1. /\ stack # <<>> /\ Return /\ pumpActive' = (pumpActive /\ ~Top.async)
        /\ nextId + n <= MaxId + 1 /\ nextId' = nextId + n
        /\ outbound' = IF Top.async THEN outbound \o Replies(n) ELSE outbound
        /\ n <= slots[Top.key].maxOutputs
        /\ UNCHANGED <<registries, inbound, grants, accepted, consumed>>
    BY <1>8 DEF HandlerReturns, ContractAccepts
  <2>2. n \in Nat
    BY RuntimeAssumption DEF RuntimeAssumption
  <2>3. OtherTypes'
    BY <1>2, <2>1, <2>2, RuntimeAssumption DEF OtherTypes, RuntimeAssumption
  <2>4. outbound' = outbound \/ (Top.async /\ outbound' = outbound \o Replies(n))
    BY <2>1
  <2> QED
    BY <2>1, <2>2, <2>3, <2>4, PopStep DEF Goal
<1>9. ASSUME NextOutput
      PROVE  Goal
  BY <1>2, <1>3, <1>9 DEF NextOutput, OtherTypes
<1>10. ASSUME NEW s \in Senders, NEW c \in Capabilities, GrantCapability(s, c)
       PROVE  Goal
  BY <1>2, <1>3, <1>10 DEF GrantCapability, OtherTypes
<1>11. ASSUME Registration \/ UNCHANGED vars
       PROVE  Goal
  BY <1>2, <1>3, <1>11 DEF Registration, vars, bus, OtherTypes
<1>12. Goal
  BY <1>4, <1>5, <1>6, <1>7, <1>8, <1>9, <1>10, <1>11 DEF Next, HandlerEnds
<1>13. (ReservationHolds /\ PumpGuardExact /\ AuthorizedExecution /\ SlotsKnown)'
  BY <1>12 DEF Goal
<1> QED
  BY <1>1, <1>12, <1>13 DEF Goal, BusInv, PumpInv, TypeOK, OtherTypes

\* The room that a pumped message reserved stays while its handler runs, whatever
\* that does; the guard of the pump is up exactly while there is one; and no
\* handler runs for a sender without the grant of its slot.
THEOREM PumpSafe == Spec => []PumpInv
<1>1. BusInv => PumpInv
  BY DEF BusInv
<1> QED
  BY <1>1, BusInit, BusNext, PTL DEF Spec
-----------------------------------------------------------------------------
(* Every message and every output is accounted for.                        *)

\* Ids are fresh when they are minted, A takes each once, and a running handler
\* knows by its flag whether its message came through A: without this a second
\* handler could answer a message that has been answered.
Provenance ==
  /\ \A i \in DOMAIN accepted : accepted[i] < nextId
  /\ \A i, j \in DOMAIN accepted : accepted[i] = accepted[j] => i = j
  /\ \A i \in DOMAIN stack :
       /\ stack[i].message.id < nextId
       /\ stack[i].async => stack[i].message.id \in ToSet(consumed)
       /\ ~stack[i].async => stack[i].message.id \notin ToSet(accepted)
  /\ \A i \in DOMAIN outbound : outbound[i].id < nextId

\* OutputsAnswerConsumed by positions of B.
Answers(s, c) == {i \in DOMAIN s : s[i].cause = c}
OutputsByPosition ==
  /\ \A i, j \in DOMAIN outbound : outbound[i].id = outbound[j].id => i = j
  /\ \A i \in DOMAIN outbound :
       /\ outbound[i].cause \in ToSet(consumed)
       /\ \A j \in DOMAIN stack : stack[j].message.id # outbound[i].cause
       /\ Cardinality(Answers(outbound, outbound[i].cause)) <= slots[outbound[i].key].maxOutputs

LEMMA ByPosition == OutputsByPosition <=> OutputsAnswerConsumed
BY DEF OutputsByPosition, OutputsAnswerConsumed, Answers, ToSet

TraceInv == BusInv /\ AsyncFifo /\ Provenance /\ OutputsByPosition

LEMMA TraceTypes ==
  ASSUME BusInv
  PROVE  /\ inbound \in Seq(Envelope) /\ outbound \in Seq(Output) /\ stack \in Seq(Frame)
         /\ accepted \in Seq(Ids) /\ consumed \in Seq(Ids)
         /\ nextId \in Nat /\ MaxId \in Nat
         /\ IdsOf(inbound) \in Seq(Ids) /\ Len(IdsOf(inbound)) = Len(inbound)
         /\ \A i \in 1..Len(inbound) : IdsOf(inbound)[i] = inbound[i].id
<1>1. /\ inbound \in Seq(Envelope) /\ outbound \in Seq(Output) /\ stack \in Seq(Frame)
      /\ accepted \in Seq(Ids) /\ consumed \in Seq(Ids)
      /\ nextId \in Nat /\ MaxId \in Nat
  BY RuntimeAssumption DEF BusInv, PumpInv, TypeOK, RuntimeAssumption
<1>2. DOMAIN inbound = 1..Len(inbound) /\ Len(inbound) \in Nat
      /\ \A i \in 1..Len(inbound) : inbound[i] \in Envelope
  BY <1>1
<1>3. \A i \in 1..Len(inbound) : inbound[i].id \in Ids
  BY <1>2 DEF Envelope
<1>4. IdsOf(inbound) \in Seq(Ids) /\ Len(IdsOf(inbound)) = Len(inbound)
      /\ \A i \in 1..Len(inbound) : IdsOf(inbound)[i] = inbound[i].id
  BY <1>2, <1>3 DEF IdsOf
<1> QED
  BY <1>1, <1>4

\* What A took is what went through it, in order: the head comes next.
LEMMA FifoFacts ==
  ASSUME BusInv, AsyncFifo
  PROVE  /\ Len(accepted) = Len(consumed) + Len(inbound)
         /\ \A i \in 1..Len(consumed) : accepted[i] = consumed[i]
         /\ \A i \in 1..Len(inbound) : accepted[Len(consumed) + i] = inbound[i].id
         /\ ToSet(consumed) \subseteq ToSet(accepted)
<1> DEFINE t == IdsOf(inbound)
<1>1. accepted = consumed \o t
  BY DEF AsyncFifo
<1>0. t \in Seq(Ids) /\ consumed \in Seq(Ids) /\ Len(t) = Len(inbound)
      /\ \A i \in 1..Len(inbound) : t[i] = inbound[i].id
  BY TraceTypes
<1> HIDE DEF t
<1>2. /\ Len(accepted) = Len(consumed) + Len(inbound)
      /\ \A i \in 1..Len(consumed) : accepted[i] = consumed[i]
      /\ DOMAIN accepted = 1..(Len(consumed) + Len(inbound)) /\ DOMAIN consumed = 1..Len(consumed)
      /\ Len(consumed) \in Nat /\ Len(inbound) \in Nat
  <2>1. /\ Len(accepted) = Len(consumed) + Len(t)
        /\ \A i \in 1..Len(consumed) : accepted[i] = consumed[i]
        /\ DOMAIN accepted = 1..(Len(consumed) + Len(t)) /\ DOMAIN consumed = 1..Len(consumed)
        /\ Len(consumed) \in Nat /\ Len(t) \in Nat
    <3>1. t \in Seq(Ids) /\ consumed \in Seq(Ids)
      BY <1>0
    <3> QED
      BY <1>1, <3>1, ConcatFacts
  <2> QED
    BY <1>0, <2>1
<1>3. ASSUME NEW i \in 1..Len(inbound)
      PROVE  accepted[Len(consumed) + i] = inbound[i].id
  BY <1>1, <1>2, <1>0
<1>4. ToSet(consumed) \subseteq ToSet(accepted)
  BY <1>2 DEF ToSet
<1> QED
  BY <1>2, <1>3, <1>4

LEMMA SetOfAppend ==
  ASSUME NEW S, NEW s \in Seq(S), NEW x \in S
  PROVE  ToSet(Append(s, x)) = ToSet(s) \cup {x}
<1>1. /\ DOMAIN s = 1..Len(s) /\ Len(s) \in Nat
      /\ DOMAIN Append(s, x) = 1..(Len(s) + 1)
      /\ \A i \in 1..Len(s) : Append(s, x)[i] = s[i]
      /\ Append(s, x)[Len(s) + 1] = x
  BY AppendFacts
<1> QED
  BY <1>1 DEF ToSet

\* Taking an output away, and adding the replies of one handler.
LEMMA CountTail ==
  ASSUME NEW s \in Seq(Output), s # <<>>, NEW c
  PROVE  /\ IsFiniteSet(Answers(Tail(s), c)) /\ IsFiniteSet(Answers(s, c))
         /\ Cardinality(Answers(Tail(s), c)) <= Cardinality(Answers(s, c))
<1>1. /\ DOMAIN s = 1..Len(s) /\ Len(s) \in Nat \ {0}
      /\ DOMAIN Tail(s) = 1..(Len(s) - 1)
      /\ \A i \in 1..(Len(s) - 1) : Tail(s)[i] = s[i + 1]
  BY TailFacts
<1>2. IsFiniteSet(Answers(s, c))
  <2>1. IsFiniteSet(1..Len(s))
    BY <1>1, FS_Interval
  <2>2. Answers(s, c) \in SUBSET (1..Len(s))
    BY <1>1 DEF Answers
  <2> QED
    BY <2>1, <2>2, FS_Subset
<1> DEFINE f == [i \in Answers(Tail(s), c) |-> i + 1]
<1>3. \A i \in Answers(Tail(s), c) : i \in Nat /\ i + 1 \in Answers(s, c)
  BY <1>1 DEF Answers
<1>4. f \in Injection(Answers(Tail(s), c), Answers(s, c))
  BY <1>3 DEF Injection, IsInjective
<1> QED
  BY <1>2, <1>4, FS_Injection

LEMMA CountReplies ==
  ASSUME NEW s \in Seq(Output), NEW t \in Seq(Output), NEW c,
         \A i \in DOMAIN t : t[i].cause = c,
         \A i \in DOMAIN s : s[i].cause # c
  PROVE  /\ Cardinality(Answers(s \o t, c)) = Len(t)
         /\ \A d : d # c => Answers(s \o t, d) = Answers(s, d)
<1>1. /\ DOMAIN s = 1..Len(s) /\ Len(s) \in Nat /\ Len(t) \in Nat
      /\ DOMAIN (s \o t) = 1..(Len(s) + Len(t))
      /\ \A i \in 1..Len(s) : (s \o t)[i] = s[i]
      /\ \A i \in (Len(s) + 1)..(Len(s) + Len(t)) :
           i - Len(s) \in 1..Len(t) /\ (s \o t)[i] = t[i - Len(s)]
  BY ConcatFacts
<1>2. \A i \in 1..(Len(s) + Len(t)) : i \in 1..Len(s) \/ i \in (Len(s) + 1)..(Len(s) + Len(t))
  BY <1>1
<1>3. \A i \in (Len(s) + 1)..(Len(s) + Len(t)) : i \in 1..(Len(s) + Len(t)) /\ (s \o t)[i].cause = c
  BY <1>1
<1>4. \A i \in 1..Len(s) : i \in 1..(Len(s) + Len(t)) /\ (s \o t)[i].cause = s[i].cause
  BY <1>1
<1>5. Answers(s \o t, c) = (Len(s) + 1)..(Len(s) + Len(t))
  BY <1>1, <1>2, <1>3, <1>4 DEF Answers
<1>6. ASSUME NEW d, d # c
      PROVE  Answers(s \o t, d) = Answers(s, d)
  BY <1>1, <1>2, <1>3, <1>4, <1>6 DEF Answers
<1>7. Cardinality((Len(s) + 1)..(Len(s) + Len(t))) = Len(t)
  <2> DEFINE a == Len(s) + 1
             b == Len(s) + Len(t)
  <2>1. a \in Int /\ b \in Int /\ (IF a > b THEN 0 ELSE b - a + 1) = Len(t)
    BY <1>1
  <2> HIDE DEF a, b
  <2>2. Cardinality(a..b) = Len(t)
    BY <2>1, FS_Interval
  <2> QED
    BY <2>2 DEF a, b
<1> QED
  BY <1>5, <1>6, <1>7

\* What a pushed frame must satisfy.
LEMMA TracePush ==
  ASSUME TraceInv, NEW f \in Frame, stack' = Append(stack, f),
         UNCHANGED <<accepted, outbound, slots>>,
         nextId' \in Nat, nextId <= nextId', f.message.id < nextId',
         ToSet(consumed) \subseteq ToSet(consumed'),
         f.async => f.message.id \in ToSet(consumed'),
         ~f.async => f.message.id \notin ToSet(accepted),
         f.message.id \notin ToSet(consumed)
  PROVE  (Provenance /\ OutputsByPosition)'
<1>1. /\ Len(stack) \in Nat /\ DOMAIN stack = 1..Len(stack)
      /\ DOMAIN stack' = 1..(Len(stack) + 1)
      /\ \A i \in 1..Len(stack) : stack'[i] = stack[i]
      /\ stack'[Len(stack) + 1] = f
  BY TraceTypes, AppendFacts DEF TraceInv
<1>2. \A i \in DOMAIN stack' : i \in DOMAIN stack \/ i = Len(stack) + 1
  BY <1>1
<1>3. /\ accepted \in Seq(Ids) /\ nextId \in Nat /\ outbound \in Seq(Output) /\ stack \in Seq(Frame)
  BY TraceTypes DEF TraceInv
<1>4. /\ \A i \in DOMAIN accepted : accepted[i] \in Nat
      /\ \A i \in DOMAIN outbound : outbound[i].id \in Nat
      /\ \A i \in DOMAIN stack : stack[i].message.id \in Nat
  <2>1. \A i \in DOMAIN accepted : accepted[i] \in Ids
    BY <1>3
  <2>2. \A i \in DOMAIN outbound : outbound[i] \in Output
    BY <1>3
  <2>3. \A i \in DOMAIN stack : stack[i] \in Frame
    BY <1>3
  <2> QED
    BY <2>1, <2>2, <2>3 DEF Ids, Output, Frame, Envelope
<1>5. Provenance'
  <2>1. \A i \in DOMAIN accepted' : accepted'[i] < nextId'
    BY <1>3, <1>4 DEF TraceInv, Provenance
  <2>2. \A i, j \in DOMAIN accepted' : accepted'[i] = accepted'[j] => i = j
    BY DEF TraceInv, Provenance
  <2>3. \A i \in DOMAIN outbound' : outbound'[i].id < nextId'
    BY <1>3, <1>4 DEF TraceInv, Provenance
  <2>4. ASSUME NEW i \in DOMAIN stack
        PROVE  /\ stack'[i].message.id < nextId'
               /\ stack'[i].async => stack'[i].message.id \in ToSet(consumed')
               /\ ~stack'[i].async => stack'[i].message.id \notin ToSet(accepted')
    <3>1. stack'[i] = stack[i]
      BY <1>1
    <3>2. stack[i].message.id < nextId'
      BY <1>3, <1>4 DEF TraceInv, Provenance
    <3>3. /\ stack[i].async => stack[i].message.id \in ToSet(consumed)
          /\ ~stack[i].async => stack[i].message.id \notin ToSet(accepted)
      BY DEF TraceInv, Provenance
    <3>4. ToSet(accepted') = ToSet(accepted)
      OBVIOUS
    <3> QED
      BY <3>1, <3>2, <3>3, <3>4
  <2>5. ToSet(accepted') = ToSet(accepted)
    OBVIOUS
  <2>6. \A i \in DOMAIN stack' :
          /\ stack'[i].message.id < nextId'
          /\ stack'[i].async => stack'[i].message.id \in ToSet(consumed')
          /\ ~stack'[i].async => stack'[i].message.id \notin ToSet(accepted')
    BY <1>1, <1>2, <2>4, <2>5, Zenon
  <2> QED
    BY <2>1, <2>2, <2>3, <2>6 DEF Provenance
<1>6. OutputsByPosition'
  <2>1. \A i \in DOMAIN outbound : \A j \in DOMAIN stack' : stack'[j].message.id # outbound[i].cause
    <3> SUFFICES ASSUME NEW i \in DOMAIN outbound, NEW j \in DOMAIN stack'
                 PROVE  stack'[j].message.id # outbound[i].cause
      OBVIOUS
    <3>1. outbound[i].cause \in ToSet(consumed)
      BY DEF TraceInv, OutputsByPosition
    <3>2. CASE j \in DOMAIN stack
      BY <1>1, <3>2 DEF TraceInv, OutputsByPosition
    <3>3. CASE j = Len(stack) + 1
      BY <1>1, <3>1, <3>3
    <3> QED
      BY <1>2, <3>2, <3>3
  <2> QED
    BY <2>1 DEF TraceInv, OutputsByPosition
<1> QED
  BY <1>5, <1>6

LEMMA TracePop ==
  ASSUME TraceInv, stack # <<>>, Return, NEW n \in Nat, n <= slots[Top.key].maxOutputs,
         nextId + n <= MaxId + 1, nextId' = nextId + n,
         outbound' = outbound \/ (Top.async /\ outbound' = outbound \o Replies(n)),
         UNCHANGED <<registries, accepted, consumed>>
  PROVE  (Provenance /\ OutputsByPosition)'
<1> USE DEF TraceInv
<1>1. /\ DOMAIN stack = 1..Len(stack) /\ Len(stack) \in Nat \ {0}
      /\ Top = stack[Len(stack)] /\ Top \in Frame
      /\ stack' = Front(stack) /\ DOMAIN stack' = 1..(Len(stack) - 1)
      /\ \A i \in 1..(Len(stack) - 1) : stack'[i] = stack[i] /\ i \in DOMAIN stack /\ i # Len(stack)
      /\ Len(stack) \in DOMAIN stack /\ slots[Top.key].maxOutputs \in Nat
  <2>1. /\ Top \in Frame /\ Top = stack[Len(stack)]
        /\ DOMAIN stack = 1..Len(stack) /\ Len(stack) \in Nat \ {0}
        /\ DOMAIN Front(stack) = 1..(Len(stack) - 1)
        /\ \A i \in 1..(Len(stack) - 1) : Front(stack)[i] = stack[i]
        /\ slots[Top.key].maxOutputs \in Nat
    BY TopTyped
  <2>2. /\ Len(stack) \in 1..Len(stack)
        /\ \A i \in 1..(Len(stack) - 1) : i \in 1..Len(stack) /\ i # Len(stack)
    BY <2>1, Positions
  <2> QED
    BY <2>1, <2>2 DEF Return
<1>2. /\ accepted \in Seq(Ids) /\ nextId \in Nat /\ outbound \in Seq(Output) /\ stack \in Seq(Frame)
      /\ Len(outbound) \in Nat /\ DOMAIN outbound = 1..Len(outbound)
  BY TraceTypes
<1>3. /\ \A i \in DOMAIN accepted : accepted[i] \in Nat
      /\ \A i \in DOMAIN outbound : outbound[i].id \in Nat
      /\ \A i \in DOMAIN stack : stack[i].message.id \in Nat
  <2>1. \A i \in DOMAIN accepted : accepted[i] \in Ids
    BY <1>2
  <2>2. \A i \in DOMAIN outbound : outbound[i] \in Output
    BY <1>2
  <2>3. \A i \in DOMAIN stack : stack[i] \in Frame
    BY <1>2
  <2> QED
    BY <2>1, <2>2, <2>3 DEF Ids, Output, Frame, Envelope
<1>4. /\ ToSet(accepted') = ToSet(accepted) /\ ToSet(consumed') = ToSet(consumed)
      /\ slots' = slots
  BY DEF registries
\* The frames that stay.
<1>5. \A i \in DOMAIN stack' :
        /\ stack'[i].message.id < nextId'
        /\ stack'[i].async => stack'[i].message.id \in ToSet(consumed')
        /\ ~stack'[i].async => stack'[i].message.id \notin ToSet(accepted')
  <2> SUFFICES ASSUME NEW i \in DOMAIN stack'
               PROVE  /\ stack'[i].message.id < nextId'
                      /\ stack'[i].async => stack'[i].message.id \in ToSet(consumed')
                      /\ ~stack'[i].async => stack'[i].message.id \notin ToSet(accepted')
    OBVIOUS
  <2>1. stack'[i] = stack[i] /\ i \in DOMAIN stack
    BY <1>1
  <2>2. stack[i].message.id < nextId'
    BY <1>2, <1>3, <2>1 DEF Provenance
  <2>3. /\ stack[i].async => stack[i].message.id \in ToSet(consumed)
        /\ ~stack[i].async => stack[i].message.id \notin ToSet(accepted)
    BY <2>1 DEF Provenance
  <2> QED
    BY <1>4, <2>1, <2>2, <2>3
<1>6. /\ \A i \in DOMAIN accepted' : accepted'[i] < nextId'
      /\ \A i, j \in DOMAIN accepted' : accepted'[i] = accepted'[j] => i = j
  BY <1>2, <1>3 DEF Provenance
<1>7. CASE outbound' = outbound
  <2>1. \A i \in DOMAIN outbound' : outbound'[i].id < nextId'
    BY <1>2, <1>3, <1>7 DEF Provenance
  <2>2. Provenance'
    BY <1>5, <1>6, <2>1 DEF Provenance
  <2>3. ASSUME NEW i \in DOMAIN outbound
        PROVE  /\ outbound[i].cause \in ToSet(consumed')
               /\ \A j \in DOMAIN stack' : stack'[j].message.id # outbound[i].cause
               /\ Cardinality(Answers(outbound, outbound[i].cause)) <= slots'[outbound[i].key].maxOutputs
    <3>1. /\ outbound[i].cause \in ToSet(consumed)
          /\ \A j \in DOMAIN stack : stack[j].message.id # outbound[i].cause
          /\ Cardinality(Answers(outbound, outbound[i].cause)) <= slots[outbound[i].key].maxOutputs
      BY DEF OutputsByPosition
    <3>2. \A j \in DOMAIN stack' : stack'[j] = stack[j] /\ j \in DOMAIN stack
      BY <1>1
    <3> QED
      BY <1>4, <3>1, <3>2
  <2>4. OutputsByPosition'
    BY <1>7, <2>3 DEF OutputsByPosition
  <2> QED
    BY <2>2, <2>4
<1>8. CASE Top.async /\ outbound' = outbound \o Replies(n)
  <2> DEFINE t == Replies(n)
             c == Top.message.id
  <2>1. /\ t \in Seq(Output) /\ Len(t) = n /\ DOMAIN t = 1..n
        /\ \A i \in 1..n : t[i].id = nextId + i - 1 /\ t[i].cause = c /\ t[i].key = Top.key
    BY RepliesTyped
  <2>2. c \in ToSet(consumed)
    <3>1. Len(stack) \in DOMAIN stack /\ stack[Len(stack)].async
      BY <1>1, <1>8
    <3>2. stack[Len(stack)].message.id \in ToSet(consumed)
      BY <3>1 DEF Provenance
    <3> QED
      BY <1>1, <3>2
  <2>3. \A i \in DOMAIN outbound : outbound[i].cause # c
    BY <1>1 DEF OutputsByPosition
  \* No frame below has the id of the answered message: it is not pumped.
  <2>4. \A i \in DOMAIN stack' : stack'[i].message.id # c
    <3> SUFFICES ASSUME NEW i \in DOMAIN stack'
                 PROVE  stack'[i].message.id # c
      OBVIOUS
    <3>1. ~stack[i].async /\ stack'[i] = stack[i] /\ i \in DOMAIN stack
      <4>1. stack'[i] = stack[i] /\ i \in DOMAIN stack /\ i # Len(stack)
        BY <1>1
      <4>2. Len(stack) \in DOMAIN stack /\ stack[Len(stack)].async
        BY <1>1, <1>8
      <4>3. \A k, j \in DOMAIN stack : stack[k].async /\ stack[j].async => k = j
        BY DEF BusInv, PumpInv, PumpGuardExact
      <4> QED
        BY <4>1, <4>2, <4>3, Zenon
    <3>2. stack[i].message.id \notin ToSet(accepted)
      BY <3>1 DEF Provenance
    <3> QED
      BY <2>2, <3>1, <3>2, FifoFacts
  <2> HIDE DEF t, c
  <2>5. outbound' = outbound \o t
    BY <1>8 DEF t
  <2>6. /\ DOMAIN outbound' = 1..(Len(outbound) + n)
        /\ \A i \in 1..Len(outbound) : outbound'[i] = outbound[i]
        /\ \A i \in (Len(outbound) + 1)..(Len(outbound) + n) :
             i - Len(outbound) \in 1..n /\ outbound'[i] = t[i - Len(outbound)]
    <3>1. outbound \in Seq(Output) /\ t \in Seq(Output)
      BY <1>2, <2>1
    <3>2. /\ DOMAIN outbound' = 1..(Len(outbound) + Len(t))
          /\ \A i \in 1..Len(outbound) : outbound'[i] = outbound[i]
          /\ \A i \in (Len(outbound) + 1)..(Len(outbound) + Len(t)) :
               i - Len(outbound) \in 1..Len(t) /\ outbound'[i] = t[i - Len(outbound)]
      BY <2>5, <3>1, ConcatFacts
    <3> QED
      BY <2>1, <3>2
  <2>7. \A i \in DOMAIN outbound' :
          i \in 1..Len(outbound) \/ i \in (Len(outbound) + 1)..(Len(outbound) + n)
    BY <1>2, <2>6
  <2>8. \A i \in (Len(outbound) + 1)..(Len(outbound) + n) :
          /\ outbound'[i].id = nextId + (i - Len(outbound)) - 1
          /\ outbound'[i].cause = c /\ outbound'[i].key = Top.key
    BY <2>1, <2>6
  <2>9. \A i \in 1..Len(outbound) : outbound'[i].id < nextId /\ outbound'[i].id \in Nat
    BY <1>2, <1>3, <2>6 DEF Provenance
  <2>10. Provenance'
    <3>1. \A i \in 1..Len(outbound) : outbound'[i].id < nextId'
      BY <1>2, <2>9
    <3>2. \A i \in (Len(outbound) + 1)..(Len(outbound) + n) : outbound'[i].id < nextId'
      <4> SUFFICES ASSUME NEW i \in (Len(outbound) + 1)..(Len(outbound) + n)
                   PROVE  outbound'[i].id < nextId'
        OBVIOUS
      <4>1. outbound'[i].id = nextId + (i - Len(outbound)) - 1
        BY <2>8
      <4> QED
        BY <1>2, <4>1
    <3>3. \A i \in DOMAIN outbound' : outbound'[i].id < nextId'
      BY <2>7, <3>1, <3>2
    <3> QED
      BY <1>5, <1>6, <3>3 DEF Provenance
  <2>11. /\ Cardinality(Answers(outbound', c)) = n
         /\ \A d : d # c => Answers(outbound', d) = Answers(outbound, d)
    <3>1. outbound \in Seq(Output) /\ t \in Seq(Output) /\ \A i \in DOMAIN t : t[i].cause = c
      BY <1>2, <2>1
    <3>2. /\ Cardinality(Answers(outbound \o t, c)) = Len(t)
          /\ \A d : d # c => Answers(outbound \o t, d) = Answers(outbound, d)
      BY <2>3, <3>1, CountReplies
    <3> QED
      BY <2>1, <2>5, <3>2
  <2>12. \A i, j \in DOMAIN outbound' : outbound'[i].id = outbound'[j].id => i = j
    <3> SUFFICES ASSUME NEW i \in DOMAIN outbound', NEW j \in DOMAIN outbound',
                        outbound'[i].id = outbound'[j].id
                 PROVE  i = j
      OBVIOUS
    <3>1. CASE i \in 1..Len(outbound) /\ j \in 1..Len(outbound)
      BY <1>2, <2>6, <3>1 DEF OutputsByPosition
    <3>2. CASE /\ i \in (Len(outbound) + 1)..(Len(outbound) + n)
               /\ j \in (Len(outbound) + 1)..(Len(outbound) + n)
      BY <1>2, <2>8, <3>2
    <3>3. CASE /\ i \in 1..Len(outbound)
               /\ j \in (Len(outbound) + 1)..(Len(outbound) + n)
      BY <1>2, <2>8, <2>9, <3>3
    <3>4. CASE /\ j \in 1..Len(outbound)
               /\ i \in (Len(outbound) + 1)..(Len(outbound) + n)
      BY <1>2, <2>8, <2>9, <3>4
    <3> QED
      BY <2>7, <3>1, <3>2, <3>3, <3>4
  <2>13. ASSUME NEW i \in DOMAIN outbound'
         PROVE  /\ outbound'[i].cause \in ToSet(consumed')
                /\ \A j \in DOMAIN stack' : stack'[j].message.id # outbound'[i].cause
                /\ Cardinality(Answers(outbound', outbound'[i].cause))
                     <= slots'[outbound'[i].key].maxOutputs
    <3>1. CASE i \in 1..Len(outbound)
      <4>1. outbound'[i] = outbound[i] /\ i \in DOMAIN outbound
        BY <1>2, <2>6, <3>1
      <4>2. Answers(outbound', outbound[i].cause) = Answers(outbound, outbound[i].cause)
        BY <2>3, <2>11, <4>1
      <4>3. /\ outbound[i].cause \in ToSet(consumed)
            /\ \A j \in DOMAIN stack : stack[j].message.id # outbound[i].cause
            /\ Cardinality(Answers(outbound, outbound[i].cause)) <= slots[outbound[i].key].maxOutputs
        BY <4>1 DEF OutputsByPosition
      <4> QED
        BY <1>1, <1>4, <4>1, <4>2, <4>3
    <3>2. CASE i \in (Len(outbound) + 1)..(Len(outbound) + n)
      BY <1>4, <2>2, <2>4, <2>8, <2>11, <3>2
    <3> QED
      BY <2>7, <3>1, <3>2
  <2> QED
    BY <2>10, <2>12, <2>13 DEF OutputsByPosition
<1> QED
  BY <1>7, <1>8

\* The two ways in which A moves.
LEMMA ConcatAppend ==
  ASSUME NEW S, NEW s \in Seq(S), NEW t \in Seq(S), NEW x \in S
  PROVE  s \o Append(t, x) = Append(s \o t, x)
OBVIOUS

LEMMA ConcatShift ==
  ASSUME NEW S, NEW s \in Seq(S), NEW t \in Seq(S), t # <<>>
  PROVE  Append(s, Head(t)) \o Tail(t) = s \o t
OBVIOUS

LEMMA IdsOfMoves ==
  ASSUME NEW s \in Seq(Envelope)
  PROVE  /\ \A e \in Envelope : IdsOf(Append(s, e)) = Append(IdsOf(s), e.id)
         /\ s # <<>> => /\ IdsOf(s) # <<>> /\ Head(IdsOf(s)) = Head(s).id
                        /\ IdsOf(Tail(s)) = Tail(IdsOf(s))
BY DEF IdsOf

LEMMA TraceSubmit ==
  ASSUME TraceInv, NEW a \in Address, NEW s \in Senders, Submit(a, s)
  PROVE  (AsyncFifo /\ Provenance /\ OutputsByPosition)'
<1> DEFINE e == NewEnvelope(a, s)
<1>1. e \in Envelope /\ e.id = nextId /\ nextId \in Ids
  BY NewEnvelopeTyped DEF Submit
<1>2. /\ inbound' = Append(inbound, e) /\ accepted' = Append(accepted, e.id)
      /\ nextId' = nextId + 1
      /\ UNCHANGED <<registries, outbound, stack, consumed>>
  BY DEF Submit
<1> HIDE DEF e
<1>3. /\ inbound \in Seq(Envelope) /\ accepted \in Seq(Ids) /\ consumed \in Seq(Ids)
      /\ IdsOf(inbound) \in Seq(Ids) /\ nextId \in Nat
  BY TraceTypes DEF TraceInv
<1>4. AsyncFifo'
  <2>1. IdsOf(inbound') = Append(IdsOf(inbound), e.id)
    BY <1>1, <1>2, <1>3, IdsOfMoves
  <2>2. consumed \o Append(IdsOf(inbound), e.id) = Append(consumed \o IdsOf(inbound), e.id)
    BY <1>1, <1>3, ConcatAppend
  <2> QED
    BY <1>2, <2>1, <2>2 DEF TraceInv, AsyncFifo
<1>5. /\ Len(accepted) \in Nat /\ DOMAIN accepted = 1..Len(accepted)
      /\ DOMAIN accepted' = 1..(Len(accepted) + 1)
      /\ \A i \in 1..Len(accepted) : accepted'[i] = accepted[i]
      /\ accepted'[Len(accepted) + 1] = nextId
  <2>1. accepted' = Append(accepted, nextId)
    BY <1>1, <1>2
  <2> QED
    BY <1>1, <1>3, <2>1, AppendFacts
<1>6. \A i \in DOMAIN accepted' : i \in DOMAIN accepted \/ i = Len(accepted) + 1
  BY <1>5
<1>7. \A i \in DOMAIN accepted : accepted[i] < nextId /\ accepted[i] \in Nat /\ accepted'[i] = accepted[i]
  <2>1. \A i \in DOMAIN accepted : accepted[i] \in Ids
    BY <1>3
  <2> QED
    BY <1>5, <2>1 DEF TraceInv, Provenance, Ids
<1>8. ToSet(accepted') = ToSet(accepted) \cup {nextId}
  BY <1>1, <1>2, <1>3, SetOfAppend
<1>9. Provenance'
  <2>1. \A i \in DOMAIN accepted' : accepted'[i] < nextId'
    BY <1>2, <1>3, <1>5, <1>6, <1>7
  <2>2. \A i, j \in DOMAIN accepted' : accepted'[i] = accepted'[j] => i = j
    <3> SUFFICES ASSUME NEW i \in DOMAIN accepted', NEW j \in DOMAIN accepted',
                        accepted'[i] = accepted'[j]
                 PROVE  i = j
      OBVIOUS
    <3>1. CASE i \in DOMAIN accepted /\ j \in DOMAIN accepted
      BY <1>7, <3>1 DEF TraceInv, Provenance
    <3>2. CASE i = Len(accepted) + 1 /\ j \in DOMAIN accepted
      BY <1>3, <1>5, <1>7, <3>2
    <3>3. CASE i \in DOMAIN accepted /\ j = Len(accepted) + 1
      BY <1>3, <1>5, <1>7, <3>3
    <3> QED
      BY <1>6, <3>1, <3>2, <3>3
  <2>3. ASSUME NEW i \in DOMAIN stack
        PROVE  /\ stack[i].message.id < nextId'
               /\ stack[i].async => stack[i].message.id \in ToSet(consumed')
               /\ ~stack[i].async => stack[i].message.id \notin ToSet(accepted')
    <3>1. stack[i] \in Frame
      BY TraceTypes DEF TraceInv
    <3>2. stack[i].message.id \in Nat /\ stack[i].message.id < nextId
      BY <3>1 DEF Frame, Envelope, Ids, TraceInv, Provenance
    <3>3. stack[i].message.id < nextId' /\ stack[i].message.id # nextId
      BY <1>2, <1>3, <3>2
    <3>4. /\ stack[i].async => stack[i].message.id \in ToSet(consumed)
          /\ ~stack[i].async => stack[i].message.id \notin ToSet(accepted)
      BY DEF TraceInv, Provenance
    <3> QED
      BY <1>2, <1>8, <3>3, <3>4
  <2>4. ASSUME NEW i \in DOMAIN outbound
        PROVE  outbound[i].id < nextId'
    <3>1. outbound[i] \in Output
      BY TraceTypes DEF TraceInv
    <3>2. outbound[i].id \in Nat /\ outbound[i].id < nextId
      BY <3>1 DEF Output, Ids, TraceInv, Provenance
    <3> QED
      BY <1>2, <1>3, <3>2
  <2> QED
    BY <1>2, <2>1, <2>2, <2>3, <2>4 DEF Provenance
<1>10. OutputsByPosition'
  BY <1>2 DEF TraceInv, OutputsByPosition, registries
<1> QED
  BY <1>4, <1>9, <1>10

LEMMA TraceDispatch ==
  ASSUME TraceInv, NEW a \in Address, NEW s \in Senders, Dispatch(a, s)
  PROVE  (AsyncFifo /\ Provenance /\ OutputsByPosition)'
<1> DEFINE e == NewEnvelope(a, s)
           f == [message |-> e, key |-> FindSlot(e.address), async |-> FALSE]
<1>1. e \in Envelope /\ e.id = nextId /\ nextId \in Ids
  BY NewEnvelopeTyped DEF Dispatch
<1>2. /\ ValidInbound(e) /\ stack' = Append(stack, f) /\ nextId' = nextId + 1
      /\ UNCHANGED <<registries, inbound, outbound, accepted, consumed>>
  BY DEF Dispatch, Run
<1>3. f \in Frame /\ f.message.id = nextId /\ ~f.async
  <2>1. FindSlot(e.address) \in Key
    BY <1>1, <1>2, LimitTyped DEF ValidInbound, TraceInv, BusInv
  <2> QED
    BY <1>1, <2>1 DEF Frame
<1> HIDE DEF e, f
<1>4. nextId \notin ToSet(accepted) /\ nextId \notin ToSet(consumed)
  <2>1. \A i \in DOMAIN accepted : accepted[i] \in Nat /\ accepted[i] < nextId
    <3>1. \A i \in DOMAIN accepted : accepted[i] \in Ids
      BY TraceTypes DEF TraceInv
    <3> QED
      BY <3>1 DEF TraceInv, Provenance, Ids
  <2>2. \A i \in DOMAIN accepted : accepted[i] # nextId
    BY <1>1, <2>1 DEF Ids
  <2>3. nextId \notin ToSet(accepted)
    BY <2>2 DEF ToSet
  <2> QED
    BY <2>3, FifoFacts DEF TraceInv
<1>5. nextId \in Nat /\ nextId' \in Nat /\ nextId <= nextId' /\ f.message.id < nextId'
  BY <1>2, <1>3, TraceTypes DEF TraceInv
<1>6. ToSet(consumed') = ToSet(consumed)
  BY <1>2
<1>7. slots' = slots
  BY <1>2 DEF registries
<1>8. (Provenance /\ OutputsByPosition)'
  BY <1>2, <1>3, <1>4, <1>5, <1>6, <1>7, TracePush
<1>9. AsyncFifo'
  BY <1>2 DEF TraceInv, AsyncFifo, IdsOf
<1> QED
  BY <1>8, <1>9

LEMMA TracePump ==
  ASSUME TraceInv, PumpOne
  PROVE  (AsyncFifo /\ Provenance /\ OutputsByPosition)'
<1> DEFINE e == Head(inbound)
           f == [message |-> e, key |-> FindSlot(e.address), async |-> TRUE]
<1>1. /\ inbound \in Seq(Envelope) /\ inbound # <<>> /\ consumed \in Seq(Ids)
      /\ IdsOf(inbound) \in Seq(Ids) /\ nextId \in Nat
  BY TraceTypes DEF PumpOne, TraceInv
<1>2. e \in Envelope /\ e = inbound[1] /\ Len(inbound) \in Nat \ {0}
  BY <1>1, TailFacts
<1>3. /\ ValidInbound(e) /\ stack' = (IF Reacts(e) THEN Append(stack, f) ELSE stack)
      /\ nextId' = nextId
      /\ inbound' = Tail(inbound) /\ consumed' = Append(consumed, e.id)
      /\ UNCHANGED <<registries, outbound, accepted>>
  BY DEF PumpOne, Run
<1>4. f \in Frame /\ f.message.id = e.id /\ f.async /\ e.id \in Ids
  <2>1. FindSlot(e.address) \in Key
    BY <1>2, <1>3, LimitTyped DEF ValidInbound, TraceInv, BusInv
  <2> QED
    BY <1>2, <2>1 DEF Frame, Envelope
<1> HIDE DEF e, f
<1>5. AsyncFifo'
  <2>1. /\ IdsOf(inbound) # <<>> /\ Head(IdsOf(inbound)) = e.id
        /\ IdsOf(inbound') = Tail(IdsOf(inbound))
    BY <1>1, <1>3, IdsOfMoves DEF e
  <2>2. Append(consumed, Head(IdsOf(inbound))) \o Tail(IdsOf(inbound)) = consumed \o IdsOf(inbound)
    BY <1>1, <2>1, ConcatShift
  <2> QED
    BY <1>3, <2>1, <2>2 DEF TraceInv, AsyncFifo
<1>6. ToSet(consumed') = ToSet(consumed) \cup {e.id}
  BY <1>1, <1>3, <1>4, SetOfAppend
\* The head was accepted after everything that was consumed.
<1>7. e.id \notin ToSet(consumed) /\ e.id < nextId
  <2>1. /\ Len(consumed) \in Nat /\ DOMAIN consumed = 1..Len(consumed)
        /\ Len(accepted) \in Nat /\ DOMAIN accepted = 1..Len(accepted)
    BY TraceTypes DEF TraceInv
  <2>2. /\ Len(accepted) = Len(consumed) + Len(inbound)
        /\ \A i \in 1..Len(consumed) : accepted[i] = consumed[i]
        /\ accepted[Len(consumed) + 1] = e.id
    <3>1. 1 \in 1..Len(inbound)
      BY <1>2
    <3> QED
      BY <1>2, <3>1, FifoFacts DEF TraceInv
  <2>3. Len(consumed) + 1 \in DOMAIN accepted
        /\ \A i \in 1..Len(consumed) : i \in DOMAIN accepted /\ i # Len(consumed) + 1
    BY <1>2, <2>1, <2>2
  <2>4. \A i \in DOMAIN consumed : consumed[i] # e.id
    BY <2>1, <2>2, <2>3 DEF TraceInv, Provenance
  <2>5. e.id < nextId
    BY <2>2, <2>3 DEF TraceInv, Provenance
  <2> QED
    BY <2>4, <2>5 DEF ToSet
<1>8. nextId' \in Nat /\ nextId <= nextId' /\ f.message.id < nextId'
  BY <1>1, <1>3, <1>4, <1>7
<1>9. /\ f.message.id \in ToSet(consumed') /\ f.message.id \notin ToSet(consumed)
      /\ ToSet(consumed) \subseteq ToSet(consumed')
  BY <1>4, <1>6, <1>7
<1>10. slots' = slots
  BY <1>3 DEF registries
<1>11. CASE Reacts(e)
  <2>1. (Provenance /\ OutputsByPosition)'
    BY <1>3, <1>4, <1>8, <1>9, <1>10, <1>11, TracePush
  <2> QED
    BY <1>5, <2>1
\* The message is consumed and nothing runs.
<1>12. CASE ~Reacts(e)
  <2>1. UNCHANGED <<stack, outbound, accepted, nextId, slots>>
    BY <1>3, <1>10, <1>12
  <2>2. Provenance'
    BY <1>9, <2>1 DEF TraceInv, Provenance
  <2>3. OutputsByPosition'
    BY <1>9, <2>1 DEF TraceInv, OutputsByPosition
  <2> QED
    BY <1>5, <2>2, <2>3
<1> QED
  BY <1>11, <1>12

LEMMA TraceTake ==
  ASSUME TraceInv, NextOutput
  PROVE  (AsyncFifo /\ Provenance /\ OutputsByPosition)'
<1>1. /\ outbound \in Seq(Output) /\ outbound # <<>> /\ outbound' = Tail(outbound)
      /\ UNCHANGED <<registries, inbound, stack, nextId, accepted, consumed>>
  BY TraceTypes DEF NextOutput, TraceInv
<1>2. /\ DOMAIN outbound = 1..Len(outbound) /\ Len(outbound) \in Nat \ {0}
      /\ DOMAIN outbound' = 1..(Len(outbound) - 1)
      /\ \A i \in 1..(Len(outbound) - 1) : outbound'[i] = outbound[i + 1]
  BY <1>1, TailFacts
<1>3. \A i \in DOMAIN outbound' : /\ i + 1 \in DOMAIN outbound /\ i \in Nat
                                  /\ outbound'[i] = outbound[i + 1]
  BY <1>2
<1>4. AsyncFifo' /\ Provenance'
  BY <1>1, <1>3 DEF TraceInv, AsyncFifo, IdsOf, Provenance
<1>5. \A i, j \in DOMAIN outbound' : outbound'[i].id = outbound'[j].id => i = j
  <2> SUFFICES ASSUME NEW i \in DOMAIN outbound', NEW j \in DOMAIN outbound',
                      outbound'[i].id = outbound'[j].id
               PROVE  i = j
    OBVIOUS
  <2>1. i + 1 = j + 1
    BY <1>3 DEF TraceInv, OutputsByPosition
  <2> QED
    BY <1>3, <2>1
<1>6. ASSUME NEW i \in DOMAIN outbound'
      PROVE  /\ outbound'[i].cause \in ToSet(consumed')
             /\ \A j \in DOMAIN stack' : stack'[j].message.id # outbound'[i].cause
             /\ Cardinality(Answers(outbound', outbound'[i].cause)) <= slots'[outbound'[i].key].maxOutputs
  <2> DEFINE o == outbound[i + 1]
  <2>1. i + 1 \in DOMAIN outbound /\ outbound'[i] = o
    BY <1>3
  <2>2. /\ o.cause \in ToSet(consumed)
        /\ \A j \in DOMAIN stack : stack[j].message.id # o.cause
        /\ Cardinality(Answers(outbound, o.cause)) <= slots[o.key].maxOutputs
    BY <2>1 DEF TraceInv, OutputsByPosition
  <2>3. o.key \in DOMAIN slots /\ slots[o.key].maxOutputs \in Nat
    <3>1. o.key \in DOMAIN slots
      BY <2>1 DEF TraceInv, BusInv, SlotsKnown
    <3>2. slots[o.key] \in Slot
      BY <3>1 DEF TraceInv, BusInv, RegistriesInv, RegistriesTypeOK
    <3> QED
      BY <3>1, <3>2, RegistryAssumption DEF Slot, RegistryAssumption
  <2> HIDE DEF o
  <2>4. /\ Cardinality(Answers(outbound', o.cause)) <= Cardinality(Answers(outbound, o.cause))
        /\ IsFiniteSet(Answers(outbound', o.cause)) /\ IsFiniteSet(Answers(outbound, o.cause))
    BY <1>1, CountTail
  <2>5. Cardinality(Answers(outbound', o.cause)) <= slots[o.key].maxOutputs
    <3>1. /\ Cardinality(Answers(outbound', o.cause)) \in Nat
          /\ Cardinality(Answers(outbound, o.cause)) \in Nat
      BY <2>4, FS_CardinalityType
    <3> QED
      BY <2>2, <2>3, <2>4, <3>1
  <2> QED
    BY <1>1, <2>1, <2>2, <2>5 DEF registries
<1>7. OutputsByPosition'
  BY <1>5, <1>6 DEF OutputsByPosition
<1> QED
  BY <1>4, <1>7

\* Registrations, grants and stuttering.
LEMMA TraceQuiet ==
  ASSUME TraceInv, UNCHANGED <<inbound, outbound, stack, nextId, accepted, consumed>>,
         \A k \in DOMAIN slots : k \in DOMAIN slots' /\ slots'[k] = slots[k]
  PROVE  (AsyncFifo /\ Provenance /\ OutputsByPosition)'
<1>1. AsyncFifo' /\ Provenance'
  BY DEF TraceInv, AsyncFifo, IdsOf, Provenance
<1>2. \A i \in DOMAIN outbound : slots'[outbound[i].key] = slots[outbound[i].key]
  BY DEF TraceInv, BusInv, SlotsKnown
<1>3. OutputsByPosition'
  BY <1>2 DEF TraceInv, OutputsByPosition
<1> QED
  BY <1>1, <1>3

LEMMA TraceNext == TraceInv /\ [Next]_vars => TraceInv'
<1> SUFFICES ASSUME TraceInv, [Next]_vars
             PROVE  (AsyncFifo /\ Provenance /\ OutputsByPosition)'
  BY BusNext DEF TraceInv
<1>1. \A k \in DOMAIN slots : k \in DOMAIN slots' /\ slots'[k] = slots[k]
  BY SlotsStay DEF TraceInv, BusInv
<1>2. ASSUME NEW a \in Address, NEW s \in Senders, Submit(a, s) \/ Dispatch(a, s)
      PROVE  (AsyncFifo /\ Provenance /\ OutputsByPosition)'
  BY <1>2, TraceSubmit, TraceDispatch
<1>3. CASE HandlerThrows
  <2>1. /\ 0 \in Nat /\ 0 <= slots[Top.key].maxOutputs /\ nextId + 0 <= MaxId + 1
        /\ nextId' = nextId + 0
    BY <1>3, TopTyped, RuntimeAssumption
       DEF HandlerThrows, TraceInv, BusInv, PumpInv, TypeOK, RuntimeAssumption
  <2>2. (Provenance /\ OutputsByPosition)'
    BY <1>3, <2>1, TracePop DEF HandlerThrows
  <2>3. AsyncFifo'
    BY <1>3 DEF HandlerThrows, TraceInv, AsyncFifo, IdsOf
  <2> QED
    BY <2>2, <2>3
<1>4. ASSUME NEW n \in 0..(OutCapacity + 1), HandlerReturns(n)
      PROVE  (AsyncFifo /\ Provenance /\ OutputsByPosition)'
  <2>1. n \in Nat
    BY RuntimeAssumption DEF RuntimeAssumption
  <2>2. /\ stack # <<>> /\ Return /\ n <= slots[Top.key].maxOutputs
        /\ nextId + n <= MaxId + 1 /\ nextId' = nextId + n
        /\ outbound' = outbound \/ (Top.async /\ outbound' = outbound \o Replies(n))
        /\ UNCHANGED <<registries, inbound, accepted, consumed>>
    BY <1>4 DEF HandlerReturns, ContractAccepts
  <2>3. (Provenance /\ OutputsByPosition)'
    BY <2>1, <2>2, TracePop
  <2>4. AsyncFifo'
    BY <2>2 DEF TraceInv, AsyncFifo, IdsOf
  <2> QED
    BY <2>3, <2>4
<1>5. CASE \/ UNCHANGED vars \/ Registration
           \/ \E s \in Senders, c \in Capabilities : GrantCapability(s, c)
  BY <1>1, <1>5, TraceQuiet DEF vars, bus, Registration, GrantCapability
<1> QED
  BY <1>2, <1>3, <1>4, <1>5, TracePump, TraceTake DEF Next, HandlerEnds

LEMMA TraceInit == Init => TraceInv
<1> SUFFICES ASSUME Init PROVE TraceInv
  OBVIOUS
<1>1. /\ stack = <<>> /\ outbound = <<>> /\ inbound = <<>> /\ accepted = <<>> /\ consumed = <<>>
  BY DEF Init
<1>2. DOMAIN stack = {} /\ DOMAIN outbound = {} /\ DOMAIN accepted = {}
  BY <1>1
<1>3. AsyncFifo
  BY <1>1 DEF AsyncFifo, IdsOf
<1>4. Provenance /\ OutputsByPosition
  BY <1>2 DEF Provenance, OutputsByPosition
<1> QED
  BY <1>3, <1>4, BusInit DEF TraceInv

\* Messages leave A in the order in which they entered, each once; every output in
\* B answers one consumed message that no longer runs, within the contract of the
\* slot that ran it.
THEOREM NothingLost == Spec => []MessagesAccounted
<1>1. TraceInv => MessagesAccounted
  BY ByPosition DEF TraceInv, MessagesAccounted
<1> QED
  BY <1>1, TraceInit, TraceNext, PTL DEF Spec
-----------------------------------------------------------------------------
(* What strands a message in A.                                            *)

\* A probe that is another key than a later one is more specific than that.
LEMMA ProbesStrict ==
  ASSUME NEW a \in Address, NEW i \in 1..8, NEW j \in 1..8, i < j, Probes(a)[i] # Probes(a)[j]
  PROVE  Specificity(Probes(a)[j]) < Specificity(Probes(a)[i])
<1>1. a.receiver # Wildcard /\ a.context # Wildcard
  BY RegistryAssumption DEF Address, RegistryAssumption
<1> DEFINE c == IF a.capability # Wildcard THEN 1 ELSE 0
<1>2. c \in {0, 1} /\ (c = 0 => a.capability = Wildcard)
  OBVIOUS
<1>3. /\ Specificity(Probes(a)[1]) = 6 + c /\ Specificity(Probes(a)[2]) = 6
      /\ Specificity(Probes(a)[3]) = 4 + c /\ Specificity(Probes(a)[4]) = 4
      /\ Specificity(Probes(a)[5]) = 2 + c /\ Specificity(Probes(a)[6]) = 2
      /\ Specificity(Probes(a)[7]) = c /\ Specificity(Probes(a)[8]) = 0
  BY <1>1 DEF Specificity, Probes, ProbeKey
<1>4. c = 0 => /\ Probes(a)[1] = Probes(a)[2] /\ Probes(a)[3] = Probes(a)[4]
               /\ Probes(a)[5] = Probes(a)[6] /\ Probes(a)[7] = Probes(a)[8]
  BY <1>2 DEF Probes
<1> HIDE DEF c
<1>5. /\ i \in {1, 2, 3, 4, 5, 6, 7, 8}
      /\ j \in {1, 2, 3, 4, 5, 6, 7, 8}
  OBVIOUS
<1> QED
  BY <1>2, <1>3, <1>4, <1>5

\* When slots are added, an address keeps its slot, or gets a new one that is more
\* specific.
LEMMA LookupMoves ==
  ASSUME NEW a \in Address, HasSlot(a), DOMAIN slots \subseteq DOMAIN slots'
  PROVE  /\ HasSlot(a)'
         /\ \/ FindSlot(a)' = FindSlot(a)
            \/ /\ FindSlot(a)' \notin DOMAIN slots
               /\ Specificity(FindSlot(a)') > Specificity(FindSlot(a))
<1>1. PICK j \in HitsIn(slots, a) : /\ FindSlot(a) = Probes(a)[j]
                                    /\ \A k \in HitsIn(slots, a) : j <= k
  BY FindsFirst DEF HasSlot, FindSlot
<1>2. HitsIn(slots, a) \subseteq HitsIn(slots', a) /\ HasSlot(a)'
  BY DEF HasSlot, HitsIn
<1>3. HitsIn(slots', a) # {} /\ FindSlot(a)' = FindIn(slots', a)
  BY <1>1, <1>2 DEF FindSlot, FindIn, HitsIn
<1>4. PICK i \in HitsIn(slots', a) : /\ FindIn(slots', a) = Probes(a)[i]
                                     /\ \A k \in HitsIn(slots', a) : i <= k
  BY <1>3, FindsFirst
<1>5. i \in 1..8 /\ j \in 1..8 /\ i <= j
  BY <1>1, <1>2, <1>4 DEF HitsIn
<1>6. CASE FindSlot(a)' \in DOMAIN slots
  <2>1. i \in HitsIn(slots, a)
    BY <1>3, <1>4, <1>5, <1>6 DEF HitsIn
  <2>2. i = j
    BY <1>1, <1>5, <2>1
  <2> QED
    BY <1>1, <1>2, <1>3, <1>4, <2>2
<1>7. CASE FindSlot(a)' \notin DOMAIN slots
  <2>1. Probes(a)[i] # Probes(a)[j] /\ i < j
    BY <1>1, <1>3, <1>4, <1>5, <1>7 DEF HitsIn
  <2>2. /\ Specificity(Probes(a)[j]) < Specificity(Probes(a)[i])
    BY <1>5, <2>1, ProbesStrict
  <2> QED
    BY <1>1, <1>2, <1>3, <1>4, <1>5, <1>7, <2>2
<1> QED
  BY <1>6, <1>7

Strand(e) == \/ Deliverable(e)'
             \/ e \in ToSet(inbound) /\ ~Deliverable(e)
             \/ /\ e \in ToSet(inbound)
                /\ FindSlot(e.address)' \notin DOMAIN slots
                /\ Specificity(FindSlot(e.address)') > Specificity(FindSlot(e.address))

LEMMA StrandStep ==
  ASSUME BusInv, [Next]_vars, NEW e \in ToSet(inbound')
  PROVE  Strand(e)
<1>1. /\ RegistriesInv'
      /\ \A k \in DOMAIN slots : k \in DOMAIN slots' /\ slots'[k] = slots[k]
  BY SlotsStay DEF BusInv
<1>2. inbound \in Seq(Envelope)
  BY TraceTypes
<1>3. ToSet(inbound) \subseteq Envelope
  BY <1>2 DEF ToSet
<1>4. ASSUME e \in ToSet(inbound), grants \subseteq grants'
      PROVE  Strand(e)
  <2>1. CASE ~Deliverable(e)
    BY <1>4, <2>1 DEF Strand
  <2>2. CASE Deliverable(e)
    <3>1. e.address \in Address /\ HasSlot(e.address)
      BY <1>3, <1>4, <2>2 DEF Envelope, Deliverable, ValidInbound
    <3>2. HasSlot(e.address)' /\ FindSlot(e.address) \in DOMAIN slots
      BY <1>1, <3>1, LookupMoves, FoundIsSlot
    <3>3. CASE FindSlot(e.address)' = FindSlot(e.address)
      <4>1. Limit(e)' = Limit(e)
        BY <1>1, <3>2, <3>3 DEF Limit
      <4>2. Authorized(e) => Authorized(e)'
        BY <1>4, <3>3 DEF Authorized
      <4> QED
        BY <2>2, <3>2, <4>1, <4>2 DEF Strand, Deliverable, ValidInbound
    <3> QED
      BY <1>1, <1>4, <3>1, <3>3, LookupMoves DEF Strand
  <2> QED
    BY <2>1, <2>2
<1>5. ASSUME NEW a \in Address, NEW s \in Senders, Submit(a, s)
      PROVE  Strand(e)
  <2> DEFINE new == NewEnvelope(a, s)
  <2>1. new \in Envelope
    BY <1>5, NewEnvelopeTyped DEF Submit
  <2>2. /\ ValidInbound(new) /\ Limit(new) <= OutCapacity /\ inbound' = Append(inbound, new)
        /\ slots' = slots /\ grants' = grants
    BY <1>5 DEF Submit, registries
  <2> HIDE DEF new
  <2>3. ToSet(inbound') = ToSet(inbound) \cup {new}
    BY <1>2, <2>1, <2>2, SetOfAppend
  <2>4. CASE e = new
    BY <2>2, <2>4
       DEF Strand, Deliverable, ValidInbound, Authorized, Limit, HasSlot, FindSlot
  <2> QED
    BY <1>4, <2>2, <2>3, <2>4
<1>6. CASE PumpOne
  <2>1. inbound # <<>> /\ inbound' = Tail(inbound) /\ grants' = grants
    BY <1>6 DEF PumpOne
  <2>2. /\ DOMAIN inbound' = 1..(Len(inbound) - 1) /\ DOMAIN inbound = 1..Len(inbound)
        /\ Len(inbound) \in Nat \ {0}
        /\ \A i \in 1..(Len(inbound) - 1) : inbound'[i] = inbound[i + 1]
    BY <1>2, <2>1, TailFacts
  <2>3. \A i \in DOMAIN inbound' : i + 1 \in DOMAIN inbound /\ inbound'[i] = inbound[i + 1]
    BY <2>2
  <2>4. e \in ToSet(inbound)
    BY <2>3 DEF ToSet
  <2> QED
    BY <1>4, <2>1, <2>4
<1>7. CASE UNCHANGED inbound /\ grants \subseteq grants'
  <2>1. e \in ToSet(inbound)
    BY <1>7
  <2> QED
    BY <1>4, <1>7, <2>1
<1> QED
  BY <1>5, <1>6, <1>7
     DEF Next, vars, bus, Registration, Dispatch, HandlerEnds, HandlerReturns, HandlerThrows,
         NextOutput, GrantCapability

\* A message enters A deliverable and stays so until a registration gives its address
\* to another, more specific slot; then submit's promise is void, for its head may
\* have a contract that B can never hold.
THEOREM StrandedByRegistration == Spec => OnlyRegistrationsStrand
<1>1. BusInv /\ [Next]_vars =>
        [\A e \in ToSet(inbound') :
           \/ Deliverable(e)'
           \/ e \in ToSet(inbound) /\ ~Deliverable(e)
           \/ /\ e \in ToSet(inbound)
              /\ FindSlot(e.address)' \notin DOMAIN slots
              /\ Specificity(FindSlot(e.address)') > Specificity(FindSlot(e.address))
        ]_vars
  BY StrandStep DEF Strand
<1> QED
  BY <1>1, BusInit, BusNext, PTL DEF Spec, OnlyRegistrationsStrand
=============================================================================
