----------------------- MODULE CommunicationRegistries -----------------------
(***************************************************************************)
(* The registries of src/world/communication: SignalRegistry, SlotRegistry *)
(* and ActionRegistry, the router's execution table, and the transactional *)
(* registrations of CommunicationRuntime that keep the four in step.       *)
(*                                                                         *)
(* A name is an opaque value; the empty string, the wildcard of a slot     *)
(* dimension, is Wildcard.  A call that throws before its first assignment is   *)
(* no step at all, so only calls that pass their first phase appear.       *)
(***************************************************************************)
EXTENDS Naturals, Sequences, FiniteSets

CONSTANTS Actions,       \* action names
          Kinds,         \* envelope kinds in use, of the four there are
          Schemas,       \* payload schemas
          Receivers,     \* logical receivers
          Contexts,      \* contexts
          Capabilities,  \* capabilities
          SlotReceivers, SlotContexts,  \* dimensions slots are registered with
          ActionIds,     \* ids passed to registerAction
          OutputLimits,  \* OutputContract::maxOutputs
          Wildcard,           \* the empty string: wildcard of a slot dimension
          AutoLimit,     \* bound of the model on mAutoActionCounter
          MaxSlots       \* bound of the model on the number of slots

\* The id text registerHandler builds, action + "." + counter.
AutoId(action, n) == <<action, n>>
AutoIds == {AutoId(a, n) : a \in Actions, n \in 0..(AutoLimit - 1)}

ASSUME RegistryAssumption ==
  /\ Wildcard \notin Receivers \cup Contexts \cup Capabilities
  /\ SlotReceivers \subseteq Receivers \cup {Wildcard}
  /\ SlotContexts \subseteq Contexts \cup {Wildcard}
  /\ Kinds \subseteq {"Command", "Query", "Event", "Reply"}
  /\ OutputLimits \subseteq Nat
  /\ AutoLimit \in Nat
  /\ MaxSlots \in Nat

VARIABLES signals,            \* mSignals: (action, kind) -> schema
          actions,            \* the ids in mActions
          slots,              \* mSlots: key -> definition
          routes,             \* mRoutes: key -> action id its closure looks up
          autoActionCounter   \* mAutoActionCounter

registries == <<signals, actions, slots, routes, autoActionCounter>>

Signal == Actions \X Kinds
Key == [signal : Signal, receiver : SlotReceivers, context : SlotContexts,
        capability : Capabilities \cup {Wildcard}]
Slot == [expected : Schemas \cup {Wildcard}, actionId : ActionIds \cup AutoIds,
         maxOutputs : OutputLimits]
\* What the lookup reads of an envelope; an absent capability is Wildcard.
Address == [signal : Signal, receiver : Receivers, context : Contexts,
            capability : Capabilities \cup {Wildcard}]

Extend(f, k, v) == [x \in DOMAIN f \cup {k} |-> IF x = k THEN v ELSE f[x]]
-----------------------------------------------------------------------------
(* Lookup.  SlotRegistry::find and CommunicationRouter::dispatch probe the *)
(* same eight keys in the same order; the first one that exists is taken.  *)

ProbeKey(a, receiver, context, capability) ==
  [signal |-> a.signal, receiver |-> receiver, context |-> context,
   capability |-> capability]

\* Faulty variant: the capability is preferred over the context.
Probes_CapabilityFirst(a) ==
  <<ProbeKey(a, a.receiver, a.context, a.capability),
    ProbeKey(a, a.receiver, Wildcard, a.capability),
    ProbeKey(a, a.receiver, a.context, Wildcard),
    ProbeKey(a, a.receiver, Wildcard, Wildcard),
    ProbeKey(a, Wildcard, a.context, a.capability),
    ProbeKey(a, Wildcard, Wildcard, a.capability),
    ProbeKey(a, Wildcard, a.context, Wildcard),
    ProbeKey(a, Wildcard, Wildcard, Wildcard)>>

Probes(a) ==
  <<ProbeKey(a, a.receiver, a.context, a.capability),
    ProbeKey(a, a.receiver, a.context, Wildcard),
    ProbeKey(a, a.receiver, Wildcard, a.capability),
    ProbeKey(a, a.receiver, Wildcard, Wildcard),
    ProbeKey(a, Wildcard, a.context, a.capability),
    ProbeKey(a, Wildcard, a.context, Wildcard),
    ProbeKey(a, Wildcard, Wildcard, a.capability),
    ProbeKey(a, Wildcard, Wildcard, Wildcard)>>

HitsIn(table, a) == LET probes == Probes(a)
                    IN {i \in 1..8 : probes[i] \in DOMAIN table}
FindIn(table, a) == LET hits == HitsIn(table, a)
                    IN Probes(a)[CHOOSE i \in hits : \A j \in hits : i <= j]
HasSlot(a) == HitsIn(slots, a) # {}
FindSlot(a) == FindIn(slots, a)
-----------------------------------------------------------------------------
RegistriesInit == /\ signals = <<>>
                  /\ actions = {}
                  /\ slots = <<>>
                  /\ routes = <<>>
                  /\ autoActionCounter = 0

DeclareSignal(signal, schema) ==
  /\ signal \notin DOMAIN signals
  /\ signals' = Extend(signals, signal, schema)
  /\ UNCHANGED <<actions, slots, routes, autoActionCounter>>

RegisterAction(id) ==
  /\ id \notin actions
  /\ actions' = actions \cup {id}
  /\ UNCHANGED <<signals, slots, routes, autoActionCounter>>

\* mSlots.insert and bindRoute: the two tables are extended together.
Bind(key, slot) == /\ slots' = Extend(slots, key, slot)
                   /\ routes' = Extend(routes, key, slot.actionId)

\* Faulty variant: a slot is bound to an action that nobody registered.
RegisterSlot_UnknownAction(key, expected, id, limit) ==
  /\ Cardinality(DOMAIN slots) < MaxSlots
  /\ key.signal \in DOMAIN signals
  /\ expected \in {Wildcard, signals[key.signal]}
  /\ key \notin DOMAIN slots
  /\ key \notin DOMAIN routes
  /\ Bind(key, [expected |-> expected, actionId |-> id, maxOutputs |-> limit])
  /\ UNCHANGED <<signals, actions, autoActionCounter>>

\* registerSlot: checkSlotRegistration, then the commit.
RegisterSlot(key, expected, id, limit) ==
  /\ Cardinality(DOMAIN slots) < MaxSlots
  /\ id \in actions
  /\ key.signal \in DOMAIN signals
  /\ expected \in {Wildcard, signals[key.signal]}
  /\ key \notin DOMAIN slots
  /\ key \notin DOMAIN routes
  /\ Bind(key, [expected |-> expected, actionId |-> id, maxOutputs |-> limit])
  /\ UNCHANGED <<signals, actions, autoActionCounter>>

\* Phase 1 of registerHandler.
HandlerAdmissible(key, schema) ==
  /\ autoActionCounter < AutoLimit
  /\ key.signal \in DOMAIN signals => signals[key.signal] = schema
  /\ key \notin DOMAIN slots
  /\ key \notin DOMAIN routes

NextAutoId(key) == AutoId(key.signal[1], autoActionCounter)

\* Phase 2: signal, action, slot and route in one transaction.
RegisterHandler(key, schema, limit) ==
  /\ Cardinality(DOMAIN slots) < MaxSlots
  /\ HandlerAdmissible(key, schema)
  /\ NextAutoId(key) \notin actions
  /\ autoActionCounter' = autoActionCounter + 1
  /\ signals' = Extend(signals, key.signal, schema)
  /\ actions' = actions \cup {NextAutoId(key)}
  /\ Bind(key, [expected |-> schema, actionId |-> NextAutoId(key),
                maxOutputs |-> limit])

\* Faulty variant: the rollback erases a signal that existed before.
RegisterHandlerRollback_ErasesSignal(key, schema) ==
  /\ HandlerAdmissible(key, schema)
  /\ NextAutoId(key) \in actions
  /\ autoActionCounter' = autoActionCounter + 1
  /\ actions' = actions \ {NextAutoId(key)}
  /\ signals' = [s \in DOMAIN signals \ {key.signal} |-> signals[s]]
  /\ UNCHANGED <<slots, routes>>

\* Phase 2 when the generated id is taken: ActionRegistry::insert throws and
\* the rollback erases the id, the slot, and the signal unless it existed.  The id
\* was not inserted by this call: another registration loses its action.
RegisterHandlerRollback(key, schema) ==
  /\ HandlerAdmissible(key, schema)
  /\ NextAutoId(key) \in actions
  /\ autoActionCounter' = autoActionCounter + 1
  /\ actions' = actions \ {NextAutoId(key)}
  /\ UNCHANGED <<signals, slots, routes>>

Register ==
  \/ \E s \in Signal, schema \in Schemas : DeclareSignal(s, schema)
  \/ \E id \in ActionIds : RegisterAction(id)
  \/ \E key \in Key, id \in ActionIds, limit \in OutputLimits,
        expected \in Schemas \cup {Wildcard} : RegisterSlot(key, expected, id, limit)
  \/ \E key \in Key, schema \in Schemas, limit \in OutputLimits :
        RegisterHandler(key, schema, limit)
  \/ \E key \in Key, schema \in Schemas : RegisterHandlerRollback(key, schema)

-----------------------------------------------------------------------------
(* Properties.                                                             *)

RegistriesTypeOK ==
  /\ DOMAIN signals \subseteq Signal /\ \A s \in DOMAIN signals : signals[s] \in Schemas
  /\ actions \subseteq ActionIds \cup AutoIds
  /\ DOMAIN slots \subseteq Key /\ \A k \in DOMAIN slots : slots[k] \in Slot
  /\ DOMAIN routes \subseteq Key
  /\ autoActionCounter \in 0..AutoLimit

\* The slot that authorises and limits a message and the route that executes
\* it are found by two lookups in two tables: both select the same reaction,
\* and the signal is declared.
SlotsAndRoutesAgree ==
  /\ DOMAIN routes = DOMAIN slots
  /\ \A k \in DOMAIN slots : /\ routes[k] = slots[k].actionId
                             /\ k.signal \in DOMAIN signals

\* The payload schema a slot expects is one its signal carries, whatever the
\* order of declarations and registrations was.
SlotSchemasAccepted ==
  \A k \in DOMAIN slots : slots[k].expected \in {Wildcard, signals[k.signal]}

\* The reference for the lookup: of the slots that accept an envelope, the one
\* with a specific receiver, then context, then capability is selected.
Accepts(key, a) == /\ key.signal = a.signal
                   /\ key.receiver \in {a.receiver, Wildcard}
                   /\ key.context \in {a.context, Wildcard}
                   /\ key.capability \in {a.capability, Wildcard}
Specificity(key) == (IF key.receiver # Wildcard THEN 4 ELSE 0)
                    + (IF key.context # Wildcard THEN 2 ELSE 0)
                    + (IF key.capability # Wildcard THEN 1 ELSE 0)
LookupMostSpecific ==
  \A a \in Address :
    LET accepting == {k \in DOMAIN slots : Accepts(k, a)}
        found == FindSlot(a)
    IN /\ HasSlot(a) <=> accepting # {}
       /\ accepting # {} =>
            /\ found \in accepting
            /\ \A k \in accepting : Specificity(k) <= Specificity(found)
            /\ routes[FindIn(routes, a)] = slots[found].actionId

\* Where an action comes from: it was registered under an id of its own, or by an
\* earlier registerHandler; the counter is past every id that it has generated.
Generated(id) == \E a \in Actions, n \in 0..(autoActionCounter - 1) : id = AutoId(a, n)
ActionsHaveAnOrigin == \A id \in actions : id \in ActionIds \/ Generated(id)

\* The action that a slot and its route name is registered.  The one exception is
\* the rollback of registerHandler: an explicitly registered id of the generated form
\* can be gone once the counter is past it, and its slots can only throw.
BoundActionsExist ==
  \A k \in DOMAIN slots :
    \/ slots[k].actionId \in actions
    \/ slots[k].actionId \in ActionIds /\ Generated(slots[k].actionId)

\* No registration, failed or not, changes an established slot or signal: routing can
\* only become more specific.  None takes an action away but a registerHandler whose
\* generated id was registered explicitly before.
RegistrationsAreAdditive ==
  [][/\ \A k \in DOMAIN slots : k \in DOMAIN slots' /\ slots'[k] = slots[k]
     /\ \A s \in DOMAIN signals : s \in DOMAIN signals' /\ signals'[s] = signals[s]
     /\ \A id \in actions \ actions' :
          id \in ActionIds /\ \E a \in Actions : id = AutoId(a, autoActionCounter)
    ]_registries

\* The four tables agree, whatever registrations failed in between: types, slots with
\* their routes, slots with the schemas of their signals, slots and routes with the
\* actions.
RegistriesInv == /\ RegistriesTypeOK
                 /\ SlotsAndRoutesAgree
                 /\ SlotSchemasAccepted
                 /\ ActionsHaveAnOrigin
                 /\ BoundActionsExist
=============================================================================
