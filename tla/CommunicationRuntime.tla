------------------------ MODULE CommunicationRuntime ------------------------
(***************************************************************************)
(* src/world/communication/CommunicationRuntime.cpp: the bounded A (in)    *)
(* and B (out) queues, the synchronous dispatch, the pump, capability      *)
(* grants, and handlers that call back into the runtime.                   *)
(*                                                                         *)
(* Everything runs on one thread.  What makes it hard is reentrancy: while *)
(* a handler runs, it may submit, dispatch, register, grant, take outputs  *)
(* and try to pump.  A running handler is a frame of "stack"; whoever is   *)
(* on top, or the owner when the stack is empty, may make any call.  A     *)
(* call that throws before it changed anything is no step.                 *)
(***************************************************************************)
EXTENDS CommunicationRegistries, SequencesExt

CONSTANTS Senders,           \* principals
          InCapacity,        \* capacity of A
          OutCapacity,       \* capacity of B
          MaxId,             \* bound of the model on message ids
          MaxDepth           \* bound of the model on nested handlers

ASSUME RuntimeAssumption == /\ InCapacity \in Nat
                            /\ OutCapacity \in Nat
                            /\ MaxId \in Nat
                            /\ MaxDepth \in Nat

VARIABLES inbound,     \* mInbound (A)
          outbound,    \* mOutbound (B)
          grants,      \* mCapabilities as a set of pairs
          stack,       \* running handlers, the innermost last
          pumpActive,  \* mAsyncPumpActive
          nextId,      \* mIds
          accepted,    \* history: ids that entered A, in order
          consumed     \* history: ids taken from A, in order

bus == <<inbound, outbound, grants, stack, pumpActive, nextId, accepted, consumed>>
vars == <<registries, bus>>

Ids == 1..MaxId
Envelope == [id : Ids, address : Address, sender : Senders]
Output == [id : Ids, cause : Ids, key : Key]  \* key: history, the slot that ran the cause
Frame == [message : Envelope, key : Key, async : BOOLEAN]

Limit(e) == slots[FindSlot(e.address)].maxOutputs
IdsOf(s) == [i \in DOMAIN s |-> s[i].id]

Init == /\ RegistriesInit
        /\ inbound = <<>>
        /\ outbound = <<>>
        /\ grants = {}
        /\ stack = <<>>
        /\ pumpActive = FALSE
        /\ nextId = 1
        /\ accepted = <<>>
        /\ consumed = <<>>
-----------------------------------------------------------------------------
\* The authorization gate: a guarded slot needs a grant of the sender.
Authorized(e) == LET capability == FindSlot(e.address).capability
                 IN capability = Wildcard \/ <<e.sender, capability>> \in grants

\* validateInbound.  The payload is abstracted: an envelope that does not
\* carry its signal's schema is refused here and nothing changes.
ValidInbound(e) == HasSlot(e.address) /\ Authorized(e)

NewEnvelope(address, sender) == [id |-> nextId, address |-> address, sender |-> sender]

\* Faulty variant: no test that the outputs can ever fit.
Submit_NoCapacityGate(address, sender) ==
  LET e == NewEnvelope(address, sender)
  IN /\ nextId \in Ids
     /\ ValidInbound(e)
     /\ Len(inbound) < InCapacity
     /\ inbound' = Append(inbound, e)
     /\ accepted' = Append(accepted, e.id)
     /\ nextId' = nextId + 1
     /\ UNCHANGED <<registries, outbound, grants, stack, pumpActive, consumed>>

\* submit: validation, the gate on undeliverable contracts, tryPush.  The
\* caller minted the id; one that meets a full queue is submitted again.
Submit(address, sender) ==
  LET e == NewEnvelope(address, sender)
  IN /\ nextId \in Ids
     /\ ValidInbound(e)
     /\ Limit(e) <= OutCapacity
     /\ Len(inbound) < InCapacity
     /\ inbound' = Append(inbound, e)
     /\ accepted' = Append(accepted, e.id)
     /\ nextId' = nextId + 1
     /\ UNCHANGED <<registries, outbound, grants, stack, pumpActive, consumed>>

\* The closure of a route looks its action up when it is called.
Reacts(e) == routes[FindIn(routes, e.address)] \in actions

\* Router::dispatch up to the reaction; an action that is gone throws instead.
Run(e, isAsync) ==
  stack' = IF Reacts(e)
             THEN Append(stack, [message |-> e, key |-> FindSlot(e.address), async |-> isAsync])
             ELSE stack

\* dispatch: validated, then run at once, past both queues.
Dispatch(address, sender) ==
  LET e == NewEnvelope(address, sender)
  IN /\ nextId \in Ids
     /\ Len(stack) < MaxDepth
     /\ ValidInbound(e)
     /\ Reacts(e)
     /\ Run(e, FALSE)
     /\ nextId' = nextId + 1
     /\ UNCHANGED <<registries, inbound, outbound, grants, pumpActive, accepted,
                    consumed>>

Available == OutCapacity - Len(outbound)

\* Faulty variants: no guard against a nested pump, and the wrong end of A.
PumpOne_Reentrant ==
  /\ Len(stack) < MaxDepth
  /\ inbound # <<>>
  /\ ValidInbound(Head(inbound))
  /\ Limit(Head(inbound)) <= Available
  /\ pumpActive' = Reacts(Head(inbound))
  /\ inbound' = Tail(inbound)
  /\ consumed' = Append(consumed, Head(inbound).id)
  /\ Run(Head(inbound), TRUE)
  /\ UNCHANGED <<registries, outbound, grants, nextId, accepted>>

PumpOne_NewestFirst ==
  LET e == Last(inbound)
  IN /\ ~pumpActive
     /\ Len(stack) < MaxDepth
     /\ inbound # <<>>
     /\ ValidInbound(e)
     /\ Limit(e) <= Available
     /\ pumpActive' = Reacts(e)
     /\ inbound' = Front(inbound)
     /\ consumed' = Append(consumed, e.id)
     /\ Run(e, TRUE)
     /\ UNCHANGED <<registries, outbound, grants, nextId, accepted>>

\* pumpOne up to the call of the handler: guard, peek, validation, capacity
\* pre-flight, pop.  A failed test throws and leaves the message at the head; a
\* missing action throws when the message is consumed already.
PumpOne ==
  /\ ~pumpActive
  /\ Len(stack) < MaxDepth
  /\ inbound # <<>>
  /\ ValidInbound(Head(inbound))
  /\ Limit(Head(inbound)) <= Available
  /\ pumpActive' = Reacts(Head(inbound))
  /\ inbound' = Tail(inbound)
  /\ consumed' = Append(consumed, Head(inbound).id)
  /\ Run(Head(inbound), TRUE)
  /\ UNCHANGED <<registries, outbound, grants, nextId, accepted>>
-----------------------------------------------------------------------------
(* The end of a handler.                                                   *)

Top == Last(stack)
Return == stack' = Front(stack)

\* makeReply: a fresh id, correlated with the cause.
Replies(n) == [i \in 1..n |-> [id |-> nextId + i - 1, cause |-> Top.message.id,
                             key |-> Top.key]]

\* Router and contract accept n conforming outputs: an Event has none.
ContractAccepts(n) == /\ n <= slots[Top.key].maxOutputs
                      /\ Top.key.signal[2] = "Event" => n = 0

\* The outputs of an async message are committed to B, those of a dispatched
\* one are returned to its caller: one delivery route per message.
HandlerReturns(n) ==
  /\ stack # <<>>
  /\ nextId + n <= MaxId + 1
  /\ ContractAccepts(n)
  /\ outbound' = IF Top.async THEN outbound \o Replies(n) ELSE outbound
  /\ pumpActive' = (pumpActive /\ ~Top.async)
  /\ nextId' = nextId + n
  /\ Return
  /\ UNCHANGED <<registries, inbound, grants, accepted, consumed>>

\* The handler throws, or its outputs break the contract: what it did stays
\* done, its message stays consumed, its outputs are gone.
HandlerThrows ==
  /\ stack # <<>>
  /\ pumpActive' = (pumpActive /\ ~Top.async)
  /\ Return
  /\ UNCHANGED <<registries, inbound, outbound, grants, nextId, accepted, consumed>>
-----------------------------------------------------------------------------
NextOutput == /\ outbound # <<>>
              /\ outbound' = Tail(outbound)
              /\ UNCHANGED <<registries, inbound, grants, stack, pumpActive, nextId,
                             accepted, consumed>>

GrantCapability(sender, capability) ==
  /\ grants' = grants \cup {<<sender, capability>>}
  /\ UNCHANGED <<registries, inbound, outbound, stack, pumpActive, nextId, accepted,
                 consumed>>

\* At any time, by the owner or by a handler, with messages in the queues.  A rollback
\* may even erase the action of a running handler, whose function object is destroyed
\* under it: the handler then ends in any of its ways.
Registration == Register /\ UNCHANGED bus

HandlerEnds == HandlerThrows \/ \E n \in 0..(OutCapacity + 1) : HandlerReturns(n)

Next == \/ \E a \in Address, s \in Senders : Submit(a, s) \/ Dispatch(a, s)
        \/ PumpOne
        \/ HandlerEnds
        \/ NextOutput
        \/ \E s \in Senders, c \in Capabilities : GrantCapability(s, c)
        \/ Registration

Spec == Init /\ [][Next]_vars
-----------------------------------------------------------------------------
(* Properties.                                                             *)

TypeOK == /\ inbound \in Seq(Envelope)
          /\ outbound \in Seq(Output)
          /\ grants \subseteq Senders \X Capabilities
          /\ stack \in Seq(Frame)
          /\ pumpActive \in BOOLEAN
          /\ nextId \in 1..(MaxId + 1)
          /\ accepted \in Seq(Ids)
          /\ consumed \in Seq(Ids)
          /\ Len(inbound) <= InCapacity

\* The pre-flight is a reservation: while an async message runs, whatever its
\* handler does, B keeps room for all its outputs, so the commit cannot fail
\* halfway.
ReservationHolds ==
  /\ Len(outbound) <= OutCapacity
  /\ \A i \in DOMAIN stack :
       stack[i].async => Len(outbound) + slots[stack[i].key].maxOutputs <= OutCapacity

\* The pump guard is up exactly while an async message runs, and there is at
\* most one: it is released when the handler throws, and only then.
PumpGuardExact ==
  /\ pumpActive <=> \E i \in DOMAIN stack : stack[i].async
  /\ \A i, j \in DOMAIN stack : stack[i].async /\ stack[j].async => i = j

\* Messages leave A in the order they entered, each once: a nested submit or
\* a pump that throws neither loses, repeats nor reorders one.
AsyncFifo == accepted = consumed \o IdsOf(inbound)

\* No handler of a guarded slot runs for a sender without the grant.
AuthorizedExecution ==
  \A i \in DOMAIN stack :
    LET f == stack[i]
    IN f.key.capability = Wildcard \/ <<f.message.sender, f.key.capability>> \in grants

\* Every output in B answers a consumed async message that no longer runs, and
\* never more outputs than the contract of the slot that ran it allows are
\* there for one message.
OutputsAnswerConsumed ==
  \A o \in ToSet(outbound) :
    /\ o.cause \in ToSet(consumed)
    /\ \A i \in DOMAIN stack : stack[i].message.id # o.cause
    /\ \A i, j \in DOMAIN outbound : outbound[i].id = outbound[j].id => i = j
    /\ Cardinality({i \in DOMAIN outbound : outbound[i].cause = o.cause})
         <= slots[o.key].maxOutputs

\* What submit promises of the queue: no message in A has a contract that exceeds
\* the capacity of B, so none can block the head for ever.
QueuedContractsFit == \A e \in ToSet(inbound) : Limit(e) <= OutCapacity

\* A message that can be pumped once B is empty.
Deliverable(e) == ValidInbound(e) /\ Limit(e) <= OutCapacity

\* Every message enters A deliverable, and it stays so until a registration gives
\* its address to another, more specific slot: no grant, no handler, no pump and no
\* other registration strands a message in A.
OnlyRegistrationsStrand ==
  [][\A e \in ToSet(inbound') :
       \/ Deliverable(e)'
       \/ e \in ToSet(inbound) /\ ~Deliverable(e)
       \/ /\ e \in ToSet(inbound)
          /\ FindSlot(e.address)' \notin DOMAIN slots
          /\ Specificity(FindSlot(e.address)') > Specificity(FindSlot(e.address))
    ]_vars

\* The state of the pump in one invariant: types, the reservation, the guard that
\* protects it, and the grants of the handlers that run.
PumpInv == TypeOK /\ ReservationHolds /\ PumpGuardExact /\ AuthorizedExecution

\* Every message and every output is accounted for.
MessagesAccounted == AsyncFifo /\ OutputsAnswerConsumed
=============================================================================
