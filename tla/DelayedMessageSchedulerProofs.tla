-------------------- MODULE DelayedMessageSchedulerProofs --------------------
(***************************************************************************)
(* Theorems about DelayedMessageScheduler, for every value of its          *)
(* constants: its invariants, and that it implements DelayedDelivery.      *)
(***************************************************************************)
EXTENDS DelayedMessageScheduler, FiniteSetTheorems, TLAPS

-----------------------------------------------------------------------------
(* Type correctness and the stable front.                                  *)

\* TypeOK alone is not inductive: the owner takes the head and the tail of the
\* deque in steps that do not look at it again, and they have a type only
\* because the front it saw is still there.
FrontInv == TypeOK /\ FrontStable

\* The first states satisfy the invariant.
LEMMA FrontInit == Init => FrontInv
<1> SUFFICES ASSUME Init
             PROVE  FrontInv
  OBVIOUS
<1>1. 0 \in Times /\ SequenceStart \in SequenceStart..SequenceMax
  BY SchedulerAssumption DEF Times
<1>2. producer \in [Producers -> [at : ProducerStates, due : Times]]
  BY <1>1 DEF Init, ProducerStates
<1>3. <<>> \in Seq(Entry)
  OBVIOUS
<1>4. TypeOK
  BY <1>1, <1>2, <1>3 DEF Init, TypeOK, WorkerStates, OwnerStates, CloserStates
<1>5. FrontStable
  BY DEF Init, FrontStable
<1> QED
  BY <1>4, <1>5 DEF FrontInv

\* No action of a producer disturbs it.
LEMMA FrontProducer ==
  ASSUME FrontInv, NEW p \in Producers, Producer(p)
  PROVE  FrontInv'
<1> USE SchedulerAssumption DEF FrontInv, TypeOK, FrontStable, Times, Entry,
        ProducerStates, WorkerStates
<1>1. CASE ComputeDue(p)
  <2>1. PICK due \in {now + d : d \in {x \in Delays : x <= TimeMax - now}} \cup DueTimes :
          producer' = [producer EXCEPT ![p] = [at |-> "schedule", due |-> due]]
    BY <1>1 DEF ComputeDue
  <2>2. due \in 0..TimeMax
    <3>1. CASE due \in DueTimes
      BY <3>1
    <3>2. CASE \E d \in Delays : d <= TimeMax - now /\ due = now + d
      BY <3>2
    <3> QED
      BY <3>1, <3>2
  <2> QED
    BY <1>1, <2>1, <2>2 DEF ComputeDue
<1>2. CASE ScheduleAt(p)
  <2> DEFINE new == [due |-> producer[p].due, seq |-> sequence]
  <2>1. new \in Entry /\ sequence' \in SequenceStart..SequenceMax
    BY <1>2 DEF ScheduleAt
  <2>2. queue' \in SUBSET Entry
    BY <1>2, <2>1 DEF ScheduleAt
  <2>3. producer' \in [Producers -> [at : ProducerStates, due : Times]]
    BY <1>2 DEF ScheduleAt, Move
  <2>4. UNCHANGED <<now, interrupt, handoff, stopping, worker, until, owner, closer,
                    submitted, poisoned>>
    BY <1>2 DEF ScheduleAt
  <2> QED
    BY <2>1, <2>2, <2>3, <2>4
<1>3. CASE ScheduleRejected(p)
  BY <1>3 DEF ScheduleRejected, At, Move
<1>4. CASE ProducerInterrupt(p)
  BY <1>4 DEF ProducerInterrupt, ClockInterrupt, At, Move
<1>5. CASE ProducerNotify(p)
  BY <1>5 DEF ProducerNotify, WakeWork, At, Move
<1> QED
  BY <1>1, <1>2, <1>3, <1>4, <1>5 DEF Producer

\* The worker only appends to the deque, so its head stays what it was.
LEMMA FrontWorker ==
  ASSUME FrontInv, Worker
  PROVE  FrontInv'
<1> USE DEF FrontInv, TypeOK, FrontStable, WorkerUnchanged, WorkerStates
<1>1. CASE WorkerMove
  <2>1. PICK e \in queue : queue' = queue \ {e} /\ handoff' = Append(handoff, e)
    BY <1>1 DEF WorkerMove
  <2>2. handoff # <<>> => handoff' # <<>> /\ Head(handoff') = Head(handoff)
    BY <2>1
  <2> QED
    BY <1>1, <2>1, <2>2 DEF WorkerMove
<1>2. CASE WorkerWaitDue
  BY <1>2 DEF WorkerWaitDue, Entry
<1>3. CASE WorkerLock \/ WorkerExit \/ WorkerWaitHandoff \/ WorkerWaitWork
  BY <1>3 DEF WorkerLock, WorkerExit, WorkerWaitHandoff, WorkerWaitWork
<1>4. CASE ClockEnter \/ ClockWake
  BY <1>4 DEF ClockEnter, ClockWake
<1>5. CASE WorkRetest \/ HandoffRetest
  BY <1>5 DEF WorkRetest, HandoffRetest
<1> QED
  BY <1>1, <1>2, <1>3, <1>4, <1>5 DEF Worker

\* The owner is the only one that takes the front out, and it does so only
\* after the decision on it.
LEMMA FrontOwner ==
  ASSUME FrontInv, Owner
  PROVE  FrontInv'
<1> USE DEF FrontInv, TypeOK, FrontStable, OwnerUnchanged, OwnerStates
<1>1. CASE DrainPeek
  BY <1>1 DEF DrainPeek
<1>2. CASE SubmitAccepted
  <2>1. Head(handoff) \in Entry /\ handoff # <<>>
    BY <1>2 DEF SubmitAccepted
  <2>2. submitted' # <<>> /\ submitted'[Len(submitted')] = Head(handoff)
    BY <1>2, <2>1 DEF SubmitAccepted
  <2> QED
    BY <1>2, <2>1, <2>2 DEF SubmitAccepted
<1>3. CASE SubmitFull
  BY <1>3 DEF SubmitFull
<1>4. CASE SubmitRejected
  <2>1. Head(handoff) \in Entry /\ handoff # <<>>
    BY <1>4 DEF SubmitRejected
  <2> QED
    BY <1>4, <2>1 DEF SubmitRejected
<1>5. CASE DrainPop
  <2>1. Tail(handoff) \in Seq(Entry)
    BY <1>5 DEF DrainPop
  <2> QED
    BY <1>5, <2>1 DEF DrainPop
<1>6. CASE DrainNotify
  BY <1>6 DEF DrainNotify, WakeHandoff, WorkerStates
<1> QED
  BY <1>1, <1>2, <1>3, <1>4, <1>5, <1>6 DEF Owner, Submit

LEMMA FrontShutdown ==
  ASSUME FrontInv, Shutdown
  PROVE  FrontInv'
<1> USE DEF FrontInv, TypeOK, FrontStable, CloserUnchanged, CloserStates
<1>1. CASE ShutdownStop
  BY <1>1 DEF ShutdownStop
<1>2. CASE ShutdownInterrupt
  BY <1>2 DEF ShutdownInterrupt, ClockInterrupt
<1>3. CASE ShutdownNotify
  BY <1>3 DEF ShutdownNotify, WakeBoth, WakeHandoff, WorkerStates
<1>4. CASE ShutdownJoin
  BY <1>4 DEF ShutdownJoin
<1> QED
  BY <1>1, <1>2, <1>3, <1>4 DEF Shutdown

LEMMA FrontNext == FrontInv /\ [Next]_vars => FrontInv'
<1> SUFFICES ASSUME FrontInv, [Next]_vars
             PROVE  FrontInv'
  OBVIOUS
<1>1. CASE Tick
  BY <1>1, SchedulerAssumption DEF Tick, FrontInv, TypeOK, FrontStable, Times
<1>2. CASE \E p \in Producers : Producer(p)
  BY <1>2, FrontProducer
<1>3. CASE Worker
  BY <1>3, FrontWorker
<1>4. CASE Owner
  BY <1>4, FrontOwner
<1>5. CASE Shutdown
  BY <1>5, FrontShutdown
<1>6. CASE UNCHANGED vars
  BY <1>6 DEF vars, FrontInv, TypeOK, FrontStable
<1> QED
  BY <1>1, <1>2, <1>3, <1>4, <1>5, <1>6 DEF Next

\* The scheduler keeps its types: no sequence beyond the last one, no due time
\* beyond the end of the clock, no entry taken from an empty deque.
THEOREM TypeCorrect == Spec => []TypeOK
<1>1. FrontInv => TypeOK
  BY DEF FrontInv
<1> QED
  BY FrontInit, FrontNext, <1>1, PTL DEF Spec

\* drainDueTo may use the front without the mutex: between its look at the
\* front and its pop, nothing the worker does moves or removes it.
THEOREM FrontStays == Spec => []FrontStable
<1>1. FrontInv => FrontStable
  BY DEF FrontInv
<1> QED
  BY FrontInit, FrontNext, <1>1, PTL DEF Spec
-----------------------------------------------------------------------------
(* The steps that matter to the messages.                                  *)

Decided == owner \in {"accepted", "rejected"}

\* Nothing moves: locks, waits, notifications, looks at the front.
Quiet == /\ UNCHANGED <<now, queue, handoff, sequence, stopping, submitted, poisoned>>
         /\ Decided' <=> Decided

\* Every step is one of eight, seen from the messages.
LEMMA StepKinds ==
  ASSUME FrontInv, [Next]_vars
  PROVE  \/ Quiet \/ Tick \/ ShutdownStop \/ WorkerMove
         \/ SubmitAccepted \/ SubmitRejected \/ DrainPop
         \/ \E p \in Producers : ScheduleAt(p)
<1> USE DEF Quiet, Decided
<1>1. CASE \E p \in Producers : Producer(p)
  BY <1>1 DEF Producer, ComputeDue, ScheduleRejected, ProducerInterrupt, ProducerNotify
<1>2. CASE Worker
  BY <1>2 DEF Worker, WorkerUnchanged, WorkerLock, WorkerExit, WorkerWaitHandoff,
     WorkerWaitDue, WorkerWaitWork, ClockEnter, ClockWake, WorkRetest, HandoffRetest
<1>3. CASE Owner
  BY <1>3 DEF Owner, OwnerUnchanged, DrainPeek, Submit, SubmitFull, DrainNotify
<1>4. CASE Shutdown
  BY <1>4 DEF Shutdown, CloserUnchanged, ShutdownInterrupt, ShutdownNotify, ShutdownJoin
<1>5. CASE UNCHANGED vars
  BY <1>5 DEF vars
<1> QED
  BY <1>1, <1>2, <1>3, <1>4, <1>5 DEF Next
-----------------------------------------------------------------------------
(* Bounded staging, no early message, no late acceptance.                  *)

\* The worker tests the capacity in the section in which it appends, and only
\* the worker appends.
LEMMA BoundedNext == FrontInv /\ HandoffBounded /\ [Next]_vars => HandoffBounded'
<1> SUFFICES ASSUME FrontInv, HandoffBounded, [Next]_vars
             PROVE  HandoffBounded'
  OBVIOUS
<1> USE SchedulerAssumption DEF HandoffBounded
<1>0. handoff \in Seq(Entry)
  BY DEF FrontInv, TypeOK
<1>1. CASE WorkerMove
  <2>1. PICK e \in queue : handoff' = Append(handoff, e)
    BY <1>1 DEF WorkerMove
  <2>2. Len(handoff) < HandoffCapacity /\ e \in Entry
    BY <1>1 DEF WorkerMove, FrontInv, TypeOK
  <2> QED
    BY <1>0, <2>1, <2>2
<1>2. CASE DrainPop
  <2>1. handoff # <<>> /\ handoff' = Tail(handoff)
    BY <1>2 DEF DrainPop, FrontInv, FrontStable
  <2> QED
    BY <1>0, <2>1
<1>3. CASE handoff' = handoff
  BY <1>3
<1> QED
  BY <1>1, <1>2, <1>3, StepKinds DEF Quiet, Tick, ShutdownStop, CloserUnchanged,
     ScheduleAt, SubmitAccepted, SubmitRejected, OwnerUnchanged

\* The due staging never exceeds its capacity.
THEOREM StagingBounded == Spec => []HandoffBounded
<1>1. Init => HandoffBounded
  BY SchedulerAssumption DEF Init, HandoffBounded
<1> QED
  BY <1>1, FrontInit, FrontNext, BoundedNext, PTL DEF Spec

LEMMA EarlyNext == FrontInv /\ NeverEarly /\ [Next]_vars => NeverEarly'
<1> SUFFICES ASSUME FrontInv, NeverEarly, [Next]_vars
             PROVE  NeverEarly'
  OBVIOUS
<1> USE DEF NeverEarly
<1>0. /\ now \in Nat /\ handoff \in Seq(Entry) /\ submitted \in Seq(Entry)
      /\ poisoned \subseteq Entry /\ queue \subseteq Entry
      /\ \A e \in Entry : e.due \in Nat
  BY SchedulerAssumption DEF FrontInv, TypeOK, Times, Entry
<1>1. CASE Tick
  BY <1>0, <1>1 DEF Tick
<1>2. CASE WorkerMove
  <2>1. PICK e \in queue : e.due <= now /\ handoff' = Append(handoff, e)
    BY <1>2 DEF WorkerMove
  <2> QED
    BY <1>0, <1>2, <2>1 DEF WorkerMove, WorkerUnchanged
<1>3. CASE SubmitAccepted
  <2>1. handoff # <<>> /\ submitted' = Append(submitted, Head(handoff))
    BY <1>3 DEF SubmitAccepted, FrontInv, FrontStable
  <2> QED
    BY <1>0, <1>3, <2>1 DEF SubmitAccepted, OwnerUnchanged
<1>4. CASE SubmitRejected
  <2>1. handoff # <<>> /\ poisoned' = poisoned \cup {Head(handoff)}
    BY <1>4 DEF SubmitRejected, FrontInv, FrontStable
  <2> QED
    BY <1>0, <1>4, <2>1 DEF SubmitRejected, OwnerUnchanged
<1>5. CASE DrainPop
  <2>1. handoff # <<>> /\ handoff' = Tail(handoff)
    BY <1>5 DEF DrainPop, FrontInv, FrontStable
  <2> QED
    BY <1>0, <1>5, <2>1 DEF DrainPop, OwnerUnchanged
<1>6. CASE UNCHANGED <<now, handoff, submitted, poisoned>>
  BY <1>6
<1> QED
  BY <1>1, <1>2, <1>3, <1>4, <1>5, <1>6, StepKinds DEF Quiet, ShutdownStop,
     CloserUnchanged, ScheduleAt

\* No message is staged, submitted or rejected before its due time.
THEOREM NothingEarly == Spec => []NeverEarly
<1>1. Init => NeverEarly
  BY DEF Init, NeverEarly
<1> QED
  BY <1>1, FrontInit, FrontNext, EarlyNext, PTL DEF Spec

\* After shutdown() the heap only shrinks and no sequence is handed out.
THEOREM Closed == Spec => ClosedToNewWork
<1>1. FrontInv /\ [Next]_vars => [stopping => queue' \subseteq queue /\ sequence' = sequence]_vars
  BY StepKinds DEF Quiet, Tick, ShutdownStop, CloserUnchanged, WorkerMove, WorkerUnchanged,
     SubmitAccepted, SubmitRejected, DrainPop, OwnerUnchanged, ScheduleAt
<1> QED
  BY <1>1, FrontInit, FrontNext, PTL DEF Spec, ClosedToNewWork

\* All of it: types, bound, a stable front and nothing early.
THEOREM Safe == Spec => []SchedulerInv
BY TypeCorrect, FrontStays, StagingBounded, NothingEarly, PTL DEF SchedulerInv
-----------------------------------------------------------------------------
(* The refinement: the theorem behind the property DeliveryRefined.        *)

\* f must leave before e (DelayedDelivery).
Precedes(f, e) == f.seq < e.seq /\ f.due <= e.due

\* A sequence number names one entry, wherever that is.
UniqueInv ==
  /\ \A e \in queue : e.seq < sequence
  /\ \A i \in DOMAIN handoff : handoff[i].seq < sequence
  /\ \A e, f \in queue : e.seq = f.seq => e = f
  /\ \A i \in DOMAIN handoff : \A e \in queue : e.seq # handoff[i].seq
  /\ \A i, j \in DOMAIN handoff : handoff[i].seq = handoff[j].seq => i = j

\* An entry ahead in the staging has no predecessor behind it: none in the
\* deque, none left in the heap.  It does not say that the deque is sorted by
\* (due, seq): a late entry with an earlier due time may be behind.
OrderInv ==
  /\ \A i \in DOMAIN handoff : \A e \in queue : ~Precedes(e, handoff[i])
  /\ \A i, j \in DOMAIN handoff : i < j => ~Precedes(handoff[j], handoff[i])

DeliveryInv == FrontInv /\ NeverEarly /\ UniqueInv /\ OrderInv

\* What the types of the queues give, in the form the steps need it.
LEMMA Typing ==
  ASSUME FrontInv
  PROVE  /\ queue \subseteq Entry /\ handoff \in Seq(Entry) /\ sequence \in Nat
         /\ \A e \in Entry : e.due \in Nat /\ e.seq \in Nat
  BY SchedulerAssumption DEF FrontInv, TypeOK, Times, Entry

\* The worker takes the top of the heap: whatever it leaves behind does not
\* precede it.
LEMMA TopIsNext ==
  ASSUME FrontInv, NEW e \in queue, IsTop(e), NEW f \in queue \ {e}
  PROVE  ~Precedes(f, e)
  BY Typing DEF IsTop, KeyLess, Precedes

LEMMA DeliveryInvMove ==
  ASSUME DeliveryInv, WorkerMove
  PROVE  (UniqueInv /\ OrderInv)'
<1>1. PICK e \in queue : /\ IsTop(e)
                         /\ queue' = queue \ {e}
                         /\ handoff' = Append(handoff, e)
  BY DEF WorkerMove
<1>2. sequence' = sequence
  BY DEF WorkerMove, WorkerUnchanged
<1>3. /\ DOMAIN handoff' = DOMAIN handoff \cup {Len(handoff) + 1}
      /\ \A i \in DOMAIN handoff : i \in 1..Len(handoff) /\ handoff'[i] = handoff[i]
      /\ handoff'[Len(handoff) + 1] = e
      /\ Len(handoff) \in Nat
  BY <1>1, Typing DEF DeliveryInv
<1>4. UniqueInv'
  BY <1>1, <1>2, <1>3 DEF DeliveryInv, UniqueInv
<1>5. \A f \in queue \ {e} : ~Precedes(f, e)
  BY <1>1, TopIsNext DEF DeliveryInv
<1>6. OrderInv'
  BY <1>1, <1>3, <1>5 DEF DeliveryInv, OrderInv
<1> QED
  BY <1>4, <1>6

LEMMA DeliveryInvSchedule ==
  ASSUME DeliveryInv, NEW p \in Producers, ScheduleAt(p)
  PROVE  (UniqueInv /\ OrderInv)'
<1> DEFINE new == [due |-> producer[p].due, seq |-> sequence]
<1>1. /\ queue' = queue \cup {new} /\ handoff' = handoff /\ sequence' = sequence + 1
      /\ new.seq = sequence
  BY DEF ScheduleAt
<1>2. \A i \in DOMAIN handoff : handoff[i].seq \in Nat
  BY Typing DEF DeliveryInv
<1>3. UniqueInv'
  BY <1>1, <1>2, Typing DEF DeliveryInv, UniqueInv
<1>4. OrderInv'
  BY <1>1, <1>2, Typing DEF DeliveryInv, UniqueInv, OrderInv, Precedes
<1> QED
  BY <1>3, <1>4

LEMMA DeliveryInvPop ==
  ASSUME DeliveryInv, DrainPop
  PROVE  (UniqueInv /\ OrderInv)'
<1>1. handoff # <<>> /\ handoff' = Tail(handoff) /\ queue' = queue /\ sequence' = sequence
  BY DEF DrainPop, DeliveryInv, FrontInv, FrontStable, OwnerUnchanged
<1>2. \A i \in DOMAIN handoff' : i + 1 \in DOMAIN handoff /\ handoff'[i] = handoff[i + 1]
                                 /\ i \in Nat
  BY <1>1, Typing DEF DeliveryInv
<1>3. UniqueInv'
  BY <1>1, <1>2 DEF DeliveryInv, UniqueInv
<1>4. OrderInv'
  BY <1>1, <1>2 DEF DeliveryInv, OrderInv
<1> QED
  BY <1>3, <1>4

LEMMA DeliveryInvNext == DeliveryInv /\ [Next]_vars => DeliveryInv'
<1> SUFFICES ASSUME DeliveryInv, [Next]_vars
             PROVE  (UniqueInv /\ OrderInv)'
  BY FrontNext, EarlyNext DEF DeliveryInv
<1>1. CASE UNCHANGED <<queue, handoff, sequence>>
  BY <1>1 DEF DeliveryInv, UniqueInv, OrderInv
<1> QED
  BY <1>1, StepKinds, DeliveryInvMove, DeliveryInvSchedule, DeliveryInvPop
     DEF DeliveryInv, Quiet, Tick, ShutdownStop, CloserUnchanged, SubmitAccepted,
         SubmitRejected, OwnerUnchanged

LEMMA DeliveryInvInit == Init => DeliveryInv
  BY FrontInit DEF Init, DeliveryInv, NeverEarly, UniqueInv, OrderInv
-----------------------------------------------------------------------------
(* What a step does to the set of waiting messages.                        *)

Staged == {handoff[i] : i \in {j \in DOMAIN handoff : Undecided(j)}}

LEMMA WaitingMove ==
  ASSUME DeliveryInv, WorkerMove
  PROVE  Waiting' = Waiting
<1>1. PICK e \in queue : queue' = queue \ {e} /\ handoff' = Append(handoff, e)
  BY DEF WorkerMove
<1>2. owner' = owner
  BY DEF WorkerMove, WorkerUnchanged
<1>3. /\ DOMAIN handoff' = DOMAIN handoff \cup {Len(handoff) + 1}
      /\ \A i \in DOMAIN handoff : i \in 1..Len(handoff) /\ handoff'[i] = handoff[i]
      /\ handoff'[Len(handoff) + 1] = e
      /\ Len(handoff) \in Nat
      /\ handoff # <<>> => Len(handoff) + 1 # 1
  BY <1>1, Typing DEF DeliveryInv
<1>4. Len(handoff) + 1 = 1 => owner \notin {"accepted", "rejected"}
  BY <1>3 DEF DeliveryInv, FrontInv, FrontStable
<1>5. Staged' = Staged \cup {e}
  BY <1>2, <1>3, <1>4 DEF Staged, Undecided
<1> QED
  BY <1>1, <1>5 DEF Waiting, Staged

LEMMA WaitingPop ==
  ASSUME DeliveryInv, DrainPop
  PROVE  Waiting' = Waiting
<1>1. /\ handoff # <<>> /\ handoff' = Tail(handoff) /\ queue' = queue
      /\ owner \in {"accepted", "rejected"} /\ owner' \notin {"accepted", "rejected"}
  BY DEF DrainPop, DeliveryInv, FrontInv, FrontStable, OwnerUnchanged
<1>2. /\ \A i \in DOMAIN handoff' : i + 1 \in DOMAIN handoff /\ handoff'[i] = handoff[i + 1]
                                    /\ i \in Nat \ {0}
      /\ \A j \in DOMAIN handoff : j # 1 => /\ j - 1 \in DOMAIN handoff'
                                            /\ handoff'[j - 1] = handoff[j]
  BY <1>1, Typing DEF DeliveryInv
<1>3. Staged' \subseteq Staged
  BY <1>1, <1>2 DEF Staged, Undecided
<1>4. Staged \subseteq Staged'
  BY <1>1, <1>2 DEF Staged, Undecided
<1> QED
  BY <1>1, <1>3, <1>4 DEF Waiting, Staged

\* The decision on the front takes it, and nothing else, out of the waiting
\* messages; it was due, and nothing that waits precedes it.
LEMMA FrontLeaves ==
  ASSUME DeliveryInv, owner = "submit", Decided', UNCHANGED <<queue, handoff>>
  PROVE  /\ Delivery!MayLeave(Head(handoff))
         /\ Waiting' = Waiting \ {Head(handoff)}
<1> DEFINE h == Head(handoff)
<1>1. /\ handoff # <<>> /\ 1 \in DOMAIN handoff /\ h = handoff[1]
      /\ \A i \in DOMAIN handoff : i \in Nat /\ (i # 1 => 1 < i)
  BY Typing DEF DeliveryInv, FrontInv, FrontStable
<1>2. Waiting = queue \cup {handoff[i] : i \in DOMAIN handoff}
  BY DEF Waiting, Undecided
<1>3. Waiting' = queue \cup {handoff[i] : i \in DOMAIN handoff \ {1}}
  BY DEF Waiting, Undecided, Decided
<1>4. h \notin queue /\ \A i \in DOMAIN handoff : handoff[i] = h => i = 1
  BY <1>1 DEF DeliveryInv, UniqueInv
<1>5. Waiting' = Waiting \ {h}
  BY <1>1, <1>2, <1>3, <1>4
<1>6. h \in Waiting /\ h.due <= now
  BY <1>1, <1>2 DEF DeliveryInv, NeverEarly
<1>7. \A f \in Waiting : ~Precedes(f, h)
  <2>1. ~Precedes(h, h)
    BY <1>1, Typing DEF Precedes, DeliveryInv
  <2> QED
    BY <1>1, <1>2, <2>1 DEF DeliveryInv, OrderInv
<1> QED
  BY <1>5, <1>6, <1>7 DEF Delivery!MayLeave, Delivery!Precedes, Precedes
-----------------------------------------------------------------------------
LEMMA DeliveryStep ==
  ASSUME DeliveryInv, [Next]_vars
  PROVE  [Delivery!Next]_(Delivery!dvars)
<1> USE DEF Delivery!Next, Delivery!dvars
<1>1. CASE Quiet
  <2>1. Waiting' = Waiting
    BY <1>1 DEF Quiet, Decided, Waiting, Undecided
  <2> QED
    BY <1>1, <2>1 DEF Quiet
<1>2. CASE Tick
  <2>1. Waiting' = Waiting
    BY <1>2 DEF Tick, Waiting, Undecided
  <2> QED
    BY <1>2, <2>1 DEF Tick, Delivery!Tick
<1>3. CASE ShutdownStop
  <2>1. Waiting' = Waiting
    BY <1>3 DEF ShutdownStop, CloserUnchanged, Waiting, Undecided
  <2>2. stopping \in BOOLEAN
    BY DEF DeliveryInv, FrontInv, TypeOK
  <2> QED
    BY <1>3, <2>1, <2>2 DEF ShutdownStop, CloserUnchanged, Delivery!Close
<1>4. CASE WorkerMove
  BY <1>4, WaitingMove DEF WorkerMove, WorkerUnchanged
<1>5. CASE SubmitAccepted
  <2>1. /\ owner = "submit" /\ Decided' /\ UNCHANGED <<queue, handoff>>
        /\ submitted' = Append(submitted, Head(handoff))
        /\ UNCHANGED <<now, sequence, stopping, poisoned>>
    BY <1>5 DEF SubmitAccepted, Decided, OwnerUnchanged
  <2>2. Delivery!Deliver(Head(handoff))
    BY <2>1, FrontLeaves DEF Delivery!Deliver
  <2>3. Head(handoff) \in Waiting
    BY <2>1, FrontLeaves DEF Delivery!MayLeave
  <2> QED
    BY <2>2, <2>3
<1>6. CASE SubmitRejected
  <2>1. /\ owner = "submit" /\ Decided' /\ UNCHANGED <<queue, handoff>>
        /\ poisoned' = poisoned \cup {Head(handoff)}
        /\ UNCHANGED <<now, sequence, stopping, submitted>>
    BY <1>6 DEF SubmitRejected, Decided, OwnerUnchanged
  <2>2. Delivery!Drop(Head(handoff))
    BY <2>1, FrontLeaves DEF Delivery!Drop
  <2>3. Head(handoff) \in Waiting
    BY <2>1, FrontLeaves DEF Delivery!MayLeave
  <2> QED
    BY <2>2, <2>3
<1>7. CASE DrainPop
  BY <1>7, WaitingPop DEF DrainPop, OwnerUnchanged
<1>8. CASE \E p \in Producers : ScheduleAt(p)
  <2>1. PICK p \in Producers : ScheduleAt(p)
    BY <1>8
  <2>2. producer[p].due \in 0..TimeMax /\ sequence < SequenceMax
    BY <2>1, SchedulerAssumption DEF ScheduleAt, DeliveryInv, FrontInv, TypeOK, Times
  <2>3. Waiting' = Waiting \cup {[due |-> producer[p].due, seq |-> sequence]}
    BY <2>1 DEF ScheduleAt, Waiting, Undecided
  <2>4. Delivery!Accept(producer[p].due)
    BY <2>1, <2>2, <2>3 DEF ScheduleAt, Delivery!Accept
  <2> QED
    BY <2>2, <2>4
<1> QED
  BY <1>1, <1>2, <1>3, <1>4, <1>5, <1>6, <1>7, <1>8, StepKinds DEF DeliveryInv

\* The threads, the heap, the bounded staging and the retries of the scheduler
\* together deliver each message once, when it is due and never ahead of an
\* older one that was due no later.
THEOREM Refinement == Spec => DeliveryRefined
<1>1. Init => Delivery!Init
  BY DEF Init, Delivery!Init, Waiting
<1> QED
  BY <1>1, DeliveryInvInit, DeliveryInvNext, DeliveryStep, PTL
     DEF Spec, DeliveryRefined, Delivery!Spec
-----------------------------------------------------------------------------
(* Conservation of messages: every abstract step keeps it.                 *)

\* The bookkeeping that makes the count of NoLossNoDuplicate inductive.
CountInv == /\ NoLossNoDuplicate
            /\ IsFiniteSet(Waiting)
            /\ IsFiniteSet(poisoned)
            /\ Waiting \cap poisoned = {}
            /\ submitted \in Seq(Entry)
            /\ sequence \in Nat

Delivered == {submitted[i] : i \in DOMAIN submitted}
Numbers == {e.seq : e \in Waiting \cup Delivered \cup poisoned}

\* A submit that returns adds the message, and nothing else, to the delivered.
LEMMA AppendDelivered ==
  ASSUME submitted \in Seq(Entry), NEW e \in Entry, submitted' = Append(submitted, e)
  PROVE  /\ Delivered' = Delivered \cup {e}
         /\ Len(submitted') = Len(submitted) + 1
         /\ submitted' \in Seq(Entry)
<1>1. /\ DOMAIN submitted' = DOMAIN submitted \cup {Len(submitted) + 1}
      /\ \A i \in DOMAIN submitted : submitted'[i] = submitted[i]
      /\ submitted'[Len(submitted) + 1] = e
  OBVIOUS
<1> QED
  BY <1>1 DEF Delivered

LEMMA CountStep ==
  ASSUME CountInv, Waiting \subseteq Entry, [Delivery!Next]_(Delivery!dvars)
  PROVE  CountInv'
<1> USE SchedulerAssumption
<1>0. /\ Numbers = SequenceStart..(sequence - 1)
      /\ Cardinality(Waiting) + Len(submitted) + Cardinality(poisoned)
           = sequence - SequenceStart
      /\ Cardinality(Waiting) \in Nat /\ Cardinality(poisoned) \in Nat
      /\ Len(submitted) \in Nat
  BY FS_CardinalityType DEF CountInv, NoLossNoDuplicate, Numbers, Delivered
<1>1. CASE \E due \in 0..TimeMax : Delivery!Accept(due)
  <2>1. PICK due \in 0..TimeMax : Delivery!Accept(due)
    BY <1>1
  <2> DEFINE new == [due |-> due, seq |-> sequence]
  <2>2. /\ Waiting' = Waiting \cup {new} /\ new.seq = sequence /\ sequence' = sequence + 1
        /\ submitted' = submitted /\ poisoned' = poisoned
    BY <2>1 DEF Delivery!Accept
  <2>3. new \notin Waiting /\ new \notin poisoned
    <3>1. sequence \notin Numbers
      BY <1>0 DEF CountInv
    <3>2. \A e \in Waiting \cup poisoned : e.seq \in Numbers
      BY DEF Numbers
    <3> QED
      BY <2>2, <3>1, <3>2
  <2>4. IsFiniteSet(Waiting') /\ Cardinality(Waiting') = Cardinality(Waiting) + 1
    BY <2>2, <2>3, FS_AddElement DEF CountInv
  <2>5. Numbers' = Numbers \cup {sequence}
    BY <2>2 DEF Numbers, Delivered
  <2>6. sequence >= SequenceStart
    BY <1>0 DEF CountInv
  <2>7. Numbers' = SequenceStart..(sequence' - 1)
    BY <1>0, <2>2, <2>5, <2>6 DEF CountInv
  <2>8. Cardinality(Waiting') + Len(submitted') + Cardinality(poisoned')
          = sequence' - SequenceStart
    BY <1>0, <2>2, <2>4 DEF CountInv
  <2>9. NoLossNoDuplicate'
    BY <2>7, <2>8 DEF NoLossNoDuplicate, Numbers, Delivered
  <2>10. Waiting' \cap poisoned' = {}
    BY <2>2, <2>3 DEF CountInv
  <2> QED
    BY <2>2, <2>4, <2>9, <2>10 DEF CountInv
<1>2. CASE \E e \in Waiting : Delivery!Deliver(e)
  <2>1. PICK e \in Waiting : Delivery!Deliver(e)
    BY <1>2
  <2>2. /\ Waiting' = Waiting \ {e} /\ submitted' = Append(submitted, e)
        /\ sequence' = sequence /\ poisoned' = poisoned /\ e \in Entry
    BY <2>1 DEF Delivery!Deliver
  <2>3. IsFiniteSet(Waiting') /\ Cardinality(Waiting') = Cardinality(Waiting) - 1
    BY <2>2, FS_RemoveElement DEF CountInv
  <2>4. /\ Delivered' = Delivered \cup {e} /\ Len(submitted') = Len(submitted) + 1
        /\ submitted' \in Seq(Entry)
    BY <2>2, AppendDelivered DEF CountInv
  <2>5. Numbers' = Numbers
    BY <2>2, <2>4 DEF Numbers
  <2>6. Cardinality(Waiting') + Len(submitted') + Cardinality(poisoned')
          = sequence' - SequenceStart
    BY <1>0, <2>2, <2>3, <2>4 DEF CountInv
  <2>7. NoLossNoDuplicate'
    BY <1>0, <2>2, <2>5, <2>6 DEF NoLossNoDuplicate, Numbers, Delivered
  <2>8. Waiting' \cap poisoned' = {}
    BY <2>2 DEF CountInv
  <2> QED
    BY <2>2, <2>3, <2>4, <2>7, <2>8 DEF CountInv
<1>3. CASE \E e \in Waiting : Delivery!Drop(e)
  <2>1. PICK e \in Waiting : Delivery!Drop(e)
    BY <1>3
  <2>2. /\ Waiting' = Waiting \ {e} /\ poisoned' = poisoned \cup {e}
        /\ sequence' = sequence /\ submitted' = submitted /\ e \notin poisoned
    BY <2>1 DEF Delivery!Drop, CountInv
  <2>3. IsFiniteSet(Waiting') /\ Cardinality(Waiting') = Cardinality(Waiting) - 1
    BY <2>2, FS_RemoveElement DEF CountInv
  <2>4. IsFiniteSet(poisoned') /\ Cardinality(poisoned') = Cardinality(poisoned) + 1
    BY <2>2, FS_AddElement DEF CountInv
  <2>5. Numbers' = Numbers
    BY <2>2 DEF Numbers, Delivered
  <2>6. Cardinality(Waiting') + Len(submitted') + Cardinality(poisoned')
          = sequence' - SequenceStart
    BY <1>0, <2>2, <2>3, <2>4 DEF CountInv
  <2>7. NoLossNoDuplicate'
    BY <1>0, <2>2, <2>5, <2>6 DEF NoLossNoDuplicate, Numbers, Delivered
  <2>8. Waiting' \cap poisoned' = {}
    BY <2>2 DEF CountInv
  <2> QED
    BY <2>2, <2>3, <2>4, <2>7, <2>8 DEF CountInv
<1>4. CASE UNCHANGED <<Waiting, sequence, submitted, poisoned>>
  BY <1>4 DEF CountInv, NoLossNoDuplicate
<1> QED
  BY <1>1, <1>2, <1>3, <1>4
     DEF Delivery!Next, Delivery!Close, Delivery!Tick, Delivery!dvars

LEMMA CountInit == Init => CountInv
<1> SUFFICES ASSUME Init
             PROVE  CountInv
  OBVIOUS
<1>1. Waiting = {} /\ poisoned = {} /\ submitted = <<>> /\ sequence = SequenceStart
  BY DEF Init, Waiting
<1>2. IsFiniteSet({}) /\ Cardinality({}) = 0
  BY FS_EmptySet
<1>3. SequenceStart..(SequenceStart - 1) = {}
  BY SchedulerAssumption
<1> QED
  BY <1>1, <1>2, <1>3, SchedulerAssumption DEF CountInv, NoLossNoDuplicate

\* Every accepted message is in exactly one place, and the bus got it at most
\* once, through every retry of a full bus and every permanent rejection.
THEOREM Conservation == Spec => []NoLossNoDuplicate
<1>1. DeliveryInv => Waiting \subseteq Entry
  BY Typing DEF DeliveryInv, Waiting
<1>2. CountInv /\ DeliveryInv /\ [Next]_vars => CountInv'
  BY <1>1, CountStep, DeliveryStep
<1>3. CountInv => NoLossNoDuplicate
  BY DEF CountInv
<1> QED
  BY <1>2, <1>3, CountInit, DeliveryInvInit, DeliveryInvNext, PTL DEF Spec
=============================================================================
