----------------------- MODULE DelayedMessageScheduler -----------------------
(***************************************************************************)
(* src/world/communication/DelayedMessageScheduler.cpp with the interrupt- *)
(* ible clock of SchedulerClock.h.                                         *)
(*                                                                         *)
(* Threads: the producers (scheduleAt, scheduleAfter), the worker          *)
(* (workerLoop), the owner (drainDueTo) and the closer (shutdown).  A step *)
(* is one section under mMutex, one under the clock's mutex, one notify,   *)
(* or one call made without a lock.  mMutex is free unless the worker is   *)
(* in "scan"; every other section under it is a single step.  A condition  *)
(* variable wait is a program counter value that a notify moves on: a      *)
(* notify nobody waits for is lost, as it is in the code.                  *)
(***************************************************************************)
EXTENDS Naturals, Sequences, FiniteSets

CONSTANTS Producers,        \* threads that schedule
          Delays,           \* delays passed to scheduleAfter
          DueTimes,         \* absolute times passed to scheduleAt
          HandoffCapacity,  \* mHandoffCapacity
          SequenceStart,    \* initial mSequence
          SequenceMax,      \* numeric_limits<uint64_t>::max()
          TimeMax           \* Time::max(), the end of the clock

ASSUME SchedulerAssumption ==
  /\ Delays \subseteq Nat
  /\ TimeMax \in Nat
  /\ DueTimes \subseteq 0..TimeMax
  /\ HandoffCapacity \in Nat \ {0}
  /\ SequenceStart \in Nat
  /\ SequenceMax \in Nat
  /\ SequenceStart <= SequenceMax

VARIABLES now,        \* SchedulerClock::now()
          interrupt,  \* SteadySchedulerClock::mPendingInterrupt
          queue,      \* mQueue; a set, since no two entries share a sequence
          handoff,    \* mHandoff, front first
          sequence,   \* mSequence
          stopping,   \* mStopping
          worker,     \* where the worker thread is
          until,      \* target of its clock wait
          producer,   \* where each producer is, and the due time it computed
          owner,      \* where the owner is in drainDueTo
          closer,     \* where shutdown() is
          submitted,  \* history: entries the runtime accepted, in order
          poisoned    \* history: entries the runtime permanently rejected

vars == <<now, interrupt, queue, handoff, sequence, stopping, worker, until,
          producer, owner, closer, submitted, poisoned>>

Times == 0..TimeMax
Entry == [due : Times, seq : SequenceStart..SequenceMax]

WorkerStates == {"relock", "scan", "clock", "clockWait", "workWait", "workWoken",
                 "handoffWait", "handoffWoken", "exited"}
ProducerStates == {"idle", "schedule", "interrupt", "notify"}
OwnerStates == {"idle", "peek", "submit", "accepted", "rejected", "freed", "finish",
                "throw"}
CloserStates == {"open", "interrupt", "notify", "join", "closed"}

MutexFree == worker # "scan"

\* Faulty variant: the heap breaks ties with the newest entry first.
KeyLess_NewestFirst(e, f) == e.due < f.due \/ (e.due = f.due /\ e.seq > f.seq)

\* EarlierEntry: the top of the heap has the least (due, sequence).
KeyLess(e, f) == e.due < f.due \/ (e.due = f.due /\ e.seq < f.seq)
IsTop(e) == /\ e \in queue
            /\ \A f \in queue \ {e} : KeyLess(e, f)

Init == /\ now = 0
        /\ interrupt = FALSE
        /\ queue = {}
        /\ handoff = <<>>
        /\ sequence = SequenceStart
        /\ stopping = FALSE
        /\ worker = "relock"
        /\ until = 0
        /\ producer = [p \in Producers |-> [at |-> "idle", due |-> 0]]
        /\ owner = "idle"
        /\ closer = "open"
        /\ submitted = <<>>
        /\ poisoned = {}
-----------------------------------------------------------------------------
(* The clock.                                                              *)

Tick == /\ now < TimeMax
        /\ now' = now + 1
        /\ UNCHANGED <<interrupt, queue, handoff, sequence, stopping, worker, until,
                       producer, owner, closer, submitted, poisoned>>

\* interrupt(): the flag is set under the clock's mutex; a waiter sees it.
ClockInterrupt == interrupt' = TRUE

\* notify_all on both condition variables of the scheduler, or on one.
WakeWork == IF worker = "workWait" THEN "workWoken" ELSE worker

\* Faulty variant: shutdown forgets the wait for new work.
WakeBoth_HandoffOnly == IF worker = "handoffWait" THEN "handoffWoken" ELSE worker
WakeHandoff == IF worker = "handoffWait" THEN "handoffWoken" ELSE worker
WakeBoth == IF worker = "workWait" THEN "workWoken" ELSE WakeHandoff
-----------------------------------------------------------------------------
(* Producers.                                                              *)

At(p, state) == producer[p].at = state
Move(p, state) == producer' = [producer EXCEPT ![p] = [at |-> state, due |-> 0]]

\* scheduleAfter reads the clock before scheduleAt takes the mutex; the
\* checked addition throws when the due time is not representable.
ComputeDue(p) ==
  /\ At(p, "idle")
  /\ \E due \in {now + d : d \in {x \in Delays : x <= TimeMax - now}} \cup DueTimes :
       producer' = [producer EXCEPT ![p] = [at |-> "schedule", due |-> due]]
  /\ UNCHANGED <<now, interrupt, queue, handoff, sequence, stopping, worker, until,
                 owner, closer, submitted, poisoned>>

\* The section under mMutex of scheduleAt, without a throw.
ScheduleAt(p) ==
  /\ At(p, "schedule")
  /\ MutexFree
  /\ ~stopping
  /\ sequence # SequenceMax
  /\ queue' = queue \cup {[due |-> producer[p].due, seq |-> sequence]}
  /\ sequence' = sequence + 1
  /\ Move(p, "interrupt")
  /\ UNCHANGED <<now, interrupt, handoff, stopping, worker, until, owner, closer,
                 submitted, poisoned>>

\* The two loud rejections: after shutdown, and when no sequence is left.
ScheduleRejected(p) ==
  /\ At(p, "schedule")
  /\ MutexFree
  /\ stopping \/ sequence = SequenceMax
  /\ Move(p, "idle")
  /\ UNCHANGED <<now, interrupt, queue, handoff, sequence, stopping, worker, until,
                 owner, closer, submitted, poisoned>>

ProducerInterrupt(p) ==
  /\ At(p, "interrupt")
  /\ ClockInterrupt
  /\ Move(p, "notify")
  /\ UNCHANGED <<now, queue, handoff, sequence, stopping, worker, until, owner,
                 closer, submitted, poisoned>>

ProducerNotify(p) ==
  /\ At(p, "notify")
  /\ worker' = WakeWork
  /\ Move(p, "idle")
  /\ UNCHANGED <<now, interrupt, queue, handoff, sequence, stopping, until, owner,
                 closer, submitted, poisoned>>
-----------------------------------------------------------------------------
(* The worker.  In "scan" it holds mMutex.                                 *)

WorkerUnchanged == UNCHANGED <<now, sequence, stopping, producer, owner, closer,
                               submitted, poisoned>>

WorkerLock == /\ worker = "relock"
              /\ worker' = "scan"
              /\ UNCHANGED <<interrupt, queue, handoff, until>>
              /\ WorkerUnchanged

WorkerExit == /\ worker = "scan"
              /\ stopping
              /\ worker' = "exited"
              /\ UNCHANGED <<interrupt, queue, handoff, until>>
              /\ WorkerUnchanged

\* One turn of the inner loop; the clock is read again on every turn.
WorkerMove == /\ worker = "scan"
              /\ ~stopping
              /\ Len(handoff) < HandoffCapacity
              /\ \E e \in queue : /\ IsTop(e)
                                  /\ e.due <= now
                                  /\ queue' = queue \ {e}
                                  /\ handoff' = Append(handoff, e)
              /\ UNCHANGED <<interrupt, worker, until>>
              /\ WorkerUnchanged

WorkerWaitHandoff == /\ worker = "scan"
                     /\ ~stopping
                     /\ Len(handoff) >= HandoffCapacity
                     /\ worker' = "handoffWait"
                     /\ UNCHANGED <<interrupt, queue, handoff, until>>
                     /\ WorkerUnchanged

WorkerWaitDue == /\ worker = "scan"
                 /\ ~stopping
                 /\ Len(handoff) < HandoffCapacity
                 /\ \E e \in queue : IsTop(e) /\ e.due > now /\ until' = e.due
                 /\ worker' = "clock"
                 /\ UNCHANGED <<interrupt, queue, handoff>>
                 /\ WorkerUnchanged

WorkerWaitWork == /\ worker = "scan"
                  /\ ~stopping
                  /\ Len(handoff) < HandoffCapacity
                  /\ queue = {}
                  /\ worker' = "workWait"
                  /\ UNCHANGED <<interrupt, queue, handoff, until>>
                  /\ WorkerUnchanged

\* waitUntil: a pending interrupt is consumed on entry, else the wait starts.
ClockEnter == /\ worker = "clock"
              /\ interrupt' = FALSE
              /\ worker' = IF interrupt THEN "relock" ELSE "clockWait"
              /\ UNCHANGED <<queue, handoff, until>>
              /\ WorkerUnchanged

\* The wait ends on the target time or an interrupt, and consumes the flag.
ClockWake == /\ worker = "clockWait"
             /\ interrupt \/ now >= until
             /\ interrupt' = FALSE
             /\ worker' = "relock"
             /\ UNCHANGED <<queue, handoff, until>>
             /\ WorkerUnchanged

\* A notified wait retakes the mutex and tests its predicate.
WorkRetest == /\ worker = "workWoken"
              /\ worker' = IF stopping \/ queue # {} THEN "scan" ELSE "workWait"
              /\ UNCHANGED <<interrupt, queue, handoff, until>>
              /\ WorkerUnchanged

HandoffRetest == /\ worker = "handoffWoken"
                 /\ worker' = IF stopping \/ Len(handoff) < HandoffCapacity
                              THEN "scan" ELSE "handoffWait"
                 /\ UNCHANGED <<interrupt, queue, handoff, until>>
                 /\ WorkerUnchanged

Worker == \/ WorkerLock \/ WorkerExit \/ WorkerMove
          \/ WorkerWaitHandoff \/ WorkerWaitDue \/ WorkerWaitWork
          \/ ClockEnter \/ ClockWake \/ WorkRetest \/ HandoffRetest
-----------------------------------------------------------------------------
(* The owner in drainDueTo.                                                *)

OwnerUnchanged == UNCHANGED <<now, interrupt, queue, sequence, stopping, until,
                              producer, closer>>

\* Faulty variant: the front is taken out before its submit.
DrainPeek_TakesFront == /\ owner \in {"idle", "peek"}
                        /\ MutexFree
                        /\ owner' = IF handoff = <<>> THEN "finish" ELSE "submit"
                        /\ handoff' = IF handoff = <<>> THEN <<>> ELSE Tail(handoff)
                        /\ UNCHANGED <<worker, submitted, poisoned>>
                        /\ OwnerUnchanged

\* A look at the front under the mutex; the front stays in place.
DrainPeek == /\ owner \in {"idle", "peek"}
             /\ MutexFree
             /\ owner' = IF handoff = <<>> THEN "finish" ELSE "submit"
             /\ UNCHANGED <<handoff, worker, submitted, poisoned>>
             /\ OwnerUnchanged

\* The three outcomes of runtime.submit(front), called without the mutex.
SubmitAccepted == /\ owner = "submit"
                  /\ submitted' = Append(submitted, Head(handoff))
                  /\ owner' = "accepted"
                  /\ UNCHANGED <<handoff, worker, poisoned>>
                  /\ OwnerUnchanged

\* Faulty variant: backpressure removes the front like an acceptance does.
SubmitFull_PopsFront == /\ owner = "submit"
                        /\ owner' = "rejected"
                        /\ UNCHANGED <<handoff, worker, submitted, poisoned>>
                        /\ OwnerUnchanged

SubmitFull == /\ owner = "submit"
              /\ owner' = "finish"
              /\ UNCHANGED <<handoff, worker, submitted, poisoned>>
              /\ OwnerUnchanged

SubmitRejected == /\ owner = "submit"
                  /\ poisoned' = poisoned \cup {Head(handoff)}
                  /\ owner' = "rejected"
                  /\ UNCHANGED <<handoff, worker, submitted>>
                  /\ OwnerUnchanged

DrainPop == /\ owner \in {"accepted", "rejected"}
            /\ MutexFree
            /\ handoff' = Tail(handoff)
            /\ owner' = IF owner = "accepted" THEN "freed" ELSE "throw"
            /\ UNCHANGED <<worker, submitted, poisoned>>
            /\ OwnerUnchanged

\* Faulty variant: a freed slot is not notified.
DrainNotify_Silent == /\ owner \in {"freed", "finish", "throw"}
                      /\ owner' = IF owner = "freed" THEN "peek" ELSE "idle"
                      /\ UNCHANGED <<handoff, worker, submitted, poisoned>>
                      /\ OwnerUnchanged

\* notify_all on mHandoffCv: the loop goes on, returns, or rethrows.
DrainNotify == /\ owner \in {"freed", "finish", "throw"}
               /\ worker' = WakeHandoff
               /\ owner' = IF owner = "freed" THEN "peek" ELSE "idle"
               /\ UNCHANGED <<handoff, submitted, poisoned>>
               /\ OwnerUnchanged

Submit == SubmitAccepted \/ SubmitFull \/ SubmitRejected
-----------------------------------------------------------------------------
(* shutdown().  A second call returns at once and changes nothing.         *)

CloserUnchanged == UNCHANGED <<now, queue, handoff, sequence, until, producer, owner,
                               submitted, poisoned>>

ShutdownStop == /\ closer = "open"
                /\ MutexFree
                /\ stopping' = TRUE
                /\ closer' = "interrupt"
                /\ UNCHANGED <<interrupt, worker>>
                /\ CloserUnchanged

ShutdownInterrupt == /\ closer = "interrupt"
                     /\ ClockInterrupt
                     /\ closer' = "notify"
                     /\ UNCHANGED <<stopping, worker>>
                     /\ CloserUnchanged

ShutdownNotify == /\ closer = "notify"
                  /\ worker' = WakeBoth
                  /\ closer' = "join"
                  /\ UNCHANGED <<interrupt, stopping>>
                  /\ CloserUnchanged

ShutdownJoin == /\ closer = "join"
                /\ worker = "exited"
                /\ closer' = "closed"
                /\ UNCHANGED <<interrupt, stopping, worker>>
                /\ CloserUnchanged

Shutdown == ShutdownStop \/ ShutdownInterrupt \/ ShutdownNotify \/ ShutdownJoin
-----------------------------------------------------------------------------
Producer(p) == \/ ComputeDue(p) \/ ScheduleAt(p) \/ ScheduleRejected(p)
               \/ ProducerInterrupt(p) \/ ProducerNotify(p)

Owner == DrainPeek \/ Submit \/ DrainPop \/ DrainNotify

Next == \/ Tick
        \/ \E p \in Producers : Producer(p)
        \/ Worker
        \/ Owner
        \/ Shutdown

Spec == Init /\ [][Next]_vars

\* Time passes, a running thread runs, a call that began ends, the owner calls
\* drainDueTo every frame, and the bus it fills is emptied every frame: a
\* submit that is retried for ever is not full for ever.
Fairness == /\ WF_vars(Tick)
            /\ WF_vars(Worker)
            /\ \A p \in Producers : WF_vars(Producer(p) /\ ~At(p, "idle"))
            /\ WF_vars(Owner)
            /\ SF_vars(SubmitAccepted \/ SubmitRejected)
            /\ WF_vars(Shutdown /\ closer # "open")

FairSpec == Spec /\ Fairness
-----------------------------------------------------------------------------
(* Properties.                                                             *)

TypeOK == /\ now \in Times
          /\ interrupt \in BOOLEAN
          /\ queue \in SUBSET Entry
          /\ handoff \in Seq(Entry)
          /\ sequence \in SequenceStart..SequenceMax
          /\ stopping \in BOOLEAN
          /\ worker \in WorkerStates
          /\ until \in Times
          /\ producer \in [Producers -> [at : ProducerStates, due : Times]]
          /\ owner \in OwnerStates
          /\ closer \in CloserStates
          /\ submitted \in Seq(Entry)
          /\ poisoned \in SUBSET Entry

\* The due staging is bounded by handoffCapacity, whatever the owner is doing
\* while the worker appends: the front stays in the deque during a submit so
\* that the worker can never overshoot the bound.
HandoffBounded == Len(handoff) <= HandoffCapacity

\* The reference drainDueTo keeps to the front without the mutex stays valid
\* and stays the front: while a submit is out, or decided and not yet popped,
\* the deque is not empty and its head is the entry that was decided.
FrontStable ==
  /\ owner = "submit" => handoff # <<>>
  /\ owner = "accepted" => /\ handoff # <<>>
                           /\ submitted # <<>>
                           /\ submitted[Len(submitted)] = Head(handoff)
  /\ owner = "rejected" => handoff # <<>> /\ Head(handoff) \in poisoned

\* Entries that left the heap are due: none is staged, submitted or dropped
\* before its virtual time.
NeverEarly == /\ \A i \in DOMAIN handoff : handoff[i].due <= now
              /\ \A i \in DOMAIN submitted : submitted[i].due <= now
              /\ \A e \in poisoned : e.due <= now

\* Entries that are accepted and not yet decided by the runtime: the front
\* counts as gone once its submit returned.
Undecided(i) == i \in DOMAIN handoff /\ (i = 1 => owner \notin {"accepted", "rejected"})
Waiting == queue \cup {handoff[i] : i \in {j \in DOMAIN handoff : Undecided(j)}}

\* Every accepted message is in exactly one place - the heap, the staging
\* deque, the bus or the rejects - and was handed to the bus at most once.
NoLossNoDuplicate ==
  LET delivered == {submitted[i] : i \in DOMAIN submitted}
  IN /\ {e.seq : e \in Waiting \cup delivered \cup poisoned} = SequenceStart..(sequence - 1)
     /\ Cardinality(Waiting) + Len(submitted) + Cardinality(poisoned)
          = sequence - SequenceStart

\* A message never leaves while an older one that is due no later still waits
\* (equal due times leave in call order), through worker, backpressure and
\* rejections.  The abstract specification states it for every step.
Delivery == INSTANCE DelayedDelivery
              WITH next <- sequence, open <- ~stopping, waiting <- Waiting,
                   delivered <- submitted, dropped <- poisoned
DeliveryRefined == Delivery!Spec

\* After shutdown() nothing new is queued: a late call is refused, never
\* silently lost in a queue nobody serves.
ClosedToNewWork == [][stopping => queue' \subseteq queue /\ sequence' = sequence]_vars

\* No wakeup is lost: an accepted message reaches the bus or is rejected
\* there, unless the scheduler is shut down.
EveryMessageLeaves ==
  \A s \in SequenceStart..(SequenceMax - 1) :
    (\E e \in Waiting : e.seq = s) ~> (stopping \/ ~ \E e \in Waiting : e.seq = s)

\* shutdown() returns: the worker leaves whichever wait it is in.
ShutdownCompletes == stopping ~> closer = "closed"

\* The safety of the scheduler in one invariant: types, the bound of the staging
\* deque, the front the owner works on without the mutex, nothing early.
SchedulerInv == TypeOK /\ HandoffBounded /\ FrontStable /\ NeverEarly
=============================================================================
