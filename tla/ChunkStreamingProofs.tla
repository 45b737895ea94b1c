------------------------ MODULE ChunkStreamingProofs ------------------------
(***************************************************************************)
(* Chunk streaming with its two threads: what waits for the main thread is *)
(* bounded and of the current plan, edits survive, and a plan has neither  *)
(* holes nor double work.  For every set of chunks, every radius, budget   *)
(* and bound.                                                              *)
(***************************************************************************)
EXTENDS ChunkStreaming, FiniteSetTheorems, TLAPS

\* A batch is at most a full stage.  Without this the buffers of a batch could
\* outgrow what the commit gives back.
BatchBounded == Len(ready) <= MaxReady

\* The worker holds a job exactly while it is counted, or waits for space with it.
JobCounted == inFlight = IF worker \in {"generate", "finish", "fail"} THEN 1 ELSE 0

\* A replan is begun only while the model has an epoch left for it.
ReplanRoom == main = "replan" => epoch < MaxEpoch

StageInv == StagingInv /\ BatchBounded /\ JobCounted /\ ReplanRoom

\* Sequences, in the form the steps need.
LEMMA TailOf ==
  ASSUME NEW S, NEW s \in Seq(S), s # <<>>
  PROVE  /\ Tail(s) \in Seq(S) /\ Head(s) \in S /\ Head(s) = s[1]
         /\ DOMAIN s = 1..Len(s) /\ Len(s) \in Nat \ {0}
         /\ DOMAIN Tail(s) = 1..(Len(s) - 1) /\ Len(Tail(s)) = Len(s) - 1
         /\ \A i \in 1..(Len(s) - 1) : Tail(s)[i] = s[i + 1]
OBVIOUS

LEMMA AppendOf ==
  ASSUME NEW S, NEW s \in Seq(S), NEW x \in S
  PROVE  /\ Append(s, x) \in Seq(S) /\ Len(Append(s, x)) = Len(s) + 1
         /\ Len(s) \in Nat /\ DOMAIN s = 1..Len(s)
         /\ DOMAIN Append(s, x) = 1..(Len(s) + 1)
         /\ \A i \in 1..Len(s) : Append(s, x)[i] = s[i]
         /\ Append(s, x)[Len(s) + 1] = x
OBVIOUS

\* commitCompleted splits the stage into the batch and the rest.
LEMMA SplitAt ==
  ASSUME NEW S, NEW s \in Seq(S), NEW k \in 0..Len(s)
  PROVE  /\ SubSeq(s, 1, k) \in Seq(S) /\ Len(SubSeq(s, 1, k)) = k
         /\ SubSeq(s, k + 1, Len(s)) \in Seq(S) /\ Len(SubSeq(s, k + 1, Len(s))) = Len(s) - k
         /\ DOMAIN s = 1..Len(s) /\ Len(s) \in Nat
         /\ \A i \in 1..k : SubSeq(s, 1, k)[i] = s[i]
         /\ \A i \in 1..(Len(s) - k) : SubSeq(s, k + 1, Len(s))[i] = s[k + i]
OBVIOUS

LEMMA StageTypes ==
  ASSUME TypeOK
  PROVE  /\ queue \in Seq(Job) /\ completed \in Seq(Job) /\ ready \in Seq(Job)
         /\ Len(queue) \in Nat /\ Len(completed) \in Nat /\ Len(ready) \in Nat
         /\ free \in Nat /\ epoch \in Nat /\ MaxReady \in Nat \ {0} /\ CommitBudget \in Nat \ {0}
         /\ Holding \in 0..1
BY StreamingAssumption DEF TypeOK, StreamingAssumption, Holding

\* Nothing moves with a notification but a sleeper.
LEMMA WakeTypes ==
  ASSUME TypeOK
  PROVE  /\ WakeJob(worker) \in WorkerStates /\ WakeSpace(worker) \in WorkerStates
         /\ WakeSpace(WakeJob(worker)) \in WorkerStates
         /\ WakeFlush(main) \in MainStates
BY DEF TypeOK, WakeJob, WakeSpace, WakeFlush, WorkerStates, MainStates

LEMMA JobTyped ==
  ASSUME NEW c \in Chunks, epoch \in 0..MaxEpoch
  PROVE  [coord |-> c, epoch |-> epoch] \in Job
BY DEF Job

\* What Enqueue puts into the queue.
LEMMA OrderTyped ==
  ASSUME NEW S \in SUBSET Chunks, NEW order \in [1..Cardinality(S) -> S], IsFiniteSet(S),
         epoch \in 0..MaxEpoch
  PROVE  [i \in DOMAIN order |-> [coord |-> order[i], epoch |-> epoch]] \in Seq(Job)
<1>1. Cardinality(S) \in Nat
  BY FS_CardinalityType
<1>2. \A i \in 1..Cardinality(S) : [coord |-> order[i], epoch |-> epoch] \in Job
  BY JobTyped
<1> QED
  BY <1>1, <1>2

LEMMA TypeInit == Init => TypeOK
<1> SUFFICES ASSUME Init PROVE TypeOK
  OBVIOUS
<1>1. /\ queue = <<>> /\ completed = <<>> /\ ready = <<>>
      /\ worker = "jobTest" /\ main = "idle" /\ failed = FALSE /\ stopping = FALSE
      /\ hasPlan = FALSE /\ epoch = 0 /\ free = 0 /\ inFlight = 0 /\ missing = {}
      /\ center \in Chunks
  BY DEF Init
<1>2. queue \in Seq(Job) /\ completed \in Seq(Job) /\ ready \in Seq(Job)
  BY <1>1
<1>3. 0 \in 0..MaxEpoch /\ job \in Job
  BY <1>1, StreamingAssumption DEF Init, Job, StreamingAssumption
<1>4. loaded \in [Chunks -> ChunkStates]
  BY DEF Init, ChunkStates
<1>5. worker \in WorkerStates /\ main \in MainStates
  BY <1>1 DEF WorkerStates, MainStates
<1>6. hasPlan \in BOOLEAN /\ failed \in BOOLEAN /\ stopping \in BOOLEAN
  BY <1>1
<1> QED
  BY <1>1, <1>2, <1>3, <1>4, <1>5, <1>6 DEF TypeOK

\* Every step keeps the types.  A job is counted at most once because only one
\* state of the worker takes it in and only two give it back.
LEMMA MainTypeStep ==
  ASSUME StageInv,
         Update \/ Flush \/ Continue \/ Destroy \/ \E c \in Chunks : SetBlock(c)
  PROVE  TypeOK'
<1>1. TypeOK /\ ReplanRoom
  BY DEF StageInv, StagingInv
<1>2. CASE \E c \in Chunks : UpdateMoved(c)
  <2>1. PICK c \in Chunks : UpdateMoved(c)
    BY <1>2
  <2>2. loaded' \in [Chunks -> ChunkStates]
    BY <2>1, <1>1 DEF UpdateMoved, TypeOK, ChunkStates
  <2>3. main' \in MainStates
    BY <2>1 DEF UpdateMoved, MainStates
  <2> QED
    BY <1>1, <2>1, <2>2, <2>3 DEF UpdateMoved, TypeOK, shared
<1>3. CASE Replan
  <2>1. epoch' \in 0..MaxEpoch
    BY <1>1, <1>3, StreamingAssumption DEF Replan, ReplanRoom, TypeOK, StreamingAssumption
  <2>2. free' \in Nat
    BY <1>1, <1>3, StageTypes DEF Replan
  <2>3. queue' \in Seq(Job) /\ completed' \in Seq(Job)
    BY <1>3 DEF Replan
  <2>4. worker' \in WorkerStates /\ main' \in MainStates
    BY <1>1, <1>3, WakeTypes DEF Replan, MainStates
  <2>5. missing' \subseteq Chunks
    BY <1>3 DEF Replan, View
  <2> QED
    BY <1>1, <1>3, <2>1, <2>2, <2>3, <2>4, <2>5 DEF Replan, TypeOK
<1>4. CASE Enqueue
  <2>1. PICK order \in [1..Cardinality(missing) -> missing] :
          queue' = [i \in DOMAIN order |-> [coord |-> order[i], epoch |-> epoch]]
    BY <1>4 DEF Enqueue
  <2>2. missing \in SUBSET Chunks /\ IsFiniteSet(missing) /\ epoch \in 0..MaxEpoch
    BY <1>1, StreamingAssumption, FS_Subset DEF TypeOK, StreamingAssumption
  <2>3. queue' \in Seq(Job)
    BY <2>1, <2>2, OrderTyped
  <2>4. worker' \in WorkerStates /\ main' \in MainStates
    BY <1>1, <1>4, WakeTypes DEF Enqueue, MainStates
  <2> QED
    BY <1>1, <1>4, <2>3, <2>4 DEF Enqueue, TypeOK
<1>5. ASSUME NEW n \in Nat, NEW next \in MainStates, Take(n, next)
      PROVE  TypeOK'
  <2>1. PICK k \in 0..Len(completed) :
          /\ ready' = SubSeq(completed, 1, k)
          /\ completed' = SubSeq(completed, k + 1, Len(completed))
    <3> DEFINE k == IF Len(completed) < n THEN Len(completed) ELSE n
    <3>1. k \in 0..Len(completed)
      BY <1>1, StageTypes
    <3> QED
      BY <1>5, <3>1 DEF Take
  <2>2. ready' \in Seq(Job) /\ completed' \in Seq(Job)
    BY <1>1, <2>1, StageTypes, SplitAt
  <2>3. worker' \in WorkerStates /\ main' \in MainStates
    BY <1>1, <1>5, WakeTypes DEF Take
  <2> QED
    BY <1>1, <1>5, <2>2, <2>3 DEF Take, TypeOK
<1>6. CASE TakeSome \/ TakeAll
  <2>1. "commit" \in MainStates /\ "flushCommit" \in MainStates
    BY DEF MainStates
  <2> QED
    BY <1>1, <1>5, <1>6, <2>1, StageTypes DEF TakeSome, TakeAll
<1>7. CASE Commit
  <2>1. ready' \in Seq(Job)
    BY <1>1, <1>7, StageTypes, TailOf DEF Commit
  <2>2. loaded' \in [Chunks -> ChunkStates]
    BY <1>1, <1>7 DEF Commit, Materialize, TypeOK, ChunkStates
  <2>3. free' \in Nat
    BY <1>1, <1>7 DEF Commit, TypeOK
  <2> QED
    BY <1>1, <1>7, <2>1, <2>2, <2>3 DEF Commit, TypeOK
<1>8. CASE \/ UpdateSameCenter \/ UpdateThrows \/ Flush \/ FlushRound \/ UpdateEnds
           \/ FlushTest \/ FlushRetest \/ FlushReturns \/ Join
  <2>1. main' \in MainStates
    BY <1>1, <1>8 DEF UpdateSameCenter, UpdateThrows, Flush, FlushRound, UpdateEnds, FlushTest,
       FlushRetest, FlushReturns, Join, MainStates
  <2>2. UNCHANGED <<center, hasPlan, loaded, shared, worker, job, missing, ready>>
    BY <1>8 DEF UpdateSameCenter, UpdateThrows, Flush, FlushRound, UpdateEnds, FlushTest,
       FlushRetest, FlushReturns, Join
  <2> QED
    BY <1>1, <2>1, <2>2 DEF TypeOK, shared
<1>9. CASE Destroy
  <2>1. worker' \in WorkerStates /\ main' \in MainStates
    BY <1>1, <1>9, WakeTypes DEF Destroy, MainStates
  <2>2. queue' \in Seq(Job)
    BY <1>9 DEF Destroy
  <2> QED
    BY <1>1, <1>9, <2>1, <2>2 DEF Destroy, TypeOK
<1>10. CASE \E c \in Chunks : SetBlock(c)
  <2>1. loaded' \in [Chunks -> ChunkStates]
    BY <1>1, <1>10 DEF SetBlock, TypeOK, ChunkStates
  <2> QED
    BY <1>1, <1>10, <2>1 DEF SetBlock, TypeOK, shared
<1> QED
  BY <1>2, <1>3, <1>4, <1>6, <1>7, <1>8, <1>9, <1>10 DEF Update, Continue

LEMMA WorkerTypeStep ==
  ASSUME StageInv, Worker
  PROVE  TypeOK'
<1>1. TypeOK /\ JobCounted
  BY DEF StageInv, StagingInv
<1>2. WakeFlush(main) \in MainStates /\ main \in MainStates
  BY <1>1, WakeTypes DEF TypeOK
<1>3. CASE TakeJob
  <2>1. queue' \in Seq(Job) /\ job' \in Job
    BY <1>1, <1>3, StageTypes, TailOf DEF TakeJob
  <2>2. free' \in Nat
    BY <1>1, <1>3, StageTypes DEF TakeJob
  <2>3. inFlight' \in 0..1 /\ worker' \in WorkerStates
    BY <1>1, <1>3 DEF TakeJob, JobCounted, WorkerStates
  <2> QED
    BY <1>1, <1>3, <2>1, <2>2, <2>3 DEF TakeJob, WorkerUnchanged, TypeOK
<1>4. CASE NoJob \/ Generate
  <2>1. worker' \in WorkerStates
    BY <1>4 DEF NoJob, Generate, WorkerStates
  <2>2. UNCHANGED <<queue, completed, free, inFlight, failed, job, main>> /\ WorkerUnchanged
    BY <1>4 DEF NoJob, Generate
  <2> QED
    BY <1>1, <2>1, <2>2 DEF WorkerUnchanged, TypeOK
<1>5. CASE Fail
  <2>1. queue' \in Seq(Job) /\ worker' \in WorkerStates
    BY <1>5 DEF Fail, WorkerStates
  <2>2. inFlight' \in 0..1
    BY <1>1, <1>5 DEF Fail, JobCounted
  <2> QED
    BY <1>1, <1>2, <1>5, <2>1, <2>2 DEF Fail, WorkerUnchanged, TypeOK
<1>6. ASSUME Leaving PROVE inFlight' \in 0..1
  BY <1>1, <1>6 DEF Leaving, JobCounted
<1>7. CASE DropStale
  <2>1. worker' \in WorkerStates /\ free' \in Nat
    BY <1>1, <1>7, StageTypes DEF DropStale, WorkerStates
  <2> QED
    BY <1>1, <1>2, <1>6, <1>7, <2>1 DEF DropStale, WorkerUnchanged, TypeOK
<1>8. CASE StopWithResult \/ WaitForSpace
  <2>1. worker' \in WorkerStates
    BY <1>8 DEF StopWithResult, WaitForSpace, WorkerStates
  <2>2. /\ UNCHANGED <<queue, completed, free, failed, job, main>> /\ WorkerUnchanged
        /\ Leaving
    BY <1>8 DEF StopWithResult, WaitForSpace
  <2> QED
    BY <1>1, <1>6, <2>1, <2>2 DEF WorkerUnchanged, TypeOK
<1>9. CASE Stage
  <2>1. worker' \in WorkerStates
    BY <1>9 DEF Stage, WorkerStates
  <2>2. completed' \in Seq(Job)
    <3>1. completed \in Seq(Job) /\ job \in Job
      BY <1>1 DEF TypeOK
    <3> QED
      BY <1>9, <3>1, AppendOf DEF Stage
  <2> QED
    BY <1>1, <1>2, <1>6, <1>9, <2>1, <2>2 DEF Stage, WorkerUnchanged, TypeOK
<1> QED
  BY <1>3, <1>4, <1>5, <1>7, <1>8, <1>9 DEF Worker

\* No notification gives the worker a buffer or takes one from it.
LEMMA WakeKeeps ==
  ASSUME TypeOK, worker' \in {worker, WakeSpace(worker), WakeJob(worker),
                              WakeSpace(WakeJob(worker))}
  PROVE  /\ Holding' = Holding
         /\ (worker' \in {"generate", "finish", "fail"})
              <=> (worker \in {"generate", "finish", "fail"})
BY DEF TypeOK, WorkerStates, WakeJob, WakeSpace, Holding

\* The bounds: every buffer that leaves one place arrives in another, and a new
\* one is made only when none is free.
LEMMA MainCountStep ==
  ASSUME StageInv,
         Update \/ Flush \/ Continue \/ Destroy \/ \E c \in Chunks : SetBlock(c)
  PROVE  ReadyBoundedAndCurrent' /\ BuffersBounded' /\ BatchBounded' /\ JobCounted' /\ ReplanRoom'
<1>1. /\ TypeOK /\ ReadyBoundedAndCurrent /\ BuffersBounded /\ BatchBounded /\ JobCounted
      /\ ReplanRoom
  BY DEF StageInv, StagingInv
<1>2. /\ queue \in Seq(Job) /\ completed \in Seq(Job) /\ ready \in Seq(Job)
      /\ Len(completed) \in Nat /\ Len(ready) \in Nat
      /\ free \in Nat /\ MaxReady \in Nat \ {0} /\ CommitBudget \in Nat \ {0} /\ Holding \in 0..1
  BY <1>1, StageTypes
<1>3. ASSUME UNCHANGED <<epoch, completed, free, inFlight, ready>>,
             worker' \in {worker, WakeSpace(worker), WakeJob(worker), WakeSpace(WakeJob(worker))},
             main' # "replan"
      PROVE  ReadyBoundedAndCurrent' /\ BuffersBounded' /\ BatchBounded' /\ JobCounted' /\ ReplanRoom'
  <2>1. Holding' = Holding /\ JobCounted'
    BY <1>1, <1>3, WakeKeeps DEF JobCounted
  <2> QED
    BY <1>1, <1>3, <2>1 DEF ReadyBoundedAndCurrent, BuffersBounded, BatchBounded, ReplanRoom
<1>4. CASE \E c \in Chunks : UpdateMoved(c)
  <2>1. /\ UNCHANGED <<epoch, completed, free, inFlight, ready, worker>> /\ epoch < MaxEpoch
    BY <1>4 DEF UpdateMoved, shared
  <2>2. Holding' = Holding /\ JobCounted'
    BY <1>1, <2>1, WakeKeeps DEF JobCounted
  <2> QED
    BY <1>1, <2>1, <2>2 DEF ReadyBoundedAndCurrent, BuffersBounded, BatchBounded, ReplanRoom
<1>5. CASE Replan
  <2>1. /\ completed' = <<>> /\ free' = free + Len(completed) /\ ready' = ready
        /\ inFlight' = inFlight /\ main' = "enqueue" /\ worker' = WakeSpace(worker)
    BY <1>5 DEF Replan
  <2>2. Holding' = Holding /\ JobCounted'
    BY <1>1, <2>1, WakeKeeps DEF JobCounted
  <2>3. BuffersBounded'
    BY <1>1, <1>2, <2>1, <2>2 DEF BuffersBounded
  <2>4. ReadyBoundedAndCurrent'
    BY <1>2, <2>1 DEF ReadyBoundedAndCurrent, ToSet
  <2> QED
    BY <1>1, <2>1, <2>2, <2>3, <2>4 DEF BatchBounded, ReplanRoom
<1>6. CASE Enqueue
  BY <1>3, <1>6 DEF Enqueue
<1>7. ASSUME NEW n \in Nat, NEW next \in {"commit", "flushCommit"}, Take(n, next)
      PROVE  ReadyBoundedAndCurrent' /\ BuffersBounded' /\ BatchBounded' /\ JobCounted' /\ ReplanRoom'
  <2>0. /\ worker' = WakeSpace(worker) /\ main' # "replan" /\ UNCHANGED <<epoch, free, inFlight>>
    BY <1>7 DEF Take
  <2>1. Holding' = Holding /\ JobCounted' /\ ReplanRoom'
    BY <1>1, <2>0, WakeKeeps DEF JobCounted, ReplanRoom
  <2>2. PICK k \in 0..Len(completed) :
          /\ ready' = SubSeq(completed, 1, k)
          /\ completed' = SubSeq(completed, k + 1, Len(completed))
    <3> DEFINE k == IF Len(completed) < n THEN Len(completed) ELSE n
    <3>1. k \in 0..Len(completed)
      BY <1>2
    <3> QED
      BY <1>7, <3>1 DEF Take
  <2>3. /\ Len(ready') = k /\ Len(completed') = Len(completed) - k
        /\ completed' \in Seq(Job)
        /\ \A i \in 1..(Len(completed) - k) : completed'[i] = completed[k + i]
    BY <1>2, <2>2, SplitAt
  <2>4. BatchBounded'
    BY <1>1, <1>2, <2>3 DEF BatchBounded, ReadyBoundedAndCurrent
  <2>5. BuffersBounded'
    <3>1. Len(completed) <= MaxReady
      BY <1>1 DEF ReadyBoundedAndCurrent
    <3>2. free + Len(completed) + Len(ready) + Holding <= 2 * MaxReady + 1
      BY <1>1 DEF BuffersBounded
    <3>3. free' + Len(completed') + Len(ready') + Holding' <= 2 * MaxReady + 1
      BY <1>2, <2>0, <2>1, <2>3, <3>1, <3>2
    <3> QED
      BY <3>3 DEF BuffersBounded
  <2>6. ReadyBoundedAndCurrent'
    <3>1. Len(completed') <= MaxReady
      BY <1>1, <1>2, <2>3 DEF ReadyBoundedAndCurrent
    <3>2. \A i \in DOMAIN completed : completed[i].epoch = epoch
      BY <1>1 DEF ReadyBoundedAndCurrent, ToSet
    <3>3. DOMAIN completed = 1..Len(completed) /\ DOMAIN completed' = 1..(Len(completed) - k)
      BY <1>2, <2>3
    <3>4. ASSUME NEW i \in DOMAIN completed' PROVE completed'[i].epoch = epoch
      <4>1. k + i \in DOMAIN completed /\ completed'[i] = completed[k + i]
        BY <1>2, <2>3, <3>3
      <4> QED
        BY <3>2, <4>1
    <3> QED
      BY <2>0, <3>1, <3>4 DEF ReadyBoundedAndCurrent, ToSet
  <2> QED
    BY <2>1, <2>4, <2>5, <2>6
<1>8. CASE TakeSome \/ TakeAll
  BY <1>2, <1>7, <1>8 DEF TakeSome, TakeAll
<1>9. CASE Commit
  <2>1. /\ UNCHANGED <<epoch, completed, inFlight, worker, main>> /\ free' = free + 1
        /\ main # "replan"
    BY <1>9 DEF Commit
  <2>2. Len(ready') = Len(ready) - 1
    BY <1>2, <1>9, TailOf DEF Commit
  <2>3. Holding' = Holding /\ JobCounted'
    BY <1>1, <2>1, WakeKeeps DEF JobCounted
  <2>4. BuffersBounded' /\ BatchBounded'
    BY <1>1, <1>2, <2>1, <2>2, <2>3 DEF BuffersBounded, BatchBounded
  <2> QED
    BY <1>1, <2>1, <2>3, <2>4 DEF ReadyBoundedAndCurrent, ReplanRoom
<1>10. CASE \/ UpdateSameCenter \/ UpdateThrows \/ Flush \/ FlushRound \/ UpdateEnds
            \/ FlushTest \/ FlushRetest \/ FlushReturns \/ Join
  BY <1>3, <1>10 DEF UpdateSameCenter, UpdateThrows, Flush, FlushRound, UpdateEnds, FlushTest,
     FlushRetest, FlushReturns, Join, shared
<1>11. CASE Destroy
  BY <1>3, <1>11 DEF Destroy
<1>12. CASE \E c \in Chunks : SetBlock(c)
  BY <1>3, <1>12 DEF SetBlock, shared
<1> QED
  BY <1>4, <1>5, <1>6, <1>8, <1>9, <1>10, <1>11, <1>12 DEF Update, Continue

\* A step of the worker makes a buffer only when none is free.
LEMMA BufferSum ==
  ASSUME NEW f \in Nat, NEW h \in 0..1, NEW g \in Nat, NEW k \in 0..1,
         NEW c \in Nat, NEW r \in Nat, NEW m \in Nat,
         f + c + r + h <= 2 * m + 1, c <= m, r <= m, g + k <= f + h \/ g + k = 1
  PROVE  g + c + r + k <= 2 * m + 1
OBVIOUS

LEMMA WorkerCountStep ==
  ASSUME StageInv, Worker
  PROVE  ReadyBoundedAndCurrent' /\ BuffersBounded' /\ BatchBounded' /\ JobCounted' /\ ReplanRoom'
<1>1. /\ TypeOK /\ ReadyBoundedAndCurrent /\ BuffersBounded /\ BatchBounded /\ JobCounted
      /\ ReplanRoom
  BY DEF StageInv, StagingInv
<1>2. /\ completed \in Seq(Job) /\ job \in Job
      /\ Len(completed) \in Nat /\ Len(ready) \in Nat
      /\ free \in Nat /\ MaxReady \in Nat \ {0} /\ Holding \in 0..1
  BY <1>1, StageTypes DEF TypeOK
<1>3. free + Len(completed) + Len(ready) + Holding <= 2 * MaxReady + 1
  BY <1>1 DEF BuffersBounded
<1>4. WorkerUnchanged /\ (main' = main \/ main' = WakeFlush(main))
  BY DEF Worker, TakeJob, NoJob, Generate, Fail, DropStale, StopWithResult, WaitForSpace, Stage
<1>5. BatchBounded' /\ ReplanRoom'
  BY <1>1, <1>4 DEF BatchBounded, ReplanRoom, WorkerUnchanged, WakeFlush
<1>6. JobCounted'
  BY <1>1 DEF Worker, TakeJob, NoJob, Generate, Fail, DropStale, StopWithResult, WaitForSpace, Stage,
     Leaving, JobCounted
<1>7. CASE ~Stage
  <2>1. completed' = completed /\ epoch' = epoch
    BY <1>4, <1>7 DEF Worker, TakeJob, NoJob, Generate, Fail, DropStale, StopWithResult,
       WaitForSpace, WorkerUnchanged
  <2>2. free' + Holding' <= free + Holding \/ free' + Holding' = 1
    BY <1>2, <1>7 DEF Worker, TakeJob, NoJob, Generate, Fail, DropStale, StopWithResult,
       WaitForSpace, Leaving, Holding
  <2>3. free' \in Nat /\ Holding' \in 0..1
    BY WorkerTypeStep DEF TypeOK, Holding
  <2>4. Len(completed) <= MaxReady /\ Len(ready) <= MaxReady /\ ready' = ready
    BY <1>1, <1>4 DEF ReadyBoundedAndCurrent, BatchBounded, WorkerUnchanged
  <2>5. free' + Len(completed') + Len(ready') + Holding' <= 2 * MaxReady + 1
    <3>1. free' + Len(completed) + Len(ready) + Holding' <= 2 * MaxReady + 1
      BY <1>2, <1>3, <2>2, <2>3, <2>4, BufferSum
    <3> QED
      BY <3>1, <2>1, <2>4
  <2> QED
    BY <1>1, <1>5, <1>6, <2>1, <2>5 DEF ReadyBoundedAndCurrent, BuffersBounded
<1>8. CASE Stage
  <2>1. /\ completed' = Append(completed, job) /\ free' = free /\ ready' = ready /\ epoch' = epoch
        /\ job.epoch = epoch /\ Len(completed) < MaxReady
    BY <1>8 DEF Stage, Stale, WorkerUnchanged
  <2>2. /\ Len(completed') = Len(completed) + 1
        /\ DOMAIN completed' = 1..(Len(completed) + 1) /\ DOMAIN completed = 1..Len(completed)
        /\ \A i \in 1..Len(completed) : completed'[i] = completed[i]
        /\ completed'[Len(completed) + 1] = job
    BY <1>2, <2>1, AppendOf
  <2>3. Holding = 1 /\ Holding' = 0
    BY <1>8 DEF Stage, Leaving, Holding
  <2>4. BuffersBounded'
    BY <1>2, <1>3, <2>1, <2>2, <2>3 DEF BuffersBounded
  <2>5. \A i \in DOMAIN completed : completed[i].epoch = epoch
    BY <1>1 DEF ReadyBoundedAndCurrent, ToSet
  <2>6. ASSUME NEW i \in DOMAIN completed' PROVE completed'[i].epoch = epoch
    <3>1. CASE i = Len(completed) + 1
      BY <2>1, <2>2, <3>1
    <3>2. CASE i # Len(completed) + 1
      <4>1. i \in 1..Len(completed)
        BY <1>2, <2>2, <3>2
      <4> QED
        BY <2>2, <2>5, <4>1
    <3> QED
      BY <3>1, <3>2
  <2>7. Len(completed') <= MaxReady
    BY <1>2, <2>1, <2>2
  <2> QED
    BY <1>5, <1>6, <2>1, <2>4, <2>6, <2>7 DEF ReadyBoundedAndCurrent, ToSet
<1> QED
  BY <1>7, <1>8

LEMMA StageInit == Init => StageInv
<1> SUFFICES ASSUME Init PROVE StageInv
  OBVIOUS
<1>1. TypeOK
  BY TypeInit
<1>2. completed = <<>> /\ ready = <<>> /\ free = 0 /\ inFlight = 0 /\ worker = "jobTest"
      /\ main = "idle"
  BY DEF Init
<1>3. Len(completed) = 0 /\ Len(ready) = 0 /\ DOMAIN completed = {}
  BY <1>2
<1>4. ReadyBoundedAndCurrent /\ BuffersBounded /\ BatchBounded
  BY <1>2, <1>3, StreamingAssumption DEF ReadyBoundedAndCurrent, ToSet, BuffersBounded, Holding,
     BatchBounded, StreamingAssumption
<1> QED
  BY <1>1, <1>2, <1>4 DEF StageInv, StagingInv, JobCounted, ReplanRoom

LEMMA StageStep == StageInv /\ [Next]_vars => StageInv'
<1> SUFFICES ASSUME StageInv, [Next]_vars PROVE StageInv'
  OBVIOUS
<1>1. CASE Update \/ Flush \/ Continue \/ Destroy \/ \E c \in Chunks : SetBlock(c)
  BY <1>1, MainTypeStep, MainCountStep DEF StageInv, StagingInv
<1>2. CASE Worker
  BY <1>2, WorkerTypeStep, WorkerCountStep DEF StageInv, StagingInv
<1>3. CASE UNCHANGED vars
  BY <1>3 DEF vars, shared, StageInv, StagingInv, TypeOK, ReadyBoundedAndCurrent, BuffersBounded,
     Holding, BatchBounded, JobCounted, ReplanRoom
<1> QED
  BY <1>1, <1>2, <1>3 DEF Next

\* What waits for the main thread is bounded and of the current plan, and the
\* buffers that circulate are at most two full stages and the worker's, however
\* many chunks are generated and however often the center moves.
THEOREM StagingSafe == Spec => []StagingInv
<1>1. Spec => []StageInv
  BY StageInit, StageStep, PTL DEF Spec
<1>2. StageInv => StagingInv
  BY DEF StageInv
<1> QED
  BY <1>1, <1>2, PTL
-----------------------------------------------------------------------------
(* Counting.  A chunk is on its way once: what a step takes out of one      *)
(* sequence it puts into another.                                           *)

At(s, c) == {i \in DOMAIN s : s[i].coord = c}

LEMMA CountType ==
  ASSUME NEW s \in Seq(Job), NEW c
  PROVE  IsFiniteSet(At(s, c)) /\ Cardinality(At(s, c)) \in Nat
<1>1. DOMAIN s = 1..Len(s) /\ Len(s) \in Nat
  OBVIOUS
<1>2. IsFiniteSet(1..Len(s)) /\ At(s, c) \in SUBSET (1..Len(s))
  BY <1>1, FS_Interval DEF At
<1> QED
  BY <1>2, FS_Subset, FS_CardinalityType

LEMMA CountEmpty ==
  ASSUME NEW c
  PROVE  Cardinality(At(<<>>, c)) = 0
<1>1. At(<<>>, c) = {}
  BY DEF At
<1> QED
  BY <1>1, FS_EmptySet

LEMMA CountOne ==
  ASSUME NEW s \in Seq(Job), Len(s) = 1, NEW c
  PROVE  Cardinality(At(s, c)) = IF s[1].coord = c THEN 1 ELSE 0
<1>1. DOMAIN s = {1}
  OBVIOUS
<1>2. At(s, c) = IF s[1].coord = c THEN {1} ELSE {}
  BY <1>1 DEF At
<1> QED
  BY <1>2, FS_EmptySet, FS_Singleton

\* Positions moved by n are as many as before.
LEMMA ShiftedCount ==
  ASSUME NEW A, IsFiniteSet(A), A \subseteq Nat, NEW n \in Nat
  PROVE  LET B == {i + n : i \in A}
         IN  IsFiniteSet(B) /\ Cardinality(B) = Cardinality(A)
<1> DEFINE B == {i + n : i \in A}
           f == [i \in A |-> i + n]
<1>1. f \in [A -> B]
  OBVIOUS
<1>2. ASSUME NEW i \in A, NEW j \in A, f[i] = f[j] PROVE i = j
  <2>1. f[i] = i + n /\ f[j] = j + n /\ i \in Nat /\ j \in Nat
    OBVIOUS
  <2> QED
    BY <1>2, <2>1
<1>3. \A b \in B : \E i \in A : f[i] = b
  OBVIOUS
<1>4. f \in Bijection(A, B)
  BY <1>1, <1>2, <1>3 DEF Bijection, Injection, Surjection, IsInjective
<1>5. ExistsBijection(A, B)
  BY <1>4 DEF ExistsBijection
<1> QED
  BY <1>5, FS_Bijection

\* s is t followed by u, position by position.
Joins(s, t, u) == /\ Len(s) = Len(t) + Len(u)
                  /\ \A i \in 1..Len(t) : s[i] = t[i]
                  /\ \A i \in 1..Len(u) : s[Len(t) + i] = u[i]

LEMMA CountJoin ==
  ASSUME NEW s \in Seq(Job), NEW t \in Seq(Job), NEW u \in Seq(Job), Joins(s, t, u), NEW c
  PROVE  Cardinality(At(s, c)) = Cardinality(At(t, c)) + Cardinality(At(u, c))
<1>0. /\ Len(s) = Len(t) + Len(u)
      /\ \A i \in 1..Len(t) : s[i] = t[i]
      /\ \A i \in 1..Len(u) : s[Len(t) + i] = u[i]
  BY DEF Joins
<1>1. /\ DOMAIN s = 1..Len(s) /\ DOMAIN t = 1..Len(t) /\ DOMAIN u = 1..Len(u)
      /\ Len(s) \in Nat /\ Len(t) \in Nat /\ Len(u) \in Nat
  OBVIOUS
<1> DEFINE n == Len(t)
           B == {i + n : i \in At(u, c)}
<1>2. At(t, c) \subseteq 1..n /\ At(u, c) \subseteq 1..Len(u) /\ At(u, c) \subseteq Nat
  BY <1>1 DEF At
<1>3. IsFiniteSet(B) /\ Cardinality(B) = Cardinality(At(u, c))
  BY <1>1, <1>2, CountType, ShiftedCount
<1>4. At(s, c) = At(t, c) \cup B
  <2>1. ASSUME NEW i \in At(s, c) PROVE i \in At(t, c) \cup B
    <3>1. i \in 1..Len(s) /\ s[i].coord = c
      BY <1>1 DEF At
    <3>2. CASE i <= n
      <4>1. i \in DOMAIN t /\ s[i] = t[i]
        BY <1>0, <1>1, <3>1, <3>2
      <4> QED
        BY <3>1, <4>1 DEF At
    <3>3. CASE ~(i <= n)
      <4>1. i - n \in 1..Len(u) /\ n + (i - n) = i /\ (i - n) + n = i
        BY <1>0, <1>1, <3>1, <3>3
      <4>2. u[i - n] = s[i]
        BY <1>0, <4>1
      <4>3. i - n \in At(u, c)
        BY <1>1, <3>1, <4>1, <4>2 DEF At
      <4> QED
        BY <4>1, <4>3
    <3> QED
      BY <3>2, <3>3
  <2>2. ASSUME NEW i \in At(t, c) PROVE i \in At(s, c)
    <3>1. i \in 1..n /\ t[i].coord = c /\ s[i] = t[i] /\ i \in 1..Len(s)
      BY <1>0, <1>1 DEF At
    <3> QED
      BY <1>1, <3>1 DEF At
  <2>3. ASSUME NEW i \in At(u, c) PROVE i + n \in At(s, c)
    <3>1. i \in 1..Len(u) /\ u[i].coord = c
      BY <1>1 DEF At
    <3>2. i + n = n + i /\ i + n \in 1..Len(s) /\ s[n + i] = u[i]
      BY <1>0, <1>1, <3>1
    <3> QED
      BY <1>1, <3>1, <3>2 DEF At
  <2> QED
    BY <2>1, <2>2, <2>3
<1>5. At(t, c) \cap B = {}
  BY <1>1, <1>2
<1>6. /\ IsFiniteSet(At(t, c)) /\ Cardinality(At(t, c)) \in Nat
      /\ Cardinality(At(u, c)) \in Nat
  BY CountType
<1>7. Cardinality(At(t, c) \cup B) = Cardinality(At(t, c)) + Cardinality(B) - Cardinality(At(t, c) \cap B)
  BY <1>3, <1>6, FS_Union
<1>8. Cardinality(At(t, c) \cap B) = 0
  BY <1>5, FS_EmptySet
<1>9. Cardinality(At(s, c)) = Cardinality(At(t, c) \cup B)
  BY <1>4, Zenon
<1> HIDE DEF B
<1> QED
  BY <1>3, <1>6, <1>7, <1>8, <1>9

LEMMA CountTail ==
  ASSUME NEW s \in Seq(Job), s # <<>>, NEW c
  PROVE  Cardinality(At(s, c)) = (IF Head(s).coord = c THEN 1 ELSE 0) + Cardinality(At(Tail(s), c))
<1> DEFINE t == <<Head(s)>>
           u == Tail(s)
<1>1. /\ u \in Seq(Job) /\ Head(s) \in Job /\ Head(s) = s[1]
      /\ Len(s) \in Nat \ {0} /\ Len(u) = Len(s) - 1
      /\ \A i \in 1..(Len(s) - 1) : u[i] = s[i + 1]
  BY TailOf
<1>2. t \in Seq(Job) /\ Len(t) = 1 /\ t[1] = Head(s)
  BY <1>1
<1>3. Cardinality(At(t, c)) = IF Head(s).coord = c THEN 1 ELSE 0
  BY <1>2, CountOne
<1> HIDE DEF t, u
<1>4. Joins(s, t, u)
  <2>1. \A i \in 1..Len(t) : s[i] = t[i]
    BY <1>1, <1>2
  <2>2. \A i \in 1..Len(u) : s[Len(t) + i] = u[i]
    BY <1>1, <1>2
  <2>3. Len(s) = Len(t) + Len(u)
    BY <1>1, <1>2
  <2> QED
    BY <2>1, <2>2, <2>3 DEF Joins
<1>5. Cardinality(At(s, c)) = Cardinality(At(t, c)) + Cardinality(At(u, c))
  BY <1>1, <1>2, <1>4, CountJoin
<1> QED
  BY <1>3, <1>5 DEF u

LEMMA CountAppend ==
  ASSUME NEW s \in Seq(Job), NEW x \in Job, NEW c
  PROVE  Cardinality(At(Append(s, x), c)) = Cardinality(At(s, c)) + (IF x.coord = c THEN 1 ELSE 0)
<1> DEFINE u == <<x>>
           a == Append(s, x)
<1>1. /\ a \in Seq(Job) /\ Len(a) = Len(s) + 1 /\ Len(s) \in Nat
      /\ \A i \in 1..Len(s) : a[i] = s[i]
      /\ a[Len(s) + 1] = x
  BY AppendOf
<1>2. u \in Seq(Job) /\ Len(u) = 1 /\ u[1] = x
  OBVIOUS
<1>3. Cardinality(At(u, c)) = IF x.coord = c THEN 1 ELSE 0
  BY <1>2, CountOne
<1> HIDE DEF u, a
<1>4. Joins(a, s, u)
  BY <1>1, <1>2 DEF Joins
<1>6. a \in Seq(Job) /\ u \in Seq(Job)
  BY <1>1, <1>2
<1>5. Cardinality(At(a, c)) = Cardinality(At(s, c)) + Cardinality(At(u, c))
  BY <1>4, <1>6, CountJoin
<1> QED
  BY <1>3, <1>5 DEF a

LEMMA CountSplit ==
  ASSUME NEW s \in Seq(Job), NEW k \in 0..Len(s), NEW c
  PROVE  Cardinality(At(s, c)) = Cardinality(At(SubSeq(s, 1, k), c))
                                 + Cardinality(At(SubSeq(s, k + 1, Len(s)), c))
<1> DEFINE t == SubSeq(s, 1, k)
           u == SubSeq(s, k + 1, Len(s))
<1>1. /\ t \in Seq(Job) /\ Len(t) = k /\ u \in Seq(Job) /\ Len(u) = Len(s) - k /\ Len(s) \in Nat
      /\ \A i \in 1..k : t[i] = s[i]
      /\ \A i \in 1..(Len(s) - k) : u[i] = s[k + i]
  BY SplitAt
<1> HIDE DEF t, u
<1>2. Joins(s, t, u)
  <2>1. Len(t) = k /\ Len(u) = Len(s) - k /\ Len(s) \in Nat
    BY <1>1
  <2>2. \A i \in 1..Len(t) : s[i] = t[i]
    BY <1>1
  <2>3. \A i \in 1..Len(u) : s[Len(t) + i] = u[i]
    BY <1>1
  <2> QED
    BY <2>1, <2>2, <2>3 DEF Joins
<1>3. t \in Seq(Job) /\ u \in Seq(Job)
  BY <1>1
<1>4. Cardinality(At(s, c)) = Cardinality(At(t, c)) + Cardinality(At(u, c))
  BY <1>2, <1>3, CountJoin
<1> QED
  BY <1>4 DEF t, u

\* What Enqueue makes of the sorted list.
Queued(order, e) == [i \in DOMAIN order |-> [coord |-> order[i], epoch |-> e]]

\* The sort of a set names each of its members once, and nothing else.
LEMMA CountOrder ==
  ASSUME NEW S \in SUBSET Chunks, NEW order \in [1..Cardinality(S) -> S], NEW d \in Chunks,
         NearFirst(order, d), NEW e, NEW c \in Chunks
  PROVE  Cardinality(At(Queued(order, e), c)) = IF c \in S THEN 1 ELSE 0
<1> DEFINE n == Cardinality(S)
           s == Queued(order, e)
<1>1. IsFiniteSet(S) /\ n \in Nat
  BY StreamingAssumption, FS_Subset, FS_CardinalityType DEF StreamingAssumption
<1>2. IsFiniteSet(1..n) /\ Cardinality(1..n) = n
  BY <1>1, FS_Interval
<1>3. ASSUME NEW i \in 1..n, NEW j \in 1..n, i < j PROVE order[i] # order[j]
  <2>1. Before(order[i], order[j], d)
    BY <1>3 DEF NearFirst
  <2>2. order[i] \in Int /\ d \in Int
    BY StreamingAssumption DEF StreamingAssumption
  <2>3. ~(order[i] < order[i]) /\ Distance(order[i], d) \in Int
    BY <2>2 DEF Distance
  <2>4. ~Before(order[i], order[i], d)
    BY <2>3 DEF Before
  <2> QED
    BY <2>1, <2>4
<1>4. \A i, j \in 1..n : order[i] = order[j] => i = j
  <2> SUFFICES ASSUME NEW i \in 1..n, NEW j \in 1..n, i # j PROVE order[i] # order[j]
    OBVIOUS
  <2>1. i < j \/ j < i
    OBVIOUS
  <2> QED
    BY <1>3, <2>1
<1>5. order \in Injection(1..n, S)
  BY <1>4 DEF Injection, IsInjective
<1>6. order \in Surjection(1..n, S)
  BY <1>1, <1>2, <1>5, FS_Injection
<1>7. At(s, c) = {i \in 1..n : order[i] = c}
  BY DEF At, Queued
<1>8. CASE c \in S
  <2>1. PICK i \in 1..n : order[i] = c
    BY <1>6, <1>8 DEF Surjection
  <2>2. At(s, c) = {i}
    BY <1>4, <1>7, <2>1
  <2> QED
    BY <1>8, <2>2, FS_Singleton
<1>9. CASE c \notin S
  <2>1. At(s, c) = {}
    BY <1>7, <1>9
  <2> QED
    BY <1>9, <2>1, FS_EmptySet
<1> QED
  BY <1>8, <1>9
-----------------------------------------------------------------------------
(* The plan.                                                               *)

\* Whatever is queued or in a batch is of the current plan; only the worker may
\* hold a job of an older one.
EpochsCurrent == /\ \A i \in DOMAIN queue : queue[i].epoch = epoch
                 /\ \A i \in DOMAIN ready : ready[i].epoch = epoch
                 /\ job.epoch <= epoch

\* No batch is left over when the next plan is made.
BatchInCommit == ready # <<>> => main \in {"commit", "flushCommit"}

\* Between the eviction and the enqueue nothing of the plan is on its way.  The
\* old job of the worker is the reason for the epochs: it comes back later.
PlanEmpty == main = "enqueue" => /\ queue = <<>>
                                 /\ completed = <<>>
                                 /\ missing = View(center) \ Present
                                 /\ Holding = 1 => job.epoch # epoch

PlanInv == StageInv /\ EpochsCurrent /\ BatchInCommit /\ PlanEmpty /\ PlanCovered

InPlan == hasPlan /\ main \notin {"replan", "enqueue"} /\ ~failed /\ ~stopping
Covered(c) == /\ Pending(c) <= 1
              /\ c \in View(center) \ Present => Pending(c) = 1
              /\ c \notin View(center) => Pending(c) = 0

LEMMA CoveredIs == PlanCovered <=> (InPlan => \A c \in Chunks : Covered(c))
BY DEF PlanCovered, InPlan, Covered

Held(c) == IF WorkerHolds(c) THEN 1 ELSE 0

LEMMA PendingIs ==
  ASSUME NEW c
  PROVE  /\ Pending(c) = Cardinality(At(queue, c)) + Cardinality(At(completed, c))
                         + Cardinality(At(ready, c)) + Held(c)
         /\ Pending(c)' = Cardinality(At(queue', c)) + Cardinality(At(completed', c))
                         + Cardinality(At(ready', c)) + Held(c)'
BY DEF Pending, At, Held

\* One of four parts of a sum loses one or none.
LEMMA OneLess ==
  ASSUME NEW p, NEW next, NEW a \in Nat, NEW b \in Nat, NEW rest \in Nat, NEW h \in Nat,
         NEW is \in BOOLEAN, NEW whole, whole = (IF is THEN 1 ELSE 0) + rest,
         p = a + b + whole + h, next = a + b + rest + h
  PROVE  p = next + (IF is THEN 1 ELSE 0) /\ next \in Nat
OBVIOUS

LEMMA PlanTypes ==
  ASSUME StageInv
  PROVE  /\ queue \in Seq(Job) /\ completed \in Seq(Job) /\ ready \in Seq(Job) /\ job \in Job
         /\ \A c : /\ Cardinality(At(queue, c)) \in Nat
                   /\ Cardinality(At(completed, c)) \in Nat
                   /\ Cardinality(At(ready, c)) \in Nat
                   /\ Held(c) \in 0..1
BY CountType DEF StageInv, StagingInv, TypeOK, Held

\* A notification moves main only from one wait of flush() to its test.
LEMMA WokenMain ==
  ASSUME main' \in {main, WakeFlush(main)}
  PROVE  /\ main' \in {"replan", "enqueue"} <=> main \in {"replan", "enqueue"}
         /\ main' = "enqueue" => main = "enqueue"
         /\ main \in {"commit", "flushCommit"} => main' = main
BY DEF WakeFlush

\* A step that keeps the plan open, the world and what is on its way.
LEMMA CoverKept ==
  ASSUME PlanCovered, InPlan' => InPlan, center' = center, loaded' = loaded,
         \A c \in Chunks : Pending(c)' = Pending(c)
  PROVE  PlanCovered'
BY DEF PlanCovered, InPlan, View, Present

LEMMA MainSideStep ==
  ASSUME PlanInv,
         Update \/ Flush \/ Continue \/ Destroy \/ \E c \in Chunks : SetBlock(c)
  PROVE  EpochsCurrent' /\ BatchInCommit' /\ PlanEmpty'
<1>1. /\ TypeOK /\ ReadyBoundedAndCurrent /\ StageInv
      /\ EpochsCurrent /\ BatchInCommit /\ PlanEmpty
  BY DEF PlanInv, StageInv, StagingInv
<1>2. /\ queue \in Seq(Job) /\ completed \in Seq(Job) /\ ready \in Seq(Job) /\ job \in Job
      /\ epoch \in Nat /\ job.epoch \in Nat
  BY <1>1, PlanTypes, StageTypes DEF Job
<1>3. ASSUME UNCHANGED <<epoch, queue, ready, job>>,
             main' # "enqueue", main \notin {"commit", "flushCommit"} \/ ready = <<>> \/ main' = main
      PROVE  EpochsCurrent' /\ BatchInCommit' /\ PlanEmpty'
  BY <1>1, <1>3 DEF EpochsCurrent, BatchInCommit, PlanEmpty
<1>4. CASE \E c \in Chunks : UpdateMoved(c)
  BY <1>3, <1>4 DEF UpdateMoved, shared
<1>5. CASE Replan
  <2>1. ready = <<>> /\ ready' = <<>> /\ queue' = <<>> /\ completed' = <<>>
    BY <1>1, <1>5 DEF Replan, BatchInCommit
  <2>2. job'.epoch = job.epoch /\ job.epoch <= epoch /\ epoch' = epoch + 1
    BY <1>1, <1>5 DEF Replan, EpochsCurrent
  <2>3. job'.epoch <= epoch' /\ job'.epoch # epoch'
    BY <1>2, <2>2
  <2>4. EpochsCurrent'
    BY <2>1, <2>3 DEF EpochsCurrent
  <2>5. missing' = View(center') \ Present'
    BY <1>5 DEF Replan, Present, View
  <2>6. PlanEmpty'
    BY <2>1, <2>3, <2>5 DEF PlanEmpty
  <2> QED
    BY <2>1, <2>4, <2>6 DEF BatchInCommit
<1>6. CASE Enqueue
  <2>1. PICK order \in [1..Cardinality(missing) -> missing] :
          queue' = [i \in DOMAIN order |-> [coord |-> order[i], epoch |-> epoch]]
    BY <1>6 DEF Enqueue
  <2>2. \A i \in DOMAIN queue' : queue'[i].epoch = epoch
    BY <2>1
  <2>3. UNCHANGED <<epoch, ready, job>> /\ main = "enqueue" /\ main' = "take"
    BY <1>6 DEF Enqueue
  <2> QED
    BY <1>1, <2>2, <2>3 DEF EpochsCurrent, BatchInCommit, PlanEmpty
<1>7. ASSUME NEW n \in Nat, NEW next \in {"commit", "flushCommit"}, Take(n, next)
      PROVE  EpochsCurrent' /\ BatchInCommit' /\ PlanEmpty'
  <2>1. PICK k \in 0..Len(completed) : ready' = SubSeq(completed, 1, k)
    <3> DEFINE k == IF Len(completed) < n THEN Len(completed) ELSE n
    <3>1. k \in 0..Len(completed)
      BY <1>2
    <3> QED
      BY <1>7, <3>1 DEF Take
  <2>2. /\ ready' \in Seq(Job) /\ Len(ready') = k /\ Len(completed) \in Nat
        /\ DOMAIN completed = 1..Len(completed)
        /\ \A i \in 1..k : ready'[i] = completed[i]
    BY <1>2, <2>1, SplitAt
  <2>3. \A i \in DOMAIN completed : completed[i].epoch = epoch
    BY <1>1 DEF ReadyBoundedAndCurrent, ToSet
  <2>4. DOMAIN ready' = 1..k
    BY <2>2
  <2>5. \A i \in DOMAIN ready' : ready'[i].epoch = epoch
    BY <2>2, <2>3, <2>4
  <2>6. UNCHANGED <<epoch, queue, job>> /\ main' = next
    BY <1>7 DEF Take
  <2> QED
    BY <1>1, <2>5, <2>6 DEF EpochsCurrent, BatchInCommit, PlanEmpty
<1>8. CASE TakeSome \/ TakeAll
  BY <1>1, <1>7, <1>8, StageTypes DEF TakeSome, TakeAll
<1>9. CASE Commit
  <2>1. /\ Tail(ready) \in Seq(Job) /\ DOMAIN ready = 1..Len(ready) /\ Len(ready) \in Nat
        /\ DOMAIN Tail(ready) = 1..(Len(ready) - 1)
        /\ \A i \in 1..(Len(ready) - 1) : Tail(ready)[i] = ready[i + 1]
    BY <1>2, <1>9, TailOf DEF Commit
  <2>2. /\ ready' = Tail(ready) /\ UNCHANGED <<epoch, queue, job, main>>
        /\ main \in {"commit", "flushCommit"}
    BY <1>9 DEF Commit
  <2>3. \A i \in DOMAIN ready : ready[i].epoch = epoch
    BY <1>1 DEF EpochsCurrent
  <2>4. \A i \in DOMAIN ready' : ready'[i].epoch = epoch
    BY <2>1, <2>2, <2>3
  <2> QED
    BY <1>1, <2>2, <2>4 DEF EpochsCurrent, BatchInCommit, PlanEmpty
<1>10. CASE \/ UpdateSameCenter \/ UpdateThrows \/ Flush \/ FlushRound \/ UpdateEnds
            \/ FlushTest \/ FlushRetest \/ FlushReturns \/ Join
  BY <1>3, <1>10 DEF UpdateSameCenter, UpdateThrows, Flush, FlushRound, UpdateEnds, FlushTest,
     FlushRetest, FlushReturns, Join, shared
<1>11. CASE Destroy
  BY <1>1, <1>11 DEF Destroy, EpochsCurrent, BatchInCommit, PlanEmpty
<1>12. CASE \E c \in Chunks : SetBlock(c)
  BY <1>3, <1>12 DEF SetBlock, shared
<1> QED
  BY <1>4, <1>5, <1>6, <1>8, <1>9, <1>10, <1>11, <1>12 DEF Update, Continue

LEMMA WorkerSideStep ==
  ASSUME PlanInv, Worker
  PROVE  EpochsCurrent' /\ BatchInCommit' /\ PlanEmpty'
<1>1. /\ TypeOK /\ StageInv /\ EpochsCurrent /\ BatchInCommit /\ PlanEmpty
  BY DEF PlanInv, StageInv, StagingInv
<1>2. /\ queue \in Seq(Job) /\ epoch \in Nat
  BY <1>1, StageTypes
<1>3. WorkerUnchanged /\ main' \in {main, WakeFlush(main)}
  BY DEF Worker, TakeJob, NoJob, Generate, Fail, DropStale, StopWithResult, WaitForSpace, Stage
<1>4. BatchInCommit'
  BY <1>1, <1>3, WokenMain DEF BatchInCommit, WorkerUnchanged
<1>5. main' = "enqueue" => main = "enqueue" /\ missing' = View(center') \ Present'
  BY <1>1, <1>3, WokenMain DEF PlanEmpty, WorkerUnchanged, View, Present
<1>6. CASE TakeJob
  <2>1. /\ queue # <<>> /\ job' = Head(queue) /\ queue' = Tail(queue)
        /\ UNCHANGED <<epoch, ready, main>>
    BY <1>3, <1>6 DEF TakeJob, WorkerUnchanged
  <2>2. /\ DOMAIN queue = 1..Len(queue) /\ Len(queue) \in Nat \ {0} /\ Head(queue) = queue[1]
        /\ DOMAIN Tail(queue) = 1..(Len(queue) - 1)
        /\ \A i \in 1..(Len(queue) - 1) : Tail(queue)[i] = queue[i + 1]
    BY <1>2, <2>1, TailOf
  <2>3. \A i \in DOMAIN queue : queue[i].epoch = epoch
    BY <1>1 DEF EpochsCurrent
  <2>4. \A i \in DOMAIN queue' : queue'[i].epoch = epoch
    BY <2>1, <2>2, <2>3
  <2>5. job'.epoch = epoch
    BY <2>1, <2>2, <2>3
  <2>6. job'.epoch <= epoch
    BY <1>2, <2>5
  <2>7. main' # "enqueue"
    BY <1>1, <2>1 DEF PlanEmpty
  <2> QED
    BY <1>1, <1>4, <2>1, <2>4, <2>6, <2>7 DEF EpochsCurrent, PlanEmpty
<1>7. CASE ~TakeJob
  <2>1. job' = job /\ (queue' = queue \/ queue' = <<>>) /\ UNCHANGED <<epoch, ready>>
    BY <1>3, <1>7 DEF Worker, NoJob, Generate, Fail, DropStale, StopWithResult, WaitForSpace, Stage,
       WorkerUnchanged
  <2>2. EpochsCurrent'
    BY <1>1, <2>1 DEF EpochsCurrent
  <2>3. Holding' = 1 => Holding = 1
    BY <1>7 DEF Worker, NoJob, Generate, Fail, DropStale, StopWithResult, WaitForSpace, Stage,
       Leaving, Holding
  <2>4. main = "enqueue" => completed' = completed
    BY <1>1, <1>7 DEF Worker, NoJob, Generate, Fail, DropStale, StopWithResult, WaitForSpace, Stage,
       Leaving, Stale, Holding, PlanEmpty
  <2>5. PlanEmpty'
    BY <1>1, <1>5, <2>1, <2>3, <2>4 DEF PlanEmpty
  <2> QED
    BY <1>4, <2>2, <2>5
<1> QED
  BY <1>6, <1>7

\* What the main thread does to the plan.  Enqueue makes it whole; the commit
\* takes a chunk off its way only by loading it.
LEMMA MainCoverStep ==
  ASSUME PlanInv,
         Update \/ Flush \/ Continue \/ Destroy \/ \E c \in Chunks : SetBlock(c)
  PROVE  PlanCovered'
<1>1. /\ TypeOK /\ StageInv /\ EpochsCurrent /\ BatchInCommit /\ PlanEmpty /\ PlanCovered
  BY DEF PlanInv, StageInv, StagingInv
<1>2. /\ queue \in Seq(Job) /\ completed \in Seq(Job) /\ ready \in Seq(Job) /\ job \in Job
      /\ \A c : /\ Cardinality(At(queue, c)) \in Nat
                /\ Cardinality(At(completed, c)) \in Nat
                /\ Cardinality(At(ready, c)) \in Nat
                /\ Held(c) \in 0..1
  BY <1>1, PlanTypes
<1>3. ASSUME ~InPlan' PROVE PlanCovered'
  BY <1>3 DEF PlanCovered, InPlan
<1>4. CASE (\E c \in Chunks : UpdateMoved(c)) \/ Replan \/ Destroy
  BY <1>3, <1>4 DEF UpdateMoved, Replan, Destroy, InPlan
<1>5. CASE Enqueue
  <2>1. PICK order \in [1..Cardinality(missing) -> missing] :
          /\ NearFirst(order, center)
          /\ queue' = [i \in DOMAIN order |-> [coord |-> order[i], epoch |-> epoch]]
    BY <1>5 DEF Enqueue
  <2>2. missing = View(center) \ Present /\ missing \in SUBSET Chunks /\ center \in Chunks
    BY <1>1, <1>5 DEF Enqueue, PlanEmpty, View, TypeOK
  <2>3. /\ completed' = <<>> /\ ready' = <<>>
        /\ UNCHANGED <<center, loaded, epoch, job>> /\ worker' = WakeJob(worker)
    BY <1>1, <1>5 DEF Enqueue, PlanEmpty, BatchInCommit
  <2>4. Holding' = 1 => job'.epoch # epoch'
    BY <1>1, <1>5, <2>3, WakeKeeps DEF PlanEmpty, Enqueue
  <2>5. ASSUME NEW c \in Chunks PROVE Covered(c)'
    <3>1. Cardinality(At(queue', c)) = IF c \in missing THEN 1 ELSE 0
      <4>1. order \in [1..Cardinality(missing) -> missing] /\ NearFirst(order, center)
        BY <2>1
      <4>2. missing \in SUBSET Chunks /\ center \in Chunks
        BY <2>2
      <4>3. Cardinality(At(Queued(order, epoch), c)) = IF c \in missing THEN 1 ELSE 0
        BY <4>1, <4>2, CountOrder
      <4>4. queue' = Queued(order, epoch)
        BY <2>1 DEF Queued
      <4> QED
        BY <4>3, <4>4
    <3>2. Cardinality(At(completed', c)) = 0 /\ Cardinality(At(ready', c)) = 0
      BY <2>3, CountEmpty
    <3>3. Held(c)' = 0
      BY <2>4 DEF Held, WorkerHolds
    <3>4. Pending(c)' = IF c \in missing THEN 1 ELSE 0
      BY <3>1, <3>2, <3>3, PendingIs
    <3>5. missing = View(center') \ Present'
      BY <2>2, <2>3 DEF View, Present
    <3>6. View(center') = View(center)'
      BY DEF View
    <3> QED
      BY <3>4, <3>5, <3>6 DEF Covered
  <2> QED
    BY <2>5 DEF PlanCovered, Covered
<1>6. ASSUME NEW n \in Nat, NEW next \in {"commit", "flushCommit"}, Take(n, next),
             main \in {"take", "flushTake"}
      PROVE  PlanCovered'
  <2>1. PICK k \in 0..Len(completed) :
          /\ ready' = SubSeq(completed, 1, k)
          /\ completed' = SubSeq(completed, k + 1, Len(completed))
    <3> DEFINE k == IF Len(completed) < n THEN Len(completed) ELSE n
    <3>1. k \in 0..Len(completed)
      BY <1>2
    <3> QED
      BY <1>6, <3>1 DEF Take
  <2>2. /\ ready = <<>> /\ worker' = WakeSpace(worker)
        /\ UNCHANGED <<center, hasPlan, loaded, epoch, queue, failed, stopping, job>>
    BY <1>1, <1>6 DEF Take, BatchInCommit
  <2>3. InPlan' => InPlan
    BY <1>6, <2>2 DEF InPlan
  <2>4. Holding' = Holding
    BY <1>1, <2>2, WakeKeeps
  <2>5. ASSUME NEW c \in Chunks PROVE Pending(c)' = Pending(c)
    <3>1. Cardinality(At(completed, c)) = Cardinality(At(ready', c)) + Cardinality(At(completed', c))
      BY <1>2, <2>1, CountSplit
    <3>2. Cardinality(At(ready, c)) = 0
      BY <2>2, CountEmpty
    <3>3. Held(c)' = Held(c) /\ Cardinality(At(queue', c)) = Cardinality(At(queue, c))
      BY <2>2, <2>4 DEF Held, WorkerHolds
    <3>4. ready' \in Seq(Job) /\ completed' \in Seq(Job)
      BY <1>2, <2>1, SplitAt
    <3>5. Cardinality(At(ready', c)) \in Nat /\ Cardinality(At(completed', c)) \in Nat
      BY <3>4, CountType
    <3> QED
      BY <1>2, <3>1, <3>2, <3>3, <3>5, PendingIs
  <2> QED
    BY <1>1, <2>2, <2>3, <2>5, CoverKept
<1>7. CASE TakeSome \/ TakeAll
  BY <1>1, <1>6, <1>7, StageTypes DEF TakeSome, TakeAll
<1>8. CASE Commit
  <2> DEFINE r == Head(ready)
  <2>1. /\ ready # <<>> /\ ready' = Tail(ready) /\ loaded' = Materialize(r)
        /\ UNCHANGED <<center, hasPlan, epoch, queue, completed, failed, stopping, worker, job, main>>
    BY <1>8 DEF Commit
  <2>2. r \in Job /\ Tail(ready) \in Seq(Job) /\ r.epoch = epoch
    <3>1. r = ready[1] /\ 1 \in DOMAIN ready /\ r \in Job /\ Tail(ready) \in Seq(Job)
      BY <1>2, <2>1, TailOf
    <3> QED
      BY <1>1, <3>1 DEF EpochsCurrent
  <2>3. r.coord \in Chunks
    BY <2>2 DEF Job
  <2>4. /\ Present \subseteq Present' /\ Present' \subseteq Present \cup {r.coord}
        /\ r.coord \in View(center) => r.coord \in Present'
    BY <1>1, <2>1, <2>2, <2>3 DEF Materialize, Present, TypeOK
  <2> HIDE DEF r
  <2>5. ASSUME NEW c \in Chunks, Covered(c) PROVE Covered(c)'
    <3>1. Cardinality(At(ready, c)) = (IF r.coord = c THEN 1 ELSE 0) + Cardinality(At(ready', c))
      BY <1>2, <2>1, CountTail DEF r
    <3>2. Cardinality(At(ready', c)) \in Nat
      BY <2>1, <2>2, CountType
    <3>3. /\ Held(c)' = Held(c) /\ Cardinality(At(queue', c)) = Cardinality(At(queue, c))
          /\ Cardinality(At(completed', c)) = Cardinality(At(completed, c))
      BY <2>1 DEF Held, WorkerHolds, Holding
    <3>4. /\ Pending(c) = Pending(c)' + (IF r.coord = c THEN 1 ELSE 0)
          /\ Pending(c)' \in Nat
      <4>1. /\ Pending(c) = Cardinality(At(queue, c)) + Cardinality(At(completed, c))
                             + Cardinality(At(ready, c)) + Held(c)
            /\ Pending(c)' = Cardinality(At(queue, c)) + Cardinality(At(completed, c))
                              + Cardinality(At(ready', c)) + Held(c)
        BY <3>3, PendingIs
      <4>2. /\ Cardinality(At(queue, c)) \in Nat /\ Cardinality(At(completed, c)) \in Nat
            /\ Held(c) \in Nat
        BY <1>2
      <4> QED
        BY <3>1, <3>2, <4>1, <4>2, OneLess
    <3>5. View(center)' = View(center)
      BY <2>1 DEF View
    <3>6. CASE r.coord = c
      <4>1. Pending(c)' = 0 /\ c \in View(center)
        BY <2>5, <3>4, <3>6 DEF Covered
      <4> QED
        BY <2>4, <3>5, <3>6, <4>1 DEF Covered
    <3>7. CASE r.coord # c
      <4>1. Pending(c)' = Pending(c)
        BY <3>4, <3>7
      <4>2. c \in View(center)' \ Present' <=> c \in View(center) \ Present
        BY <2>4, <3>5, <3>7
      <4> QED
        BY <2>5, <3>5, <4>1, <4>2 DEF Covered
    <3> QED
      BY <3>6, <3>7
  <2>6. InPlan' => InPlan
    BY <2>1 DEF InPlan
  <2>7. (InPlan' => \A c \in Chunks : Covered(c)') => PlanCovered'
    BY DEF PlanCovered, InPlan, Covered
  <2> QED
    BY <1>1, <2>5, <2>6, <2>7, CoveredIs
<1>9. CASE \/ UpdateSameCenter \/ UpdateThrows \/ Flush \/ FlushRound \/ UpdateEnds
           \/ FlushTest \/ FlushRetest \/ FlushReturns \/ Join
  <2>1. UNCHANGED <<center, hasPlan, loaded, shared, worker, job, missing, ready>>
    BY <1>9 DEF UpdateSameCenter, UpdateThrows, Flush, FlushRound, UpdateEnds, FlushTest,
       FlushRetest, FlushReturns, Join
  <2>2. main \notin {"replan", "enqueue"}
    BY <1>9 DEF UpdateSameCenter, UpdateThrows, Flush, FlushRound, UpdateEnds, FlushTest,
       FlushRetest, FlushReturns, Join
  <2>3. \A c \in Chunks : Pending(c)' = Pending(c)
    BY <2>1 DEF Pending, WorkerHolds, Holding, shared
  <2> QED
    BY <1>1, <2>1, <2>2, <2>3, CoverKept DEF InPlan, shared
<1>10. CASE \E c \in Chunks : SetBlock(c)
  <2>1. PICK b \in Chunks : loaded' = [loaded EXCEPT ![b] = "edited"]
    BY <1>10 DEF SetBlock
  <2>2. UNCHANGED <<center, hasPlan, shared, worker, job, main, missing, ready>>
    BY <1>10 DEF SetBlock
  <2>3. Present \subseteq Present'
    BY <1>1, <2>1 DEF Present, TypeOK
  <2>4. ASSUME NEW c \in Chunks, Covered(c) PROVE Covered(c)'
    <3>1. Pending(c)' = Pending(c)
      BY <2>2 DEF Pending, WorkerHolds, Holding, shared
    <3>2. View(center)' = View(center)
      BY <2>2 DEF View
    <3> QED
      BY <2>3, <2>4, <3>1, <3>2 DEF Covered
  <2>5. InPlan' => InPlan
    BY <2>2 DEF InPlan, shared
  <2>6. (InPlan' => \A c \in Chunks : Covered(c)') => PlanCovered'
    BY DEF PlanCovered, InPlan, Covered
  <2> QED
    BY <1>1, <2>4, <2>5, <2>6, CoveredIs
<1> QED
  BY <1>4, <1>5, <1>7, <1>8, <1>9, <1>10 DEF Update, Continue

\* What the worker does to the plan: it carries one chunk from the queue to the
\* stage, and drops only what no current plan asks for.
LEMMA WorkerCoverStep ==
  ASSUME PlanInv, Worker
  PROVE  PlanCovered'
<1>1. /\ TypeOK /\ StageInv /\ EpochsCurrent /\ PlanCovered
  BY DEF PlanInv, StageInv, StagingInv
<1>2. /\ queue \in Seq(Job) /\ completed \in Seq(Job) /\ ready \in Seq(Job) /\ job \in Job
      /\ \A c : /\ Cardinality(At(queue, c)) \in Nat
                /\ Cardinality(At(completed, c)) \in Nat
                /\ Cardinality(At(ready, c)) \in Nat
                /\ Held(c) \in 0..1
  BY <1>1, PlanTypes
<1>3. ASSUME ~InPlan' PROVE PlanCovered'
  BY <1>3 DEF PlanCovered, InPlan
<1>4. /\ UNCHANGED <<center, hasPlan, loaded, epoch, stopping, missing, ready>>
      /\ main' \in {main, WakeFlush(main)} /\ (failed' = failed \/ failed')
  BY DEF Worker, TakeJob, NoJob, Generate, Fail, DropStale, StopWithResult, WaitForSpace, Stage,
     WorkerUnchanged
<1>5. InPlan' => InPlan
  BY <1>4, WokenMain DEF InPlan
<1>6. ASSUME \A c \in Chunks : Pending(c)' = Pending(c) PROVE PlanCovered'
  BY <1>1, <1>4, <1>5, <1>6, CoverKept
<1>7. CASE TakeJob
  <2> DEFINE r == Head(queue)
  <2>1. /\ queue # <<>> /\ queue' = Tail(queue) /\ job' = r /\ UNCHANGED <<epoch, completed, ready>>
    BY <1>4, <1>7 DEF TakeJob
  <2>2. r = queue[1] /\ 1 \in DOMAIN queue /\ r \in Job /\ Tail(queue) \in Seq(Job)
    BY <1>2, <2>1, TailOf
  <2>3. r = [coord |-> r.coord, epoch |-> epoch]
    BY <1>1, <2>2 DEF EpochsCurrent, Job
  <2>4. Holding = 0 /\ Holding' = 1
    BY <1>7 DEF TakeJob, Holding
  <2> HIDE DEF r
  <2>5. ASSUME NEW c \in Chunks PROVE Pending(c)' = Pending(c)
    <3>1. Cardinality(At(queue, c)) = (IF r.coord = c THEN 1 ELSE 0) + Cardinality(At(queue', c))
      BY <1>2, <2>1, CountTail DEF r
    <3>2. Cardinality(At(queue', c)) \in Nat
      BY <2>1, <2>2, CountType
    <3>3. Held(c) = 0
      BY <2>4 DEF Held, WorkerHolds
    <3>4. Held(c)' = IF r.coord = c THEN 1 ELSE 0
      <4>1. r = [coord |-> c, epoch |-> epoch] <=> r.coord = c
        BY <2>3
      <4> QED
        BY <2>1, <2>4, <4>1 DEF Held, WorkerHolds
    <3>5. /\ Cardinality(At(completed', c)) = Cardinality(At(completed, c))
          /\ Cardinality(At(ready', c)) = Cardinality(At(ready, c))
      BY <2>1
    <3> QED
      BY <1>2, <3>1, <3>2, <3>3, <3>4, <3>5, PendingIs
  <2> QED
    BY <1>6, <2>5
<1>8. CASE NoJob \/ Generate \/ WaitForSpace
  <2>1. /\ UNCHANGED <<queue, completed, ready, epoch, job>> /\ Holding' = Holding
    BY <1>4, <1>8 DEF NoJob, Generate, WaitForSpace, Leaving, Holding
  <2>2. \A c \in Chunks : Pending(c)' = Pending(c)
    BY <2>1 DEF Pending, WorkerHolds
  <2> QED
    BY <1>6, <2>2
<1>9. CASE Fail
  BY <1>3, <1>9 DEF Fail, InPlan
<1>10. CASE DropStale
  <2>1. /\ UNCHANGED <<queue, completed, ready, epoch, job>> /\ job.epoch # epoch
    BY <1>4, <1>10 DEF DropStale, Stale
  <2>2. \A c \in Chunks : ~WorkerHolds(c) /\ ~WorkerHolds(c)'
    BY <2>1 DEF WorkerHolds
  <2>3. \A c \in Chunks : Pending(c)' = Pending(c)
    BY <2>1, <2>2 DEF Pending
  <2> QED
    BY <1>6, <2>3
<1>11. CASE StopWithResult
  BY <1>3, <1>4, <1>11 DEF StopWithResult, InPlan
<1>12. CASE Stage
  <2>1. /\ completed' = Append(completed, job) /\ UNCHANGED <<queue, ready, epoch, job>>
        /\ job.epoch = epoch
    BY <1>4, <1>12 DEF Stage, Stale
  <2>2. Holding = 1 /\ Holding' = 0
    BY <1>12 DEF Stage, Leaving, Holding
  <2>3. job = [coord |-> job.coord, epoch |-> epoch]
    BY <1>2, <2>1 DEF Job
  <2>4. ASSUME NEW c \in Chunks PROVE Pending(c)' = Pending(c)
    <3>1. Cardinality(At(completed', c)) = Cardinality(At(completed, c)) + (IF job.coord = c THEN 1 ELSE 0)
      BY <1>2, <2>1, CountAppend
    <3>2. Held(c)' = 0
      BY <2>2 DEF Held, WorkerHolds
    <3>3. Held(c) = IF job.coord = c THEN 1 ELSE 0
      <4>1. job = [coord |-> c, epoch |-> epoch] <=> job.coord = c
        BY <2>3
      <4> QED
        BY <2>2, <4>1 DEF Held, WorkerHolds
    <3>4. /\ Cardinality(At(queue', c)) = Cardinality(At(queue, c))
          /\ Cardinality(At(ready', c)) = Cardinality(At(ready, c))
      BY <2>1
    <3> QED
      BY <1>2, <3>1, <3>2, <3>3, <3>4, PendingIs
  <2> QED
    BY <1>6, <2>4
<1> QED
  BY <1>7, <1>8, <1>9, <1>10, <1>11, <1>12 DEF Worker

LEMMA PlanInit == Init => PlanInv
<1> SUFFICES ASSUME Init PROVE PlanInv
  OBVIOUS
<1>1. /\ queue = <<>> /\ ready = <<>> /\ epoch = 0 /\ job.epoch = 0 /\ main = "idle"
      /\ hasPlan = FALSE
  BY DEF Init
<1>2. EpochsCurrent
  BY <1>1 DEF EpochsCurrent
<1>3. PlanCovered
  BY <1>1 DEF PlanCovered
<1> QED
  BY <1>1, <1>2, <1>3, StageInit DEF PlanInv, BatchInCommit, PlanEmpty

LEMMA PlanStep == PlanInv /\ [Next]_vars => PlanInv'
<1> SUFFICES ASSUME PlanInv, [Next]_vars PROVE PlanInv'
  OBVIOUS
<1>1. StageInv'
  BY StageStep DEF PlanInv
<1>2. CASE Update \/ Flush \/ Continue \/ Destroy \/ \E c \in Chunks : SetBlock(c)
  BY <1>1, <1>2, MainSideStep, MainCoverStep DEF PlanInv
<1>3. CASE Worker
  BY <1>1, <1>3, WorkerSideStep, WorkerCoverStep DEF PlanInv
<1>4. CASE UNCHANGED vars
  <2>1. /\ UNCHANGED <<center, hasPlan, loaded, shared, worker, job, main, missing, ready>>
    BY <1>4 DEF vars
  <2>2. EpochsCurrent' /\ BatchInCommit' /\ PlanEmpty'
    BY <2>1 DEF PlanInv, EpochsCurrent, BatchInCommit, PlanEmpty, View, Present, Holding, shared
  <2>3. \A c \in Chunks : Pending(c)' = Pending(c)
    BY <2>1 DEF Pending, WorkerHolds, Holding, shared
  <2>4. PlanCovered'
    BY <2>1, <2>3, CoverKept DEF PlanInv, InPlan, shared
  <2> QED
    BY <1>1, <2>2, <2>4 DEF PlanInv
<1> QED
  BY <1>2, <1>3, <1>4 DEF Next

\* A plan has neither holes nor double work: a chunk of the view is loaded or on
\* its way exactly once, and nothing outside the view is on its way, at every
\* point of both threads between the enqueue and the next move.
THEOREM PlanHolds == Spec => []PlanCovered
<1>1. Spec => []PlanInv
  BY PlanInit, PlanStep, PTL DEF Spec
<1>2. PlanInv => PlanCovered
  BY DEF PlanInv
<1> QED
  BY <1>1, <1>2, PTL

\* Materialize loads only what is absent, so no result of the worker replaces
\* a chunk gameplay wrote to; such a chunk goes only when its view is left.
THEOREM EditsSurvive == Spec => EditsSurviveCommit
<1> DEFINE A == \A c \in Chunks :
                  loaded[c] = "edited" => loaded'[c] = "edited" \/ c \notin View(center')
<1>1. TypeOK /\ [Next]_vars => [A]_vars
  <2> SUFFICES ASSUME TypeOK, Next, NEW c \in Chunks, loaded[c] = "edited"
               PROVE  loaded'[c] = "edited" \/ c \notin View(center')
    OBVIOUS
  <2>1. loaded \in [Chunks -> ChunkStates]
    BY DEF TypeOK
  <2>2. CASE \E x \in Chunks : UpdateMoved(x)
    BY <2>1, <2>2 DEF UpdateMoved
  <2>3. CASE Commit
    <3>1. loaded' = Materialize(Head(ready))
      BY <2>3 DEF Commit
    <3>2. loaded'[c] = loaded[c]
      BY <2>1, <3>1 DEF Materialize
    <3> QED
      BY <3>2
  <2>4. CASE \E x \in Chunks : SetBlock(x)
    BY <2>1, <2>4 DEF SetBlock
  <2>5. CASE Worker
    BY <2>5 DEF Worker, TakeJob, NoJob, Generate, Fail, DropStale, StopWithResult, WaitForSpace,
       Stage, WorkerUnchanged
  <2>6. CASE \/ UpdateSameCenter \/ UpdateThrows \/ Flush \/ Replan \/ Enqueue \/ TakeSome \/ TakeAll
             \/ UpdateEnds \/ FlushRound \/ FlushTest \/ FlushRetest \/ FlushReturns \/ Join
             \/ Destroy
    BY <2>6 DEF UpdateSameCenter, UpdateThrows, Flush, Replan, Enqueue, TakeSome, TakeAll, Take,
       UpdateEnds, FlushRound, FlushTest, FlushRetest, FlushReturns, Join, Destroy
  <2> QED
    BY <2>2, <2>3, <2>4, <2>5, <2>6 DEF Next, Update, Continue
<1>2. Spec => []TypeOK
  BY StagingSafe, PTL DEF StagingInv
<1> QED
  BY <1>1, <1>2, PTL DEF Spec, EditsSurviveCommit
=============================================================================
