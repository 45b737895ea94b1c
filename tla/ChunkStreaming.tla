--------------------------- MODULE ChunkStreaming ---------------------------
(***************************************************************************)
(* src/world/chunk/ChunkStreamingManager.cpp: the main thread plans,       *)
(* evicts and commits; one worker thread generates.                        *)
(*                                                                         *)
(* A step is one section under mWorkMutex with the notifications that      *)
(* follow it, and the code of its thread up to the next section.  The      *)
(* worker and flush() sleep in a wait until a notify moves them to a new   *)
(* test of their predicate.  The chunk grid is a line: the code uses only  *)
(* the distance of two chunks.                                             *)
(***************************************************************************)
EXTENDS Integers, FiniteSets, SequencesExt

CONSTANTS Chunks,         \* chunk positions
          Radius,         \* mViewRadius
          CommitBudget,   \* mCommitsPerUpdate
          MaxReady,       \* MAX_READY_CHUNKS
          GenerationFails,\* generateChunkIds may throw
          MaxEpoch        \* bound of the model on replans

ASSUME StreamingAssumption == /\ Chunks \subseteq Int
                              /\ IsFiniteSet(Chunks)
                              /\ Radius \in Nat
                              /\ CommitBudget \in Nat \ {0}
                              /\ MaxReady \in Nat \ {0}
                              /\ GenerationFails \in BOOLEAN
                              /\ MaxEpoch \in Nat

VARIABLES center,    \* mLastCenter
          hasPlan,   \* mHasPlan
          loaded,    \* mChunks: absent, as generated, or with gameplay edits
          epoch,     \* mPlanEpoch
          queue,     \* mQueue
          completed, \* mCompleted
          free,      \* number of mFreeBuffers
          inFlight,  \* mInFlight
          failed,    \* mWorkerError is set
          stopping,  \* mStopping
          worker,    \* where the worker is
          job,       \* its job
          main,      \* where the main thread is
          missing,   \* replan's local list, from the eviction to the enqueue
          ready      \* commitCompleted's local batch

shared == <<epoch, queue, completed, free, inFlight, failed, stopping>>
vars == <<center, hasPlan, loaded, shared, worker, job, main, missing, ready>>

Job == [coord : Chunks, epoch : 0..MaxEpoch]
ChunkStates == {"absent", "generated", "edited"}
WorkerStates == {"jobTest", "jobWait", "generate", "finish", "fail", "spaceTest",
                 "spaceWait", "exited"}
MainStates == {"idle", "replan", "enqueue", "take", "commit", "flush", "flushTake",
               "flushCommit", "flushTest", "flushWait", "flushed", "threw", "join",
               "destroyed"}

Distance(a, b) == IF a < b THEN b - a ELSE a - b
View(c) == {x \in Chunks : Distance(x, c) <= Radius}
Present == {c \in Chunks : loaded[c] # "absent"}

\* The order of replan's sort: near chunks first, then by coordinate.
Before(a, b, c) == \/ Distance(a, c) < Distance(b, c)
                   \/ Distance(a, c) = Distance(b, c) /\ a < b
NearFirst(s, c) == \A i, j \in DOMAIN s : i < j => Before(s[i], s[j], c)

Init == /\ center \in Chunks  \* not read before there is a plan
        /\ hasPlan = FALSE
        /\ loaded = [c \in Chunks |-> "absent"]
        /\ epoch = 0
        /\ queue = <<>>
        /\ completed = <<>>
        /\ free = 0
        /\ inFlight = 0
        /\ failed = FALSE
        /\ stopping = FALSE
        /\ worker = "jobTest"
        /\ job = [coord |-> center, epoch |-> 0]
        /\ main = "idle"
        /\ missing = {}
        /\ ready = <<>>
-----------------------------------------------------------------------------
(* Notifications.                                                          *)

WakeJob(w) == IF w = "jobWait" THEN "jobTest" ELSE w
WakeSpace(w) == IF w = "spaceWait" THEN "spaceTest" ELSE w
WakeFlush(m) == IF m = "flushWait" THEN "flushTest" ELSE m
-----------------------------------------------------------------------------
(* The main thread.                                                        *)

\* update() at a new center: whatever is outside the new view is evicted.
UpdateMoved(c) ==
  /\ main = "idle"
  /\ ~failed
  /\ ~hasPlan \/ c # center
  /\ epoch < MaxEpoch
  /\ center' = c
  /\ hasPlan' = TRUE
  /\ loaded' = [x \in Chunks |-> IF x \in View(c) THEN loaded[x] ELSE "absent"]
  /\ main' = "replan"
  /\ UNCHANGED <<shared, worker, job, missing, ready>>

\* Faulty variants: a replan keeps the epoch of the old plan; results of the
\* old plan stay staged.
Replan_SameEpoch ==
  /\ main = "replan"
  /\ queue' = <<>>
  /\ free' = free + Len(completed)
  /\ completed' = <<>>
  /\ worker' = WakeSpace(worker)
  /\ missing' = View(center) \ Present
  /\ main' = "enqueue"
  /\ UNCHANGED <<center, hasPlan, loaded, epoch, inFlight, failed, stopping, job, ready>>

Replan_KeepsCompleted ==
  /\ main = "replan"
  /\ epoch' = epoch + 1
  /\ queue' = <<>>
  /\ worker' = WakeSpace(worker)
  /\ missing' = View(center) \ Present
  /\ main' = "enqueue"
  /\ UNCHANGED <<center, hasPlan, loaded, completed, free, inFlight, failed, stopping,
                 job, ready>>

\* A new epoch: the old queue and results are dropped, the worker's wait for
\* space is woken, the missing chunks of the view are listed.
Replan ==
  /\ main = "replan"
  /\ epoch' = epoch + 1
  /\ queue' = <<>>
  /\ free' = free + Len(completed)
  /\ completed' = <<>>
  /\ worker' = WakeSpace(worker)
  /\ missing' = View(center) \ Present
  /\ main' = "enqueue"
  /\ UNCHANGED <<center, hasPlan, loaded, inFlight, failed, stopping, job, ready>>

\* Faulty variant: the worker is not told of the new jobs.
Enqueue_NoNotify ==
  /\ main = "enqueue"
  /\ \E order \in [1..Cardinality(missing) -> missing] :
       /\ NearFirst(order, center)
       /\ queue' = [i \in DOMAIN order |-> [coord |-> order[i], epoch |-> epoch]]
  /\ missing' = {}
  /\ main' = "take"
  /\ UNCHANGED <<center, hasPlan, loaded, epoch, completed, free, inFlight, failed,
                 stopping, worker, job, ready>>

\* The missing chunks are queued, near ones first.
Enqueue ==
  /\ main = "enqueue"
  /\ \E order \in [1..Cardinality(missing) -> missing] :
       /\ NearFirst(order, center)
       /\ queue' = [i \in DOMAIN order |-> [coord |-> order[i], epoch |-> epoch]]
  /\ missing' = {}
  /\ worker' = WakeJob(worker)
  /\ main' = "take"
  /\ UNCHANGED <<center, hasPlan, loaded, epoch, completed, free, inFlight, failed,
                 stopping, job, ready>>

\* update() inside the planned chunk goes straight to the commit.
UpdateSameCenter ==
  /\ main = "idle"
  /\ ~failed
  /\ hasPlan
  /\ main' = "take"
  /\ UNCHANGED <<center, hasPlan, loaded, shared, worker, job, missing, ready>>

\* rethrowWorkerError at the start of update().
UpdateThrows ==
  /\ main = "idle"
  /\ failed
  /\ main' = "threw"
  /\ UNCHANGED <<center, hasPlan, loaded, shared, worker, job, missing, ready>>

Flush ==
  /\ main = "idle"
  /\ main' = "flush"
  /\ UNCHANGED <<center, hasPlan, loaded, shared, worker, job, missing, ready>>

\* Every round of flush() starts with rethrowWorkerError.
FlushRound ==
  /\ main = "flush"
  /\ main' = IF failed THEN "threw" ELSE "flushTake"
  /\ UNCHANGED <<center, hasPlan, loaded, shared, worker, job, missing, ready>>

\* The first section of commitCompleted: at most n results are taken.
Take(n, next) ==
  LET k == IF Len(completed) < n THEN Len(completed) ELSE n
  IN /\ ready' = SubSeq(completed, 1, k)
     /\ completed' = SubSeq(completed, k + 1, Len(completed))
     /\ worker' = WakeSpace(worker)
     /\ main' = next
     /\ UNCHANGED <<center, hasPlan, loaded, epoch, queue, free, inFlight, failed,
                    stopping, job, missing>>

TakeSome == main = "take" /\ Take(CommitBudget, "commit")
TakeAll == main = "flushTake" /\ Take(Len(completed), "flushCommit")

\* Faulty variant: a result replaces whatever chunk is loaded.
Materialize_Overwrites(r) ==
  IF r.epoch = epoch /\ r.coord \in View(center)
  THEN [loaded EXCEPT ![r.coord] = "generated"]
  ELSE loaded

\* A current result inside the view becomes a chunk, unless one is there.
Materialize(r) ==
  IF r.epoch = epoch /\ r.coord \in View(center) /\ loaded[r.coord] = "absent"
  THEN [loaded EXCEPT ![r.coord] = "generated"]
  ELSE loaded

\* One result of the batch; its buffer is recycled either way.
Commit ==
  /\ main \in {"commit", "flushCommit"}
  /\ ready # <<>>
  /\ loaded' = Materialize(Head(ready))
  /\ ready' = Tail(ready)
  /\ free' = free + 1
  /\ UNCHANGED <<center, hasPlan, epoch, queue, completed, inFlight, failed, stopping,
                 worker, job, main, missing>>

\* The end of update(): a worker error surfaces in the same frame.
UpdateEnds ==
  /\ main = "commit"
  /\ ready = <<>>
  /\ main' = IF failed THEN "threw" ELSE "idle"
  /\ UNCHANGED <<center, hasPlan, loaded, shared, worker, job, missing, ready>>

Drained == queue = <<>> /\ inFlight = 0

\* flush() after its commit: it is done, or it waits for progress.
FlushTest ==
  /\ main = "flushCommit"
  /\ ready = <<>>
  /\ main' = IF Drained /\ completed = <<>> THEN "flushed"
             ELSE IF failed \/ completed # <<>> \/ Drained THEN "flush" ELSE "flushWait"
  /\ UNCHANGED <<center, hasPlan, loaded, shared, worker, job, missing, ready>>

\* The wait of flush() tests its predicate after a notification.
FlushRetest ==
  /\ main = "flushTest"
  /\ main' = IF failed \/ completed # <<>> \/ Drained THEN "flush" ELSE "flushWait"
  /\ UNCHANGED <<center, hasPlan, loaded, shared, worker, job, missing, ready>>

FlushReturns ==
  /\ main = "flushed"
  /\ main' = IF failed THEN "threw" ELSE "idle"
  /\ UNCHANGED <<center, hasPlan, loaded, shared, worker, job, missing, ready>>

\* Faulty variant: the destructor does not wake the wait for ready space.
Destroy_OneNotify ==
  /\ main \in {"idle", "threw"}
  /\ stopping' = TRUE
  /\ queue' = <<>>
  /\ worker' = WakeJob(worker)
  /\ main' = "join"
  /\ UNCHANGED <<center, hasPlan, loaded, epoch, completed, free, inFlight, failed, job,
                 missing, ready>>

\* The destructor, and its join.
Destroy ==
  /\ main \in {"idle", "threw"}
  /\ stopping' = TRUE
  /\ queue' = <<>>
  /\ worker' = WakeSpace(WakeJob(worker))
  /\ main' = "join"
  /\ UNCHANGED <<center, hasPlan, loaded, epoch, completed, free, inFlight, failed, job,
                 missing, ready>>

Join ==
  /\ main = "join"
  /\ worker = "exited"
  /\ main' = "destroyed"
  /\ UNCHANGED <<center, hasPlan, loaded, shared, worker, job, missing, ready>>

\* ChunkManager::setBlock between two calls: an edit of a loaded chunk, or
\* the creation of a chunk the streamer has not generated.
SetBlock(c) ==
  /\ main = "idle"
  /\ loaded[c] # "edited"
  /\ loaded' = [loaded EXCEPT ![c] = "edited"]
  /\ UNCHANGED <<center, hasPlan, shared, worker, job, main, missing, ready>>
-----------------------------------------------------------------------------
(* The worker.                                                             *)

WorkerUnchanged == UNCHANGED <<center, hasPlan, loaded, epoch, stopping, missing, ready>>

\* The oldest job is taken, with a recycled buffer when there is one.
TakeJob ==
  /\ worker = "jobTest"
  /\ ~stopping
  /\ queue # <<>>
  /\ job' = Head(queue)
  /\ queue' = Tail(queue)
  /\ inFlight' = inFlight + 1
  /\ free' = IF free > 0 THEN free - 1 ELSE 0
  /\ worker' = "generate"
  /\ UNCHANGED <<completed, failed, main>>
  /\ WorkerUnchanged

NoJob ==
  /\ worker = "jobTest"
  /\ stopping \/ queue = <<>>
  /\ worker' = IF stopping THEN "exited" ELSE "jobWait"
  /\ UNCHANGED <<queue, completed, free, inFlight, failed, job, main>>
  /\ WorkerUnchanged

\* generateChunkIds, outside the mutex.
Generate ==
  /\ worker = "generate"
  /\ worker' \in {"finish"} \cup (IF GenerationFails THEN {"fail"} ELSE {})
  /\ UNCHANGED <<queue, completed, free, inFlight, failed, job, main>>
  /\ WorkerUnchanged

\* The catch block: the first error is kept and the plan is given up.
Fail ==
  /\ worker = "fail"
  /\ inFlight' = inFlight - 1
  /\ failed' = TRUE
  /\ queue' = <<>>
  /\ worker' = "jobTest"
  /\ main' = WakeFlush(main)
  /\ UNCHANGED <<completed, free, job>>
  /\ WorkerUnchanged

\* The section after a generation takes the job out of mInFlight and tests
\* for a stale plan; the wait for ready space tests for it again.
Leaving == /\ worker \in {"finish", "spaceTest"}
           /\ inFlight' = IF worker = "finish" THEN inFlight - 1 ELSE inFlight
Stale == job.epoch # epoch

DropStale ==
  /\ Leaving
  /\ Stale
  /\ stopping => worker = "finish"
  /\ free' = free + 1
  /\ worker' = "jobTest"
  /\ main' = WakeFlush(main)
  /\ UNCHANGED <<queue, completed, failed, job>>
  /\ WorkerUnchanged

StopWithResult ==
  /\ Leaving
  /\ stopping
  /\ worker = "finish" => ~Stale
  /\ worker' = "exited"
  /\ UNCHANGED <<queue, completed, free, failed, job, main>>
  /\ WorkerUnchanged

WaitForSpace ==
  /\ Leaving
  /\ ~stopping
  /\ ~Stale
  /\ Len(completed) >= MaxReady
  /\ worker' = "spaceWait"
  /\ UNCHANGED <<queue, completed, free, failed, job, main>>
  /\ WorkerUnchanged

Stage ==
  /\ Leaving
  /\ ~stopping
  /\ ~Stale
  /\ Len(completed) < MaxReady
  /\ completed' = Append(completed, job)
  /\ worker' = "jobTest"
  /\ main' = WakeFlush(main)
  /\ UNCHANGED <<queue, free, failed, job>>
  /\ WorkerUnchanged

Worker == \/ TakeJob \/ NoJob \/ Generate \/ Fail
          \/ DropStale \/ StopWithResult \/ WaitForSpace \/ Stage
-----------------------------------------------------------------------------
Update == (\E c \in Chunks : UpdateMoved(c)) \/ UpdateSameCenter \/ UpdateThrows
Continue == \/ Replan \/ Enqueue \/ TakeSome \/ TakeAll \/ Commit \/ UpdateEnds
            \/ FlushRound \/ FlushTest \/ FlushRetest \/ FlushReturns \/ Join

Next == \/ Update \/ Flush \/ Continue \/ Destroy
        \/ \E c \in Chunks : SetBlock(c)
        \/ Worker

Spec == Init /\ [][Next]_vars

\* Both threads run; every frame calls update(), whatever else it calls.
FairSpec == Spec /\ WF_vars(Worker) /\ WF_vars(Continue) /\ SF_vars(Update)
-----------------------------------------------------------------------------
(* Properties.                                                             *)

TypeOK == /\ center \in Chunks
          /\ hasPlan \in BOOLEAN
          /\ loaded \in [Chunks -> ChunkStates]
          /\ epoch \in 0..MaxEpoch
          /\ queue \in Seq(Job)
          /\ completed \in Seq(Job)
          /\ free \in Nat
          /\ inFlight \in 0..1
          /\ failed \in BOOLEAN
          /\ stopping \in BOOLEAN
          /\ worker \in WorkerStates
          /\ job \in Job
          /\ main \in MainStates
          /\ missing \subseteq Chunks
          /\ ready \in Seq(Job)

\* Generated results that wait for the main thread are bounded, and they are
\* all of the current plan: a center change leaves none of the old plan and
\* the worker stages none afterwards, wherever it was when the plan changed.
ReadyBoundedAndCurrent ==
  /\ Len(completed) <= MaxReady
  /\ \A r \in ToSet(completed) : r.epoch = epoch

\* Buffers circulate: as many exist at most as one full stage, one full batch
\* and the worker's, however many chunks are generated.
Holding == IF worker \in {"generate", "finish", "fail", "spaceTest", "spaceWait"}
           THEN 1 ELSE 0
BuffersBounded ==
  free + Len(completed) + Len(ready) + Holding <= 2 * MaxReady + 1

\* The places where a chunk of the current plan can be on its way.
WorkerHolds(c) == Holding = 1 /\ job = [coord |-> c, epoch |-> epoch]
Pending(c) == Cardinality({i \in DOMAIN queue : queue[i].coord = c})
              + Cardinality({i \in DOMAIN completed : completed[i].coord = c})
              + Cardinality({i \in DOMAIN ready : ready[i].coord = c})
              + (IF WorkerHolds(c) THEN 1 ELSE 0)

\* No hole and no double work: once the plan is made, every chunk of the view
\* that is not loaded is on its way exactly once, and no chunk outside the
\* view is.
PlanCovered ==
  hasPlan /\ main \notin {"replan", "enqueue"} /\ ~failed /\ ~stopping =>
    \A c \in Chunks : /\ Pending(c) <= 1
                      /\ c \in View(center) \ Present => Pending(c) = 1
                      /\ c \notin View(center) => Pending(c) = 0

\* A generated result never replaces a chunk that gameplay wrote to: edits
\* disappear only with the eviction of their chunk.
EditsSurviveCommit ==
  [][\A c \in Chunks :
       loaded[c] = "edited" => loaded'[c] = "edited" \/ c \notin View(center')]_vars

\* With frames that call update(), a working generator and no more moves, the
\* whole view is loaded in the end and stays loaded.
ViewEventuallyLoaded ==
  [](~failed /\ ~stopping) => <>[](hasPlan /\ View(center) \subseteq Present)

\* A worker error reaches the main thread, unless that destroys the streamer.
ErrorSurfaces == failed ~> (main = "threw" \/ stopping)

\* The destructor returns, wherever the worker was.
DestructorReturns == stopping ~> main = "destroyed"

\* What is staged, in one invariant: types, bounds, and nothing of an old plan.
StagingInv == TypeOK /\ ReadyBoundedAndCurrent /\ BuffersBounded

\* A plan ends in one of two ways: the whole view is loaded, or the main thread
\* sees the error of the worker.
PlanEnds == ViewEventuallyLoaded /\ ErrorSurfaces
=============================================================================
