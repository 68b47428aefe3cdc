-------------------------- MODULE ThreadPoolProofs --------------------------
(***************************************************************************)
(* ThreadPool's safety properties, for any number of workers, callers and  *)
(* tasks.                                                                  *)
(***************************************************************************)
EXTENDS ThreadPool, FiniteSetTheorems, SequenceTheorems, TLAPS

Busy == {w \in Workers : pc[w] \in {"run", "ran"}}

\* What TypeOK says without the bound on active_, which is ActiveInv's.
Types ==
  /\ tasks \in Seq(Tasks)
  /\ active \in Nat
  /\ stop \in BOOLEAN
  /\ pc \in [Workers -> {"check", "wait", "run", "ran", "notify", "exit"}]
  /\ task \in [Workers -> Tasks \cup {NONE}]
  /\ epc \in [Enqueuers -> {"out", "notify"}]
  /\ dpc \in [Drainers -> {"out", "check", "wait", "return"}]
  /\ covered \in [Drainers -> SUBSET Tasks]
  /\ owner \in {"running", "notify", "join", "gone"}
  /\ pending \subseteq Tasks /\ done \subseteq Tasks

\* active_ counts the workers between a task's take and its end.
ActiveInv == active = Cardinality(Busy)

\* A task that was queued has run, is queued, or is what a busy worker runs.
Queued == {tasks[i] : i \in 1 .. Len(tasks)}
TaskInv == /\ \A w \in Workers : pc[w] = "run" => task[w] \in Tasks
           /\ \A t \in Tasks \ pending :
                t \in done \/ t \in Queued \/ \E w \in Workers : pc[w] = "run" /\ task[w] = t

\* A drain covers tasks that were queued.
CoverInv == \A d \in Drainers : covered[d] \cap pending = {}

\* Workers leave only once stop_ is up, when nothing is enqueued any more,
\* and find the queue empty.
ExitInv == /\ stop <=> owner # "running"
           /\ \A w \in Workers : pc[w] = "exit" => stop /\ tasks = <<>>
           /\ owner = "gone" => \A w \in Workers : pc[w] = "exit"

IInv == /\ Types /\ ActiveInv /\ TaskInv /\ CoverInv /\ ExitInv
        /\ DrainCovers /\ DestructorRunsAll

-----------------------------------------------------------------------------
\* Busy gains and loses one worker at a time, so its size moves by one.
LEMMA BusyFinite == Busy \subseteq Workers /\ IsFiniteSet(Busy) /\ Cardinality(Busy) \in Nat
BY PoolAssumption, FS_Subset, FS_CardinalityType DEF Busy

\* An empty queue has nothing in it.
LEMMA QueuedEmpty == ASSUME tasks = <<>> PROVE Queued = {}
BY DEF Queued

\* The pool starts in IInv.
LEMMA InitIInv == Init => IInv
<1> SUFFICES ASSUME Init PROVE IInv
    OBVIOUS
<1> USE DEF Init
<1>1. Busy = {}
    BY DEF Busy
<1>2. ActiveInv
    BY <1>1, FS_EmptySet DEF ActiveInv
<1>3. Types
  <2>1. tasks \in Seq(Tasks)
      OBVIOUS
  <2>2. covered \in [Drainers -> SUBSET Tasks] /\ pending \subseteq Tasks /\ done \subseteq Tasks
      OBVIOUS
  <2> QED
      BY <2>1, <2>2 DEF Types
<1>4. TaskInv /\ CoverInv
    BY DEF TaskInv, CoverInv
<1>5. ExitInv /\ DrainCovers /\ DestructorRunsAll
    BY DEF ExitInv, DrainCovers, DestructorRunsAll
<1> QED
    BY <1>2, <1>3, <1>4, <1>5 DEF IInv

\* enqueue's push: one more task in the queue, covered by no earlier drain.
LEMMA PushStep == ASSUME NEW e \in Enqueuers, NEW t \in Tasks, IInv, EnqueuePush(e, t) PROVE IInv'
<1> USE DEF IInv
<1>1. Types'
  <2>1. tasks' \in Seq(Tasks)
      BY DEF Types, EnqueuePush
  <2> QED
      BY <2>1 DEF Types, EnqueuePush, worker
<1>2. ActiveInv'
    BY DEF ActiveInv, EnqueuePush, worker, Busy
<1>3. /\ Len(tasks') = Len(tasks) + 1 /\ tasks'[Len(tasks) + 1] = t
      /\ \A i \in 1 .. Len(tasks) : tasks'[i] = tasks[i]
      /\ Len(tasks) \in Nat
    BY DEF EnqueuePush, Types
<1>4. Queued' = Queued \cup {t}
    BY <1>3 DEF Queued
<1>5. TaskInv'
    BY <1>4 DEF TaskInv, EnqueuePush, worker
<1>6. CoverInv' /\ ExitInv' /\ DrainCovers' /\ DestructorRunsAll'
    BY DEF CoverInv, ExitInv, DrainCovers, DestructorRunsAll, EnqueuePush, worker, Types
<1> QED
    BY <1>1, <1>2, <1>5, <1>6

\* A wakeup by notify_one, by notify_all or by chance leaves the busy workers,
\* and those that exited, where they are.
LEMMA WakeStep ==
  ASSUME IInv, UNCHANGED <<tasks, active, task, covered, pending, done>>,
         pc' \in [Workers -> {"check", "wait", "run", "ran", "notify", "exit"}],
         \A w \in Workers : pc'[w] = pc[w] \/ (pc[w] \in {"wait", "notify"} /\ pc'[w] = "check")
  PROVE  ActiveInv' /\ TaskInv' /\ CoverInv'
<1> USE DEF IInv
<1>1. Busy' = Busy
    BY DEF Busy
<1>2. Queued' = Queued
    BY DEF Queued
<1>3. ActiveInv'
    BY <1>1 DEF ActiveInv
<1>4. TaskInv'
    BY <1>2 DEF TaskInv
<1> QED
    BY <1>3, <1>4 DEF CoverInv

\* enqueue's notify_one.
LEMMA NotifyStep == ASSUME NEW e \in Enqueuers, IInv, EnqueueNotify(e) PROVE IInv'
<1> USE DEF IInv
<1>1. Types'
    BY DEF Types, EnqueueNotify
<1>2. \A w \in Workers : pc'[w] = pc[w] \/ (pc[w] \in {"wait", "notify"} /\ pc'[w] = "check")
    BY DEF EnqueueNotify, Types
<1>3. ActiveInv' /\ TaskInv' /\ CoverInv'
    BY <1>1, <1>2, WakeStep DEF EnqueueNotify, Types
<1>4. ExitInv' /\ DrainCovers' /\ DestructorRunsAll'
    BY <1>2 DEF ExitInv, DrainCovers, DestructorRunsAll, EnqueueNotify
<1> QED
    BY <1>1, <1>3, <1>4

\* A worker takes the head of the queue and is busy with it.
LEMMA TakeStep == ASSUME NEW w \in Workers, IInv, WorkerTake(w) PROVE IInv'
<1> USE DEF IInv
<1>1. Types'
    BY HeadTailProperties DEF Types, WorkerTake, callers
<1>2. Busy' = Busy \cup {w} /\ w \notin Busy
    BY DEF Busy, WorkerTake, Types
<1>3. ActiveInv'
    BY <1>2, BusyFinite, FS_AddElement DEF ActiveInv, WorkerTake
<1>4. /\ Len(tasks) \in Nat /\ Len(tasks) > 0 /\ Len(tasks') = Len(tasks) - 1
      /\ \A i \in 1 .. Len(tasks') : tasks'[i] = tasks[i + 1]
      /\ task'[w] = tasks[1] /\ task'[w] \in Tasks
    BY DEF WorkerTake, Types
<1>5. Queued \subseteq Queued' \cup {task'[w]}
  <2>1. SUFFICES ASSUME NEW i \in 1 .. Len(tasks), i # 1 PROVE tasks[i] \in Queued'
      BY <1>4 DEF Queued
  <2>2. i - 1 \in 1 .. Len(tasks') /\ tasks'[i - 1] = tasks[i]
      BY <1>4, <2>1
  <2> QED
      BY <2>2 DEF Queued
<1>6. TaskInv'
    BY <1>4, <1>5 DEF TaskInv, WorkerTake, Types
<1>7. CoverInv' /\ ExitInv' /\ DrainCovers' /\ DestructorRunsAll'
    BY DEF CoverInv, ExitInv, DrainCovers, DestructorRunsAll, WorkerTake, callers, Types
<1> QED
    BY <1>1, <1>3, <1>6, <1>7

\* A worker waits or leaves: no task moves.
LEMMA RestStep == ASSUME NEW w \in Workers, IInv, WorkerWait(w) \/ WorkerExit(w) PROVE IInv'
<1> USE DEF IInv
<1>1. Types'
    BY DEF Types, WorkerWait, WorkerExit, callers
<1>2. Busy' = Busy /\ Queued' = Queued
    BY DEF Busy, Queued, WorkerWait, WorkerExit, Types
<1>3. ActiveInv'
    BY <1>2 DEF ActiveInv, WorkerWait, WorkerExit
<1>4. TaskInv'
    BY <1>2 DEF TaskInv, WorkerWait, WorkerExit, Types
<1>5. CoverInv' /\ ExitInv' /\ DrainCovers' /\ DestructorRunsAll'
    BY DEF CoverInv, ExitInv, DrainCovers, DestructorRunsAll, WorkerWait, WorkerExit, callers, Types
<1> QED
    BY <1>1, <1>3, <1>4, <1>5

\* A task ends; its worker is still counted.
LEMMA RunStep == ASSUME NEW w \in Workers, IInv, WorkerRun(w) PROVE IInv'
<1> USE DEF IInv
<1>1. Types'
    BY DEF Types, WorkerRun, callers, TaskInv
<1>2. Busy' = Busy /\ Queued' = Queued
    BY DEF Busy, Queued, WorkerRun, Types
<1>3. ActiveInv'
    BY <1>2 DEF ActiveInv, WorkerRun
<1>4. TaskInv'
    BY <1>2 DEF TaskInv, WorkerRun, Types
<1>5. CoverInv' /\ ExitInv' /\ DrainCovers' /\ DestructorRunsAll'
    BY DEF CoverInv, ExitInv, DrainCovers, DestructorRunsAll, WorkerRun, callers, Types
<1> QED
    BY <1>1, <1>3, <1>4, <1>5

\* active_-- goes with a worker that is no longer busy.
LEMMA LeaveStep == ASSUME NEW w \in Workers, IInv, WorkerLeave(w) PROVE IInv'
<1> USE DEF IInv
<1>1. Busy' = Busy \ {w} /\ w \in Busy /\ Queued' = Queued
    BY DEF Busy, Queued, WorkerLeave, Types
<1>2. Cardinality(Busy') = Cardinality(Busy) - 1 /\ IsFiniteSet(Busy')
    BY <1>1, BusyFinite, FS_RemoveElement
<1>3. Cardinality(Busy') \in Nat
    BY <1>2, FS_CardinalityType
<1>4. ActiveInv'
    BY <1>2 DEF ActiveInv, WorkerLeave
<1>5. Types'
    BY <1>2, <1>3 DEF Types, WorkerLeave, callers, ActiveInv
<1>6. TaskInv'
    BY <1>1 DEF TaskInv, WorkerLeave, Types
<1>7. CoverInv' /\ ExitInv' /\ DrainCovers' /\ DestructorRunsAll'
    BY DEF CoverInv, ExitInv, DrainCovers, DestructorRunsAll, WorkerLeave, callers, Types
<1> QED
    BY <1>4, <1>5, <1>6, <1>7

\* idle_cv_.notify_all and a spurious wakeup.
LEMMA IdleStep == ASSUME NEW w \in Workers, IInv, WorkerNotify(w) \/ SpuriousWakeup(w) PROVE IInv'
<1> USE DEF IInv
<1>1. Types'
    BY DEF Types, WorkerNotify, SpuriousWakeup, callers
<1>2. \A v \in Workers : pc'[v] = pc[v] \/ (pc[v] \in {"wait", "notify"} /\ pc'[v] = "check")
    BY DEF WorkerNotify, SpuriousWakeup, Types
<1>3. ActiveInv' /\ TaskInv' /\ CoverInv'
    BY <1>1, <1>2, WakeStep DEF WorkerNotify, SpuriousWakeup, callers, Types
<1>4. ExitInv' /\ DrainCovers' /\ DestructorRunsAll'
    BY <1>2 DEF ExitInv, DrainCovers, DestructorRunsAll, WorkerNotify, SpuriousWakeup, callers, Types
<1> QED
    BY <1>1, <1>3, <1>4

\* drain: with an empty queue and no busy worker, all that was queued has run.
LEMMA DrainStep == ASSUME NEW d \in Drainers, IInv, DrainCall(d) \/ DrainCheck(d) \/ DrainReturn(d)
                   PROVE IInv'
<1> USE DEF IInv
<1>1. Types'
    BY DEF Types, DrainCall, DrainCheck, DrainReturn, worker
<1>2. UNCHANGED <<tasks, active, stop, pc, task, owner, pending, done>>
    BY DEF DrainCall, DrainCheck, DrainReturn, worker
<1>3. Busy' = Busy /\ Queued' = Queued
    BY <1>2 DEF Busy, Queued
<1>4. ActiveInv' /\ TaskInv' /\ ExitInv' /\ DestructorRunsAll'
    BY <1>2, <1>3 DEF ActiveInv, TaskInv, ExitInv, DestructorRunsAll
<1>5. CoverInv'
    BY <1>2 DEF CoverInv, DrainCall, DrainCheck, DrainReturn, Types
<1>6. tasks = <<>> /\ active = 0 => Tasks \ pending \subseteq done
  <2>1. SUFFICES ASSUME tasks = <<>>, active = 0 PROVE Tasks \ pending \subseteq done
      OBVIOUS
  <2>2. Busy = {}
      BY <2>1, BusyFinite, FS_EmptySet DEF ActiveInv
  <2> QED
      BY <2>1, <2>2, QueuedEmpty DEF TaskInv, Busy
<1>7. DrainCovers'
    BY <1>6 DEF DrainCovers, CoverInv, DrainCall, DrainCheck, DrainReturn, Types
<1> QED
    BY <1>1, <1>4, <1>5, <1>7

\* ~ThreadPool: all workers are out, so none is busy and the queue is empty.
LEMMA DestroyStepInv == ASSUME IInv, DestroyStop \/ DestroyStep PROVE IInv'
<1> USE DEF IInv
<1>1. Types'
    BY DEF Types, DestroyStop, DestroyStep, DestroyNotify, DestroyJoin, worker
<1>2. \A v \in Workers : pc'[v] = pc[v] \/ (pc[v] \in {"wait", "notify"} /\ pc'[v] = "check")
    BY DEF DestroyStop, DestroyStep, DestroyNotify, DestroyJoin, worker, Types
<1>3. ActiveInv' /\ TaskInv' /\ CoverInv'
    BY <1>1, <1>2, WakeStep DEF DestroyStop, DestroyStep, DestroyNotify, DestroyJoin, worker, Types
<1>4. ExitInv' /\ DrainCovers'
    BY <1>2 DEF ExitInv, DrainCovers, DestroyStop, DestroyStep, DestroyNotify, DestroyJoin, worker, Types
<1>5. DestructorRunsAll'
  <2>1. CASE DestroyJoin
    <3>1. tasks = <<>>
        BY <2>1, PoolAssumption DEF DestroyJoin, ExitInv
    <3> QED
        BY <2>1, <3>1, QueuedEmpty DEF DestructorRunsAll, DestroyJoin, TaskInv
  <2>2. CASE DestroyStop \/ DestroyNotify
      BY <2>2 DEF DestructorRunsAll, DestroyStop, DestroyNotify
  <2> QED
      BY <2>1, <2>2 DEF DestroyStep
<1> QED
    BY <1>1, <1>3, <1>4, <1>5

\* Every step of the pool preserves IInv.
LEMMA NextIInv == IInv /\ [Next]_vars => IInv'
<1> SUFFICES ASSUME IInv, [Next]_vars PROVE IInv'
    OBVIOUS
<1>1. CASE UNCHANGED vars
    BY <1>1 DEF vars, worker, callers, IInv, Types, ActiveInv, Busy, TaskInv, Queued, CoverInv,
                ExitInv, DrainCovers, DestructorRunsAll
<1>2. CASE Next
    BY <1>2, PushStep, NotifyStep, TakeStep, RestStep, RunStep, LeaveStep, IdleStep, DrainStep,
       DestroyStepInv DEF Next, WorkerStep
<1> QED
    BY <1>1, <1>2

-----------------------------------------------------------------------------
\* threadpool.hpp: IInv holds throughout.
THEOREM PoolInvariance == Spec => []IInv
BY InitIInv, NextIInv, PTL DEF Spec

\* The pool's variables keep their types, and active_ never exceeds the number
\* of workers nor goes below zero (it is a size_t).
THEOREM PoolTypeCorrect == Spec => []TypeOK
<1>1. IInv => TypeOK
  <2> SUFFICES ASSUME IInv PROVE TypeOK
      OBVIOUS
  <2>1. Cardinality(Busy) <= Cardinality(Workers) /\ Cardinality(Workers) \in Nat
      BY BusyFinite, PoolAssumption, FS_Subset, FS_CardinalityType
  <2> QED
      BY <2>1 DEF IInv, Types, TypeOK, ActiveInv
<1> QED
    BY <1>1, PoolInvariance, PTL

\* drain returns only when every task queued before the call has finished.
THEOREM DrainIsComplete == Spec => []DrainCovers
<1>1. IInv => DrainCovers
    BY DEF IInv
<1> QED
    BY <1>1, PoolInvariance, PTL

\* ~ThreadPool returns only when every task ever queued has finished.
THEOREM DestructorIsComplete == Spec => []DestructorRunsAll
<1>1. IInv => DestructorRunsAll
    BY DEF IInv
<1> QED
    BY <1>1, PoolInvariance, PTL
=============================================================================
