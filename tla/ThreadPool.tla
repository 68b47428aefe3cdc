----------------------------- MODULE ThreadPool -----------------------------
(***************************************************************************)
(* The thread pool a Node runs its handlers on                             *)
(* (src/include/threadpool.hpp).  A step ends where the code drops mutex_, *)
(* and a notify, which the code makes without it, is a step of its own.    *)
(* A waiting thread is woken by a notify or spuriously.                    *)
(*                                                                         *)
(* The pool's owner destroys it once nobody calls it any more, as ~Node    *)
(* does after joining the reader thread, the only one that enqueues.       *)
(***************************************************************************)
EXTENDS Naturals, Sequences, FiniteSets

CONSTANTS Workers, Enqueuers, Drainers, Tasks, NONE

ASSUME PoolAssumption ==
  /\ Workers # {} /\ IsFiniteSet(Workers)
  /\ NONE \notin Tasks

VARIABLES
  tasks,      \* tasks_
  active,     \* active_
  stop,       \* stop_
  pc, task,   \* worker -> where it is, the task it runs
  epc,        \* enqueuer -> where it is
  dpc,        \* drainer -> where it is
  covered,    \* history: drainer -> the tasks queued before its call
  owner,      \* where ~ThreadPool is
  pending,    \* tasks not enqueued yet
  done        \* tasks that have run

worker == <<pc, task>>
callers == <<epc, dpc, covered, owner>>
vars   == <<tasks, active, stop, worker, callers, pending, done>>

Init ==
  /\ tasks = <<>> /\ active = 0 /\ stop = FALSE
  /\ pc = [w \in Workers |-> "check"]
  /\ task = [w \in Workers |-> NONE]
  /\ epc = [e \in Enqueuers |-> "out"]
  /\ dpc = [d \in Drainers |-> "out"]
  /\ covered = [d \in Drainers |-> {}]
  /\ owner = "running"
  /\ pending = Tasks /\ done = {}

-----------------------------------------------------------------------------
(* enqueue                                                                 *)

EnqueuePush(e, t) ==
  /\ owner = "running" /\ epc[e] = "out" /\ t \in pending
  /\ tasks' = Append(tasks, t)
  /\ pending' = pending \ {t}
  /\ epc' = [epc EXCEPT ![e] = "notify"]
  /\ UNCHANGED <<active, stop, worker, dpc, covered, owner, done>>

\* cv_.notify_one()
EnqueueNotify(e) ==
  /\ epc[e] = "notify"
  /\ \/ \E w \in Workers : pc[w] = "wait" /\ pc' = [pc EXCEPT ![w] = "check"]
     \/ (\A w \in Workers : pc[w] # "wait") /\ UNCHANGED pc
  /\ epc' = [epc EXCEPT ![e] = "out"]
  /\ UNCHANGED <<tasks, active, stop, task, dpc, covered, owner, pending, done>>

-----------------------------------------------------------------------------
(* workerLoop                                                              *)

WorkerTake(w) ==
  /\ pc[w] = "check" /\ tasks # <<>>
  /\ task' = [task EXCEPT ![w] = Head(tasks)]
  /\ tasks' = Tail(tasks)
  /\ active' = active + 1
  /\ pc' = [pc EXCEPT ![w] = "run"]
  /\ UNCHANGED <<stop, callers, pending, done>>

WorkerWait(w) ==
  /\ pc[w] = "check" /\ tasks = <<>> /\ ~stop
  /\ pc' = [pc EXCEPT ![w] = "wait"]
  /\ UNCHANGED <<tasks, active, stop, task, callers, pending, done>>

\* Mutant: stop_ alone ends the loop.
WorkerExitBug(w) ==
  /\ pc[w] = "check" /\ stop
  /\ pc' = [pc EXCEPT ![w] = "exit"]
  /\ UNCHANGED <<tasks, active, stop, task, callers, pending, done>>

WorkerExit(w) ==
  /\ pc[w] = "check" /\ tasks = <<>> /\ stop
  /\ pc' = [pc EXCEPT ![w] = "exit"]
  /\ UNCHANGED <<tasks, active, stop, task, callers, pending, done>>

WorkerRun(w) ==
  /\ pc[w] = "run"
  /\ done' = done \cup {task[w]}
  /\ task' = [task EXCEPT ![w] = NONE]
  /\ pc' = [pc EXCEPT ![w] = "ran"]
  /\ UNCHANGED <<tasks, active, stop, callers, pending>>

\* Mutant: the count is not given back.
WorkerLeaveBug(w) ==
  /\ pc[w] = "ran"
  /\ pc' = [pc EXCEPT ![w] = "notify"]
  /\ UNCHANGED <<tasks, active, stop, task, callers, pending, done>>

WorkerLeave(w) ==
  /\ pc[w] = "ran"
  /\ active' = active - 1
  /\ pc' = [pc EXCEPT ![w] = "notify"]
  /\ UNCHANGED <<tasks, stop, task, callers, pending, done>>

\* Mutant: idle_cv_ is not told.
WorkerNotifyBug(w) ==
  /\ pc[w] = "notify"
  /\ pc' = [pc EXCEPT ![w] = "check"]
  /\ UNCHANGED <<tasks, active, stop, task, callers, pending, done>>

\* idle_cv_.notify_all()
WorkerNotify(w) ==
  /\ pc[w] = "notify"
  /\ dpc' = [d \in Drainers |-> IF dpc[d] = "wait" THEN "check" ELSE dpc[d]]
  /\ pc' = [pc EXCEPT ![w] = "check"]
  /\ UNCHANGED <<tasks, active, stop, task, epc, covered, owner, pending, done>>

SpuriousWakeup(w) ==
  /\ pc[w] = "wait"
  /\ pc' = [pc EXCEPT ![w] = "check"]
  /\ UNCHANGED <<tasks, active, stop, task, callers, pending, done>>

-----------------------------------------------------------------------------
(* drain                                                                   *)

DrainCall(d) ==
  /\ owner = "running" /\ dpc[d] = "out"
  /\ covered' = [covered EXCEPT ![d] = Tasks \ pending]
  /\ dpc' = [dpc EXCEPT ![d] = "check"]
  /\ UNCHANGED <<tasks, active, stop, worker, epc, owner, pending, done>>

\* Mutant: an empty queue is enough.
DrainCheckBug(d) ==
  /\ dpc[d] = "check"
  /\ dpc' = [dpc EXCEPT ![d] = IF tasks = <<>> THEN "return" ELSE "wait"]
  /\ UNCHANGED <<tasks, active, stop, worker, epc, covered, owner, pending, done>>

DrainCheck(d) ==
  /\ dpc[d] = "check"
  /\ dpc' = [dpc EXCEPT ![d] = IF tasks = <<>> /\ active = 0 THEN "return" ELSE "wait"]
  /\ UNCHANGED <<tasks, active, stop, worker, epc, covered, owner, pending, done>>

\* The caller goes on.
DrainReturn(d) ==
  /\ dpc[d] = "return"
  /\ dpc' = [dpc EXCEPT ![d] = "out"]
  /\ covered' = [covered EXCEPT ![d] = {}]
  /\ UNCHANGED <<tasks, active, stop, worker, epc, owner, pending, done>>

-----------------------------------------------------------------------------
(* ~ThreadPool                                                             *)

DestroyStop ==
  /\ owner = "running"
  /\ \A e \in Enqueuers : epc[e] = "out"
  /\ \A d \in Drainers : dpc[d] = "out"
  /\ stop' = TRUE
  /\ owner' = "notify"
  /\ UNCHANGED <<tasks, active, worker, epc, dpc, covered, pending, done>>

\* Mutant: notify_one.
DestroyNotifyBug ==
  /\ owner = "notify"
  /\ \/ \E w \in Workers : pc[w] = "wait" /\ pc' = [pc EXCEPT ![w] = "check"]
     \/ (\A w \in Workers : pc[w] # "wait") /\ UNCHANGED pc
  /\ owner' = "join"
  /\ UNCHANGED <<tasks, active, stop, task, epc, dpc, covered, pending, done>>

\* cv_.notify_all()
DestroyNotify ==
  /\ owner = "notify"
  /\ pc' = [w \in Workers |-> IF pc[w] = "wait" THEN "check" ELSE pc[w]]
  /\ owner' = "join"
  /\ UNCHANGED <<tasks, active, stop, task, epc, dpc, covered, pending, done>>

DestroyJoin ==
  /\ owner = "join"
  /\ \A w \in Workers : pc[w] = "exit"
  /\ owner' = "gone"
  /\ UNCHANGED <<tasks, active, stop, worker, epc, dpc, covered, pending, done>>

-----------------------------------------------------------------------------
WorkerStep(w) == \/ WorkerTake(w) \/ WorkerWait(w) \/ WorkerExit(w)
                 \/ WorkerRun(w) \/ WorkerLeave(w) \/ WorkerNotify(w)

DestroyStep == DestroyNotify \/ DestroyJoin

Next == \/ \E e \in Enqueuers : EnqueueNotify(e) \/ \E t \in Tasks : EnqueuePush(e, t)
        \/ \E w \in Workers : WorkerStep(w) \/ SpuriousWakeup(w)
        \/ \E d \in Drainers : DrainCall(d) \/ DrainCheck(d) \/ DrainReturn(d)
        \/ DestroyStop \/ DestroyStep

Spec == Init /\ [][Next]_vars

\* Threads run and handlers return.  Nobody has to enqueue, to drain or to
\* destroy the pool, and no spurious wakeup is counted on.
Fairness ==
  /\ \A e \in Enqueuers : WF_vars(EnqueueNotify(e))
  /\ \A w \in Workers : WF_vars(WorkerStep(w))
  /\ \A d \in Drainers : WF_vars(DrainCheck(d))
  /\ WF_vars(DestroyStep)

FairSpec == Spec /\ Fairness

-----------------------------------------------------------------------------
(* Properties                                                              *)

TypeOK ==
  /\ tasks \in Seq(Tasks)
  /\ active \in 0 .. Cardinality(Workers)
  /\ stop \in BOOLEAN
  /\ pc \in [Workers -> {"check", "wait", "run", "ran", "notify", "exit"}]
  /\ task \in [Workers -> Tasks \cup {NONE}]
  /\ epc \in [Enqueuers -> {"out", "notify"}]
  /\ dpc \in [Drainers -> {"out", "check", "wait", "return"}]
  /\ covered \in [Drainers -> SUBSET Tasks]
  /\ owner \in {"running", "notify", "join", "gone"}
  /\ pending \subseteq Tasks /\ done \subseteq Tasks

\* "Wait until every task queued so far has finished": when drain returns,
\* every task queued before the call has run to its end, on whichever worker.
DrainCovers == \A d \in Drainers : dpc[d] = "return" => covered[d] \subseteq done

\* The destructor returns with no queued task dropped or still running (the
\* handlers use members that ~Node destroys next).
DestructorRunsAll == owner = "gone" => Tasks \ pending \subseteq done

\* A drain returns once the enqueuers let the queue run dry.
DrainReturns == \A d \in Drainers : dpc[d] = "check" ~> dpc[d] = "return"

\* ~ThreadPool returns: stop_ reaches every worker.
DestructorReturns == stop ~> owner = "gone"
=============================================================================
