------------------------------ MODULE ThreadGroup ------------------------------
(***************************************************************************)
(* ThreadGroup (base/rThreadGroup.cc), the pool of worker threads that     *)
(* fusion algorithms hand row ranges to, from its construction to the end  *)
(* of its destructor, and the owner that enqueues tasks, waits for them    *)
(* and destroys the pool.  The condition variable is its wait set: wait()  *)
(* releases the mutex and joins the set in one step, notify_one() wakes    *)
(* some member, and a member may wake for no reason.                       *)
(***************************************************************************)
EXTENDS Naturals, Sequences, FiniteSets

CONSTANTS
  Workers,
  Tasks,
  MaxQueueSize

ASSUME ThreadGroupAssumption ==
  /\ MaxQueueSize \in Nat
  /\ Workers # {}
  /\ "free" \notin Workers /\ "none" \notin Tasks

VARIABLES
  wpc,       \* where each worker is in workerThread
  task,      \* the task each worker executes, or "none"
  opc,       \* where the owner is
  mutex,     \* the worker that holds myTaskQueueMutex, or "free"
  queue,     \* myTaskQueue
  stop,      \* myStop
  accepted,  \* tasks for which enqueueThreadTask returned or will return true
  finished   \* tasks marked done, in that order

ownerVars == <<opc, accepted>>
vars == <<wpc, task, opc, mutex, queue, stop, accepted, finished>>

\* lock: wants the mutex, at the loop's start or woken inside wait()
\* check: holds the mutex and evaluates the predicate
\* block: holds the mutex, the predicate was false
\* asleep: in the wait set
WorkerPc == {"lock", "check", "block", "asleep", "run", "exited"}

\* stopped: between setting myStop and notify_all()
OwnerPc == {"ready", "notify", "stopped", "join", "gone"}

Done(t)     == \E i \in 1..Len(finished) : finished[i] = t
Asleep      == {w \in Workers : wpc[w] = "asleep"}
Running(t)  == \E w \in Workers : wpc[w] = "run" /\ task[w] = t

-----------------------------------------------------------------------------
(* workerThread *)

\* Take the mutex, on entry to the scope or inside wait().
Lock(w) ==
  /\ wpc[w] = "lock"
  /\ mutex = "free"
  /\ mutex' = w
  /\ wpc' = [wpc EXCEPT ![w] = "check"]
  /\ UNCHANGED <<task, ownerVars, queue, stop, finished>>

\* Mutant: the mutex is released between front() and pop(), so that two
\* workers may take one task.
TakeFront(w) ==
  /\ wpc[w] = "check"
  /\ queue # <<>>
  /\ queue' = IF \E v \in Workers : task[v] = Head(queue) THEN Tail(queue) ELSE queue
  /\ task' = [task EXCEPT ![w] = Head(queue)]
  /\ mutex' = "free"
  /\ wpc' = [wpc EXCEPT ![w] = "run"]
  /\ UNCHANGED <<ownerVars, stop, finished>>

\* The predicate holds and there is a task: pop it, release the mutex.
Take(w) ==
  /\ wpc[w] = "check"
  /\ queue # <<>>
  /\ queue' = Tail(queue)
  /\ task' = [task EXCEPT ![w] = Head(queue)]
  /\ mutex' = "free"
  /\ wpc' = [wpc EXCEPT ![w] = "run"]
  /\ UNCHANGED <<ownerVars, stop, finished>>

\* Mutant: a stopping worker leaves whatever is queued.
ReturnEarly(w) ==
  /\ wpc[w] = "check"
  /\ stop
  /\ mutex' = "free"
  /\ wpc' = [wpc EXCEPT ![w] = "exited"]
  /\ UNCHANGED <<task, ownerVars, queue, stop, finished>>

\* myStop and nothing queued: the thread ends.
Return(w) ==
  /\ wpc[w] = "check"
  /\ stop /\ queue = <<>>
  /\ mutex' = "free"
  /\ wpc' = [wpc EXCEPT ![w] = "exited"]
  /\ UNCHANGED <<task, ownerVars, queue, stop, finished>>

\* The predicate is false ...
FindNothing(w) ==
  /\ wpc[w] = "check"
  /\ ~ stop /\ queue = <<>>
  /\ wpc' = [wpc EXCEPT ![w] = "block"]
  /\ UNCHANGED <<task, ownerVars, mutex, queue, stop, finished>>

\* Mutant: the worker sleeps without having looked at the queue.
BlockUnchecked(w) ==
  /\ wpc[w] \in {"check", "block"}
  /\ mutex' = "free"
  /\ wpc' = [wpc EXCEPT ![w] = "asleep"]
  /\ UNCHANGED <<task, ownerVars, queue, stop, finished>>

\* ... so wait() releases the mutex and sleeps.  The destructor changes
\* myStop without this mutex, between the two steps too.
Block(w) ==
  /\ wpc[w] = "block"
  /\ mutex' = "free"
  /\ wpc' = [wpc EXCEPT ![w] = "asleep"]
  /\ UNCHANGED <<task, ownerVars, queue, stop, finished>>

SpuriousWakeup(w) ==
  /\ wpc[w] = "asleep"
  /\ wpc' = [wpc EXCEPT ![w] = "lock"]
  /\ UNCHANGED <<task, ownerVars, mutex, queue, stop, finished>>

\* task->execute(), which ends with markDone().  A task that throws leaves
\* the thread's function and with it ends the process (std::terminate);
\* nothing is left to be said then.
Execute(w) ==
  /\ wpc[w] = "run"
  /\ finished' = Append(finished, task[w])
  /\ task' = [task EXCEPT ![w] = "none"]
  /\ wpc' = [wpc EXCEPT ![w] = "lock"]
  /\ UNCHANGED <<ownerVars, mutex, queue, stop>>

-----------------------------------------------------------------------------
(* The owner *)

\* Mutant: the size is checked with > instead of >=.
EnqueueOneMore(t) ==
  /\ opc = "ready"
  /\ t \notin accepted
  /\ mutex = "free"
  /\ Len(queue) <= MaxQueueSize
  /\ queue' = Append(queue, t)
  /\ accepted' = accepted \cup {t}
  /\ opc' = "notify"
  /\ UNCHANGED <<wpc, task, mutex, stop, finished>>

\* enqueueThreadTask pushes the task; its critical section is one step.
\* When the queue is full it returns false and changes nothing ("Retry in a
\* loop typically"), which is a stutter of the owner.
Enqueue(t) ==
  /\ opc = "ready"
  /\ t \notin accepted
  /\ mutex = "free"
  /\ Len(queue) < MaxQueueSize
  /\ queue' = Append(queue, t)
  /\ accepted' = accepted \cup {t}
  /\ opc' = "notify"
  /\ UNCHANGED <<wpc, task, mutex, stop, finished>>

\* Mutant: the notification is forgotten.
NotifyNobody ==
  /\ opc = "notify"
  /\ opc' = "ready"
  /\ UNCHANGED <<wpc, task, mutex, queue, stop, accepted, finished>>

\* myCondition.notify_one(), after the mutex is released.
NotifyOne ==
  /\ opc = "notify"
  /\ opc' = "ready"
  /\ \/ \E w \in Asleep : wpc' = [wpc EXCEPT ![w] = "lock"]
     \/ Asleep = {} /\ UNCHANGED wpc
  /\ UNCHANGED <<task, mutex, queue, stop, accepted, finished>>

\* ~ThreadGroup: myStop = true, under myStopMutex, which no worker takes.
\* The owner may come here with tasks it has not waited for.
SetStop ==
  /\ opc = "ready"
  /\ stop' = TRUE
  /\ opc' = "stopped"
  /\ UNCHANGED <<wpc, task, mutex, queue, accepted, finished>>

NotifyAll ==
  /\ opc = "stopped"
  /\ opc' = "join"
  /\ wpc' = [w \in Workers |-> IF wpc[w] = "asleep" THEN "lock" ELSE wpc[w]]
  /\ UNCHANGED <<task, mutex, queue, stop, accepted, finished>>

\* Mutant: only the first worker is joined.
JoinOne ==
  /\ opc = "join"
  /\ \E w \in Workers : wpc[w] = "exited"
  /\ opc' = "gone"
  /\ UNCHANGED <<wpc, task, mutex, queue, stop, accepted, finished>>

\* join_all() returns, and the pool's memory with it.
JoinAll ==
  /\ opc = "join"
  /\ \A w \in Workers : wpc[w] = "exited"
  /\ opc' = "gone"
  /\ UNCHANGED <<wpc, task, mutex, queue, stop, accepted, finished>>

Terminated == opc = "gone" /\ UNCHANGED vars

-----------------------------------------------------------------------------
Init ==
  /\ wpc = [w \in Workers |-> "lock"]
  /\ task = [w \in Workers |-> "none"]
  /\ opc = "ready"
  /\ mutex = "free"
  /\ queue = <<>> /\ stop = FALSE
  /\ accepted = {} /\ finished = <<>>

WorkerStep(w) ==
  Lock(w) \/ Take(w) \/ Return(w) \/ FindNothing(w) \/ Block(w) \/ Execute(w)

OwnerStep == NotifyOne \/ NotifyAll \/ JoinAll

Next ==
  \/ \E w \in Workers : WorkerStep(w) \/ SpuriousWakeup(w)
  \/ \E t \in Tasks : Enqueue(t)
  \/ OwnerStep \/ SetStop \/ Terminated

\* Threads keep running.  Wakeups without a notification and the owner's
\* decisions are not to be counted on.
Fairness == WF_vars(OwnerStep) /\ \A w \in Workers : WF_vars(WorkerStep(w))

SafetySpec == Init /\ [][Next]_vars
Spec == SafetySpec /\ Fairness

-----------------------------------------------------------------------------
(* Properties *)

Queued   == {queue[i] : i \in 1..Len(queue)}
Finished == {finished[i] : i \in 1..Len(finished)}
Busy     == {w \in Workers : wpc[w] = "run"}

\* The type of the state; the queue keeps to its size.
TypeOK ==
  /\ wpc \in [Workers -> WorkerPc] /\ task \in [Workers -> Tasks \cup {"none"}]
  /\ opc \in OwnerPc
  /\ mutex \in Workers \cup {"free"}
  /\ queue \in Seq(Tasks) /\ Len(queue) <= MaxQueueSize
  /\ finished \in Seq(Tasks)
  /\ stop \in BOOLEAN
  /\ accepted \subseteq Tasks

\* Every accepted task is queued, executed by one worker or finished, and in
\* only one of these, once: no worker interleaving runs a task twice or
\* drops one.
EachTaskOnce ==
  /\ accepted = Queued \cup {task[w] : w \in Busy} \cup Finished
  /\ Queued \cap Finished = {}
  /\ \A w \in Busy : task[w] \notin Queued \cup Finished
  /\ \A v, w \in Busy : task[v] = task[w] => v = w
  /\ \A i, j \in 1..Len(queue) : queue[i] = queue[j] => i = j
  /\ \A i, j \in 1..Len(finished) : finished[i] = finished[j] => i = j

\* No task waits while everyone sleeps: some worker will look at the queue,
\* or the owner is about to notify one.  notify_one() comes after the mutex
\* is released, and reaches only workers that are asleep by then.
NoStrandedTask ==
  queue # <<>> => opc = "notify" \/ \E w \in Workers : wpc[w] \in {"lock", "check", "run"}

\* The destructor drains the pool: a worker ends only when it is told to and
\* nothing is queued, and when the workers are joined every task that was
\* accepted has been executed.
DrainedWhenGone ==
  /\ \A w \in Workers : wpc[w] = "exited" => stop /\ queue = <<>>
  /\ opc = "gone" => accepted = Finished

\* An accepted task is executed, whatever the owner does next: the owner's
\* waitUntilDone() returns ("or calling thread will hang waiting on you
\* forever").
TaskExecuted == \A t \in Tasks : t \in accepted ~> t \in Finished

\* The destructor ends if, when it notifies, no worker is between finding
\* nothing to do and going to sleep.
JoinEnds ==
  (opc = "join" /\ \A w \in Workers : wpc[w] \notin {"block", "asleep"}) ~> opc = "gone"

\* The pool as its users see it.
WQ == INSTANCE WorkQueue
        WITH Items <- Tasks, pending <- accepted \ Finished,
             served <- finished, open <- (opc # "gone")

\* The pool implements WorkQueue: a task is executed at most once, only after
\* it was accepted, never after the pool is gone, and the pool keeps
\* executing tasks as long as some are left.
ImplementsWorkQueue == WQ!Spec

\* "On destruction, clean up threads" (rThreadGroup.h:110): a destructor that
\* was entered returns.
DestructorReturns == opc = "stopped" ~> opc = "gone"
==============================================================================
