------------------------------ MODULE WebServer ------------------------------
(***************************************************************************)
(* The -web server of a RAPIO program (base/rWebServer.cc).  Each web      *)
(* thread turns a GET request into a WebMessage, pushes it on the          *)
(* WebMessageQueue under its lock, wakes the main loop with setReady() and *)
(* waits on the message's promise.  The main thread's action() takes one   *)
(* message, has the algorithm process it under the same lock, fulfils the  *)
(* promise, and looks at the queue once more WITHOUT the lock to decide    *)
(* whether to fire again.  The program starts one web thread today ("for   *)
(* now at least we'll limit RAPIO to a single webthread"); the model takes *)
(* any number, since nothing else in the queue depends on it.              *)
(***************************************************************************)
EXTENDS EventLoop

CONSTANTS
  WebThreads,
  MaxRequests   \* bound of the requests per thread

ASSUME WebAssumption ==
  /\ MaxRequests \in Nat
  /\ "main" \notin WebThreads /\ "free" \notin WebThreads
  /\ {"WebMessageQueue", "Timer"} = Handlers

\* The n-th request of thread t.
Messages == WebThreads \X (1..MaxRequests)

VARIABLES
  loop,      \* the trigger, see EventLoop; "Timer" stands for all other handlers
  stopped,   \* io_context stopped
  mpc,       \* where the main thread is
  wpc,       \* where each web thread is
  sent,      \* requests received by each web thread
  lock,      \* the holder of myQueueLock, or "free"
  queue,     \* myQueue
  answered,  \* the messages whose promise is fulfilled, in that order
  pushed     \* history: the messages in the order they were pushed

mainVars == <<mpc, stopped>>
webVars  == <<wpc, sent>>
vars == <<loop, stopped, mpc, wpc, sent, lock, queue, answered, pushed>>

MainPc == {"setup", "loop", "lower", "lock", "process", "unlock", "check", "raise", "post",
           "exited"}
WebPc  == {"idle", "lock", "push", "raise", "post", "wait"}

Q == "WebMessageQueue"

\* The request a web thread works on.
Current(t) == <<t, sent[t]>>

Answered(m) == \E i \in 1..Len(answered) : answered[i] = m

-----------------------------------------------------------------------------
(* The web threads: handleGET and addRecord *)

Request(t) ==
  /\ mpc # "exited"
  /\ wpc[t] = "idle"
  /\ sent[t] < MaxRequests
  /\ sent' = [sent EXCEPT ![t] = @ + 1]
  /\ wpc' = [wpc EXCEPT ![t] = "lock"]
  /\ UNCHANGED <<loop, mainVars, lock, queue, answered, pushed>>

\* Mutant: the queue is pushed to without the lock.
WebLockNot(t) ==
  /\ wpc[t] = "lock"
  /\ wpc' = [wpc EXCEPT ![t] = "push"]
  /\ UNCHANGED <<loop, mainVars, sent, lock, queue, answered, pushed>>

\* myQueueLock.lock(); the thread is at "push" while it holds the lock.
WebLock(t) ==
  /\ wpc[t] = "lock"
  /\ lock = "free"
  /\ lock' = t
  /\ wpc' = [wpc EXCEPT ![t] = "push"]
  /\ UNCHANGED <<loop, mainVars, sent, queue, answered, pushed>>

\* Mutant: addRecord does not call setReady().
PushUnannounced(t) ==
  /\ wpc[t] = "push"
  /\ queue' = Append(queue, Current(t))
  /\ pushed' = Append(pushed, Current(t))
  /\ lock' = "free"
  /\ wpc' = [wpc EXCEPT ![t] = "wait"]
  /\ UNCHANGED <<loop, mainVars, sent, answered>>

\* Mutant: the newest message is pushed first.
PushFront(t) ==
  /\ wpc[t] = "push"
  /\ queue' = <<Current(t)>> \o queue
  /\ pushed' = Append(pushed, Current(t))
  /\ lock' = "free"
  /\ wpc' = [wpc EXCEPT ![t] = "raise"]
  /\ UNCHANGED <<loop, mainVars, sent, answered>>

\* myQueue.push(record); myQueueLock.unlock().
Push(t) ==
  /\ wpc[t] = "push"
  /\ queue' = Append(queue, Current(t))
  /\ pushed' = Append(pushed, Current(t))
  /\ lock' = "free"
  /\ wpc' = [wpc EXCEPT ![t] = "raise"]
  /\ UNCHANGED <<loop, mainVars, sent, answered>>

\* setReady(): the compare-exchange, lost if the queue is scheduled.
WebRaise(t) ==
  /\ wpc[t] = "raise"
  /\ IF loop.flag[Q]
     THEN wpc' = [wpc EXCEPT ![t] = "wait"] /\ UNCHANGED loop
     ELSE wpc' = [wpc EXCEPT ![t] = "post"] /\ loop' = RaiseFlag(loop, Q)
  /\ UNCHANGED <<mainVars, sent, lock, queue, answered, pushed>>

\* setReady(): the post.
WebPost(t) ==
  /\ wpc[t] = "post"
  /\ loop' = Post(loop, Q)
  /\ wpc' = [wpc EXCEPT ![t] = "wait"]
  /\ UNCHANGED <<mainVars, sent, lock, queue, answered, pushed>>

\* fut.get() returns and the response is written.
Respond(t) ==
  /\ wpc[t] = "wait"
  /\ Answered(Current(t))
  /\ wpc' = [wpc EXCEPT ![t] = "idle"]
  /\ UNCHANGED <<loop, mainVars, sent, lock, queue, answered, pushed>>

-----------------------------------------------------------------------------
(* The main thread *)

\* The plugins have run; doEventLoop starts.  Web threads run since setup.
StartLoop ==
  /\ mpc = "setup"
  /\ mpc' = "loop"
  /\ UNCHANGED <<loop, stopped, webVars, lock, queue, answered, pushed>>

\* A timer expires in run().
TimerTick ==
  /\ mpc = "loop" /\ ~ stopped
  /\ ~ loop.flag["Timer"]
  /\ loop' = SetReady(loop, "Timer")
  /\ UNCHANGED <<mainVars, webVars, lock, queue, answered, pushed>>

\* The next completion is another handler's: it runs.
OtherAction ==
  /\ mpc = "loop" /\ ~ stopped
  /\ NextHandler(loop, "Timer")
  /\ loop' = ExecuteAction(loop)
  /\ UNCHANGED <<mainVars, webVars, lock, queue, answered, pushed>>

\* The next completion is the web queue's.
TakeCompletion ==
  /\ mpc = "loop" /\ ~ stopped
  /\ NextHandler(loop, Q)
  /\ loop' = TakeNext(loop)
  /\ mpc' = "lower"
  /\ UNCHANGED <<stopped, webVars, lock, queue, answered, pushed>>

\* isScheduled.store(false), then action().
Lower ==
  /\ mpc = "lower"
  /\ loop' = LowerFlag(loop, Q)
  /\ mpc' = "lock"
  /\ UNCHANGED <<stopped, webVars, lock, queue, answered, pushed>>

MainLock ==
  /\ mpc = "lock"
  /\ lock = "free"
  /\ lock' = "main"
  /\ mpc' = "process"
  /\ UNCHANGED <<loop, stopped, webVars, queue, answered, pushed>>

\* Mutant: the message is looked at and left in the queue.
ProcessFront ==
  /\ mpc = "process"
  /\ queue # <<>>
  /\ Len(answered) < MaxRequests
  /\ answered' = Append(answered, Head(queue))
  /\ mpc' = "unlock"
  /\ UNCHANGED <<loop, stopped, webVars, lock, queue, pushed>>

\* Pop the front, processWebMessage and set_value.
Process ==
  /\ mpc = "process"
  /\ queue # <<>>
  /\ queue' = Tail(queue)
  /\ answered' = Append(answered, Head(queue))
  /\ mpc' = "unlock"
  /\ UNCHANGED <<loop, stopped, webVars, lock, pushed>>

\* A completion that finds the queue empty.
ProcessNothing ==
  /\ mpc = "process"
  /\ queue = <<>>
  /\ mpc' = "unlock"
  /\ UNCHANGED <<loop, stopped, webVars, lock, queue, answered, pushed>>

\* processWebMessage throws: doEventLoop's catch, and the program ends with
\* the lock held and the promise unfulfilled.
ProcessThrows ==
  /\ mpc = "process"
  /\ queue # <<>>
  /\ queue' = Tail(queue)
  /\ mpc' = "exited"
  /\ UNCHANGED <<loop, stopped, webVars, lock, answered, pushed>>

\* Mutant: the flag is lowered after the action, not only before.
MainUnlockLowers ==
  /\ mpc = "unlock"
  /\ lock' = "free"
  /\ loop' = LowerFlag(loop, Q)
  /\ mpc' = "check"
  /\ UNCHANGED <<stopped, webVars, queue, answered, pushed>>

MainUnlock ==
  /\ mpc = "unlock"
  /\ lock' = "free"
  /\ mpc' = "check"
  /\ UNCHANGED <<loop, stopped, webVars, queue, answered, pushed>>

\* Mutant: the action fires only once.
CheckNever ==
  /\ mpc = "check"
  /\ mpc' = "loop"
  /\ UNCHANGED <<loop, stopped, webVars, lock, queue, answered, pushed>>

\* if (!myQueue.empty()) without the lock: while a thread is pushing, the
\* read may see the queue as it was or as it will be.
Check ==
  /\ mpc = "check"
  /\ \E nonEmpty \in {queue # <<>>} \cup {TRUE : t \in {u \in WebThreads : wpc[u] = "push"}} :
       mpc' = IF nonEmpty THEN "raise" ELSE "loop"
  /\ UNCHANGED <<loop, stopped, webVars, lock, queue, answered, pushed>>

\* setReady() by the main thread, in its two steps.
MainRaise ==
  /\ mpc = "raise"
  /\ IF loop.flag[Q]
     THEN mpc' = "loop" /\ UNCHANGED loop
     ELSE mpc' = "post" /\ loop' = RaiseFlag(loop, Q)
  /\ UNCHANGED <<stopped, webVars, lock, queue, answered, pushed>>

MainPost ==
  /\ mpc = "post"
  /\ loop' = Post(loop, Q)
  /\ mpc' = "loop"
  /\ UNCHANGED <<stopped, webVars, lock, queue, answered, pushed>>

\* EventLoop::exit, from a signal or from the end of an archive.
Exit ==
  /\ mpc # "exited" /\ ~ stopped
  /\ stopped' = TRUE
  /\ UNCHANGED <<loop, mpc, webVars, lock, queue, answered, pushed>>

\* run() returns, and the program ends under the detached web threads.
LoopReturns ==
  /\ mpc = "loop" /\ stopped
  /\ mpc' = "exited"
  /\ UNCHANGED <<loop, stopped, webVars, lock, queue, answered, pushed>>

\* The process is gone.
Terminated == mpc = "exited" /\ UNCHANGED vars

-----------------------------------------------------------------------------
Init ==
  /\ loop = IdleLoop
  /\ stopped = FALSE
  /\ mpc = "setup"
  /\ wpc = [t \in WebThreads |-> "idle"] /\ sent = [t \in WebThreads |-> 0]
  /\ lock = "free"
  /\ queue = <<>> /\ answered = <<>> /\ pushed = <<>>

WebStep(t) == WebLock(t) \/ Push(t) \/ WebRaise(t) \/ WebPost(t) \/ Respond(t)

MainStep ==
  \/ StartLoop \/ OtherAction \/ TakeCompletion \/ Lower \/ MainLock
  \/ Process \/ ProcessNothing \/ MainUnlock \/ Check \/ MainRaise \/ MainPost
  \/ LoopReturns

Next ==
  \/ \E t \in WebThreads : Request(t) \/ WebStep(t)
  \/ MainStep \/ TimerTick \/ ProcessThrows \/ Exit \/ Terminated

\* Both kinds of thread keep running; nothing forces requests or timers.
Fairness == WF_vars(MainStep) /\ \A t \in WebThreads : WF_vars(WebStep(t))

SafetySpec == Init /\ [][Next]_vars
Spec == SafetySpec /\ Fairness

-----------------------------------------------------------------------------
(* Properties *)

\* The myQueueLock is held by the one thread that works on myQueue.
LockHeld ==
  /\ \A t \in WebThreads : lock = t <=> wpc[t] = "push"
  /\ lock = "main" => mpc \in {"process", "unlock", "exited"}
  /\ mpc \in {"process", "unlock"} => lock = "main"

\* The type of the state, and who may hold the lock.
TypeOK ==
  /\ loop \in LoopStates
  /\ stopped \in BOOLEAN
  /\ mpc \in MainPc
  /\ wpc \in [WebThreads -> WebPc]
  /\ sent \in [WebThreads -> 0..MaxRequests]
  /\ lock \in WebThreads \cup {"main", "free"}
  /\ queue \in Seq(Messages) /\ answered \in Seq(Messages) /\ pushed \in Seq(Messages)
  /\ LockHeld

\* Some thread is between the two steps of setReady(), or the main thread
\* between taking the completion and lowering the flag.
MainBusy == mpc \in {"lower", "post"}
WebBusy  == {t \in WebThreads : wpc[t] = "post"}
Owing == IF MainBusy \/ WebBusy # {} THEN {Q} ELSE {}

\* However the compare-exchanges and posts of the web threads and of the
\* main thread interleave, a raised isScheduled has exactly one completion,
\* or one thread that is about to post or has just taken it.
TriggerConsistent == TriggerOK(loop, Owing)

\* No request is left behind: while messages wait, the queue is scheduled,
\* or a thread that pushed has yet to call setReady(), or the main thread
\* has yet to take one or to look at the queue again.  This is what the
\* unlocked read in action() and the early lowering of the flag could break.
NoStrandedMessage ==
  queue # <<>> =>
    \/ loop.flag[Q]
    \/ \E t \in WebThreads : wpc[t] \in {"push", "raise"}
    \/ mpc \in {"lock", "process", "unlock", "check", "raise", "exited"}

\* Messages are answered in the order they were pushed, each of them once
\* and none skipped.
AnsweredInOrder == mpc # "exited" => pushed = answered \o queue

\* A web thread that waits on its promise gets its answer, unless the main
\* loop ends first (then it waits until the process is gone).
RequestAnswered ==
  \A t \in WebThreads : wpc[t] = "wait" ~> (wpc[t] # "wait" \/ mpc = "exited")

\* The queue as its users see it.
WQ == INSTANCE WorkQueue
        WITH Items <- Messages, pending <- {queue[i] : i \in 1..Len(queue)},
             served <- answered, open <- (mpc # "exited")

\* The web queue implements WorkQueue: a message is processed at most once,
\* only after it was pushed and never once the loop has ended, one whose
\* processing throws is lost with the loop, and the loop keeps serving.
ImplementsWorkQueue == WQ!Spec
==============================================================================
