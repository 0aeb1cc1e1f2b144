--------------------------- MODULE ThreadGroupProofs ---------------------------
(***************************************************************************)
(* What ThreadGroup guarantees for every set of workers and tasks and      *)
(* every size of its queue: each accepted task is in one place, no task is *)
(* stranded, and the pool is drained when it is gone.                      *)
(***************************************************************************)
EXTENDS ThreadGroup, TLAPS

Elems(s)    == {s[i] : i \in 1..Len(s)}
Distinct(s) == \A i, j \in 1..Len(s) : s[i] = s[j] => i = j

\* What is added to or taken from a sequence.
LEMMA AppendElems ==
  ASSUME NEW S, NEW s \in Seq(S), NEW x \in S
  PROVE  /\ Append(s, x) \in Seq(S) /\ Elems(Append(s, x)) = Elems(s) \cup {x}
         /\ Distinct(s) /\ x \notin Elems(s) => Distinct(Append(s, x))
<1>1. /\ Len(Append(s, x)) = Len(s) + 1 /\ Len(s) \in Nat
      /\ \A i \in 1..Len(s) : Append(s, x)[i] = s[i]
      /\ Append(s, x)[Len(s) + 1] = x
  OBVIOUS
<1>2. Elems(Append(s, x)) = Elems(s) \cup {x}
  <2>1. 1..Len(s) + 1 = 1..Len(s) \cup {Len(s) + 1}
    BY <1>1
  <2>2. QED
    BY <1>1, <2>1 DEF Elems
<1>3. ASSUME Distinct(s), x \notin Elems(s) PROVE Distinct(Append(s, x))
  BY <1>1, <1>3 DEF Distinct, Elems
<1>4. QED
  BY <1>2, <1>3

\* ... and a sequence without its head.
LEMMA TailElems ==
  ASSUME NEW S, NEW s \in Seq(S), s # << >>, Distinct(s)
  PROVE  /\ Head(s) \in S /\ Tail(s) \in Seq(S) /\ Len(Tail(s)) = Len(s) - 1
         /\ Elems(s) = {Head(s)} \cup Elems(Tail(s))
         /\ Head(s) \notin Elems(Tail(s)) /\ Distinct(Tail(s))
<1>1. /\ Len(s) \in Nat \ {0} /\ Len(Tail(s)) = Len(s) - 1 /\ Head(s) = s[1]
      /\ \A i \in 1..Len(s) - 1 : Tail(s)[i] = s[i + 1]
  OBVIOUS
<1>2. Elems(s) = {Head(s)} \cup Elems(Tail(s))
  <2>1. ASSUME NEW i \in 2..Len(s) PROVE i - 1 \in 1..Len(Tail(s)) /\ s[i] = Tail(s)[i - 1]
    BY <1>1
  <2>2. ASSUME NEW i \in 1..Len(Tail(s)) PROVE i + 1 \in 1..Len(s) /\ Tail(s)[i] = s[i + 1]
    BY <1>1
  <2>3. 1 \in 1..Len(s) /\ 1..Len(s) = {1} \cup 2..Len(s)
    BY <1>1
  <2>4. QED
    BY <1>1, <2>1, <2>2, <2>3 DEF Elems
<1>3. Head(s) \notin Elems(Tail(s)) /\ Distinct(Tail(s))
  BY <1>1 DEF Elems, Distinct
<1>4. QED
  BY <1>1, <1>2, <1>3

-----------------------------------------------------------------------------
\* The mutex is held exactly where the code is inside its scope; what a worker
\* found empty stays empty until it sleeps.
Scope == \A w \in Workers :
  /\ wpc[w] \in {"check", "block"} <=> mutex = w
  /\ wpc[w] = "block" => queue = << >>
  /\ wpc[w] = "run" => task[w] \in Tasks

\* The owner's life.
Life ==
  /\ stop <=> opc \in {"stopped", "join", "gone"}
  /\ opc = "gone" => \A w \in Workers : wpc[w] = "exited"

GroupInv == TypeOK /\ Scope /\ Life /\ EachTaskOnce /\ NoStrandedTask /\ DrainedWhenGone

\* The initial states.
LEMMA GroupInit == Init => GroupInv
<1> SUFFICES ASSUME Init PROVE GroupInv
  OBVIOUS
<1>1. TypeOK
  <2>1. << >> \in Seq(Tasks) /\ Len(<< >>) <= MaxQueueSize
    BY ThreadGroupAssumption
  <2>2. QED
    BY <2>1 DEF Init, TypeOK, WorkerPc, OwnerPc
<1>2. Scope /\ Life /\ NoStrandedTask /\ DrainedWhenGone
  BY ThreadGroupAssumption DEF Init, Scope, Life, NoStrandedTask, DrainedWhenGone
<1>3. EachTaskOnce
  <2>1. Busy = {} /\ Queued = {} /\ Finished = {}
    BY DEF Init, Busy, Queued, Finished
  <2>2. QED
    BY <2>1 DEF Init, EachTaskOnce
<1>4. QED
  BY <1>1, <1>2, <1>3 DEF GroupInv

\* What EachTaskOnce says, by the elements of the two sequences.
LEMMA OncePlaces ==
  EachTaskOnce <=>
    /\ accepted = Elems(queue) \cup {task[w] : w \in Busy} \cup Elems(finished)
    /\ Elems(queue) \cap Elems(finished) = {}
    /\ \A w \in Busy : task[w] \notin Elems(queue) \cup Elems(finished)
    /\ \A v, w \in Busy : task[v] = task[w] => v = w
    /\ Distinct(queue) /\ Distinct(finished)
  BY DEF EachTaskOnce, Queued, Finished, Elems, Distinct

\* A step that moves no task.
LEMMA TasksQuiet ==
  ASSUME EachTaskOnce, UNCHANGED <<task, queue, accepted, finished>>, Busy' = Busy
  PROVE  EachTaskOnce'
<1>1. Queued' = Queued /\ Finished' = Finished
  BY DEF Queued, Finished
<1>2. {task[w] : w \in Busy}' = {task[w] : w \in Busy}
  OBVIOUS
<1>3. accepted' = Queued' \cup {task[w] : w \in Busy}' \cup Finished'
  BY <1>1, <1>2, Zenon DEF EachTaskOnce
<1>4. /\ Queued' \cap Finished' = {}
      /\ \A w \in Busy' : task'[w] \notin Queued' \cup Finished'
  BY <1>1 DEF EachTaskOnce
<1>5. \A v, w \in Busy' : task'[v] = task'[w] => v = w
  BY DEF EachTaskOnce
<1>6. /\ \A i, j \in 1..Len(queue') : queue'[i] = queue'[j] => i = j
      /\ \A i, j \in 1..Len(finished') : finished'[i] = finished'[j] => i = j
  BY DEF EachTaskOnce
<1>7. QED
  BY <1>3, <1>4, <1>5, <1>6, Zenon DEF EachTaskOnce

\* Every step.
LEMMA GroupNext == GroupInv /\ [Next]_vars => GroupInv'
<1> SUFFICES ASSUME GroupInv, [Next]_vars PROVE GroupInv'
  OBVIOUS
<1>t. /\ wpc \in [Workers -> WorkerPc] /\ task \in [Workers -> Tasks \cup {"none"}]
      /\ queue \in Seq(Tasks) /\ finished \in Seq(Tasks)
  BY DEF GroupInv, TypeOK
<1>a. "free" \notin Workers /\ "none" \notin Tasks /\ MaxQueueSize \in Nat /\ Workers # {}
  BY ThreadGroupAssumption
<1>1. ASSUME NEW w \in Workers, Lock(w) PROVE GroupInv'
  <2>1. Busy' = Busy
    BY <1>1, <1>t DEF Lock, Busy
  <2>2. EachTaskOnce'
    BY <1>1, <2>1, TasksQuiet DEF Lock, GroupInv, ownerVars
  <2>3. TypeOK' /\ Scope' /\ Life'
    BY <1>1, <1>t, <1>a DEF Lock, GroupInv, TypeOK, Scope, Life, WorkerPc, ownerVars
  <2>4. NoStrandedTask' /\ DrainedWhenGone'
    BY <1>1, <1>t DEF Lock, GroupInv, NoStrandedTask, DrainedWhenGone, Finished, ownerVars
  <2>5. QED
    BY <2>2, <2>3, <2>4 DEF GroupInv
<1>2. ASSUME NEW w \in Workers, Take(w) PROVE GroupInv'
  <2> DEFINE t == Head(queue)
  <2>1. /\ wpc[w] = "check" /\ queue # << >> /\ queue' = Tail(queue)
        /\ task' = [task EXCEPT ![w] = t] /\ mutex' = "free"
        /\ wpc' = [wpc EXCEPT ![w] = "run"]
        /\ UNCHANGED <<opc, accepted, stop, finished>>
    BY <1>2 DEF Take, ownerVars
  <2>2. Distinct(queue)
    BY OncePlaces DEF GroupInv
  <2>3. /\ t \in Tasks /\ Tail(queue) \in Seq(Tasks) /\ Len(Tail(queue)) = Len(queue) - 1
        /\ Elems(queue) = {t} \cup Elems(queue') /\ t \notin Elems(queue') /\ Distinct(queue')
    BY <1>t, <2>1, <2>2, TailElems
  <2>h. Len(queue) \in Nat
    BY <1>t
  <2> HIDE DEF t
  <2>4. /\ Busy' = Busy \cup {w} /\ w \notin Busy /\ task'[w] = t
        /\ \A v \in Busy : task'[v] = task[v]
    BY <1>t, <2>1 DEF Busy
  <2>5. EachTaskOnce'
    <3>1. {task'[v] : v \in Busy'} = {task[v] : v \in Busy} \cup {t}
      BY <2>4
    <3>2. /\ accepted' = Elems(queue') \cup {task'[v] : v \in Busy'} \cup Elems(finished')
          /\ Elems(queue') \cap Elems(finished') = {}
      BY <2>1, <2>3, <3>1, OncePlaces DEF GroupInv
    <3>3. /\ \A v \in Busy' : task'[v] \notin Elems(queue') \cup Elems(finished')
          /\ \A u, v \in Busy' : task'[u] = task'[v] => u = v
      BY <2>1, <2>3, <2>4, OncePlaces DEF GroupInv
    <3>4. Distinct(queue') /\ Distinct(finished')
      BY <2>1, <2>3, OncePlaces DEF GroupInv
    <3>5. QED
      BY <3>2, <3>3, <3>4 DEF EachTaskOnce, Elems, Distinct, Queued, Finished
  <2>6. TypeOK'
    BY <1>t, <1>a, <2>1, <2>3, <2>h DEF GroupInv, TypeOK, WorkerPc
  <2>7. Scope' /\ Life'
    BY <1>t, <1>a, <2>1, <2>3 DEF GroupInv, Scope, Life
  <2>8. NoStrandedTask' /\ DrainedWhenGone'
    BY <1>t, <2>1 DEF GroupInv, Life, NoStrandedTask, DrainedWhenGone
  <2>9. QED
    BY <2>5, <2>6, <2>7, <2>8 DEF GroupInv
<1>3. ASSUME NEW w \in Workers, Return(w) PROVE GroupInv'
  <2>1. Busy' = Busy
    BY <1>3, <1>t DEF Return, Busy
  <2>2. EachTaskOnce'
    BY <1>3, <2>1, TasksQuiet DEF Return, GroupInv, ownerVars
  <2>3. TypeOK' /\ Scope' /\ Life'
    BY <1>3, <1>t, <1>a DEF Return, GroupInv, TypeOK, Scope, Life, WorkerPc, ownerVars
  <2>4. NoStrandedTask' /\ DrainedWhenGone'
    BY <1>3, <1>t DEF Return, GroupInv, NoStrandedTask, DrainedWhenGone, Finished, ownerVars
  <2>5. QED
    BY <2>2, <2>3, <2>4 DEF GroupInv
<1>4. ASSUME NEW w \in Workers, FindNothing(w) PROVE GroupInv'
  <2>1. Busy' = Busy
    BY <1>4, <1>t DEF FindNothing, Busy
  <2>2. EachTaskOnce'
    BY <1>4, <2>1, TasksQuiet DEF FindNothing, GroupInv, ownerVars
  <2>3. TypeOK' /\ Scope' /\ Life'
    BY <1>4, <1>t, <1>a DEF FindNothing, GroupInv, TypeOK, Scope, Life, WorkerPc, ownerVars
  <2>4. NoStrandedTask' /\ DrainedWhenGone'
    BY <1>4, <1>t DEF FindNothing, GroupInv, NoStrandedTask, DrainedWhenGone, Finished, ownerVars
  <2>5. QED
    BY <2>2, <2>3, <2>4 DEF GroupInv
<1>5. ASSUME NEW w \in Workers, Block(w) PROVE GroupInv'
  <2>1. Busy' = Busy
    BY <1>5, <1>t DEF Block, Busy
  <2>2. EachTaskOnce'
    BY <1>5, <2>1, TasksQuiet DEF Block, GroupInv, ownerVars
  <2>3. TypeOK' /\ Scope' /\ Life'
    BY <1>5, <1>t, <1>a DEF Block, GroupInv, TypeOK, Scope, Life, WorkerPc, ownerVars
  <2>4. NoStrandedTask' /\ DrainedWhenGone'
    BY <1>5, <1>t DEF Block, GroupInv, Scope, NoStrandedTask, DrainedWhenGone, Finished, ownerVars
  <2>5. QED
    BY <2>2, <2>3, <2>4 DEF GroupInv
<1>6. ASSUME NEW w \in Workers, SpuriousWakeup(w) PROVE GroupInv'
  <2>1. Busy' = Busy
    BY <1>6, <1>t DEF SpuriousWakeup, Busy
  <2>2. EachTaskOnce'
    BY <1>6, <2>1, TasksQuiet DEF SpuriousWakeup, GroupInv, ownerVars
  <2>3. TypeOK' /\ Scope' /\ Life'
    BY <1>6, <1>t, <1>a DEF SpuriousWakeup, GroupInv, TypeOK, Scope, Life, WorkerPc, ownerVars
  <2>4. NoStrandedTask' /\ DrainedWhenGone'
    BY <1>6, <1>t DEF SpuriousWakeup, GroupInv, NoStrandedTask, DrainedWhenGone, Finished, ownerVars
  <2>5. QED
    BY <2>2, <2>3, <2>4 DEF GroupInv
<1>7. ASSUME NEW w \in Workers, Execute(w) PROVE GroupInv'
  <2> DEFINE t == task[w]
  <2>1. /\ wpc[w] = "run" /\ finished' = Append(finished, t)
        /\ task' = [task EXCEPT ![w] = "none"] /\ wpc' = [wpc EXCEPT ![w] = "lock"]
        /\ UNCHANGED <<opc, accepted, mutex, queue, stop>>
    BY <1>7 DEF Execute, ownerVars
  <2>2. t \in Tasks /\ w \in Busy
    BY <2>1 DEF GroupInv, Scope, Busy
  <2>3. t \notin Elems(queue) \cup Elems(finished)
    BY <2>2, OncePlaces DEF GroupInv
  <2>4. /\ finished' \in Seq(Tasks) /\ Elems(finished') = Elems(finished) \cup {t}
        /\ Distinct(finished')
    BY <1>t, <2>1, <2>2, <2>3, AppendElems, OncePlaces DEF GroupInv
  <2>5. /\ Busy' = Busy \ {w} /\ \A v \in Busy' : task'[v] = task[v]
    BY <1>t, <2>1 DEF Busy
  <2> HIDE DEF t
  <2>6. EachTaskOnce'
    <3>1. {task[v] : v \in Busy} = {task'[v] : v \in Busy'} \cup {t}
      BY <2>2, <2>5 DEF t
    <3>2. \A v \in Busy' : task'[v] # t
      BY <2>2, <2>5, OncePlaces DEF t, GroupInv
    <3>3. /\ accepted' = Elems(queue') \cup {task'[v] : v \in Busy'} \cup Elems(finished')
          /\ Elems(queue') \cap Elems(finished') = {}
      <4>1. /\ accepted = Elems(queue) \cup {task[v] : v \in Busy} \cup Elems(finished)
            /\ Elems(queue) \cap Elems(finished) = {}
        BY OncePlaces DEF GroupInv
      <4>2. accepted' = accepted /\ Elems(queue') = Elems(queue)
        BY <2>1
      <4>3. QED
        BY <2>3, <2>4, <3>1, <4>1, <4>2
    <3>4. /\ \A v \in Busy' : task'[v] \notin Elems(queue') \cup Elems(finished')
          /\ \A u, v \in Busy' : task'[u] = task'[v] => u = v
      BY <2>1, <2>4, <2>5, <3>2, OncePlaces DEF GroupInv
    <3>5. Distinct(queue') /\ Distinct(finished')
      BY <2>1, <2>4, OncePlaces DEF GroupInv
    <3>6. QED
      BY <3>3, <3>4, <3>5 DEF EachTaskOnce, Elems, Distinct, Queued, Finished
  <2>7. TypeOK'
    BY <1>t, <2>1, <2>4 DEF GroupInv, TypeOK, WorkerPc
  <2>8. Scope' /\ Life' /\ opc # "gone"
    BY <1>t, <2>1 DEF GroupInv, Scope, Life
  <2>9. NoStrandedTask' /\ DrainedWhenGone'
    BY <1>t, <2>1, <2>8 DEF GroupInv, NoStrandedTask, DrainedWhenGone
  <2>10. QED
    BY <2>6, <2>7, <2>8, <2>9 DEF GroupInv
<1>8. ASSUME NEW t \in Tasks, Enqueue(t) PROVE GroupInv'
  <2>1. /\ opc = "ready" /\ t \notin accepted /\ mutex = "free" /\ Len(queue) < MaxQueueSize
        /\ queue' = Append(queue, t) /\ accepted' = accepted \cup {t} /\ opc' = "notify"
        /\ UNCHANGED <<wpc, task, mutex, stop, finished>>
    BY <1>8 DEF Enqueue
  <2>2. t \notin Elems(queue)
    BY <2>1, OncePlaces DEF GroupInv
  <2>3. /\ queue' \in Seq(Tasks) /\ Elems(queue') = Elems(queue) \cup {t} /\ Distinct(queue')
    BY <1>t, <2>1, <2>2, AppendElems, OncePlaces DEF GroupInv
  <2>4. Busy' = Busy
    BY <2>1 DEF Busy
  <2>5. EachTaskOnce'
    <3>1. /\ Queued' = Queued \cup {t} /\ Finished' = Finished
          /\ {task[w] : w \in Busy}' = {task[w] : w \in Busy}
      BY <2>1, <2>3, <2>4 DEF Queued, Finished, Elems
    <3>2. t \notin Queued /\ t \notin Finished /\ \A w \in Busy : task[w] # t
      BY <2>1 DEF GroupInv, EachTaskOnce
    <3>3. accepted' = Queued' \cup {task[w] : w \in Busy}' \cup Finished'
      BY <2>1, <3>1 DEF GroupInv, EachTaskOnce
    <3>4. /\ Queued' \cap Finished' = {}
          /\ \A w \in Busy' : task'[w] \notin Queued' \cup Finished'
      BY <2>1, <2>4, <3>1, <3>2 DEF GroupInv, EachTaskOnce
    <3>5. /\ \A v, w \in Busy' : task'[v] = task'[w] => v = w
          /\ \A i, j \in 1..Len(finished') : finished'[i] = finished'[j] => i = j
      BY <2>1, <2>4 DEF GroupInv, EachTaskOnce
    <3>6. \A i, j \in 1..Len(queue') : queue'[i] = queue'[j] => i = j
      BY <2>3 DEF Distinct
    <3>7. QED
      BY <3>3, <3>4, <3>5, <3>6, Zenon DEF EachTaskOnce
  <2>6. Len(queue') <= MaxQueueSize
    BY <1>t, <1>a, <2>1
  <2>7. TypeOK'
    BY <2>1, <2>3, <2>6 DEF GroupInv, TypeOK, OwnerPc
  <2>8. Scope'
    BY <1>a, <2>1 DEF GroupInv, Scope
  <2>9. Life' /\ NoStrandedTask' /\ DrainedWhenGone'
    BY <2>1 DEF GroupInv, Life, NoStrandedTask, DrainedWhenGone
  <2>10. QED
    BY <2>5, <2>7, <2>8, <2>9 DEF GroupInv
<1>9. CASE NotifyOne
  <2>1. /\ opc = "notify" /\ opc' = "ready"
        /\ UNCHANGED <<task, mutex, queue, stop, accepted, finished>>
    BY <1>9 DEF NotifyOne
  <2>2. CASE \E w \in Asleep : wpc' = [wpc EXCEPT ![w] = "lock"]
    <3>1. PICK w \in Workers : wpc[w] = "asleep" /\ wpc' = [wpc EXCEPT ![w] = "lock"]
      BY <2>2 DEF Asleep
    <3>2. Busy' = Busy
      BY <1>t, <3>1 DEF Busy
    <3>3. EachTaskOnce'
      BY <2>1, <3>2, TasksQuiet DEF GroupInv
    <3>4. TypeOK' /\ Scope' /\ Life'
      BY <1>t, <2>1, <3>1 DEF GroupInv, TypeOK, Scope, Life, WorkerPc, OwnerPc
    <3>5. NoStrandedTask' /\ DrainedWhenGone'
      BY <1>t, <2>1, <3>1 DEF GroupInv, NoStrandedTask, DrainedWhenGone
    <3>6. QED
      BY <3>3, <3>4, <3>5 DEF GroupInv
  <2>3. CASE Asleep = {} /\ UNCHANGED wpc
    <3>1. EachTaskOnce'
      BY <2>1, <2>3, TasksQuiet DEF GroupInv, Busy
    <3>2. TypeOK' /\ Scope' /\ Life'
      BY <2>1, <2>3 DEF GroupInv, TypeOK, Scope, Life, OwnerPc
    <3>3. NoStrandedTask'
      <4>1. PICK w \in Workers : TRUE
        BY <1>a
      <4>2. wpc[w] # "exited" /\ wpc[w] # "asleep"
        BY <2>1, <2>3 DEF GroupInv, DrainedWhenGone, Life, Asleep
      <4>3. wpc[w] = "block" => queue = << >>
        BY DEF GroupInv, Scope
      <4>4. wpc[w] \in WorkerPc
        BY <1>t
      <4>5. QED
        BY <2>1, <2>3, <4>2, <4>3, <4>4 DEF NoStrandedTask, WorkerPc
    <3>4. DrainedWhenGone'
      BY <2>1, <2>3 DEF GroupInv, DrainedWhenGone
    <3>5. QED
      BY <3>1, <3>2, <3>3, <3>4 DEF GroupInv
  <2>4. QED
    BY <1>9, <2>2, <2>3 DEF NotifyOne
<1>10. CASE NotifyAll
  <2>1. /\ opc = "stopped" /\ opc' = "join"
        /\ wpc' = [w \in Workers |-> IF wpc[w] = "asleep" THEN "lock" ELSE wpc[w]]
        /\ UNCHANGED <<task, mutex, queue, stop, accepted, finished>>
    BY <1>10 DEF NotifyAll
  <2>2. EachTaskOnce'
    <3>1. Busy' = Busy
      BY <2>1 DEF Busy
    <3>2. QED
      BY <2>1, <3>1, TasksQuiet DEF GroupInv
  <2>3. TypeOK' /\ Scope' /\ Life'
    BY <1>t, <2>1 DEF GroupInv, TypeOK, Scope, Life, WorkerPc, OwnerPc
  <2>4. NoStrandedTask' /\ DrainedWhenGone'
    BY <1>t, <2>1 DEF GroupInv, NoStrandedTask, DrainedWhenGone
  <2>5. QED
    BY <2>2, <2>3, <2>4 DEF GroupInv
<1>11. CASE JoinAll
  <2>1. /\ opc = "join" /\ opc' = "gone" /\ \A w \in Workers : wpc[w] = "exited"
        /\ UNCHANGED <<wpc, task, mutex, queue, stop, accepted, finished>>
    BY <1>11 DEF JoinAll
  <2>2. Busy = {} /\ queue = << >>
    BY <1>a, <2>1 DEF Busy, GroupInv, DrainedWhenGone
  <2>3. accepted = Finished
    BY <2>2 DEF GroupInv, EachTaskOnce, Queued
  <2>4. EachTaskOnce'
    BY <2>1, TasksQuiet DEF GroupInv, Busy
  <2>5. TypeOK' /\ Scope' /\ Life'
    BY <2>1 DEF GroupInv, TypeOK, Scope, Life, OwnerPc
  <2>6. NoStrandedTask' /\ DrainedWhenGone'
    BY <2>1, <2>2, <2>3 DEF GroupInv, NoStrandedTask, DrainedWhenGone, Finished
  <2>7. QED
    BY <2>4, <2>5, <2>6 DEF GroupInv
<1>12. CASE SetStop
  <2>1. /\ opc = "ready" /\ stop' = TRUE /\ opc' = "stopped"
        /\ UNCHANGED <<wpc, task, mutex, queue, accepted, finished>>
    BY <1>12 DEF SetStop
  <2>2. EachTaskOnce'
    BY <2>1, TasksQuiet DEF GroupInv, Busy
  <2>3. TypeOK' /\ Scope' /\ Life'
    BY <2>1 DEF GroupInv, TypeOK, Scope, Life, OwnerPc
  <2>4. NoStrandedTask' /\ DrainedWhenGone'
    BY <2>1 DEF GroupInv, NoStrandedTask, DrainedWhenGone
  <2>5. QED
    BY <2>2, <2>3, <2>4 DEF GroupInv
<1>13. CASE UNCHANGED vars
  BY <1>13 DEF vars, GroupInv, TypeOK, Scope, Life, EachTaskOnce, NoStrandedTask,
     DrainedWhenGone, Queued, Finished, Busy
<1>14. QED
  BY <1>1, <1>2, <1>3, <1>4, <1>5, <1>6, <1>7, <1>8, <1>9, <1>10, <1>11, <1>12, <1>13
  DEF Next, WorkerStep, OwnerStep, Terminated

\* The invariant holds.
LEMMA GroupHolds == SafetySpec => []GroupInv
  BY GroupInit, GroupNext, PTL DEF SafetySpec

\* Type correctness of the pool; its queue keeps to its size.
THEOREM GroupTypeCorrect == SafetySpec => []TypeOK
  BY GroupHolds, PTL DEF GroupInv

\* Each accepted task is queued, executed by one worker, or finished, once.
THEOREM TaskInOnePlace == SafetySpec => []EachTaskOnce
  BY GroupHolds, PTL DEF GroupInv

\* notify_one() after the mutex is released strands no task.
THEOREM NoTaskStranded == SafetySpec => []NoStrandedTask
  BY GroupHolds, PTL DEF GroupInv

\* A worker ends with the queue empty, the pool with every task executed.
THEOREM PoolDrained == SafetySpec => []DrainedWhenGone
  BY GroupHolds, PTL DEF GroupInv

-----------------------------------------------------------------------------
\* A step of the pool is a step of the abstract queue or a stutter.
LEMMA PoolStep == GroupInv /\ [Next]_vars => [WQ!Next]_(WQ!wqVars)
<1> SUFFICES ASSUME GroupInv, [Next]_vars PROVE [WQ!Next]_(WQ!wqVars)
  OBVIOUS
<1>p. EachTaskOnce /\ finished \in Seq(Tasks)
  BY DEF GroupInv, TypeOK
<1>0. ASSUME UNCHANGED <<accepted, finished>>, opc' # "gone" <=> opc # "gone"
      PROVE  UNCHANGED WQ!wqVars
  BY <1>0 DEF WQ!wqVars, Finished
<1>1. ASSUME NEW w \in Workers, Lock(w) \/ Take(w) \/ Return(w) \/ FindNothing(w) \/ Block(w)
                                  \/ SpuriousWakeup(w)
      PROVE  UNCHANGED WQ!wqVars
  BY <1>0, <1>1 DEF Lock, Take, Return, FindNothing, Block, SpuriousWakeup, ownerVars
<1>2. ASSUME NEW w \in Workers, Execute(w) PROVE WQ!Next
  <2> DEFINE t == task[w]
  <2>1. wpc[w] = "run" /\ finished' = Append(finished, t) /\ UNCHANGED <<opc, accepted>>
    BY <1>2 DEF Execute, ownerVars
  <2>2. t \in Tasks /\ t \notin Elems(finished) /\ t \in accepted /\ opc # "gone"
    BY <2>1, OncePlaces DEF GroupInv, Scope, Life, Busy
  <2>3. Elems(finished') = Elems(finished) \cup {t}
    BY <1>p, <2>1, <2>2, AppendElems
  <2> HIDE DEF t
  <2>4. /\ t \in accepted \ Finished
        /\ accepted' \ Finished' = (accepted \ Finished) \ {t}
    BY <2>1, <2>2, <2>3 DEF Elems, Finished
  <2>5. WQ!Serve(t)
    BY <2>1, <2>2, <2>4 DEF WQ!Serve
  <2>6. QED
    BY <2>4, <2>5 DEF WQ!Next
<1>3. ASSUME NEW t \in Tasks, Enqueue(t) PROVE WQ!Next
  <2>1. /\ t \notin accepted /\ accepted' = accepted \cup {t} /\ UNCHANGED finished
        /\ opc # "gone" /\ opc' # "gone"
    BY <1>3 DEF Enqueue
  <2>2. t \notin Finished
    BY <1>p, <2>1 DEF EachTaskOnce
  <2>3. WQ!Submit({t})
    BY <2>1, <2>2 DEF WQ!Submit, Finished
  <2>4. QED
    BY <2>3 DEF WQ!Next
<1>4. CASE NotifyOne \/ NotifyAll \/ SetStop \/ UNCHANGED vars
  <2>1. UNCHANGED <<accepted, finished>> /\ (opc' # "gone" <=> opc # "gone")
    BY <1>4 DEF NotifyOne, NotifyAll, SetStop, vars
  <2>2. QED
    BY <1>0, <2>1
<1>5. CASE JoinAll
  <2>1. UNCHANGED <<accepted, finished>> /\ opc # "gone" /\ opc' = "gone"
    BY <1>5 DEF JoinAll
  <2>2. WQ!Close
    BY <2>1 DEF WQ!Close, Finished
  <2>3. QED
    BY <2>2 DEF WQ!Next
<1>6. QED
  BY <1>1, <1>2, <1>3, <1>4, <1>5 DEF Next, WorkerStep, OwnerStep, Terminated

\* The safety of the abstract queue: what the owner sees is a WorkQueue.
THEOREM PoolRefinesWorkQueue == SafetySpec => WQ!Init /\ [][WQ!Next]_(WQ!wqVars)
<1>1. Init => WQ!Init
  BY DEF Init, WQ!Init, Finished
<1>2. QED
  BY <1>1, PoolStep, GroupHolds, PTL DEF SafetySpec
==============================================================================
