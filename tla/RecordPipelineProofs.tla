------------------------- MODULE RecordPipelineProofs -------------------------
(***************************************************************************)
(* What RecordPipeline guarantees for every set of records, number of      *)
(* inputs and heartbeat period: the record queue is never left with        *)
(* records and no completion, records are handled once and in an archive   *)
(* in order, and the queue implements WorkQueue.  The first facts are      *)
(* proved together: the queue can be scheduled only if a raised flag means *)
(* a completion, and the trigger's functions keep their type only on a     *)
(* consistent trigger.                                                     *)
(***************************************************************************)
EXTENDS RecordPipeline, SequenceTheorems, TLAPS

-----------------------------------------------------------------------------
(* The trigger.  All that uses it here is the main thread, so nothing is *)
(* ever owed between two steps.                                          *)

\* Before the plugins run nothing is posted and every flag is down.
LEMMA IdleLoopOK == IdleLoop \in LoopStates /\ TriggerOK(IdleLoop, {})
  BY DEF IdleLoop, LoopStates, TriggerOK, OneCompletionEach, FlagMatchesPosted, IsPosted

\* setReady(): afterwards the handler is scheduled, and no other handler
\* stopped being so.
LEMMA SetReadyOK ==
  ASSUME NEW l \in LoopStates, NEW h \in Handlers, TriggerOK(l, {})
  PROVE  /\ SetReady(l, h) \in LoopStates
         /\ TriggerOK(SetReady(l, h), {})
         /\ SetReady(l, h).flag[h]
         /\ \A k \in Handlers : l.flag[k] => SetReady(l, h).flag[k]
         /\ \A k \in Handlers : IsPosted(l, k) => IsPosted(SetReady(l, h), k)
<1>1. CASE l.flag[h]
  BY <1>1 DEF SetReady, LoopStates
<1>2. CASE ~ l.flag[h]
  <2>1. PICK p : p = SetReady(l, h)
    OBVIOUS
  <2>2. /\ l.posted \in Seq(Handlers) /\ l.flag \in [Handlers -> BOOLEAN]
        /\ p.posted = Append(l.posted, h) /\ p.flag = [l.flag EXCEPT ![h] = TRUE]
        /\ p \in LoopStates
    BY <1>2, <2>1 DEF SetReady, RaiseFlag, Post, LoopStates
  <2>3. /\ Len(p.posted) = Len(l.posted) + 1 /\ Len(l.posted) \in Nat
        /\ p.posted[Len(l.posted) + 1] = h
        /\ \A i \in 1..Len(l.posted) : p.posted[i] = l.posted[i]
    BY <2>2
  <2>4. \A k \in Handlers : IsPosted(p, k) <=> IsPosted(l, k) \/ k = h
    <3>1. ASSUME NEW k \in Handlers, IsPosted(p, k), k # h PROVE IsPosted(l, k)
      <4>1. PICK i \in 1..Len(p.posted) : p.posted[i] = k
        BY <3>1 DEF IsPosted
      <4>2. i \in 1..Len(l.posted)
        BY <2>3, <3>1, <4>1
      <4>3. QED
        BY <2>3, <4>1, <4>2 DEF IsPosted
    <3>2. ASSUME NEW k \in Handlers, IsPosted(l, k) PROVE IsPosted(p, k)
      BY <2>3, <3>2 DEF IsPosted
    <3>3. IsPosted(p, h)
      BY <2>3 DEF IsPosted
    <3>4. QED
      BY <3>1, <3>2, <3>3
  <2>5. OneCompletionEach(p)
    <3>1. \A i \in 1..Len(l.posted) : l.posted[i] # h
      BY <1>2 DEF TriggerOK, FlagMatchesPosted, IsPosted
    <3>2. \A i, j \in 1..Len(l.posted) : l.posted[i] = l.posted[j] => i = j
      BY DEF TriggerOK, OneCompletionEach
    <3>3. ASSUME NEW i \in 1..Len(p.posted), NEW j \in 1..Len(p.posted), p.posted[i] = p.posted[j]
          PROVE  i = j
      <4>1. ASSUME NEW k \in 1..Len(p.posted), k \notin 1..Len(l.posted) PROVE k = Len(l.posted) + 1
        BY <2>3, <4>1
      <4>2. CASE i \in 1..Len(l.posted) /\ j \in 1..Len(l.posted)
        BY <2>3, <3>2, <3>3, <4>2
      <4>3. CASE ~ (i \in 1..Len(l.posted) /\ j \in 1..Len(l.posted))
        BY <2>3, <3>1, <3>3, <4>1, <4>3
      <4>4. QED
        BY <4>2, <4>3
    <3>4. QED
      BY <3>3 DEF OneCompletionEach
  <2>6. FlagMatchesPosted(p, {})
    BY <2>2, <2>4 DEF TriggerOK, FlagMatchesPosted
  <2>7. QED
    BY <2>1, <2>2, <2>4, <2>5, <2>6 DEF TriggerOK
<1>3. QED
  BY <1>1, <1>2

\* executeAction() lowers exactly the flag of the handler that runs.
LEMMA ExecuteActionOK ==
  ASSUME NEW l \in LoopStates, NEW h \in Handlers, TriggerOK(l, {}), NextHandler(l, h)
  PROVE  /\ ExecuteAction(l) \in LoopStates
         /\ TriggerOK(ExecuteAction(l), {})
         /\ \A k \in Handlers \ {h} : ExecuteAction(l).flag[k] = l.flag[k]
         /\ ~ ExecuteAction(l).flag[h]
<1>1. PICK e : e = ExecuteAction(l)
  OBVIOUS
<1>2. /\ l.posted \in Seq(Handlers) /\ l.posted # <<>> /\ Head(l.posted) = h
      /\ l.flag \in [Handlers -> BOOLEAN]
  BY DEF LoopStates, NextHandler
<1>3. e.posted = Tail(l.posted) /\ e.flag = [l.flag EXCEPT ![h] = FALSE]
  BY <1>1, <1>2 DEF ExecuteAction, TakeNext, LowerFlag
<1>4. e \in LoopStates
  BY <1>1, <1>2 DEF ExecuteAction, TakeNext, LowerFlag, LoopStates
<1>5. /\ Len(e.posted) = Len(l.posted) - 1 /\ Len(l.posted) \in Nat /\ l.posted[1] = h
      /\ 1 \in 1..Len(l.posted)
      /\ \A i \in 1..Len(e.posted) : i + 1 \in 1..Len(l.posted) /\ e.posted[i] = l.posted[i + 1]
  BY <1>2, <1>3
<1>6. OneCompletionEach(e)
  <2>1. ASSUME NEW i \in 1..Len(e.posted), NEW j \in 1..Len(e.posted), e.posted[i] = e.posted[j]
        PROVE  i = j
    <3>1. i + 1 = j + 1
      BY <1>5, <2>1 DEF TriggerOK, OneCompletionEach
    <3>2. QED
      BY <3>1
  <2>2. QED
    BY <2>1 DEF OneCompletionEach
<1>7. ~ IsPosted(e, h)
  <2>1. ASSUME NEW i \in 1..Len(e.posted), e.posted[i] = h PROVE FALSE
    <3>1. i + 1 = 1
      BY <1>5, <2>1 DEF TriggerOK, OneCompletionEach
    <3>2. QED
      BY <3>1
  <2>2. QED
    BY <2>1 DEF IsPosted
<1>8. ASSUME NEW k \in Handlers \ {h} PROVE IsPosted(e, k) <=> IsPosted(l, k)
  <2>1. ASSUME NEW i \in 1..Len(l.posted), l.posted[i] = k PROVE IsPosted(e, k)
    <3>1. i - 1 \in 1..Len(e.posted) /\ i - 1 + 1 = i
      BY <1>5, <2>1
    <3>2. e.posted[i - 1] = k
      BY <1>5, <2>1, <3>1
    <3>3. QED
      BY <3>1, <3>2 DEF IsPosted
  <2>2. ASSUME NEW i \in 1..Len(e.posted), e.posted[i] = k PROVE IsPosted(l, k)
    BY <1>5, <2>2 DEF IsPosted
  <2>3. QED
    BY <2>1, <2>2 DEF IsPosted
<1>9. FlagMatchesPosted(e, {})
  BY <1>2, <1>3, <1>7, <1>8 DEF TriggerOK, FlagMatchesPosted
<1>10. QED
  BY <1>1, <1>2, <1>3, <1>4, <1>6, <1>9 DEF TriggerOK

-----------------------------------------------------------------------------
(* The pipeline *)

SafeInv == TypeOK /\ TriggerConsistent /\ QueueScheduled

Done  == {handled[i] : i \in 1..Len(handled)}
Event == {events[i] : i \in 1..Len(events)}

\* Where a record can be: an input is read once, and what appears at a
\* watched input afterwards becomes an event once.
OnceInv ==
  /\ accepted \subseteq appeared /\ Event \subseteq appeared
  /\ Event \cap accepted = {}
  /\ \A i, j \in 1..Len(events) : events[i] = events[j] => i = j
  /\ \A i \in watched : i < tried
  /\ \A r \in accepted : r.input < tried
  /\ \A r \in Event : r.input \in watched
  /\ queue \cup Done \subseteq accepted
  /\ phase = "plugins" => stop \in {"no", "signal"}

\* An archive run reads everything before it handles anything, and what is
\* left in the queue does not come before what was handled.
SortInv ==
  opt.mode = "old" =>
    /\ watched = {} /\ events = <<>>
    /\ phase \in {"plugins", "ready"} => handled = <<>>
    /\ \A r \in queue, i \in 1..Len(handled) : ~ Before(r, handled[i])

\* The next instant of the cron expression is a time.
LEMMA CronNextType == \A t \in Nat : CronNext(t) \in Nat
<1> SUFFICES ASSUME NEW t \in Nat PROVE CronNext(t) \in Nat
  OBVIOUS
<1>1. Period \in Nat /\ Period > 0
  BY PipelineAssumption
<1>2. t \div Period \in Nat
  BY <1>1
<1>3. QED
  BY <1>1, <1>2 DEF CronNext

\* A heartbeat check leaves the heartbeat's state well typed.
LEMMA CheckForPulseType ==
  ASSUME TypeOK, NEW now \in Nat, NEW n \in Nat, CheckForPulse(now, n)
  PROVE  /\ pulse' \in [first : BOOLEAN, last : Nat]
         /\ beat' \in [now : Nat, pulse : Nat]
         /\ covered' \in Nat
<1>1. CronNext(now) \in Nat
  BY CronNextType
<1>2. /\ pulse \in [first : BOOLEAN, last : Nat]
      /\ beat \in [now : Nat, pulse : Nat] /\ covered \in Nat
  BY DEF TypeOK
<1>3. CASE ~ opt.sync \/ CronNext(now) = pulse.last
  BY <1>2, <1>3 DEF CheckForPulse, beatVars
<1>4. CASE ~ (~ opt.sync \/ CronNext(now) = pulse.last)
  <2>1. /\ pulse' = [first |-> FALSE, last |-> CronNext(now)]
        /\ \/ UNCHANGED <<beat, covered>>
           \/ beat' = [now |-> now, pulse |-> pulse.last] /\ covered' = n
    BY <1>4 DEF CheckForPulse
  <2>2. QED
    BY <1>1, <1>2, <2>1
<1>5. QED
  BY <1>3, <1>4

\* So does one out of which the algorithm throws.
LEMMA PulseThrowsType ==
  ASSUME TypeOK, NEW now \in Nat, NEW n \in Nat, PulseThrows(now, n)
  PROVE  /\ pulse' \in [first : BOOLEAN, last : Nat]
         /\ beat' \in [now : Nat, pulse : Nat]
         /\ covered' \in Nat
<1>1. pulse \in [first : BOOLEAN, last : Nat]
  BY DEF TypeOK
<1>2. pulse' = pulse /\ beat' = [now |-> now, pulse |-> pulse.last] /\ covered' = n
  BY DEF PulseThrows
<1>3. QED
  BY <1>1, <1>2

\* Adding records schedules the queue and keeps the trigger consistent.
LEMMA PushAllOK ==
  ASSUME TypeOK, NEW l \in LoopStates, TriggerOK(l, {}), NEW S \in SUBSET Records,
         PushAll(l, S), (queue # {} => l.flag["RecordQueue"])
  PROVE  /\ loop' \in LoopStates /\ TriggerOK(loop', {})
         /\ queue' \in SUBSET Records /\ accepted' \in SUBSET Records
         /\ queue' # {} => loop'.flag["RecordQueue"]
         /\ l.flag["RecordQueue"] => loop'.flag["RecordQueue"]
<1>1. "RecordQueue" \in Handlers
  BY PipelineAssumption
<1>2. CASE S = {}
  <2>1. loop' = l /\ queue' = queue /\ accepted' = accepted
    BY <1>2 DEF PushAll
  <2>2. QED
    BY <2>1 DEF TypeOK
<1>3. CASE S # {}
  <2> DEFINE s == SetReady(l, "RecordQueue")
  <2>1. loop' = s /\ queue' = queue \cup S /\ accepted' = accepted \cup S
    BY <1>3 DEF PushAll
  <2>2. s \in LoopStates /\ TriggerOK(s, {}) /\ s.flag["RecordQueue"]
    BY <1>1, SetReadyOK
  <2> HIDE DEF s
  <2>3. QED
    BY <2>1, <2>2 DEF TypeOK
<1>4. QED
  BY <1>2, <1>3

\* At the end of the queue's action either it is scheduled again, or it is
\* empty and an archive run is told to stop.
LEMMA EndActionOK ==
  ASSUME TypeOK, TriggerConsistent, NextHandler(loop, "RecordQueue"), NEW rest, EndAction(rest)
  PROVE  /\ loop' \in LoopStates /\ TriggerOK(loop', {})
         /\ stop' \in Reasons
         /\ stop' = "no" => /\ rest # {} => loop'.flag["RecordQueue"]
                            /\ ~ IsDaemon => loop'.flag["RecordQueue"]
<1>1. "RecordQueue" \in Handlers
  BY PipelineAssumption
<1>2. ExecuteAction(loop) \in LoopStates /\ TriggerOK(ExecuteAction(loop), {})
  BY <1>1, ExecuteActionOK DEF TypeOK, TriggerConsistent
<1>3. CASE rest = {}
  BY <1>2, <1>3 DEF EndAction, Reasons
<1>4. CASE rest # {}
  <2>1. loop' = SetReady(ExecuteAction(loop), "RecordQueue") /\ stop' = "no"
    BY <1>4 DEF EndAction
  <2>2. QED
    BY <1>1, <1>2, <2>1, SetReadyOK DEF Reasons
<1>5. QED
  BY <1>3, <1>4

\* The initial states.
LEMMA InitOK == Init => SafeInv
<1> SUFFICES ASSUME Init PROVE SafeInv
  OBVIOUS
<1>1. loop \in LoopStates /\ TriggerOK(loop, {})
  BY IdleLoopOK DEF Init
<1>2. TypeOK
  BY <1>1, PipelineAssumption DEF Init, TypeOK, Phases, Reasons
<1>3. QED
  BY <1>1, <1>2 DEF Init, SafeInv, TriggerConsistent, QueueScheduled

\* A step that leaves the trigger and the queue alone.
LEMMA QuietStep ==
  ASSUME SafeInv, UNCHANGED <<opt, loop, queue>>,
         phase' \in {"ready", "loop"} => phase \in {"ready", "loop"},
         stop' = "no" => stop = "no"
  PROVE  TriggerConsistent' /\ QueueScheduled'
  BY DEF SafeInv, TriggerConsistent, QueueScheduled, IsDaemon

\* RecordQueue::action.
LEMMA QueueActionOK ==
  ASSUME SafeInv, NextHandler(loop, "RecordQueue"), stop = "no", UNCHANGED <<opt, phase>>,
         queue' \subseteq queue, EndAction(queue')
  PROVE  /\ loop' \in LoopStates /\ stop' \in Reasons /\ queue' \subseteq Records
         /\ TriggerConsistent' /\ QueueScheduled'
<1>1. /\ loop' \in LoopStates /\ TriggerOK(loop', {})
      /\ stop' \in Reasons
      /\ stop' = "no" => /\ queue' # {} => loop'.flag["RecordQueue"]
                         /\ ~ IsDaemon => loop'.flag["RecordQueue"]
  BY EndActionOK DEF SafeInv
<1>2. queue' \subseteq Records
  BY DEF SafeInv, TypeOK
<1>3. QED
  BY <1>1, <1>2 DEF TriggerConsistent, QueueScheduled, IsDaemon

\* Every step.
LEMMA NextOK == SafeInv /\ [Next]_vars => SafeInv'
<1> SUFFICES ASSUME SafeInv, [Next]_vars PROVE SafeInv'
  OBVIOUS
<1>h. {"RecordQueue", "Watcher", "HeartbeatTimer"} \subseteq Handlers
  BY PipelineAssumption
<1>t. loop \in LoopStates /\ TriggerOK(loop, {})
  BY DEF SafeInv, TypeOK, TriggerConsistent
<1>1. CASE InitialRead
  <2> DEFINE S == IF IsArchive THEN {r \in appeared : r.input = tried} ELSE {}
  <2>1. S \in SUBSET Records /\ PushAll(loop, S)
    BY <1>1 DEF InitialRead, SafeInv, TypeOK
  <2> HIDE DEF S
  <2>2. CASE stop = "no"
    <3>1. queue # {} => loop.flag["RecordQueue"]
      BY <2>2 DEF SafeInv, QueueScheduled
    <3>2. /\ loop' \in LoopStates /\ TriggerOK(loop', {})
          /\ queue' \in SUBSET Records /\ accepted' \in SUBSET Records
          /\ queue' # {} => loop'.flag["RecordQueue"]
      BY <1>t, <2>1, <3>1, PushAllOK DEF SafeInv
    <3>3. TypeOK'
      BY <1>1, <3>2, PipelineAssumption DEF InitialRead, SafeInv, TypeOK, beatVars
    <3>4. QED
      BY <1>1, <3>2, <3>3 DEF InitialRead, SafeInv, TriggerConsistent, QueueScheduled
  <2>3. CASE stop # "no"
    <3>1. /\ loop' \in LoopStates /\ TriggerOK(loop', {})
          /\ queue' \in SUBSET Records /\ accepted' \in SUBSET Records
      <4>1. CASE S = {}
        BY <1>t, <2>1, <4>1 DEF PushAll, SafeInv, TypeOK
      <4>2. CASE S # {}
        <5> DEFINE s == SetReady(loop, "RecordQueue")
        <5>1. s \in LoopStates /\ TriggerOK(s, {})
          BY <1>h, <1>t, SetReadyOK
        <5>2. loop' = s /\ queue' = queue \cup S /\ accepted' = accepted \cup S
          BY <2>1, <4>2 DEF PushAll
        <5> HIDE DEF s
        <5>3. QED
          BY <2>1, <5>1, <5>2 DEF SafeInv, TypeOK
      <4>3. QED
        BY <4>1, <4>2
    <3>2. TypeOK'
      BY <1>1, <3>1, PipelineAssumption DEF InitialRead, SafeInv, TypeOK, beatVars
    <3>3. QED
      BY <1>1, <2>3, <3>1, <3>2 DEF InitialRead, SafeInv, TriggerConsistent, QueueScheduled
  <2>4. QED
    BY <2>2, <2>3
<1>2. CASE InitialReadFails
  <2>1. TypeOK'
    BY <1>2, PipelineAssumption DEF InitialReadFails, SafeInv, TypeOK, beatVars
  <2>2. QED
    BY <1>2, <2>1, QuietStep DEF InitialReadFails, SafeInv
<1>3. CASE NotAllConnected
  <2>1. TypeOK'
    BY <1>3 DEF NotAllConnected, SafeInv, TypeOK, inputVars, beatVars, Phases, Reasons
  <2>2. QED
    BY <1>3, <2>1, QuietStep DEF NotAllConnected, SafeInv
<1>4. CASE IngestReady
  <2> DEFINE s == SetReady(loop, "RecordQueue")
  <2>1. s \in LoopStates /\ TriggerOK(s, {}) /\ s.flag["RecordQueue"]
    BY <1>h, <1>t, SetReadyOK
  <2>2. loop' = s
    BY <1>4 DEF IngestReady
  <2> HIDE DEF s
  <2>3. TypeOK'
    BY <1>4, <2>1, <2>2 DEF IngestReady, SafeInv, TypeOK, inputVars, beatVars, Phases
  <2>4. QED
    BY <2>1, <2>2, <2>3 DEF SafeInv, TriggerConsistent, QueueScheduled
<1>5. CASE StartLoop
  <2>1. TypeOK'
    BY <1>5 DEF StartLoop, SafeInv, TypeOK, inputVars, beatVars, Phases
  <2>2. QED
    BY <1>5, <2>1, QuietStep DEF StartLoop, SafeInv
<1>6. ASSUME NEW h \in Timers, TimerTick(h) PROVE SafeInv'
  <2> DEFINE s == SetReady(loop, h)
  <2>1. h \in Handlers
    BY <1>h DEF Timers
  <2>2. /\ s \in LoopStates /\ TriggerOK(s, {})
        /\ loop.flag["RecordQueue"] => s.flag["RecordQueue"]
    BY <1>h, <1>t, <2>1, SetReadyOK
  <2>3. loop' = s
    BY <1>6 DEF TimerTick
  <2> HIDE DEF s
  <2>4. TypeOK'
    BY <1>6, <2>2, <2>3 DEF TimerTick, SafeInv, TypeOK, inputVars, beatVars
  <2>5. QED
    BY <1>6, <2>2, <2>3, <2>4
    DEF TimerTick, SafeInv, TriggerConsistent, QueueScheduled, IsDaemon
<1>7. ASSUME NEW r \in Records, HandleRecord(r) PROVE SafeInv'
  <2>1. /\ NextHandler(loop, "RecordQueue") /\ stop = "no" /\ UNCHANGED <<opt, phase>>
        /\ queue' = queue \ {r} /\ EndAction(queue') /\ handled' = Append(handled, r)
        /\ UNCHANGED <<inputVars, appeared, events, accepted, clock>>
    BY <1>7 DEF HandleRecord, Runs
  <2>2. /\ loop' \in LoopStates /\ stop' \in Reasons /\ queue' \subseteq Records
        /\ TriggerConsistent' /\ QueueScheduled'
    BY <2>1, QueueActionOK
  <2>3. handled' \in Seq(Records) /\ Len(handled') \in Nat
    BY <2>1 DEF SafeInv, TypeOK
  <2>4. latest' \in Nat
    BY <1>7, PipelineAssumption DEF HandleRecord, SetLatest, Later, RecordSet, SafeInv, TypeOK
  <2>5. /\ pulse' \in [first : BOOLEAN, last : Nat]
        /\ beat' \in [now : Nat, pulse : Nat]
        /\ covered' \in Nat
    <3>1. CASE IsArchive
      <4>1. CurrentTime(latest') \in Nat
        BY <2>4 DEF CurrentTime, SafeInv, TypeOK
      <4>2. CheckForPulse(CurrentTime(latest'), Len(handled'))
        BY <1>7, <3>1 DEF HandleRecord
      <4>3. QED
        BY <2>3, <4>1, <4>2, CheckForPulseType DEF SafeInv
    <3>2. CASE ~ IsArchive
      BY <1>7, <3>2 DEF HandleRecord, beatVars, SafeInv, TypeOK
    <3>3. QED
      BY <3>1, <3>2
  <2>6. TypeOK'
    BY <2>1, <2>2, <2>3, <2>4, <2>5 DEF SafeInv, TypeOK, inputVars
  <2>7. QED
    BY <2>2, <2>6 DEF SafeInv
<1>8. ASSUME NEW r \in Records, RecordThrows(r) PROVE SafeInv'
  <2> DEFINE e == ExecuteAction(loop)
  <2>1. e \in LoopStates /\ TriggerOK(e, {})
    BY <1>8, <1>h, <1>t, ExecuteActionOK DEF RecordThrows, Runs
  <2>2. loop' = e /\ stop' = "throw" /\ queue' = queue \ {r}
    BY <1>8 DEF RecordThrows
  <2> HIDE DEF e
  <2>3. latest' \in Nat
    BY <1>8, PipelineAssumption DEF RecordThrows, SetLatest, Later, RecordSet, SafeInv, TypeOK
  <2>4. /\ pulse' \in [first : BOOLEAN, last : Nat]
        /\ beat' \in [now : Nat, pulse : Nat]
        /\ covered' \in Nat
    <3>1. CASE UNCHANGED beatVars
      BY <3>1 DEF beatVars, SafeInv, TypeOK
    <3>2. CASE PulseThrows(CurrentTime(latest'), Len(handled) + 1)
      <4>1. CurrentTime(latest') \in Nat /\ Len(handled) + 1 \in Nat
        BY <2>3 DEF CurrentTime, SafeInv, TypeOK
      <4>2. QED
        BY <3>2, <4>1, PulseThrowsType DEF SafeInv
    <3>3. QED
      BY <1>8, <3>1, <3>2 DEF RecordThrows
  <2>5. TypeOK'
    BY <1>8, <2>1, <2>2, <2>3, <2>4 DEF RecordThrows, SafeInv, TypeOK, inputVars, Reasons
  <2>6. QED
    BY <2>1, <2>2, <2>5 DEF SafeInv, TriggerConsistent, QueueScheduled
<1>9. CASE HandleEmpty
  <2>1. /\ NextHandler(loop, "RecordQueue") /\ stop = "no" /\ UNCHANGED <<opt, phase>>
        /\ queue' \subseteq queue /\ EndAction(queue')
    BY <1>9 DEF HandleEmpty, Runs
  <2>2. /\ loop' \in LoopStates /\ stop' \in Reasons /\ queue' \subseteq Records
        /\ TriggerConsistent' /\ QueueScheduled'
    BY <2>1, QueueActionOK
  <2>3. TypeOK'
    BY <1>9, <2>2 DEF HandleEmpty, SafeInv, TypeOK, inputVars, beatVars
  <2>4. QED
    BY <2>2, <2>3 DEF SafeInv
<1>10. CASE WatcherAction
  <2> DEFINE n == IF Len(events) < ProcessCount THEN Len(events) ELSE ProcessCount
             S == {events[i] : i \in 1..n}
             e == ExecuteAction(loop)
  <2>1. /\ NextHandler(loop, "Watcher") /\ stop = "no" /\ PushAll(e, S)
        /\ events' = SubSeq(events, n + 1, Len(events))
    BY <1>10 DEF WatcherAction, Runs
  <2>2. /\ e \in LoopStates /\ TriggerOK(e, {})
        /\ e.flag["RecordQueue"] = loop.flag["RecordQueue"]
    BY <1>h, <1>t, <2>1, ExecuteActionOK
  <2>3. events \in Seq(Records) /\ n \in Nat /\ n <= Len(events)
    BY PipelineAssumption DEF SafeInv, TypeOK
  <2> HIDE DEF n
  <2>4. S \in SUBSET Records
    BY <2>3
  <2>5. events' \in Seq(Records)
    BY <2>1, <2>3, SubSeqProperties
  <2>6. queue # {} => e.flag["RecordQueue"]
    BY <2>1, <2>2 DEF SafeInv, QueueScheduled
  <2> HIDE DEF S, e
  <2>7. /\ loop' \in LoopStates /\ TriggerOK(loop', {})
        /\ queue' \in SUBSET Records /\ accepted' \in SUBSET Records
        /\ queue' # {} => loop'.flag["RecordQueue"]
        /\ e.flag["RecordQueue"] => loop'.flag["RecordQueue"]
    BY <2>1, <2>2, <2>4, <2>6, PushAllOK DEF SafeInv
  <2>8. TypeOK'
    BY <1>10, <2>5, <2>7 DEF WatcherAction, SafeInv, TypeOK, inputVars, beatVars
  <2>9. QED
    BY <1>10, <2>2, <2>7, <2>8
    DEF WatcherAction, SafeInv, TriggerConsistent, QueueScheduled, IsDaemon
<1>11. CASE HeartbeatAction
  <2> DEFINE e == ExecuteAction(loop)
  <2>1. /\ NextHandler(loop, "HeartbeatTimer") /\ loop' = e
        /\ CheckForPulse(CurrentTime(latest), Len(handled))
    BY <1>11 DEF HeartbeatAction, Runs
  <2>2. /\ e \in LoopStates /\ TriggerOK(e, {})
        /\ e.flag["RecordQueue"] = loop.flag["RecordQueue"]
    BY <1>h, <1>t, <2>1, ExecuteActionOK
  <2> HIDE DEF e
  <2>3. CurrentTime(latest) \in Nat /\ Len(handled) \in Nat
    BY DEF CurrentTime, SafeInv, TypeOK
  <2>4. /\ pulse' \in [first : BOOLEAN, last : Nat]
        /\ beat' \in [now : Nat, pulse : Nat]
        /\ covered' \in Nat
    BY <2>1, <2>3, CheckForPulseType DEF SafeInv
  <2>5. TypeOK'
    BY <1>11, <2>1, <2>2, <2>4 DEF HeartbeatAction, SafeInv, TypeOK, inputVars
  <2>6. QED
    BY <1>11, <2>1, <2>2, <2>5
    DEF HeartbeatAction, SafeInv, TriggerConsistent, QueueScheduled, IsDaemon
<1>11t. CASE HeartbeatThrows
  <2> DEFINE e == ExecuteAction(loop)
  <2>1. e \in LoopStates /\ TriggerOK(e, {})
    BY <1>11t, <1>h, <1>t, ExecuteActionOK DEF HeartbeatThrows, Runs
  <2>2. loop' = e /\ stop' = "throw"
    BY <1>11t DEF HeartbeatThrows
  <2> HIDE DEF e
  <2>3. CurrentTime(latest) \in Nat /\ Len(handled) \in Nat
    BY DEF CurrentTime, SafeInv, TypeOK
  <2>4. /\ pulse' \in [first : BOOLEAN, last : Nat]
        /\ beat' \in [now : Nat, pulse : Nat]
        /\ covered' \in Nat
    BY <1>11t, <2>3, PulseThrowsType DEF HeartbeatThrows, SafeInv
  <2>5. TypeOK'
    BY <1>11t, <2>1, <2>2, <2>4 DEF HeartbeatThrows, SafeInv, TypeOK, inputVars, Reasons
  <2>6. QED
    BY <2>1, <2>2, <2>5 DEF SafeInv, TriggerConsistent, QueueScheduled
<1>12. CASE LoopReturns
  <2>1. TypeOK'
    BY <1>12 DEF LoopReturns, SafeInv, TypeOK, inputVars, beatVars, Phases
  <2>2. QED
    BY <1>12, <2>1, QuietStep DEF LoopReturns, SafeInv
<1>13. ASSUME NEW r \in Records, Appear(r) PROVE SafeInv'
  <2>1. TypeOK'
    BY <1>13 DEF Appear, SafeInv, TypeOK, inputVars, beatVars
  <2>2. QED
    BY <1>13, <2>1, QuietStep DEF Appear, SafeInv
<1>14. CASE ClockTick
  <2>1. TypeOK'
    BY <1>14 DEF ClockTick, SafeInv, TypeOK, inputVars, beatVars
  <2>2. QED
    BY <1>14, <2>1, QuietStep DEF ClockTick, SafeInv
<1>15. CASE Signal
  <2>1. TypeOK'
    BY <1>15 DEF Signal, SafeInv, TypeOK, inputVars, beatVars, Reasons
  <2>2. QED
    BY <1>15, <2>1, QuietStep DEF Signal, SafeInv
<1>16. CASE UNCHANGED vars
  <2>1. TypeOK'
    BY <1>16 DEF vars, SafeInv, TypeOK
  <2>2. QED
    BY <1>16, <2>1, QuietStep DEF vars, SafeInv
<1>17. QED
  BY <1>1, <1>2, <1>3, <1>4, <1>5, <1>6, <1>7, <1>8, <1>9, <1>10, <1>11, <1>12, <1>13,
     <1>14, <1>15, <1>16, <1>11t
  DEF Next, Terminated

\* The three invariants hold of every execution.
THEOREM SafetyHolds == SafetySpec => []SafeInv
  BY InitOK, NextOK, PTL DEF SafetySpec

\* Type correctness of the pipeline.
THEOREM TypeCorrect == SafetySpec => []TypeOK
<1>1. SafeInv => TypeOK
  BY DEF SafeInv
<1>2. QED
  BY <1>1, SafetyHolds, PTL

\* Across all callers of setReady() a raised flag has exactly one completion.
THEOREM TriggerStaysConsistent == SafetySpec => []TriggerConsistent
<1>1. SafeInv => TriggerConsistent
  BY DEF SafeInv
<1>2. QED
  BY <1>1, SafetyHolds, PTL

\* The queue is never left with records and no completion, and an archive
\* run that has read its inputs always has the completion that will end it.
THEOREM QueueStaysScheduled == SafetySpec => []QueueScheduled
<1>1. SafeInv => QueueScheduled
  BY DEF SafeInv
<1>2. QED
  BY <1>1, SafetyHolds, PTL

-----------------------------------------------------------------------------
(* No record is lost or handled twice *)

\* What an element at the end of a sequence adds to it.
LEMMA AppendRange ==
  ASSUME NEW S, NEW s \in Seq(S), NEW r \in S
  PROVE  LET t == Append(s, r) IN
         /\ {t[i] : i \in 1..Len(t)} = {s[i] : i \in 1..Len(s)} \cup {r}
         /\ \A i \in 1..Len(s) : t[i] = s[i]
         /\ Len(t) = Len(s) + 1 /\ Len(s) \in Nat /\ t[Len(t)] = r
<1> DEFINE t == Append(s, r)
<1>1. /\ Len(t) = Len(s) + 1 /\ Len(s) \in Nat
      /\ \A i \in 1..Len(s) : t[i] = s[i]
      /\ t[Len(s) + 1] = r
  OBVIOUS
<1> HIDE DEF t
<1>2. {t[i] : i \in 1..Len(t)} = {s[i] : i \in 1..Len(s)} \cup {r}
  <2>1. \A i \in 1..Len(t) : i \in 1..Len(s) \/ i = Len(s) + 1
    BY <1>1
  <2>2. \A i \in 1..Len(s) : i \in 1..Len(t)
    BY <1>1
  <2>3. Len(s) + 1 \in 1..Len(t)
    BY <1>1
  <2>4. QED
    BY <1>1, <2>1, <2>2, <2>3
<1>3. QED
  BY <1>1, <1>2 DEF t

\* A sequence without duplicates stays so when a new element is appended.
LEMMA AppendDistinct ==
  ASSUME NEW S, NEW s \in Seq(S), NEW r \in S,
         \A i, j \in 1..Len(s) : s[i] = s[j] => i = j,
         r \notin {s[i] : i \in 1..Len(s)}
  PROVE  LET t == Append(s, r) IN
         \A i, j \in 1..Len(t) : t[i] = t[j] => i = j
<1> DEFINE t == Append(s, r)
<1>1. /\ Len(t) = Len(s) + 1 /\ Len(s) \in Nat
      /\ \A i \in 1..Len(s) : t[i] = s[i]
      /\ t[Len(s) + 1] = r
  OBVIOUS
<1> HIDE DEF t
<1>2. \A i \in 1..Len(t) : i \in 1..Len(s) \/ i = Len(s) + 1
  BY <1>1
<1>3. \A i, j \in 1..Len(t) : t[i] = t[j] => i = j
  BY <1>1, <1>2
<1>4. QED
  BY <1>3 DEF t

\* What is left of a sequence without duplicates after its first n elements
\* are taken has none of them.
LEMMA DropFirst ==
  ASSUME NEW S, NEW s \in Seq(S), NEW n \in Nat, n <= Len(s),
         \A i, j \in 1..Len(s) : s[i] = s[j] => i = j
  PROVE  LET t == SubSeq(s, n + 1, Len(s)) IN
         /\ \A i, j \in 1..Len(t) : t[i] = t[j] => i = j
         /\ {t[i] : i \in 1..Len(t)} \subseteq {s[i] : i \in 1..Len(s)}
         /\ {t[i] : i \in 1..Len(t)} \cap {s[i] : i \in 1..n} = {}
<1> DEFINE t == SubSeq(s, n + 1, Len(s))
<1>1. /\ Len(s) \in Nat /\ Len(t) = Len(s) - n
      /\ \A i \in 1..Len(t) : t[i] = s[n + i]
  BY SubSeqProperties
<1> HIDE DEF t
<1>2. \A i \in 1..Len(t) : n + i \in 1..Len(s) /\ n + i \notin 1..n
  BY <1>1
<1>3. \A i \in 1..n : i \in 1..Len(s)
  BY <1>1
<1>4. \A i, j \in 1..Len(t) : n + i = n + j => i = j
  BY <1>1
<1>5. \A i, j \in 1..Len(t) : t[i] = t[j] => i = j
  BY <1>1, <1>2, <1>4
<1>6. {t[i] : i \in 1..Len(t)} \subseteq {s[i] : i \in 1..Len(s)}
  BY <1>1, <1>2
<1>7. ASSUME NEW i \in 1..Len(t), NEW j \in 1..n PROVE t[i] # s[j]
  BY <1>1, <1>2, <1>3
<1>8. {t[i] : i \in 1..Len(t)} \cap {s[i] : i \in 1..n} = {}
  BY <1>7
<1>9. QED
  BY <1>5, <1>6, <1>8 DEF t

AccountInv == OnceInv /\ RecordsAccounted

\* At the beginning there is nothing to account for.
LEMMA AccountInit == Init => AccountInv
  BY DEF Init, AccountInv, OnceInv, RecordsAccounted, Done, Event

\* A step that leaves alone where the records are.
LEMMA AccountQuiet ==
  ASSUME AccountInv, UNCHANGED <<watched, appeared, events, accepted, queue, handled>>,
         tried' \in Nat, tried \in Nat, tried' >= tried, watched \subseteq Nat,
         accepted \subseteq Records,
         phase' = "plugins" => phase = "plugins",
         stop' # stop => /\ stop = "no"
                         /\ stop' = "signal" \/ (stop' \in {"connect", "throw"} /\ phase' # "plugins")
  PROVE  AccountInv'
<1>1. \A i \in watched : i < tried'
  BY DEF AccountInv, OnceInv
<1>2. \A r \in accepted : r.input < tried'
  BY PipelineAssumption DEF AccountInv, OnceInv, RecordSet
<1>3. /\ Done' = Done /\ Event' = Event
      /\ \A i, j \in 1..Len(events') : events'[i] = events'[j] => i = j
  BY DEF Done, Event, AccountInv, OnceInv
<1>4. phase' = "plugins" => stop' \in {"no", "signal"}
  BY DEF AccountInv, OnceInv
<1>5. OnceInv'
  BY <1>1, <1>2, <1>3, <1>4 DEF AccountInv, OnceInv
<1>6. RecordsAccounted'
  BY DEF AccountInv, RecordsAccounted
<1>7. QED
  BY <1>5, <1>6 DEF AccountInv

\* New records: they exist, were not accepted before and come of inputs
\* that were tried.
LEMMA AccountPush ==
  ASSUME AccountInv, NEW l, NEW S, PushAll(l, S), S \cap accepted = {},
         stop \notin {"end", "throw"} \/ S = {}
  PROVE  /\ queue' \cup Done \subseteq accepted'
         /\ queue' \cap Done = {}
         /\ stop # "throw" => accepted' = queue' \cup Done
         /\ \A r, s \in accepted' \ (queue' \cup Done) : r = s
         /\ stop = "end" => queue' = {}
         /\ accepted' = accepted \cup S
<1>1. /\ queue' = queue \cup S /\ accepted' = accepted \cup S
  BY DEF PushAll
<1>2. /\ queue \cap Done = {} /\ queue \cup Done \subseteq accepted
      /\ stop # "throw" => accepted = queue \cup Done
      /\ \A r, s \in accepted \ (queue \cup Done) : r = s
      /\ stop = "end" => queue = {}
  BY DEF AccountInv, OnceInv, RecordsAccounted, Done
<1>3. QED
  BY <1>1, <1>2

\* Every step.
LEMMA AccountNext == SafeInv /\ AccountInv /\ [Next]_vars => AccountInv'
<1> SUFFICES ASSUME SafeInv, AccountInv, [Next]_vars PROVE AccountInv'
  OBVIOUS
<1>t. /\ tried \in Nat /\ watched \subseteq Nat /\ accepted \subseteq Records
      /\ stop \in Reasons /\ handled \in Seq(Records) /\ events \in Seq(Records)
      /\ \A r \in Records : r.input \in Nat
  BY PipelineAssumption DEF SafeInv, TypeOK, RecordSet
<1>d. /\ queue \cap Done = {}
      /\ \A i, j \in 1..Len(handled) : handled[i] = handled[j] => i = j
      /\ stop # "throw" => accepted = queue \cup Done
      /\ \A r, s \in accepted \ (queue \cup Done) : r = s
      /\ stop = "end" => queue = {}
  BY DEF AccountInv, RecordsAccounted, Done
<1>1. CASE InitialRead
  <2> DEFINE S == IF IsArchive THEN {r \in appeared : r.input = tried} ELSE {}
  <2>1. S \subseteq appeared /\ PushAll(loop, S) /\ \A r \in S : r.input = tried
    BY <1>1 DEF InitialRead
  <2> HIDE DEF S
  <2>2. S \cap accepted = {} /\ S \cap Event = {}
    BY <1>t, <2>1 DEF AccountInv, OnceInv
  <2>3. stop \in {"no", "signal"}
    BY <1>1 DEF InitialRead, AccountInv, OnceInv
  <2>4. /\ queue' \cup Done \subseteq accepted'
        /\ queue' \cap Done = {}
        /\ stop # "throw" => accepted' = queue' \cup Done
        /\ \A r, s \in accepted' \ (queue' \cup Done) : r = s
        /\ stop = "end" => queue' = {}
        /\ accepted' = accepted \cup S
    BY <2>1, <2>2, <2>3, AccountPush
  <2>5. /\ tried' = tried + 1 /\ watched' \subseteq watched \cup {tried}
        /\ watched \subseteq watched'
        /\ UNCHANGED <<phase, stop, appeared, events, handled>>
    BY <1>1 DEF InitialRead
  <2>6. /\ \A i \in watched' : i < tried'
        /\ \A r \in accepted' : r.input < tried'
    BY <1>t, <2>1, <2>4, <2>5 DEF AccountInv, OnceInv
  <2>7. OnceInv'
    BY <2>1, <2>2, <2>4, <2>5, <2>6 DEF AccountInv, OnceInv, Done, Event
  <2>8. RecordsAccounted'
    BY <1>d, <2>4, <2>5 DEF RecordsAccounted, Done
  <2>9. QED
    BY <2>7, <2>8 DEF AccountInv
<1>2. CASE InitialReadFails
  BY <1>2, <1>t, AccountQuiet DEF InitialReadFails
<1>3. CASE NotAllConnected
  BY <1>3, <1>t, AccountQuiet DEF NotAllConnected, inputVars
<1>4. CASE IngestReady
  BY <1>4, <1>t, AccountQuiet DEF IngestReady, inputVars
<1>5. CASE StartLoop
  BY <1>5, <1>t, AccountQuiet DEF StartLoop, inputVars
<1>6. ASSUME NEW h \in Timers, TimerTick(h) PROVE AccountInv'
  BY <1>6, <1>t, AccountQuiet DEF TimerTick, inputVars
<1>7. ASSUME NEW r \in Records, HandleRecord(r) PROVE AccountInv'
  <2>1. /\ r \in queue /\ queue' = queue \ {r} /\ handled' = Append(handled, r)
        /\ phase = "loop" /\ stop = "no" /\ EndAction(queue')
        /\ UNCHANGED <<phase, tried, watched, appeared, events, accepted>>
    BY <1>7 DEF HandleRecord, Runs, Top, inputVars
  <2>2. r \notin Done
    BY <1>d, <2>1
  <2>3. Done' = Done \cup {r}
    <3>1. handled \in Seq(Records) /\ handled' = Append(handled, r)
      BY <1>t, <2>1
    <3>2. {handled'[i] : i \in 1..Len(handled')} = {handled[i] : i \in 1..Len(handled)} \cup {r}
      BY <3>1, AppendRange
    <3>3. QED
      BY <3>2 DEF Done
  <2>4. \A i, j \in 1..Len(handled') : handled'[i] = handled'[j] => i = j
    BY <1>t, <1>d, <2>1, <2>2, AppendDistinct DEF Done
  <2>5. stop' \in {"no", "end"} /\ (stop' = "end" => queue' = {})
    BY <2>1 DEF EndAction
  <2>6. OnceInv'
    BY <2>1, <2>3 DEF AccountInv, OnceInv, Event
  <2>7. queue' \cap Done' = {} /\ accepted' = queue' \cup Done'
    BY <1>d, <2>1, <2>2, <2>3
  <2>8. RecordsAccounted'
    BY <2>4, <2>5, <2>7 DEF RecordsAccounted, Done
  <2>9. QED
    BY <2>6, <2>8 DEF AccountInv
<1>8. ASSUME NEW r \in Records, RecordThrows(r) PROVE AccountInv'
  <2>1. /\ queue' = queue \ {r} /\ stop = "no" /\ stop' = "throw" /\ phase = "loop"
        /\ UNCHANGED <<phase, tried, watched, appeared, events, accepted, handled>>
    BY <1>8 DEF RecordThrows, Runs, inputVars
  <2>2. OnceInv'
    BY <2>1 DEF AccountInv, OnceInv, Event, Done
  <2>5. /\ queue' \cap Done = {}
        /\ \A x, y \in accepted' \ (queue' \cup Done) : x = y
    BY <1>d, <2>1
  <2>3. RecordsAccounted'
    BY <1>d, <2>1, <2>5 DEF RecordsAccounted, Done
  <2>4. QED
    BY <2>2, <2>3 DEF AccountInv
<1>9. CASE HandleEmpty
  <2>1. /\ queue = {} /\ EndAction(queue) /\ stop = "no" /\ phase = "loop"
        /\ UNCHANGED <<phase, tried, watched, appeared, events, accepted, queue, handled>>
    BY <1>9 DEF HandleEmpty, Runs, inputVars
  <2>2. stop' \in {"no", "end"}
    BY <2>1 DEF EndAction
  <2>3. OnceInv'
    BY <2>1 DEF AccountInv, OnceInv, Event, Done
  <2>4. RecordsAccounted'
    BY <2>1, <2>2 DEF AccountInv, RecordsAccounted
  <2>5. QED
    BY <2>3, <2>4 DEF AccountInv
<1>10. CASE WatcherAction
  <2> DEFINE n == IF Len(events) < ProcessCount THEN Len(events) ELSE ProcessCount
             S == {events[i] : i \in 1..n}
  <2>1. /\ PushAll(ExecuteAction(loop), S) /\ stop = "no" /\ phase = "loop"
        /\ events' = SubSeq(events, n + 1, Len(events))
        /\ UNCHANGED <<phase, stop, tried, watched, appeared, handled>>
    BY <1>10 DEF WatcherAction, Runs, inputVars
  <2>2. n \in Nat /\ n <= Len(events) /\ Len(events) \in Nat
    BY <1>t, PipelineAssumption
  <2> HIDE DEF n
  <2>3. S \subseteq Event
    BY <2>2 DEF Event
  <2>4. /\ \A i, j \in 1..Len(events') : events'[i] = events'[j] => i = j
        /\ Event' \subseteq Event /\ Event' \cap S = {}
    <3>1. \A i, j \in 1..Len(events) : events[i] = events[j] => i = j
      BY DEF AccountInv, OnceInv
    <3>2. events \in Seq(Records)
      BY <1>t
    <3>3. QED
      BY <2>1, <2>2, <3>1, <3>2, DropFirst DEF Event
  <2> HIDE DEF S
  <2>5. S \cap accepted = {}
    BY <2>3 DEF AccountInv, OnceInv
  <2>6. /\ queue' \cup Done \subseteq accepted'
        /\ queue' \cap Done = {}
        /\ accepted' = queue' \cup Done
        /\ accepted' = accepted \cup S
    BY <2>1, <2>5, AccountPush
  <2>7. \A r \in S : r \in appeared /\ r.input < tried
    BY <2>3 DEF AccountInv, OnceInv
  <2>8. OnceInv'
    BY <2>1, <2>4, <2>6, <2>7 DEF AccountInv, OnceInv, Done
  <2>9. RecordsAccounted'
    BY <1>d, <2>1, <2>6 DEF RecordsAccounted, Done
  <2>10. QED
    BY <2>8, <2>9 DEF AccountInv
<1>11. CASE HeartbeatAction
  BY <1>11, <1>t, AccountQuiet DEF HeartbeatAction, Runs, inputVars
<1>11t. CASE HeartbeatThrows
  BY <1>11t, <1>t, AccountQuiet DEF HeartbeatThrows, Runs, inputVars
<1>12. CASE LoopReturns
  BY <1>12, <1>t, AccountQuiet DEF LoopReturns, inputVars
<1>13. ASSUME NEW r \in Records, Appear(r) PROVE AccountInv'
  <2>1. /\ r \notin appeared /\ appeared' = appeared \cup {r}
        /\ events' = IF r.input \in watched THEN Append(events, r) ELSE events
        /\ UNCHANGED <<phase, stop, tried, watched, accepted, queue, handled>>
    BY <1>13 DEF Appear, inputVars
  <2>2. r \notin Event /\ r \notin accepted
    BY <2>1 DEF AccountInv, OnceInv
  <2>3. RecordsAccounted'
    BY <2>1 DEF AccountInv, RecordsAccounted
  <2>4. CASE r.input \in watched
    <3>1. Event' = Event \cup {r}
      BY <1>t, <2>1, <2>4, AppendRange DEF Event
    <3>2. \A i, j \in 1..Len(events') : events'[i] = events'[j] => i = j
      BY <1>t, <2>1, <2>2, <2>4, AppendDistinct DEF AccountInv, OnceInv, Event
    <3>3. OnceInv'
      BY <2>1, <2>2, <2>4, <3>1, <3>2 DEF AccountInv, OnceInv, Done
    <3>4. QED
      BY <2>3, <3>3 DEF AccountInv
  <2>5. CASE r.input \notin watched
    <3>1. OnceInv'
      BY <2>1, <2>5 DEF AccountInv, OnceInv, Done, Event
    <3>2. QED
      BY <2>3, <3>1 DEF AccountInv
  <2>6. QED
    BY <2>4, <2>5
<1>14. CASE ClockTick
  BY <1>14, <1>t, AccountQuiet DEF ClockTick, inputVars
<1>15. CASE Signal
  BY <1>15, <1>t, AccountQuiet DEF Signal, inputVars
<1>16. CASE UNCHANGED vars
  BY <1>16, <1>t, AccountQuiet DEF vars
<1>17. QED
  BY <1>1, <1>2, <1>3, <1>4, <1>5, <1>6, <1>7, <1>8, <1>9, <1>10, <1>11, <1>12, <1>13,
     <1>14, <1>15, <1>16, <1>11t
  DEF Next, Terminated

\* Every record accepted is waiting or was handled, exactly once, save the
\* one whose handler threw; and an archive that ends by itself leaves none
\* behind: pushedRecords and poppedRecords agree.
THEOREM RecordsStayAccounted == SafetySpec => []RecordsAccounted
<1>1. AccountInv => RecordsAccounted
  BY DEF AccountInv
<1>2. QED
  BY <1>1, AccountInit, AccountNext, SafetyHolds, PTL DEF SafetySpec

-----------------------------------------------------------------------------
(* An archive is handled in order *)

OrderInv == SortInv /\ ArchiveSorted

\* Nothing is handled at the beginning.
LEMMA OrderInit == Init => OrderInv
  BY DEF Init, OrderInv, SortInv, ArchiveSorted

\* A step that takes nothing from the queue and adds nothing to it.
LEMMA OrderQuiet ==
  ASSUME OrderInv, UNCHANGED <<opt, watched, events, queue, handled>>,
         phase' \in {"plugins", "ready"} => phase \in {"plugins", "ready"}
  PROVE  OrderInv'
<1>1. SortInv'
  BY DEF OrderInv, SortInv
<1>2. ArchiveSorted'
  BY DEF OrderInv, ArchiveSorted
<1>3. QED
  BY <1>1, <1>2 DEF OrderInv

\* Every step.  The record handled is one that no other of the queue comes
\* before; as nothing joins the queue once the loop runs, none ever will.
LEMMA OrderNext == SafeInv /\ OrderInv /\ [Next]_vars => OrderInv'
<1> SUFFICES ASSUME SafeInv, OrderInv, [Next]_vars PROVE OrderInv'
  OBVIOUS
<1>t. handled \in Seq(Records)
  BY DEF SafeInv, TypeOK
<1>1. CASE InitialRead
  <2>1. phase = "plugins" /\ UNCHANGED <<opt, phase, events, handled>>
    BY <1>1 DEF InitialRead
  <2>2. opt.mode = "old" => handled = <<>> /\ watched = {} /\ watched' = watched /\ events = <<>>
    BY <1>1, <2>1 DEF InitialRead, IsDaemon, OrderInv, SortInv
  <2>3. QED
    BY <2>1, <2>2 DEF OrderInv, SortInv, ArchiveSorted
<1>2. CASE InitialReadFails
  BY <1>2, OrderQuiet DEF InitialReadFails
<1>3. CASE NotAllConnected
  BY <1>3, OrderQuiet DEF NotAllConnected, inputVars
<1>4. CASE IngestReady
  BY <1>4, OrderQuiet DEF IngestReady, inputVars
<1>5. CASE StartLoop
  BY <1>5, OrderQuiet DEF StartLoop, inputVars
<1>6. ASSUME NEW h \in Timers, TimerTick(h) PROVE OrderInv'
  BY <1>6, OrderQuiet DEF TimerTick, inputVars
<1>7. ASSUME NEW r \in Records, HandleRecord(r) PROVE OrderInv'
  <2>1. /\ r \in queue /\ queue' = queue \ {r} /\ handled' = Append(handled, r)
        /\ \A s \in queue : ~ Before(s, r)
        /\ phase = "loop" /\ UNCHANGED <<opt, phase, watched, events>>
    BY <1>7 DEF HandleRecord, Runs, Top, inputVars
  <2>2. /\ Len(handled') = Len(handled) + 1 /\ Len(handled) \in Nat
        /\ \A i \in 1..Len(handled) : handled'[i] = handled[i]
        /\ handled'[Len(handled')] = r
    BY <1>t, <2>1
  <2>3. \A i \in 1..Len(handled') : i \in 1..Len(handled) \/ i = Len(handled')
    BY <2>2
  <2>4. SortInv'
    BY <2>1, <2>2, <2>3 DEF OrderInv, SortInv
  <2>5. ASSUME opt.mode = "old",
               NEW i \in 1..Len(handled'), NEW j \in 1..Len(handled'), i < j
        PROVE  ~ Before(handled'[j], handled'[i])
    <3>1. i \in 1..Len(handled)
      BY <2>2, <2>5
    <3>2. CASE j \in 1..Len(handled)
      BY <2>2, <2>5, <3>1, <3>2 DEF OrderInv, ArchiveSorted
    <3>3. CASE j = Len(handled')
      BY <2>1, <2>2, <2>5, <3>1, <3>3 DEF OrderInv, SortInv
    <3>4. QED
      BY <2>3, <3>2, <3>3
  <2>6. ArchiveSorted'
    BY <2>1, <2>5 DEF ArchiveSorted
  <2>7. QED
    BY <2>4, <2>6 DEF OrderInv
<1>8. ASSUME NEW r \in Records, RecordThrows(r) PROVE OrderInv'
  <2>1. /\ queue' \subseteq queue /\ phase = "loop"
        /\ UNCHANGED <<opt, phase, watched, events, handled>>
    BY <1>8 DEF RecordThrows, Runs, inputVars
  <2>2. QED
    BY <2>1 DEF OrderInv, SortInv, ArchiveSorted
<1>9. CASE HandleEmpty
  BY <1>9, OrderQuiet DEF HandleEmpty, Runs, inputVars
<1>10. CASE WatcherAction
  <2>1. UNCHANGED <<opt, phase, watched, handled>>
    BY <1>10 DEF WatcherAction, inputVars
  <2>2. CASE opt.mode = "old"
    <3> DEFINE n == IF Len(events) < ProcessCount THEN Len(events) ELSE ProcessCount
               S == {events[i] : i \in 1..n}
    <3>1. events = <<>>
      BY <2>2 DEF OrderInv, SortInv
    <3>2. n = 0
      BY <3>1, PipelineAssumption
    <3>3. S = {} /\ SubSeq(events, n + 1, Len(events)) = <<>>
      BY <3>1, <3>2
    <3>4. queue' = queue \cup S /\ events' = SubSeq(events, n + 1, Len(events))
      BY <1>10 DEF WatcherAction, PushAll
    <3>5. queue' = queue /\ events' = events
      BY <3>1, <3>3, <3>4
    <3>6. QED
      BY <2>1, <3>5, OrderQuiet
  <2>3. CASE opt.mode # "old"
    BY <2>1, <2>3 DEF OrderInv, SortInv, ArchiveSorted
  <2>4. QED
    BY <2>2, <2>3
<1>11. CASE HeartbeatAction
  BY <1>11, OrderQuiet DEF HeartbeatAction, Runs, inputVars
<1>11t. CASE HeartbeatThrows
  BY <1>11t, OrderQuiet DEF HeartbeatThrows, Runs, inputVars
<1>12. CASE LoopReturns
  BY <1>12, OrderQuiet DEF LoopReturns, inputVars
<1>13. ASSUME NEW r \in Records, Appear(r) PROVE OrderInv'
  <2>1. /\ UNCHANGED <<opt, phase, watched, queue, handled>>
        /\ events' = IF r.input \in watched THEN Append(events, r) ELSE events
    BY <1>13 DEF Appear, inputVars
  <2>2. QED
    BY <2>1 DEF OrderInv, SortInv, ArchiveSorted
<1>14. CASE ClockTick
  BY <1>14, OrderQuiet DEF ClockTick, inputVars
<1>15. CASE Signal
  BY <1>15, OrderQuiet DEF Signal, inputVars
<1>16. CASE UNCHANGED vars
  BY <1>16, OrderQuiet DEF vars
<1>17. QED
  BY <1>1, <1>2, <1>3, <1>4, <1>5, <1>6, <1>7, <1>8, <1>9, <1>10, <1>11, <1>12, <1>13,
     <1>14, <1>15, <1>16, <1>11t
  DEF Next, Terminated

\* An archive run hands the records to the algorithm in the order of
\* operator<, whatever the inputs and the order they were read in.
THEOREM ArchiveStaysSorted == SafetySpec => []ArchiveSorted
<1>1. OrderInv => ArchiveSorted
  BY DEF OrderInv
<1>2. QED
  BY <1>1, OrderInit, OrderNext, SafetyHolds, PTL DEF SafetySpec

-----------------------------------------------------------------------------
(* The queue implements WorkQueue *)

Open == stop = "no" /\ phase # "exited"

\* A step that neither touches the records nor changes whether the loop may
\* still run is no step of the abstract queue; one that ends it closes it.
LEMMA WorkQueueQuiet ==
  ASSUME UNCHANGED <<queue, handled>>, Open' => Open
  PROVE  [WQ!Next]_(WQ!wqVars)
<1>1. CASE Open /\ ~ Open'
  <2>1. WQ!Close
    BY <1>1 DEF WQ!Close, Open
  <2>2. QED
    BY <2>1 DEF WQ!Next
<1>2. CASE ~ (Open /\ ~ Open')
  <2>1. UNCHANGED <<queue, handled>> /\ (Open' <=> Open)
    BY <1>2
  <2>2. UNCHANGED WQ!wqVars
    BY <2>1 DEF WQ!wqVars, Open
  <2>3. QED
    BY <2>2
<1>3. QED
  BY <1>1, <1>2

\* New records that were not accepted before are submitted.
LEMMA WorkQueueSubmit ==
  ASSUME AccountInv, NEW S \in SUBSET Records, S \cap accepted = {},
         queue' = queue \cup S, UNCHANGED <<handled, phase, stop>>
  PROVE  [WQ!Next]_(WQ!wqVars)
<1>1. CASE S = {}
  <2>1. queue' = queue
    BY <1>1
  <2>2. QED
    BY <2>1, WorkQueueQuiet DEF Open
<1>2. CASE S # {}
  <2>1. \A r \in S : r \notin queue /\ \A k \in 1..Len(handled) : handled[k] # r
    BY DEF AccountInv, OnceInv, Done
  <2>2. WQ!Submit(S)
    BY <1>2, <2>1 DEF WQ!Submit
  <2>3. QED
    BY <2>2 DEF WQ!Next
<1>3. QED
  BY <1>1, <1>2

\* Every step of the pipeline is a step of the abstract queue, or none.
LEMMA WorkQueueStep == SafeInv /\ AccountInv /\ [Next]_vars => [WQ!Next]_(WQ!wqVars)
<1> SUFFICES ASSUME SafeInv, AccountInv, [Next]_vars PROVE [WQ!Next]_(WQ!wqVars)
  OBVIOUS
<1>t. accepted \subseteq Records /\ appeared \subseteq Records /\ events \in Seq(Records)
  BY DEF SafeInv, TypeOK
<1>1. CASE InitialRead
  <2> DEFINE S == IF IsArchive THEN {r \in appeared : r.input = tried} ELSE {}
  <2>1. /\ S \in SUBSET Records /\ queue' = queue \cup S /\ \A r \in S : r.input = tried
        /\ UNCHANGED <<handled, phase, stop>>
    BY <1>1, <1>t DEF InitialRead, PushAll
  <2> HIDE DEF S
  <2>2. S \cap accepted = {}
    BY <2>1, PipelineAssumption DEF AccountInv, OnceInv, SafeInv, TypeOK, RecordSet
  <2>3. QED
    BY <2>1, <2>2, WorkQueueSubmit
<1>2. CASE InitialReadFails
  BY <1>2, WorkQueueQuiet DEF InitialReadFails, Open
<1>3. CASE NotAllConnected
  BY <1>3, WorkQueueQuiet DEF NotAllConnected, Open
<1>4. CASE IngestReady
  BY <1>4, WorkQueueQuiet DEF IngestReady, Open
<1>5. CASE StartLoop
  BY <1>5, WorkQueueQuiet DEF StartLoop, Open
<1>6. ASSUME NEW h \in Timers, TimerTick(h) PROVE [WQ!Next]_(WQ!wqVars)
  BY <1>6, WorkQueueQuiet DEF TimerTick, Open
<1>7. ASSUME NEW r \in Records, HandleRecord(r) PROVE [WQ!Next]_(WQ!wqVars)
  <2>1. /\ r \in queue /\ queue' = queue \ {r} /\ handled' = Append(handled, r)
        /\ Open /\ EndAction(queue')
    BY <1>7 DEF HandleRecord, Runs, Top, Open
  <2>2. phase' = "loop"
    BY <1>7 DEF HandleRecord, Runs
  <2>3. ~ Open' => queue' = {}
    BY <2>1, <2>2 DEF EndAction, Open
  <2>4. WQ!Serve(r)
    BY <2>1, <2>3 DEF WQ!Serve, Open
  <2>5. QED
    BY <2>1, <2>4 DEF WQ!Next
<1>8. ASSUME NEW r \in Records, RecordThrows(r) PROVE [WQ!Next]_(WQ!wqVars)
  <2>1. /\ r \in queue /\ queue' = queue \ {r} /\ handled' = handled
        /\ Open /\ stop' = "throw"
    BY <1>8 DEF RecordThrows, Runs, Top, Open
  <2>2. WQ!Fail(r)
    BY <2>1 DEF WQ!Fail, Open
  <2>3. QED
    BY <2>1, <2>2 DEF WQ!Next
<1>9. CASE HandleEmpty
  BY <1>9, WorkQueueQuiet DEF HandleEmpty, Runs, Open
<1>10. CASE WatcherAction
  <2> DEFINE n == IF Len(events) < ProcessCount THEN Len(events) ELSE ProcessCount
             S == {events[i] : i \in 1..n}
  <2>1. queue' = queue \cup S /\ UNCHANGED <<handled, phase, stop>>
    BY <1>10 DEF WatcherAction, PushAll
  <2>2. n \in Nat /\ n <= Len(events) /\ Len(events) \in Nat
    BY <1>t, PipelineAssumption
  <2> HIDE DEF n
  <2>3. S \subseteq Event
    BY <2>2 DEF Event
  <2> HIDE DEF S
  <2>4. S \in SUBSET Records /\ S \cap accepted = {}
    BY <1>t, <2>3 DEF AccountInv, OnceInv
  <2>5. QED
    BY <2>1, <2>4, WorkQueueSubmit
<1>11. CASE HeartbeatAction
  BY <1>11, WorkQueueQuiet DEF HeartbeatAction, Runs, Open
<1>11t. CASE HeartbeatThrows
  BY <1>11t, WorkQueueQuiet DEF HeartbeatThrows, Runs, Open
<1>12. CASE LoopReturns
  BY <1>12, WorkQueueQuiet DEF LoopReturns, Open
<1>13. ASSUME NEW r \in Records, Appear(r) PROVE [WQ!Next]_(WQ!wqVars)
  BY <1>13, WorkQueueQuiet DEF Appear, Open
<1>14. CASE ClockTick
  BY <1>14, WorkQueueQuiet DEF ClockTick, Open
<1>15. CASE Signal
  BY <1>15, WorkQueueQuiet DEF Signal, Open
<1>16. CASE UNCHANGED vars
  BY <1>16, WorkQueueQuiet DEF vars, Open
<1>17. QED
  BY <1>1, <1>2, <1>3, <1>4, <1>5, <1>6, <1>7, <1>8, <1>9, <1>10, <1>11, <1>12, <1>13,
     <1>14, <1>15, <1>16, <1>11t
  DEF Next, Terminated

\* The safety of the abstract queue: what the users of the record queue see
\* is a WorkQueue.  (That it goes on serving is liveness, left to the runs.)
THEOREM RefinesWorkQueue == SafetySpec => WQ!Init /\ [][WQ!Next]_(WQ!wqVars)
<1>1. Init => WQ!Init
  BY DEF Init, WQ!Init
<1>2. AccountInv /\ SafeInv /\ [Next]_vars => AccountInv'
  BY AccountNext
<1>3. SafeInv /\ AccountInv /\ [Next]_vars => [WQ!Next]_(WQ!wqVars)
  BY WorkQueueStep
<1>4. QED
  BY <1>1, <1>2, <1>3, AccountInit, SafetyHolds, PTL DEF SafetySpec

-----------------------------------------------------------------------------
(* The heartbeat *)

\* The pulse remembered is the instant after some time that has passed, and
\* later than the one last handed to the algorithm, unless it threw: then
\* the mark stays, and nothing is checked any more.
BeatInv ==
  /\ pulse.first => beat.pulse = 0
  /\ ~ pulse.first => /\ stop # "throw" => beat.pulse < pulse.last
                      /\ \E u \in Nat : u <= CurrentTime(latest) /\ pulse.last = CronNext(u)

BeatStep ==
  beat' # beat => beat'.pulse > beat.pulse /\ beat'.pulse <= beat'.now

\* A time lies between two neighbouring multiples of the period.
LEMMA DivBounds ==
  ASSUME NEW t \in Nat
  PROVE  /\ t \div Period \in Nat
         /\ (t \div Period) * Period <= t
         /\ t < ((t \div Period) + 1) * Period
<1>1. Period \in Nat /\ Period > 0
  BY PipelineAssumption
<1>2. t \div Period \in Nat
  BY <1>1
<1>3. t = (t \div Period) * Period + (t % Period) /\ t % Period \in 0..Period-1
  BY <1>1
<1>4. QED
  BY <1>1, <1>2, <1>3

\* The next instant is later than now, and one worked out earlier is either
\* still the next or has come.
LEMMA CronStep ==
  ASSUME NEW u \in Nat, NEW t \in Nat, u <= t
  PROVE  /\ CronNext(u) \in Nat
         /\ t < CronNext(t)
         /\ CronNext(u) = CronNext(t) \/ CronNext(u) <= t
<1>1. Period \in Nat /\ Period > 0
  BY PipelineAssumption
<1>2. PICK p \in Nat : p = u \div Period
  BY DivBounds
<1>3. PICK q \in Nat : q = t \div Period
  BY DivBounds
<1>4. p * Period <= u /\ u < (p + 1) * Period /\ q * Period <= t /\ t < (q + 1) * Period
  BY <1>2, <1>3, DivBounds
<1>5. p <= q
  BY <1>1, <1>4
<1>6. p < q => (p + 1) * Period <= q * Period
  BY <1>1
<1>7. CronNext(u) = (p + 1) * Period /\ CronNext(t) = (q + 1) * Period
  BY <1>2, <1>3 DEF CronNext
<1>8. (p + 1) * Period \in Nat /\ q * Period \in Nat
  BY <1>1
<1>9. CASE p = q
  BY <1>4, <1>7, <1>8, <1>9
<1>10. CASE p < q
  BY <1>4, <1>6, <1>7, <1>8, <1>10
<1>11. QED
  BY <1>5, <1>9, <1>10

\* No pulse was seen before the first check.
LEMMA BeatInit == Init => BeatInv
  BY DEF Init, BeatInv

\* A step without a check, in which time does not go back.
LEMMA BeatQuiet ==
  ASSUME TypeOK, TypeOK', BeatInv, UNCHANGED <<opt, beatVars>>,
         clock <= clock', latest <= latest', stop = "throw" => stop' = "throw"
  PROVE  BeatInv' /\ BeatStep
<1>1. CurrentTime(latest) \in Nat /\ CurrentTime(latest)' \in Nat
      /\ CurrentTime(latest) <= CurrentTime(latest)'
  BY DEF TypeOK, CurrentTime, IsDaemon
<1>2. pulse' = pulse /\ beat' = beat
  BY DEF beatVars
<1>3. ASSUME NEW u \in Nat, u <= CurrentTime(latest), pulse.last = CronNext(u)
      PROVE  u <= CurrentTime(latest)' /\ pulse'.last = CronNext(u)
  BY <1>1, <1>2, <1>3
<1>4. BeatInv'
  BY <1>2, <1>3 DEF BeatInv
<1>5. QED
  BY <1>2, <1>4 DEF BeatStep

\* Heartbeat::checkForPulse at a time that is the present one or later than
\* every time checked before.
LEMMA BeatCheck ==
  ASSUME TypeOK, TypeOK', BeatInv, UNCHANGED <<opt, clock>>, latest <= latest',
         stop = "no", NEW n \in Nat, CheckForPulse(CurrentTime(latest'), n)
  PROVE  BeatInv' /\ BeatStep
<1>1. PICK now \in Nat : now = CurrentTime(latest')
  BY DEF TypeOK, CurrentTime
<1>2. CurrentTime(latest)' = now /\ CurrentTime(latest) <= now /\ CurrentTime(latest) \in Nat
  BY <1>1 DEF TypeOK, CurrentTime, IsDaemon
<1>3. CASE UNCHANGED beatVars
  <2>1. clock \in Nat /\ clock' = clock
    BY DEF TypeOK
  <2>2. clock <= clock'
    BY <2>1
  <2>3. QED
    BY <1>3, <2>2, BeatQuiet
<1>4. CASE ~ UNCHANGED beatVars
  <2>1. CheckForPulse(now, n)
    BY <1>1
  <2>2. CronNext(now) # pulse.last /\ pulse' = [first |-> FALSE, last |-> CronNext(now)]
    BY <1>4, <2>1 DEF CheckForPulse
  <2>3. CronNext(now) \in Nat /\ now < CronNext(now)
    BY CronStep
  <2>4. pulse'.first = FALSE /\ pulse'.last = CronNext(now)
    BY <2>2
  <2>5. beat \in [now : Nat, pulse : Nat] /\ pulse \in [first : BOOLEAN, last : Nat]
    BY DEF TypeOK
  <2>6. CASE pulse.first
    <3>1. beat' = beat
      BY <1>4, <2>1, <2>6 DEF CheckForPulse, beatVars
    <3>2. beat'.pulse = 0
      BY <2>6, <3>1 DEF BeatInv
    <3>3. beat'.pulse < pulse'.last
      BY <2>3, <2>4, <3>2
    <3>4. QED
      BY <1>2, <2>4, <3>1, <3>3 DEF BeatInv, BeatStep
  <2>7. CASE ~ pulse.first
    <3>1. beat' = [now |-> now, pulse |-> pulse.last]
      BY <1>4, <2>1, <2>7 DEF CheckForPulse, beatVars
    <3>2. beat'.now = now /\ beat'.pulse = pulse.last
      BY <3>1
    <3>3. PICK u \in Nat : u <= CurrentTime(latest) /\ pulse.last = CronNext(u)
      BY <2>7 DEF BeatInv
    <3>4. u <= now
      BY <1>2, <3>3
    <3>5. CronNext(u) = CronNext(now) \/ CronNext(u) <= now
      BY <3>4, CronStep
    <3>6. pulse.last <= now
      BY <2>2, <3>3, <3>5
    <3>7. beat.pulse < pulse.last
      BY <2>7 DEF BeatInv
    <3>8. BeatStep
      BY <3>2, <3>6, <3>7 DEF BeatStep
    <3>9. beat'.pulse < pulse'.last
      BY <2>3, <2>4, <2>5, <3>2, <3>6
    <3>10. QED
      BY <1>2, <2>4, <3>8, <3>9 DEF BeatInv
  <2>8. QED
    BY <2>6, <2>7
<1>5. QED
  BY <1>3, <1>4

\* The same check when the algorithm throws: the pulse is as good, the mark
\* is the old one.
LEMMA BeatThrow ==
  ASSUME TypeOK, TypeOK', BeatInv, UNCHANGED <<opt, clock>>, latest <= latest',
         stop = "no", stop' = "throw",
         NEW n \in Nat, PulseThrows(CurrentTime(latest'), n)
  PROVE  BeatInv' /\ BeatStep
<1>1. PICK now \in Nat : now = CurrentTime(latest')
  BY DEF TypeOK, CurrentTime
<1>2. CurrentTime(latest)' = now /\ CurrentTime(latest) <= now /\ CurrentTime(latest) \in Nat
  BY <1>1 DEF TypeOK, CurrentTime, IsDaemon
<1>3. /\ CronNext(now) # pulse.last /\ ~ pulse.first /\ pulse' = pulse
      /\ beat' = [now |-> now, pulse |-> pulse.last]
  BY <1>1 DEF PulseThrows
<1>4. beat'.now = now /\ beat'.pulse = pulse.last
  BY <1>3
<1>5. PICK u \in Nat : u <= CurrentTime(latest) /\ pulse.last = CronNext(u)
  BY <1>3 DEF BeatInv
<1>6. u <= now
  BY <1>2, <1>5
<1>7. CronNext(u) = CronNext(now) \/ CronNext(u) <= now
  BY <1>6, CronStep
<1>8. pulse.last <= now
  BY <1>3, <1>5, <1>7
<1>9. beat.pulse < pulse.last
  BY <1>3 DEF BeatInv
<1>10. BeatStep
  BY <1>4, <1>8, <1>9 DEF BeatStep
<1>11. BeatInv'
  BY <1>2, <1>3, <1>5, <1>6 DEF BeatInv
<1>12. QED
  BY <1>10, <1>11

\* A step of the program: only the record queue and the heartbeat's timer
\* check for a pulse.
LEMMA BeatNext == TypeOK /\ TypeOK' /\ BeatInv /\ [Next]_vars => BeatInv' /\ BeatStep
<1> SUFFICES ASSUME TypeOK, TypeOK', BeatInv, [Next]_vars PROVE BeatInv' /\ BeatStep
  OBVIOUS
<1>t. clock \in Nat /\ latest \in Nat /\ Len(handled) \in Nat /\ Len(handled') \in Nat
  <2>1. /\ clock \in Nat /\ latest \in Nat
        /\ handled \in Seq(Records) /\ handled' \in Seq(Records)
    BY DEF TypeOK
  <2>2. QED
    BY <2>1
<1>1. CASE UNCHANGED vars
  BY <1>1, <1>t, BeatQuiet DEF vars, beatVars
<1>2. CASE InitialRead \/ InitialReadFails \/ NotAllConnected \/ IngestReady \/ StartLoop
  BY <1>2, <1>t, BeatQuiet
  DEF InitialRead, InitialReadFails, NotAllConnected, IngestReady, StartLoop
<1>3. ASSUME NEW h \in Timers, TimerTick(h) PROVE BeatInv' /\ BeatStep
  BY <1>3, <1>t, BeatQuiet DEF TimerTick
<1>4. ASSUME NEW r \in Records, HandleRecord(r) PROVE BeatInv' /\ BeatStep
  <2>1. r.time \in Nat
    BY PipelineAssumption DEF RecordSet
  <2>2. UNCHANGED <<opt, clock>> /\ latest' = Later(latest, r.time) /\ stop = "no"
    BY <1>4 DEF HandleRecord, Runs, SetLatest
  <2>3. latest <= latest'
    BY <1>t, <2>1, <2>2 DEF Later
  <2>4. CASE IsArchive
    <3>1. CheckForPulse(CurrentTime(latest'), Len(handled'))
      BY <1>4, <2>4 DEF HandleRecord
    <3>2. QED
      BY <1>t, <2>2, <2>3, <3>1, BeatCheck
  <2>5. CASE ~ IsArchive
    <3>1. UNCHANGED beatVars
      BY <1>4, <2>5 DEF HandleRecord
    <3>2. QED
      BY <1>t, <2>2, <2>3, <3>1, BeatQuiet
  <2>6. QED
    BY <2>4, <2>5
<1>5. ASSUME NEW r \in Records, RecordThrows(r) PROVE BeatInv' /\ BeatStep
  <2>1. r.time \in Nat
    BY PipelineAssumption DEF RecordSet
  <2>2. /\ UNCHANGED <<opt, clock>> /\ latest' = Later(latest, r.time)
        /\ stop = "no" /\ stop' = "throw"
    BY <1>5 DEF RecordThrows, Runs, SetLatest
  <2>3. latest <= latest'
    BY <1>t, <2>1, <2>2 DEF Later
  <2>4. CASE UNCHANGED beatVars
    BY <1>t, <2>2, <2>3, <2>4, BeatQuiet
  <2>5. CASE PulseThrows(CurrentTime(latest'), Len(handled) + 1)
    <3>1. Len(handled) + 1 \in Nat
      BY <1>t
    <3>2. QED
      BY <2>2, <2>3, <2>5, <3>1, BeatThrow
  <2>6. QED
    BY <1>5, <2>4, <2>5 DEF RecordThrows
<1>6. CASE HandleEmpty \/ WatcherAction \/ LoopReturns
  BY <1>6, <1>t, BeatQuiet DEF HandleEmpty, Runs, WatcherAction, LoopReturns
<1>7. CASE HeartbeatAction
  <2>1. /\ UNCHANGED <<opt, clock, latest>> /\ CheckForPulse(CurrentTime(latest), Len(handled))
        /\ stop = "no"
    BY <1>7 DEF HeartbeatAction, Runs
  <2>2. CheckForPulse(CurrentTime(latest'), Len(handled)) /\ latest <= latest'
    BY <1>t, <2>1
  <2>3. QED
    BY <1>t, <2>1, <2>2, BeatCheck
<1>7t. CASE HeartbeatThrows
  <2>1. /\ UNCHANGED <<opt, clock, latest>> /\ PulseThrows(CurrentTime(latest), Len(handled))
        /\ stop = "no" /\ stop' = "throw"
    BY <1>7t DEF HeartbeatThrows, Runs
  <2>2. PulseThrows(CurrentTime(latest'), Len(handled)) /\ latest <= latest'
    BY <1>t, <2>1
  <2>3. QED
    BY <1>t, <2>1, <2>2, BeatThrow
<1>8. ASSUME NEW r \in Records, Appear(r) PROVE BeatInv' /\ BeatStep
  BY <1>8, <1>t, BeatQuiet DEF Appear
<1>9. CASE ClockTick
  BY <1>9, <1>t, BeatQuiet DEF ClockTick
<1>10. CASE Signal
  BY <1>10, <1>t, BeatQuiet DEF Signal
<1>11. CASE Terminated
  BY <1>11, <1>1 DEF Terminated
<1>12. QED
  BY <1>1, <1>2, <1>3, <1>4, <1>5, <1>6, <1>7, <1>8, <1>9, <1>10, <1>11, <1>7t DEF Next

\* The pulses an algorithm is given go forward and are never in the future
\* (Heartbeat::checkForPulse, from the timer or after each record).
THEOREM PulsesAdvance == SafetySpec => BeatAdvances
<1>1. SafetySpec => []TypeOK
  BY TypeCorrect
<1>2. BeatStep => [beat' # beat => /\ beat'.pulse > beat.pulse
                                  /\ beat'.pulse <= beat'.now]_vars
  BY DEF BeatStep
<1>3. QED
  BY <1>1, <1>2, BeatInit, BeatNext, PTL DEF SafetySpec, BeatAdvances, BeatStep
==============================================================================
