---------------------------- MODULE RecordPipeline ----------------------------
(***************************************************************************)
(* A RAPIO algorithm from its plugins to its exit: the ingestor reads the  *)
(* -i inputs and fills the RecordQueue, the main loop hands the records to *)
(* the algorithm in order, watchers bring in new records, and the -sync    *)
(* heartbeat fires.  Everything here runs on the main thread, one handler  *)
(* at a time; the environment creates records, moves the clock and sends   *)
(* signals between two handlers.                                           *)
(***************************************************************************)
EXTENDS EventLoop, Integers

CONSTANTS
  Records,       \* the records the inputs may ever hold, see RecordSet
  NumInputs,     \* inputs given with -i, labelled 0 .. NumInputs - 1
  ProcessCount,  \* WatcherType::myProcessCount
  Period,        \* -sync: a heartbeat is due at every multiple of Period
  MaxClock       \* bound of the wall clock

\* What operator< and the heartbeat see of a record, and the input that reads
\* it; id tells apart two records with one key.  index is the index number:
\* the label of the input where the index is read through ConfigRecord, the
\* constructor's 0 where files are handled one by one (FileIndex).
RecordSet == [id : Nat, time : Nat, input : Nat, index : Nat, sub : Nat, type : Nat]

ASSUME PipelineAssumption ==
  /\ Records \subseteq RecordSet
  /\ \A r \in Records : r.input < NumInputs /\ r.index \in {0, r.input}
  /\ NumInputs \in Nat \ {0}
  /\ ProcessCount \in Nat \ {0}
  /\ Period \in Nat \ {0}
  /\ MaxClock \in Nat
  /\ {"RecordQueue", "Watcher", "HeartbeatTimer"} \subseteq Handlers

VARIABLES
  opt,        \* [mode: the -r option, sync: whether -sync was given]
  phase,      \* plugins -> ready -> loop -> exited
  stop,       \* why the io_context was stopped, or "no"
  loop,       \* the trigger, see EventLoop
  tried,      \* inputs whose initialRead has returned, with success or not
  count,      \* those it succeeded for
  watched,    \* inputs with a watch
  appeared,   \* records that exist at the inputs
  events,     \* events a watcher has yet to hand to its index
  accepted,   \* every record ever pushed (pushedRecords counts them)
  queue,      \* RecordQueue::myQueue
  handled,    \* records the algorithm processed without throwing, in order
  clock,      \* the system clock
  latest,     \* Time::myLastHistoryTime
  pulse,      \* Heartbeat's myFirstPulse and myLastPulseTime
  beat,       \* the arguments of the last processHeartbeat call
  covered     \* how many records were handled before that call

inputVars == <<tried, count, watched>>
beatVars  == <<pulse, beat, covered>>
vars == <<opt, phase, stop, loop, tried, count, watched, appeared, events,
          accepted, queue, handled, clock, latest, pulse, beat, covered>>

Phases  == {"plugins", "ready", "loop", "exited"}
Reasons == {"no", "end", "signal", "throw", "connect"}
Modes   == {"old", "new", "all"}
Timers  == {"Watcher", "HeartbeatTimer"}

-----------------------------------------------------------------------------
(* Options: PluginRealTime *)

IsDaemon  == opt.mode \in {"new", "all"}
IsArchive == opt.mode \in {"old", "all"}

\* Time::CurrentTime() once execute() has called setArchiveMode(!isDaemon()).
CurrentTime(lastData) == IF IsDaemon THEN clock ELSE lastData

Later(a, b) == IF a > b THEN a ELSE b

(* Record order: operator<, and the top of the priority queue *)

Before(a, b) ==
  \/ a.time < b.time
  \/ a.time = b.time /\ a.index < b.index
  \/ a.time = b.time /\ a.index = b.index /\ a.sub < b.sub
  \/ a.time = b.time /\ a.index = b.index /\ a.sub = b.sub /\ a.type < b.type

\* Mutant: the queue compares times only.
TopByTime(q) == {r \in q : \A s \in q : ~ (s.time < r.time)}

\* Of records with one key any may be on top.
Top(q) == {r \in q : \A s \in q : ~ Before(s, r)}

-----------------------------------------------------------------------------
(* Heartbeat *)

\* cron_next: the first instant after t that matches "every Period".
CronNext(t) == ((t \div Period) + 1) * Period

\* Mutant: the pulse remembered is the time of the check.
CheckForPulseNow(now, n) ==
  LET next == CronNext(now) IN
  IF ~ opt.sync \/ next = pulse.last
  THEN UNCHANGED beatVars
  ELSE /\ pulse' = [first |-> FALSE, last |-> now]
       /\ IF pulse.first
          THEN UNCHANGED <<beat, covered>>
          ELSE beat' = [now |-> now, pulse |-> pulse.last] /\ covered' = n

\* Heartbeat::checkForPulse at time `now', n records handled so far.  The
\* first pulse only sets the mark.
CheckForPulse(now, n) ==
  LET next == CronNext(now) IN
  IF ~ opt.sync \/ next = pulse.last
  THEN UNCHANGED beatVars
  ELSE /\ pulse' = [first |-> FALSE, last |-> next]
       /\ IF pulse.first
          THEN UNCHANGED <<beat, covered>>
          ELSE beat' = [now |-> now, pulse |-> pulse.last] /\ covered' = n

\* The same check when the algorithm throws out of processHeartbeat, which it
\* does before the mark is set.
PulseThrows(now, n) ==
  /\ opt.sync /\ CronNext(now) # pulse.last /\ ~ pulse.first
  /\ beat' = [now |-> now, pulse |-> pulse.last] /\ covered' = n
  /\ UNCHANGED pulse

\* PluginHeartbeat::execute adds the timer only outside archive reading.
HasHeartbeatTimer == opt.sync /\ ~ IsArchive
HasTimer(h) == h = "Watcher" \/ (h = "HeartbeatTimer" /\ HasHeartbeatTimer)

-----------------------------------------------------------------------------
(* RecordQueue *)

\* Mutant: addRecord forgets setReady().
PushAllSilently(l, S) ==
  /\ queue' = queue \cup S
  /\ accepted' = accepted \cup S
  /\ loop' = l

\* addRecord for each record of S, the trigger being l.
PushAll(l, S) ==
  /\ queue' = queue \cup S
  /\ accepted' = accepted \cup S
  /\ loop' = IF S = {} THEN l ELSE SetReady(l, "RecordQueue")

\* The loop is free to run the completion of h.
Runs(h) == phase = "loop" /\ stop = "no" /\ NextHandler(loop, h)

\* Mutant: the queue is not armed again after a record.
EndActionDrained(rest) ==
  IF rest = {}
  THEN loop' = ExecuteAction(loop) /\ stop' = IF IsDaemon THEN "no" ELSE "end"
  ELSE loop' = ExecuteAction(loop) /\ stop' = "no"

\* Mutant: one record left counts as none.
EndActionOneLeft(rest) ==
  IF \A r, s \in rest : r = s
  THEN loop' = ExecuteAction(loop) /\ stop' = IF IsDaemon THEN "no" ELSE "end"
  ELSE loop' = SetReady(ExecuteAction(loop), "RecordQueue") /\ stop' = "no"

\* End of RecordQueue::action: fire again, or tell the algorithm that the
\* data set ended, which stops an archive run (handleEndDatasetEvent).
EndAction(rest) ==
  IF rest = {}
  THEN loop' = ExecuteAction(loop) /\ stop' = IF IsDaemon THEN "no" ELSE "end"
  ELSE loop' = SetReady(ExecuteAction(loop), "RecordQueue") /\ stop' = "no"

\* Time::setLatestDataTime.
SetLatest(r) == latest' = Later(latest, r.time)

\* RecordQueue::action with a record: pop the top, RAPIOAlgorithm::
\* handleRecordEvent, then the plugins' postRecordEvent.
HandleRecord(r) ==
  /\ Runs("RecordQueue")
  /\ r \in Top(queue)
  /\ queue' = queue \ {r}
  /\ handled' = Append(handled, r)
  /\ SetLatest(r)
  /\ IF IsArchive
     THEN CheckForPulse(CurrentTime(latest'), Len(handled'))
     ELSE UNCHANGED beatVars
  /\ EndAction(queue')
  /\ UNCHANGED <<opt, phase, inputVars, appeared, events, accepted, clock>>

\* RecordQueue::action on an empty queue: only the end-of-data-set event.
HandleEmpty ==
  /\ Runs("RecordQueue")
  /\ queue = {}
  /\ EndAction(queue)
  /\ UNCHANGED <<opt, phase, inputVars, appeared, events, accepted, queue, handled,
                 clock, latest, beatVars>>

\* The algorithm throws, out of processNewData or out of the heartbeat after
\* it: the record is already popped and doEventLoop's catch ends the loop.
RecordThrows(r) ==
  /\ Runs("RecordQueue")
  /\ r \in Top(queue)
  /\ queue' = queue \ {r}
  /\ SetLatest(r)
  /\ loop' = ExecuteAction(loop)
  /\ stop' = "throw"
  /\ \/ UNCHANGED beatVars
     \/ IsArchive /\ PulseThrows(CurrentTime(latest'), Len(handled) + 1)
  /\ UNCHANGED <<opt, phase, inputVars, appeared, events, accepted, handled, clock>>

-----------------------------------------------------------------------------
(* PluginIngestor::execute *)

\* initialRead of the next input: an archive run takes what exists, a
\* daemon watches for what comes.
InitialRead ==
  /\ phase = "plugins"
  /\ tried < NumInputs
  /\ PushAll(loop, IF IsArchive THEN {r \in appeared : r.input = tried} ELSE {})
  /\ watched' = IF IsDaemon THEN watched \cup {tried} ELSE watched
  /\ tried' = tried + 1 /\ count' = count + 1
  /\ UNCHANGED <<opt, phase, stop, appeared, events, handled, clock, latest, beatVars>>

\* Mutant: a failed input is counted as read, and not passed over.
InitialReadFailsCounted ==
  /\ phase = "plugins"
  /\ tried < NumInputs
  /\ count < NumInputs
  /\ count' = count + 1
  /\ UNCHANGED <<opt, phase, stop, loop, tried, watched, appeared, events, accepted,
                 queue, handled, clock, latest, beatVars>>

\* An index cannot be created or read; the ingestor goes on with the next.
InitialReadFails ==
  /\ phase = "plugins"
  /\ tried < NumInputs
  /\ tried' = tried + 1
  /\ UNCHANGED <<opt, phase, stop, loop, count, watched, appeared, events, accepted,
                 queue, handled, clock, latest, beatVars>>

\* Not every input connected: exit(1), whatever was read.
NotAllConnected ==
  /\ phase = "plugins"
  /\ tried = NumInputs /\ count # tried
  /\ phase' = "exited"
  /\ stop' = IF stop = "no" THEN "connect" ELSE stop
  /\ UNCHANGED <<opt, loop, inputVars, appeared, events, accepted, queue, handled,
                 clock, latest, beatVars>>

\* Mutant: the ingestor trusts addRecord to have scheduled the queue.
IngestReadyNoTrigger ==
  /\ phase = "plugins"
  /\ tried = NumInputs /\ count = tried
  /\ phase' = "ready"
  /\ UNCHANGED <<opt, stop, loop, inputVars, appeared, events, accepted, queue, handled,
                 clock, latest, beatVars>>

\* All inputs are read: q->setReady(), "important for the end record event
\* on empty queue".
IngestReady ==
  /\ phase = "plugins"
  /\ tried = NumInputs /\ count = tried
  /\ phase' = "ready"
  /\ loop' = SetReady(loop, "RecordQueue")
  /\ UNCHANGED <<opt, stop, inputVars, appeared, events, accepted, queue, handled,
                 clock, latest, beatVars>>

-----------------------------------------------------------------------------
(* The main loop: EventLoop::doEventLoop *)

\* RAPIOAlgorithm::execute enters doEventLoop, which starts the timers.
StartLoop ==
  /\ phase = "ready"
  /\ phase' = "loop"
  /\ UNCHANGED <<opt, stop, loop, inputVars, appeared, events, accepted, queue, handled,
                 clock, latest, beatVars>>

\* A timer expires: setReady() and re-arm.  A tick whose handler is already
\* scheduled changes nothing.
TimerTick(h) ==
  /\ phase = "loop" /\ stop = "no"
  /\ HasTimer(h)
  /\ ~ loop.flag[h]
  /\ loop' = SetReady(loop, h)
  /\ UNCHANGED <<opt, phase, stop, inputVars, appeared, events, accepted, queue, handled,
                 clock, latest, beatVars>>

\* WatcherType::action: up to ProcessCount events go to their index, which
\* adds their records to the queue.
WatcherAction ==
  /\ Runs("Watcher")
  /\ LET n == IF Len(events) < ProcessCount THEN Len(events) ELSE ProcessCount
     IN  /\ PushAll(ExecuteAction(loop), {events[i] : i \in 1..n})
         /\ events' = SubSeq(events, n + 1, Len(events))
  /\ UNCHANGED <<opt, phase, stop, inputVars, appeared, handled, clock, latest, beatVars>>

HeartbeatAction ==
  /\ Runs("HeartbeatTimer")
  /\ loop' = ExecuteAction(loop)
  /\ CheckForPulse(CurrentTime(latest), Len(handled))
  /\ UNCHANGED <<opt, phase, stop, inputVars, appeared, events, accepted, queue, handled,
                 clock, latest>>

\* The algorithm throws out of processHeartbeat, called by the timer.
HeartbeatThrows ==
  /\ Runs("HeartbeatTimer")
  /\ loop' = ExecuteAction(loop)
  /\ stop' = "throw"
  /\ PulseThrows(CurrentTime(latest), Len(handled))
  /\ UNCHANGED <<opt, phase, inputVars, appeared, events, accepted, queue, handled,
                 clock, latest>>

\* run() returns once the context is stopped, and the program ends.
LoopReturns ==
  /\ phase = "loop"
  /\ stop # "no"
  /\ phase' = "exited"
  /\ UNCHANGED <<opt, stop, loop, inputVars, appeared, events, accepted, queue, handled,
                 clock, latest, beatVars>>

-----------------------------------------------------------------------------
(* The environment *)

\* A new record is created at its input.
Appear(r) ==
  /\ phase # "exited"
  /\ r \notin appeared
  /\ appeared' = appeared \cup {r}
  /\ events' = IF r.input \in watched THEN Append(events, r) ELSE events
  /\ UNCHANGED <<opt, phase, stop, loop, inputVars, accepted, queue, handled,
                 clock, latest, beatVars>>

ClockTick ==
  /\ phase # "exited"
  /\ clock < MaxClock
  /\ clock' = clock + 1
  /\ UNCHANGED <<opt, phase, stop, loop, inputVars, appeared, events, accepted, queue,
                 handled, latest, beatVars>>

\* Signals::handleSignal calls EventLoop::exit from whatever thread; before
\* run() it makes the later run() return at once.
Signal ==
  /\ phase # "exited"
  /\ stop = "no"
  /\ stop' = "signal"
  /\ UNCHANGED <<opt, phase, loop, inputVars, appeared, events, accepted, queue, handled,
                 clock, latest, beatVars>>

\* The process is gone.
Terminated == phase = "exited" /\ UNCHANGED vars

-----------------------------------------------------------------------------
Init ==
  /\ opt \in [mode : Modes, sync : BOOLEAN]
  /\ phase = "plugins" /\ stop = "no"
  /\ loop = IdleLoop
  /\ tried = 0 /\ count = 0 /\ watched = {}
  /\ appeared \in SUBSET Records
  /\ events = <<>>
  /\ accepted = {} /\ queue = {} /\ handled = <<>>
  /\ clock = 0 /\ latest = 0
  /\ pulse = [first |-> TRUE, last |-> 0]
  /\ beat = [now |-> 0, pulse |-> 0] /\ covered = 0

Next ==
  \/ InitialRead \/ InitialReadFails \/ NotAllConnected \/ IngestReady \/ StartLoop
  \/ \E h \in Timers : TimerTick(h)
  \/ \E r \in Records : HandleRecord(r) \/ RecordThrows(r)
  \/ HandleEmpty \/ WatcherAction \/ HeartbeatAction \/ HeartbeatThrows \/ LoopReturns
  \/ \E r \in Records : Appear(r)
  \/ ClockTick \/ Signal \/ Terminated

\* The main thread keeps running and steady timers expire.  Nothing is
\* assumed of the environment, of signals, of failures.
Fairness ==
  /\ WF_vars(InitialRead \/ InitialReadFails \/ NotAllConnected)
  /\ WF_vars(IngestReady) /\ WF_vars(StartLoop)
  /\ \A h \in Timers : WF_vars(TimerTick(h))
  /\ WF_vars(HandleEmpty \/ \E r \in Records : HandleRecord(r))
  /\ WF_vars(WatcherAction) /\ WF_vars(HeartbeatAction) /\ WF_vars(LoopReturns)

SafetySpec == Init /\ [][Next]_vars
Spec == SafetySpec /\ Fairness

-----------------------------------------------------------------------------
(* Properties *)

\* The type of the state; no more inputs succeed than were tried.
TypeOK ==
  /\ opt \in [mode : Modes, sync : BOOLEAN]
  /\ phase \in Phases /\ stop \in Reasons
  /\ loop \in LoopStates
  /\ tried \in 0..NumInputs /\ count \in 0..tried /\ watched \subseteq 0..NumInputs
  /\ appeared \subseteq Records
  /\ events \in Seq(Records)
  /\ accepted \subseteq Records /\ queue \subseteq Records
  /\ handled \in Seq(Records)
  /\ clock \in Nat /\ latest \in Nat
  /\ pulse \in [first : BOOLEAN, last : Nat]
  /\ beat \in [now : Nat, pulse : Nat] /\ covered \in Nat

\* A handler whose flag is up has exactly one completion waiting, one whose
\* flag is down has none: a flag left up alone would silence the record
\* queue for ever, a second completion would run it twice (isScheduled in
\* rEventTimer.h, across all callers of setReady).
TriggerConsistent == TriggerOK(loop, {})

\* While the program may still run, a record queue with records in it is
\* scheduled; and once the inputs are read an archive run is scheduled even
\* if no record was found, or the end-of-data-set event that ends it would
\* never be sent ("important for the end record event on empty queue").
QueueScheduled ==
  stop = "no" =>
    /\ queue # {} => loop.flag["RecordQueue"]
    /\ phase \in {"ready", "loop"} /\ ~ IsDaemon => loop.flag["RecordQueue"]

\* Every record accepted is waiting or was handled exactly once, save the one
\* whose handler threw: the two counters the program logs at the end of an
\* archive, poppedRecords and pushedRecords, agree when it ends by itself.
RecordsAccounted ==
  LET done == {handled[i] : i \in 1..Len(handled)} IN
  /\ queue \cap done = {}
  /\ \A i, j \in 1..Len(handled) : handled[i] = handled[j] => i = j
  /\ stop # "throw" => accepted = queue \cup done
  /\ \A r, s \in accepted \ (queue \cup done) : r = s
  /\ stop = "end" => queue = {}

\* An archive run hands the records of all its inputs to the algorithm in
\* the order of operator<: by time, then by index number (which file inputs
\* leave at 0, so their ties are not resolved by input), then by type.
ArchiveSorted ==
  opt.mode = "old" =>
    \A i, j \in 1..Len(handled) : i < j => ~ Before(handled[j], handled[i])

\* A heartbeat is for a pulse later than the last one's, and that pulse is
\* not in the future of the time the algorithm is given (processHeartbeat's
\* two arguments).
BeatAdvances ==
  [][beat' # beat => /\ beat'.pulse > beat.pulse
                     /\ beat'.pulse <= beat'.now]_vars

\* An archive run ends, whatever its inputs hold.
ArchiveTerminates == opt.mode = "old" ~> phase = "exited"

\* The queue as its users see it.
WQ == INSTANCE WorkQueue
        WITH Items <- Records, pending <- queue, served <- handled,
             open <- (stop = "no" /\ phase # "exited")

\* The record queue implements WorkQueue: a record is handled at most once,
\* only after it was queued and never once the loop has ended; a record whose
\* handler throws is lost with the loop; and while the loop runs it keeps
\* serving as long as records wait.
ImplementsWorkQueue == WQ!Spec

\* PluginHeartbeat's help of -sync: "Archive mode triggers when the latest
\* record is 'sync' time newer than the last, and once at the end of the
\* archive to finalize" (rPluginHeartbeat.cc:28).  So an archive that ended
\* by itself, and had a heartbeat at all, had one after its last record.
FinalBeat ==
  (phase = "exited" /\ stop = "end" /\ opt.mode = "old" /\ beat.pulse # 0)
    => covered = Len(handled)
==============================================================================
