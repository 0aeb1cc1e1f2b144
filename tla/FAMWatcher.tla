------------------------------ MODULE FAMWatcher ------------------------------
(***************************************************************************)
(* The inotify watcher (base/watcher/rFAMWatcher.cc) of a daemon, from the *)
(* attachment of its inputs on: directories that are created and removed   *)
(* and files that are written into them by other processes, the kernel's   *)
(* notification queue, the watches, and the watcher's own event queue.     *)
(*                                                                         *)
(* A watch descriptor stands for one incarnation of a directory, the       *)
(* kernel's watch on it; it is modelled as that incarnation <<d, g>>.      *)
(***************************************************************************)
EXTENDS Watcher, FiniteSets

CONSTANTS
  NumInputs,   \* watches, attached in the order 1 .. NumInputs
  Dirs,
  DirOf,       \* the directory each input watches
  Files,       \* names; each is used once, in one directory
  MaxGen,      \* bound of the incarnations of each directory
  KernelMax    \* fs.inotify.max_queued_events

Inputs == 1..NumInputs

ASSUME FAMAssumption ==
  /\ NumInputs \in Nat \ {0} /\ KernelMax \in Nat \ {0}
  /\ MaxGen \in [Dirs -> Nat \ {0}]
  /\ DirOf \in [Inputs -> Dirs]

VARIABLES
  archive,   \* -r all: read what is there before watching
  pc,        \* where the main thread is
  attached,  \* inputs attached so far
  wid,       \* FAMInfo::myWatchID of each input, or NoWatch
  due,       \* more than myAutoSeconds since FAMInfo::myTime
  events,    \* myEvents
  scanned,   \* files each input took from its archive scan
  handled,   \* what FileIndex::handleNewEvent was given
  gen,       \* incarnations each directory had
  alive,     \* directories that exist
  file,      \* [state, wd] of each file
  armed,     \* incarnations with a kernel watch
  kq,        \* the kernel's queue, what read() returns
  written,   \* history: files completed in each directory while watched
  dropped    \* incarnations whose end the kernel had no room to report

setupVars == <<archive, attached>>
dirVars   == <<gen, alive, file, armed, written, dropped>>
vars == <<archive, pc, attached, wid, due, events, scanned, handled, gen, alive, file, armed,
          kq, written, dropped>>

Pcs == {"scan", "watch", "idle", "read", "process", "failed"}
WDs == UNION {{d} \X (1..MaxGen[d]) : d \in Dirs}
NoWatch == <<>>
KernelEvents == [wd : WDs, kind : {"create", "file", "ignored"}, file : Files \cup {"none"}]
FileStates == {"absent", "open", "closed", "gone"}
Writings == [file : Files, reported : BOOLEAN]

Wd(d) == <<d, gen[d]>>
Present(d) == {f \in Files : d \in alive /\ file[f].wd = Wd(d) /\ file[f].state \in {"open", "closed"}}

\* What g, a function, makes of the elements of s it is defined for, in their
\* order.
Gather(s, g) ==
  LET upto[n \in 0..Len(s)] ==
        IF n = 0 THEN <<>>
        ELSE IF s[n] \in DOMAIN g THEN Append(upto[n - 1], g[s[n]]) ELSE upto[n - 1]
  IN  upto[Len(s)]

-----------------------------------------------------------------------------
(* Other processes and the kernel *)

\* The kernel queues a notification for a watched directory, or drops it.
Notify(wd, kind, f) ==
  kq' = IF wd \in armed /\ Len(kq) < KernelMax
        THEN Append(kq, [wd |-> wd, kind |-> kind, file |-> f])
        ELSE kq

MakeDir(d) ==
  /\ d \notin alive /\ gen[d] < MaxGen[d]
  /\ gen' = [gen EXCEPT ![d] = @ + 1]
  /\ alive' = alive \cup {d}
  /\ UNCHANGED <<setupVars, pc, wid, due, events, scanned, handled, file, armed, kq, written, dropped>>

\* IN_DELETE_SELF and IN_IGNORED: the kernel's watch is gone.
RemoveDir(d) ==
  /\ d \in alive
  /\ alive' = alive \ {d}
  /\ armed' = armed \ {Wd(d)}
  /\ file' = [f \in Files |-> IF file[f].wd = Wd(d) THEN [file[f] EXCEPT !.state = "gone"] ELSE file[f]]
  /\ Notify(Wd(d), "ignored", "none")
  /\ dropped' = IF Wd(d) \in armed /\ Len(kq) = KernelMax THEN dropped \cup {Wd(d)} ELSE dropped
  /\ UNCHANGED <<setupVars, pc, wid, due, events, scanned, handled, gen, written>>

\* Names are interchangeable: a new file takes a fixed one.
Fresh(f) == file[f].state = "absent" /\ f = CHOOSE x \in Files : file[x].state = "absent"

\* A writer opens a file: IN_CREATE.  (A subdirectory is one more event, that
\* the index only logs.)
Create(f, d) ==
  /\ d \in alive /\ Fresh(f)
  /\ file' = [file EXCEPT ![f] = [state |-> "open", wd |-> Wd(d)]]
  /\ Notify(Wd(d), "create", f)
  /\ UNCHANGED <<setupVars, pc, wid, due, events, scanned, handled, gen, alive, armed, written, dropped>>

\* The file is there, complete: IN_CLOSE_WRITE by its writer, IN_MOVED_TO
\* if it was written elsewhere (FMLRecordNotifier's .working).  A kernel
\* queue that is full reports no file; the IN_Q_OVERFLOW that says so has no
\* watch's descriptor and adds no event.
Complete(f, d) ==
  /\ d \in alive
  /\ Fresh(f) \/ (file[f].state = "open" /\ file[f].wd = Wd(d))
  /\ file' = [file EXCEPT ![f] = [state |-> "closed", wd |-> Wd(d)]]
  /\ Notify(Wd(d), "file", f)
  /\ written' = IF Wd(d) \in armed
                THEN [written EXCEPT ![d] = Append(@, [file |-> f, reported |-> Len(kq) < KernelMax])]
                ELSE written
  /\ UNCHANGED <<setupVars, pc, wid, due, events, scanned, handled, gen, alive, armed, dropped>>

-----------------------------------------------------------------------------
(* FAMWatcher::attach *)

\* Mutant: the result of inotify_add_watch is not looked at.
ConnectAnyway(S) ==
  /\ wid' = [i \in Inputs |-> IF i \in S THEN Wd(DirOf[i]) ELSE wid[i]]
  /\ armed' = armed \cup {Wd(d) : d \in {DirOf[i] : i \in S} \cap alive}
  /\ due' = [i \in Inputs |-> due[i] /\ i \notin S]

\* attach(FAMInfo): inotify_add_watch on whatever is there now.  On a
\* directory that is watched already it returns the same descriptor.
Connect(S) ==
  /\ wid' = [i \in Inputs |->
               IF i \in S THEN (IF DirOf[i] \in alive THEN Wd(DirOf[i]) ELSE NoWatch) ELSE wid[i]]
  /\ armed' = armed \cup {Wd(d) : d \in {DirOf[i] : i \in S} \cap alive}
  /\ due' = [i \in Inputs |-> due[i] /\ i \notin S]

\* The archive scan: every file there is goes to handleFile, whether its
\* writer is done or not.  Without the directory the input fails.
Scan ==
  LET i == attached + 1 IN
  /\ pc = "scan"
  /\ IF ~ archive
     THEN pc' = "watch" /\ UNCHANGED scanned
     ELSE IF DirOf[i] \in alive
          THEN pc' = "watch" /\ scanned' = [scanned EXCEPT ![i] = Present(DirOf[i])]
          ELSE pc' = "failed" /\ UNCHANGED scanned
  /\ UNCHANGED <<setupVars, wid, due, events, handled, kq, dirVars>>

\* Broken or not, the watch is kept (myAutoReconnect is TRUE).
AddWatch ==
  /\ pc = "watch"
  /\ Connect({attached + 1})
  /\ attached' = attached + 1
  /\ pc' = IF attached' = NumInputs THEN "idle" ELSE "scan"
  /\ UNCHANGED <<archive, events, scanned, handled, gen, alive, file, kq, written, dropped>>

-----------------------------------------------------------------------------
(* WatcherType::action on a timer tick *)

Disconnected == {i \in Inputs : wid[i] = NoWatch /\ due[i]}

\* Time passes; it makes a difference to a watch that is not connected.
WaitOver(i) ==
  /\ ~ due[i] /\ i <= attached /\ wid[i] = NoWatch
  /\ due' = [due EXCEPT ![i] = TRUE]
  /\ UNCHANGED <<setupVars, pc, wid, events, scanned, handled, kq, dirVars>>

\* Mutant: a lost watch is not tried again.
StartReadOnly ==
  /\ pc = "idle" /\ ~ QueueIsThrottled(events)
  /\ pc' = "read"
  /\ UNCHANGED <<setupVars, wid, due, events, scanned, handled, kq, dirVars>>

\* getEvents() first tries to reconnect the broken watches.
StartRead ==
  /\ pc = "idle" /\ ~ QueueIsThrottled(events)
  /\ Connect(Disconnected)
  /\ pc' = "read"
  /\ UNCHANGED <<setupVars, events, scanned, handled, gen, alive, file, kq, written, dropped>>

\* The queue is full: no events are asked for.
SkipRead ==
  /\ pc = "idle" /\ QueueIsThrottled(events)
  /\ pc' = "process"
  /\ UNCHANGED <<setupVars, wid, due, events, scanned, handled, kq, dirVars>>

\* The watch a notification is for: the first that has its descriptor.
Watched(wd) == \E i \in Inputs : wid[i] = wd
Match(wd) == CHOOSE i \in Inputs : wid[i] = wd /\ \A j \in Inputs : wid[j] = wd => i <= j

\* Mutant: a lost watch keeps its descriptor.
NewWidsKept(chunk) == wid

\* addFAMEvent: IN_IGNORED disconnects the watch.  An incarnation has one
\* such notification, its last, so Match does not change within a chunk.
NewWids(chunk) ==
  [i \in Inputs |->
     IF \E j \in 1..Len(chunk) :
          chunk[j].kind = "ignored" /\ Watched(chunk[j].wd) /\ Match(chunk[j].wd) = i
     THEN NoWatch ELSE wid[i]]

\* The event a notification becomes.
EventOf(k) == [input |-> Match(k.wd), kind |-> k.kind, file |-> k.file]

\* Mutant: IN_CREATE of a file is taken for the file.
CreatedToo(chunk) ==
  Gather(chunk, [k \in {n \in KernelEvents : Watched(n.wd)} |->
                   [EventOf(k) EXCEPT !.kind = IF @ = "create" THEN "file" ELSE @]])

\* addFAMEvent: the events a chunk of notifications adds; IN_CREATE of a
\* file adds none.
NewEvents(chunk) ==
  Gather(chunk, [k \in {n \in KernelEvents : n.kind # "create" /\ Watched(n.wd)} |-> EventOf(k)])

\* One read(): as many notifications as fit in the buffer.  getEvents reads
\* on while there are no events or a read brought some.
Read(n) ==
  LET chunk == SubSeq(kq, 1, n) IN
  /\ pc = "read"
  /\ n \in 1..Len(kq)
  /\ kq' = SubSeq(kq, n + 1, Len(kq))
  /\ events' = events \o NewEvents(chunk)
  /\ wid' = NewWids(chunk)
  /\ pc' = IF events' = <<>> \/ Len(events') # Len(events) THEN "read" ELSE "process"
  /\ UNCHANGED <<setupVars, due, scanned, handled, dirVars>>

\* EAGAIN.
ReadNothing ==
  /\ pc = "read" /\ kq = <<>>
  /\ pc' = "process"
  /\ UNCHANGED <<setupVars, wid, due, events, scanned, handled, kq, dirVars>>

\* processEvents(): FileIndex::handleNewEvent adds a record for "newfile"
\* and only logs "unmountr".
Process ==
  /\ pc = "process"
  /\ handled' = handled \o Batch(events)
  /\ events' = Rest(events)
  /\ pc' = "idle"
  /\ UNCHANGED <<setupVars, wid, due, scanned, kq, dirVars>>

\* An input could not be read; the ingestor exits the program.
Terminated == pc = "failed" /\ UNCHANGED vars

-----------------------------------------------------------------------------
Init ==
  /\ archive \in BOOLEAN
  /\ pc = "scan" /\ attached = 0
  /\ wid = [i \in Inputs |-> NoWatch] /\ due = [i \in Inputs |-> FALSE]
  /\ events = <<>> /\ handled = <<>> /\ scanned = [i \in Inputs |-> {}]
  /\ gen = [d \in Dirs |-> 0] /\ alive = {}
  /\ file = [f \in Files |-> [state |-> "absent", wd |-> NoWatch]]
  /\ armed = {} /\ kq = <<>> /\ written = [d \in Dirs |-> <<>>] /\ dropped = {}

ReadStep == ReadNothing \/ \E n \in 1..KernelMax : Read(n)

Environment ==
  \/ \E d \in Dirs : MakeDir(d) \/ RemoveDir(d)
  \/ \E f \in Files, d \in Dirs :
       Complete(f, d) \/ Create(f, d)

Next ==
  \/ pc # "failed" /\ Environment
  \/ Scan \/ AddWatch \/ StartRead \/ SkipRead \/ ReadStep \/ Process
  \/ \E i \in Inputs : WaitOver(i)
  \/ Terminated

\* The main thread runs, its timer fires, and time passes.
Fairness ==
  /\ WF_vars(Scan) /\ WF_vars(AddWatch) /\ WF_vars(StartRead) /\ WF_vars(SkipRead)
  /\ WF_vars(ReadStep) /\ WF_vars(Process)
  /\ \A i \in Inputs : WF_vars(WaitOver(i))

SafetySpec == Init /\ [][Next]_vars
Spec == SafetySpec /\ Fairness

-----------------------------------------------------------------------------
(* Properties *)

\* The type of the state.
TypeOK ==
  /\ archive \in BOOLEAN /\ pc \in Pcs /\ attached \in 0..NumInputs
  /\ wid \in [Inputs -> WDs \cup {NoWatch}] /\ due \in [Inputs -> BOOLEAN]
  /\ scanned \in [Inputs -> SUBSET Files]
  /\ gen \in [Dirs -> Nat] /\ (\A d \in Dirs : gen[d] <= MaxGen[d]) /\ alive \subseteq Dirs
  /\ file \in [Files -> [state : FileStates, wd : WDs \cup {NoWatch}]]
  /\ armed \subseteq WDs /\ dropped \subseteq WDs
  /\ \A i \in 1..Len(kq) : kq[i] \in KernelEvents
  /\ Len(kq) <= KernelMax
  /\ \A d \in Dirs : \A i \in 1..Len(written[d]) : written[d][i] \in Writings
  /\ \A s \in {events, handled} : \A i \in 1..Len(s) :
       s[i].input \in Inputs /\ s[i].kind \in {"file", "ignored"}

\* The files among what was queued for an input, and among what the kernel
\* has queued for a directory.
FilesFor(i, s) ==
  Gather(s, [e \in [input : {i}, kind : {"file"}, file : Files] |-> e.file])
FilesIn(d, s) ==
  Gather(s, [k \in {n \in KernelEvents : n.wd[1] = d /\ n.kind = "file"} |-> k.file])

\* The files among s that the kernel had room to report.
Reported(s) == Gather(s, [x \in {y \in Writings : y.reported} |-> x.file])

\* What was written into a watched directory reaches its input once and in the
\* order it was written, over disconnections and reconnections, and only the
\* files are missing that were completed when the kernel's queue was full; if
\* every input has a directory of its own.
InOrder ==
  \A i \in Inputs :
    Reported(written[DirOf[i]]) = FilesFor(i, handled) \o FilesFor(i, events) \o FilesIn(DirOf[i], kq)

\* A watch that takes itself for connected is, or a notification that it is
\* not is under way; unless the kernel had to drop that notification, and
\* then the watch is lost for good.
WatchHonest ==
  \A i \in Inputs :
    wid[i] # NoWatch =>
      \/ wid[i] \in armed /\ DirOf[i] \in alive /\ wid[i] = Wd(DirOf[i])
      \/ \E j \in 1..Len(kq) : kq[j].kind = "ignored" /\ kq[j].wd = wid[i]
      \/ wid[i] \in dropped

\* An input is never out of touch for good with a directory that is there.
Reconnects ==
  \A i \in Inputs :
    []<>(\/ pc = "failed"
         \/ DirOf[i] \notin alive \/ wid[i] = Wd(DirOf[i])
         \/ wid[i] \in dropped)

\* A file written into a watched directory is handed to the index, unless it
\* was completed when the kernel's queue was full, or the program ended because
\* it could not attach an input.
FileHandled ==
  \A f \in Files :
    (\E d \in Dirs : \E j \in 1..Len(written[d]) : written[d][j].file = f)
      ~> (\/ pc = "failed"
          \/ \E j \in 1..Len(handled) : handled[j].file = f
          \/ \E d \in Dirs : \E j \in 1..Len(written[d]) : written[d][j] = [file |-> f, reported |-> FALSE])

\* "All old records, then wait for new." (rPluginRealTime.cc:25): with -r all
\* a file of a watched directory is taken by the scan or handed over later, if
\* its directory stays.
AllOldThenNew ==
  \A f \in Files, i \in Inputs :
    (archive /\ pc = "idle" /\ file[f].state = "closed" /\ file[f].wd[1] = DirOf[i])
      ~> (\/ file[f].state = "gone"
          \/ f \in scanned[i] \/ \E j \in 1..Len(handled) : handled[j].file = f)
==============================================================================
