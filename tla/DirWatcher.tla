------------------------------ MODULE DirWatcher ------------------------------
(***************************************************************************)
(* The polling watcher (base/watcher/rDirWatcher.cc) with one watch on a   *)
(* tree of directories that other processes write into meanwhile.  A scan  *)
(* is a walk, entry by entry, that takes every file whose ctime is over    *)
(* the watch's threshold and descends into every directory whose ctime is; *)
(* the newest ctime it took is the next threshold.                         *)
(***************************************************************************)
EXTENDS Watcher, FiniteSets

CONSTANTS
  Files, Subs,  \* names of files and of subdirectories, "root" is neither
  Parent,       \* the directory each of them is in
  PerSecond,    \* ticks of the file system's clock in a second
  MaxTime       \* bound of that clock

Entries == Files \cup Subs

ASSUME DirAssumption ==
  /\ Files \cap Subs = {} /\ "root" \notin Entries /\ "none" \notin Entries
  /\ Parent \in [Entries -> Subs \cup {"root"}]
  /\ PerSecond \in Nat \ {0} /\ MaxTime \in Nat \ {0}

VARIABLES
  mode,     \* -r old, new or all
  pc,       \* where the main thread is
  stack,    \* the calls of scan(), innermost first
  low,      \* DirInfo::myLastStat, the threshold
  newlow,   \* newlowtime, of the scan under way
  events,   \* myEvents: files and the ctime they were taken with
  handled,  \* what FileIndex::handleNewEvent was given
  clock,    \* the file system's clock
  ctime,    \* status change time of each entry, 0 if it does not exist
  steady,   \* history: files there when attach() began and not touched since,
            \* while no stat() fails
  broken    \* history: a stat() failed in the last scan

treeVars == <<clock, ctime, steady>>
vars == <<mode, pc, stack, low, newlow, events, handled, clock, ctime, steady, broken>>

\* first: the archive scan of attach(); poll: a scan of getEvents()
Pcs == {"attach", "first", "drain", "idle", "poll", "process", "done"}
Scanning == pc \in {"first", "poll"}

Exists(e) == ctime[e] # 0
Children(d) == {e \in Entries : Parent[e] = d}
Larger(a, b) == IF a > b THEN a ELSE b

\* Mutant: >= for >.
GreaterOrEqual(a, b) == a >= b

\* greaterStat()
GreaterStat(a, b) == a > b

-----------------------------------------------------------------------------
(* Other processes *)

\* An entry of d is made or removed: the ctime of d, not of those above.
Touch(e, t) ==
  ctime' = [x \in Entries |-> IF x = e THEN t
                              ELSE IF x = Parent[e] /\ (t = 0 \/ ~ Exists(e)) THEN clock
                              ELSE ctime[x]]

Reachable(e) == Parent[e] \in {"root"} \cup {s \in Subs : Exists(s)}

\* A file is created, or written again.
Write(f) ==
  /\ f \in Files /\ Reachable(f)
  /\ Touch(f, clock)
  /\ steady' = steady \ {f}
  /\ UNCHANGED <<mode, pc, stack, low, newlow, events, handled, clock, broken>>

MakeDir(s) ==
  /\ s \in Subs /\ Reachable(s) /\ ~ Exists(s)
  /\ Touch(s, clock)
  /\ UNCHANGED <<mode, pc, stack, low, newlow, events, handled, clock, steady, broken>>

RemoveFile(f) ==
  /\ f \in Files /\ Exists(f)
  /\ Touch(f, 0)
  /\ steady' = steady \ {f}
  /\ stack' = [i \in DOMAIN stack |-> [stack[i] EXCEPT !.must = @ \ {f}]]
  /\ UNCHANGED <<mode, pc, low, newlow, events, handled, clock, broken>>

ClockTick ==
  /\ clock < MaxTime
  /\ clock' = clock + 1
  /\ UNCHANGED <<mode, pc, stack, low, newlow, events, handled, ctime, steady, broken>>

-----------------------------------------------------------------------------
(* scan *)

\* A call of scan() on d: what readdir() must and may still return, and the
\* entry it returned last.  It must return what is there from opendir() on.
Call(d) == [must |-> {e \in Children(d) : Exists(e)}, left |-> Children(d), entry |-> "none"]

Top == Head(stack)
SetTop(call) == <<call>> \o Tail(stack)

\* readdir() returns each name once; one made after opendir() perhaps.
ReadDir(e) ==
  /\ Scanning /\ Top.entry = "none"
  /\ e \in Top.left /\ Exists(e)
  /\ stack' = SetTop([must |-> Top.must \ {e}, left |-> Top.left \ {e}, entry |-> e])
  /\ UNCHANGED <<mode, pc, low, newlow, events, handled, treeVars, broken>>

\* scan() returns; the outermost return sets the threshold.
Return ==
  /\ stack' = Tail(stack)
  /\ IF Len(stack) > 1
     THEN UNCHANGED <<pc, low>>
     ELSE /\ low' = newlow
          /\ pc' = IF pc = "first" THEN "drain" ELSE "process"

\* readdir() has nothing more.
CloseDir ==
  /\ Scanning /\ Top.entry = "none"
  /\ Top.must = {}
  /\ Return
  /\ UNCHANGED <<mode, newlow, events, handled, treeVars, broken>>

\* The entry is gone by now: this directory's scan is given up.
StatFails ==
  /\ Scanning /\ Top.entry # "none" /\ ~ Exists(Top.entry)
  /\ Return
  /\ broken' = TRUE /\ steady' = {}
  /\ UNCHANGED <<mode, newlow, events, handled, clock, ctime>>

\* Not over the threshold: passed over, a directory with all it holds.
PassOver ==
  /\ Scanning /\ Top.entry # "none" /\ Exists(Top.entry)
  /\ ~ GreaterStat(ctime[Top.entry], low)
  /\ stack' = SetTop([Top EXCEPT !.entry = "none"])
  /\ UNCHANGED <<mode, pc, low, newlow, events, handled, treeVars, broken>>

\* Mutant: the entry is compared with the threshold to be.
TakeNewest ==
  /\ Scanning /\ Top.entry # "none" /\ Exists(Top.entry)
  /\ GreaterStat(ctime[Top.entry], low)
  /\ LET done == SetTop([Top EXCEPT !.entry = "none"])
     IN  IF Top.entry \in Subs
         THEN stack' = <<Call(Top.entry)>> \o done /\ UNCHANGED events
         ELSE /\ stack' = done
              /\ events' = IF ctime[Top.entry] > newlow
                           THEN Append(events, <<Top.entry, ctime[Top.entry]>>) ELSE events
  /\ newlow' = Larger(newlow, ctime[Top.entry])
  /\ UNCHANGED <<mode, pc, low, handled, treeVars, broken>>

\* Mutant: directories are not gone into.
TakeFilesOnly ==
  /\ Scanning /\ Top.entry # "none" /\ Exists(Top.entry)
  /\ GreaterStat(ctime[Top.entry], low)
  /\ stack' = SetTop([Top EXCEPT !.entry = "none"])
  /\ events' = IF Top.entry \in Subs THEN events
               ELSE Append(events, <<Top.entry, ctime[Top.entry]>>)
  /\ newlow' = Larger(newlow, ctime[Top.entry])
  /\ UNCHANGED <<mode, pc, low, handled, treeVars, broken>>

\* Over the threshold: an event for a file, a call for a directory.
Take ==
  /\ Scanning /\ Top.entry # "none" /\ Exists(Top.entry)
  /\ GreaterStat(ctime[Top.entry], low)
  /\ LET done == SetTop([Top EXCEPT !.entry = "none"])
     IN  IF Top.entry \in Subs
         THEN stack' = <<Call(Top.entry)>> \o done /\ UNCHANGED events
         ELSE stack' = done /\ events' = Append(events, <<Top.entry, ctime[Top.entry]>>)
  /\ newlow' = Larger(newlow, ctime[Top.entry])
  /\ UNCHANGED <<mode, pc, low, handled, treeVars, broken>>

-----------------------------------------------------------------------------
(* attach and action *)

\* Archive: scan all there is.
AttachArchive ==
  /\ pc = "attach" /\ mode # "new"
  /\ stack' = <<Call("root")>> /\ newlow' = low
  /\ steady' = {f \in Files : Exists(f)}
  /\ pc' = "first"
  /\ UNCHANGED <<mode, low, events, handled, clock, ctime, broken>>

\* No archive: "use NOW time to skip old files", of which only the second.
AttachNow ==
  /\ pc = "attach" /\ mode = "new"
  /\ low' = (clock \div PerSecond) * PerSecond
  /\ pc' = "idle"
  /\ UNCHANGED <<mode, stack, newlow, events, handled, treeVars, broken>>

\* "Go ahead and process the original files all at once"; the watch stays
\* for a daemon only.
Drain ==
  /\ pc = "drain"
  /\ handled' = handled \o events /\ events' = <<>>
  /\ pc' = IF mode = "old" THEN "done" ELSE "idle"
  /\ UNCHANGED <<mode, stack, low, newlow, treeVars, broken>>

\* Mutant: the new threshold does not start from the last one.
PollFromZero ==
  /\ pc = "idle" /\ ~ QueueIsThrottled(events)
  /\ stack' = <<Call("root")>> /\ newlow' = 0
  /\ pc' = "poll" /\ broken' = FALSE
  /\ UNCHANGED <<mode, low, events, handled, treeVars>>

\* The timer fires: createEvents() begins to scan.
Poll ==
  /\ pc = "idle" /\ ~ QueueIsThrottled(events)
  /\ stack' = <<Call("root")>> /\ newlow' = low
  /\ pc' = "poll" /\ broken' = FALSE
  /\ UNCHANGED <<mode, low, events, handled, treeVars>>

\* The queue is full.
SkipPoll ==
  /\ pc = "idle" /\ QueueIsThrottled(events)
  /\ pc' = "process"
  /\ UNCHANGED <<mode, stack, low, newlow, events, handled, treeVars, broken>>

Process ==
  /\ pc = "process"
  /\ handled' = handled \o Batch(events) /\ events' = Rest(events)
  /\ pc' = "idle"
  /\ UNCHANGED <<mode, stack, low, newlow, treeVars, broken>>

\* An archive's watcher has nothing more to do.
Done == pc = "done" /\ UNCHANGED vars

-----------------------------------------------------------------------------
Init ==
  /\ mode \in {"old", "new", "all"}
  /\ pc = "attach" /\ stack = <<>> /\ low = 0 /\ newlow = 0
  /\ events = <<>> /\ handled = <<>>
  /\ clock = 1 /\ ctime = [e \in Entries |-> 0] /\ steady = {} /\ broken = FALSE

ScanStep == (\E e \in Entries : ReadDir(e)) \/ CloseDir \/ StatFails \/ PassOver \/ Take

Environment ==
  \/ \E f \in Files : Write(f) \/ RemoveFile(f)
  \/ \E s \in Subs : MakeDir(s)
  \/ ClockTick

Next ==
  \/ pc # "done" /\ Environment
  \/ AttachArchive \/ AttachNow \/ Drain \/ Poll \/ SkipPoll \/ Process
  \/ ScanStep \/ Done

\* The main thread runs and its timer fires.
Fairness ==
  /\ WF_vars(AttachArchive) /\ WF_vars(AttachNow) /\ WF_vars(Drain)
  /\ WF_vars(Poll) /\ WF_vars(SkipPoll) /\ WF_vars(Process)
  /\ WF_vars(ScanStep)

SafetySpec == Init /\ [][Next]_vars
Spec == SafetySpec /\ Fairness

-----------------------------------------------------------------------------
(* Properties *)

Calls == [must : SUBSET Entries, left : SUBSET Entries, entry : Entries \cup {"none"}]
Versions == Files \X (1..MaxTime)

\* The type of the state; thresholds are not ahead of the clock, and a scan
\* only raises the watch's.
TypeOK ==
  /\ mode \in {"old", "new", "all"} /\ pc \in Pcs
  /\ stack \in Seq(Calls) /\ (Scanning <=> stack # <<>>)
  /\ clock \in 1..MaxTime /\ ctime \in [Entries -> 0..clock]
  /\ low \in 0..clock /\ newlow \in 0..clock
  /\ Scanning => low <= newlow
  /\ events \in Seq(Versions) /\ handled \in Seq(Versions)
  /\ steady \subseteq Files /\ broken \in BOOLEAN

\* A file is handed over once for each time it was written, however scans,
\* writers and the event queue interleave.
AtMostOnce ==
  LET taken == handled \o events IN
  \A i, j \in 1..Len(taken) : taken[i] = taken[j] => i = j

\* After attach() has read an archive, every file that was there when it
\* began, at any depth, and stayed as it was has been handed over; unless some
\* file vanished between readdir() and stat().
ArchiveComplete ==
  pc \in {"idle", "poll", "process", "done"} =>
    \A f \in steady : \E i \in 1..Len(handled) : handled[i][1] = f

IsHandled(f, t) == \E i \in 1..Len(handled) : handled[i] = <<f, t>>

\* Between two polls a file is there that is newer than the threshold: it is
\* handed over, written again or removed, unless a stat() fails
\* in that poll.
Reported(f) ==
  \A t \in 1..MaxTime :
    (pc = "idle" /\ ctime[f] = t /\ t > low) ~> (IsHandled(f, t) \/ ctime[f] # t \/ broken)

\* That is so for files directly in the watched directory; of deeper ones the
\* code does not promise it (rDirWatcher.cc:63).
RootReported == \A f \in Files : Parent[f] = "root" => Reported(f)
==============================================================================
