# RAPIO in TLA+

RAPIO is a C++ framework for weather-radar algorithms. A program reads *records* (notices
that a data file exists) from its inputs, sorts them, hands each record's data to the
algorithm, writes products and notifies others of them. This directory holds TLA+ models of
the parts where order, threads or failures decide what happens, TLC configurations that check
them on small instances, and TLAPS proofs for every instance.

`PROJECT.json` lists for every definition the source lines it models. All paths below are
relative to `src/`.

## The system

### Components

| Component (source) | State it keeps | Operations | What makes it correct |
|---|---|---|---|
| Event loop (`base/rEventLoop.*`, `base/rEventTimer.h`) | posted completions, one `isScheduled` flag per handler, timers | `setReady`, `executeAction`, `scheduleTick`, `doEventLoop`, `exit` | a raised flag has exactly one completion; no request for an action is lost |
| Record queue (`base/rRecordQueue.*`, `operator<` in `base/rRecord.cc`) | priority queue, counters of pushed and popped records | `addRecord`, `addRecords`, `action` | every record handled once, in order; scheduled while not empty |
| Program life (`base/rRAPIOAlgorithm.cc`, `base/plugin/*`, `base/rSignals.cc`, `base/rTime.cc`) | options, inputs connected so far, clock or data time | plugins' `execute`, the loop, end of data set, signals | archives end, daemons do not; nobody exits with records it should have handled |
| Heartbeat (`base/rHeartbeat.cc`, `PluginHeartbeat`) | last pulse | `checkForPulse` after records or by a timer | pulses advance, are not early, none is owed at the end |
| Web queue (`base/rWebServer.*`) | queue and its mutex, a promise per message | `handleGET`, `addRecord`, `action` | every request is answered, in order |
| Thread group (`base/rThreadGroup.*`, used by `programs/fusion/rFusionAlgs.cc`) | task queue, stop flag, condition variable, workers | `enqueueThreadTask`, `workerThread`, destructor | every accepted task runs once; the destructor ends |
| Watcher base and inotify watcher (`base/watcher/rIOWatcher.cc`, `rFAMWatcher.cc`, `base/index/rFileIndex.cc`) | watches, event queue, kernel queue | `attach`, `action`, `getEvents`, `addFAMEvent`, `processEvents` | what the kernel reports reaches the right listener once and in order; watches come back |
| Directory watcher (`base/watcher/rDirWatcher.cc`) | one ctime threshold per tree | `attach`, `scan` | every file version is reported once |
| Process, web, Redis watchers and their indexes (`rEXEWatcher.cc`, `rWebIndex.cc`, `rRedisWatcher.cc`, `rStreamIndex.cc`) | child pipes, web cursor, parser state | `createEvents`, `readRemoteRecords`, `handleNewEvent` | no item skipped or repeated; the main loop is not blocked |
| Notifiers and output (`base/notifier/*`, `base/rIOPostProcessor.cc`, `base/rOS.cc`, `writeOutputProduct` in `base/rRAPIOAlgorithm.cc`) | temporary files, files in place, connections | encode, compress, move or copy, write and rename the FML record, `PUBLISH` | readers meet complete files, where the format uses a temporary one; a notice names a product that is in place |
| Volumes and history (`base/rElevationVolume.cc`, `base/rDataTypeHistory.cc`) | the latest tilt of each elevation | `addDataType`, `purgeTimeWindow`, `getSpreadL` | one tilt per elevation, none older than the window |
| Fusion roster (`programs/fusion/rFusionRoster.cc`) | range and mask files, the N nearest radars of each cell | a pass on each heartbeat: walk, nearest, masks, delete the others | every cell goes to its nearest radars; masks follow the radars that are up |
| Fusion stages (`programs/fusion/rFusion1.cc`, `rFusion2.cc`, `rStage2Data.*`, `rFusionDatabase.*`) | volume and last look of each stage one; observations and missings of stage two | `processRadialSet`, `processVolume`, `RLE`, `unionMerge`, `timePurge` | what is skipped as unchanged is unchanged, and stage two still has it |
| Containers (`base/rBitset.h`, `rSparseVector.h`, `rPartitionInfo.cc`, `rFactory.h`) | - | sequential | unit-tested |
| Format codecs (`modules/`), science programs, GUI, packaging | - | translation, numerics | - |

### How they interact

One *main thread* runs `boost::asio::io_context::run()`. Everything with an `action()`, that
is the record queue, the web queue, timers, watchers and the heartbeat, is an `EventHandler`
whose action runs there, one at a time, in the order posted. Plugins set this up before the
loop starts: `PluginIngestor` opens each input, which may push the records of an archive and
may attach a listener to a watcher. A watcher's timer reads its events and calls the
listeners, which add records; a record's handler calls the algorithm and then the plugins
(the heartbeat in archive mode). An empty queue sends the end-of-data-set event, which stops
an archive run.

Programs share nothing but files and connections. A writer gives a product its final name,
then announces it by an FML file in a directory that another program watches, or over Redis;
the watcher of the reader makes it a record of the reader's queue, which reads the product.
The fusion is made of such programs: each stage one writes the ranges of its cells to a file,
the roster turns those of all radars into masks, stage one calculates what its mask gives it
and sends the cells that changed as a product, and stage two merges the products.

Three things are concurrent with the main thread: *web threads*, which push messages under a
mutex, call `setReady()` and wait on a promise; *workers* of a `ThreadGroup`, which the main
thread creates, feeds, waits for and destroys within one record; and the world: files,
directories, kernel queues, servers and signals.

### What is hard

`PROJECT.json` has the list of hazards with their lines. They fall into seven groups:
flags and queues read and written by several threads (`setReady`, the unlocked `empty()`, the
stop flag of the pool); handlers that must be armed again or the program is silently dead;
archive runs that must stop exactly once everything is done; watches over directories that
vanish, queues that overflow and scans that are not atomic; steps that fail in the middle
(an exception after `pop()`, a refused input after pushing); writers that fail or stop
between two system calls while readers look on; and differences sent instead of states, which
need both ends of the fusion to remember the same.

## Modules

| Module | Models | Corresponds to the code |
|---|---|---|
| `EventLoop` | the trigger | functions on a record `[flag, posted]`, one per atomic access of `rEventTimer.h`, so that callers on one thread apply several at once and callers on several threads one at a time |
| `WorkQueue` | abstract queue | what a queue drained by somebody else's thread promises: items served at most once, after submission, never once closed, and always eventually while open |
| `RecordPipeline` | main thread from the plugins to the exit | one action per handler run: `HandleRecord` is the whole `RecordQueue::action` with the algorithm's and plugins' part, `WatcherAction` and `HeartbeatAction` the other handlers, `RecordThrows` and `HeartbeatThrows` what user code does to them, `InitialRead`... the ingestor |
| `WebServer` | web threads and main thread | one action per access of shared state: lock, push and unlock, compare-exchange, post; take the completion, lower the flag, lock, process, unlock, check, raise, post |
| `ThreadGroup` | the pool and its owner | the mutex, the predicate, the moment between predicate and sleep, notification of the wait set, spurious wake-ups |
| `Watcher` | event queue of a watcher | throttle test, the batch handled per tick and the rest |
| `FAMWatcher` | inotify watcher, kernel and directories | attach as scan and watch, reconnection, `read()` in chunks of any size, `IN_IGNORED`, overflow; the kernel and the other processes are external |
| `DirWatcher` | polling watcher and the tree it polls | `scan()` as a stack of calls with one step per directory entry: `ReadDir`, then `Take`, `PassOver` or `StatFails`, and `CloseDir`; `attach()` and `createEvents()` around it; the other processes and the file system's clock are external |
| `Delivery` | abstract output | what readers may rely on, of products that are not written in place: a notice is given of a version in place, and who follows it finds that version or a later one |
| `OutputProtocol` | writers, the files between, a reader | one action per system call of `writeOutputProduct` and the notifiers: encode, compress, rename, or copy to `_TMP` and rename, FML file aside and rename, `PUBLISH`; for XML, JSON and Python `OpenInPlace` and `WriteInPlace` instead of the first four; every call may fail, the writer may stop between any two; the reader's watches, subscription and queue |
| `ElevationVolume` | a volume | `VolumeOfN::addDataType`, the time window, `getSpreadL`: operators on the set of tilts |
| `FusionRoster` | stage ones as the roster sees them, the roster | the pass file by file: `Ingest`, `SkipExpired`, `SkipUnreadable`, `GenerateMasks`, `WriteMask`, `DeleteMask` and their failures; tilts, restarts and the clock |
| `FusionStages` | stage one of each radar and stage two | one action per handler: a tilt, a heartbeat of stage one (`ProcessVolume` is the whole of it), a product at stage two, its purge; lost products and restarts |
| `RecordPipelineProofs`, `WebServerProofs`, `ThreadGroupProofs`, `FAMWatcherProofs`, `DirWatcherProofs`, `OutputProofs`, `FusionRosterProofs`, `FusionStagesProofs` | - | theorems |

`RecordPipeline` and `WebServer` both use `EventLoop`; they, and `ThreadGroup`, implement
`WorkQueue`. `FAMWatcher` and `DirWatcher` extend `Watcher`. `RecordPipeline` abstracts a watcher
to the sequence `events` of what it will hand over, which is what `FAMWatcher` shows an inotify
watcher to produce: each file the kernel had room to tell of, once, in order. `OutputProtocol`
implements `Delivery` and takes the same sequence for its reader's watcher. `FusionStages`
extends `ElevationVolume`. `FusionRoster` and `FusionStages` meet in the masks: range and mask
files are written aside and moved into place (`programs/fusion/rFusionCache.cc:102`, `217`), as
the products of `OutputProtocol` are, so the roster takes them as complete or unreadable, and the
stages take any mask at any time.

### Abstractions

- A record is its sort key, the input that reads it and an id. The key's index number is the
  input's label only where records are read through `ConfigRecord`; `FileIndex` leaves it 0, so
  ties between file inputs are not resolved by input. Products, parameters and payloads are left
  out; a heartbeat is the pair of times given to `processHeartbeat` and the number of records
  before it.
- The cron expression is "every `Period`"; times are naturals.
- `ProcessThrows`, `RecordThrows`, `HeartbeatThrows`: user code may throw wherever the main loop
  calls it, from `processNewData`, `processHeartbeat` or `processWebMessage`; `doEventLoop`
  catches outside `run()`, so the loop ends. A task of a `ThreadGroup` that throws ends the
  process (`std::terminate`); that is left out.
- A signal is an `EventLoop::exit` at any moment, before `run()` too: a stopped `io_context`
  makes the later `run()` return at once.
- A watch descriptor is identified with the incarnation of the directory it was given for.
  A new file takes a fixed unused name, since names are interchangeable. Subdirectories,
  about which the index only logs, are left out.
- In `DirWatcher` a version of a file is its ctime; the clock stands still between ticks, as
  the kernel's does. `readdir()` returns what is there all the time, and may or may not return
  what is made meanwhile. Directories are never removed and can always be opened.
- In `OutputProtocol` a file is the version it holds or names and whether it is being written
  (`part`), was given up without anybody noticing (`short`) or is `whole`; names have one
  writer each. Whether a rename crosses devices is chosen each time. `inPlace` are the names
  whose format is written to the final name directly (`base/rIOXML.cc:165`,
  `base/rIOJSON.cc:130`, Python scripts); any set of names may be, from the start.
- `HaveRedis` says whether the notifier can publish. The build defines `HAVE_HIREDIS`
  (`base/CMakeLists.txt:406`), the notifier tests `HAVE_REDIS`
  (`base/notifier/rRedisRecordNotifier.cc:58`, `81`, `123`): as built it never publishes. The
  run takes TRUE, which has more behaviours; the theorems hold for both.
- `FusionRoster` knows a range file by its age, up to where it has expired. It walks the files
  in any order, as the directory may list them.
- A volume is the set of its tilts. The grid of `FusionStages` is one row of cells at one
  height; what a tilt shows of a cell is `value`, `missing`, `none` (unavailable, range folded or
  blocked) or that it is `outside` the sweep, and an observation is known by the time of its
  product. Which tilts count is `LakResolver1`'s rule, with its dependence on the spread between
  the tilts that are there (`InThresh`, in units of `Degree`), and a cell none counts for is
  `missing` if the two closest tilts show anything but `none`. The averages of the values that
  count are left out: `SameMeansSame` compares the tilts a value is calculated from, and what
  kind of thing it is.
- Time in `FAMWatcher` is the flag `due` of a broken watch: its retry interval has passed.

## Runs

| Run | Instance | Question |
|---|---|---|
| `record_pipeline` | 2 inputs that number their records, 3 records (two of one time at different inputs, one earlier at the second input), every subset of which may exist at the start, all `-r` modes with and without `-sync`, clock to 4, period 2 | is the queue always armed, are records accounted for and sorted, do pulses advance, do archives end, is it a `WorkQueue` |
| `final_heartbeat` (violation) | two file inputs, and one more record, so that one follows the pulse | the promised heartbeat at the end of an archive |
| `web_server` | 2 web threads with 2 requests each, and "Timer" for all other handlers | does any interleaving strand, reorder or forget a request |
| `thread_group` | 3 workers, 3 tasks, room for 2 | once-only execution, draining, end of the destructor |
| `thread_group_destroy` (violation) | 2 workers | does the destructor always return |
| `fam_watcher` | 2 inputs on 2 directories, the first with 2 incarnations, 2 files, a kernel queue of 2, event queue of 2, one event per tick | are files handed over in order and, but for those a full kernel queue dropped, completely, over reconnections; honest watches, reconnection |
| `fam_scan_gap` (violation) | 1 directory that stays, 1 file | does `-r all` see every file |
| `dir_watcher` | a file and a subdirectory with a file, clock to 3, 2 ticks a second, event queue of 1 | is no version repeated, an archive read completely, a file over the threshold found |
| `output` | 1 writer with 1 output, in a format written aside or in place, compressed, Redis, 2 versions, 1 restart of the reader | do records name products, do readers find whole files, is every FML record read, is it a `Delivery` |
| `roster` | 3 radars, 3 cells, the 2 nearest, `History` 0, 1 tilt of warm-up, 2 faults | does every cell go to its nearest radars, do masks follow the radars |
| `fusion` | 1 radar, 3 cells, 3 elevations (.5, 2 and 5.5 degrees), 2 keys, 3 tilts that may be 1 late, clock to 3, window 1, 1 fault, masks that come and go | is what is skipped unchanged, does stage two hold what it was told |
| `fusion_rle` (violation) | the same without faults, masks of all cells, and sweeps whose only difference is at the first cell | does a skipped cell keep its value |

The bounds are small but let the cases happen. Two records of one time at two inputs, with
an earlier one at the later input, force the queue to reorder. `ProcessCount` 1 leaves events
behind. Two requests per web thread let one thread push again between the other's steps and
the main thread's check. Three tasks overflow a queue of two and exceed two workers. A kernel
queue of two overflows with a file and the end of a watch. A directory with two incarnations
is lost and found; the other is created after the watcher has tried it in vain.
Two versions let a writer replace a product that is announced, being read, or named by a
record that lies in the reader's queue; more names or writers share nothing, as the proofs
confirm. Three radars over places for two have a radar that is pushed out and comes back when
another goes silent; two of them are equally far at a cell, so the order of the walk decides.
`History` 0 lets a file be fresh or expired. Two keys come round with the third tilt. The three
elevations lie so that at the first cell the highest tilt counts or not by which of the others
is there, and the two closest make it missing though none counts; the other cells lie below
all, where the third tilt matters. A tilt that is one late may find itself older than what it
replaces, or over the window, and a window of 1 lets tilts and observations expire within the
clock. One fault is one lost product or one
restart of either stage.
Three ticks let a file be old, rewritten during a scan and rewritten after it, and two ticks
a second let `-r new` start below the present.

### Fairness

- Main thread: weak fairness of its steps. It is a loop that blocks only for completions.
  A handler that throws is never assumed to, nor not to, so no property depends on it.
- Timers (`TimerTick`): weakly fair, because `scheduleTick` re-arms whatever the action did.
  In `WebServer` timers are not assumed.
- Web threads and workers: weak fairness of each thread's own steps, i.e. the operating
  system runs them. Spurious wake-ups, new requests, new tasks, destruction, signals, files
  and directories are never assumed.
- `FAMWatcher`: the main thread and, for each broken watch, the passing of time.
- `DirWatcher`: the main thread, its timer among it; a scan ends because each name is
  returned once. Nothing is assumed of the other processes and the clock.
- `OutputProtocol`: the reader's watcher and its queue, as above. The writer may stop at any
  point and the network need not deliver.
- `FusionRoster`: the steps of a pass, which is one handler on the main thread. That
  heartbeats come and radars stay up is said in `MaskFollowsRadar`.
- `FusionStages`: none; its properties are safety.

### What the passing runs say

- `TriggerConsistent`, `QueueScheduled`, `NoStrandedMessage`: a queue with work is armed or
  somebody is on the way to arm it. For the web queue this rests on two details of the code:
  `executeAction()` lowers the flag before the action, and a message pushed after the
  unlocked check is announced by its own `setReady()`.
- `RecordsAccounted`, `ArchiveSorted`, `AnsweredInOrder`, `EachTaskOnce`, `DrainedWhenGone`:
  nothing is lost, doubled or out of order; an exception loses at most one item, the one being
  handled, apart from what the ended loop leaves queued. "In order" for records is `operator<`:
  time, then index number, then type.
- `ArchiveTerminates`, `RequestAnswered`, `TaskExecuted`, `JoinEnds`, `FileHandled`,
  `Reconnects`: what must happen does, with the exceptions each property names (the loop
  ended; a worker was on its way to sleep; the kernel's queue was full when the file was
  completed, or when the watch ended).
- `ImplementsWorkQueue` (three runs): the refinement of `WorkQueue`, liveness included.
- `RecordNamesProduct`, `ReadersSeeWhole`, `FmlIsRead`, `ImplementsDelivery`: a product that is
  encoded aside, and every FML record, gets its name by `rename()`, so a failure or a stop leaves
  the old version or the new one, a notice never comes before its product, and a record in place
  is read. There are two exceptions. Products of the formats written in place (XML, JSON, Python)
  can be met half written, at any time under their names and, where a record named an earlier
  version, by who follows it; of a version that a record names the writing is over. And `short`
  files: `BinaryIO` and the FML notifier do not look whether their writes succeeded, so a full
  disk leaves whole-looking files.
- `MasksNearest`, `MaskFollowsRadar`: the order of the walk decides only between equals. A
  roster stopped in the middle of a pass leaves a mixture of old and new masks, which the next
  pass mends; a mask of a radar that went silent goes with the next completed pass.
- `SameMeansSame`: the four keys around a cell stand for its tilts, until a key is given out
  again; keys are not unique in a volume once the counter has come round, which the property
  names.
- `DatabaseFollows`: although only changes are sent, stage two holds what was last said of
  each cell. The exceptions are real: a lost product, a product that arrives after its
  observations expired, and the cells of `fusion_rle`.
- `InOrder`, `WatchHonest`, `FileHandled`: the files written to a watched directory are those
  handed over, queued or in the kernel, in that order, without those completed while the kernel's
  queue was full. Those are lost: the watcher logs `IN_Q_OVERFLOW`
  (`base/watcher/rFAMWatcher.cc:248`) and does not scan again.
- `AtMostOnce`, `ArchiveComplete`, `RootReported`: a poller repeats nothing, an archive is
  complete at every depth, and a file directly in the watched directory with a ctime over
  the threshold is taken by the next poll. The exception is a scan in which a `stat()` fails:
  it gives up the directory and yet raises the threshold.

### What the violations say

- `FinalBeat`: no heartbeat is sent at the end of an archive although the help text of
  `-sync` promises one; the records after the last pulse are never finalized.
- `DestructorReturns`: `~ThreadGroup` may hang. `myStop` is set under another mutex than the
  one the workers wait with, so that the notification can fall between a worker's test and
  its sleep.
- `AllOldThenNew`: with `-r all`, a file completed between the scan and
  `inotify_add_watch` is never seen.
- `SkippedKept`: `Stage2Storage::RLE` makes a run of missing cells that ends inside the row one
  cell too long, because it tests the bit of the cell it stands on. The cell behind it is
  marked missing in stage two; if stage one skips it as unchanged, it stays so.

Three more things were seen that no run states. The throttle of a watcher tests `==`
(`base/watcher/rIOWatcher.cc:69`) and one poll may add several events, so the queue may
jump over its maximum; in `fam_watcher` it does. A poller skips for good a file that is made behind a scan
which then takes something at least as new: `RootReported` is about files over the threshold
only. And a poller passes over directories by their own ctime, so a file created two levels
down, or rewritten in any subdirectory, is not found: it speaks of the watched directory
itself only.

## Proofs

TLAPS checks the following for every value of the constants that satisfies the modules'
assumptions (`PipelineAssumption`, `WebAssumption`, `ThreadGroupAssumption`,
`WatcherAssumption`, `FAMAssumption`, `DirAssumption`, `OutputAssumption`,
`RosterAssumption`, `StagesAssumption`; TLC evaluates them in the runs).

The trigger is reasoned about once in each module whose program uses it: each of its functions
preserves `TriggerOK`. In `WebServerProofs` a function moves its handler in or out of the set
`owing` of handlers some thread is busy with; in `RecordPipelineProofs`, where one thread does
it all, nothing is ever owed. The other proofs cite these lemmas and never look into the
trigger.

`RecordPipelineProofs`, for `SafetySpec`:

- `TypeCorrect`, `TriggerStaysConsistent`, `QueueStaysScheduled` from the inductive invariant
  `SafeInv`, their conjunction. They are proved together: that a queue with records is
  scheduled is inductive only if a raised flag means a completion, and `SetReady` keeps the
  trigger well formed only when it is consistent.
- `RecordsStayAccounted` from `AccountInv`: at most one record accepted is neither queued nor
  handled, and none unless a handler threw. "Handled once" is not inductive: a record might be
  pushed twice. `OnceInv` adds that events, accepted records and unread inputs are disjoint,
  and that a record's input was read before the record was accepted.
- `ArchiveStaysSorted` from `OrderInv`. The strengthening is that in an archive run no record
  left in the queue comes before one already handled, that nothing was handled before all
  inputs were read, and that nothing is watched.
- `RefinesWorkQueue`: initial states map to initial states, and every step maps to a step of
  `WorkQueue` or a stutter, under `queue`, `handled` and "not stopped".
- `PulsesAdvance` from `BeatInv`: the pulse remembered is the next instant after some time that
  has passed. `CronStep` says that such an instant is still the next one or has come, so the
  pulse a check hands on is never in the future. A call that throws leaves the mark where it was,
  and would hand the same pulse on again, were the loop not at its end.

`WebServerProofs`, for any number of threads and requests:

- `WebTypeCorrect`, `WebTriggerConsistent`, `NoMessageStranded` from `WebInv`. It adds to them
  that at most one thread is between the steps of `setReady()` or holds a completion
  (`BusyAlone`): the others find the flag up. Without it `Owing` could lose a debtor.
- `AnswersInOrder` on top of it: the messages pushed are those answered followed by those
  queued.
- `WebRefinesWorkQueue`, the safety part. `PushedOnce` adds that a thread counts its requests
  up and pushes each number once, so no message is in the queue twice.

`ThreadGroupProofs`, for any number of workers and tasks and any size of the queue:

- `GroupTypeCorrect`, `TaskInOnePlace`, `NoTaskStranded`, `PoolDrained` from `GroupInv`. It
  adds who holds the mutex, that a worker at its sleep saw an empty queue under it, and how
  far the owner is when `myStop` is set. That there is a worker at all is an assumption:
  without it a task in the queue is stranded.
- `PoolRefinesWorkQueue`, the safety part.

`FAMWatcherProofs`, for any number of inputs and directories and any sizes of the queues. The
last two are for inputs with a directory of their own each (`OwnDirectories`, a hypothesis of
the theorems, not of the module: two inputs on one directory break them, see the hazards).

- `FAMTypeCorrect` from `TypeInv`. It adds that descriptors, notifications and events are of
  incarnations there were, and that a watch is on the directory of its input, which is why
  `addFAMEvent` finds it.
- `WatchesHonest`: with `TypeInv` it is inductive.
- `FilesInOrder` from `OrderInv`: of all the files completed in a directory while an input
  watched it (`written`), those the kernel had room to report (`Reported`) are what was handed
  over, is queued or is in the kernel. The two are equal only if nothing under way is thrown away
  for want of a watch, so every notification under way must have its watch; hence the end of an
  incarnation must be its last notification, and the kernel must watch only what exists and what
  an input is connected to. A `read()` takes any part of what is queued: `Gather`, which makes
  events of notifications and lists files, distributes over concatenation. `Gather` is a
  recursive function; its run is followed from 0 up with the library's theorem that inclusion of
  finite sets is well-founded, since its induction theorems cannot be used here.

`DirWatcherProofs`, for a tree of any shape and depth, any clock and any threshold:

- `DirTypeCorrect`, an inductive invariant as it stands: calls of `scan()` on the stack exactly
  while it scans, and thresholds that are not ahead of the clock.
- `VersionsAtMostOnce` from `OnceInv`: what was taken is not over the threshold of the next
  scan, and within a scan the walk does not come to it again. The second needs `Walk`: there is
  a set of names the walk has not come to, with all that is below them, and a path of distinct
  directories, one for each call, such that what the calls may still return is among the
  names, and a file taken in this scan is not.
- `ArchiveReadWhole` from `TreeInv` and `ReadInv`, for scans in which no `stat()` failed: a file
  removed after `readdir()` returned it ends the scan of its directory. A file that stays was
  taken or is ahead of the scan, in or below an entry that some call must still return. "Below"
  is not defined by recursion but by all sets: such a file is in every set that holds what the
  calls must return and is closed under what directories hold. Likewise `TreeInv` says that
  everything that exists is in every such set from the root.

`OutputProofs`: `OutputTypeCorrect`, `RecordsNameProducts`, `ReadersFindWhole`,
`OutputRefinesDelivery`. `OutInv` follows a product from its temporary file to its final name,
one conjunct per stage of the writer, and a notice from its `.working` file to the record that
is read. In a format written in place a part of a file is of a later version than any notice of its name
so far, because a writer's later outputs still have an earlier version (`Ahead`).

`FusionRosterProofs`, for any radars, boxes, ranges and number of nearest:

- `RosterTypeCorrect`, `MasksStayNearest`, `NoHole`. `RosterInv` says that the places of a cell
  are the first of the radars that share it, in the order of range and walk (`Ranked`). That
  insertion keeps the order needs a least index to insert at, which is proved from the library's
  theorem that inclusion of finite sets is well-founded.

`FusionStagesProofs`, for any radars, cells, elevations and number of keys:

- `StagesTypeCorrect`, with runs that end within the row (`Types`).
- `SkippedCellsUnchanged` from `LookInv`: nothing is made of no tilts (`BareCalc`), every tilt
  has the key of its age, tilts of one age are one tilt, and each cell's last look was at tilts
  that had those keys. The key of an age says which tilt it was unless it was given out again,
  which is the exception.
- `StageTwoFollows` from `DatabaseInv`: products travel in the order of their times, stage two
  holds nothing newer than what is on its way, and of each cell the last word is on its way,
  held, expired or spilt over.

Only model-checked, because fairness is out of the prover's reach: `ArchiveTerminates`,
`RequestAnswered`, `TaskExecuted`, `JoinEnds`, `FileHandled`, `Reconnects`, `RootReported`,
`FmlIsRead`, `MaskFollowsRadar`, and of `WorkQueue` that it goes on serving. Every invariant
that a passing run checks is also a theorem.

## Not modelled

Codecs, science and GUI code carry no protocol. They are most of the repository's lines: the
`map` covers the small part that decides order, and cannot cover much more. Option parsing and
product filtering are sequential. Of the other watchers and indexes, the process watcher's
child and the web index's server are outside the repository; `PROJECT.json` names their
hazards. Inside the modelled parts:

- watchers: several polling watches at once, directories that vanish while they are polled,
  detach, unmounting, two inputs that share a directory, notifications longer than the read
  buffer, record filters;
- output: the LDM and other external commands, output filters, remote paths, several writers of one name;
- fusion: interpolation and weights, the merge into the output grid, the option to process
  every tilt, the tile join, and the split of a grid over the thread group (`fusionAlgs`), of
  which `ThreadGroup` has the enqueueing and waiting;
- a task of a pool that throws, and everything a log line says.

## What could follow

1. An abstract specification of a watcher's promise, shared by `FAMWatcher` and `DirWatcher`;
   two inputs on one directory; notifications longer than the read buffer.
2. `fusionAlgs`' split of rows into tasks composed with `ThreadGroup`, a refused task
   included.
3. The process watcher with its child, and the web index with its server and cursor.
4. Pure algorithms against reference definitions: partition arithmetic, the stream parser's
   delimiters.
5. Proofs that the watchers implement such a specification, once there is one.
