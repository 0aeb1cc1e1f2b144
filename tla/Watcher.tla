------------------------------- MODULE Watcher -------------------------------
(***************************************************************************)
(* The event queue that all watchers share (base/watcher/rIOWatcher.cc).   *)
(* When its timer fires, WatcherType::action() asks its subclass for new   *)
(* events unless the queue is throttled, then hands at most                *)
(* myProcessCount events to their listeners, first in first out.           *)
(***************************************************************************)
EXTENDS Naturals, Sequences

CONSTANTS
  MaxQueueSize,  \* myMaxQueueSize, 1000 in the code
  ProcessCount   \* myProcessCount, 10 or 20 in the code

ASSUME WatcherAssumption == MaxQueueSize \in Nat \ {0} /\ ProcessCount \in Nat \ {0}

\* queueIsThrottled(); myWaitWhenQueueFull is TRUE and nothing changes it.
QueueIsThrottled(events) == Len(events) = MaxQueueSize

BatchSize(events) == IF Len(events) < ProcessCount THEN Len(events) ELSE ProcessCount

\* Mutant: an event is taken off and the next one is handled.
SecondToBatch(events) ==
  [i \in 1..BatchSize(events) |-> events[IF i < Len(events) THEN i + 1 ELSE i]]

\* processEvents(): the events handled now ...
Batch(events) == SubSeq(events, 1, BatchSize(events))

\* ... and those that stay.
Rest(events) == SubSeq(events, BatchSize(events) + 1, Len(events))
==============================================================================
