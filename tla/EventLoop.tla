------------------------------ MODULE EventLoop ------------------------------
(***************************************************************************)
(* The trigger of RAPIO's main loop (base/rEventTimer.h, rEventLoop.h).    *)
(*                                                                         *)
(* One thread runs boost::asio::io_context::run() and executes posted      *)
(* completions in the order they were posted.  An EventHandler asks for    *)
(* its action() to be run with setReady(), which posts a completion only   *)
(* if the handler's atomic flag isScheduled was down.  The completion,     *)
(* executeAction(), lowers the flag BEFORE it runs the action, so that a   *)
(* setReady() that arrives while the action runs posts again.              *)
(*                                                                         *)
(* The state of the trigger is one record                                  *)
(*     [flag |-> which handlers' isScheduled is up,                        *)
(*      posted |-> the completions waiting in the io_context]              *)
(* and the module is a set of functions on it, so that one step of a       *)
(* caller may apply several of them in the order the code does.            *)
(***************************************************************************)
EXTENDS Naturals, Sequences

CONSTANT Handlers   \* the EventHandlers of the program

\* States of the trigger.
LoopStates == [flag : [Handlers -> BOOLEAN], posted : Seq(Handlers)]

\* No handler is scheduled: the state before the plugins run.
IdleLoop == [flag |-> [h \in Handlers |-> FALSE], posted |-> <<>>]

\* The atomic half of setReady(): compare_exchange_strong(FALSE, TRUE).
RaiseFlag(l, h) == [flag |-> [l.flag EXCEPT ![h] = TRUE], posted |-> l.posted]

\* The other half: boost::asio::post(io_context, executeAction).
Post(l, h) == [flag |-> l.flag, posted |-> Append(l.posted, h)]

\* Mutant: the flag is set without looking at it.
SetReadyAlways(l, h) == Post(RaiseFlag(l, h), h)

\* setReady() as a thread that nothing interleaves with performs it.
SetReady(l, h) == IF l.flag[h] THEN l ELSE Post(RaiseFlag(l, h), h)

\* run() takes the completion at the head ...
TakeNext(l) == [flag |-> l.flag, posted |-> Tail(l.posted)]

\* ... and executeAction() lowers its handler's flag, before the action.
LowerFlag(l, h) == [flag |-> [l.flag EXCEPT ![h] = FALSE], posted |-> l.posted]

\* Both at once, when nothing interleaves; what the action then does is the
\* caller's.
ExecuteAction(l) == LowerFlag(TakeNext(l), Head(l.posted))

\* The handler whose completion runs next.
NextHandler(l, h) == l.posted # <<>> /\ Head(l.posted) = h

IsPosted(l, h) == \E i \in 1..Len(l.posted) : l.posted[i] = h

-----------------------------------------------------------------------------
(***************************************************************************)
(* What the trigger owes its users.  `owing' is the set of handlers that    *)
(* some thread is busy with: it has raised the flag and not posted yet, or *)
(* has taken the completion and not lowered the flag yet.                  *)
(*   - no handler has two completions ("Prevent flooding: only post if not *)
(*     already scheduled");                                                *)
(*   - a raised flag always has a completion to lower it, or a thread busy *)
(*     with it: a flag that stays up alone would silence the handler for   *)
(*     ever.                                                               *)
(***************************************************************************)
OneCompletionEach(l) ==
  \A i, j \in 1..Len(l.posted) : l.posted[i] = l.posted[j] => i = j

FlagMatchesPosted(l, owing) ==
  \A h \in Handlers :
    /\ l.flag[h] <=> (IsPosted(l, h) \/ h \in owing)
    /\ ~ (IsPosted(l, h) /\ h \in owing)

TriggerOK(l, owing) == OneCompletionEach(l) /\ FlagMatchesPosted(l, owing)
==============================================================================
