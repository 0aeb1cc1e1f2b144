------------------------------ MODULE WorkQueue ------------------------------
(***************************************************************************)
(* What a queue drained by RAPIO's threads promises to those who add to    *)
(* it, whatever thread they run on and whatever order the queue keeps:     *)
(* an item is served at most once, only after it was submitted, never      *)
(* after the loop has closed; and while the loop stays open it goes on     *)
(* serving as long as something is pending.  The record queue, the web     *)
(* message queue and the thread pool are shown to implement this module.   *)
(***************************************************************************)
EXTENDS Naturals, Sequences

CONSTANT Items

VARIABLES
  pending,  \* submitted and not yet served
  served,   \* served so far, in order
  open      \* the loop still runs (or has yet to start)

wqVars == <<pending, served, open>>

Init == pending = {} /\ served = <<>> /\ open = TRUE

\* Some items, never submitted before, are submitted together.
Submit(S) ==
  /\ S # {}
  /\ \A i \in S : i \notin pending /\ \A k \in 1..Len(served) : served[k] # i
  /\ pending' = pending \cup S
  /\ UNCHANGED <<served, open>>

\* One pending item is served; serving the last one may close the loop.
Serve(i) ==
  /\ open
  /\ pending' = pending \ {i}
  /\ served' = Append(served, i)
  /\ open' \in BOOLEAN
  /\ ~ open' => pending' = {}

\* The item's handler fails: it is neither pending nor served, and the loop ends.
Fail(i) ==
  /\ open
  /\ pending' = pending \ {i}
  /\ open' = FALSE
  /\ UNCHANGED served

\* The loop is told to end; what is pending stays so.
Close == open /\ open' = FALSE /\ UNCHANGED <<pending, served>>

Next ==
  \/ \E S \in SUBSET Items : Submit(S)
  \/ \E i \in pending : Serve(i) \/ Fail(i)
  \/ Close

Spec == Init /\ [][Next]_wqVars /\ WF_wqVars(\E i \in pending : Serve(i))
==============================================================================
