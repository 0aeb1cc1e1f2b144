----------------------------- MODULE MCThreadGroup -----------------------------
(***************************************************************************)
(* Small instances of ThreadGroup: the workers and the tasks are model     *)
(* values, and the queue may fill up.                                      *)
(***************************************************************************)
EXTENDS ThreadGroup

CONSTANTS w1, w2, w3, a, b, c

TwoWorkers   == {w1, w2}
ThreeWorkers == {w1, w2, w3}
MCTasks      == {a, b, c}
==============================================================================
