----------------------------- MODULE MCDirWatcher -----------------------------
(***************************************************************************)
(* A small instance of DirWatcher: a file, and a subdirectory with a file. *)
(***************************************************************************)
EXTENDS DirWatcher

CONSTANTS f1, f2, s1

MCFiles  == {f1, f2}
MCSubs   == {s1}
MCParent == [e \in MCFiles \cup MCSubs |-> IF e = f2 THEN s1 ELSE "root"]
==============================================================================
