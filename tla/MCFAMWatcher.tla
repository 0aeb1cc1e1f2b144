----------------------------- MODULE MCFAMWatcher -----------------------------
(***************************************************************************)
(* Small instances of FAMWatcher: two inputs, each on its directory.       *)
(***************************************************************************)
EXTENDS FAMWatcher

CONSTANTS d1, d2, f1, f2

MCOneDir == {d1}
MCDirs   == {d1, d2}
MCDirOf  == <<d1, d2>>
MCOneDirOf == <<d1>>
MCMaxGen == [d \in MCDirs |-> IF d = d1 THEN 2 ELSE 1]
MCOnce   == [d \in MCOneDir |-> 1]
OneFile    == {f1}
TwoFiles   == {f1, f2}
==============================================================================
