--------------------------- MODULE MCRecordPipeline ---------------------------
(***************************************************************************)
(* Small instances of RecordPipeline: two inputs with three or four        *)
(* records, most of them of one time.                                      *)
(***************************************************************************)
EXTENDS RecordPipeline

MCHandlers == {"RecordQueue", "Watcher", "HeartbeatTimer"}

MCRecord(id, time, input, index, sub) ==
  [id |-> id, time |-> time, input |-> input, index |-> index, sub |-> sub, type |-> 0]

\* Two records of one time, at different inputs, after an earlier one; both
\* inputs number their records.
MCRecords ==
  {MCRecord(1, 1, 1, 1, 0), MCRecord(2, 3, 0, 0, 0), MCRecord(3, 3, 1, 1, 0)}

\* One more, so that a record follows the one that passed the pulse; here
\* both inputs read single files, which carry no index number.
MCMoreRecords ==
  {MCRecord(1, 1, 1, 0, 0), MCRecord(2, 3, 0, 0, 0), MCRecord(3, 3, 1, 0, 0),
   MCRecord(4, 3, 0, 0, 2)}
==============================================================================
