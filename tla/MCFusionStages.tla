----------------------------- MODULE MCFusionStages -----------------------------
(***************************************************************************)
(* A small instance of FusionStages: one radar, a row of three cells,      *)
(* three elevations and two keys.                                          *)
(***************************************************************************)
EXTENDS FusionStages

CONSTANTS A

MCRadars == {A}
\* Half degrees.  At the first cell the tilt at 11 counts while the one at 4 is there; next
\* to the one at 1 it is too far, and both make a missing only.  At the others, which lie
\* below all tilts, the one at 1 counts, and 11 is then the third.
MCElevations == {1, 4, 11}
MCAt == [r \in MCRadars |-> [c \in 0..2 |-> IF c = 0 THEN 8 ELSE 0]]
MCInRange == [r \in MCRadars |-> 0..2]
Row(a, b, c) == [i \in 0..2 |-> IF i = 0 THEN a ELSE IF i = 1 THEN b ELSE c]
MCSweeps ==
  [el \in MCElevations |->
     CASE el = 1 -> {Row("missing", "value", "value"), Row("value", "missing", "none")}
       [] el = 4 -> {Row("missing", "value", "outside")}
       [] el = 11 -> {Row("value", "missing", "value")}]
MCMasks == {0..2, {0, 2}}
\* For a cell that is skipped because its tilts are the same, and for no other reason.
AllCells == {0..2}
AllSeen == [el \in MCElevations |->
              {Row(IF el = 11 THEN "missing" ELSE "none", "value", "value")}]
==============================================================================
