----------------------------- MODULE MCFusionRoster -----------------------------
(***************************************************************************)
(* A small instance of FusionRoster: three radars and three cells, two of  *)
(* which are in more boxes than there are places for them.                 *)
(***************************************************************************)
EXTENDS FusionRoster

CONSTANTS A, B, C

MCRadars == {A, B, C}
MCBox == [r \in MCRadars |-> IF r = A THEN {0, 1} ELSE IF r = B THEN {0, 1, 2} ELSE {1, 2}]
MCDist == [r \in MCRadars |-> [c \in 0..2 |->
             CASE r = A -> c + 1 [] r = B -> 2 [] r = C -> 2 - c]]
==============================================================================
