----------------------------- MODULE ElevationVolume -----------------------------
(***************************************************************************)
(* VolumeOfN: the latest tilt of each elevation within the history window; *)
(* and the search for the tilts around an elevation that the fusion's      *)
(* first stage does for every cell of its grid.  The code's vector is      *)
(* sorted by elevation, which is all that its order says, so a volume is   *)
(* the set of its tilts.                                                   *)
(***************************************************************************)
EXTENDS Naturals

CONSTANTS History,             \* -h, the history window
          NoTilt               \* nullptr

\* Mutant: equal elevations are kept side by side.
AddAlways(v, d) == v \cup {d}

(* A tilt takes the place of one of its elevation, whatever their times. *)
AddDataType(v, d) == {e \in v : e.el # d.el} \cup {d}

PurgeTimeWindow(v, now) == {d \in v : now - d.t <= History}

Lowest(S)  == IF S = {} THEN NoTilt ELSE CHOOSE d \in S : \A e \in S : d.el <= e.el
Highest(S) == IF S = {} THEN NoTilt ELSE CHOOSE d \in S : \A e \in S : d.el >= e.el

(* The two tilts above "at" and the two that are not, as far as there are *)
(* any: the code pads its vector of pointers to need no test for it.      *)
GetSpread(v, at) ==
  LET above == {d \in v : at < d.el}
      lower == Highest(v \ above)
      upper == Lowest(above)
  IN  [lower2 |-> Highest((v \ above) \ {lower}), lower |-> lower,
       upper |-> upper, upper2 |-> Lowest(above \ {upper})]
==============================================================================
