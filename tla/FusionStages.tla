------------------------------ MODULE FusionStages ------------------------------
(***************************************************************************)
(* Stage one and stage two of the fusion of radars.  A stage one gathers   *)
(* the tilts of its radar in a volume; on a heartbeat it resolves the      *)
(* cells its mask gives it, leaves out those whose tilts are what they     *)
(* were when it last looked, and sends the values and the missings of the  *)
(* others as one product.  Stage two keeps the observations of each radar  *)
(* until they are replaced or expire.  Since unchanged cells are not sent  *)
(* again, stage two must not lose what it was told of them.                *)
(*                                                                         *)
(* A grid is one row of cells at one height, what a tilt shows of a cell   *)
(* is "value", "missing", "none" (unavailable, range folded or behind      *)
(* terrain) or that it is "outside" the sweep, and an observation is known *)
(* by the time of the product it came in.  Weights only say which tilts    *)
(* count; the averages they make are left out.                             *)
(* The masks are the roster's, here any of Masks or none at all.           *)
(***************************************************************************)
EXTENDS ElevationVolume, Integers, Sequences

CONSTANTS Radars,
          NumX,                \* cells in the row
          Elevations,          \* of the tilts
          At,                  \* radar -> cell -> its elevation seen from the radar
          Degree,              \* units of elevation in a degree
          InRange,             \* radar -> cells within its range
          Sweeps,              \* elevation -> what its tilts may show: cell -> Echo
          Masks,               \* masks the roster may have written
          NoMissing,           \* the option of stage one
          KeyCount,            \* keys of tilts, 255 in the code
          MaxTime, MaxTilts, MaxLate, MaxFaults    \* bounds

Cells == 0..NumX - 1
Echo == {"value", "missing", "none", "outside"}
Times == Nat \ {0}
Keys == 0..KeyCount                    \* 0 stands for no tilt
Tilt == [el : Elevations, t : Times, key : Keys, n : Times, sweep : [Cells -> Echo]]

ASSUME StagesAssumption ==
  /\ NumX \in Nat \ {0} /\ History \in Nat /\ KeyCount \in Nat \ {0}
  /\ MaxTime \in Nat /\ MaxTilts \in Nat /\ MaxLate \in Nat /\ MaxFaults \in Nat
  /\ Elevations \subseteq Nat /\ NoTilt \notin Tilt
  /\ At \in [Radars -> [Cells -> Nat]]
  /\ Degree \in Nat \ {0}
  /\ InRange \in [Radars -> SUBSET Cells]
  /\ Sweeps \in [Elevations -> SUBSET [Cells -> Echo]]
  /\ Masks \subseteq SUBSET Cells
  /\ NoMissing \in BOOLEAN

VARIABLES now,
          volume, keycounter, dirty, level, beat,   \* stage one of each radar
          chan,                                     \* products on their way
          obs, missings,                            \* stage two's database
          count, looked, said, spilt, faults        \* history

oneVars  == <<volume, keycounter, dirty, level, beat>>
twoVars  == <<obs, missings>>
histVars == <<count, looked, said, spilt>>
vars == <<now, oneVars, chan, twoVars, histVars, faults>>

Run == [x : Cells, length : Nat \ {0}]
Product == [t : Times, values : SUBSET Cells, runs : SUBSET Run, missing : SUBSET Cells]

(* A volume has one tilt of an elevation. *)
TypeOK ==
  /\ now \in Times
  /\ volume \in [Radars -> SUBSET Tilt]
  /\ \A r \in Radars : \A d, e \in volume[r] : d.el = e.el => d = e
  /\ keycounter \in [Radars -> Keys]
  /\ dirty \in [Radars -> Nat]
  /\ level \in [Radars -> [Cells -> [lower : Keys, upper : Keys, lower2 : Keys, upper2 : Keys]]]
  /\ beat \in [Radars -> Nat]
  /\ chan \in [Radars -> Seq(Product)]
  /\ \A r \in Radars : obs[r] \subseteq [x : Cells, t : Times]
  /\ missings \in [Cells -> Nat]
  /\ spilt \in [Radars -> SUBSET Cells]

NoLevel == [lower |-> 0, upper |-> 0, lower2 |-> 0, upper2 |-> 0]
NeverSaid == [what |-> "none", t |-> 0]
Nothing == [what |-> "none", seen |-> {}]

Init ==
  /\ now = 1
  /\ volume = [r \in Radars |-> {}]
  /\ keycounter = [r \in Radars |-> 0]
  /\ dirty = [r \in Radars |-> 0]
  /\ level = [r \in Radars |-> [c \in Cells |-> NoLevel]]
  /\ beat = [r \in Radars |-> 0]
  /\ chan = [r \in Radars |-> << >>]
  /\ obs = [r \in Radars |-> {}]
  /\ missings = [c \in Cells |-> 0]
  /\ count = [r \in Radars |-> 0]
  /\ looked = [r \in Radars |-> [c \in Cells |-> Nothing]]
  /\ said = [r \in Radars |-> [c \in Cells |-> NeverSaid]]
  /\ spilt = [r \in Radars |-> {}]
  /\ faults = 0

-----------------------------------------------------------------------------
(* Stage one *)

\* Mutant: the wrapped counter uses the key of no tilt.
NextKeyWithZero(k) == (k + 1) % (KeyCount + 1)

NextKey(k) == IF k = KeyCount THEN 1 ELSE k + 1

(* A tilt arrives, perhaps late: the volume is purged, then takes it. *)
ProcessRadialSet(r) ==
  \E el \in Elevations, t \in (now - MaxLate)..now : \E sweep \in Sweeps[el] :
    /\ t > 0 /\ count[r] < MaxTilts
    /\ keycounter' = [keycounter EXCEPT ![r] = NextKey(@)]
    /\ count' = [count EXCEPT ![r] = @ + 1]
    /\ volume' = [volume EXCEPT ![r] =
         AddDataType(PurgeTimeWindow(@, now),
                     [el |-> el, t |-> t, key |-> NextKey(keycounter[r]),
                      n |-> count[r] + 1, sweep |-> sweep])]
    /\ dirty' = [dirty EXCEPT ![r] = @ + 1]
    /\ UNCHANGED <<now, level, beat, chan, twoVars, looked, said, spilt, faults>>

Spread(r, c) == GetSpread(volume[r], At[r][c])
Key(d) == IF d = NoTilt THEN 0 ELSE d.key

LevelOf(s) == [lower |-> Key(s.lower), upper |-> Key(s.upper),
               lower2 |-> Key(s.lower2), upper2 |-> Key(s.upper2)]

Enclosing(s) == {s.lower, s.upper, s.lower2, s.upper2} \ {NoTilt}

(* LakResolver1.  The query finds a tilt in the cell, and what it shows is    *)
(* anything but unavailable, folded or blocked.                               *)
Have(d, c) == d # NoTilt /\ d.sweep[c] # "outside"
Maskable(d, c) == Have(d, c) /\ d.sweep[c] # "none"

(* The weight of tilt d, exp(a^3 log .005) with a its distance from the cell  *)
(* over its spread to tilt e, is above .45 when a < .53217; a spread that is  *)
(* not over one degree, or over four, or to a tilt that is not there is one.  *)
Apart(x, y) == IF x < y THEN y - x ELSE x - y
Bottom(spread) == IF Degree < spread /\ spread <= 4 * Degree THEN spread ELSE Degree
InThresh(at, d, e, c) ==
  100000 * Apart(at, d.el) < 53217 * (IF Have(e, c) THEN Bottom(Apart(d.el, e.el)) ELSE Degree)

(* A value if a tilt that counts has one, else missing if some tilt counts or *)
(* both of the closest ones are maskable, else nothing.                       *)
Calc(r, c, s) ==
  LET pairs == {<<s.lower, s.upper>>, <<s.upper, s.lower>>,
                <<s.lower2, s.upper>>, <<s.upper2, s.lower>>}
      counted == {p \in pairs : Maskable(p[1], c) /\ InThresh(At[r][c], p[1], p[2], c)}
  IN  IF \E p \in counted : p[1].sweep[c] = "value" THEN "value"
      ELSE IF counted # {} \/ (Maskable(s.lower, c) /\ Maskable(s.upper, c)) THEN "missing"
      ELSE "none"

(* Stage2Storage::RLE: the runs of the missing cells.  The inner loop tests   *)
(* the cell it stands on, not the next one, so a run that ends before the     *)
(* edge of the grid is counted one cell too long.                             *)
RLE(missing) ==
  LET Stop(x) == CHOOSE e \in x..NumX : e \notin missing /\ x..e - 1 \subseteq missing
  IN  {[x |-> s, length |-> IF Stop(s) = NumX THEN NumX - s ELSE Stop(s) - s + 1]
         : s \in {x \in missing : x - 1 \notin missing}}

Expand(runs) == UNION {run.x .. run.x + run.length - 1 : run \in runs}

(* processVolume with the heartbeat's time, unless nothing is new. *)
ProcessVolume(r) ==
  /\ dirty[r] > 0 /\ beat[r] < now
  /\ beat' = [beat EXCEPT ![r] = now]
  /\ \E mask \in Masks :
       LET keys == [c \in Cells |-> LevelOf(Spread(r, c))]
           found == [c \in Cells |-> Calc(r, c, Spread(r, c))]
           changed == {c \in mask \cap InRange[r] : level[r][c] # keys[c]}
           Told(e) == {c \in changed : found[c] = e}
           told == Told("value") \cup Told("missing")
       IN  /\ dirty' = [dirty EXCEPT ![r] = 0]
           /\ level' = [level EXCEPT ![r] = [c \in Cells |->
                IF c \in changed THEN keys[c] ELSE @[c]]]
           /\ looked' = [looked EXCEPT ![r] = [c \in Cells |->
                IF c \in changed THEN [what |-> found[c], seen |-> {d.n : d \in Enclosing(Spread(r, c))}]
                ELSE @[c]]]
           /\ chan' = [chan EXCEPT ![r] =
                IF told = {} THEN @
                ELSE Append(@, [t |-> now, values |-> Told("value"),
                                runs |-> RLE(Told("missing")), missing |-> Told("missing")])]
           /\ said' = [said EXCEPT ![r] = [c \in Cells |->
                IF c \in told THEN [what |-> found[c], t |-> now] ELSE @[c]]]
           /\ spilt' = [spilt EXCEPT ![r] = @ \ told]
  /\ UNCHANGED <<now, volume, keycounter, twoVars, count, faults>>

(* The roster's mask for this radar cannot be read: wait, with what is new. *)
NoMask(r) ==
  /\ dirty[r] > 0 /\ beat[r] < now
  /\ beat' = [beat EXCEPT ![r] = now]
  /\ UNCHANGED <<now, volume, keycounter, dirty, level, chan, twoVars, histVars, faults>>

-----------------------------------------------------------------------------
(* Stage two *)

Cutoff == now - History
Named(p) == p.values \cup p.missing

(* What was said in product p is not known to stage two. *)
Forget(r, p) == said' = [said EXCEPT ![r] = [c \in Cells |->
                   IF c \in Named(p) /\ @[c].t = p.t THEN [@[c] EXCEPT !.what = "lost"] ELSE @[c]]]

\* Mutant: what is named again as missing is kept.
UnionMergeValues(r, p) ==
  {[x |-> c, t |-> p.t] : c \in p.values}
    \cup {o \in obs[r] : o.x \notin p.values /\ o.t >= Cutoff}

(* The observations of p and the old ones of cells it does not name. *)
UnionMerge(r, p) ==
  {[x |-> c, t |-> p.t] : c \in p.values}
    \cup {o \in obs[r] : o.x \notin p.values \cup Expand(p.runs) /\ o.t >= Cutoff}

IngestNewData(r) ==
  /\ chan[r] # << >> /\ Head(chan[r]).t >= Cutoff
  /\ LET p == Head(chan[r]) IN
       /\ obs' = [obs EXCEPT ![r] = UnionMerge(r, p)]
       /\ missings' = [c \in Cells |->
            IF ~NoMissing /\ c \in Expand(p.runs) /\ missings[c] < p.t THEN p.t ELSE missings[c]]
       /\ spilt' = [spilt EXCEPT ![r] =
            @ \cup {c \in Expand(p.runs) \ Named(p) : said[r][c].t < p.t}]
  /\ chan' = [chan EXCEPT ![r] = Tail(@)]
  /\ UNCHANGED <<now, oneVars, count, looked, said, faults>>

(* A product that comes too late is not even read. *)
IgnoreOld(r) ==
  /\ chan[r] # << >> /\ Head(chan[r]).t < Cutoff
  /\ Forget(r, Head(chan[r]))
  /\ chan' = [chan EXCEPT ![r] = Tail(@)]
  /\ UNCHANGED <<now, oneVars, twoVars, count, looked, spilt, faults>>

(* mergeAndWriteOutput() on a heartbeat purges the database and writes. *)
TimePurge ==
  /\ obs' = [r \in Radars |-> {o \in obs[r] : o.t >= Cutoff}]
  /\ obs' # obs
  /\ UNCHANGED <<now, oneVars, chan, missings, histVars, faults>>

-----------------------------------------------------------------------------
(* A product is lost: its file, its record or its notice. *)
Lose(r) ==
  /\ chan[r] # << >> /\ faults < MaxFaults
  /\ Forget(r, Head(chan[r]))
  /\ chan' = [chan EXCEPT ![r] = Tail(@)]
  /\ faults' = faults + 1
  /\ UNCHANGED <<now, oneVars, twoVars, count, looked, spilt>>

RestartStageOne(r) ==
  /\ faults < MaxFaults /\ count[r] > 0
  /\ volume' = [volume EXCEPT ![r] = {}]
  /\ keycounter' = [keycounter EXCEPT ![r] = 0]
  /\ dirty' = [dirty EXCEPT ![r] = 0]
  /\ level' = [level EXCEPT ![r] = [c \in Cells |-> NoLevel]]
  /\ looked' = [looked EXCEPT ![r] = [c \in Cells |-> Nothing]]
  /\ faults' = faults + 1
  /\ UNCHANGED <<now, beat, chan, twoVars, count, said, spilt>>

(* With -r stage two starts with an empty database and new records only. *)
RestartStageTwo ==
  /\ faults < MaxFaults
  /\ obs' = [r \in Radars |-> {}]
  /\ missings' = [c \in Cells |-> 0]
  /\ chan' = [r \in Radars |-> << >>]
  /\ said' = [r \in Radars |-> [c \in Cells |->
       IF said[r][c] = NeverSaid THEN NeverSaid ELSE [said[r][c] EXCEPT !.what = "lost"]]]
  /\ faults' = faults + 1
  /\ UNCHANGED <<now, oneVars, count, looked, spilt>>

ClockTick ==
  /\ now < MaxTime
  /\ now' = now + 1
  /\ UNCHANGED <<oneVars, chan, twoVars, histVars, faults>>

Next ==
  \/ \E r \in Radars : \/ ProcessRadialSet(r) \/ ProcessVolume(r) \/ NoMask(r)
                       \/ IngestNewData(r) \/ IgnoreOld(r)
                       \/ Lose(r) \/ RestartStageOne(r)
  \/ TimePurge \/ RestartStageTwo \/ ClockTick

Spec == Init /\ [][Next]_vars

-----------------------------------------------------------------------------
(* "The value won't change, so continue": a cell whose keys are those of the  *)
(* last look would be resolved to what it was then, as long as none of the    *)
(* keys around it, then and now, was given out again.                         *)
SameMeansSame ==
  \A r \in Radars : \A c \in Cells :
    LET s == Spread(r, c) IN
      (/\ level[r][c] = LevelOf(s)
       /\ \A n \in looked[r][c].seen \cup {d.n : d \in Enclosing(s)} :
            count[r] - n < KeyCount)
        => Calc(r, c, s) = looked[r][c].what

(* What stage one last said of a cell is not under way any more. *)
Arrived(r, c) == \A i \in 1..Len(chan[r]) : ~ (chan[r][i].t = said[r][c].t /\ c \in Named(chan[r][i]))

Held(r, c) == {o.t : o \in {b \in obs[r] : b.x = c}}

Follows(r, c) ==
  LET s == said[r][c]
  IN  /\ \A t, u \in Held(r, c) : t = u
      /\ s.what = "none" => Held(r, c) = {}
      /\ s.what = "value" /\ Arrived(r, c) =>
           Held(r, c) = {s.t} \/ (Held(r, c) = {} /\ s.t < Cutoff)
      /\ s.what = "missing" /\ Arrived(r, c) =>
           Held(r, c) = {} /\ (NoMissing \/ missings[c] >= s.t)

(* Stage two holds of every cell what stage one last said of it, though the   *)
(* products name only cells that changed: unless the product was lost or too  *)
(* late, the observation has expired, or a run of missings spilt over it.     *)
DatabaseFollows ==
  \A r \in Radars : \A c \in Cells : c \notin spilt[r] => Follows(r, c)

(* ... and what a run spills over is of no account, as the comments have it:  *)
(* only missing cells are stored and run-length encoded, and a cell that is   *)
(* skipped keeps its value.                                                   *)
SkippedKept == \A r \in Radars : \A c \in Cells : Follows(r, c)
==============================================================================
