--------------------------- MODULE FusionStagesProofs ---------------------------
(***************************************************************************)
(* What FusionStages guarantees for every number of radars, cells,         *)
(* elevations and keys: its state is well typed, and a cell that stage one *)
(* skips as unchanged would be resolved to what it was.  For the latter    *)
(* the invariant carries the tilts that were around a cell at its last     *)
(* look, and which key each tilt has by its age.                           *)
(***************************************************************************)
EXTENDS FusionStages, FiniteSetTheorems, WellFoundedInduction, TLAPS

\* A set of numbers has a least one.
LEMMA LeastOf ==
  ASSUME NEW T \in SUBSET Nat, T # {}
  PROVE  \E m \in T : \A k \in T : m <= k
<1>1. PICK n \in T : TRUE
  OBVIOUS
<1> DEFINE S == 0..n
           Upto == {0..k : k \in T \cap S}
<1>2. IsFiniteSet(S)
  BY FS_Interval
<1>3. Upto \subseteq FiniteSubsetsOf(S) /\ Upto # {}
  <2>1. FiniteSubsetsOf(S) = SUBSET S
    BY <1>2, FS_FiniteSubsetsOfFinite
  <2>2. ASSUME NEW X \in Upto PROVE X \in SUBSET S
    <3>1. PICK k \in T \cap S : X = 0..k
      OBVIOUS
    <3>2. QED
      BY <3>1
  <2>3. 0..n \in Upto
    OBVIOUS
  <2>4. QED
    BY <2>1, <2>2, <2>3
<1>4. PICK X \in Upto : \A Y \in Upto : <<Y, X>> \notin StrictSubsetOrdering(S)
  BY <1>3, FS_StrictSubsetOrderingWellFounded, WFMin
<1>5. PICK m \in T \cap S : X = 0..m
  OBVIOUS
<1>6. ASSUME NEW k \in T, k < m PROVE FALSE
  <2>1. k \in T \cap S /\ 0..k \in SUBSET S /\ 0..m \in SUBSET S /\ 0..k \subseteq 0..m
        /\ m \in 0..m /\ m \notin 0..k
    BY <1>6
  <2>2. <<0..k, 0..m>> \in StrictSubsetOrdering(S) /\ 0..k \in Upto
    BY <2>1 DEF StrictSubsetOrdering
  <2>3. QED
    BY <1>4, <1>5, <2>2
<1>7. QED
  BY <1>6

\* The parts of a tilt.
LEMMA TiltOK ==
  ASSUME NEW d \in Tilt
  PROVE  d.el \in Nat /\ d.key \in Keys /\ d.n \in Nat /\ d # NoTilt
<1>1. d.el \in Elevations /\ Elevations \subseteq Nat /\ NoTilt \notin Tilt
  BY StagesAssumption DEF Tilt
<1>2. QED
  BY <1>1 DEF Tilt, Times

\* The lowest and the highest of some tilts are tilts of theirs.
LEMMA LowestOK ==
  ASSUME NEW S \in SUBSET Tilt
  PROVE  Lowest(S) \in S \cup {NoTilt}
<1>1. CASE S = {}
  BY <1>1 DEF Lowest
<1>2. CASE S # {}
  <2> DEFINE T == {d.el : d \in S}
  <2>1. \A d \in S : d.el \in Nat
    BY TiltOK
  <2>t. T \in SUBSET Nat /\ T # {}
    BY <1>2, <2>1
  <2>2. PICK m \in T : \A k \in T : m <= k
    BY <2>t, LeastOf
  <2>3. PICK d \in S : d.el = m
    OBVIOUS
  <2>4. \A e \in S : d.el <= e.el
    BY <2>2, <2>3
  <2>5. QED
    BY <1>2, <2>3, <2>4 DEF Lowest
<1>3. QED
  BY <1>1, <1>2

\* ... and the highest, which is the lowest counted downwards.
LEMMA HighestOK ==
  ASSUME NEW S \in SUBSET Tilt, NEW at \in Nat, \A d \in S : d.el <= at
  PROVE  Highest(S) \in S \cup {NoTilt}
<1>1. CASE S = {}
  BY <1>1 DEF Highest
<1>2. CASE S # {}
  <2> DEFINE T == {at - d.el : d \in S}
  <2>1. ASSUME NEW d \in S PROVE d.el \in Nat /\ at - d.el \in Nat
    <3>1. d.el \in Nat /\ d.el <= at
      BY TiltOK
    <3>2. QED
      BY <3>1
  <2>2. PICK m \in T : \A k \in T : m <= k
    <3>1. T \in SUBSET Nat /\ T # {}
      BY <1>2, <2>1
    <3> HIDE DEF T
    <3>2. QED
      BY <3>1, LeastOf
  <2>3. PICK d \in S : at - d.el = m
    OBVIOUS
  <2>4. ASSUME NEW e \in S PROVE d.el >= e.el
    <3>1. at - d.el <= at - e.el
      BY <2>2, <2>3
    <3>2. QED
      BY <2>1, <3>1
  <2>5. QED
    BY <1>2, <2>3, <2>4 DEF Highest
<1>3. QED
  BY <1>1, <1>2

SpreadSet == [lower2 : Tilt \cup {NoTilt}, lower : Tilt \cup {NoTilt},
              upper : Tilt \cup {NoTilt}, upper2 : Tilt \cup {NoTilt}]

\* The tilts around an elevation are tilts of the volume.
LEMMA GetSpreadOK ==
  ASSUME NEW v \in SUBSET Tilt, NEW at \in Nat
  PROVE  GetSpread(v, at) \in SpreadSet /\ Enclosing(GetSpread(v, at)) \subseteq v
<1> DEFINE above == {d \in v : at < d.el}
           lower == Highest(v \ above)
           upper == Lowest(above)
           lower2 == Highest((v \ above) \ {lower})
           upper2 == Lowest(above \ {upper})
<1>1. ASSUME NEW d \in v \ above PROVE d.el <= at
  <2>1. d \in v /\ d.el \in Nat /\ ~ (at < d.el)
    BY TiltOK
  <2>2. QED
    BY <2>1
<1>2. lower \in v \cup {NoTilt} /\ lower2 \in v \cup {NoTilt}
  <2>1. v \ above \in SUBSET Tilt /\ (v \ above) \ {lower} \in SUBSET Tilt
    OBVIOUS
  <2> HIDE DEF above
  <2>2. lower \in (v \ above) \cup {NoTilt}
    BY <1>1, <2>1, HighestOK
  <2> HIDE DEF lower
  <2>3. lower2 \in ((v \ above) \ {lower}) \cup {NoTilt}
    BY <1>1, <2>1, HighestOK
  <2>4. QED
    BY <2>2, <2>3
<1>3. upper \in v \cup {NoTilt} /\ upper2 \in v \cup {NoTilt}
  <2>1. above \in SUBSET Tilt /\ above \ {upper} \in SUBSET Tilt /\ above \subseteq v
    OBVIOUS
  <2> HIDE DEF above
  <2>2. upper \in above \cup {NoTilt}
    BY <2>1, LowestOK
  <2> HIDE DEF upper
  <2>3. upper2 \in (above \ {upper}) \cup {NoTilt}
    BY <2>1, LowestOK
  <2>4. QED
    BY <2>1, <2>2, <2>3
<1>4. GetSpread(v, at) = [lower2 |-> lower2, lower |-> lower, upper |-> upper, upper2 |-> upper2]
  BY DEF GetSpread
<1> HIDE DEF above, lower, upper, lower2, upper2
<1>5. QED
  BY <1>2, <1>3, <1>4 DEF SpreadSet, Enclosing

Fits(run) == run.x + run.length <= NumX

\* A run may be one cell too long, yet it ends within the row.
LEMMA RLEOK ==
  ASSUME NEW missing \in SUBSET Cells
  PROVE  RLE(missing) \subseteq {run \in Run : Fits(run)}
<1> DEFINE Stop(x) == CHOOSE e \in x..NumX : e \notin missing /\ x..e - 1 \subseteq missing
<1>1. NumX \in Nat \ {0} /\ NumX \notin missing /\ \A x \in missing : x \in Nat /\ x < NumX
  BY StagesAssumption DEF Cells
<1>2. ASSUME NEW x \in missing PROVE Stop(x) \in x + 1..NumX
  <2> DEFINE T == {e \in x..NumX : e \notin missing}
  <2>1. T \in SUBSET Nat /\ NumX \in T
    BY <1>1
  <2>2. PICK e \in T : \A k \in T : e <= k
    BY <2>1, LeastOf
  <2>3. e \in x..NumX /\ e \notin missing /\ x..e - 1 \subseteq missing
    BY <1>1, <2>2
  <2>4. Stop(x) \in x..NumX /\ Stop(x) \notin missing
    BY <2>3
  <2>5. QED
    BY <1>1, <2>4
<1>3. ASSUME NEW x \in missing
      PROVE [x |-> x, length |-> IF Stop(x) = NumX THEN NumX - x ELSE Stop(x) - x + 1]
              \in {run \in Run : Fits(run)}
  <2>1. PICK e \in x + 1..NumX : e = Stop(x)
    BY <1>2
  <2>3. x \in Nat /\ x < NumX /\ x \in Cells
    BY <1>1
  <2> HIDE DEF Stop
  <2>2. PICK length \in Nat \ {0} : /\ length = IF Stop(x) = NumX THEN NumX - x ELSE Stop(x) - x + 1
                                    /\ x + length <= NumX
    BY <1>1, <2>1, <2>3
  <2>4. QED
    BY <2>3, <2>2 DEF Run, Fits
<1>4. QED
  BY <1>3 DEF RLE
-----------------------------------------------------------------------------
Fitting == {p \in Product : \A run \in p.runs : Fits(run)}
Observation == [x : Cells, t : Times]

(* What type correctness needs besides: runs that end within the row. *)
Types ==
  /\ TypeOK
  /\ chan \in [Radars -> Seq(Fitting)]
  /\ obs \in [Radars -> SUBSET Observation]
  /\ count \in [Radars -> Nat]
  /\ looked \in [Radars -> [Cells -> [what : Echo, seen : SUBSET Nat]]]

\* Runs that fit name cells of the row.
LEMMA ExpandOK ==
  ASSUME NEW p \in Fitting
  PROVE  Expand(p.runs) \subseteq Cells
<1>1. ASSUME NEW run \in p.runs, NEW c \in run.x .. run.x + run.length - 1 PROVE c \in Cells
  <2>1. run.x \in 0..NumX - 1 /\ run.length \in Nat /\ run.x + run.length <= NumX /\ NumX \in Nat
    BY StagesAssumption DEF Fitting, Product, Run, Fits, Cells
  <2>2. QED
    BY <2>1 DEF Cells
<1>2. QED
  BY <1>1 DEF Expand

\* What is taken from a channel.
LEMMA FirstProduct ==
  ASSUME NEW S, NEW q \in Seq(S), q # << >>
  PROVE  Head(q) \in S /\ Tail(q) \in Seq(S)
OBVIOUS

\* What a cell is resolved to.
LEMMA CalcOK ==
  ASSUME NEW r, NEW c, NEW s
  PROVE  Calc(r, c, s) \in Echo
BY DEF Calc, Echo

\* The keys that are kept of a cell.
LEMMA LevelOfOK ==
  ASSUME NEW s \in SpreadSet
  PROVE  LevelOf(s) \in [lower : Keys, upper : Keys, lower2 : Keys, upper2 : Keys]
<1>1. 0 \in Keys
  BY StagesAssumption DEF Keys
<1>2. \A d \in Tilt \cup {NoTilt} : Key(d) \in Keys
  BY <1>1, TiltOK DEF Key
<1>3. QED
  BY <1>2 DEF LevelOf, SpreadSet

\* What is around a cell are tilts of the volume.
LEMMA SpreadOK ==
  ASSUME Types, NEW r \in Radars, NEW c \in Cells
  PROVE  Spread(r, c) \in SpreadSet /\ Enclosing(Spread(r, c)) \subseteq volume[r]
<1>1. volume[r] \in SUBSET Tilt /\ At[r][c] \in Nat
  BY StagesAssumption DEF Types, TypeOK
<1>2. QED
  BY <1>1, GetSpreadOK DEF Spread

\* The initial states.
LEMMA InitTypes == Init => Types
<1> SUFFICES ASSUME Init PROVE Types
  OBVIOUS
<1>1. 0 \in Keys
  BY StagesAssumption DEF Keys
<1>2. NoLevel \in [lower : Keys, upper : Keys, lower2 : Keys, upper2 : Keys]
  BY <1>1 DEF NoLevel
<1>3. Nothing \in [what : Echo, seen : SUBSET Nat]
  BY DEF Nothing, Echo
<1>4. TypeOK
  BY <1>1, <1>2 DEF Init, TypeOK, Times
<1>5. QED
  BY <1>3, <1>4 DEF Init, Types

\* Every step keeps the types.
LEMMA NextTypes == Types /\ [Next]_vars => Types'
<1> SUFFICES ASSUME Types, [Next]_vars PROVE Types'
  OBVIOUS
<1>1. ASSUME NEW r \in Radars, ProcessRadialSet(r) PROVE Types'
  <2>1. PICK el \in Elevations, t \in (now - MaxLate)..now : \E sweep \in Sweeps[el] :
          /\ t > 0
          /\ volume' = [volume EXCEPT ![r] =
               AddDataType(PurgeTimeWindow(@, now),
                     [el |-> el, t |-> t, key |-> NextKey(keycounter[r]),
                      n |-> count[r] + 1, sweep |-> sweep])]
    BY <1>1 DEF ProcessRadialSet
  <2>2. PICK sweep \in Sweeps[el] : volume' = [volume EXCEPT ![r] =
               AddDataType(PurgeTimeWindow(@, now),
                     [el |-> el, t |-> t, key |-> NextKey(keycounter[r]),
                      n |-> count[r] + 1, sweep |-> sweep])]
    BY <2>1
  <2>3. NextKey(keycounter[r]) \in Keys
    BY StagesAssumption DEF NextKey, Keys, Types, TypeOK
  <2>4. t \in Times /\ count[r] + 1 \in Times /\ sweep \in [Cells -> Echo]
    BY <2>1, <2>2, StagesAssumption DEF Times, Types, TypeOK
  <2> DEFINE new == [el |-> el, t |-> t, key |-> NextKey(keycounter[r]),
                     n |-> count[r] + 1, sweep |-> sweep]
             kept == PurgeTimeWindow(volume[r], now)
  <2>5. new \in Tilt /\ new.el = el
    BY <2>3, <2>4 DEF Tilt
  <2>6. kept \subseteq volume[r]
    BY DEF PurgeTimeWindow
  <2>7. volume' = [volume EXCEPT ![r] = AddDataType(kept, new)]
    BY <2>2
  <2> HIDE DEF new, kept
  <2>8. /\ AddDataType(kept, new) \in SUBSET Tilt
        /\ \A d, e \in AddDataType(kept, new) : d.el = e.el => d = e
    BY <2>5, <2>6 DEF AddDataType, Types, TypeOK
  <2>9. /\ volume' \in [Radars -> SUBSET Tilt]
        /\ \A q \in Radars : \A d, e \in volume'[q] : d.el = e.el => d = e
    BY <2>7, <2>8 DEF Types, TypeOK
  <2>10. keycounter' \in [Radars -> Keys]
    BY <1>1, <2>3 DEF ProcessRadialSet, Types, TypeOK
  <2>11. dirty' \in [Radars -> Nat] /\ count' \in [Radars -> Nat]
    BY <1>1 DEF ProcessRadialSet, Types, TypeOK
  <2>12. UNCHANGED <<now, level, beat, chan, obs, missings, looked, spilt>>
    BY <1>1 DEF ProcessRadialSet, twoVars
  <2>13. QED
    BY <2>9, <2>10, <2>11, <2>12 DEF Types, TypeOK
<1>2. ASSUME NEW r \in Radars, ProcessVolume(r) PROVE Types'
  <2> DEFINE keys == [c \in Cells |-> LevelOf(Spread(r, c))]
             found == [c \in Cells |-> Calc(r, c, Spread(r, c))]
             changed(mask) == {c \in mask \cap InRange[r] : level[r][c] # keys[c]}
             Told(mask, e) == {c \in changed(mask) : found[c] = e}
             told(mask) == Told(mask, "value") \cup Told(mask, "missing")
             product(mask) == [t |-> now, values |-> Told(mask, "value"),
                               runs |-> RLE(Told(mask, "missing")), missing |-> Told(mask, "missing")]
             look(c) == [what |-> found[c], seen |-> {d.n : d \in Enclosing(Spread(r, c))}]
  <2>1. PICK mask \in Masks :
          /\ dirty' = [dirty EXCEPT ![r] = 0]
          /\ level' = [level EXCEPT ![r] = [c \in Cells |->
                IF c \in changed(mask) THEN keys[c] ELSE @[c]]]
          /\ looked' = [looked EXCEPT ![r] = [c \in Cells |->
                IF c \in changed(mask) THEN look(c) ELSE @[c]]]
          /\ chan' = [chan EXCEPT ![r] =
                IF told(mask) = {} THEN @ ELSE Append(@, product(mask))]
          /\ spilt' = [spilt EXCEPT ![r] = @ \ told(mask)]
    BY <1>2 DEF ProcessVolume
  <2>2. keys \in [Cells -> [lower : Keys, upper : Keys, lower2 : Keys, upper2 : Keys]]
    BY SpreadOK, LevelOfOK
  <2>3. ASSUME NEW c \in Cells PROVE look(c) \in [what : Echo, seen : SUBSET Nat]
    <3>1. Enclosing(Spread(r, c)) \subseteq Tilt
      BY SpreadOK DEF Types, TypeOK
    <3>2. {d.n : d \in Enclosing(Spread(r, c))} \in SUBSET Nat
      BY <3>1, TiltOK
    <3>3. found[c] \in Echo
      BY CalcOK
    <3>4. QED
      BY <3>2, <3>3
  <2>4. changed(mask) \subseteq Cells
    BY StagesAssumption
  <2>5. product(mask) \in Fitting
    <3>1. Told(mask, "value") \in SUBSET Cells /\ Told(mask, "missing") \in SUBSET Cells
      BY <2>4
    <3> HIDE DEF Told
    <3>2. RLE(Told(mask, "missing")) \subseteq {run \in Run : Fits(run)}
      BY <3>1, RLEOK
    <3>3. QED
      BY <3>1, <3>2 DEF Fitting, Product, Types, TypeOK
  <2> HIDE DEF keys, found, changed, Told, told, product, look
  <2>6. level' \in [Radars -> [Cells -> [lower : Keys, upper : Keys, lower2 : Keys, upper2 : Keys]]]
    BY <2>1, <2>2 DEF Types, TypeOK
  <2>7. looked' \in [Radars -> [Cells -> [what : Echo, seen : SUBSET Nat]]]
    BY <2>1, <2>3 DEF Types
  <2>8. chan' \in [Radars -> Seq(Fitting)]
    BY <2>1, <2>5 DEF Types
  <2>9. chan' \in [Radars -> Seq(Product)]
    <3>1. product(mask) \in Product
      BY <2>5 DEF Fitting
    <3>2. QED
      BY <2>1, <3>1 DEF Types, TypeOK
  <2>10. spilt' \in [Radars -> SUBSET Cells] /\ dirty' \in [Radars -> Nat]
    BY <2>1 DEF Types, TypeOK
  <2>11. beat' \in [Radars -> Nat]
    BY <1>2 DEF ProcessVolume, Types, TypeOK, Times
  <2>12. UNCHANGED <<now, volume, keycounter, obs, missings, count>>
    BY <1>2 DEF ProcessVolume, twoVars
  <2>13. QED
    BY <2>6, <2>7, <2>8, <2>9, <2>10, <2>11, <2>12 DEF Types, TypeOK
<1>3. ASSUME NEW r \in Radars, NoMask(r) PROVE Types'
  <2>1. beat' \in [Radars -> Nat]
    BY <1>3 DEF NoMask, Types, TypeOK, Times
  <2>2. QED
    BY <1>3, <2>1 DEF NoMask, Types, TypeOK, twoVars, histVars
<1>4. ASSUME NEW r \in Radars, IngestNewData(r) PROVE Types'
  <2>1. PICK p \in Fitting : p = Head(chan[r])
    BY <1>4, FirstProduct DEF IngestNewData, Types
  <2>2. /\ obs' = [obs EXCEPT ![r] = UnionMerge(r, p)]
        /\ missings' = [c \in Cells |->
             IF ~NoMissing /\ c \in Expand(p.runs) /\ missings[c] < p.t THEN p.t ELSE missings[c]]
        /\ spilt' = [spilt EXCEPT ![r] =
             @ \cup {c \in Expand(p.runs) \ Named(p) : said[r][c].t < p.t}]
        /\ chan' = [chan EXCEPT ![r] = Tail(@)]
    BY <1>4, <2>1 DEF IngestNewData
  <2>3. p.t \in Times /\ p.t \in Nat /\ p.values \subseteq Cells /\ Expand(p.runs) \subseteq Cells
    BY ExpandOK DEF Fitting, Product, Times
  <2>4. UnionMerge(r, p) \in SUBSET Observation
    BY <2>3 DEF UnionMerge, Observation, Types
  <2>5. obs' \in [Radars -> SUBSET Observation]
    BY <2>2, <2>4 DEF Types
  <2>6. missings' \in [Cells -> Nat]
    BY <2>2, <2>3 DEF Types, TypeOK
  <2>7. spilt' \in [Radars -> SUBSET Cells]
    BY <2>2, <2>3 DEF Types, TypeOK
  <2>8. chan' \in [Radars -> Seq(Fitting)] /\ chan' \in [Radars -> Seq(Product)]
    BY <1>4, <2>2, FirstProduct DEF IngestNewData, Types, TypeOK
  <2>9. UNCHANGED <<now, volume, keycounter, dirty, level, beat, count, looked>>
    BY <1>4 DEF IngestNewData, oneVars
  <2>10. QED
    BY <2>5, <2>6, <2>7, <2>8, <2>9 DEF Types, TypeOK, Observation
<1>5. ASSUME NEW r \in Radars, IgnoreOld(r) \/ Lose(r) PROVE Types'
  <2>1. chan' \in [Radars -> Seq(Fitting)] /\ chan' \in [Radars -> Seq(Product)]
    <3>1. chan[r] # << >> /\ chan' = [chan EXCEPT ![r] = Tail(@)]
      BY <1>5 DEF IgnoreOld, Lose
    <3>2. Tail(chan[r]) \in Seq(Fitting) /\ Tail(chan[r]) \in Seq(Product)
      BY <3>1, FirstProduct DEF Types, TypeOK
    <3>3. QED
      BY <3>1, <3>2 DEF Types, TypeOK
  <2>2. UNCHANGED <<now, oneVars, twoVars, count, looked, spilt>>
    BY <1>5 DEF IgnoreOld, Lose
  <2>3. QED
    BY <2>1, <2>2 DEF Types, TypeOK, oneVars, twoVars
<1>6. ASSUME NEW r \in Radars, RestartStageOne(r) PROVE Types'
  <2>1. 0 \in Keys
    BY StagesAssumption DEF Keys
  <2>2. NoLevel \in [lower : Keys, upper : Keys, lower2 : Keys, upper2 : Keys]
    BY <2>1 DEF NoLevel
  <2>3. Nothing \in [what : Echo, seen : SUBSET Nat]
    BY DEF Nothing, Echo
  <2>4. /\ volume' = [volume EXCEPT ![r] = {}]
        /\ keycounter' = [keycounter EXCEPT ![r] = 0]
        /\ dirty' = [dirty EXCEPT ![r] = 0]
        /\ level' = [level EXCEPT ![r] = [c \in Cells |-> NoLevel]]
        /\ looked' = [looked EXCEPT ![r] = [c \in Cells |-> Nothing]]
        /\ UNCHANGED <<now, beat, chan, obs, missings, count, spilt>>
    BY <1>6 DEF RestartStageOne, twoVars
  <2>5. /\ volume' \in [Radars -> SUBSET Tilt]
        /\ \A q \in Radars : \A d, e \in volume'[q] : d.el = e.el => d = e
    BY <2>4 DEF Types, TypeOK
  <2>6. keycounter' \in [Radars -> Keys] /\ dirty' \in [Radars -> Nat]
    BY <2>1, <2>4 DEF Types, TypeOK
  <2>7. level' \in [Radars -> [Cells -> [lower : Keys, upper : Keys, lower2 : Keys, upper2 : Keys]]]
    BY <2>2, <2>4 DEF Types, TypeOK
  <2>8. looked' \in [Radars -> [Cells -> [what : Echo, seen : SUBSET Nat]]]
    BY <2>3, <2>4 DEF Types
  <2>9. QED
    BY <2>4, <2>5, <2>6, <2>7, <2>8 DEF Types, TypeOK
<1>7. CASE TimePurge
  <2>1. obs' \in [Radars -> SUBSET Observation]
    BY <1>7 DEF TimePurge, Types
  <2>2. QED
    BY <1>7, <2>1 DEF TimePurge, Types, TypeOK, Observation, oneVars, histVars
<1>8. CASE RestartStageTwo
  <2>1. /\ obs' \in [Radars -> SUBSET Observation] /\ missings' \in [Cells -> Nat]
        /\ chan' \in [Radars -> Seq(Fitting)] /\ chan' \in [Radars -> Seq(Product)]
    BY <1>8 DEF RestartStageTwo
  <2>2. UNCHANGED <<now, oneVars, count, looked, spilt>>
    BY <1>8 DEF RestartStageTwo
  <2>3. QED
    BY <2>1, <2>2 DEF Types, TypeOK, Observation, oneVars
<1>9. CASE ClockTick
  <2>1. now' \in Times
    BY <1>9 DEF ClockTick, Types, TypeOK, Times
  <2>2. QED
    BY <1>9, <2>1 DEF ClockTick, Types, TypeOK, oneVars, twoVars, histVars
<1>10. CASE UNCHANGED vars
  BY <1>10 DEF vars, Types, TypeOK, oneVars, twoVars, histVars
<1>11. QED
  BY <1>1, <1>2, <1>3, <1>4, <1>5, <1>6, <1>7, <1>8, <1>9, <1>10 DEF Next

(* The state of the stages has its types: volumes hold one tilt of an       *)
(* elevation, and no run of missings leaves the grid, although it may be    *)
(* one cell too long.                                                       *)
THEOREM StagesTypeCorrect == Spec => []TypeOK
<1>1. Types => TypeOK
  BY DEF Types
<1>2. QED
  BY <1>1, InitTypes, NextTypes, PTL DEF Spec
-----------------------------------------------------------------------------
(* The key of the tilt that came "age" tilts before the one with key k. *)
KeyFor(k, age) == IF k - age >= 1 THEN k - age ELSE k - age + KeyCount

Known(r, d) ==
  /\ d.n <= count[r] /\ d.key # 0 /\ keycounter[r] # 0
  /\ count[r] - d.n < KeyCount => d.key = KeyFor(keycounter[r], count[r] - d.n)

(* Radar r looked at cell c with the tilts of s around it. *)
LookedAt(r, c, s) ==
  /\ level[r][c] = LevelOf(s)
  /\ looked[r][c] = [what |-> Calc(r, c, s), seen |-> {d.n : d \in Enclosing(s)}]
  /\ \A d \in Enclosing(s) :
       Known(r, d) /\ \A e \in volume[r] : e.n = d.n => e = d

TiltsKnown ==
  \A r \in Radars : /\ \A d \in volume[r] : Known(r, d)
                    /\ \A d, e \in volume[r] : d.n = e.n => d = e

Looks == \A r \in Radars : \A c \in Cells : \E s \in SpreadSet : LookedAt(r, c, s)

LookInv == Types /\ TiltsKnown /\ Looks

Bare == [lower2 |-> NoTilt, lower |-> NoTilt, upper |-> NoTilt, upper2 |-> NoTilt]

\* Nothing is made of no tilts.
LEMMA BareCalc ==
  ASSUME NEW r, NEW c
  PROVE  Calc(r, c, Bare) = "none"
<1> DEFINE pairs == {<<NoTilt, NoTilt>>}
           counted == {p \in pairs : Maskable(p[1], c) /\ InThresh(At[r][c], p[1], p[2], c)}
<1>1. ~Maskable(NoTilt, c)
  BY DEF Maskable, Have
<1>2. counted = {}
  BY <1>1
<1>3. /\ Bare.lower = NoTilt /\ Bare.upper = NoTilt
      /\ Bare.lower2 = NoTilt /\ Bare.upper2 = NoTilt
  BY DEF Bare
<1>4. {<<Bare.lower, Bare.upper>>, <<Bare.upper, Bare.lower>>,
       <<Bare.lower2, Bare.upper>>, <<Bare.upper2, Bare.lower>>} = pairs
  BY <1>3
<1>5. QED
  BY <1>1, <1>2, <1>3, <1>4 DEF Calc

\* A cell that was not looked at is as if nothing had been around it,
LEMMA BareOK ==
  ASSUME NEW r \in Radars, NEW c \in Cells,
         level[r][c] = NoLevel, looked[r][c] = Nothing
  PROVE  \E s \in SpreadSet : LookedAt(r, c, s)
<1>1. Bare \in SpreadSet
  BY DEF Bare, SpreadSet
<1>2. Enclosing(Bare) = {}
  BY DEF Enclosing, Bare
<1>3. LevelOf(Bare) = NoLevel
  BY DEF LevelOf, Key, Bare, NoLevel
<1>4. Calc(r, c, Bare) = "none"
  BY BareCalc
<1>5. {d.n : d \in Enclosing(Bare)} = {}
  BY <1>2
<1>6. LookedAt(r, c, Bare)
  BY <1>2, <1>3, <1>4, <1>5 DEF LookedAt, Nothing
<1>7. QED
  BY <1>1, <1>6

\* ... after a step as before it.
LEMMA BareOKNext ==
  ASSUME NEW r \in Radars, NEW c \in Cells,
         level'[r][c] = NoLevel, looked'[r][c] = Nothing
  PROVE  \E s \in SpreadSet : LookedAt(r, c, s)'
<1>1. Bare \in SpreadSet
  BY DEF Bare, SpreadSet
<1>2. Enclosing(Bare) = {}
  BY DEF Enclosing, Bare
<1>3. LevelOf(Bare) = NoLevel
  BY DEF LevelOf, Key, Bare, NoLevel
<1>4. Calc(r, c, Bare) = "none"
  BY BareCalc
<1>5. {d.n : d \in Enclosing(Bare)} = {}
  BY <1>2
<1>6. LookedAt(r, c, Bare)'
  BY <1>2, <1>3, <1>4, <1>5 DEF LookedAt, Nothing
<1>7. QED
  BY <1>1, <1>6

(* A tilt stays known as others come, until its key is given out again. *)
LEMMA KnownOn ==
  ASSUME Types, NEW r \in Radars, NEW d \in Tilt, Known(r, d),
         keycounter' = [keycounter EXCEPT ![r] = NextKey(@)],
         count' = [count EXCEPT ![r] = @ + 1]
  PROVE  Known(r, d)'
<1>1. /\ count[r] \in Nat /\ keycounter[r] \in 1..KeyCount /\ KeyCount \in Nat \ {0}
      /\ d.n \in Nat /\ d.key \in Nat
  BY StagesAssumption, TiltOK DEF Known, Types, TypeOK, Keys
<1>2. /\ count'[r] = count[r] + 1
      /\ keycounter'[r] = IF keycounter[r] = KeyCount THEN 1 ELSE keycounter[r] + 1
  BY DEF NextKey, Types, TypeOK
<1>3. ASSUME count'[r] - d.n < KeyCount
      PROVE  d.key = KeyFor(keycounter'[r], count'[r] - d.n)
  BY <1>1, <1>2, <1>3 DEF Known, KeyFor
<1>4. QED
  BY <1>1, <1>2, <1>3 DEF Known

\* The initial states.
LEMMA InitLooks == Init => LookInv
<1> SUFFICES ASSUME Init PROVE LookInv
  OBVIOUS
<1>1. Types
  BY InitTypes
<1>2. TiltsKnown
  BY DEF Init, TiltsKnown
<1>3. \A r \in Radars : \A c \in Cells : level[r][c] = NoLevel /\ looked[r][c] = Nothing
  BY DEF Init
<1>4. Looks
  BY <1>3, BareOK DEF Looks
<1>5. QED
  BY <1>1, <1>2, <1>4 DEF LookInv

\* Every step keeps the looks.
LEMMA NextLooks == LookInv /\ [Next]_vars => LookInv'
<1> SUFFICES ASSUME LookInv, [Next]_vars PROVE LookInv'
  OBVIOUS
<1>1. Types /\ Types'
  BY NextTypes DEF LookInv
<1>2. CASE UNCHANGED <<volume, keycounter, level, count, looked>>
  <2>1. TiltsKnown'
    BY <1>2 DEF LookInv, TiltsKnown, Known
  <2>2. ASSUME NEW r \in Radars, NEW c \in Cells PROVE \E s \in SpreadSet : LookedAt(r, c, s)'
    <3>1. PICK s \in SpreadSet : LookedAt(r, c, s)
      BY DEF LookInv, Looks
    <3>2. LookedAt(r, c, s)'
      BY <1>2, <3>1 DEF LookedAt, Known
    <3>3. QED
      BY <3>2
  <2>3. QED
    BY <1>1, <2>1, <2>2 DEF LookInv, Looks
<1>3. ASSUME NEW r \in Radars, ProcessRadialSet(r) PROVE LookInv'
  <2>1. PICK el \in Elevations, t \in (now - MaxLate)..now : \E sweep \in Sweeps[el] :
          volume' = [volume EXCEPT ![r] =
               AddDataType(PurgeTimeWindow(@, now),
                     [el |-> el, t |-> t, key |-> NextKey(keycounter[r]),
                      n |-> count[r] + 1, sweep |-> sweep])]
    BY <1>3 DEF ProcessRadialSet
  <2>2. PICK sweep \in Sweeps[el] : volume' = [volume EXCEPT ![r] =
               AddDataType(PurgeTimeWindow(@, now),
                     [el |-> el, t |-> t, key |-> NextKey(keycounter[r]),
                      n |-> count[r] + 1, sweep |-> sweep])]
    BY <2>1
  <2>3. /\ keycounter' = [keycounter EXCEPT ![r] = NextKey(@)]
        /\ count' = [count EXCEPT ![r] = @ + 1]
        /\ UNCHANGED <<level, looked>>
    BY <1>3 DEF ProcessRadialSet
  <2>4. PICK new : /\ new.n = count[r] + 1 /\ new.key = NextKey(keycounter[r])
                   /\ new = [el |-> el, t |-> t, key |-> NextKey(keycounter[r]),
                              n |-> count[r] + 1, sweep |-> sweep]
    OBVIOUS
  <2>5. volume'[r] \subseteq volume[r] \cup {new}
    BY <1>1, <2>2, <2>4 DEF AddDataType, PurgeTimeWindow, Types, TypeOK
  <2>6. \A q \in Radars \ {r} : UNCHANGED <<volume[q], keycounter[q], count[q]>>
    BY <1>1, <2>2, <2>3 DEF Types, TypeOK
  <2>7. count[r] \in Nat /\ count'[r] = count[r] + 1 /\ keycounter'[r] = NextKey(keycounter[r])
    BY <1>1, <2>3 DEF Types, TypeOK
  <2>8. Known(r, new)'
    <3>1. KeyCount \in Nat \ {0} /\ NextKey(keycounter[r]) \in 1..KeyCount
      BY <1>1, StagesAssumption DEF NextKey, Keys, Types, TypeOK
    <3>2. KeyFor(keycounter'[r], 0) = keycounter'[r]
      BY <2>7, <3>1 DEF KeyFor
    <3>3. new.n = count'[r] /\ count'[r] \in Nat /\ count'[r] - new.n = 0
      BY <2>4, <2>7
    <3>4. QED
      BY <2>4, <2>7, <3>1, <3>2, <3>3 DEF Known
  <2>9. ASSUME NEW d \in Tilt, Known(r, d), \A e \in volume[r] : e.n = d.n => e = d
        PROVE  Known(r, d)' /\ \A e \in volume'[r] : e.n = d.n => e = d
    <3>1. Known(r, d)'
      BY <1>1, <2>3, <2>9, KnownOn
    <3>2. new.n # d.n
      BY <2>4, <2>7, <2>9, TiltOK DEF Known
    <3>3. QED
      BY <2>5, <2>9, <3>1, <3>2
  <2>10. volume[r] \subseteq Tilt
    BY <1>1 DEF Types, TypeOK
  <2>11. TiltsKnown'
    <3>1. ASSUME NEW q \in Radars \ {r}
          PROVE  /\ \A d \in volume'[q] : Known(q, d)'
                 /\ \A d, e \in volume'[q] : d.n = e.n => d = e
      BY <2>6 DEF LookInv, TiltsKnown, Known
    <3>2. ASSUME NEW d \in volume'[r] PROVE Known(r, d)' /\ \A e \in volume'[r] : d.n = e.n => d = e
      <4>1. CASE d \in volume[r]
        <5>1. Known(r, d) /\ \A e \in volume[r] : e.n = d.n => e = d
          BY <4>1 DEF LookInv, TiltsKnown
        <5>2. QED
          BY <2>9, <2>10, <4>1, <5>1
      <4>2. CASE d = new
        <5>1. ASSUME NEW e \in volume[r] PROVE e.n # new.n
          <6>1. e.n \in Nat /\ e.n <= count[r]
            BY <2>10, TiltOK DEF LookInv, TiltsKnown, Known
          <6>2. QED
            BY <2>4, <2>7, <6>1
        <5>2. QED
          BY <2>5, <2>8, <4>2, <5>1
      <4>3. QED
        BY <2>5, <4>1, <4>2
    <3>3. QED
      BY <3>1, <3>2 DEF TiltsKnown
  <2>12. ASSUME NEW q \in Radars, NEW c \in Cells PROVE \E s \in SpreadSet : LookedAt(q, c, s)'
    <3>1. PICK s \in SpreadSet : LookedAt(q, c, s)
      BY DEF LookInv, Looks
    <3>2. Enclosing(s) \subseteq Tilt
      BY DEF Enclosing, SpreadSet
    <3>3. ASSUME NEW d \in Enclosing(s)
          PROVE  Known(q, d)' /\ \A e \in volume'[q] : e.n = d.n => e = d
      <4>1. CASE q = r
        BY <2>9, <3>1, <3>2, <4>1 DEF LookedAt
      <4>2. CASE q # r
        BY <2>6, <3>1, <4>2 DEF LookedAt, Known
      <4>3. QED
        BY <4>1, <4>2
    <3>4. QED
      BY <2>3, <3>1, <3>3 DEF LookedAt
  <2>13. QED
    BY <1>1, <2>11, <2>12 DEF LookInv, Looks
<1>4. ASSUME NEW r \in Radars, ProcessVolume(r) PROVE LookInv'
  <2> DEFINE keys == [c \in Cells |-> LevelOf(Spread(r, c))]
             found == [c \in Cells |-> Calc(r, c, Spread(r, c))]
             changed(mask) == {c \in mask \cap InRange[r] : level[r][c] # keys[c]}
             look(c) == [what |-> found[c], seen |-> {d.n : d \in Enclosing(Spread(r, c))}]
  <2>1. PICK mask \in Masks :
          /\ level' = [level EXCEPT ![r] = [c \in Cells |->
                IF c \in changed(mask) THEN keys[c] ELSE @[c]]]
          /\ looked' = [looked EXCEPT ![r] = [c \in Cells |->
                IF c \in changed(mask) THEN look(c) ELSE @[c]]]
    BY <1>4 DEF ProcessVolume
  <2>2. UNCHANGED <<volume, keycounter, count>>
    BY <1>4 DEF ProcessVolume
  <2>3. TiltsKnown'
    BY <2>2 DEF LookInv, TiltsKnown, Known
  <2>4. ASSUME NEW q \in Radars, NEW c \in Cells PROVE \E s \in SpreadSet : LookedAt(q, c, s)'
    <3>1. CASE q = r /\ c \in changed(mask)
      <4>1. PICK s \in SpreadSet : s = Spread(r, c) /\ Enclosing(s) \subseteq volume[r]
        BY <1>1, SpreadOK
      <4>2. level'[r][c] = LevelOf(s)
        BY <1>1, <2>1, <3>1, <4>1 DEF Types, TypeOK
      <4>3. looked'[r][c] = [what |-> Calc(r, c, s), seen |-> {d.n : d \in Enclosing(s)}]
        BY <1>1, <2>1, <3>1, <4>1 DEF Types
      <4>4. \A d \in Enclosing(s) : Known(r, d)' /\ \A e \in volume'[r] : e.n = d.n => e = d
        BY <2>2, <4>1 DEF LookInv, TiltsKnown, Known
      <4>5. LookedAt(r, c, s)'
        BY <4>2, <4>3, <4>4 DEF LookedAt
      <4>6. QED
        BY <3>1, <4>1, <4>5
    <3>2. CASE ~ (q = r /\ c \in changed(mask))
      <4> HIDE DEF keys, changed, look
      <4>1. level'[q][c] = level[q][c] /\ looked'[q][c] = looked[q][c]
        BY <1>1, <2>1, <3>2 DEF Types, TypeOK
      <4>2. PICK s \in SpreadSet : LookedAt(q, c, s)
        BY DEF LookInv, Looks
      <4>3. LookedAt(q, c, s)'
        BY <2>2, <4>1, <4>2 DEF LookedAt, Known
      <4>4. QED
        BY <4>3
    <3>3. QED
      BY <3>1, <3>2
  <2>5. QED
    BY <1>1, <2>3, <2>4 DEF LookInv, Looks
<1>5. ASSUME NEW r \in Radars, RestartStageOne(r) PROVE LookInv'
  <2>1. /\ volume' = [volume EXCEPT ![r] = {}]
        /\ keycounter' = [keycounter EXCEPT ![r] = 0]
        /\ level' = [level EXCEPT ![r] = [c \in Cells |-> NoLevel]]
        /\ looked' = [looked EXCEPT ![r] = [c \in Cells |-> Nothing]]
        /\ UNCHANGED count
    BY <1>5 DEF RestartStageOne
  <2>2. /\ volume'[r] = {}
        /\ \A c \in Cells : level'[r][c] = NoLevel /\ looked'[r][c] = Nothing
        /\ \A q \in Radars \ {r} : UNCHANGED <<volume[q], keycounter[q], level[q], looked[q]>>
    BY <1>1, <2>1 DEF Types, TypeOK
  <2>3. TiltsKnown'
    <3>1. ASSUME NEW q \in Radars
          PROVE  /\ \A d \in volume'[q] : Known(q, d)'
                 /\ \A d, e \in volume'[q] : d.n = e.n => d = e
      <4>1. CASE q = r
        BY <2>2, <4>1
      <4>2. CASE q # r
        BY <2>1, <2>2, <4>2 DEF LookInv, TiltsKnown, Known
      <4>3. QED
        BY <4>1, <4>2
    <3>2. QED
      BY <3>1 DEF TiltsKnown
  <2>4. ASSUME NEW q \in Radars, NEW c \in Cells PROVE \E s \in SpreadSet : LookedAt(q, c, s)'
    <3>1. CASE q = r
      BY <2>2, <3>1, BareOKNext
    <3>2. CASE q # r
      <4>1. PICK s \in SpreadSet : LookedAt(q, c, s)
        BY DEF LookInv, Looks
      <4>2. LookedAt(q, c, s)'
        BY <2>1, <2>2, <3>2, <4>1 DEF LookedAt, Known
      <4>3. QED
        BY <4>2
    <3>3. QED
      BY <3>1, <3>2
  <2>5. QED
    BY <1>1, <2>3, <2>4 DEF LookInv, Looks
<1>6. QED
  <2>1. ASSUME NEW r \in Radars,
               NoMask(r) \/ IngestNewData(r) \/ IgnoreOld(r) \/ Lose(r)
        PROVE  UNCHANGED <<volume, keycounter, level, count, looked>>
    BY <2>1 DEF NoMask, IngestNewData, IgnoreOld, Lose, oneVars, histVars
  <2>2. TimePurge \/ RestartStageTwo \/ ClockTick \/ UNCHANGED vars
          => UNCHANGED <<volume, keycounter, level, count, looked>>
    BY DEF TimePurge, RestartStageTwo, ClockTick, vars, oneVars, histVars
  <2>3. QED
    BY <1>2, <1>3, <1>4, <1>5, <2>1, <2>2 DEF Next

(* Tilts with the same key are the same tilt if neither key was given out   *)
(* again, which is what both ages below KeyCount say.                       *)
LEMMA SameKeySameTilt ==
  ASSUME Types, NEW r \in Radars, NEW d \in Tilt, NEW e \in volume[r],
         Known(r, d), Known(r, e), \A f \in volume[r] : f.n = d.n => f = d,
         d.key = e.key, count[r] - d.n < KeyCount, count[r] - e.n < KeyCount
  PROVE  d = e
<1>1. /\ count[r] \in Nat /\ keycounter[r] \in 1..KeyCount /\ KeyCount \in Nat \ {0}
      /\ d.n \in Nat /\ e.n \in Nat
  BY StagesAssumption, TiltOK DEF Known, Types, TypeOK, Keys
<1>2. KeyFor(keycounter[r], count[r] - d.n) = KeyFor(keycounter[r], count[r] - e.n)
  BY DEF Known
<1>3. d.n <= count[r] /\ e.n <= count[r]
  BY DEF Known
<1>4. d.n = e.n
  BY <1>1, <1>2, <1>3 DEF KeyFor
<1>5. QED
  BY <1>4

\* Same keys, same tilts, same result.
LEMMA LookMeans == LookInv => SameMeansSame
<1> SUFFICES ASSUME LookInv, NEW r \in Radars, NEW c \in Cells,
                    level[r][c] = LevelOf(Spread(r, c)),
                    \A n \in looked[r][c].seen \cup {d.n : d \in Enclosing(Spread(r, c))} :
                      count[r] - n < KeyCount
             PROVE  Calc(r, c, Spread(r, c)) = looked[r][c].what
  BY DEF SameMeansSame
<1>1. PICK s \in SpreadSet : LookedAt(r, c, s)
  BY DEF LookInv, Looks
<1>2. PICK now_s \in SpreadSet : now_s = Spread(r, c) /\ Enclosing(now_s) \subseteq volume[r]
  BY SpreadOK DEF LookInv
<1>3. /\ \A d \in Enclosing(s) : count[r] - d.n < KeyCount
      /\ \A d \in Enclosing(now_s) : count[r] - d.n < KeyCount
  BY <1>1, <1>2 DEF LookedAt
<1>4. ASSUME NEW d \in Enclosing(s) \cup {NoTilt}, NEW e \in Enclosing(now_s) \cup {NoTilt},
             Key(d) = Key(e)
      PROVE  d = e
  <2>1. Enclosing(s) \subseteq Tilt /\ Enclosing(now_s) \subseteq Tilt /\ volume[r] \subseteq Tilt
    BY DEF Enclosing, SpreadSet, LookInv, Types, TypeOK
  <2>2. /\ \A f \in Enclosing(s) : Known(r, f) /\ \A g \in volume[r] : g.n = f.n => g = f
        /\ \A f \in Enclosing(now_s) : Known(r, f)
    BY <1>1, <1>2 DEF LookedAt, LookInv, TiltsKnown
  <2>3. d = NoTilt <=> e = NoTilt
    BY <1>4, <2>1, <2>2, TiltOK DEF Key, Known
  <2>4. CASE d # NoTilt
    <3>1. d \in Enclosing(s) /\ e \in Enclosing(now_s) /\ d.key = e.key
      BY <1>4, <2>3, <2>4 DEF Key
    <3>2. QED
      BY <1>2, <1>3, <2>1, <2>2, <3>1, SameKeySameTilt DEF LookInv
  <2>5. QED
    BY <2>3, <2>4
<1>5. LevelOf(s) = LevelOf(now_s)
  BY <1>1, <1>2 DEF LookedAt
<1>6. /\ Key(s.lower) = Key(now_s.lower) /\ Key(s.upper) = Key(now_s.upper)
      /\ Key(s.lower2) = Key(now_s.lower2) /\ Key(s.upper2) = Key(now_s.upper2)
  BY <1>5 DEF LevelOf
<1>7. /\ {s.lower, s.upper, s.lower2, s.upper2} \subseteq Enclosing(s) \cup {NoTilt}
      /\ {now_s.lower, now_s.upper, now_s.lower2, now_s.upper2} \subseteq Enclosing(now_s) \cup {NoTilt}
  BY DEF Enclosing
<1>8. /\ s.lower = now_s.lower /\ s.upper = now_s.upper
      /\ s.lower2 = now_s.lower2 /\ s.upper2 = now_s.upper2
  BY <1>4, <1>6, <1>7
<1>9. s = now_s
  BY <1>8 DEF SpreadSet
<1>10. QED
  BY <1>1, <1>2, <1>9 DEF LookedAt

(* A cell that stage one skips because the keys of the tilts around it are  *)
(* those of its last look would be resolved to what it was then, whatever   *)
(* the number of keys, unless a key around it was given out again.          *)
THEOREM SkippedCellsUnchanged == Spec => []SameMeansSame
BY InitLooks, NextLooks, LookMeans, PTL DEF Spec
-----------------------------------------------------------------------------
\* The runs of a set of cells hold all of them.
LEMMA RunsHoldMissing ==
  ASSUME NEW missing \in SUBSET Cells
  PROVE  missing \subseteq Expand(RLE(missing))
<1> DEFINE Stop(x) == CHOOSE e \in x..NumX : e \notin missing /\ x..e - 1 \subseteq missing
           Last(x) == [x |-> x, length |-> IF Stop(x) = NumX THEN NumX - x ELSE Stop(x) - x + 1]
<1>1. NumX \in Nat \ {0} /\ NumX \notin missing /\ \A x \in missing : x \in Nat /\ x < NumX
  BY StagesAssumption DEF Cells
<1>2. ASSUME NEW c \in missing PROVE c \in Expand(RLE(missing))
  <2> DEFINE S == {a \in 0..c : a..c \subseteq missing}
             T == {e \in c..NumX : e \notin missing}
  <2>1. PICK a \in S : \A k \in S : a <= k
    <3>1. S \in SUBSET Nat /\ c \in S
      BY <1>1
    <3> HIDE DEF S
    <3>2. QED
      BY <3>1, LeastOf
  <2>2. a \in Nat /\ a <= c /\ a..c \subseteq missing /\ a \in missing
    BY <1>1, <2>1
  <2>3. a - 1 \notin missing
    <3>1. ASSUME a - 1 \in missing PROVE FALSE
      <4>1. a - 1 \in 0..c /\ a - 1..c \subseteq missing
        BY <1>1, <2>2, <3>1
      <4>2. QED
        BY <2>1, <2>2, <4>1
    <3>2. QED
      BY <3>1
  <2>4. PICK e \in T : \A k \in T : e <= k
    <3>1. T \in SUBSET Nat /\ NumX \in T
      BY <1>1
    <3> HIDE DEF T
    <3>2. QED
      BY <3>1, LeastOf
  <2>5. e \in a..NumX /\ e \notin missing /\ a..e - 1 \subseteq missing
    BY <1>1, <2>2, <2>4
  <2>6. PICK stop : stop = Stop(a) /\ stop \in a..NumX /\ stop \notin missing
    BY <2>5
  <2>7. stop > c
    BY <1>1, <2>2, <2>6
  <2>8. Last(a) \in RLE(missing)
    BY <2>2, <2>3 DEF RLE
  <2>9. Last(a).x = a /\ Last(a).length = IF stop = NumX THEN NumX - a ELSE stop - a + 1
    BY <2>6
  <2> HIDE DEF Last, Stop
  <2>10. c \in Last(a).x .. Last(a).x + Last(a).length - 1
    BY <1>1, <2>2, <2>6, <2>7, <2>9
  <2>11. QED
    BY <2>8, <2>10 DEF Expand
<1>3. QED
  BY <1>2

\* A channel by its places, without its first product.
LEMMA TailAt ==
  ASSUME NEW S, NEW q \in Seq(S), q # << >>
  PROVE  /\ Head(q) = q[1] /\ 1 \in 1..Len(q)
         /\ \A i \in 1..Len(Tail(q)) : i + 1 \in 1..Len(q) /\ Tail(q)[i] = q[i + 1]
         /\ \A i \in 1..Len(q) : i = 1 \/ (i - 1 \in 1..Len(Tail(q)) /\ Tail(q)[i - 1] = q[i])
OBVIOUS

Word == [what : {"none", "value", "missing", "lost"}, t : Nat]
Shown(p, c) == IF c \in p.values THEN "value" ELSE "missing"

(* Products travel in the order of their times, and what stage two holds is *)
(* older than what is on its way.                                           *)
Sent(r) ==
  /\ beat[r] <= now
  /\ \A i, j \in 1..Len(chan[r]) : i < j => chan[r][i].t < chan[r][j].t
  /\ \A i \in 1..Len(chan[r]) :
       /\ chan[r][i].t <= beat[r]
       /\ chan[r][i].values \cap chan[r][i].missing = {}
       /\ chan[r][i].missing \subseteq Expand(chan[r][i].runs)
       /\ \A o \in obs[r] : o.t < chan[r][i].t
  /\ \A o \in obs[r] : o.t <= beat[r]
  /\ \A o, b \in obs[r] : o.x = b.x => o.t = b.t

(* The last word on a cell is that of the last product that names it. *)
LastWord(r, c) ==
  /\ said[r][c].t <= beat[r]
  /\ said[r][c].what = "none" => said[r][c].t = 0 /\ Held(r, c) = {}
  /\ \A i \in 1..Len(chan[r]) : c \in Named(chan[r][i]) =>
       /\ chan[r][i].t <= said[r][c].t
       /\ chan[r][i].t = said[r][c].t => said[r][c].what = Shown(chan[r][i], c)
  /\ Arrived(r, c) => \A i \in 1..Len(chan[r]) : said[r][c].t < chan[r][i].t

HasValue(r, c) ==
  said[r][c].what = "value" /\ Arrived(r, c) =>
    Held(r, c) = {said[r][c].t} \/ (Held(r, c) = {} /\ said[r][c].t < Cutoff)

HasMissing(r, c) ==
  said[r][c].what = "missing" /\ Arrived(r, c) =>
    Held(r, c) = {} /\ (NoMissing \/ missings[c] >= said[r][c].t)

CellInv(r, c) == LastWord(r, c) /\ (c \notin spilt[r] => HasValue(r, c) /\ HasMissing(r, c))

DatabaseInv ==
  /\ Types /\ said \in [Radars -> [Cells -> Word]]
  /\ \A r \in Radars : Sent(r)
  /\ \A r \in Radars : \A c \in Cells : CellInv(r, c)

\* The initial states.
LEMMA InitDatabase == Init => DatabaseInv
<1> SUFFICES ASSUME Init PROVE DatabaseInv
  OBVIOUS
<1>1. Types
  BY InitTypes
<1>2. NeverSaid \in Word
  BY DEF NeverSaid, Word
<1>3. said \in [Radars -> [Cells -> Word]]
  BY <1>2 DEF Init
<1>4. \A r \in Radars : Sent(r)
  BY DEF Init, Sent
<1>5. ASSUME NEW r \in Radars, NEW c \in Cells PROVE CellInv(r, c)
  <2>1. said[r][c].what = "none" /\ said[r][c].t = 0 /\ obs[r] = {} /\ chan[r] = << >> /\ beat[r] = 0
    BY DEF Init, NeverSaid
  <2>2. Held(r, c) = {}
    BY <2>1 DEF Held
  <2>3. QED
    BY <2>1, <2>2 DEF CellInv, LastWord, HasValue, HasMissing
<1>6. QED
  BY <1>1, <1>3, <1>4, <1>5 DEF DatabaseInv

(* No product of q bears the last word on c. *)
Clear(q, r, c) == \A i \in 1..Len(q) : ~ (q[i].t = said[r][c].t /\ c \in Named(q[i]))

(* The product p that radar r's channel had first is gone from it. *)
Took(r, p) ==
  /\ p \in Fitting /\ p.t \in Nat /\ p.t <= beat[r] /\ p.t > 0
  /\ p.values \cap p.missing = {} /\ p.missing \subseteq Expand(p.runs)
  /\ \A o \in obs[r] : o.t < p.t
  /\ \A i \in 1..Len(chan'[r]) : p.t < chan'[r][i].t
  /\ \A i, j \in 1..Len(chan'[r]) : i < j => chan'[r][i].t < chan'[r][j].t
  /\ \A i \in 1..Len(chan'[r]) : \E j \in 1..Len(chan[r]) : chan'[r][i] = chan[r][j]

\* What a product that is taken says of those behind it.
LEMMA RestOfChannel ==
  ASSUME DatabaseInv, NEW r \in Radars, chan[r] # << >>,
         NEW p, p = Head(chan[r]), chan' = [chan EXCEPT ![r] = Tail(@)]
  PROVE  Took(r, p)
<1>1. chan[r] \in Seq(Fitting) /\ chan'[r] = Tail(chan[r])
  BY DEF DatabaseInv, Types
<1>2. p = chan[r][1] /\ 1 \in 1..Len(chan[r]) /\ p \in Fitting
  BY <1>1, TailAt, FirstProduct
<1>3. p.t \in Nat /\ p.t > 0
  BY <1>2 DEF Fitting, Product, Times
<1>4. ASSUME NEW i \in 1..Len(chan'[r])
      PROVE  i + 1 \in 1..Len(chan[r]) /\ chan'[r][i] = chan[r][i + 1]
  <2>1. i \in 1..Len(Tail(chan[r]))
    BY <1>1
  <2>2. i + 1 \in 1..Len(chan[r]) /\ Tail(chan[r])[i] = chan[r][i + 1]
    BY <1>1, <2>1, TailAt
  <2>3. QED
    BY <1>1, <2>2
<1>5. Sent(r)
  BY DEF DatabaseInv
<1>6. ASSUME NEW i \in 1..Len(chan'[r]), NEW j \in 1..Len(chan'[r]), i < j
      PROVE  chan'[r][i].t < chan'[r][j].t
  BY <1>4, <1>5, <1>6 DEF Sent
<1>7. ASSUME NEW i \in 1..Len(chan'[r]) PROVE p.t < chan'[r][i].t
  BY <1>2, <1>4, <1>5 DEF Sent
<1>8. /\ p.t <= beat[r] /\ p.values \cap p.missing = {} /\ p.missing \subseteq Expand(p.runs)
      /\ \A o \in obs[r] : o.t < p.t
  BY <1>2, <1>5 DEF Sent
<1>9. QED
  BY <1>2, <1>3, <1>4, <1>6, <1>7, <1>8 DEF Took

(* What a product that is taken says of a cell: the last word on it, or     *)
(* less, unless there is nothing left to say of the cell at all.            *)
LEMMA WordOfProduct ==
  ASSUME DatabaseInv, NEW r \in Radars, chan[r] # << >>,
         NEW p, p = Head(chan[r]), chan' = [chan EXCEPT ![r] = Tail(@)],
         NEW c \in Cells
  PROVE  /\ c \in Named(p) => p.t <= said[r][c].t
         /\ c \in Named(p) /\ p.t = said[r][c].t => said[r][c].what = Shown(p, c)
         /\ Clear(chan'[r], r, c) => \/ p.t = said[r][c].t /\ c \in Named(p)
                                     \/ Arrived(r, c) /\ said[r][c].t < p.t
<1>1. chan[r] \in Seq(Fitting) /\ chan'[r] = Tail(chan[r])
  BY DEF DatabaseInv, Types
<1>2. p = chan[r][1] /\ 1 \in 1..Len(chan[r]) /\ p \in Fitting
  BY <1>1, TailAt, FirstProduct
<1>3. LastWord(r, c)
  BY DEF DatabaseInv, CellInv
<1>4. c \in Named(p) => p.t <= said[r][c].t
  BY <1>2, <1>3 DEF LastWord
<1>5. c \in Named(p) /\ p.t = said[r][c].t => said[r][c].what = Shown(p, c)
  BY <1>2, <1>3 DEF LastWord
<1>6. ASSUME Clear(chan'[r], r, c), ~ (p.t = said[r][c].t /\ c \in Named(p))
      PROVE  Arrived(r, c) /\ said[r][c].t < p.t
  <2>1. \A i \in 1..Len(chan[r]) : i = 1 \/ (i - 1 \in 1..Len(Tail(chan[r])) /\ Tail(chan[r])[i - 1] = chan[r][i])
    BY <1>1, TailAt
  <2>2. Arrived(r, c)
    BY <1>1, <1>2, <1>6, <2>1 DEF Arrived, Clear
  <2>3. QED
    BY <1>2, <1>3, <2>2 DEF LastWord
<1>7. QED
  BY <1>4, <1>5, <1>6

\* The times are numbers.
LEMMA Numbers ==
  ASSUME DatabaseInv, NEW r \in Radars
  PROVE  /\ now \in Nat /\ beat[r] \in Nat /\ Cutoff \in Int
         /\ \A c \in Cells : missings[c] \in Nat /\ said[r][c].t \in Nat
         /\ \A i \in 1..Len(chan[r]) : chan[r][i].t \in Nat
         /\ \A o \in obs[r] : o.t \in Nat
<1>1. now \in Nat /\ beat[r] \in Nat /\ \A c \in Cells : missings[c] \in Nat
  BY DEF DatabaseInv, Types, TypeOK, Times
<1>2. Cutoff \in Int
  BY <1>1, StagesAssumption DEF Cutoff
<1>3. \A c \in Cells : said[r][c].t \in Nat
  BY DEF DatabaseInv, Word
<1>4. chan[r] \in Seq(Product) /\ obs[r] \subseteq Observation
  BY DEF DatabaseInv, Types, TypeOK
<1>5. ASSUME NEW i \in 1..Len(chan[r]) PROVE chan[r][i].t \in Nat
  <2>1. chan[r][i] \in Product
    BY <1>4
  <2>2. QED
    BY <2>1 DEF Product, Times
<1>6. \A o \in obs[r] : o.t \in Nat
  BY <1>4 DEF Observation, Times
<1>7. QED
  BY <1>1, <1>2, <1>3, <1>5, <1>6

(* A radar of which nothing is sent, taken or purged. *)
LEMMA RadarOn ==
  ASSUME DatabaseInv, Types', NEW r \in Radars,
         chan'[r] = chan[r], obs'[r] = obs[r], said'[r] = said[r], spilt'[r] = spilt[r],
         now' >= now, beat'[r] >= beat[r], beat'[r] <= now',
         \A c \in Cells : missings'[c] >= missings[c]
  PROVE  Sent(r)' /\ \A c \in Cells : CellInv(r, c)'
<1>1. /\ now \in Nat /\ now' \in Nat /\ beat[r] \in Nat /\ beat'[r] \in Nat
      /\ \A c \in Cells : missings[c] \in Nat /\ missings'[c] \in Nat /\ said[r][c].t \in Nat
      /\ \A i \in 1..Len(chan[r]) : chan[r][i].t \in Nat
      /\ \A o \in obs[r] : o.t \in Nat
      /\ History \in Nat
  <2>1. now' \in Nat /\ beat'[r] \in Nat /\ \A c \in Cells : missings'[c] \in Nat
    BY DEF Types, TypeOK, Times
  <2>2. QED
    BY <2>1, Numbers, StagesAssumption
<1>2. Sent(r)'
  <2>1. Sent(r)
    BY DEF DatabaseInv
  <2>2. \A i \in 1..Len(chan[r]) : chan[r][i].t <= beat'[r]
    BY <1>1, <2>1 DEF Sent
  <2>3. \A o \in obs[r] : o.t <= beat'[r]
    BY <1>1, <2>1 DEF Sent
  <2>4. QED
    BY <2>1, <2>2, <2>3 DEF Sent
<1>3. ASSUME NEW c \in Cells PROVE CellInv(r, c)'
  <2>1. CellInv(r, c)
    BY DEF DatabaseInv
  <2>2. Held(r, c)' = Held(r, c) /\ (Arrived(r, c)' <=> Arrived(r, c))
    BY DEF Held, Arrived, Named
  <2>3. LastWord(r, c)'
    <3>1. said'[r][c].t <= beat'[r]
      BY <1>1, <2>1 DEF CellInv, LastWord
    <3>2. QED
      BY <2>1, <2>2, <3>1 DEF CellInv, LastWord, Named, Shown
  <2>4. ASSUME c \notin spilt'[r] PROVE HasValue(r, c)' /\ HasMissing(r, c)'
    <3>1. HasValue(r, c) /\ HasMissing(r, c)
      BY <2>1, <2>4 DEF CellInv
    <3>2. said[r][c].t < Cutoff => said[r][c].t < Cutoff'
      BY <1>1 DEF Cutoff
    <3>3. missings[c] >= said[r][c].t => missings'[c] >= said[r][c].t
      BY <1>1
    <3>4. HasValue(r, c)'
      BY <2>2, <3>1, <3>2 DEF HasValue
    <3>5. HasMissing(r, c)'
      BY <2>2, <3>1, <3>3 DEF HasMissing
    <3>6. QED
      BY <3>4, <3>5
  <2>5. QED
    BY <2>3, <2>4 DEF CellInv
<1>4. QED
  BY <1>2, <1>3

\* Stage two drops what has expired.
LEMMA PurgeOn ==
  ASSUME DatabaseInv, TimePurge, NEW r \in Radars
  PROVE  Sent(r)' /\ \A c \in Cells : CellInv(r, c)'
<1>1. /\ obs'[r] = {o \in obs[r] : o.t >= Cutoff}
      /\ UNCHANGED <<now, beat, chan, missings, said, spilt>>
  BY DEF TimePurge, oneVars, histVars
<1>2. Sent(r)
  BY DEF DatabaseInv
<1>3. Sent(r)'
  BY <1>1, <1>2 DEF Sent
<1>4. ASSUME NEW c \in Cells PROVE CellInv(r, c)'
  <2>1. CellInv(r, c)
    BY DEF DatabaseInv
  <2>2. Held(r, c)' = {t \in Held(r, c) : t >= Cutoff} /\ (Arrived(r, c)' <=> Arrived(r, c))
    BY <1>1 DEF Held, Arrived, Named
  <2>3. LastWord(r, c)'
    BY <1>1, <2>1, <2>2 DEF CellInv, LastWord, Named, Shown
  <2>4. said[r][c].t \in Nat /\ Cutoff \in Int /\ Cutoff' = Cutoff
    BY <1>1, Numbers DEF Cutoff
  <2>5. HasValue(r, c) => HasValue(r, c)'
    BY <1>1, <2>2, <2>4 DEF HasValue
  <2>6. HasMissing(r, c) => HasMissing(r, c)'
    BY <1>1, <2>2 DEF HasMissing
  <2>7. QED
    BY <1>1, <2>1, <2>3, <2>5, <2>6 DEF CellInv
<1>5. QED
  BY <1>3, <1>4

\* A product that is lost or comes too late: its words are lost.
LEMMA ForgetOn ==
  ASSUME DatabaseInv, NEW r \in Radars, IgnoreOld(r) \/ Lose(r)
  PROVE  /\ said' \in [Radars -> [Cells -> Word]]
         /\ Sent(r)' /\ \A c \in Cells : CellInv(r, c)'
<1>1. PICK p : p = Head(chan[r])
  OBVIOUS
<1>2. /\ chan[r] # << >> /\ Forget(r, p)
      /\ chan' = [chan EXCEPT ![r] = Tail(@)]
      /\ UNCHANGED <<now, beat, obs, missings, spilt>>
  BY <1>1 DEF IgnoreOld, Lose, oneVars, twoVars
<1>3. said' = [said EXCEPT ![r] = [c \in Cells |->
         IF c \in Named(p) /\ @[c].t = p.t THEN [@[c] EXCEPT !.what = "lost"] ELSE @[c]]]
  BY <1>2 DEF Forget
<1>4. said \in [Radars -> [Cells -> Word]]
  BY DEF DatabaseInv
<1>5. /\ \A c \in Cells : said'[r][c] = IF c \in Named(p) /\ said[r][c].t = p.t
                                       THEN [said[r][c] EXCEPT !.what = "lost"] ELSE said[r][c]
      /\ \A q \in Radars \ {r} : said'[q] = said[q]
  BY <1>3, <1>4
<1>6. said' \in [Radars -> [Cells -> Word]]
  BY <1>3, <1>4 DEF Word
<1>7. Took(r, p)
  BY <1>1, <1>2, RestOfChannel
<1>8. Sent(r) /\ Sent(r)'
  <2>1. Sent(r)
    BY DEF DatabaseInv
  <2>2. ASSUME NEW i \in 1..Len(chan'[r])
        PROVE  /\ chan'[r][i].t <= beat[r]
               /\ chan'[r][i].values \cap chan'[r][i].missing = {}
               /\ chan'[r][i].missing \subseteq Expand(chan'[r][i].runs)
               /\ \A o \in obs[r] : o.t < chan'[r][i].t
    <3>1. PICK j \in 1..Len(chan[r]) : chan'[r][i] = chan[r][j]
      BY <1>7 DEF Took
    <3>2. QED
      BY <2>1, <3>1 DEF Sent
  <2>3. \A i, j \in 1..Len(chan'[r]) : i < j => chan'[r][i].t < chan'[r][j].t
    BY <1>7 DEF Took
  <2>4. Sent(r)'
    BY <1>2, <2>1, <2>2, <2>3 DEF Sent
  <2>5. QED
    BY <2>1, <2>4
<1>9. ASSUME NEW c \in Cells PROVE CellInv(r, c)'
  <2>1. CellInv(r, c) /\ LastWord(r, c)
    BY DEF DatabaseInv, CellInv
  <2>2. /\ Clear(chan'[r], r, c) => \/ p.t = said[r][c].t /\ c \in Named(p)
                                    \/ Arrived(r, c) /\ said[r][c].t < p.t
    BY <1>1, <1>2, WordOfProduct
  <2>w. /\ [said[r][c] EXCEPT !.what = "lost"].t = said[r][c].t
        /\ [said[r][c] EXCEPT !.what = "lost"].what = "lost"
    <3>1. said[r][c] \in Word
      BY <1>4
    <3>2. QED
      BY <3>1 DEF Word
  <2>l. IF c \in Named(p) /\ said[r][c].t = p.t
          THEN said'[r][c].what = "lost" ELSE said'[r][c] = said[r][c]
    BY <1>5, <2>w
  <2>3. said'[r][c].t = said[r][c].t
    BY <1>5, <2>w
  <2>4. Arrived(r, c)' <=> Clear(chan'[r], r, c)
    BY <2>3 DEF Arrived, Clear, Named
  <2>5. Held(r, c)' = Held(r, c)
    BY <1>2 DEF Held
  <2>6. /\ p.t \in Nat /\ said[r][c].t \in Nat
        /\ \A i \in 1..Len(chan[r]) : chan[r][i].t \in Nat
    BY <1>7, Numbers DEF Took
  <2>7. ASSUME Arrived(r, c)', NEW i \in 1..Len(chan'[r])
        PROVE  said'[r][c].t < chan'[r][i].t
    <3>1. chan'[r][i].t \in Nat /\ p.t < chan'[r][i].t
      BY <1>7, <2>6 DEF Took
    <3>2. said[r][c].t <= p.t
      BY <2>2, <2>4, <2>6, <2>7
    <3>3. QED
      BY <2>3, <2>6, <3>1, <3>2
  <2>8. ASSUME NEW i \in 1..Len(chan'[r]), c \in Named(chan'[r][i])
        PROVE  /\ chan'[r][i].t <= said'[r][c].t
               /\ chan'[r][i].t = said'[r][c].t => said'[r][c].what = Shown(chan'[r][i], c)
    <3>1. PICK j \in 1..Len(chan[r]) : chan'[r][i] = chan[r][j]
      BY <1>7 DEF Took
    <3>2. chan'[r][i].t <= said[r][c].t
      BY <2>1, <2>8, <3>1 DEF LastWord
    <3>3. CASE said'[r][c] = said[r][c]
      BY <2>1, <2>8, <3>1, <3>3 DEF LastWord
    <3>4. CASE said[r][c].t = p.t
      BY <1>7, <2>3, <2>6, <3>1, <3>2, <3>4 DEF Took
    <3>5. QED
      BY <1>5, <3>3, <3>4
  <2>9. LastWord(r, c)'
    <3>1. said'[r][c].t <= beat'[r]
      BY <1>2, <2>1, <2>3 DEF LastWord
    <3>2. said'[r][c].what = "none" => said[r][c].what = "none"
      BY <2>l
    <3>3. QED
      BY <2>1, <2>3, <2>5, <2>7, <2>8, <3>1, <3>2 DEF LastWord, Named, Shown
  <2>10. ASSUME said'[r][c].what \in {"value", "missing"}, Arrived(r, c)'
         PROVE  said'[r][c] = said[r][c] /\ Arrived(r, c)
    <3>1. ~ (c \in Named(p) /\ said[r][c].t = p.t)
      BY <2>l, <2>10
    <3>2. QED
      BY <1>5, <2>2, <2>4, <2>10, <3>1
  <2>11. HasValue(r, c) => HasValue(r, c)'
    BY <1>2, <2>5, <2>10 DEF HasValue, Cutoff
  <2>12. HasMissing(r, c) => HasMissing(r, c)'
    BY <1>2, <2>5, <2>10 DEF HasMissing
  <2>13. QED
    BY <1>2, <2>1, <2>9, <2>11, <2>12 DEF CellInv
<1>10. QED
  BY <1>6, <1>8, <1>9

\* Stage two merges a product.
LEMMA IngestOn ==
  ASSUME DatabaseInv, NEW r \in Radars, IngestNewData(r)
  PROVE  Sent(r)' /\ \A c \in Cells : CellInv(r, c)'
<1>1. PICK p : p = Head(chan[r])
  OBVIOUS
<1>2. /\ chan[r] # << >> /\ p.t >= Cutoff
      /\ obs' = [obs EXCEPT ![r] = UnionMerge(r, p)]
      /\ missings' = [c \in Cells |->
           IF ~NoMissing /\ c \in Expand(p.runs) /\ missings[c] < p.t THEN p.t ELSE missings[c]]
      /\ spilt' = [spilt EXCEPT ![r] =
           @ \cup {c \in Expand(p.runs) \ Named(p) : said[r][c].t < p.t}]
      /\ chan' = [chan EXCEPT ![r] = Tail(@)]
      /\ UNCHANGED <<now, beat, said>>
  BY <1>1 DEF IngestNewData, oneVars
<1>3. Took(r, p)
  BY <1>1, <1>2, RestOfChannel
<1>4. obs'[r] = {[x |-> c, t |-> p.t] : c \in p.values}
                  \cup {o \in obs[r] : o.x \notin p.values \cup Expand(p.runs) /\ o.t >= Cutoff}
  BY <1>2 DEF UnionMerge, DatabaseInv, Types
<1>5. spilt'[r] = spilt[r] \cup {c \in Expand(p.runs) \ Named(p) : said[r][c].t < p.t}
  BY <1>2 DEF DatabaseInv, Types, TypeOK
<1>6. /\ p.t \in Nat /\ Cutoff \in Int /\ Cutoff' = Cutoff /\ now \in Nat /\ beat[r] \in Nat
      /\ \A i \in 1..Len(chan[r]) : chan[r][i].t \in Nat
      /\ \A o \in obs[r] : o.t \in Nat
  BY <1>2, <1>3, Numbers DEF Took, Cutoff
<1>7. Sent(r)'
  <2>1. Sent(r)
    BY DEF DatabaseInv
  <2>2. \A o \in obs'[r] : o.t <= p.t /\ o.t <= beat[r]
    BY <1>3, <1>4, <1>6, <2>1 DEF Took, Sent
  <2>3. \A o, b \in obs'[r] : o.x = b.x => o.t = b.t
    BY <1>4, <2>1 DEF Sent
  <2>4. ASSUME NEW i \in 1..Len(chan'[r])
        PROVE  /\ chan'[r][i].t <= beat[r]
               /\ chan'[r][i].values \cap chan'[r][i].missing = {}
               /\ chan'[r][i].missing \subseteq Expand(chan'[r][i].runs)
               /\ \A o \in obs'[r] : o.t < chan'[r][i].t
    <3>1. PICK j \in 1..Len(chan[r]) : chan'[r][i] = chan[r][j]
      BY <1>3 DEF Took
    <3>2. \A o \in obs'[r] : o.t \in Nat
      BY <1>4, <1>6
    <3>3. p.t < chan'[r][i].t /\ chan'[r][i].t \in Nat
      BY <1>3, <1>6, <3>1 DEF Took
    <3>4. ASSUME NEW o \in obs'[r] PROVE o.t < chan'[r][i].t
      BY <1>6, <2>2, <3>2, <3>3
    <3>5. QED
      BY <2>1, <3>1, <3>4 DEF Sent
  <2>5. QED
    BY <1>2, <1>3, <2>1, <2>2, <2>3, <2>4 DEF Sent, Took
<1>8. ASSUME NEW c \in Cells PROVE CellInv(r, c)'
  <2>1. CellInv(r, c) /\ LastWord(r, c)
    BY DEF DatabaseInv, CellInv
  <2>2. /\ c \in Named(p) => p.t <= said[r][c].t
        /\ c \in Named(p) /\ p.t = said[r][c].t => said[r][c].what = Shown(p, c)
        /\ Clear(chan'[r], r, c) => \/ p.t = said[r][c].t /\ c \in Named(p)
                                    \/ Arrived(r, c) /\ said[r][c].t < p.t
    BY <1>1, <1>2, WordOfProduct
  <2>3. said'[r][c] = said[r][c]
    BY <1>2
  <2>4. Arrived(r, c)' <=> Clear(chan'[r], r, c)
    BY <2>3 DEF Arrived, Clear, Named
  <2>5. Held(r, c)' = IF c \in p.values THEN {p.t}
                      ELSE IF c \in Expand(p.runs) THEN {} ELSE {t \in Held(r, c) : t >= Cutoff}
    <3>1. \A o \in obs'[r] : o.x = c =>
            \/ c \in p.values /\ o.t = p.t
            \/ c \notin p.values \cup Expand(p.runs) /\ o \in obs[r] /\ o.t >= Cutoff
      BY <1>4
    <3>2. c \in p.values => p.t \in Held(r, c)'
      <4>1. ASSUME c \in p.values PROVE [x |-> c, t |-> p.t] \in obs'[r]
        BY <1>4, <4>1
      <4>2. [x |-> c, t |-> p.t].x = c /\ [x |-> c, t |-> p.t].t = p.t
        OBVIOUS
      <4>3. QED
        BY <4>1, <4>2 DEF Held
    <3>3. ASSUME c \notin p.values \cup Expand(p.runs), NEW t \in Held(r, c), t >= Cutoff
          PROVE  t \in Held(r, c)'
      <4>1. PICK o \in obs[r] : o.x = c /\ o.t = t
        BY DEF Held
      <4>2. o \in obs'[r]
        BY <1>4, <3>3, <4>1
      <4>3. QED
        BY <4>1, <4>2 DEF Held
    <3>4. \A t \in Held(r, c)' :
            \/ c \in p.values /\ t = p.t
            \/ c \notin p.values \cup Expand(p.runs) /\ t \in Held(r, c) /\ t >= Cutoff
      BY <3>1 DEF Held
    <3>5. QED
      BY <3>2, <3>3, <3>4
  <2>6. said[r][c].t \in Nat /\ missings[c] \in Nat
    BY Numbers
  <2>7. ASSUME Arrived(r, c)', NEW i \in 1..Len(chan'[r])
        PROVE  said'[r][c].t < chan'[r][i].t
    <3>1. chan'[r][i].t \in Nat /\ p.t < chan'[r][i].t
      BY <1>3, <1>6 DEF Took
    <3>2. said[r][c].t <= p.t
      BY <1>6, <2>2, <2>4, <2>6, <2>7
    <3>3. QED
      BY <1>6, <2>3, <2>6, <3>1, <3>2
  <2>8. ASSUME NEW i \in 1..Len(chan'[r]), c \in Named(chan'[r][i])
        PROVE  /\ chan'[r][i].t <= said'[r][c].t
               /\ chan'[r][i].t = said'[r][c].t => said'[r][c].what = Shown(chan'[r][i], c)
    <3>1. PICK j \in 1..Len(chan[r]) : chan'[r][i] = chan[r][j]
      BY <1>3 DEF Took
    <3>2. QED
      BY <2>1, <2>3, <2>8, <3>1 DEF LastWord
  <2>9. LastWord(r, c)'
    <3>1. said[r][c].what = "none" => Held(r, c)' = {}
      <4>1. c \in Named(p) => said[r][c].t > 0
        BY <1>3, <1>6, <2>2, <2>6 DEF Took
      <4>2. QED
        BY <2>1, <2>5, <4>1 DEF LastWord, Named
    <3>2. QED
      BY <1>2, <2>1, <2>3, <2>7, <2>8, <3>1 DEF LastWord, Named, Shown
  <2>10. CASE c \in Named(p)
    <3>1. Arrived(r, c)' => p.t = said[r][c].t /\ said[r][c].what = Shown(p, c)
      BY <1>6, <2>2, <2>4, <2>6, <2>10
    <3>2. c \in p.values /\ said[r][c].what = "missing" => ~ Arrived(r, c)'
      BY <3>1 DEF Shown
    <3>3. c \in p.missing => c \in Expand(p.runs) /\ c \notin p.values
      BY <1>3 DEF Took
    <3>4. HasValue(r, c)'
      BY <2>3, <2>5, <3>1 DEF HasValue, Shown
    <3>5. ASSUME said[r][c].what = "missing", Arrived(r, c)'
          PROVE  Held(r, c)' = {} /\ (NoMissing \/ missings'[c] >= said[r][c].t)
      <4>1. c \notin p.values /\ c \in Expand(p.runs) /\ p.t = said[r][c].t
        BY <2>10, <3>1, <3>2, <3>3, <3>5 DEF Named
      <4>2. QED
        BY <1>2, <1>6, <2>5, <2>6, <4>1
    <3>6. QED
      BY <2>3, <2>9, <3>4, <3>5 DEF CellInv, HasMissing
  <2>11. CASE c \notin Named(p)
    <3>1. c \notin p.values /\ c \notin p.missing
      BY <2>11 DEF Named
    <3>2. Arrived(r, c)' => Arrived(r, c) /\ said[r][c].t < p.t
      BY <2>2, <2>4, <2>11
    <3>3. CASE c \in Expand(p.runs)
      <4>1. c \notin spilt'[r] => ~ Arrived(r, c)'
        BY <1>5, <2>11, <3>2, <3>3
      <4>2. QED
        BY <2>9, <4>1 DEF CellInv, HasValue, HasMissing
    <3>4. CASE c \notin Expand(p.runs)
      <4>1. Held(r, c)' = {t \in Held(r, c) : t >= Cutoff} /\ missings'[c] = missings[c]
        BY <1>2, <2>5, <3>1, <3>4
      <4>2. HasValue(r, c) => HasValue(r, c)'
        BY <1>6, <2>3, <2>6, <3>2, <4>1 DEF HasValue
      <4>3. HasMissing(r, c) => HasMissing(r, c)'
        BY <2>3, <3>2, <4>1 DEF HasMissing
      <4>4. QED
        BY <1>5, <2>1, <2>9, <4>2, <4>3 DEF CellInv
    <3>5. QED
      BY <3>3, <3>4
  <2>12. QED
    BY <2>10, <2>11
<1>9. QED
  BY <1>7, <1>8

\* Stage one sends what changed.
LEMMA ProcessOn ==
  ASSUME DatabaseInv, Types', NEW r \in Radars, ProcessVolume(r)
  PROVE  /\ said' \in [Radars -> [Cells -> Word]]
         /\ Sent(r)' /\ \A c \in Cells : CellInv(r, c)'
<1> DEFINE found == [c \in Cells |-> Calc(r, c, Spread(r, c))]
           keys == [c \in Cells |-> LevelOf(Spread(r, c))]
           changed(mask) == {c \in mask \cap InRange[r] : level[r][c] # keys[c]}
           Told(mask, e) == {c \in changed(mask) : found[c] = e}
<1>1. PICK mask \in Masks :
        /\ chan' = [chan EXCEPT ![r] =
             IF Told(mask, "value") \cup Told(mask, "missing") = {} THEN @
             ELSE Append(@, [t |-> now, values |-> Told(mask, "value"),
                             runs |-> RLE(Told(mask, "missing")), missing |-> Told(mask, "missing")])]
        /\ said' = [said EXCEPT ![r] = [c \in Cells |->
             IF c \in Told(mask, "value") \cup Told(mask, "missing")
             THEN [what |-> found[c], t |-> now] ELSE @[c]]]
        /\ spilt' = [spilt EXCEPT ![r] = @ \ (Told(mask, "value") \cup Told(mask, "missing"))]
  BY DEF ProcessVolume
<1>2. PICK values : values = Told(mask, "value")
  OBVIOUS
<1>3. PICK missing : missing = Told(mask, "missing")
  OBVIOUS
<1>4. /\ values \in SUBSET Cells /\ missing \in SUBSET Cells
      /\ \A c \in Cells : c \in values => found[c] = "value"
      /\ \A c \in Cells : c \in missing => found[c] = "missing"
  <2>1. changed(mask) \subseteq Cells
    BY StagesAssumption
  <2>2. QED
    BY <1>2, <1>3, <2>1
<1>5. /\ chan' = [chan EXCEPT ![r] = IF values \cup missing = {} THEN @
             ELSE Append(@, [t |-> now, values |-> values, runs |-> RLE(missing), missing |-> missing])]
      /\ said' = [said EXCEPT ![r] = [c \in Cells |->
             IF c \in values \cup missing THEN [what |-> found[c], t |-> now] ELSE @[c]]]
      /\ spilt' = [spilt EXCEPT ![r] = @ \ (values \cup missing)]
      /\ beat' = [beat EXCEPT ![r] = now] /\ beat[r] < now
      /\ UNCHANGED <<now, obs, missings>>
  <2>1. /\ beat' = [beat EXCEPT ![r] = now] /\ beat[r] < now
        /\ UNCHANGED <<now, obs, missings>>
    BY DEF ProcessVolume, twoVars
  <2> HIDE DEF Told, found
  <2>2. QED
    BY <1>1, <1>2, <1>3, <2>1
<1>6. values \cap missing = {}
  BY <1>4
<1> HIDE DEF found, keys, changed, Told
<1>7. PICK p : p = [t |-> now, values |-> values, runs |-> RLE(missing), missing |-> missing]
  OBVIOUS
<1>8. /\ p.t = now /\ p.values = values /\ p.missing = missing /\ Named(p) = values \cup missing
      /\ p.missing \subseteq Expand(p.runs)
  BY <1>4, <1>7, RunsHoldMissing DEF Named
<1>9. said \in [Radars -> [Cells -> Word]] /\ chan[r] \in Seq(Fitting)
  BY DEF DatabaseInv, Types
<1>10. /\ now \in Nat /\ beat[r] \in Nat /\ beat'[r] = now /\ beat[r] < now
       /\ \A i \in 1..Len(chan[r]) : chan[r][i].t \in Nat /\ chan[r][i].t <= beat[r]
       /\ \A o \in obs[r] : o.t \in Nat /\ o.t <= beat[r]
       /\ \A c \in Cells : said[r][c].t \in Nat /\ said[r][c].t <= beat[r]
  <2>1. \A c \in Cells : said[r][c].t <= beat[r]
    BY DEF DatabaseInv, CellInv, LastWord
  <2>2. beat'[r] = now
    BY <1>5 DEF DatabaseInv, Types, TypeOK
  <2>3. QED
    BY <1>5, <2>1, <2>2, Numbers DEF DatabaseInv, Sent
<1>11. ASSUME NEW o \in obs[r] PROVE o.t < now /\ o.t <= now
  <2>1. o.t \in Nat /\ o.t <= beat[r]
    BY <1>10
  <2>2. QED
    BY <1>10, <2>1
<1>12. ASSUME NEW c \in Cells PROVE said[r][c].t < now /\ said[r][c].t <= beat'[r]
  <2>1. said[r][c].t \in Nat /\ said[r][c].t <= beat[r]
    BY <1>10
  <2>2. QED
    BY <1>10, <2>1
<1>13. \/ chan'[r] = chan[r] /\ values \cup missing = {}
       \/ /\ Len(chan'[r]) = Len(chan[r]) + 1 /\ chan'[r][Len(chan[r]) + 1] = p
          /\ \A i \in 1..Len(chan[r]) : chan'[r][i] = chan[r][i]
          /\ Len(chan[r]) \in Nat
  <2>1. chan'[r] = IF values \cup missing = {} THEN chan[r] ELSE Append(chan[r], p)
    BY <1>5, <1>7 DEF DatabaseInv, Types
  <2>2. QED
    BY <1>9, <2>1
<1>14. \A i \in 1..Len(chan'[r]) :
         \/ i \in 1..Len(chan[r]) /\ chan'[r][i] = chan[r][i]
         \/ i = Len(chan[r]) + 1 /\ chan'[r][i] = p
  BY <1>13
<1>15. \A i \in 1..Len(chan[r]) : i \in 1..Len(chan'[r]) /\ chan'[r][i] = chan[r][i]
  BY <1>13
<1>16. /\ \A c \in Cells : said'[r][c] = IF c \in values \cup missing
                                        THEN [what |-> found[c], t |-> now] ELSE said[r][c]
       /\ spilt'[r] = spilt[r] \ (values \cup missing)
  BY <1>5, <1>9 DEF DatabaseInv, Types, TypeOK
<1>17. \A c \in Cells : c \in values \cup missing => [what |-> found[c], t |-> now] \in Word
  BY <1>4, <1>10 DEF Word
<1>18. said' \in [Radars -> [Cells -> Word]]
  BY <1>5, <1>9, <1>17
<1>19. Sent(r)'
  <2>1. Sent(r) /\ obs' = obs /\ now' = now
    BY <1>5 DEF DatabaseInv
  <2>2. ASSUME NEW i \in 1..Len(chan'[r])
        PROVE  /\ chan'[r][i].t <= now
               /\ chan'[r][i].values \cap chan'[r][i].missing = {}
               /\ chan'[r][i].missing \subseteq Expand(chan'[r][i].runs)
               /\ \A o \in obs[r] : o.t < chan'[r][i].t
    <3>1. CASE i \in 1..Len(chan[r]) /\ chan'[r][i] = chan[r][i]
      <4>1. chan[r][i].t <= now
        BY <1>10, <3>1
      <4>2. QED
        BY <2>1, <3>1, <4>1 DEF Sent
    <3>2. CASE chan'[r][i] = p
      BY <1>6, <1>8, <1>10, <1>11, <3>2
    <3>3. QED
      BY <1>14, <3>1, <3>2
  <2>3. ASSUME NEW i \in 1..Len(chan'[r]), NEW j \in 1..Len(chan'[r]), i < j
        PROVE  chan'[r][i].t < chan'[r][j].t
    <3>1. Len(chan[r]) \in Nat
      BY <1>9
    <3>2. i \in 1..Len(chan[r]) /\ chan'[r][i] = chan[r][i]
      BY <1>13, <1>14, <2>3, <3>1
    <3>3. CASE j \in 1..Len(chan[r]) /\ chan'[r][j] = chan[r][j]
      BY <2>1, <2>3, <3>2, <3>3 DEF Sent
    <3>4. CASE chan'[r][j] = p
      BY <1>8, <1>10, <3>2, <3>4
    <3>5. QED
      BY <1>14, <3>3, <3>4
  <2>4. \A o \in obs[r] : o.t <= now
    BY <1>11
  <2>5. QED
    BY <1>10, <2>1, <2>2, <2>3, <2>4 DEF Sent
<1>20. ASSUME NEW c \in Cells PROVE CellInv(r, c)'
  <2>1. CellInv(r, c) /\ LastWord(r, c) /\ Held(r, c)' = Held(r, c)
    BY <1>5 DEF DatabaseInv, CellInv, Held
  <2>2. CASE c \in values \cup missing
    <3>1. said'[r][c] = [what |-> found[c], t |-> now] /\ c \notin spilt'[r]
      BY <1>16, <2>2
    <3>2. said'[r][c].what = Shown(p, c) /\ said'[r][c].t = now
      BY <1>4, <1>6, <1>8, <2>2, <3>1 DEF Shown
    <3>3. ~ Arrived(r, c)'
      <4>1. Len(chan[r]) + 1 \in 1..Len(chan'[r]) /\ chan'[r][Len(chan[r]) + 1] = p
        BY <1>13, <2>2
      <4>2. QED
        BY <1>8, <2>2, <3>2, <4>1 DEF Arrived, Named
    <3>4. ASSUME NEW i \in 1..Len(chan'[r])
          PROVE  /\ chan'[r][i].t <= now
                 /\ chan'[r][i].t = now => chan'[r][i] = p
      <4>1. CASE i \in 1..Len(chan[r]) /\ chan'[r][i] = chan[r][i]
        <5>1. chan[r][i].t \in Nat /\ chan[r][i].t <= beat[r]
          BY <1>10, <4>1
        <5>2. now \in Nat /\ beat[r] \in Nat /\ beat[r] < now
          BY <1>10
        <5>3. QED
          BY <4>1, <5>1, <5>2
      <4>2. CASE chan'[r][i] = p
        BY <1>8, <1>10, <4>2
      <4>3. QED
        BY <1>14, <4>1, <4>2
    <3>5. said'[r][c].what # "none"
      BY <3>2 DEF Shown
    <3>6. LastWord(r, c)'
      BY <1>10, <3>2, <3>3, <3>4, <3>5 DEF LastWord, Shown, Named
    <3>7. QED
      BY <3>3, <3>6 DEF CellInv, HasValue, HasMissing
  <2>3. CASE c \notin values \cup missing
    <3>1. said'[r][c] = said[r][c]
      BY <1>16, <2>3
    <3>2. c \notin Named(p) /\ said[r][c].t < now /\ said[r][c].t <= beat'[r]
      BY <1>8, <1>12, <2>3
    <3>3. Arrived(r, c)' <=> Arrived(r, c)
      <4>1. ASSUME Arrived(r, c), NEW i \in 1..Len(chan'[r])
            PROVE  ~ (chan'[r][i].t = said[r][c].t /\ c \in Named(chan'[r][i]))
        BY <1>14, <3>2, <4>1 DEF Arrived
      <4>2. ASSUME Arrived(r, c)', NEW i \in 1..Len(chan[r])
            PROVE  ~ (chan[r][i].t = said[r][c].t /\ c \in Named(chan[r][i]))
        BY <1>15, <3>1, <4>2 DEF Arrived, Named
      <4>3. QED
        BY <3>1, <4>1, <4>2 DEF Arrived, Named
    <3>4. ASSUME NEW i \in 1..Len(chan'[r]), c \in Named(chan'[r][i])
          PROVE  /\ chan'[r][i].t <= said[r][c].t
                 /\ chan'[r][i].t = said[r][c].t => said[r][c].what = Shown(chan'[r][i], c)
      <4>1. i \in 1..Len(chan[r]) /\ chan'[r][i] = chan[r][i]
        BY <1>14, <3>2, <3>4
      <4>2. QED
        BY <2>1, <3>4, <4>1 DEF LastWord
    <3>5. ASSUME Arrived(r, c)', NEW i \in 1..Len(chan'[r]) PROVE said[r][c].t < chan'[r][i].t
      <4>1. CASE i \in 1..Len(chan[r]) /\ chan'[r][i] = chan[r][i]
        BY <2>1, <3>3, <3>5, <4>1 DEF LastWord
      <4>2. CASE chan'[r][i] = p
        BY <1>8, <3>2, <4>2
      <4>3. QED
        BY <1>14, <4>1, <4>2
    <3>6. LastWord(r, c)'
      BY <2>1, <3>1, <3>2, <3>4, <3>5 DEF LastWord, Shown, Named
    <3>7. HasValue(r, c) => HasValue(r, c)'
      BY <1>5, <2>1, <3>1, <3>3 DEF HasValue, Cutoff
    <3>8. HasMissing(r, c) => HasMissing(r, c)'
      BY <1>5, <2>1, <3>1, <3>3 DEF HasMissing
    <3>9. QED
      BY <1>16, <2>1, <2>3, <3>6, <3>7, <3>8 DEF CellInv
  <2>4. QED
    BY <2>2, <2>3
<1>21. QED
  BY <1>18, <1>19, <1>20

\* Stage two starts with nothing, and what it was told is lost.
LEMMA RestartTwoOn ==
  ASSUME DatabaseInv, RestartStageTwo
  PROVE  /\ said' \in [Radars -> [Cells -> Word]]
         /\ \A r \in Radars : Sent(r)' /\ \A c \in Cells : CellInv(r, c)'
<1>1. said \in [Radars -> [Cells -> Word]]
  BY DEF DatabaseInv
<1>2. /\ obs' = [r \in Radars |-> {}] /\ chan' = [r \in Radars |-> << >>]
      /\ said' = [r \in Radars |-> [c \in Cells |->
           IF said[r][c] = NeverSaid THEN NeverSaid ELSE [said[r][c] EXCEPT !.what = "lost"]]]
      /\ UNCHANGED <<now, beat>>
  BY DEF RestartStageTwo, oneVars
<1>3. ASSUME NEW r \in Radars, NEW c \in Cells
      PROVE  /\ said'[r][c] \in Word /\ said'[r][c].t = said[r][c].t
             /\ said'[r][c].what \notin {"value", "missing"}
             /\ said'[r][c].what = "none" => said'[r][c].t = 0
  <2>1. said[r][c] \in Word
    BY <1>1
  <2>2. /\ [said[r][c] EXCEPT !.what = "lost"] \in Word
        /\ [said[r][c] EXCEPT !.what = "lost"].t = said[r][c].t
        /\ [said[r][c] EXCEPT !.what = "lost"].what = "lost"
    BY <2>1 DEF Word
  <2>3. NeverSaid \in Word /\ NeverSaid.what = "none" /\ NeverSaid.t = 0
    BY DEF NeverSaid, Word
  <2>4. said'[r][c] = IF said[r][c] = NeverSaid THEN NeverSaid ELSE [said[r][c] EXCEPT !.what = "lost"]
    BY <1>2
  <2>5. QED
    BY <2>2, <2>3, <2>4
<1>4. said' \in [Radars -> [Cells -> Word]]
  <2>1. said' = [r \in Radars |-> [c \in Cells |-> said'[r][c]]]
    BY <1>2
  <2>2. QED
    BY <1>3, <2>1
<1>5. ASSUME NEW r \in Radars PROVE Sent(r)'
  <2>1. beat[r] <= now
    BY DEF DatabaseInv, Sent
  <2>2. QED
    BY <1>2, <2>1 DEF Sent
<1>6. ASSUME NEW r \in Radars, NEW c \in Cells PROVE CellInv(r, c)'
  <2>1. said[r][c].t <= beat[r]
    BY DEF DatabaseInv, CellInv, LastWord
  <2>2. chan'[r] = << >> /\ obs'[r] = {} /\ beat'[r] = beat[r]
    BY <1>2
  <2>3. Held(r, c)' = {}
    BY <2>2 DEF Held
  <2>4. LastWord(r, c)'
    BY <1>3, <2>1, <2>2, <2>3 DEF LastWord
  <2>5. QED
    BY <1>3, <2>4 DEF CellInv, HasValue, HasMissing
<1>7. QED
  BY <1>4, <1>5, <1>6

\* Every step.
LEMMA NextDatabase == DatabaseInv /\ [Next]_vars => DatabaseInv'
<1> SUFFICES ASSUME DatabaseInv, [Next]_vars PROVE DatabaseInv'
  OBVIOUS
<1>1. Types /\ Types'
  BY NextTypes DEF DatabaseInv
<1> DEFINE Goal == /\ said' \in [Radars -> [Cells -> Word]]
                   /\ \A r \in Radars : Sent(r)' /\ \A c \in Cells : CellInv(r, c)'
<1>2. ASSUME NEW r \in Radars PROVE beat[r] \in Nat /\ now \in Nat /\ beat[r] <= now
  BY <1>1 DEF DatabaseInv, Sent, Types, TypeOK, Times
<1>3. \A c \in Cells : missings[c] \in Nat
  BY <1>1 DEF Types, TypeOK
<1>4. ASSUME UNCHANGED <<now, beat, chan, obs, missings, said>>,
             \A r \in Radars : spilt'[r] = spilt[r]
      PROVE  Goal
  BY <1>1, <1>2, <1>3, <1>4, RadarOn DEF DatabaseInv
<1>5. ASSUME NEW r \in Radars, ProcessRadialSet(r) \/ RestartStageOne(r) PROVE Goal
  BY <1>4, <1>5 DEF ProcessRadialSet, RestartStageOne, twoVars
<1>6. ASSUME NEW r \in Radars, NoMask(r) PROVE Goal
  <2>1. /\ beat' = [beat EXCEPT ![r] = now] /\ beat[r] < now
        /\ UNCHANGED <<now, chan, obs, missings, said, spilt>>
    BY <1>6 DEF NoMask, twoVars, histVars
  <2>2. ASSUME NEW q \in Radars PROVE beat'[q] >= beat[q] /\ beat'[q] <= now'
    BY <1>1, <1>2, <2>1 DEF Types, TypeOK
  <2>3. QED
    BY <1>1, <1>2, <1>3, <2>1, <2>2, RadarOn DEF DatabaseInv
<1>7. CASE ClockTick
  <2>1. now' = now + 1 /\ UNCHANGED <<beat, chan, obs, missings, said, spilt>>
    BY <1>7 DEF ClockTick, oneVars, twoVars, histVars
  <2>2. ASSUME NEW q \in Radars PROVE now' >= now /\ beat'[q] >= beat[q] /\ beat'[q] <= now'
    BY <1>2, <2>1
  <2>3. Goal
    BY <1>1, <1>3, <2>1, <2>2, RadarOn DEF DatabaseInv
  <2>4. QED
    BY <1>1, <2>3 DEF DatabaseInv
<1>8. ASSUME NEW r \in Radars, ProcessVolume(r) PROVE Goal
  <2>1. ASSUME NEW q \in Radars \ {r} PROVE Sent(q)' /\ \A c \in Cells : CellInv(q, c)'
    <3>1. /\ chan'[q] = chan[q] /\ said'[q] = said[q] /\ spilt'[q] = spilt[q] /\ beat'[q] = beat[q]
          /\ UNCHANGED <<now, obs, missings>>
      BY <1>1, <1>8 DEF ProcessVolume, twoVars, DatabaseInv, Types, TypeOK
    <3>2. QED
      BY <1>1, <1>2, <1>3, <3>1, RadarOn
  <2>2. QED
    BY <1>1, <1>8, <2>1, ProcessOn
<1>9. ASSUME NEW r \in Radars, IngestNewData(r) PROVE Goal
  <2>1. ASSUME NEW q \in Radars \ {r} PROVE Sent(q)' /\ \A c \in Cells : CellInv(q, c)'
    <3>1. /\ chan'[q] = chan[q] /\ obs'[q] = obs[q] /\ spilt'[q] = spilt[q]
          /\ UNCHANGED <<now, beat, said>>
      BY <1>1, <1>9 DEF IngestNewData, oneVars, Types, TypeOK
    <3>2. PICK p \in Fitting : p = Head(chan[r])
      BY <1>1, <1>9, FirstProduct DEF IngestNewData, Types
    <3>3. p.t \in Nat
      BY <3>2 DEF Fitting, Product, Times
    <3>4. missings' = [c \in Cells |->
            IF ~NoMissing /\ c \in Expand(p.runs) /\ missings[c] < p.t THEN p.t ELSE missings[c]]
      BY <1>9, <3>2 DEF IngestNewData
    <3>5. \A c \in Cells : missings'[c] >= missings[c]
      BY <1>3, <3>3, <3>4
    <3>6. QED
      BY <1>1, <1>2, <3>1, <3>5, RadarOn
  <2>2. said' \in [Radars -> [Cells -> Word]]
    BY <1>9 DEF IngestNewData, DatabaseInv
  <2>3. QED
    BY <1>9, <2>1, <2>2, IngestOn
<1>10. ASSUME NEW r \in Radars, IgnoreOld(r) \/ Lose(r) PROVE Goal
  <2>1. ASSUME NEW q \in Radars \ {r} PROVE Sent(q)' /\ \A c \in Cells : CellInv(q, c)'
    <3>1. Forget(r, Head(chan[r])) /\ chan' = [chan EXCEPT ![r] = Tail(@)]
          /\ UNCHANGED <<now, beat, obs, missings, spilt>>
      BY <1>10 DEF IgnoreOld, Lose, oneVars, twoVars
    <3>2. chan'[q] = chan[q] /\ said'[q] = said[q]
      BY <1>1, <3>1 DEF Forget, DatabaseInv, Types
    <3>3. QED
      BY <1>1, <1>2, <1>3, <3>1, <3>2, RadarOn
  <2>2. QED
    BY <1>10, <2>1, ForgetOn
<1>11. CASE TimePurge
  <2>1. said' \in [Radars -> [Cells -> Word]]
    BY <1>11 DEF TimePurge, histVars, DatabaseInv
  <2>2. QED
    BY <1>1, <1>11, <2>1, PurgeOn DEF DatabaseInv
<1>12. CASE RestartStageTwo
  BY <1>1, <1>12, RestartTwoOn DEF DatabaseInv
<1>13. CASE UNCHANGED vars
  <2>1. Goal
    BY <1>4, <1>13 DEF vars, oneVars, twoVars, histVars
  <2>2. QED
    BY <1>1, <2>1 DEF DatabaseInv
<1> HIDE DEF Goal
<1>14. ASSUME NEW r \in Radars,
              \/ ProcessRadialSet(r) \/ ProcessVolume(r) \/ NoMask(r)
              \/ IngestNewData(r) \/ IgnoreOld(r) \/ Lose(r) \/ RestartStageOne(r)
       PROVE  DatabaseInv'
  <2>1. Goal
    BY <1>5, <1>6, <1>8, <1>9, <1>10, <1>14
  <2>2. QED
    BY <1>1, <2>1 DEF Goal, DatabaseInv
<1>15. QED
  BY <1>7, <1>11, <1>12, <1>13, <1>14 DEF Next

\* The invariant implies the property.
LEMMA DatabaseMeans == DatabaseInv => DatabaseFollows
<1> SUFFICES ASSUME DatabaseInv, NEW r \in Radars, NEW c \in Cells, c \notin spilt[r]
             PROVE  Follows(r, c)
  BY DEF DatabaseFollows
<1>1. Sent(r) /\ LastWord(r, c) /\ HasValue(r, c) /\ HasMissing(r, c)
  BY DEF DatabaseInv, CellInv
<1>2. \A t, u \in Held(r, c) : t = u
  BY <1>1 DEF Held, Sent
<1>3. QED
  BY <1>1, <1>2 DEF Follows, LastWord, HasValue, HasMissing

(* Although a stage one sends only the cells that changed, stage two holds  *)
(* of every cell what was last said of it, however products, purges,        *)
(* restarts and the clock interleave: unless it was lost, came too late,    *)
(* has expired, or a run of missings spilt over it.                         *)
THEOREM StageTwoFollows == Spec => []DatabaseFollows
BY InitDatabase, NextDatabase, DatabaseMeans, PTL DEF Spec
==============================================================================
