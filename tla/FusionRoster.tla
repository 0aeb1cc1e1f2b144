------------------------------ MODULE FusionRoster ------------------------------
(***************************************************************************)
(* The roster of the fusion.  Every stage one keeps rewriting a file with  *)
(* the range of each cell of its box; on a heartbeat the roster walks      *)
(* these files, keeps the N nearest radars of each cell, and gives every   *)
(* radar it took in a mask of the cells it is near enough to.  Stage one   *)
(* calculates only what its mask gives it (FusionStages), so a cell that   *)
(* no mask has is a hole in the merged product, and a mask that outlives   *)
(* its radar takes the place of one that is up.                            *)
(*                                                                         *)
(* Files are complete when they get their name (OutputProtocol models the  *)
(* move); what is known of a range file is its age, up to where it no      *)
(* longer matters.  The processes share nothing but the files.             *)
(***************************************************************************)
EXTENDS Naturals, Sequences, FiniteSets

CONSTANTS Radars,
          Cells,
          Box,                 \* radar -> the cells of its subgrid
          Dist,                \* radar -> cell -> its range from the radar
          N,                   \* -nearest
          History,             \* -h, the age at which a range file expires
          Static,              \* -static: range files do not expire
          Warmup,              \* tilts before a stage one writes its range file
          NoFile, NoMask,
          MaxFaults            \* bound

ASSUME RosterAssumption ==
  /\ IsFiniteSet(Radars) /\ N \in Nat \ {0}
  /\ Box \in [Radars -> SUBSET Cells]
  /\ Dist \in [Radars -> [Cells -> Nat]]
  /\ History \in Nat /\ Static \in BOOLEAN /\ Warmup \in Nat
  /\ NoFile \notin Nat /\ \A S \in SUBSET Cells : NoMask # S
  /\ MaxFaults \in Nat

VARIABLES tilts,               \* startupcounter of each stage one
          file,                \* age of its range file
          mask,                \* mask file of each radar
          pc, todo,            \* the roster's pass, and the files it has left
          ids,                 \* myNameToInfo: radars taken in, in this order
          near,                \* the N nearest of each cell
          bits,                \* the masks in memory
          faults             \* history

passVars == <<pc, todo, ids, near, bits>>
vars == <<tilts, file, mask, passVars, faults>>

Entry == [id : Radars, range : Nat]

TypeOK ==
  /\ tilts \in [Radars -> 0..Warmup]
  /\ file \in [Radars -> 0..History + 1 \cup {NoFile}]
  /\ mask \in [Radars -> {NoMask} \cup SUBSET Cells]
  /\ pc \in {"idle", "walk", "write", "delete"}
  /\ todo \subseteq Radars
  /\ ids \in Seq(Radars)
  /\ near \in [Cells -> Seq(Entry)]
  /\ bits \in [Radars -> SUBSET Cells]
  /\ faults \in 0..MaxFaults

Init ==
  /\ tilts = [r \in Radars |-> 0]
  /\ file = [r \in Radars |-> NoFile]
  /\ mask = [r \in Radars |-> NoMask]
  /\ pc = "idle" /\ todo = {}
  /\ ids = << >>
  /\ near = [c \in Cells |-> << >>]
  /\ bits = [r \in Radars |-> {}]
  /\ faults = 0

-----------------------------------------------------------------------------
(* Stage one *)

(* updateRangeFile: after some tilts to warm up, each rewrites the file.  One *)
(* that cannot be written or moved stays as old as it is.                     *)
Tilt(r) ==
  /\ \/ /\ tilts[r] < Warmup
        /\ tilts' = [tilts EXCEPT ![r] = @ + 1]
        /\ UNCHANGED file
     \/ /\ tilts[r] = Warmup
        /\ file' = [file EXCEPT ![r] = 0]
        /\ UNCHANGED tilts
  /\ UNCHANGED <<mask, passVars, faults>>

RestartStageOne(r) ==
  /\ tilts' = [tilts EXCEPT ![r] = 0]
  /\ faults < MaxFaults /\ faults' = faults + 1
  /\ UNCHANGED <<file, mask, passVars>>

ClockTick ==
  /\ file' = [r \in Radars |->
       IF file[r] \in 0..History THEN file[r] + 1 ELSE file[r]]
  /\ UNCHANGED <<tilts, mask, passVars, faults>>

-----------------------------------------------------------------------------
(* The roster *)

Ingested == {ids[i] : i \in 1..Len(ids)}

(* A heartbeat starts a pass: the nearest of before are forgotten. *)
StartPass ==
  /\ pc = "idle"
  /\ pc' = "walk"
  /\ todo' = {r \in Radars : file[r] # NoFile}
  /\ ids' = << >>
  /\ near' = [c \in Cells |-> << >>]
  /\ bits' = [r \in Radars |-> {}]
  /\ UNCHANGED <<tilts, file, mask, faults>>

ExpiredCoverage(r) == ~Static /\ file[r] > History

(* Where a range belongs in the entries of a cell: after those as near as it. *)
Place(s, v) == CHOOSE i \in 1..Len(s) + 1 :
  /\ \A j \in 1..i - 1 : s[j].range <= v
  /\ i <= Len(s) => v < s[i].range

\* Mutant: the entries beyond the place are overwritten, not shifted.
InsertOver(s, e) ==
  LET i == Place(s, e.range)
  IN  IF i > N THEN s
      ELSE [k \in 1..(IF i > Len(s) THEN i ELSE Len(s)) |-> IF k = i THEN e ELSE s[k]]

(* The entries from there on are shifted, which pushes out the farthest. *)
Insert(s, e) ==
  LET i == Place(s, e.range)
  IN  IF i > N THEN s
      ELSE [k \in 1..(IF Len(s) < N THEN Len(s) + 1 ELSE N) |->
              IF k < i THEN s[k] ELSE IF k = i THEN e ELSE s[k - 1]]

NearestNeighbor(r) ==
  [c \in Cells |-> IF c \in Box[r] THEN Insert(near[c], [id |-> r, range |-> Dist[r][c]])
                   ELSE near[c]]

Ingest(r) ==
  /\ pc = "walk" /\ r \in todo /\ ~ExpiredCoverage(r)
  /\ ids' = Append(ids, r)
  /\ near' = NearestNeighbor(r)
  /\ todo' = todo \ {r}
  /\ UNCHANGED <<tilts, file, mask, pc, bits, faults>>

(* The walk passes over a file that is expired, cannot be read or has not the *)
(* size of the grid.                                                          *)
SkipExpired(r) ==
  /\ pc = "walk" /\ r \in todo /\ ExpiredCoverage(r)
  /\ todo' = todo \ {r}
  /\ UNCHANGED <<tilts, file, mask, pc, ids, near, bits, faults>>

SkipUnreadable(r) ==
  /\ pc = "walk" /\ r \in todo /\ ~ExpiredCoverage(r)
  /\ faults < MaxFaults /\ faults' = faults + 1
  /\ todo' = todo \ {r}
  /\ UNCHANGED <<tilts, file, mask, pc, ids, near, bits>>

GenerateMasks ==
  /\ pc = "walk" /\ todo = {}
  /\ bits' = [r \in Radars |-> {c \in Cells : \E k \in 1..Len(near[c]) : near[c][k].id = r}]
  /\ pc' = "write" /\ todo' = Ingested
  /\ UNCHANGED <<tilts, file, mask, ids, near, faults>>

WriteMask(r) ==
  /\ pc = "write" /\ r \in todo
  /\ mask' = [mask EXCEPT ![r] = bits[r]]
  /\ todo' = todo \ {r}
  /\ UNCHANGED <<tilts, file, pc, ids, near, bits, faults>>

(* The result of writeMaskFile() is not looked at: the old mask stays. *)
WriteFails(r) ==
  /\ pc = "write" /\ r \in todo
  /\ faults < MaxFaults /\ faults' = faults + 1
  /\ todo' = todo \ {r}
  /\ UNCHANGED <<tilts, file, mask, pc, ids, near, bits>>

\* Mutant: masks are deleted for radars that have no range file.
WalkMasksOfNone ==
  /\ pc = "write" /\ todo = {}
  /\ pc' = "delete"
  /\ todo' = {r \in Radars : mask[r] # NoMask /\ file[r] = NoFile}
  /\ UNCHANGED <<tilts, file, mask, ids, near, bits, faults>>

WalkMasks ==
  /\ pc = "write" /\ todo = {}
  /\ pc' = "delete"
  /\ todo' = {r \in Radars : mask[r] # NoMask}
  /\ UNCHANGED <<tilts, file, mask, ids, near, bits, faults>>

(* A mask is deleted unless its radar was taken in. *)
DeleteMask(r) ==
  /\ pc = "delete" /\ r \in todo
  /\ mask' = IF r \in Ingested THEN mask ELSE [mask EXCEPT ![r] = NoMask]
  /\ todo' = todo \ {r}
  /\ UNCHANGED <<tilts, file, pc, ids, near, bits, faults>>

DeleteFails(r) ==
  /\ pc = "delete" /\ r \in todo
  /\ faults < MaxFaults /\ faults' = faults + 1
  /\ todo' = todo \ {r}
  /\ UNCHANGED <<tilts, file, mask, pc, ids, near, bits>>

FinishPass ==
  /\ pc = "delete" /\ todo = {}
  /\ pc' = "idle"
  /\ UNCHANGED <<tilts, file, mask, todo, ids, near, bits, faults>>

(* The roster is stopped anywhere and started again: the files stay. *)
RestartRoster ==
  /\ pc' = "idle" /\ todo' = {} /\ ids' = << >>
  /\ near' = [c \in Cells |-> << >>]
  /\ bits' = [r \in Radars |-> {}]
  /\ faults < MaxFaults /\ faults' = faults + 1
  /\ UNCHANGED <<tilts, file, mask>>

PassStep ==
  \/ \E r \in Radars : \/ Ingest(r) \/ SkipExpired(r)
                       \/ WriteMask(r) \/ DeleteMask(r)
  \/ StartPass \/ GenerateMasks \/ WalkMasks \/ FinishPass

Next ==
  \/ PassStep
  \/ \E r \in Radars : \/ Tilt(r) \/ RestartStageOne(r)
                       \/ SkipUnreadable(r) \/ WriteFails(r) \/ DeleteFails(r)
  \/ RestartRoster \/ ClockTick

Spec == Init /\ [][Next]_vars

(* Heartbeats come and the main loop runs a pass to its end; faults are *)
(* finitely many.                                                       *)
FairSpec == Spec /\ WF_vars(PassStep)

-----------------------------------------------------------------------------
(* q goes before r at cell c: it is nearer, or as near and was walked first. *)
Before(q, r, c) ==
  \E i, j \in 1..Len(ids) :
    /\ ids[i] = q /\ ids[j] = r
    /\ Dist[q][c] < Dist[r][c] \/ (Dist[q][c] = Dist[r][c] /\ i < j)

Nearer(r, c) == {q \in Ingested : c \in Box[q] /\ Before(q, r, c)}

(* However the files come up in the walk, a radar's mask has the cells of its *)
(* box for which fewer than N of the radars taken in go before it, so that no *)
(* cell of their boxes is left out.                                           *)
MasksNearest ==
  pc \in {"write", "delete"} =>
    \A r \in Ingested : bits[r] = {c \in Box[r] : Cardinality(Nearer(r, c)) < N}

(* A radar that keeps its range file fresh comes to have a mask and keeps it, *)
(* and one that went silent loses it for good, to the radars behind it.       *)
MaskFollowsRadar ==
  \A r \in Radars :
    /\ <>[](file[r] \in 0..History) => <>[](mask[r] # NoMask)
    /\ <>[](file[r] # NoFile /\ ExpiredCoverage(r)) => <>[](mask[r] = NoMask)
==============================================================================
