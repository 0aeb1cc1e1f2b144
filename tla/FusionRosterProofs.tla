--------------------------- MODULE FusionRosterProofs ---------------------------
(***************************************************************************)
(* What the roster guarantees for every set of radars, boxes, ranges and   *)
(* number of nearest: each mask has the cells its radar is one of the N    *)
(* nearest of, and no cell of the radars taken in is left without a mask,  *)
(* however their files come up in the walk.                                *)
(***************************************************************************)
EXTENDS FusionRoster, FiniteSetTheorems, WellFoundedInduction, TLAPS

\* Radars that share cell c, and those that have a place at it.
Sharing(c) == {r \in Ingested : c \in Box[r]}
Placed(c)  == {near[c][k].id : k \in 1..Len(near[c])}

\* The places of cell c hold the first of the radars that share it, in order.
Ranked(c) ==
  /\ Len(near[c]) <= N
  /\ \A k \in 1..Len(near[c]) : /\ near[c][k].id \in Sharing(c)
                                /\ near[c][k].range = Dist[near[c][k].id][c]
  /\ \A k, l \in 1..Len(near[c]) : k < l => Before(near[c][k].id, near[c][l].id, c)
  /\ \A r \in Sharing(c) : \/ r \in Placed(c)
                           \/ Len(near[c]) = N /\ Before(near[c][N].id, r, c)

OnceInWalk ==
  /\ \A i, j \in 1..Len(ids) : ids[i] = ids[j] => i = j
  /\ pc = "walk" => Ingested \cap todo = {}

MasksFromPlaces ==
  pc \in {"write", "delete"} =>
    bits = [r \in Radars |-> {c \in Cells : r \in Placed(c)}]

RosterInv == TypeOK /\ OnceInWalk /\ (\A c \in Cells : Ranked(c)) /\ MasksFromPlaces

-----------------------------------------------------------------------------
\* A set of indexes has a least one.
LEMMA LeastIndex ==
  ASSUME NEW n \in Nat, NEW T \in SUBSET (1..n), T # {}
  PROVE  \E m \in T : \A k \in T : m <= k
<1> DEFINE S == 1..n
           Upto == {1..k : k \in T}
<1>1. IsFiniteSet(S)
  BY FS_Interval
<1>2. Upto \subseteq FiniteSubsetsOf(S) /\ Upto # {}
  <2>1. ASSUME NEW k \in T PROVE 1..k \in SUBSET S
    OBVIOUS
  <2>2. FiniteSubsetsOf(S) = SUBSET S
    BY <1>1, FS_FiniteSubsetsOfFinite
  <2>3. ASSUME NEW X \in Upto PROVE X \in SUBSET S
    <3>1. PICK k \in T : X = 1..k
      OBVIOUS
    <3>2. QED
      BY <2>1, <3>1
  <2>4. PICK k \in T : TRUE
    OBVIOUS
  <2>5. 1..k \in Upto
    OBVIOUS
  <2>6. QED
    BY <2>2, <2>3, <2>5
<1>3. PICK X \in Upto : \A Y \in Upto : <<Y, X>> \notin StrictSubsetOrdering(S)
  BY <1>2, FS_StrictSubsetOrderingWellFounded, WFMin
<1>4. PICK m \in T : X = 1..m
  OBVIOUS
<1>5. ASSUME NEW k \in T, k < m PROVE FALSE
  <2>1. 1..k \in SUBSET S /\ 1..m \in SUBSET S /\ 1..k \subseteq 1..m /\ m \in 1..m /\ m \notin 1..k
    BY <1>5
  <2>2. <<1..k, 1..m>> \in StrictSubsetOrdering(S)
    BY <2>1 DEF StrictSubsetOrdering
  <2>3. QED
    BY <1>3, <1>4, <2>2
<1>6. QED
  BY <1>5

\* Where a range belongs among sorted entries.
LEMMA PlaceOK ==
  ASSUME NEW s \in Seq(Entry), NEW v \in Nat,
         \A k, l \in 1..Len(s) : k < l => s[k].range <= s[l].range
  PROVE  /\ Place(s, v) \in 1..Len(s) + 1
         /\ \A j \in 1..Place(s, v) - 1 : s[j].range <= v
         /\ \A j \in Place(s, v)..Len(s) : v < s[j].range
<1>1. Len(s) \in Nat /\ \A j \in 1..Len(s) : s[j].range \in Nat
  <2>1. ASSUME NEW j \in 1..Len(s) PROVE s[j].range \in Nat
    <3>1. s[j] \in Entry
      OBVIOUS
    <3>2. QED
      BY <3>1 DEF Entry
  <2>2. QED
    BY <2>1
<1> DEFINE T == {j \in 1..Len(s) : v < s[j].range} \cup {Len(s) + 1}
           Fits(i) == /\ \A j \in 1..i - 1 : s[j].range <= v
                      /\ i <= Len(s) => v < s[i].range
<1>2. PICK m \in T : \A k \in T : m <= k
  <2>1. T \in SUBSET (1..Len(s) + 1) /\ T # {} /\ Len(s) + 1 \in Nat
    BY <1>1
  <2>2. QED
    BY <2>1, LeastIndex
<1>3. m \in 1..Len(s) + 1 /\ Fits(m)
  BY <1>1, <1>2
<1>4. Place(s, v) \in 1..Len(s) + 1 /\ Fits(Place(s, v))
  BY <1>3 DEF Place
<1>5. ASSUME NEW j \in Place(s, v)..Len(s) PROVE v < s[j].range
  <2>1. Place(s, v) \in 1..Len(s) /\ v < s[Place(s, v)].range
    BY <1>1, <1>4
  <2>2. CASE j = Place(s, v)
    BY <2>1, <2>2
  <2>3. CASE j # Place(s, v)
    <3>1. s[Place(s, v)].range <= s[j].range
      BY <1>1, <2>1, <2>3
    <3>2. QED
      BY <1>1, <2>1, <3>1
  <2>4. QED
    BY <2>2, <2>3
<1>6. QED
  BY <1>4, <1>5

\* What Insert makes of a cell's entries.
LEMMA InsertOK ==
  ASSUME NEW s \in Seq(Entry), NEW e \in Entry, Len(s) <= N,
         \A k, l \in 1..Len(s) : k < l => s[k].range <= s[l].range,
         NEW i, i = Place(s, e.range), NEW t, t = Insert(s, e)
  PROVE  /\ t \in Seq(Entry) /\ Len(t) <= N
         /\ i > N => t = s
         /\ i <= N => /\ Len(t) = (IF Len(s) < N THEN Len(s) + 1 ELSE N)
                      /\ i \in 1..Len(t) /\ t[i] = e
                      /\ \A k \in 1..i - 1 : k <= Len(s) /\ t[k] = s[k]
                      /\ \A k \in i + 1..Len(t) : k - 1 <= Len(s) /\ t[k] = s[k - 1]
<1> DEFINE n == IF Len(s) < N THEN Len(s) + 1 ELSE N
<1>1. N \in Nat \ {0} /\ Len(s) \in Nat /\ e.range \in Nat
  BY RosterAssumption DEF Entry
<1>2. i \in 1..Len(s) + 1
  BY <1>1, PlaceOK
<1>3. CASE i > N
  <2>1. t = s
    BY <1>3 DEF Insert
  <2>2. ~ i <= N
    BY <1>1, <1>2, <1>3
  <2>3. QED
    BY <2>1, <2>2
<1>4. CASE i <= N
  <2>1. t = [k \in 1..n |-> IF k < i THEN s[k] ELSE IF k = i THEN e ELSE s[k - 1]]
    BY <1>1, <1>2, <1>4 DEF Insert
  <2>2. n \in Nat /\ i \in 1..n /\ n <= N
    BY <1>1, <1>2, <1>4
  <2>3. \A k \in 1..n : (IF k < i THEN s[k] ELSE IF k = i THEN e ELSE s[k - 1]) \in Entry
    <3>1. ASSUME NEW k \in 1..n, k < i PROVE k \in 1..Len(s)
      BY <1>1, <1>2, <3>1
    <3>2. ASSUME NEW k \in 1..n, k > i PROVE k - 1 \in 1..Len(s)
      BY <1>1, <1>2, <2>2, <3>2
    <3>3. QED
      BY <1>1, <1>2, <3>1, <3>2
  <2>4. t \in [1..n -> Entry]
    BY <2>1, <2>3
  <2>5. t \in Seq(Entry) /\ Len(t) = n
    BY <2>2, <2>4
  <2>6. /\ t[i] = e
        /\ \A k \in 1..i - 1 : k <= Len(s) /\ t[k] = s[k]
    BY <1>1, <1>2, <2>1, <2>2
  <2>7. \A k \in i + 1..n : k - 1 <= Len(s) /\ t[k] = s[k - 1]
    BY <1>1, <1>2, <2>1, <2>2
  <2>8. ~ i > N /\ Len(t) = n
    BY <1>1, <1>2, <1>4, <2>5
  <2>9. Len(t) <= N /\ i \in 1..Len(t)
    BY <2>2, <2>8
  <2> HIDE DEF n
  <2>10. /\ t[i] = e
         /\ \A k \in 1..i - 1 : k <= Len(s) /\ t[k] = s[k]
         /\ \A k \in i + 1..Len(t) : k - 1 <= Len(s) /\ t[k] = s[k - 1]
    BY <2>6, <2>7, <2>8
  <2>11. QED
    BY <2>5, <2>8, <2>9, <2>10 DEF n
<1>5. QED
  BY <1>1, <1>2, <1>3, <1>4

-----------------------------------------------------------------------------
\* The radars taken in are in one order at each cell.
LEMMA BeforeOrder ==
  ASSUME TypeOK, OnceInWalk, NEW c \in Cells,
         NEW p \in Ingested, NEW q \in Ingested, NEW r \in Ingested
  PROVE  /\ ~ Before(p, p, c)
         /\ Before(p, q, c) /\ Before(q, r, c) => Before(p, r, c)
         /\ p # q => Before(p, q, c) \/ Before(q, p, c)
         /\ Before(p, q, c) => Dist[p][c] <= Dist[q][c]
<1>1. ids \in Seq(Radars) /\ Len(ids) \in Nat
  BY DEF TypeOK
<1>2. PICK i, j, k \in 1..Len(ids) : ids[i] = p /\ ids[j] = q /\ ids[k] = r
  BY DEF Ingested
<1>3. p \in Radars /\ q \in Radars /\ r \in Radars
  BY <1>1, <1>2
<1>4. Dist[p][c] \in Nat /\ Dist[q][c] \in Nat /\ Dist[r][c] \in Nat
  BY <1>3, RosterAssumption
<1>5. /\ Before(p, p, c) <=> FALSE
      /\ Before(p, q, c) <=> Dist[p][c] < Dist[q][c] \/ (Dist[p][c] = Dist[q][c] /\ i < j)
      /\ Before(q, p, c) <=> Dist[q][c] < Dist[p][c] \/ (Dist[q][c] = Dist[p][c] /\ j < i)
      /\ Before(q, r, c) <=> Dist[q][c] < Dist[r][c] \/ (Dist[q][c] = Dist[r][c] /\ j < k)
      /\ Before(p, r, c) <=> Dist[p][c] < Dist[r][c] \/ (Dist[p][c] = Dist[r][c] /\ i < k)
  BY <1>2, <1>4 DEF Before, OnceInWalk
<1>6. QED
  BY <1>2, <1>4, <1>5

\* A radar taken in next comes after those that are as near as it.
LEMMA BeforeNext ==
  ASSUME TypeOK, OnceInWalk, NEW c \in Cells, NEW x \in Radars, x \notin Ingested,
         ids' = Append(ids, x)
  PROVE  /\ Ingested' = Ingested \cup {x}
         /\ \A p, q \in Ingested : Before(p, q, c)' <=> Before(p, q, c)
         /\ \A p \in Ingested : /\ Before(p, x, c)' <=> Dist[p][c] <= Dist[x][c]
                                /\ Before(x, p, c)' <=> Dist[x][c] < Dist[p][c]
         /\ \A i, j \in 1..Len(ids') : ids'[i] = ids'[j] => i = j
<1>1. /\ Len(ids) \in Nat /\ Len(ids') = Len(ids) + 1
      /\ \A i \in 1..Len(ids) : ids'[i] = ids[i] /\ ids[i] \in Radars
      /\ ids'[Len(ids) + 1] = x
  BY DEF TypeOK
<1>2. 1..Len(ids') = 1..Len(ids) \cup {Len(ids) + 1}
  BY <1>1
<1>3. Ingested' = Ingested \cup {x}
  BY <1>1, <1>2 DEF Ingested
<1>4. \A i, j \in 1..Len(ids') : ids'[i] = ids'[j] => i = j
  BY <1>1, <1>2 DEF Ingested, OnceInWalk
<1>5. ASSUME NEW p \in Ingested, NEW q \in Ingested PROVE Before(p, q, c)' <=> Before(p, q, c)
  <2>1. PICK i, j \in 1..Len(ids) : ids[i] = p /\ ids[j] = q
    BY DEF Ingested
  <2>2. i \in 1..Len(ids') /\ j \in 1..Len(ids') /\ ids'[i] = p /\ ids'[j] = q
    BY <1>1, <1>2, <2>1
  <2>3. Before(p, q, c) <=> Dist[p][c] < Dist[q][c] \/ (Dist[p][c] = Dist[q][c] /\ i < j)
    BY <2>1 DEF Before, OnceInWalk
  <2>4. Before(p, q, c)' <=> Dist[p][c] < Dist[q][c] \/ (Dist[p][c] = Dist[q][c] /\ i < j)
    BY <1>4, <2>2 DEF Before
  <2>5. QED
    BY <2>3, <2>4
<1>6. ASSUME NEW p \in Ingested
      PROVE  /\ Before(p, x, c)' <=> Dist[p][c] <= Dist[x][c]
             /\ Before(x, p, c)' <=> Dist[x][c] < Dist[p][c]
  <2>1. PICK i \in 1..Len(ids) : ids[i] = p
    BY DEF Ingested
  <2> DEFINE n == Len(ids) + 1
  <2>2. /\ i \in 1..Len(ids') /\ n \in 1..Len(ids') /\ ids'[i] = p /\ ids'[n] = x
        /\ i < n /\ ~ n < i
    BY <1>1, <1>2, <2>1
  <2>3. Dist[p][c] \in Nat /\ Dist[x][c] \in Nat
    BY <1>1, <2>1, RosterAssumption
  <2> HIDE DEF n
  <2>4. /\ Before(p, x, c)' <=> Dist[p][c] < Dist[x][c] \/ Dist[p][c] = Dist[x][c]
        /\ Before(x, p, c)' <=> Dist[x][c] < Dist[p][c]
    BY <1>4, <2>2 DEF Before
  <2>5. QED
    BY <2>3, <2>4
<1>7. QED
  BY <1>3, <1>4, <1>5, <1>6

\* The places of a cell have sorted ranges.
LEMMA RankedSorted ==
  ASSUME TypeOK, OnceInWalk, NEW c \in Cells, Ranked(c)
  PROVE  \A k, l \in 1..Len(near[c]) : k < l => near[c][k].range <= near[c][l].range
<1> SUFFICES ASSUME NEW k \in 1..Len(near[c]), NEW l \in 1..Len(near[c]), k < l
             PROVE  near[c][k].range <= near[c][l].range
  OBVIOUS
<1>1. near[c][k].id \in Ingested /\ near[c][l].id \in Ingested
  BY DEF Ranked, Sharing
<1>2. Before(near[c][k].id, near[c][l].id, c)
  BY DEF Ranked
<1>3. Dist[near[c][k].id][c] <= Dist[near[c][l].id][c]
  BY <1>1, <1>2, BeforeOrder
<1>4. QED
  BY <1>3 DEF Ranked

\* The initial states.
LEMMA RosterInit == Init => RosterInv
<1> SUFFICES ASSUME Init PROVE RosterInv
  OBVIOUS
<1>1. Len(ids) = 0 /\ ids \in Seq(Radars) /\ Ingested = {}
  BY DEF Init, Ingested
<1>2. \A c \in Cells : near[c] = << >> /\ Len(near[c]) = 0 /\ near[c] \in Seq(Entry)
  BY DEF Init
<1>3. near \in [Cells -> Seq(Entry)]
  BY <1>2 DEF Init
<1>4. TypeOK
  BY <1>1, <1>3, RosterAssumption DEF Init, TypeOK
<1>5. OnceInWalk /\ MasksFromPlaces
  BY <1>1 DEF Init, OnceInWalk, MasksFromPlaces
<1>6. ASSUME NEW c \in Cells PROVE Ranked(c)
  BY <1>1, <1>2, RosterAssumption DEF Ranked, Sharing, Placed
<1>7. QED
  BY <1>4, <1>5, <1>6 DEF RosterInv

\* Taking a radar in keeps the places of a cell it shares ranked.
LEMMA IngestShared ==
  ASSUME RosterInv, NEW x \in Radars, Ingest(x), x \notin Ingested, NEW c \in Cells, c \in Box[x]
  PROVE  Ranked(c)' /\ near'[c] \in Seq(Entry)
<1> DEFINE v == Dist[x][c]
           e == [id |-> x, range |-> v]
<1> USE DEF RosterInv
<1>1. /\ near[c] \in Seq(Entry) /\ Len(near[c]) \in Nat /\ v \in Nat /\ e \in Entry
      /\ N \in Nat \ {0} /\ Len(near[c]) <= N
  <2>1. near[c] \in Seq(Entry) /\ N \in Nat \ {0} /\ v \in Nat
    BY RosterAssumption DEF TypeOK
  <2>2. Len(near[c]) \in Nat /\ e \in Entry
    BY <2>1 DEF Entry
  <2>3. Len(near[c]) <= N
    BY DEF Ranked
  <2>4. QED
    BY <2>1, <2>2, <2>3
<1>2. PICK s : s = near[c]
  OBVIOUS
<1>3. PICK t : t = near'[c] /\ t = Insert(s, e)
  <2>1. near'[c] = Insert(near[c], e)
    BY DEF Ingest, NearestNeighbor
  <2>2. QED
    BY <1>2, <2>1
<1>4. PICK i : i = Place(s, v)
  OBVIOUS
<1>5. \A k, l \in 1..Len(s) : k < l => s[k].range <= s[l].range
  BY <1>2, RankedSorted
<1>6. /\ i \in 1..Len(s) + 1
      /\ \A j \in 1..i - 1 : s[j].range <= v
      /\ \A j \in i..Len(s) : v < s[j].range
  BY <1>1, <1>2, <1>4, <1>5, PlaceOK
<1>7. /\ t \in Seq(Entry) /\ Len(t) <= N
      /\ i > N => t = s
      /\ i <= N => /\ Len(t) = (IF Len(s) < N THEN Len(s) + 1 ELSE N)
                   /\ i \in 1..Len(t) /\ t[i] = e
                   /\ \A k \in 1..i - 1 : k <= Len(s) /\ t[k] = s[k]
                   /\ \A k \in i + 1..Len(t) : k - 1 <= Len(s) /\ t[k] = s[k - 1]
  <2>1. e.range = v /\ e \in Entry /\ s \in Seq(Entry) /\ Len(s) <= N
    BY <1>1, <1>2
  <2> HIDE DEF e, v
  <2>2. i = Place(s, e.range)
    BY <1>4, <2>1
  <2>3. t = Insert(s, e)
    BY <1>3
  <2>4. t \in Seq(Entry) /\ Len(t) <= N
    BY <1>5, <2>1, <2>2, <2>3, InsertOK
  <2>5. i > N => t = s
    BY <1>5, <2>1, <2>2, <2>3, InsertOK
  <2>6. i <= N => /\ Len(t) = (IF Len(s) < N THEN Len(s) + 1 ELSE N)
                  /\ i \in 1..Len(t) /\ t[i] = e
    BY <1>5, <2>1, <2>2, <2>3, InsertOK
  <2>7. i <= N => \A k \in 1..i - 1 : k <= Len(s) /\ t[k] = s[k]
    BY <1>5, <2>1, <2>2, <2>3, InsertOK
  <2>8. ASSUME i <= N, NEW k \in i + 1..Len(t) PROVE k - 1 <= Len(s) /\ t[k] = s[k - 1]
    BY <1>5, <2>1, <2>2, <2>3, <2>8, InsertOK
  <2>9. QED
    BY <2>4, <2>5, <2>6, <2>7, <2>8
<1>8. /\ Ingested' = Ingested \cup {x}
      /\ \A p, q \in Ingested : Before(p, q, c)' <=> Before(p, q, c)
      /\ \A p \in Ingested : /\ Before(p, x, c)' <=> Dist[p][c] <= v
                             /\ Before(x, p, c)' <=> v < Dist[p][c]
  BY BeforeNext DEF Ingest
<1>9. Sharing(c)' = Sharing(c) \cup {x} /\ Sharing(c) \subseteq Ingested
  BY <1>8 DEF Sharing
<1>10. /\ \A k \in 1..Len(s) : /\ s[k].id \in Sharing(c) /\ s[k].id \in Ingested
                               /\ s[k].range = Dist[s[k].id][c]
       /\ \A k, l \in 1..Len(s) : k < l => Before(s[k].id, s[l].id, c)
       /\ \A r \in Sharing(c) : \/ \E k \in 1..Len(s) : s[k].id = r
                                \/ Len(s) = N /\ Before(s[N].id, r, c)
  BY <1>2, <1>9 DEF Ranked, Placed
<1>11. \A r \in Ingested : Dist[r][c] \in Nat
  <2>1. Ingested \subseteq Radars
    BY DEF Ingested, TypeOK
  <2>2. QED
    BY <2>1, RosterAssumption
<1>12. SUFFICES
         /\ \A k \in 1..Len(t) : t[k].id \in Sharing(c)' /\ t[k].range = Dist[t[k].id][c]
         /\ \A k, l \in 1..Len(t) : k < l => Before(t[k].id, t[l].id, c)'
         /\ \A r \in Sharing(c)' : \/ \E k \in 1..Len(t) : t[k].id = r
                                   \/ Len(t) = N /\ Before(t[N].id, r, c)'
  BY <1>3, <1>7 DEF Ranked, Placed
<1> HIDE DEF RosterInv, v, e
<1>13. e.id = x /\ e.range = v
  BY DEF e
<1>14. CASE i > N
  <2>1. t = s /\ Len(s) = N /\ Len(s) \in 1..Len(s) /\ s[N].range <= v
    BY <1>1, <1>2, <1>6, <1>7, <1>14
  <2>2. Before(s[N].id, x, c)'
    BY <1>8, <1>10, <2>1
  <2>3. \A k, l \in 1..Len(t) : k < l => Before(t[k].id, t[l].id, c)'
    BY <1>8, <1>10, <2>1
  <2>4. ASSUME NEW r \in Sharing(c)
        PROVE \/ \E k \in 1..Len(t) : t[k].id = r
              \/ Len(t) = N /\ Before(t[N].id, r, c)'
    BY <1>8, <1>9, <1>10, <2>1
  <2>5. QED
    BY <1>9, <1>10, <2>1, <2>2, <2>3, <2>4
<1>15. CASE i <= N
  <2>1. /\ Len(t) \in Nat /\ i \in 1..Len(t) /\ t[i].id = x /\ t[i].range = v
        /\ Len(s) \in Nat
    BY <1>1, <1>2, <1>7, <1>13, <1>15
  <2>2. ASSUME NEW k \in 1..Len(t), k < i
        PROVE k \in 1..Len(s) /\ t[k] = s[k] /\ Before(t[k].id, x, c)'
    <3>1. k \in 1..Len(s) /\ k \in 1..i - 1 /\ t[k] = s[k]
      BY <1>7, <1>15, <2>1, <2>2
    <3>2. Dist[s[k].id][c] <= v
      BY <1>6, <1>10, <3>1
    <3>3. QED
      BY <1>8, <1>10, <3>1, <3>2
  <2>3. ASSUME NEW k \in 1..Len(t), i < k
        PROVE k - 1 \in i..Len(s) /\ k - 1 \in 1..Len(s) /\ t[k] = s[k - 1] /\ Before(x, t[k].id, c)'
    <3>1. k \in i + 1..Len(t) /\ k - 1 \in i..Len(s) /\ k - 1 \in 1..Len(s)
      BY <1>7, <1>15, <2>1, <2>3
    <3>2. t[k] = s[k - 1]
      BY <1>7, <1>15, <3>1
    <3>3. v < Dist[s[k - 1].id][c]
      BY <1>6, <1>10, <3>1
    <3>4. QED
      BY <1>8, <1>10, <3>1, <3>2, <3>3
  <2>4. ASSUME NEW k \in 1..Len(t)
        PROVE t[k].id \in Sharing(c)' /\ t[k].range = Dist[t[k].id][c]
    <3>1. CASE k = i
      BY <1>9, <2>1, <3>1 DEF v
    <3>2. CASE k < i
      BY <1>9, <1>10, <2>2, <3>2
    <3>3. CASE i < k
      BY <1>9, <1>10, <2>3, <3>3
    <3>4. QED
      BY <1>6, <3>1, <3>2, <3>3
  <2>5. ASSUME NEW k \in 1..Len(t), NEW l \in 1..Len(t), k < l
        PROVE Before(t[k].id, t[l].id, c)'
    <3>1. CASE l = i
      BY <2>1, <2>2, <2>5, <3>1
    <3>2. CASE k = i
      BY <2>1, <2>3, <2>5, <3>2
    <3>3. CASE k < i /\ l < i
      BY <1>8, <1>10, <2>2, <2>5, <3>3
    <3>4. CASE i < k
      <4>1. k - 1 \in 1..Len(s) /\ l - 1 \in 1..Len(s) /\ k - 1 < l - 1
        BY <2>1, <2>3, <2>5, <3>4
      <4>2. t[k] = s[k - 1] /\ t[l] = s[l - 1]
        BY <2>1, <2>3, <2>5, <3>4
      <4>3. Before(s[k - 1].id, s[l - 1].id, c)
        BY <1>10, <4>1
      <4>4. QED
        BY <1>8, <1>10, <4>1, <4>2, <4>3
    <3>5. CASE k < i /\ i < l
      <4>1. k \in 1..Len(s) /\ l - 1 \in 1..Len(s)
        BY <2>1, <2>2, <2>3, <3>5
      <4>2. k \in 1..Len(s) /\ l - 1 \in 1..Len(s) /\ k < l - 1 /\ t[k] = s[k] /\ t[l] = s[l - 1]
        BY <2>1, <2>2, <2>3, <3>5
      <4>3. QED
        BY <1>8, <1>10, <4>2
    <3>6. QED
      BY <2>1, <2>5, <3>1, <3>2, <3>3, <3>4, <3>5
  <2>6. ASSUME Len(t) = N, Len(s) = N
        PROVE  Before(t[N].id, s[N].id, c)' /\ t[N].id \in Ingested \cup {x}
    <3>1. N \in 1..Len(t) /\ N \in 1..Len(s)
      BY <1>1, <2>6
    <3>2. CASE i = N
      <4>1. v < Dist[s[N].id][c]
        BY <1>6, <1>10, <3>1, <3>2, <2>6
      <4>2. QED
        BY <1>8, <1>10, <2>1, <3>1, <3>2, <4>1
    <3>3. CASE i < N
      <4>1. N - 1 \in 1..Len(s) /\ t[N] = s[N - 1] /\ N - 1 < N
        BY <1>1, <2>3, <3>1, <3>3
      <4>2. QED
        BY <1>8, <1>10, <3>1, <4>1
    <3>4. QED
      BY <1>15, <2>1, <1>1, <3>2, <3>3
  <2>7. ASSUME NEW r \in Sharing(c)
        PROVE  \/ \E k \in 1..Len(t) : t[k].id = r
               \/ Len(t) = N /\ Before(t[N].id, r, c)'
    <3>1. CASE \E k \in 1..Len(s) : s[k].id = r
      <4>1. PICK k \in 1..Len(s) : s[k].id = r
        BY <3>1
      <4>2. CASE k < i
        <5>1. k \in 1..Len(t) /\ t[k] = s[k]
          BY <1>7, <1>15, <2>1, <4>2
        <5>2. QED
          BY <4>1, <5>1
      <4>3. CASE i <= k /\ k + 1 <= Len(t)
        <5>1. k + 1 \in 1..Len(t) /\ k + 1 \in i + 1..Len(t) /\ (k + 1) - 1 = k
          BY <2>1, <4>3
        <5>2. t[k + 1] = s[k]
          BY <1>7, <1>15, <5>1
        <5>3. QED
          BY <4>1, <5>1, <5>2
      <4>4. CASE i <= k /\ k + 1 > Len(t)
        <5>1. k = N /\ Len(s) = N /\ Len(t) = N
          BY <1>1, <1>2, <1>7, <1>15, <2>1, <4>4
        <5>2. QED
          BY <2>6, <4>1, <5>1
      <4>5. QED
        BY <2>1, <4>2, <4>3, <4>4
    <3>2. CASE Len(s) = N /\ Before(s[N].id, r, c)
      <4>1. Len(t) = N /\ N \in 1..Len(s)
        BY <1>1, <1>7, <1>15, <3>2
      <4>2. Before(t[N].id, s[N].id, c)' /\ t[N].id \in Ingested \cup {x}
        BY <2>6, <3>2, <4>1
      <4>3. s[N].id \in Ingested /\ r \in Ingested /\ Dist[s[N].id][c] <= Dist[r][c]
        BY <1>9, <1>10, <3>2, <4>1, BeforeOrder DEF RosterInv
      <4>4. CASE t[N].id = x
        <5>1. v < Dist[s[N].id][c] /\ v \in Nat
          BY <1>1, <1>8, <4>2, <4>3, <4>4
        <5>2. v < Dist[r][c]
          BY <1>11, <4>3, <5>1
        <5>3. QED
          BY <1>8, <4>1, <4>3, <4>4, <5>2
      <4>5. CASE t[N].id \in Ingested
        <5>1. Before(t[N].id, s[N].id, c)
          BY <1>8, <4>2, <4>3, <4>5
        <5>2. Before(t[N].id, r, c)
          BY <3>2, <4>3, <4>5, <5>1, BeforeOrder DEF RosterInv
        <5>3. QED
          BY <1>8, <4>1, <4>3, <4>5, <5>2
      <4>6. QED
        BY <4>2, <4>4, <4>5
    <3>3. QED
      BY <1>10, <3>1, <3>2
  <2>8. QED
    BY <1>9, <2>1, <2>4, <2>5, <2>7
<1>16. QED
  BY <1>1, <1>2, <1>6, <1>14, <1>15

\* ... and those of the other cells.
LEMMA IngestRanked ==
  ASSUME RosterInv, NEW x \in Radars, Ingest(x), x \notin Ingested, NEW c \in Cells
  PROVE  Ranked(c)' /\ near'[c] \in Seq(Entry)
<1>1. CASE c \in Box[x]
  BY <1>1, IngestShared
<1>2. CASE c \notin Box[x]
  <2>1. near'[c] = near[c] /\ near[c] \in Seq(Entry) /\ TypeOK /\ OnceInWalk /\ Ranked(c)
    BY <1>2 DEF Ingest, NearestNeighbor, RosterInv, TypeOK
  <2>2. /\ Ingested' = Ingested \cup {x}
        /\ \A p, q \in Ingested : Before(p, q, c)' <=> Before(p, q, c)
    BY <2>1, BeforeNext DEF Ingest
  <2>3. Sharing(c)' = Sharing(c) /\ Sharing(c) \subseteq Ingested
    BY <1>2, <2>2 DEF Sharing
  <2>4. Placed(c)' = Placed(c)
    BY <2>1 DEF Placed
  <2>5. ASSUME NEW r \in Sharing(c), r \notin Placed(c)
        PROVE  (Len(near[c]) = N /\ Before(near[c][N].id, r, c))'
    <3>1. Len(near[c]) = N /\ Before(near[c][N].id, r, c) /\ N \in 1..N
      BY <2>1, <2>5, RosterAssumption DEF Ranked
    <3>2. near[c][N].id \in Ingested /\ r \in Ingested
      BY <2>1, <2>3, <3>1 DEF Ranked
    <3>3. PICK p : p = near[c][N].id
      OBVIOUS
    <3>4. Before(p, r, c)'
      BY <2>2, <3>1, <3>2, <3>3
    <3>5. QED
      BY <2>1, <3>1, <3>3, <3>4
  <2>6. ASSUME NEW k \in 1..Len(near[c]), NEW l \in 1..Len(near[c]), k < l
        PROVE  Before(near[c][k].id, near[c][l].id, c)'
    <3>1. PICK p, q : p = near[c][k].id /\ q = near[c][l].id
      OBVIOUS
    <3>2. p \in Ingested /\ q \in Ingested /\ Before(p, q, c)
      BY <2>1, <2>3, <2>6, <3>1 DEF Ranked
    <3>3. Before(p, q, c)'
      BY <2>2, <3>2
    <3>4. QED
      BY <2>1, <3>1, <3>3
  <2>7. /\ Len(near'[c]) <= N
        /\ \A k \in 1..Len(near'[c]) : /\ near'[c][k].id \in Sharing(c)'
                                       /\ near'[c][k].range = Dist[near'[c][k].id][c]
    BY <2>1, <2>3 DEF Ranked
  <2>8. Ranked(c)'
    BY <2>1, <2>3, <2>4, <2>5, <2>6, <2>7 DEF Ranked
  <2>9. QED
    BY <2>1, <2>8
<1>3. QED
  BY <1>1, <1>2

\* A step that takes no radar in leaves the places as they are.
LEMMA SamePlaces ==
  ASSUME RosterInv, UNCHANGED <<ids, near>>
  PROVE  /\ \A c \in Cells : Ranked(c)' /\ Placed(c)' = Placed(c)
         /\ Ingested' = Ingested
<1>1. ASSUME NEW c \in Cells PROVE Ranked(c)' <=> Ranked(c)
  BY DEF Ranked, Sharing, Placed, Ingested, Before
<1>2. QED
  BY <1>1 DEF RosterInv, Placed, Ingested

\* A pass that forgets begins with nobody.
LEMMA NoPlaces ==
  ASSUME ids' = << >>, near' = [c \in Cells |-> << >>]
  PROVE  /\ \A c \in Cells : Ranked(c)'
         /\ Ingested' = {} /\ ids' \in Seq(Radars) /\ near' \in [Cells -> Seq(Entry)]
         /\ \A i, j \in 1..Len(ids') : ids'[i] = ids'[j] => i = j
<1>1. Len(ids') = 0 /\ ids' \in Seq(Radars) /\ Ingested' = {}
  BY DEF Ingested
<1>2. \A c \in Cells : near'[c] = << >> /\ Len(near'[c]) = 0 /\ near'[c] \in Seq(Entry)
  OBVIOUS
<1>3. near' \in [Cells -> Seq(Entry)]
  BY <1>2
<1>4. ASSUME NEW c \in Cells PROVE Ranked(c)'
  BY <1>1, <1>2, RosterAssumption DEF Ranked, Sharing, Placed
<1>5. QED
  BY <1>1, <1>3, <1>4

\* Every step.
LEMMA RosterNext == RosterInv /\ [Next]_vars => RosterInv'
<1> SUFFICES ASSUME RosterInv, [Next]_vars PROVE RosterInv'
  OBVIOUS
<1> USE RosterAssumption
<1>1. TypeOK /\ OnceInWalk /\ MasksFromPlaces
  BY DEF RosterInv
<1>2. Ingested \subseteq Radars
  BY <1>1 DEF TypeOK, Ingested
<1>3. CASE \E r \in Radars : Tilt(r) \/ RestartStageOne(r)
  <2>1. UNCHANGED passVars
    BY <1>3 DEF Tilt, RestartStageOne, passVars
  <2>2. TypeOK'
    <3>1. PICK r \in Radars : Tilt(r) \/ RestartStageOne(r)
      BY <1>3
    <3>2. CASE Tilt(r)
      <4> SUFFICES /\ tilts' \in [Radars -> 0..Warmup]
                   /\ file' \in [Radars -> 0..History + 1 \cup {NoFile}]
        BY <1>1, <2>1, <3>2 DEF TypeOK, Tilt, passVars
      <4>1. CASE tilts[r] < Warmup /\ tilts' = [tilts EXCEPT ![r] = @ + 1] /\ UNCHANGED file
        <5>1. tilts[r] + 1 \in 0..Warmup
          BY <1>1, <4>1 DEF TypeOK
        <5>2. QED
          BY <1>1, <4>1, <5>1 DEF TypeOK
      <4>2. CASE file' = [file EXCEPT ![r] = 0] /\ UNCHANGED tilts
        <5>1. 0 \in 0..History + 1
          OBVIOUS
        <5>2. QED
          BY <1>1, <4>2, <5>1 DEF TypeOK
      <4>3. QED
        BY <3>2, <4>1, <4>2 DEF Tilt
    <3>3. CASE RestartStageOne(r)
      BY <1>1, <2>1, <3>3 DEF TypeOK, RestartStageOne, passVars
    <3>4. QED
      BY <3>1, <3>2, <3>3
  <2>3. QED
    BY <1>1, <2>1, <2>2, SamePlaces DEF RosterInv, OnceInWalk, MasksFromPlaces, passVars
<1>4. CASE ClockTick
  <2>1. file' \in [Radars -> 0..History + 1 \cup {NoFile}]
    BY <1>1, <1>4 DEF ClockTick, TypeOK
  <2>2. TypeOK'
    BY <1>1, <1>4, <2>1 DEF TypeOK, ClockTick, passVars
  <2>3. QED
    BY <1>1, <1>4, <2>2, SamePlaces DEF RosterInv, OnceInWalk, MasksFromPlaces, ClockTick, passVars
<1>5. CASE StartPass \/ RestartRoster
  <2>1. ids' = << >> /\ near' = [c \in Cells |-> << >>] /\ pc' \in {"walk", "idle"}
    BY <1>5 DEF StartPass, RestartRoster
  <2>2. bits' \in [Radars -> SUBSET Cells] /\ todo' \subseteq Radars
    BY <1>5 DEF StartPass, RestartRoster
  <2>3. TypeOK'
    BY <1>1, <1>5, <2>1, <2>2, NoPlaces DEF TypeOK, StartPass, RestartRoster
  <2>4. OnceInWalk' /\ MasksFromPlaces'
    BY <2>1, NoPlaces DEF OnceInWalk, MasksFromPlaces
  <2>5. QED
    BY <2>1, <2>3, <2>4, NoPlaces DEF RosterInv
<1>6. ASSUME NEW r \in Radars, Ingest(r) PROVE RosterInv'
  <2>1. r \notin Ingested /\ pc = "walk" /\ pc' = "walk" /\ ids' = Append(ids, r)
        /\ todo' = todo \ {r}
    BY <1>1, <1>6 DEF Ingest, OnceInWalk
  <2>2. \A c \in Cells : Ranked(c)' /\ near'[c] \in Seq(Entry)
    BY <1>6, <2>1, IngestRanked
  <2>3. near' \in [Cells -> Seq(Entry)]
    <3>1. near' = [c \in Cells |-> near'[c]]
      BY <1>6 DEF Ingest, NearestNeighbor
    <3>2. QED
      BY <2>2, <3>1
  <2>4. TypeOK'
    BY <1>1, <1>6, <2>1, <2>3 DEF TypeOK, Ingest
  <2>5. MasksFromPlaces'
    BY <2>1 DEF MasksFromPlaces
  <2>6. OnceInWalk'
    <3>1. CASE Cells = {}
      <4>1. Len(ids') = Len(ids) + 1 /\ Len(ids) \in Nat /\ ids'[Len(ids) + 1] = r
            /\ \A i \in 1..Len(ids) : ids'[i] = ids[i]
        BY <1>1, <2>1 DEF TypeOK
      <4>2. 1..Len(ids') = 1..Len(ids) \cup {Len(ids) + 1}
        BY <4>1
      <4>3. QED
        BY <1>1, <2>1, <4>1, <4>2 DEF OnceInWalk, Ingested
    <3>2. CASE Cells # {}
      <4>1. PICK c \in Cells : TRUE
        BY <3>2
      <4>2. /\ Ingested' = Ingested \cup {r}
            /\ \A i, j \in 1..Len(ids') : ids'[i] = ids'[j] => i = j
        BY <1>1, <2>1, <4>1, BeforeNext
      <4>3. QED
        BY <1>1, <2>1, <4>2 DEF OnceInWalk
    <3>3. QED
      BY <3>1, <3>2
  <2>7. QED
    BY <2>2, <2>4, <2>5, <2>6 DEF RosterInv
<1>7. CASE \E r \in Radars : \/ SkipExpired(r) \/ SkipUnreadable(r) \/ WriteMask(r)
                             \/ WriteFails(r) \/ DeleteMask(r) \/ DeleteFails(r)
  <2>1. PICK r \in Radars : \/ SkipExpired(r) \/ SkipUnreadable(r) \/ WriteMask(r)
                            \/ WriteFails(r) \/ DeleteMask(r) \/ DeleteFails(r)
    BY <1>7
  <2>2. UNCHANGED <<pc, ids, near, bits, tilts, file>> /\ todo' = todo \ {r}
        /\ faults' \in 0..MaxFaults
    BY <1>1, <2>1 DEF SkipExpired, SkipUnreadable, WriteMask, WriteFails, DeleteMask, DeleteFails, TypeOK
  <2>3. mask' \in [Radars -> {NoMask} \cup SUBSET Cells]
    BY <1>1, <2>1 DEF SkipExpired, SkipUnreadable, WriteMask, WriteFails, DeleteMask, DeleteFails, TypeOK
  <2>4. TypeOK'
    BY <1>1, <2>2, <2>3 DEF TypeOK
  <2>5. OnceInWalk' /\ MasksFromPlaces'
    BY <1>1, <2>2, SamePlaces DEF OnceInWalk, MasksFromPlaces
  <2>6. QED
    BY <2>2, <2>4, <2>5, SamePlaces DEF RosterInv
<1>8. CASE GenerateMasks
  <2>1. UNCHANGED <<tilts, file, mask, ids, near, faults>> /\ pc' = "write" /\ todo' = Ingested
        /\ bits' = [r \in Radars |-> {c \in Cells : r \in Placed(c)}]
    BY <1>8 DEF GenerateMasks, Placed
  <2>2. TypeOK'
    BY <1>1, <1>2, <2>1 DEF TypeOK
  <2>3. MasksFromPlaces'
    BY <2>1, SamePlaces DEF MasksFromPlaces
  <2>4. QED
    BY <1>1, <2>1, <2>2, <2>3, SamePlaces DEF RosterInv, OnceInWalk
<1>9. CASE WalkMasks \/ FinishPass
  <2>1. UNCHANGED <<tilts, file, mask, ids, near, bits, faults>> /\ todo' \subseteq Radars
        /\ ((pc' = "delete" /\ pc = "write") \/ pc' = "idle")
    BY <1>1, <1>9 DEF WalkMasks, FinishPass, TypeOK
  <2>2. TypeOK'
    BY <1>1, <2>1 DEF TypeOK
  <2>3. OnceInWalk' /\ MasksFromPlaces'
    BY <1>1, <2>1, SamePlaces DEF OnceInWalk, MasksFromPlaces
  <2>4. QED
    BY <2>1, <2>2, <2>3, SamePlaces DEF RosterInv
<1>10. CASE UNCHANGED vars
  BY <1>1, <1>10, SamePlaces DEF vars, passVars, RosterInv, TypeOK, OnceInWalk, MasksFromPlaces
<1>11. QED
  BY <1>3, <1>4, <1>5, <1>6, <1>7, <1>8, <1>9, <1>10 DEF Next, PassStep

\* The invariant holds.
LEMMA RosterInvariant == Spec => []RosterInv
  BY RosterInit, RosterNext, PTL DEF Spec

-----------------------------------------------------------------------------
\* The radars before the one at place k are those at the places before k.
LEMMA NearerOfPlaced ==
  ASSUME RosterInv, NEW c \in Cells, NEW k \in 1..Len(near[c])
  PROVE  Cardinality(Nearer(near[c][k].id, c)) < N
<1> DEFINE s == near[c]
           r == s[k].id
           T == {s[j].id : j \in 1..k - 1}
           f == [j \in 1..k - 1 |-> s[j].id]
<1>1. Ranked(c) /\ TypeOK /\ OnceInWalk /\ Len(s) \in Nat /\ k \in Nat /\ k <= N
  <2>1. Ranked(c) /\ TypeOK /\ OnceInWalk /\ s \in Seq(Entry)
    BY DEF RosterInv, TypeOK
  <2>2. Len(s) \in Nat /\ N \in Nat
    BY <2>1, RosterAssumption
  <2>3. Len(s) <= N
    BY <2>1 DEF Ranked
  <2>4. QED
    BY <2>1, <2>2, <2>3
<1>2. ASSUME NEW j \in 1..Len(s) PROVE s[j].id \in Ingested
  BY <1>1 DEF Ranked, Sharing
<1>3. ASSUME NEW q \in Nearer(r, c) PROVE q \in T
  <2>1. q \in Sharing(c) /\ q \in Ingested /\ Before(q, r, c) /\ r \in Ingested
    BY <1>2 DEF Nearer, Sharing
  <2>2. ~ Before(r, q, c) /\ r # q
    BY <1>1, <2>1, BeforeOrder
  <2>3. CASE \E j \in 1..Len(s) : s[j].id = q
    <3>1. PICK j \in 1..Len(s) : s[j].id = q
      BY <2>3
    <3>2. ~ k < j /\ j # k
      BY <1>1, <2>2, <3>1 DEF Ranked
    <3>3. j \in 1..k - 1
      BY <1>1, <3>2
    <3>4. QED
      BY <3>1, <3>3
  <2>4. CASE Len(s) = N /\ Before(s[N].id, q, c)
    <3>1. N \in 1..Len(s) /\ s[N].id \in Ingested
      BY <1>1, <1>2, <2>4, RosterAssumption
    <3>2. r = s[N].id \/ Before(r, s[N].id, c)
      BY <1>1, <2>4, <3>1 DEF Ranked
    <3>3. QED
      BY <1>1, <2>1, <2>2, <2>4, <3>1, <3>2, BeforeOrder
  <2>5. QED
    BY <1>1, <2>1, <2>3, <2>4 DEF Ranked, Placed
<1>4. f \in Surjection(1..k - 1, T)
  BY DEF Surjection
<1>5. IsFiniteSet(1..k - 1) /\ Cardinality(1..k - 1) = k - 1
  <2>1. k - 1 \in Int /\ 1 \in Int /\ (1 > k - 1 => k - 1 = 0) /\ k - 1 - 1 + 1 = k - 1
    BY <1>1
  <2>2. QED
    BY <2>1, FS_Interval
<1>6. IsFiniteSet(T) /\ Cardinality(T) <= k - 1
  BY <1>4, <1>5, FS_Surjection
<1>7. Nearer(r, c) \in SUBSET T
  BY <1>3
<1>8. IsFiniteSet(Nearer(r, c)) /\ Cardinality(Nearer(r, c)) <= Cardinality(T)
  BY <1>6, <1>7, FS_Subset
<1>9. Cardinality(Nearer(r, c)) \in Nat /\ Cardinality(T) \in Nat /\ N \in Nat
  BY <1>6, <1>8, FS_CardinalityType, RosterAssumption
<1>10. QED
  BY <1>1, <1>6, <1>8, <1>9

\* Before a radar that has no place there are N others.
LEMMA NearerOfOthers ==
  ASSUME RosterInv, NEW c \in Cells, NEW r \in Sharing(c), r \notin Placed(c)
  PROVE  ~ Cardinality(Nearer(r, c)) < N
<1> DEFINE s == near[c]
           f == [j \in 1..N |-> s[j].id]
<1>1. Ranked(c) /\ TypeOK /\ OnceInWalk /\ N \in Nat \ {0}
  BY RosterAssumption DEF RosterInv
<1>2. Len(s) = N /\ Before(s[N].id, r, c)
  BY <1>1 DEF Ranked
<1>3. ASSUME NEW j \in 1..N
      PROVE  s[j].id \in Sharing(c) /\ s[j].id \in Ingested /\ r \in Ingested
  BY <1>1, <1>2 DEF Ranked, Sharing
<1>4. ASSUME NEW j \in 1..N PROVE s[j].id \in Nearer(r, c)
  <2>1. N \in 1..N /\ (j = N \/ j < N)
    BY <1>1
  <2>2. j < N => Before(s[j].id, s[N].id, c)
    BY <1>1, <1>2, <2>1 DEF Ranked
  <2>3. Before(s[j].id, r, c)
    BY <1>1, <1>2, <1>3, <2>1, <2>2, BeforeOrder
  <2>4. QED
    BY <1>3, <2>3 DEF Nearer, Sharing
<1>5. ASSUME NEW i \in 1..N, NEW j \in 1..N, s[i].id = s[j].id PROVE i = j
  <2>1. ~ Before(s[i].id, s[i].id, c)
    BY <1>1, <1>3, BeforeOrder
  <2>2. ~ i < j /\ ~ j < i
    BY <1>1, <1>2, <1>5, <2>1 DEF Ranked
  <2>3. QED
    BY <1>1, <2>2
<1>6. f \in Injection(1..N, Nearer(r, c))
  BY <1>4, <1>5 DEF Injection, IsInjective
<1>7. IsFiniteSet(Nearer(r, c))
  <2>1. Nearer(r, c) \in SUBSET Radars
    BY <1>1 DEF Nearer, Ingested, TypeOK
  <2>2. QED
    BY <2>1, RosterAssumption, FS_Subset
<1>8. Cardinality(1..N) = N /\ Cardinality(1..N) <= Cardinality(Nearer(r, c))
  BY <1>1, <1>6, <1>7, FS_Injection, FS_Interval
<1>9. Cardinality(Nearer(r, c)) \in Nat
  BY <1>7, FS_CardinalityType
<1>10. QED
  BY <1>1, <1>8, <1>9

\* Masks made from ranked places have the nearest radars.
LEMMA InvMasksNearest == RosterInv => MasksNearest
<1> SUFFICES ASSUME RosterInv, pc \in {"write", "delete"}, NEW r \in Ingested
             PROVE  bits[r] = {c \in Box[r] : Cardinality(Nearer(r, c)) < N}
  BY DEF MasksNearest
<1>1. r \in Radars /\ Box[r] \subseteq Cells
  BY RosterAssumption DEF RosterInv, TypeOK, Ingested
<1>2. bits[r] = {c \in Cells : r \in Placed(c)}
  BY <1>1 DEF RosterInv, MasksFromPlaces
<1>3. ASSUME NEW c \in Cells, r \in Placed(c)
      PROVE  c \in Box[r] /\ Cardinality(Nearer(r, c)) < N
  <2>1. PICK k \in 1..Len(near[c]) : r = near[c][k].id
    BY <1>3 DEF Placed
  <2>2. r \in Sharing(c)
    BY <2>1 DEF RosterInv, Ranked
  <2>3. QED
    BY <2>1, <2>2, NearerOfPlaced DEF Sharing
<1>4. ASSUME NEW c \in Box[r], Cardinality(Nearer(r, c)) < N PROVE c \in Cells /\ r \in Placed(c)
  BY <1>1, <1>4, NearerOfOthers DEF Sharing
<1>5. QED
  BY <1>2, <1>3, <1>4

\* The state of the stage ones' files and of the roster's pass is what its
\* declarations say, its tables included.
THEOREM RosterTypeCorrect == Spec => []TypeOK
<1>1. RosterInv => TypeOK
  BY DEF RosterInv
<1>2. QED
  BY <1>1, RosterInvariant, PTL

\* Whatever the order of the walk, which radars are left out and where the
\* roster was stopped before, nearestNeighbor()'s insertions give the masks of
\* the N nearest, equal ranges in the order of the walk.
THEOREM MasksStayNearest == Spec => []MasksNearest
  BY RosterInvariant, InvMasksNearest, PTL

\* A cell in the box of some radar that was taken in is in a mask of such a
\* radar: the roster makes no hole in the merged product.
THEOREM NoHole ==
  Spec => [](pc \in {"write", "delete"} =>
               \A r \in Ingested : \A c \in Box[r] : \E q \in Ingested : c \in bits[q])
<1> DEFINE Covered == pc \in {"write", "delete"} =>
             \A r \in Ingested : \A c \in Box[r] : \E q \in Ingested : c \in bits[q]
<1>1. RosterInv => Covered
  <2> SUFFICES ASSUME RosterInv, pc \in {"write", "delete"}, NEW r \in Ingested, NEW c \in Box[r]
               PROVE  \E q \in Ingested : c \in bits[q]
    OBVIOUS
  <2>1. Ingested \subseteq Radars /\ c \in Cells
    BY RosterAssumption DEF RosterInv, TypeOK, Ingested
  <2>2. r \in Sharing(c) /\ Ranked(c)
    BY <2>1 DEF RosterInv, Sharing
  <2>3. \E k \in 1..Len(near[c]) : TRUE
    <3>1. CASE r \in Placed(c)
      BY <3>1 DEF Placed
    <3>2. CASE Len(near[c]) = N
      <4>1. 1 \in 1..Len(near[c])
        BY <3>2, RosterAssumption
      <4>2. QED
        BY <4>1
    <3>3. QED
      BY <2>2, <3>1, <3>2 DEF Ranked
  <2>4. PICK k \in 1..Len(near[c]) : TRUE
    BY <2>3
  <2>5. near[c][k].id \in Ingested /\ near[c][k].id \in Placed(c)
    BY <2>2 DEF Ranked, Sharing, Placed
  <2>6. c \in bits[near[c][k].id]
    BY <2>1, <2>5 DEF RosterInv, MasksFromPlaces
  <2>7. QED
    BY <2>5, <2>6
<1>2. QED
  BY <1>1, RosterInvariant, PTL
===============================================================================
