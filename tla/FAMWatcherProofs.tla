---------------------------- MODULE FAMWatcherProofs ----------------------------
(***************************************************************************)
(* FAMWatcher for any number of inputs, directories, incarnations, files   *)
(* and notifications: its type; that a watch which takes itself for        *)
(* connected is, or will hear that it is not; and that what is written     *)
(* into a watched directory reaches its input once and in order, and       *)
(* completely but for what was completed when the kernel's queue was full. *)
(* For the last two every input needs a directory of its own: with two on  *)
(* one descriptor, addFAMEvent serves and disconnects only the first.      *)
(***************************************************************************)
EXTENDS FAMWatcher, SequenceTheorems, FiniteSetTheorems, WellFoundedInduction, TLAPS

OwnDirectories == \A i, j \in Inputs : DirOf[i] = DirOf[j] => i = j

-----------------------------------------------------------------------------
(* Gather.  Induction over its recursive function is done with sets: one   *)
(* that has 0 and with each index the next has all of them.                *)

\* A set of indexes has a least one.
LEMMA LeastIndex ==
  ASSUME NEW n \in Nat, NEW T \in SUBSET (1..n), T # {}
  PROVE  \E m \in T : \A k \in T : m <= k
<1> DEFINE S == 1..n
           Upto == {1..k : k \in T}
<1>1. IsFiniteSet(S)
  BY FS_Interval
<1>2. Upto \subseteq FiniteSubsetsOf(S) /\ Upto # {}
  <2>1. ASSUME NEW k \in T PROVE 1..k \in SUBSET S
    OBVIOUS
  <2>2. FiniteSubsetsOf(S) = SUBSET S
    BY <1>1, FS_FiniteSubsetsOfFinite
  <2>3. ASSUME NEW X \in Upto PROVE X \in SUBSET S
    <3>1. PICK k \in T : X = 1..k
      OBVIOUS
    <3>2. QED
      BY <2>1, <3>1
  <2>4. PICK k \in T : TRUE
    OBVIOUS
  <2>5. 1..k \in Upto
    OBVIOUS
  <2>6. QED
    BY <2>2, <2>3, <2>5
<1>3. PICK X \in Upto : \A Y \in Upto : <<Y, X>> \notin StrictSubsetOrdering(S)
  BY <1>2, FS_StrictSubsetOrderingWellFounded, WFMin
<1>4. PICK m \in T : X = 1..m
  OBVIOUS
<1>5. ASSUME NEW k \in T, k < m PROVE FALSE
  <2>1. 1..k \in SUBSET S /\ 1..m \in SUBSET S /\ 1..k \subseteq 1..m /\ m \in 1..m /\ m \notin 1..k
    BY <1>5
  <2>2. <<1..k, 1..m>> \in StrictSubsetOrdering(S)
    BY <2>1 DEF StrictSubsetOrdering
  <2>3. QED
    BY <1>3, <1>4, <2>2
<1>6. QED
  BY <1>5

\* Induction up to n, for a set.
LEMMA CountUp ==
  ASSUME NEW n \in Nat, NEW T, 0 \in T, \A k \in 0..n : k \in T /\ k < n => k + 1 \in T
  PROVE  n \in T /\ \A k \in 0..n : k \in T
<1> DEFINE M == {k \in 1..n : k \notin T}
<1> SUFFICES ASSUME M # {} PROVE FALSE
  OBVIOUS
<1>1. PICK m \in M : \A k \in M : m <= k
  BY LeastIndex
<1>2. m \in 1..n /\ m \notin T
  OBVIOUS
<1>3. m - 1 \in 0..n /\ m - 1 < n /\ (m - 1) + 1 = m
  BY <1>2
<1>4. m - 1 \notin M
  BY <1>1, <1>2
<1>5. m - 1 \in T
  BY <1>2, <1>3, <1>4
<1>6. QED
  BY <1>2, <1>3, <1>5

\* What the recursive function of Gather is.
Step(s, g, up, n) ==
  IF n = 0 THEN <<>>
  ELSE IF s[n] \in DOMAIN g THEN Append(up[n - 1], g[s[n]]) ELSE up[n - 1]
IsRun(s, g, n, up) == up = [k \in 0..n |-> Step(s, g, up, k)]

LEMMA GatherRun ==
  ASSUME NEW s, NEW g, Len(s) \in Nat
  PROVE  \E up : IsRun(s, g, Len(s), up) /\ Gather(s, g) = up[Len(s)]
<1> DEFINE L == Len(s)
           T == {n \in 0..L : \E up : IsRun(s, g, n, up)}
<1>1. 0 \in T
  <2> DEFINE u == [k \in 0..0 |-> <<>>]
  <2>1. IsRun(s, g, 0, u)
    BY DEF IsRun, Step
  <2>2. QED
    BY <2>1
<1>2. ASSUME NEW n \in 0..L, n \in T, n < L PROVE n + 1 \in T
  <2>1. PICK up : IsRun(s, g, n, up)
    BY <1>2
  <2> DEFINE w == [k \in 0..n+1 |-> IF k = n + 1 THEN Step(s, g, up, n + 1) ELSE up[k]]
  <2>2. ASSUME NEW k \in 0..n+1 PROVE w[k] = Step(s, g, w, k)
    <3>1. n \in Nat /\ n + 1 - 1 = n /\ n # n + 1
      OBVIOUS
    <3>2. CASE k = n + 1
      <4>1. w[k] = Step(s, g, up, n + 1)
        BY <3>2
      <4>2. w[n] = up[n]
        BY <3>1
      <4> HIDE DEF w
      <4>3. QED
        BY <3>1, <3>2, <4>1, <4>2 DEF Step
    <3>3. CASE k # n + 1
      <4>1. k \in 0..n /\ (k # 0 => k - 1 \in 0..n+1 /\ k - 1 # n + 1)
        BY <3>1, <3>3
      <4>2. w[k] = up[k] /\ (k # 0 => w[k - 1] = up[k - 1])
        BY <3>3, <4>1
      <4>3. up[k] = Step(s, g, up, k)
        BY <2>1, <4>1 DEF IsRun
      <4> HIDE DEF w
      <4>4. QED
        BY <4>2, <4>3 DEF Step
    <3>4. QED
      BY <3>2, <3>3
  <2>3. IsRun(s, g, n + 1, w)
    BY <2>2 DEF IsRun
  <2>4. n + 1 \in 0..L
    BY <1>2
  <2>5. QED
    BY <2>3, <2>4
<1>3. \A k \in 0..L : k \in T
  <2> HIDE DEF T
  <2>1. QED
    BY <1>1, <1>2, CountUp
<1>4. \E up : IsRun(s, g, L, up)
  BY <1>3
<1> DEFINE r == CHOOSE up : IsRun(s, g, L, up)
<1>5. IsRun(s, g, L, r)
  <2> HIDE DEF L
  <2>1. QED
    BY <1>4
<1>6. Gather(s, g) = r[Len(s)]
  BY DEF Gather, IsRun, Step
<1>7. QED
  BY <1>5, <1>6

\* A run, step by step.
LEMMA RunSteps ==
  ASSUME NEW s, NEW g, NEW n \in Nat, NEW up, IsRun(s, g, n, up)
  PROVE  \A k \in 0..n : k < n =>
           /\ k + 1 \in 0..n
           /\ up[k + 1] = IF s[k + 1] \in DOMAIN g THEN Append(up[k], g[s[k + 1]]) ELSE up[k]
<1>1. \A k \in 0..n : up[k] = Step(s, g, up, k)
  BY DEF IsRun
<1>2. ASSUME NEW k \in 0..n, k < n
      PROVE  /\ k + 1 \in 0..n
             /\ up[k + 1] = IF s[k + 1] \in DOMAIN g THEN Append(up[k], g[s[k + 1]]) ELSE up[k]
  <2>1. k + 1 \in 0..n /\ k + 1 - 1 = k /\ k + 1 # 0
    BY <1>2
  <2>2. up[k + 1] = Step(s, g, up, k + 1)
    BY <1>1, <2>1
  <2>3. QED
    BY <2>1, <2>2 DEF Step
<1>3. QED
  BY <1>2

\* g takes what it knows to V.
Into(g, V) == \A x \in DOMAIN g : g[x] \in V

LEMMA GatherEmpty == ASSUME NEW g PROVE Gather(<<>>, g) = <<>>
<1>1. Len(<<>>) = 0
  OBVIOUS
<1>2. PICK up : IsRun(<<>>, g, 0, up) /\ Gather(<<>>, g) = up[0]
  BY <1>1, GatherRun
<1>3. QED
  BY <1>2 DEF IsRun, Step

LEMMA GatherType ==
  ASSUME NEW s, NEW g, NEW V, Len(s) \in Nat, Into(g, V)
  PROVE  Gather(s, g) \in Seq(V)
<1>1. PICK up : IsRun(s, g, Len(s), up) /\ Gather(s, g) = up[Len(s)]
  BY GatherRun
<1> DEFINE T == {k \in 0..Len(s) : up[k] \in Seq(V)}
<1>2. 0 \in T
  <2>1. 0 \in 0..Len(s) /\ up[0] = Step(s, g, up, 0)
    BY <1>1 DEF IsRun
  <2>2. up[0] \in Seq(V)
    BY <2>1 DEF Step
  <2>3. QED
    BY <2>1, <2>2
<1>3. ASSUME NEW k \in 0..Len(s), k \in T, k < Len(s) PROVE k + 1 \in T
  <2>1. k + 1 \in 0..Len(s)
    BY <1>3
  <2>2. up[k + 1] = IF s[k + 1] \in DOMAIN g THEN Append(up[k], g[s[k + 1]]) ELSE up[k]
    BY <1>1, <1>3, RunSteps
  <2>3. up[k] \in Seq(V)
    BY <1>3
  <2>4. up[k + 1] \in Seq(V)
    BY <2>2, <2>3 DEF Into
  <2>5. QED
    BY <2>1, <2>4
<1>4. Len(s) \in T
  <2> HIDE DEF T
  <2>1. QED
    BY <1>2, <1>3, CountUp
<1>5. QED
  BY <1>1, <1>4

LEMMA GatherAppend ==
  ASSUME NEW X, NEW s \in Seq(X), NEW x \in X, NEW g
  PROVE  Gather(Append(s, x), g) =
           IF x \in DOMAIN g THEN Append(Gather(s, g), g[x]) ELSE Gather(s, g)
<1>1. PICK L \in Nat : L = Len(s)
  OBVIOUS
<1>2. PICK a : a = Append(s, x)
  OBVIOUS
<1>3. Len(a) = L + 1 /\ a[L + 1] = x /\ \A k \in 1..L : a[k] = s[k]
  BY <1>1, <1>2
<1>4. PICK up : IsRun(s, g, L, up) /\ Gather(s, g) = up[L]
  BY <1>1, GatherRun
<1>5. PICK w : IsRun(a, g, L + 1, w) /\ Gather(a, g) = w[L + 1]
  BY <1>1, <1>3, GatherRun
<1> DEFINE T == {k \in 0..L : up[k] = w[k]}
<1>6. 0 \in T
  <2>1. 0 \in 0..L /\ 0 \in 0..L+1
    OBVIOUS
  <2>2. up[0] = Step(s, g, up, 0) /\ w[0] = Step(a, g, w, 0)
    BY <1>4, <1>5, <2>1 DEF IsRun
  <2>3. QED
    BY <2>1, <2>2 DEF Step
<1>7. ASSUME NEW k \in 0..L, k \in T, k < L PROVE k + 1 \in T
  <2>1. k + 1 \in 0..L /\ k \in 0..L+1 /\ k < L + 1 /\ k + 1 \in 1..L
    BY <1>7
  <2>2. up[k + 1] = IF s[k + 1] \in DOMAIN g THEN Append(up[k], g[s[k + 1]]) ELSE up[k]
    BY <1>4, <1>7, RunSteps
  <2>3. w[k + 1] = IF a[k + 1] \in DOMAIN g THEN Append(w[k], g[a[k + 1]]) ELSE w[k]
    BY <1>5, <2>1, RunSteps
  <2>4. up[k + 1] = w[k + 1]
    BY <1>3, <1>7, <2>1, <2>2, <2>3
  <2>5. QED
    BY <2>1, <2>4
<1>8. up[L] = w[L]
  <2>1. L \in T
    <3> HIDE DEF T
    <3>1. QED
      BY <1>6, <1>7, CountUp
  <2>2. QED
    BY <2>1
<1>9. w[L + 1] = IF x \in DOMAIN g THEN Append(w[L], g[x]) ELSE w[L]
  <2>1. L \in 0..L+1 /\ L < L + 1
    OBVIOUS
  <2>2. w[L + 1] = IF a[L + 1] \in DOMAIN g THEN Append(w[L], g[a[L + 1]]) ELSE w[L]
    BY <1>5, <2>1, RunSteps
  <2>3. QED
    BY <1>3, <2>2
<1>10. QED
  BY <1>2, <1>4, <1>5, <1>8, <1>9

\* One element more of a sequence.
LEMMA FirstMore ==
  ASSUME NEW X, NEW t \in Seq(X), NEW n \in 0..Len(t), n < Len(t)
  PROVE  /\ n + 1 \in 0..Len(t) /\ t[n + 1] \in X
         /\ SubSeq(t, 1, n) \in Seq(X)
         /\ SubSeq(t, 1, n + 1) = Append(SubSeq(t, 1, n), t[n + 1])
<1>1. n + 1 \in 1..Len(t) /\ n + 1 \in 0..Len(t) /\ 1 \in 1..Len(t) /\ n + 1 - 1 = n
  OBVIOUS
<1>2. SubSeq(t, 1, n + 1) = SubSeq(t, 1, n) \o <<t[n + 1]>>
  BY <1>1, SubSeqRecursiveSecond
<1>3. t[n + 1] \in X /\ SubSeq(t, 1, n) \in Seq(X)
  BY <1>1
<1>4. QED
  BY <1>1, <1>2, <1>3, AppendIsConcat

LEMMA GatherConcat ==
  ASSUME NEW X, NEW s \in Seq(X), NEW t \in Seq(X), NEW g, NEW V, Into(g, V)
  PROVE  Gather(s \o t, g) = Gather(s, g) \o Gather(t, g)
<1> DEFINE u(n) == SubSeq(t, 1, n)
           T == {n \in 0..Len(t) : Gather(s \o u(n), g) = Gather(s, g) \o Gather(u(n), g)}
<1>1. Len(t) \in Nat /\ \A n \in 0..Len(t) : u(n) \in Seq(X)
  OBVIOUS
<1>2. 0 \in T
  <2>1. u(0) = <<>> /\ s \o <<>> = s /\ 0 \in 0..Len(t)
    OBVIOUS
  <2>2. PICK a \in Seq(V) : a = Gather(s, g)
    BY GatherType
  <2>3. a \o <<>> = a
    OBVIOUS
  <2>4. Gather(s \o u(0), g) = Gather(s, g) \o Gather(u(0), g)
    BY <2>1, <2>2, <2>3, GatherEmpty
  <2>5. QED
    BY <2>1, <2>4
<1>3. ASSUME NEW n \in 0..Len(t), n \in T, n < Len(t) PROVE n + 1 \in T
  <2>1. PICK x \in X : x = t[n + 1]
    BY <1>3, FirstMore
  <2>2. n + 1 \in 0..Len(t) /\ u(n + 1) = Append(u(n), x) /\ u(n) \in Seq(X)
    BY <1>3, <2>1, FirstMore
  <2>3. PICK p \in Seq(X) : p = u(n)
    BY <2>2
  <2>4. s \o Append(p, x) = Append(s \o p, x) /\ s \o p \in Seq(X)
    OBVIOUS
  <2>5. PICK a \in Seq(V) : a = Gather(s, g)
    BY GatherType
  <2>6. PICK b \in Seq(V) : b = Gather(p, g)
    BY GatherType
  <2>7. Gather(s \o p, g) = a \o b
    BY <1>3, <2>3, <2>5, <2>6
  <2>8. Gather(s \o Append(p, x), g) = IF x \in DOMAIN g THEN Append(a \o b, g[x]) ELSE a \o b
    <3>1. PICK q \in Seq(X) : q = s \o p
      BY <2>4
    <3>2. Gather(Append(q, x), g) = IF x \in DOMAIN g THEN Append(Gather(q, g), g[x]) ELSE Gather(q, g)
      BY GatherAppend
    <3>3. QED
      BY <2>4, <2>7, <3>1, <3>2
  <2>9. Gather(Append(p, x), g) = IF x \in DOMAIN g THEN Append(b, g[x]) ELSE b
    BY <2>6, GatherAppend
  <2>10. ASSUME x \in DOMAIN g PROVE Append(a \o b, g[x]) = a \o Append(b, g[x])
    <3>1. PICK v \in V : v = g[x]
      BY <2>10 DEF Into
    <3>2. Append(b, v) = b \o <<v>> /\ Append(a \o b, v) = (a \o b) \o <<v>> /\ <<v>> \in Seq(V)
      BY AppendIsConcat
    <3>3. (a \o b) \o <<v>> = a \o (b \o <<v>>)
      BY <3>2, ConcatAssociative, SMTT(60)
    <3>4. QED
      BY <3>1, <3>2, <3>3
  <2>11. Gather(s \o Append(p, x), g) = a \o Gather(Append(p, x), g)
    BY <2>8, <2>9, <2>10
  <2>12. QED
    BY <2>2, <2>3, <2>5, <2>11
<1>4. Len(t) \in T
  <2> HIDE DEF T
  <2>1. QED
    BY <1>1, <1>2, <1>3, CountUp
<1>5. u(Len(t)) = t
  BY SubSeqFull
<1>6. QED
  BY <1>4, <1>5

\* Gathering twice is gathering once.
LEMMA GatherGather ==
  ASSUME NEW X, NEW t \in Seq(X), NEW g, NEW V, Into(g, V), NEW h, NEW k, NEW W, Into(h, W),
         \A x \in X : /\ x \in DOMAIN k <=> x \in DOMAIN g /\ g[x] \in DOMAIN h
                      /\ x \in DOMAIN k => k[x] = h[g[x]]
  PROVE  Gather(Gather(t, g), h) = Gather(t, k)
<1> DEFINE u(n) == SubSeq(t, 1, n)
           T == {n \in 0..Len(t) : Gather(Gather(u(n), g), h) = Gather(u(n), k)}
<1>1. Len(t) \in Nat /\ \A n \in 0..Len(t) : u(n) \in Seq(X)
  OBVIOUS
<1>2. 0 \in T
  <2>1. u(0) = <<>> /\ 0 \in 0..Len(t)
    OBVIOUS
  <2>2. Gather(Gather(u(0), g), h) = Gather(u(0), k)
    BY <2>1, GatherEmpty
  <2>3. QED
    BY <2>1, <2>2
<1>3. ASSUME NEW n \in 0..Len(t), n \in T, n < Len(t) PROVE n + 1 \in T
  <2>1. PICK x \in X : x = t[n + 1]
    BY <1>3, FirstMore
  <2>2. n + 1 \in 0..Len(t) /\ u(n + 1) = Append(u(n), x) /\ u(n) \in Seq(X)
    BY <1>3, <2>1, FirstMore
  <2>3. PICK p \in Seq(X) : p = u(n)
    BY <2>2
  <2>4. PICK b \in Seq(V) : b = Gather(p, g)
    BY GatherType
  <2>5. Gather(b, h) = Gather(p, k)
    BY <1>3, <2>3, <2>4
  <2>6. Gather(Append(p, x), g) = IF x \in DOMAIN g THEN Append(b, g[x]) ELSE b
    BY <2>4, GatherAppend
  <2>7. Gather(Append(p, x), k) = IF x \in DOMAIN k THEN Append(Gather(p, k), k[x]) ELSE Gather(p, k)
    BY GatherAppend
  <2>8. x \in DOMAIN g => Gather(Append(b, g[x]), h)
              = IF g[x] \in DOMAIN h THEN Append(Gather(b, h), h[g[x]]) ELSE Gather(b, h)
    BY GatherAppend DEF Into
  <2>9. Gather(Gather(Append(p, x), g), h) = Gather(Append(p, x), k)
    BY <2>5, <2>6, <2>7, <2>8
  <2>10. QED
    BY <2>2, <2>3, <2>9
<1>4. Len(t) \in T
  <2> HIDE DEF T
  <2>1. QED
    BY <1>1, <1>2, <1>3, CountUp
<1>5. u(Len(t)) = t
  BY SubSeqFull
<1>6. QED
  BY <1>4, <1>5
-----------------------------------------------------------------------------
(* The type of the state *)

Events == [input : Inputs, kind : {"file", "ignored"}, file : Files \cup {"none"}]

\* TypeOK with the sequences' own types; inputs remain while they are
\* attached, a watch is on the directory of its input, and what is there was
\* made.
TypeInv ==
  /\ archive \in BOOLEAN /\ pc \in Pcs /\ attached \in 0..NumInputs
  /\ pc \in {"scan", "watch"} => attached < NumInputs
  /\ wid \in [Inputs -> WDs \cup {NoWatch}] /\ due \in [Inputs -> BOOLEAN]
  /\ \A i \in Inputs : wid[i] # NoWatch => wid[i][1] = DirOf[i]
  /\ scanned \in [Inputs -> SUBSET Files]
  /\ gen \in [Dirs -> Nat] /\ alive \subseteq Dirs
  /\ \A d \in Dirs : gen[d] <= MaxGen[d]
  /\ \A d \in alive : gen[d] >= 1
  /\ file \in [Files -> [state : FileStates, wd : WDs \cup {NoWatch}]]
  /\ armed \subseteq WDs /\ dropped \subseteq WDs
  /\ kq \in Seq(KernelEvents) /\ Len(kq) <= KernelMax
  /\ written \in [Dirs -> Seq(Writings)]
  /\ events \in Seq(Events) /\ handled \in Seq(Events)

\* A batch and the rest are the queue.
LEMMA BatchAndRest ==
  ASSUME NEW X, NEW s \in Seq(X)
  PROVE  /\ Batch(s) \in Seq(X) /\ Rest(s) \in Seq(X)
         /\ s = Batch(s) \o Rest(s)
<1>1. PICK n \in 0..Len(s) : n = BatchSize(s)
  BY WatcherAssumption DEF BatchSize
<1>2. Batch(s) = SubSeq(s, 1, n) /\ Rest(s) = SubSeq(s, n + 1, Len(s))
  BY <1>1 DEF Batch, Rest
<1>3. SubSeq(s, 1, n) \in Seq(X) /\ SubSeq(s, n + 1, Len(s)) \in Seq(X)
  OBVIOUS
<1>4. SubSeq(s, 1, n) \o SubSeq(s, n + 1, Len(s)) = SubSeq(s, 1, Len(s))
  <2>1. 1 \in 1..Len(s)+1 /\ n \in 1-1..Len(s) /\ Len(s) \in n..Len(s)
    OBVIOUS
  <2>2. QED
    BY <2>1, ConcatAdjacentSubSeq
<1>5. QED
  BY <1>2, <1>3, <1>4, SubSeqFull

\* A directory that is there has a descriptor of its own.
LEMMA WdOK ==
  ASSUME TypeInv, NEW d \in alive
  PROVE  Wd(d) \in WDs /\ Wd(d)[1] = d /\ Wd(d)[2] = gen[d]
<1>1. d \in Dirs /\ MaxGen[d] \in Nat \ {0} /\ gen[d] \in 1..MaxGen[d]
  BY FAMAssumption DEF TypeInv
<1>2. Wd(d) \in {d} \X (1..MaxGen[d])
  BY <1>1 DEF Wd
<1>3. QED
  BY <1>1, <1>2 DEF WDs, Wd

\* The descriptor -1 is none.
LEMMA NoWatchIsNone == NoWatch \notin WDs
<1> SUFFICES ASSUME NEW d \in Dirs, NoWatch \in {d} \X (1..MaxGen[d]) PROVE FALSE
  BY DEF WDs
<1>1. PICK a \in {d}, b \in 1..MaxGen[d] : NoWatch = <<a, b>>
  OBVIOUS
<1>2. QED
  BY <1>1 DEF NoWatch

\* The kernel's queue keeps what it has and gets at most the notification.
LEMMA NotifyOK ==
  ASSUME TypeInv, NEW wd, NEW kind \in {"create", "file", "ignored"},
         NEW f \in Files \cup {"none"}, Notify(wd, kind, f)
  PROVE  /\ kq' \in Seq(KernelEvents) /\ Len(kq') <= KernelMax
         /\ \A j \in 1..Len(kq) : j \in 1..Len(kq') /\ kq'[j] = kq[j]
         /\ \/ kq' = kq /\ ~ (wd \in armed /\ Len(kq) # KernelMax)
            \/ \E k \in KernelEvents :
                 /\ k = [wd |-> wd, kind |-> kind, file |-> f]
                 /\ kq' = Append(kq, k) /\ kq' # kq /\ wd \in armed
                 /\ Len(kq') = Len(kq) + 1 /\ kq'[Len(kq) + 1] = k
<1>1. KernelMax \in Nat /\ kq \in Seq(KernelEvents) /\ Len(kq) <= KernelMax /\ armed \subseteq WDs
  BY FAMAssumption DEF TypeInv
<1>2. CASE wd \in armed /\ Len(kq) < KernelMax
  <2>1. PICK k : k = [wd |-> wd, kind |-> kind, file |-> f]
    OBVIOUS
  <2>2. k \in KernelEvents
    BY <1>1, <1>2, <2>1 DEF KernelEvents
  <2>3. kq' = Append(kq, k)
    BY <1>2, <2>1 DEF Notify
  <2>4. /\ kq' \in Seq(KernelEvents) /\ Len(kq') = Len(kq) + 1 /\ Len(kq) \in Nat
        /\ kq'[Len(kq) + 1] = k /\ \A j \in 1..Len(kq) : kq'[j] = kq[j]
    BY <1>1, <2>2, <2>3
  <2>5. kq' # kq
    BY <2>4
  <2>6. QED
    BY <1>1, <1>2, <2>1, <2>2, <2>3, <2>4, <2>5
<1>3. CASE ~ (wd \in armed /\ Len(kq) < KernelMax)
  <2>1. kq' = kq
    BY <1>3 DEF Notify
  <2>2. QED
    BY <1>1, <1>3, <2>1
<1>4. QED
  BY <1>2, <1>3

\* A watched descriptor is matched to the first input that has it.
LEMMA MatchOK ==
  ASSUME NEW wd, Watched(wd)
  PROVE  Match(wd) \in Inputs /\ wid[Match(wd)] = wd
<1> DEFINE T == {i \in 1..NumInputs : wid[i] = wd}
<1>1. NumInputs \in Nat /\ T # {}
  BY FAMAssumption DEF Watched, Inputs
<1>2. PICK m \in T : \A k \in T : m <= k
  BY <1>1, LeastIndex
<1>3. QED
  BY <1>2 DEF Match, Inputs

\* The events that a read adds.
LEMMA NewEventsType == ASSUME NEW chunk \in Seq(KernelEvents) PROVE NewEvents(chunk) \in Seq(Events)
<1> DEFINE Kept == {n \in KernelEvents : n.kind # "create" /\ Watched(n.wd)}
           g == [k \in Kept |-> EventOf(k)]
<1>1. ASSUME NEW k \in Kept PROVE EventOf(k) \in Events
  <2>1. /\ k.kind \in {"file", "ignored"} /\ k.file \in Files \cup {"none"}
        /\ Match(k.wd) \in Inputs
    BY MatchOK DEF KernelEvents
  <2>2. QED
    BY <2>1 DEF EventOf, Events
<1>2. Into(g, Events)
  BY <1>1 DEF Into
<1>3. Gather(chunk, g) \in Seq(Events)
  <2> HIDE DEF g
  <2>1. QED
    BY <1>2, GatherType
<1>4. QED
  BY <1>3 DEF NewEvents

\* Watches that are connected have the descriptor of their directory.
LEMMA ConnectType ==
  ASSUME TypeInv, NEW S, Connect(S)
  PROVE  /\ wid' \in [Inputs -> WDs \cup {NoWatch}] /\ due' \in [Inputs -> BOOLEAN]
         /\ \A i \in Inputs : wid'[i] # NoWatch => wid'[i][1] = DirOf[i]
         /\ armed' \subseteq WDs
<1>1. armed' = armed \cup {Wd(d) : d \in {DirOf[i] : i \in S} \cap alive}
  BY DEF Connect
<1>2. armed' \subseteq WDs
  BY <1>1, WdOK DEF TypeInv
<1>3. ASSUME NEW i \in Inputs
      PROVE  wid'[i] = IF i \in S THEN (IF DirOf[i] \in alive THEN Wd(DirOf[i]) ELSE NoWatch) ELSE wid[i]
  BY DEF Connect
<1>4. ASSUME NEW i \in Inputs
      PROVE  wid'[i] \in WDs \cup {NoWatch} /\ (wid'[i] # NoWatch => wid'[i][1] = DirOf[i])
  BY <1>3, WdOK DEF TypeInv
<1>5. wid' = [i \in Inputs |-> wid'[i]]
  BY DEF Connect
<1>6. wid' \in [Inputs -> WDs \cup {NoWatch}]
  BY <1>4, <1>5
<1>7. due' \in [Inputs -> BOOLEAN]
  BY DEF Connect, TypeInv
<1>8. QED
  BY <1>2, <1>4, <1>6, <1>7

\* The initial states.
LEMMA InitType == Init => TypeInv
<1> SUFFICES ASSUME Init PROVE TypeInv
  OBVIOUS
<1>1. /\ wid = [i \in Inputs |-> NoWatch] /\ kq = <<>> /\ alive = {} /\ armed = {}
      /\ gen = [d \in Dirs |-> 0] /\ pc = "scan" /\ attached = 0 /\ archive \in BOOLEAN
      /\ due = [i \in Inputs |-> FALSE] /\ events = <<>> /\ handled = <<>>
      /\ scanned = [i \in Inputs |-> {}] /\ written = [d \in Dirs |-> <<>>] /\ dropped = {}
      /\ file = [f \in Files |-> [state |-> "absent", wd |-> NoWatch]]
  BY DEF Init
<1>2. \A d \in Dirs : gen[d] <= MaxGen[d]
  BY <1>1, FAMAssumption
<1>3. /\ Len(kq) <= KernelMax /\ kq \in Seq(KernelEvents)
      /\ events \in Seq(Events) /\ handled \in Seq(Events)
  BY <1>1, FAMAssumption
<1>4. file \in [Files -> [state : FileStates, wd : WDs \cup {NoWatch}]]
  BY <1>1 DEF FileStates
<1>5. pc \in Pcs /\ attached \in 0..NumInputs /\ attached < NumInputs
  BY <1>1, FAMAssumption DEF Pcs
<1>6. written \in [Dirs -> Seq(Writings)]
  BY <1>1
<1>7. QED
  BY <1>1, <1>2, <1>3, <1>4, <1>5, <1>6 DEF TypeInv

\* Every step.
LEMMA NextType == TypeInv /\ [Next]_vars => TypeInv'
<1> SUFFICES ASSUME TypeInv, [Next]_vars PROVE TypeInv'
  OBVIOUS
<1> USE DEF setupVars, dirVars
<1>1. ASSUME NEW d \in Dirs, MakeDir(d) PROVE TypeInv'
  <2>1. /\ d \notin alive /\ gen[d] < MaxGen[d]
        /\ gen' = [gen EXCEPT ![d] = @ + 1] /\ alive' = alive \cup {d}
    BY <1>1 DEF MakeDir
  <2>2. /\ gen \in [Dirs -> Nat] /\ alive \subseteq Dirs /\ MaxGen[d] \in Nat
        /\ \A e \in Dirs : gen[e] <= MaxGen[e]
        /\ \A e \in alive : gen[e] >= 1
    BY FAMAssumption DEF TypeInv
  <2>3. gen' \in [Dirs -> Nat] /\ gen'[d] = gen[d] + 1 /\ \A e \in Dirs : e # d => gen'[e] = gen[e]
    BY <2>1, <2>2
  <2>4. gen'[d] <= MaxGen[d] /\ gen'[d] >= 1
    BY <2>1, <2>2, <2>3
  <2>5. /\ \A e \in Dirs : gen'[e] <= MaxGen[e]
        /\ \A e \in alive' : gen'[e] >= 1
    BY <2>1, <2>2, <2>3, <2>4
  <2>6. QED
    BY <1>1, <2>1, <2>3, <2>5 DEF MakeDir, TypeInv
<1>2. ASSUME NEW d \in Dirs, RemoveDir(d) PROVE TypeInv'
  <2>1. /\ d \in alive /\ Notify(Wd(d), "ignored", "none")
        /\ file' = [f \in Files |-> IF file[f].wd = Wd(d) THEN [file[f] EXCEPT !.state = "gone"] ELSE file[f]]
    BY <1>2 DEF RemoveDir
  <2>2. kq' \in Seq(KernelEvents) /\ Len(kq') <= KernelMax
    BY <2>1, NotifyOK
  <2>3. file' \in [Files -> [state : FileStates, wd : WDs \cup {NoWatch}]]
    BY <2>1 DEF TypeInv, FileStates
  <2>4. armed' \subseteq WDs /\ dropped' \subseteq WDs
    BY <1>2, <2>1, WdOK DEF RemoveDir, TypeInv
  <2>5. QED
    BY <1>2, <2>2, <2>3, <2>4 DEF RemoveDir, TypeInv
<1>3. ASSUME NEW f \in Files, NEW d \in Dirs, Create(f, d) PROVE TypeInv'
  <2>1. d \in alive /\ Notify(Wd(d), "create", f) /\ file' = [file EXCEPT ![f] = [state |-> "open", wd |-> Wd(d)]]
    BY <1>3 DEF Create
  <2>2. kq' \in Seq(KernelEvents) /\ Len(kq') <= KernelMax
    BY <2>1, NotifyOK
  <2>3. file' \in [Files -> [state : FileStates, wd : WDs \cup {NoWatch}]]
    BY <2>1, WdOK DEF TypeInv, FileStates
  <2>4. QED
    BY <1>3, <2>2, <2>3 DEF Create, TypeInv
<1>4. ASSUME NEW f \in Files, NEW d \in Dirs, Complete(f, d) PROVE TypeInv'
  <2>1. /\ d \in alive /\ Notify(Wd(d), "file", f) /\ file' = [file EXCEPT ![f] = [state |-> "closed", wd |-> Wd(d)]]
        /\ written' \in {written, [written EXCEPT ![d] = Append(@, [file |-> f, reported |-> Len(kq) < KernelMax])]}
    BY <1>4 DEF Complete
  <2>2. kq' \in Seq(KernelEvents) /\ Len(kq') <= KernelMax
    BY <2>1, NotifyOK
  <2>3. file' \in [Files -> [state : FileStates, wd : WDs \cup {NoWatch}]]
    BY <2>1, WdOK DEF TypeInv, FileStates
  <2>4. written' \in [Dirs -> Seq(Writings)]
    <3>1. [file |-> f, reported |-> Len(kq) < KernelMax] \in Writings
      BY DEF Writings
    <3>2. ASSUME NEW x \in Writings
          PROVE  [written EXCEPT ![d] = Append(@, x)] \in [Dirs -> Seq(Writings)]
      BY DEF TypeInv
    <3>3. QED
      BY <2>1, <3>1, <3>2 DEF TypeInv
  <2>5. QED
    BY <1>4, <2>2, <2>3, <2>4 DEF Complete, TypeInv
<1>5. CASE Scan
  <2>1. pc' \in {"watch", "failed"} /\ pc = "scan"
    BY <1>5 DEF Scan
  <2>2. scanned' \in [Inputs -> SUBSET Files]
    <3>1. \A d : Present(d) \in SUBSET Files
      BY DEF Present
    <3>2. \/ scanned' = scanned
          \/ scanned' = [scanned EXCEPT ![attached + 1] = Present(DirOf[attached + 1])]
      BY <1>5 DEF Scan
    <3>3. ASSUME NEW X \in SUBSET Files, NEW i
          PROVE  [scanned EXCEPT ![i] = X] \in [Inputs -> SUBSET Files]
      BY DEF TypeInv
    <3>4. scanned \in [Inputs -> SUBSET Files]
      BY DEF TypeInv
    <3>5. QED
      BY <3>1, <3>2, <3>3, <3>4
  <2>3. QED
    BY <1>5, <2>1, <2>2 DEF Scan, TypeInv, Pcs
<1>6. CASE AddWatch
  <2>1. attached < NumInputs /\ attached \in Nat /\ NumInputs \in Nat /\ attached' = attached + 1
    BY <1>6, FAMAssumption DEF AddWatch, TypeInv
  <2>2. attached' \in 0..NumInputs /\ pc' \in Pcs /\ (pc' \in {"scan", "watch"} => attached' < NumInputs)
    BY <1>6, <2>1 DEF AddWatch, Pcs
  <2>3. /\ wid' \in [Inputs -> WDs \cup {NoWatch}] /\ due' \in [Inputs -> BOOLEAN]
        /\ \A i \in Inputs : wid'[i] # NoWatch => wid'[i][1] = DirOf[i]
        /\ armed' \subseteq WDs
    BY <1>6, ConnectType DEF AddWatch
  <2>4. QED
    BY <1>6, <2>2, <2>3 DEF AddWatch, TypeInv
<1>7. CASE StartRead
  <2>1. /\ wid' \in [Inputs -> WDs \cup {NoWatch}] /\ due' \in [Inputs -> BOOLEAN]
        /\ \A i \in Inputs : wid'[i] # NoWatch => wid'[i][1] = DirOf[i]
        /\ armed' \subseteq WDs
    BY <1>7, ConnectType DEF StartRead
  <2>2. QED
    BY <1>7, <2>1 DEF StartRead, TypeInv, Pcs
<1>8. CASE SkipRead \/ ReadNothing
  BY <1>8 DEF SkipRead, ReadNothing, TypeInv, Pcs
<1>9. ASSUME NEW n, Read(n) PROVE TypeInv'
  <2>1. PICK chunk : chunk = SubSeq(kq, 1, n)
    OBVIOUS
  <2>2. /\ n \in 1..Len(kq) /\ kq' = SubSeq(kq, n + 1, Len(kq))
        /\ wid' = NewWids(chunk) /\ events' = events \o NewEvents(chunk) /\ pc' \in {"read", "process"}
    BY <1>9, <2>1 DEF Read
  <2>3. kq \in Seq(KernelEvents) /\ Len(kq) <= KernelMax /\ KernelMax \in Nat
    BY FAMAssumption DEF TypeInv
  <2>4. kq' \in Seq(KernelEvents) /\ Len(kq') <= KernelMax /\ chunk \in Seq(KernelEvents)
    BY <2>1, <2>2, <2>3
  <2>5. events' \in Seq(Events)
    BY <2>2, <2>4, NewEventsType DEF TypeInv
  <2>6. \A i \in Inputs : wid'[i] \in {wid[i], NoWatch}
    BY <2>2 DEF NewWids
  <2>7. wid' = [i \in Inputs |-> wid'[i]]
    BY <2>2 DEF NewWids
  <2>8. wid' \in [Inputs -> WDs \cup {NoWatch}]
    BY <2>6, <2>7 DEF TypeInv
  <2>9. QED
    BY <1>9, <2>2, <2>4, <2>5, <2>6, <2>8 DEF Read, TypeInv, Pcs
<1>10. CASE Process
  <2>1. handled' = handled \o Batch(events) /\ events' = Rest(events) /\ events \in Seq(Events)
        /\ handled \in Seq(Events)
    BY <1>10 DEF Process, TypeInv
  <2>2. handled' \in Seq(Events) /\ events' \in Seq(Events)
    BY <2>1, BatchAndRest
  <2>3. QED
    BY <1>10, <2>2 DEF Process, TypeInv, Pcs
<1>11. ASSUME NEW i \in Inputs, WaitOver(i) PROVE TypeInv'
  BY <1>11 DEF WaitOver, TypeInv
<1>12. CASE Terminated \/ UNCHANGED vars
  BY <1>12 DEF Terminated, vars, TypeInv
<1>13. QED
  BY <1>1, <1>2, <1>3, <1>4, <1>5, <1>6, <1>7, <1>8, <1>9, <1>10, <1>11, <1>12
  DEF Next, Environment, ReadStep

\* Type correctness of the watcher: a watch descriptor, a notification and an
\* event are always of a directory that is watched, or was.
THEOREM FAMTypeCorrect == SafetySpec => []TypeOK
<1>1. TypeInv => TypeOK
  <2> SUFFICES ASSUME TypeInv PROVE TypeOK
    OBVIOUS
  <2>1. \A i \in 1..Len(kq) : kq[i] \in KernelEvents
    BY DEF TypeInv
  <2>2. ASSUME NEW s \in Seq(Events), NEW i \in 1..Len(s)
        PROVE  s[i].input \in Inputs /\ s[i].kind \in {"file", "ignored"}
    <3>1. s[i] \in Events
      OBVIOUS
    <3>2. QED
      BY <3>1 DEF Events
  <2>3. QED
    BY <2>1, <2>2 DEF TypeInv, TypeOK
<1>2. QED
  BY <1>1, InitType, NextType, PTL DEF SafetySpec

-----------------------------------------------------------------------------
(* Watches that are honest *)

\* Watches that are connected are honest: attach() and the retry.
LEMMA ConnectHonest ==
  ASSUME TypeInv, WatchHonest, NEW S, Connect(S), UNCHANGED <<gen, alive, kq, dropped>>
  PROVE  WatchHonest'
<1>1. armed' = armed \cup {Wd(d) : d \in {DirOf[i] : i \in S} \cap alive}
  BY DEF Connect
<1>2. ASSUME NEW i \in Inputs
      PROVE  wid'[i] = IF i \in S THEN (IF DirOf[i] \in alive THEN Wd(DirOf[i]) ELSE NoWatch) ELSE wid[i]
  BY DEF Connect
<1>3. ASSUME NEW i \in Inputs, wid'[i] # NoWatch
      PROVE  \/ wid'[i] \in armed' /\ DirOf[i] \in alive /\ wid'[i] = Wd(DirOf[i])
             \/ \E j \in 1..Len(kq) : kq[j].kind = "ignored" /\ kq[j].wd = wid'[i]
             \/ wid'[i] \in dropped
  <2>1. CASE i \in S
    BY <1>1, <1>2, <1>3, <2>1, WdOK
  <2>2. CASE i \notin S
    BY <1>1, <1>2, <1>3, <2>2 DEF WatchHonest
  <2>3. QED
    BY <2>1, <2>2
<1>4. \A d \in Dirs : Wd(d)' = Wd(d)
  BY DEF Wd
<1>5. QED
  BY <1>3, <1>4, FAMAssumption DEF WatchHonest

\* The two halves of the kernel's queue in a read, the first being taken.
LEMMA ReadHalves ==
  ASSUME TypeInv, NEW n, Read(n)
  PROVE  /\ n \in 1..Len(kq) /\ Len(kq) \in Nat
         /\ SubSeq(kq, 1, n) \in Seq(KernelEvents) /\ Len(SubSeq(kq, 1, n)) = n
         /\ \A j \in 1..n : SubSeq(kq, 1, n)[j] = kq[j]
         /\ kq' \in Seq(KernelEvents) /\ Len(kq') = Len(kq) - n
         /\ \A j \in 1..Len(kq') : kq'[j] = kq[n + j]
         /\ kq = SubSeq(kq, 1, n) \o kq'
<1>1. /\ n \in 1..Len(kq) /\ kq' = SubSeq(kq, n + 1, Len(kq))
      /\ kq \in Seq(KernelEvents) /\ Len(kq) \in Nat
  BY DEF Read, TypeInv
<1>2. SubSeq(kq, 1, n) \o SubSeq(kq, n + 1, Len(kq)) = SubSeq(kq, 1, Len(kq))
  <2>1. 1 \in 1..Len(kq)+1 /\ n \in 1-1..Len(kq) /\ Len(kq) \in n..Len(kq)
    BY <1>1
  <2>2. QED
    BY <1>1, <2>1, ConcatAdjacentSubSeq
<1>3. kq = SubSeq(kq, 1, n) \o kq'
  BY <1>1, <1>2, SubSeqFull
<1>4. SubSeq(kq, 1, n) \in Seq(KernelEvents) /\ Len(SubSeq(kq, 1, n)) = n
      /\ \A j \in 1..n : SubSeq(kq, 1, n)[j] = kq[j]
  BY <1>1
<1>5. kq' \in Seq(KernelEvents) /\ Len(kq') = Len(kq) - n
      /\ \A j \in 1..Len(kq') : kq'[j] = kq[n + j]
  BY <1>1
<1>6. QED
  BY <1>1, <1>3, <1>4, <1>5

\* An input that has a directory of its own is the match of its descriptor.
LEMMA MatchOwn ==
  ASSUME TypeInv, OwnDirectories, NEW i \in Inputs, wid[i] # NoWatch
  PROVE  Watched(wid[i]) /\ Match(wid[i]) = i
<1>1. \A k \in Inputs : wid[k] = wid[i] => k = i
  BY DEF TypeInv, OwnDirectories
<1>2. Watched(wid[i])
  BY DEF Watched
<1>3. QED
  BY <1>1, <1>2, MatchOK

\* A read disconnects whoever is named by a notification of its end, and
\* nobody else.
LEMMA ReadDisconnects ==
  ASSUME TypeInv, OwnDirectories, NEW n, Read(n), NEW i \in Inputs, wid[i] # NoWatch
  PROVE  wid'[i] = IF \E j \in 1..n : kq[j].kind = "ignored" /\ kq[j].wd = wid[i]
                   THEN NoWatch ELSE wid[i]
<1>1. PICK chunk : chunk = SubSeq(kq, 1, n)
  OBVIOUS
<1>2. Len(chunk) = n /\ n \in Nat /\ \A j \in 1..n : chunk[j] = kq[j]
  BY <1>1, ReadHalves
<1>3. wid' = NewWids(chunk)
  BY <1>1 DEF Read
<1>4. wid'[i] = IF \E j \in 1..Len(chunk) :
                     chunk[j].kind = "ignored" /\ Watched(chunk[j].wd) /\ Match(chunk[j].wd) = i
                THEN NoWatch ELSE wid[i]
  BY <1>3 DEF NewWids
<1>5. ASSUME NEW j \in 1..n
      PROVE  (Watched(kq[j].wd) /\ Match(kq[j].wd) = i) <=> kq[j].wd = wid[i]
  BY MatchOwn, MatchOK
<1>6. QED
  BY <1>2, <1>4, <1>5

\* So a read leaves nobody else unheard.
LEMMA ReadHonest ==
  ASSUME TypeInv, WatchHonest, OwnDirectories, NEW n, Read(n)
  PROVE  WatchHonest'
<1>1. /\ n \in 1..Len(kq) /\ Len(kq) \in Nat /\ Len(kq') = Len(kq) - n
      /\ \A j \in 1..Len(kq') : kq'[j] = kq[n + j]
  BY ReadHalves
<1>2. UNCHANGED <<gen, alive, armed, dropped>>
  BY DEF Read, dirVars
<1>3. ASSUME NEW i \in Inputs PROVE wid'[i] \in {wid[i], NoWatch}
  BY DEF Read, NewWids
<1>4. ASSUME NEW i \in Inputs, wid'[i] # NoWatch
      PROVE  \/ wid'[i] \in armed' /\ DirOf[i] \in alive' /\ wid'[i] = Wd(DirOf[i])
             \/ \E j \in 1..Len(kq') : kq'[j].kind = "ignored" /\ kq'[j].wd = wid'[i]
             \/ wid'[i] \in dropped'
  <2>1. wid'[i] = wid[i] /\ wid[i] # NoWatch
    BY <1>3, <1>4
  <2>2. ASSUME NEW j \in 1..Len(kq), kq[j].kind = "ignored", kq[j].wd = wid[i]
        PROVE  \E k \in 1..Len(kq') : kq'[k].kind = "ignored" /\ kq'[k].wd = wid[i]
    <3>1. j \notin 1..n
      BY <1>4, <2>1, <2>2, ReadDisconnects
    <3>2. j - n \in 1..Len(kq') /\ n + (j - n) = j
      BY <1>1, <3>1
    <3>3. kq'[j - n] = kq[j]
      BY <1>1, <3>2
    <3>4. QED
      BY <2>2, <3>2, <3>3
  <2>3. QED
    BY <1>2, <2>1, <2>2 DEF WatchHonest
<1>5. \A d \in Dirs : Wd(d)' = Wd(d)
  BY <1>2 DEF Wd
<1>6. QED
  BY <1>4, <1>5, FAMAssumption DEF WatchHonest

\* A new incarnation has a descriptor nobody watches yet.
LEMMA MakeDirHonest ==
  ASSUME TypeInv, WatchHonest, NEW d \in Dirs, MakeDir(d)
  PROVE  WatchHonest'
<1>1. /\ d \notin alive /\ alive' = alive \cup {d}
      /\ gen' = [gen EXCEPT ![d] = @ + 1] /\ gen \in [Dirs -> Nat] /\ alive \subseteq Dirs
      /\ UNCHANGED <<wid, kq, armed, dropped>>
  BY DEF MakeDir, TypeInv
<1>2. \A e \in alive : Wd(e)' = Wd(e)
  BY <1>1 DEF Wd
<1>3. QED
  BY <1>1, <1>2 DEF WatchHonest

\* A directory that goes reports it to its watch, or the kernel drops that.
LEMMA RemoveDirHonest ==
  ASSUME TypeInv, WatchHonest, NEW d \in Dirs, RemoveDir(d)
  PROVE  WatchHonest'
<1>1. /\ d \in alive /\ alive' = alive \ {d} /\ armed' = armed \ {Wd(d)}
      /\ Notify(Wd(d), "ignored", "none")
      /\ dropped' = IF Wd(d) \in armed /\ Len(kq) = KernelMax THEN dropped \cup {Wd(d)} ELSE dropped
      /\ UNCHANGED <<wid, gen>>
  BY DEF RemoveDir
<1>2. Len(kq) \in Nat /\ \A j \in 1..Len(kq) : j \in 1..Len(kq') /\ kq'[j] = kq[j]
  <2>1. kq \in Seq(KernelEvents)
    BY DEF TypeInv
  <2>2. \A j \in 1..Len(kq) : j \in 1..Len(kq') /\ kq'[j] = kq[j]
    BY <1>1, NotifyOK
  <2>3. QED
    BY <2>1, <2>2
<1>3. Wd(d) \in armed /\ Len(kq) # KernelMax =>
        \E j \in 1..Len(kq') : kq'[j].kind = "ignored" /\ kq'[j].wd = Wd(d)
  <2>1. SUFFICES ASSUME Wd(d) \in armed, Len(kq) # KernelMax
                 PROVE  \E j \in 1..Len(kq') : kq'[j].kind = "ignored" /\ kq'[j].wd = Wd(d)
    OBVIOUS
  <2>2. PICK k \in KernelEvents :
          /\ k = [wd |-> Wd(d), kind |-> "ignored", file |-> "none"]
          /\ Len(kq') = Len(kq) + 1 /\ kq'[Len(kq) + 1] = k
    BY <1>1, <2>1, NotifyOK
  <2>3. Len(kq) + 1 \in 1..Len(kq')
    BY <1>2, <2>2
  <2>4. QED
    BY <2>2, <2>3
<1>4. \A e \in Dirs : Wd(e)' = Wd(e)
  BY <1>1 DEF Wd
<1>5. ASSUME NEW i \in Inputs, wid[i] # NoWatch
      PROVE  \/ wid[i] \in armed' /\ DirOf[i] \in alive' /\ wid[i] = Wd(DirOf[i])
             \/ \E j \in 1..Len(kq') : kq'[j].kind = "ignored" /\ kq'[j].wd = wid[i]
             \/ wid[i] \in dropped'
  <2>1. CASE wid[i] \in armed /\ DirOf[i] \in alive /\ wid[i] = Wd(DirOf[i])
    <3>1. CASE DirOf[i] = d
      BY <1>1, <1>3, <2>1, <3>1
    <3>2. CASE DirOf[i] # d
      <4>1. wid[i] # Wd(d)
        BY <1>1, <1>5, <3>2, WdOK DEF TypeInv
      <4>2. QED
        BY <1>1, <2>1, <3>2, <4>1
    <3>3. QED
      BY <3>1, <3>2
  <2>2. CASE \E j \in 1..Len(kq) : kq[j].kind = "ignored" /\ kq[j].wd = wid[i]
    BY <1>2, <2>2
  <2>3. CASE wid[i] \in dropped
    BY <1>1, <2>3
  <2>4. QED
    BY <1>5, <2>1, <2>2, <2>3 DEF WatchHonest
<1>6. QED
  BY <1>1, <1>4, <1>5, FAMAssumption DEF WatchHonest

\* Files that are written do not touch the watches.
LEMMA WriteHonest ==
  ASSUME TypeInv, WatchHonest, NEW f \in Files, NEW d \in Dirs, Create(f, d) \/ Complete(f, d)
  PROVE  WatchHonest'
<1>1. PICK kind \in {"create", "file"} : Notify(Wd(d), kind, f)
  BY DEF Create, Complete
<1>2. UNCHANGED <<wid, gen, alive, armed, dropped>>
  BY DEF Create, Complete
<1>3. \A j \in 1..Len(kq) : j \in 1..Len(kq') /\ kq'[j] = kq[j]
  BY <1>1, NotifyOK
<1>4. \A e : Wd(e)' = Wd(e)
  BY <1>2 DEF Wd
<1>5. QED
  BY <1>2, <1>3, <1>4 DEF WatchHonest

\* Every step.
LEMMA NextHonest == OwnDirectories /\ TypeInv /\ WatchHonest /\ [Next]_vars => WatchHonest'
<1> SUFFICES ASSUME OwnDirectories, TypeInv, WatchHonest, [Next]_vars PROVE WatchHonest'
  OBVIOUS
<1>1. ASSUME UNCHANGED <<wid, kq, gen, alive, armed, dropped>> PROVE WatchHonest'
  BY <1>1 DEF WatchHonest, Wd
<1>2. CASE Environment
  BY <1>2, MakeDirHonest, RemoveDirHonest, WriteHonest DEF Environment
<1>3. CASE AddWatch
  BY <1>3, ConnectHonest DEF AddWatch
<1>4. CASE StartRead
  BY <1>4, ConnectHonest DEF StartRead
<1>5. CASE ReadStep
  <2>1. CASE ReadNothing
    BY <1>1, <2>1 DEF ReadNothing, dirVars
  <2>2. QED
    BY <1>5, <2>1, ReadHonest DEF ReadStep
<1>6. CASE Scan \/ SkipRead \/ Process
  BY <1>1, <1>6 DEF Scan, SkipRead, Process, dirVars
<1>7. ASSUME NEW i \in Inputs, WaitOver(i) PROVE WatchHonest'
  BY <1>1, <1>7 DEF WaitOver, dirVars
<1>8. CASE Terminated \/ UNCHANGED vars
  BY <1>1, <1>8 DEF Terminated, vars
<1>9. QED
  BY <1>2, <1>3, <1>4, <1>5, <1>6, <1>7, <1>8 DEF Next

(* No interleaving of directories that go and come, of the kernel's queue   *)
(* and of addFAMEvent and the retries leaves a watch connected to nothing   *)
(* without a notification under way, except where the kernel dropped it.    *)
THEOREM WatchesHonest ==
  ASSUME OwnDirectories
  PROVE  SafetySpec => []WatchHonest
<1>1. TypeInv /\ WatchHonest /\ [Next]_vars => WatchHonest'
  BY NextHonest
<1>2. Init => WatchHonest
  BY DEF Init, WatchHonest
<1>3. QED
  BY InitType, NextType, <1>1, <1>2, PTL DEF SafetySpec

-----------------------------------------------------------------------------
(* Files in order *)

(* What makes the notifications under way fit the watches: every one has a  *)
(* watch, the one of an incarnation's end is its last, and the kernel only  *)
(* watches what is there and what an input is connected to.                 *)
OrderInv ==
  /\ \A i \in Inputs : i > attached => wid[i] = NoWatch
  /\ \A i \in Inputs : due[i] => i <= attached
  /\ \A i \in Inputs : wid[i] # NoWatch => wid[i][2] <= gen[DirOf[i]]
  /\ \A wd \in armed : wd[1] \in alive /\ wd = Wd(wd[1]) /\ Watched(wd)
  /\ \A j \in 1..Len(kq) :
       /\ Watched(kq[j].wd)
       /\ kq[j].kind = "file" => kq[j].file \in Files
       /\ kq[j].kind = "ignored" =>
            /\ \A d \in alive : kq[j].wd # Wd(d)
            /\ \A k \in 1..Len(kq) : j < k => kq[k].wd # kq[j].wd

Names == Files \cup {"none"}
FileEvents(i) == [input : {i}, kind : {"file"}, file : Files]
FileNotices(d) == {n \in KernelEvents : n.wd[1] = d /\ n.kind = "file"}
FileOfEvent(i) == [e \in FileEvents(i) |-> e.file]
FileOfNotice(d) == [k \in FileNotices(d) |-> k.file]

\* The files of events.
LEMMA FilesForIs ==
  ASSUME NEW i \in Inputs
  PROVE  /\ Into(FileOfEvent(i), Names)
         /\ DOMAIN FileOfEvent(i) = FileEvents(i)
         /\ \A s : FilesFor(i, s) = Gather(s, FileOfEvent(i))
  BY DEF Into, FileOfEvent, FileEvents, FilesFor, Names

\* Those of notifications.
LEMMA FilesInIs ==
  ASSUME NEW d
  PROVE  /\ Into(FileOfNotice(d), Names)
         /\ DOMAIN FileOfNotice(d) = FileNotices(d)
         /\ \A s : FilesIn(d, s) = Gather(s, FileOfNotice(d))
<1>1. \A k \in KernelEvents : k.file \in Files \cup {"none"}
  BY DEF KernelEvents
<1>2. QED
  BY <1>1 DEF Into, FileOfNotice, FileNotices, FilesIn, Names

\* Sequences of both are put together.
LEMMA FilesForConcat ==
  ASSUME NEW i \in Inputs, NEW s \in Seq(Events), NEW t \in Seq(Events)
  PROVE  /\ FilesFor(i, s \o t) = FilesFor(i, s) \o FilesFor(i, t)
         /\ FilesFor(i, s) \in Seq(Names)
<1>1. PICK g : g = FileOfEvent(i)
  OBVIOUS
<1>2. Into(g, Names) /\ \A r : FilesFor(i, r) = Gather(r, g)
  BY <1>1, FilesForIs
<1>3. Gather(s \o t, g) = Gather(s, g) \o Gather(t, g)
  BY <1>2, GatherConcat
<1>4. Len(s) \in Nat
  OBVIOUS
<1>5. Gather(s, g) \in Seq(Names)
  BY <1>2, <1>4, GatherType
<1>6. QED
  BY <1>2, <1>3, <1>5

LEMMA FilesInConcat ==
  ASSUME NEW d, NEW s \in Seq(KernelEvents), NEW t \in Seq(KernelEvents)
  PROVE  /\ FilesIn(d, s \o t) = FilesIn(d, s) \o FilesIn(d, t)
         /\ FilesIn(d, s) \in Seq(Names)
<1>1. PICK g : g = FileOfNotice(d)
  OBVIOUS
<1>2. Into(g, Names) /\ \A r : FilesIn(d, r) = Gather(r, g)
  BY <1>1, FilesInIs
<1>3. Gather(s \o t, g) = Gather(s, g) \o Gather(t, g)
  BY <1>2, GatherConcat
<1>4. Len(s) \in Nat
  OBVIOUS
<1>5. Gather(s, g) \in Seq(Names)
  BY <1>2, <1>4, GatherType
<1>6. QED
  BY <1>2, <1>3, <1>5

\* One notification more: only that of a file in the directory counts.
LEMMA FilesInAppend ==
  ASSUME NEW d, NEW s \in Seq(KernelEvents), NEW k \in KernelEvents
  PROVE  FilesIn(d, Append(s, k)) =
           IF k.wd[1] = d /\ k.kind = "file" THEN Append(FilesIn(d, s), k.file) ELSE FilesIn(d, s)
<1>1. PICK g : g = FileOfNotice(d)
  OBVIOUS
<1>2. DOMAIN g = FileNotices(d) /\ \A r : FilesIn(d, r) = Gather(r, g)
  BY <1>1, FilesInIs
<1>3. Gather(Append(s, k), g) = IF k \in DOMAIN g THEN Append(Gather(s, g), g[k]) ELSE Gather(s, g)
  BY GatherAppend
<1>4. k \in DOMAIN g <=> k.wd[1] = d /\ k.kind = "file"
  BY <1>2 DEF FileNotices
<1>5. k \in DOMAIN g => g[k] = k.file
  BY <1>1, <1>2 DEF FileOfNotice
<1>6. QED
  BY <1>2, <1>3, <1>4, <1>5

\* The events of a read: an input gets the files of its directory.
LEMMA ReadFiles ==
  ASSUME TypeInv, OrderInv, OwnDirectories, NEW i \in Inputs, NEW n, Read(n)
  PROVE  FilesFor(i, NewEvents(SubSeq(kq, 1, n))) = FilesIn(DirOf[i], SubSeq(kq, 1, n))
<1> DEFINE X == {k \in KernelEvents : Watched(k.wd) /\ (k.kind = "file" => k.file \in Files)}
           Kept == {k \in KernelEvents : k.kind # "create" /\ Watched(k.wd)}
<1>1. PICK chunk : chunk = SubSeq(kq, 1, n)
  OBVIOUS
<1>2. chunk \in Seq(KernelEvents) /\ Len(chunk) = n /\ n \in 1..Len(kq) /\ \A j \in 1..n : chunk[j] = kq[j]
  BY <1>1, ReadHalves
<1>3. \A j \in 1..Len(chunk) : chunk[j] \in X
  <2>1. ASSUME NEW j \in 1..n PROVE chunk[j] \in X
    <3>1. j \in 1..Len(kq) /\ chunk[j] = kq[j] /\ chunk[j] \in KernelEvents
      BY <1>2
    <3>2. QED
      BY <3>1 DEF OrderInv
  <2>2. QED
    BY <1>2, <2>1
<1>4. chunk \in Seq(X)
  <2> HIDE DEF X
  <2>1. chunk \in [1..Len(chunk) -> X] /\ Len(chunk) \in Nat
    BY <1>2, <1>3
  <2>2. QED
    BY <2>1
<1>5. PICK g : g = [k \in Kept |-> EventOf(k)]
  OBVIOUS
<1>6. PICK h : h = FileOfEvent(i)
  OBVIOUS
<1>7. PICK r : r = FileOfNotice(DirOf[i])
  OBVIOUS
<1>8. ASSUME NEW x \in X, x \in Kept
      PROVE  /\ EventOf(x) \in Events
             /\ EventOf(x) \in FileEvents(i) <=> x \in FileNotices(DirOf[i])
             /\ EventOf(x).file = x.file
  <2>1. PICK m \in Inputs : wid[m] = x.wd
    BY <1>8 DEF Watched
  <2>2. x.wd \in WDs /\ x.kind \in {"file", "ignored"} /\ x.file \in Files \cup {"none"}
    BY <1>8 DEF KernelEvents
  <2>3. wid[m] # NoWatch /\ Match(x.wd) = m /\ x.wd[1] = DirOf[m]
    BY <2>1, <2>2, NoWatchIsNone, MatchOwn DEF TypeInv
  <2>4. EventOf(x) = [input |-> m, kind |-> x.kind, file |-> x.file]
    BY <2>3 DEF EventOf
  <2>5. m = i <=> x.wd[1] = DirOf[i]
    BY <2>3 DEF OwnDirectories
  <2>6. x.kind = "file" => x.file \in Files
    OBVIOUS
  <2>7. EventOf(x) \in FileEvents(i) <=> m = i /\ x.kind = "file"
    BY <2>4, <2>6 DEF FileEvents
  <2>8. x \in FileNotices(DirOf[i]) <=> x.wd[1] = DirOf[i] /\ x.kind = "file"
    BY DEF FileNotices
  <2>9. EventOf(x) \in Events
    BY <2>2, <2>4 DEF Events
  <2>10. QED
    BY <2>4, <2>5, <2>7, <2>8, <2>9
<1>9. ASSUME NEW x \in X
      PROVE  /\ x \in DOMAIN r <=> x \in DOMAIN g /\ g[x] \in DOMAIN h
             /\ x \in DOMAIN r => r[x] = h[g[x]]
  <2>1. DOMAIN g = Kept /\ DOMAIN h = FileEvents(i) /\ DOMAIN r = FileNotices(DirOf[i])
    BY <1>5, <1>6, <1>7, FilesForIs, FilesInIs
  <2>2. x \in FileNotices(DirOf[i]) => x \in Kept
    BY DEF FileNotices
  <2>3. x \in Kept => g[x] = EventOf(x)
    BY <1>5
  <2>4. \A e \in FileEvents(i) : h[e] = e.file
    BY <1>6 DEF FileOfEvent
  <2>5. x \in FileNotices(DirOf[i]) => r[x] = x.file
    BY <1>7 DEF FileOfNotice
  <2> HIDE DEF Kept, X
  <2>6. QED
    BY <1>8, <2>1, <2>2, <2>3, <2>4, <2>5
<1>10. Into(g, Events)
  <2>1. ASSUME NEW k \in Kept PROVE EventOf(k) \in Events
    <3>1. /\ k.kind \in {"file", "ignored"} /\ k.file \in Files \cup {"none"}
          /\ Match(k.wd) \in Inputs
      BY MatchOK DEF KernelEvents
    <3>2. QED
      BY <3>1 DEF EventOf, Events
  <2>2. QED
    BY <1>5, <2>1 DEF Into
<1>11. Into(h, Names)
  BY <1>6, FilesForIs
<1>12. Gather(Gather(chunk, g), h) = Gather(chunk, r)
  <2> HIDE DEF X
  <2>1. QED
    BY <1>4, <1>9, <1>10, <1>11, GatherGather
<1>13. NewEvents(chunk) = Gather(chunk, g)
  BY <1>5 DEF NewEvents
<1>14. QED
  BY <1>1, <1>6, <1>7, <1>12, <1>13, FilesForIs, FilesInIs

\* Every notification under way is one.
LEMMA NoticeOK == ASSUME TypeInv, NEW j \in 1..Len(kq) PROVE kq[j] \in KernelEvents /\ kq[j].wd \in WDs
<1>1. kq[j] \in KernelEvents
  BY DEF TypeInv
<1>2. QED
  BY <1>1 DEF KernelEvents

\* The order of what is under way, and what was written: preserved by ...
\* ... a notification that the kernel queues or drops, of a directory that
\* is there or goes now.
LEMMA NotifyOrder ==
  ASSUME TypeInv, TypeInv', OrderInv, NEW d \in alive,
         NEW kind \in {"create", "file", "ignored"}, NEW f \in Files \cup {"none"},
         kind = "file" => f \in Files,
         Notify(Wd(d), kind, f), UNCHANGED <<wid, gen, attached, due>>,
         alive' = IF kind = "ignored" THEN alive \ {d} ELSE alive,
         armed' = IF kind = "ignored" THEN armed \ {Wd(d)} ELSE armed
  PROVE  OrderInv'
<1>1. \A e : Wd(e)' = Wd(e)
  BY DEF Wd
<1>2. \A wd : Watched(wd)' <=> Watched(wd)
  BY DEF Watched
<1>3. ASSUME NEW wd \in armed' PROVE wd[1] \in alive' /\ wd = Wd(wd[1])' /\ Watched(wd)'
  BY <1>1, <1>2 DEF OrderInv
<1>4. CASE kq' = kq
  BY <1>1, <1>2, <1>3, <1>4 DEF OrderInv
<1>5. CASE kq' # kq
  <2>1. PICK k \in KernelEvents :
          /\ k = [wd |-> Wd(d), kind |-> kind, file |-> f] /\ Wd(d) \in armed
          /\ Len(kq') = Len(kq) + 1 /\ kq'[Len(kq) + 1] = k
    <3>1. PICK wd : wd = Wd(d)
      OBVIOUS
    <3>2. Notify(wd, kind, f)
      BY <3>1
    <3>3. \E k \in KernelEvents :
            /\ k = [wd |-> wd, kind |-> kind, file |-> f]
            /\ kq' = Append(kq, k) /\ kq' # kq /\ wd \in armed
            /\ Len(kq') = Len(kq) + 1 /\ kq'[Len(kq) + 1] = k
      BY <1>5, <3>2, NotifyOK
    <3>4. QED
      BY <3>1, <3>3
  <2>2. PICK L \in Nat : L = Len(kq)
    BY DEF TypeInv
  <2>3. PICK q : q = kq'
    OBVIOUS
  <2>4. /\ Len(q) = L + 1 /\ q[L + 1] = k
        /\ \A j \in 1..L : q[j] = kq[j]
        /\ \A j \in 1..L+1 : j = L + 1 \/ j \in 1..L
    BY <2>1, <2>2, <2>3, NotifyOK
  <2>5. k.wd = Wd(d) /\ k.kind = kind /\ k.file = f
    BY <2>1
  <2>6. ASSUME NEW j \in 1..L
        PROVE  /\ Watched(q[j].wd)
               /\ q[j].kind = "file" => q[j].file \in Files
               /\ q[j].kind = "ignored" =>
                    /\ \A e \in alive : q[j].wd # Wd(e)
                    /\ \A m \in 1..L : j < m => q[m].wd # q[j].wd
                    /\ q[j].wd # k.wd
    <3>1. q[j] = kq[j] /\ j \in 1..Len(kq)
      BY <2>2, <2>4
    <3>2. /\ Watched(kq[j].wd)
          /\ kq[j].kind = "file" => kq[j].file \in Files
          /\ kq[j].kind = "ignored" =>
               /\ \A e \in alive : kq[j].wd # Wd(e)
               /\ \A m \in 1..L : j < m => kq[m].wd # kq[j].wd
      BY <2>2, <3>1 DEF OrderInv
    <3>3. QED
      BY <2>4, <2>5, <3>1, <3>2
  <2>7. /\ Watched(k.wd)
        /\ k.kind = "file" => k.file \in Files
        /\ k.kind = "ignored" => \A e \in alive' : k.wd # Wd(e)
    <3>1. ASSUME kind = "ignored", NEW e \in alive' PROVE Wd(d) # Wd(e)
      <4>1. e # d /\ e \in alive
        BY <3>1
      <4>2. QED
        BY <4>1, WdOK
    <3>2. QED
      BY <2>1, <2>5, <3>1 DEF OrderInv
  <2>8. ASSUME NEW j \in 1..L+1
        PROVE  /\ Watched(q[j].wd)
               /\ q[j].kind = "file" => q[j].file \in Files
               /\ q[j].kind = "ignored" =>
                    /\ \A e \in alive' : q[j].wd # Wd(e)
                    /\ \A m \in 1..L+1 : j < m => q[m].wd # q[j].wd
    <3>1. CASE j = L + 1
      <4>1. \A m \in 1..L+1 : ~ (j < m)
        BY <3>1
      <4>2. QED
        BY <2>4, <2>7, <3>1, <4>1
    <3>2. CASE j \in 1..L
      <4>1. \A e \in alive' : e \in alive
        OBVIOUS
      <4>2. QED
        BY <2>4, <2>6, <3>2, <4>1
    <3>3. QED
      BY <2>4, <3>1, <3>2
  <2>9. ASSUME NEW j \in 1..Len(kq')
        PROVE  /\ Watched(kq[j].wd)'
               /\ kq'[j].kind = "file" => kq'[j].file \in Files
               /\ kq'[j].kind = "ignored" =>
                    /\ \A e \in alive' : kq'[j].wd # Wd(e)'
                    /\ \A m \in 1..Len(kq') : j < m => kq'[m].wd # kq'[j].wd
    <3>1. j \in 1..L+1 /\ Len(kq') = L + 1 /\ kq' = q
      BY <2>3, <2>4
    <3>2. Watched(kq[j].wd)' <=> Watched(q[j].wd)
      BY <2>3 DEF Watched
    <3>3. QED
      BY <1>1, <2>8, <3>1, <3>2
  <2>10. QED
    BY <1>3, <2>9 DEF OrderInv
<1>6. QED
  BY <1>4, <1>5

\* ... a new incarnation.
LEMMA MakeDirOrder ==
  ASSUME TypeInv, OrderInv, NEW d \in Dirs, MakeDir(d)
  PROVE  OrderInv'
<1>1. /\ d \notin alive /\ alive' = alive \cup {d} /\ alive \subseteq Dirs
      /\ gen' = [gen EXCEPT ![d] = @ + 1] /\ gen \in [Dirs -> Nat]
      /\ UNCHANGED <<attached, wid, due, kq, armed>>
  BY DEF MakeDir, setupVars, TypeInv
<1>2. /\ gen'[d] = gen[d] + 1 /\ gen[d] \in Nat
      /\ \A e \in Dirs : e # d => gen'[e] = gen[e]
  BY <1>1
<1>3. \A e \in Dirs : gen[e] <= gen'[e] /\ gen[e] \in Nat /\ gen'[e] \in Nat
  BY <1>1, <1>2
<1>4. \A e \in alive : Wd(e)' = Wd(e)
  BY <1>1, <1>2 DEF Wd
<1>5. \A wd : Watched(wd)' <=> Watched(wd)
  BY <1>1 DEF Watched
<1>6. ASSUME NEW i \in Inputs, wid[i] # NoWatch
      PROVE  /\ wid[i][2] <= gen'[DirOf[i]]
             /\ wid[i] # Wd(d)'
  <2>1. wid[i] \in WDs /\ wid[i][1] = DirOf[i] /\ DirOf[i] \in Dirs
    BY <1>6, FAMAssumption DEF TypeInv
  <2>2. wid[i][2] \in Nat
    <3>1. PICK e \in Dirs : wid[i] \in {e} \X (1..MaxGen[e])
      BY <2>1 DEF WDs
    <3>2. QED
      BY <3>1
  <2>3. wid[i][2] <= gen[DirOf[i]]
    BY <1>6 DEF OrderInv
  <2>4. wid[i][2] <= gen'[DirOf[i]]
    BY <1>3, <2>1, <2>2, <2>3
  <2>5. Wd(d)' = <<d, gen'[d]>>
    BY DEF Wd
  <2>6. ASSUME wid[i] = <<d, gen'[d]>> PROVE FALSE
    BY <1>2, <2>1, <2>3, <2>6
  <2>7. QED
    BY <2>4, <2>5, <2>6
<1>7. ASSUME NEW j \in 1..Len(kq) PROVE kq[j].wd # Wd(d)'
  <2>1. PICK i \in Inputs : wid[i] = kq[j].wd
    BY DEF OrderInv, Watched
  <2>2. kq[j].wd \in WDs
    BY NoticeOK
  <2>3. QED
    BY <1>6, <2>1, <2>2, NoWatchIsNone
<1>8. QED
  BY <1>1, <1>4, <1>5, <1>6, <1>7 DEF OrderInv

\* ... attach() and the retry.
LEMMA ConnectOrder ==
  ASSUME TypeInv, OrderInv, NEW S \in SUBSET Inputs, Connect(S),
         \A i \in S : wid[i] = NoWatch /\ i <= attached', attached <= attached', attached' \in Nat,
         UNCHANGED <<gen, alive, kq>>
  PROVE  OrderInv'
<1>1. armed' = armed \cup {Wd(d) : d \in {DirOf[i] : i \in S} \cap alive}
  BY DEF Connect
<1>2. ASSUME NEW i \in Inputs
      PROVE  wid'[i] = IF i \in S THEN (IF DirOf[i] \in alive THEN Wd(DirOf[i]) ELSE NoWatch) ELSE wid[i]
  BY DEF Connect
<1>3. \A e : Wd(e)' = Wd(e)
  BY DEF Wd
<1>4. ASSUME NEW wd \in WDs, Watched(wd) PROVE Watched(wd)'
  <2>1. PICK i \in Inputs : wid[i] = wd
    BY <1>4 DEF Watched
  <2>2. wid'[i] = wd
    BY <1>2, <2>1, NoWatchIsNone
  <2>3. QED
    BY <2>2 DEF Watched
<1>5. ASSUME NEW i \in Inputs, i > attached' PROVE wid'[i] = NoWatch
  <2>1. i \notin S /\ i > attached
    BY <1>5 DEF TypeInv, Inputs
  <2>2. QED
    BY <1>2, <2>1 DEF OrderInv
<1>6. ASSUME NEW i \in Inputs, wid'[i] # NoWatch PROVE wid'[i][2] <= gen[DirOf[i]]
  <2>1. CASE i \in S
    <3>1. DirOf[i] \in alive /\ wid'[i] = Wd(DirOf[i])
      BY <1>2, <1>6, <2>1
    <3>2. wid'[i][2] = gen[DirOf[i]] /\ gen[DirOf[i]] \in Nat
      BY <3>1, WdOK DEF TypeInv
    <3>3. QED
      BY <3>2
  <2>2. CASE i \notin S
    BY <1>2, <1>6, <2>2 DEF OrderInv
  <2>3. QED
    BY <2>1, <2>2
<1>7. ASSUME NEW wd \in armed' PROVE wd[1] \in alive /\ wd = Wd(wd[1]) /\ Watched(wd)'
  <2>1. CASE wd \in armed
    BY <1>4, <2>1 DEF OrderInv, TypeInv
  <2>2. CASE wd \notin armed
    <3>1. PICK i \in S : DirOf[i] \in alive /\ wd = Wd(DirOf[i])
      BY <1>1, <1>7, <2>2
    <3>2. wid'[i] = wd /\ i \in Inputs
      BY <1>2, <3>1
    <3>3. QED
      BY <3>1, <3>2, WdOK DEF Watched
  <2>3. QED
    BY <2>1, <2>2
<1>8. ASSUME NEW j \in 1..Len(kq) PROVE Watched(kq[j].wd)'
  <2>1. kq[j].wd \in WDs /\ Watched(kq[j].wd)
    BY NoticeOK DEF OrderInv
  <2>2. QED
    BY <1>4, <2>1
<1>9. \A i \in Inputs : due'[i] => i <= attached'
  <2>1. \A i \in Inputs : due'[i] => due[i]
    BY DEF Connect
  <2>2. QED
    BY <2>1 DEF OrderInv, TypeInv, Inputs
<1>10. QED
  BY <1>3, <1>5, <1>6, <1>7, <1>8, <1>9 DEF OrderInv

\* ... a read, which takes the end of an incarnation and its watch together.
LEMMA ReadOrder ==
  ASSUME TypeInv, OrderInv, OwnDirectories, NEW n, Read(n)
  PROVE  OrderInv'
<1>1. PICK L \in Nat : L = Len(kq)
  BY DEF TypeInv
<1>2. /\ n \in 1..L /\ Len(kq') = L - n
      /\ \A j \in 1..L-n : kq'[j] = kq[n + j] /\ n + j \in 1..L /\ j \in Nat
  BY <1>1, ReadHalves
<1>3. UNCHANGED <<attached, due, gen, alive, armed>>
  BY DEF Read, dirVars, setupVars
<1>4. \A e : Wd(e)' = Wd(e)
  BY <1>3 DEF Wd
<1>5. \A i \in Inputs : wid'[i] \in {wid[i], NoWatch}
  BY DEF Read, NewWids
<1>6. ASSUME NEW wd \in WDs, Watched(wd),
             \A j \in 1..n : ~ (kq[j].kind = "ignored" /\ kq[j].wd = wd)
      PROVE  Watched(wd)'
  <2>1. PICK i \in Inputs : wid[i] = wd
    BY <1>6 DEF Watched
  <2>2. wid'[i] = wd
    BY <1>6, <2>1, NoWatchIsNone, ReadDisconnects
  <2>3. QED
    BY <2>2 DEF Watched
<1>7. ASSUME NEW wd \in armed PROVE wd[1] \in alive /\ wd = Wd(wd[1]) /\ Watched(wd)'
  <2>1. wd[1] \in alive /\ wd = Wd(wd[1]) /\ Watched(wd) /\ wd \in WDs
    BY DEF OrderInv, TypeInv
  <2>2. ASSUME NEW j \in 1..n, kq[j].kind = "ignored" PROVE kq[j].wd # wd
    <3>1. j \in 1..Len(kq)
      BY <1>1, <1>2
    <3>2. QED
      BY <2>1, <2>2, <3>1 DEF OrderInv
  <2>3. QED
    BY <1>6, <2>1, <2>2
<1>8. PICK q : q = kq'
  OBVIOUS
<1>9. ASSUME NEW j \in 1..L-n
      PROVE  /\ Watched(kq[j].wd)'
             /\ q[j].kind = "file" => q[j].file \in Files
             /\ q[j].kind = "ignored" =>
                  /\ \A d \in alive : q[j].wd # Wd(d)
                  /\ \A k \in 1..L-n : j < k => q[k].wd # q[j].wd
  <2>1. PICK m \in 1..L : m = n + j /\ q[j] = kq[m] /\ n < m
    BY <1>2, <1>8
  <2>2. m \in 1..Len(kq)
    BY <1>1
  <2>3. /\ Watched(kq[m].wd) /\ kq[m].wd \in WDs
        /\ kq[m].kind = "file" => kq[m].file \in Files
        /\ kq[m].kind = "ignored" =>
             /\ \A d \in alive : kq[m].wd # Wd(d)
             /\ \A k \in 1..L : m < k => kq[k].wd # kq[m].wd
    BY <1>1, <2>2, NoticeOK DEF OrderInv
  <2>4. ASSUME NEW k \in 1..n PROVE ~ (kq[k].kind = "ignored" /\ kq[k].wd = kq[m].wd)
    <3>1. k \in 1..Len(kq) /\ k < m
      BY <1>1, <1>2, <2>1
    <3>2. QED
      BY <2>2, <3>1 DEF OrderInv
  <2>5. PICK x : x = kq[m].wd
    OBVIOUS
  <2>6. Watched(x)'
    <3>1. \A k \in 1..n : ~ (kq[k].kind = "ignored" /\ kq[k].wd = x)
      BY <2>4, <2>5
    <3>2. x \in WDs /\ Watched(x)
      BY <2>3, <2>5
    <3>3. QED
      BY <1>6, <3>1, <3>2
  <2>7. Watched(kq[j].wd)'
    BY <1>8, <2>1, <2>5, <2>6 DEF Watched
  <2>8. ASSUME kq[m].kind = "ignored", NEW k \in 1..L-n, j < k PROVE q[k].wd # kq[m].wd
    <3>1. n + k \in 1..L /\ m < n + k /\ q[k] = kq[n + k]
      BY <1>2, <1>8, <2>1, <2>8
    <3>2. QED
      BY <2>3, <2>8, <3>1
  <2>9. QED
    BY <2>1, <2>3, <2>7, <2>8
<1>10. \A i \in Inputs : i > attached' => wid'[i] = NoWatch
  BY <1>3, <1>5 DEF OrderInv
<1>11. \A i \in Inputs : wid'[i] # NoWatch => wid'[i][2] <= gen'[DirOf[i]]
  BY <1>3, <1>5 DEF OrderInv
<1>12. \A wd \in armed' : wd[1] \in alive' /\ wd = Wd(wd[1])' /\ Watched(wd)'
  BY <1>3, <1>4, <1>7
<1>13. ASSUME NEW j \in 1..Len(kq')
       PROVE  /\ Watched(kq[j].wd)'
              /\ kq'[j].kind = "file" => kq'[j].file \in Files
              /\ kq'[j].kind = "ignored" =>
                   /\ \A d \in alive' : kq'[j].wd # Wd(d)'
                   /\ \A k \in 1..Len(kq') : j < k => kq'[k].wd # kq'[j].wd
  BY <1>2, <1>3, <1>4, <1>8, <1>9
<1>14. QED
  BY <1>3, <1>10, <1>11, <1>12, <1>13 DEF OrderInv

\* Brackets in concatenations.
LEMMA ConcatFour ==
  ASSUME NEW V, NEW a \in Seq(V), NEW b \in Seq(V), NEW c \in Seq(V), NEW e \in Seq(V)
  PROVE  (a \o b) \o (c \o e) = (a \o (b \o c)) \o e
<1>1. PICK ab \in Seq(V) : ab = a \o b
  BY ConcatProperties
<1>2. (ab \o c) \o e = ab \o (c \o e)
  BY ConcatAssociative, SMTT(60)
<1>3. (a \o b) \o c = a \o (b \o c)
  BY ConcatAssociative, SMTT(60)
<1>4. QED
  BY <1>1, <1>2, <1>3

\* Every step.
LEMMA NextOrder ==
  OwnDirectories /\ TypeInv /\ TypeInv' /\ OrderInv /\ [Next]_vars => OrderInv'
<1> SUFFICES ASSUME OwnDirectories, TypeInv, TypeInv', OrderInv, [Next]_vars PROVE OrderInv'
  OBVIOUS
<1>1. ASSUME UNCHANGED <<attached, wid, due, kq, gen, alive, armed>> PROVE OrderInv'
  BY <1>1 DEF OrderInv, Wd, Watched
<1>2. CASE Environment
  <2>1. ASSUME NEW d \in Dirs, RemoveDir(d) PROVE OrderInv'
    <3>1. /\ d \in alive /\ alive' = alive \ {d} /\ armed' = armed \ {Wd(d)}
          /\ Notify(Wd(d), "ignored", "none") /\ UNCHANGED <<wid, gen, attached, due>>
      BY <2>1 DEF RemoveDir, setupVars
    <3>2. QED
      BY <3>1, NotifyOrder
  <2>2. ASSUME NEW f \in Files, NEW d \in Dirs, Create(f, d) PROVE OrderInv'
    <3>1. /\ d \in alive /\ alive' = alive /\ armed' = armed
          /\ Notify(Wd(d), "create", f) /\ UNCHANGED <<wid, gen, attached, due>>
      BY <2>2 DEF Create, setupVars
    <3>2. QED
      BY <3>1, NotifyOrder
  <2>3. ASSUME NEW f \in Files, NEW d \in Dirs, Complete(f, d) PROVE OrderInv'
    <3>1. /\ d \in alive /\ alive' = alive /\ armed' = armed
          /\ Notify(Wd(d), "file", f) /\ UNCHANGED <<wid, gen, attached, due>>
      BY <2>3 DEF Complete, setupVars
    <3>2. QED
      BY <3>1, NotifyOrder
  <2>4. QED
    BY <1>2, <2>1, <2>2, <2>3, MakeDirOrder DEF Environment
<1>3. CASE AddWatch
  <2>1. /\ Connect({attached + 1}) /\ attached' = attached + 1 /\ attached < NumInputs
        /\ attached \in Nat /\ NumInputs \in Nat /\ UNCHANGED <<gen, alive, kq>>
    BY <1>3, FAMAssumption DEF AddWatch, TypeInv
  <2>2. attached + 1 \in Inputs /\ attached + 1 > attached
    BY <2>1 DEF Inputs
  <2>3. wid[attached + 1] = NoWatch
    BY <2>2 DEF OrderInv
  <2>4. {attached + 1} \in SUBSET Inputs /\ attached <= attached' /\ attached' \in Nat
    BY <2>1, <2>2
  <2>5. \A i \in {attached + 1} : wid[i] = NoWatch /\ i <= attached'
    BY <2>1, <2>3
  <2>6. QED
    BY <2>1, <2>4, <2>5, ConnectOrder
<1>4. CASE StartRead
  <2>1. Connect(Disconnected) /\ UNCHANGED <<gen, alive, kq, attached>>
    BY <1>4 DEF StartRead, setupVars
  <2>2. Disconnected \in SUBSET Inputs /\ attached <= attached' /\ attached' \in Nat
    BY <2>1 DEF Disconnected, TypeInv
  <2>3. \A i \in Disconnected : wid[i] = NoWatch /\ i <= attached'
    BY <2>1 DEF Disconnected, OrderInv
  <2>4. QED
    BY <2>1, <2>2, <2>3, ConnectOrder
<1>5. CASE ReadStep
  <2>1. CASE ReadNothing
    BY <1>1, <2>1 DEF ReadNothing, dirVars, setupVars
  <2>2. QED
    BY <1>5, <2>1, ReadOrder DEF ReadStep
<1>6. CASE Scan \/ SkipRead \/ Process
  BY <1>1, <1>6 DEF Scan, SkipRead, Process, dirVars, setupVars
<1>7. ASSUME NEW i \in Inputs, WaitOver(i) PROVE OrderInv'
  <2>1. /\ i <= attached /\ due' = [due EXCEPT ![i] = TRUE] /\ due \in [Inputs -> BOOLEAN]
        /\ UNCHANGED <<attached, wid, kq, gen, alive, armed>>
    BY <1>7 DEF WaitOver, dirVars, setupVars, TypeInv
  <2>2. \A j \in Inputs : due'[j] => j <= attached'
    BY <2>1 DEF OrderInv
  <2>3. QED
    BY <2>1, <2>2 DEF OrderInv, Wd, Watched
<1>8. CASE Terminated \/ UNCHANGED vars
  BY <1>1, <1>8 DEF Terminated, vars
<1>9. QED
  BY <1>2, <1>3, <1>4, <1>5, <1>6, <1>7, <1>8 DEF Next

\* One file more that was written.
LEMMA ReportedAppend ==
  ASSUME NEW s \in Seq(Writings), NEW x \in Writings
  PROVE  Reported(Append(s, x)) = IF x.reported THEN Append(Reported(s), x.file) ELSE Reported(s)
<1>1. PICK g : g = [y \in {z \in Writings : z.reported} |-> y.file]
  OBVIOUS
<1>2. \A r : Reported(r) = Gather(r, g)
  BY <1>1 DEF Reported
<1>3. Gather(Append(s, x), g) = IF x \in DOMAIN g THEN Append(Gather(s, g), g[x]) ELSE Gather(s, g)
  BY GatherAppend
<1>4. (x \in DOMAIN g <=> x.reported) /\ (x.reported => g[x] = x.file)
  BY <1>1
<1>5. QED
  BY <1>2, <1>3, <1>4

\* A file whose notification the kernel queues is reported, one that it drops
\* is not.
LEMMA NotifyInOrder ==
  ASSUME TypeInv, InOrder, NEW d \in alive,
         NEW kind \in {"create", "file", "ignored"}, NEW f \in Files \cup {"none"},
         Notify(Wd(d), kind, f), UNCHANGED <<handled, events>>,
         kind = "file" => f \in Files,
         written' = IF kind = "file" /\ Wd(d) \in armed
                    THEN [written EXCEPT ![d] = Append(@, [file |-> f, reported |-> Len(kq) < KernelMax])]
                    ELSE written
  PROVE  InOrder'
<1> DEFINE x == [file |-> f, reported |-> Len(kq) < KernelMax]
<1>0. /\ d \in Dirs /\ \A e \in Dirs : written[e] \in Seq(Writings)
      /\ Len(kq) <= KernelMax /\ Len(kq) \in Nat /\ KernelMax \in Nat
  BY FAMAssumption DEF TypeInv
<1>1. CASE kq' = kq
  <2>1. ~ (Wd(d) \in armed /\ Len(kq) # KernelMax)
    BY <1>1, NotifyOK
  <2>2. ASSUME kind = "file", Wd(d) \in armed
        PROVE  Reported(Append(written[d], x)) = Reported(written[d])
    <3>1. x \in Writings /\ ~ x.reported
      <4>1. ~ (Len(kq) < KernelMax)
        BY <1>0, <2>1, <2>2
      <4>2. (Len(kq) < KernelMax) = FALSE
        BY <4>1
      <4>3. x = [file |-> f, reported |-> FALSE]
        BY <4>2
      <4>4. f \in Files
        BY <2>2
      <4> HIDE DEF x
      <4>5. QED
        BY <4>3, <4>4 DEF Writings
    <3>2. QED
      BY <1>0, <3>1, ReportedAppend
  <2>3. \A e \in Dirs : Reported(written'[e]) = Reported(written[e])
    BY <2>2 DEF TypeInv
  <2>4. \A i \in Inputs : DirOf[i] \in Dirs
    BY FAMAssumption
  <2>5. QED
    BY <1>1, <2>3, <2>4 DEF InOrder
<1>2. CASE kq' # kq
  <2>0. Wd(d) \in armed /\ Len(kq) < KernelMax
    BY <1>0, <1>2 DEF Notify
  <2>1. PICK k \in KernelEvents :
          k = [wd |-> Wd(d), kind |-> kind, file |-> f] /\ kq' = Append(kq, k)
    <3> HIDE DEF x
    <3>1. \/ kq' = kq /\ ~ (Wd(d) \in armed /\ Len(kq) # KernelMax)
          \/ \E k \in KernelEvents :
               /\ k = [wd |-> Wd(d), kind |-> kind, file |-> f]
               /\ kq' = Append(kq, k) /\ kq' # kq /\ Wd(d) \in armed
               /\ Len(kq') = Len(kq) + 1 /\ kq'[Len(kq) + 1] = k
      BY NotifyOK, Zenon
    <3>2. QED
      BY <1>2, <3>1
  <2>2. k.wd[1] = d /\ k.kind = kind /\ k.file = f /\ d \in Dirs
    BY <2>1, WdOK DEF TypeInv
  <2>3. kq \in Seq(KernelEvents) /\ handled \in Seq(Events) /\ events \in Seq(Events)
    BY DEF TypeInv
  <2>4. ASSUME NEW i \in Inputs
        PROVE  Reported(written'[DirOf[i]]) =
                 FilesFor(i, handled) \o FilesFor(i, events) \o FilesIn(DirOf[i], Append(kq, k))
    <3>1. PICK a \in Seq(Names) : a = FilesFor(i, handled) \o FilesFor(i, events)
      <4>1. FilesFor(i, handled) \in Seq(Names) /\ FilesFor(i, events) \in Seq(Names)
        BY <2>3, FilesForConcat
      <4>2. FilesFor(i, handled) \o FilesFor(i, events) \in Seq(Names)
        BY <4>1
      <4>3. QED
        BY <4>2
    <3>2. PICK b \in Seq(Names) : b = FilesIn(DirOf[i], kq)
      BY <2>3, FilesInConcat
    <3>3. Reported(written[DirOf[i]]) = a \o b
      BY <3>1, <3>2 DEF InOrder
    <3>4. FilesIn(DirOf[i], Append(kq, k)) = IF d = DirOf[i] /\ kind = "file" THEN Append(b, f) ELSE b
      BY <2>2, <2>3, <3>2, FilesInAppend
    <3>5. CASE d = DirOf[i] /\ kind = "file"
      <4>1. Reported(written'[DirOf[i]]) = Append(a \o b, f)
        <5>1. x \in Writings /\ x.reported /\ x.file = f
          BY <1>0, <2>0, <3>5 DEF Writings
        <5>2. Reported(Append(written[d], x)) = Append(Reported(written[d]), f)
          BY <1>0, <5>1, ReportedAppend
        <5>3. written'[d] = Append(written[d], x)
          BY <2>0, <2>2, <3>5 DEF TypeInv
        <5>4. QED
          BY <3>3, <3>5, <5>2, <5>3
      <4>2. Append(a \o b, f) = a \o Append(b, f)
        <5>1. PICK ab \in Seq(Names) : ab = a \o b
          BY ConcatProperties
        <5>2. f \in Names /\ <<f>> \in Seq(Names)
          BY DEF Names
        <5>3. Append(ab, f) = ab \o <<f>> /\ Append(b, f) = b \o <<f>>
          BY <5>2, AppendIsConcat
        <5>4. (a \o b) \o <<f>> = a \o (b \o <<f>>)
          BY <5>2, ConcatAssociative, SMTT(60)
        <5>5. QED
          BY <5>1, <5>3, <5>4
      <4>3. QED
        BY <3>1, <3>4, <3>5, <4>1, <4>2
    <3>6. CASE ~ (d = DirOf[i] /\ kind = "file")
      <4>1. written'[DirOf[i]] = written[DirOf[i]]
        BY <2>2, <3>6 DEF TypeInv
      <4>2. QED
        BY <3>1, <3>3, <3>4, <3>6, <4>1
    <3>7. QED
      BY <3>5, <3>6
  <2>5. QED
    BY <2>1, <2>4 DEF InOrder
<1>3. QED
  BY <1>1, <1>2

\* A read moves the files of a chunk from the notifications to the events.
LEMMA ReadInOrder ==
  ASSUME TypeInv, OrderInv, OwnDirectories, InOrder, NEW n, Read(n)
  PROVE  InOrder'
<1>1. PICK chunk : chunk = SubSeq(kq, 1, n)
  OBVIOUS
<1>2. /\ chunk \in Seq(KernelEvents) /\ kq' \in Seq(KernelEvents) /\ kq = chunk \o kq'
      /\ handled \in Seq(Events) /\ events \in Seq(Events)
  BY <1>1, ReadHalves DEF TypeInv
<1>3. PICK new \in Seq(Events) : new = NewEvents(chunk)
  BY <1>2, NewEventsType
<1>4. events' = events \o new /\ handled' = handled /\ written' = written
  BY <1>1, <1>3 DEF Read, dirVars
<1>5. ASSUME NEW i \in Inputs
      PROVE  Reported(written[DirOf[i]]) = FilesFor(i, handled) \o FilesFor(i, events \o new) \o FilesIn(DirOf[i], kq')
  <2>1. PICK a \in Seq(Names) : a = FilesFor(i, handled)
    BY <1>2, FilesForConcat
  <2>2. PICK b \in Seq(Names) : b = FilesFor(i, events)
    BY <1>2, FilesForConcat
  <2>3. PICK c \in Seq(Names) : c = FilesFor(i, new)
    BY <1>2, <1>3, FilesForConcat
  <2>4. PICK e \in Seq(Names) : e = FilesIn(DirOf[i], kq')
    BY <1>2, FilesInConcat
  <2>5. c = FilesIn(DirOf[i], chunk)
    BY <1>1, <1>3, <2>3, ReadFiles
  <2>6. FilesIn(DirOf[i], kq) = c \o e
    BY <1>2, <2>4, <2>5, FilesInConcat
  <2>7. Reported(written[DirOf[i]]) = (a \o b) \o (c \o e)
    BY <2>1, <2>2, <2>6 DEF InOrder
  <2>8. FilesFor(i, events \o new) = b \o c
    BY <1>2, <1>3, <2>2, <2>3, FilesForConcat
  <2>9. (a \o b) \o (c \o e) = (a \o (b \o c)) \o e
    BY ConcatFour, SMTT(60)
  <2>10. QED
    BY <2>1, <2>4, <2>7, <2>8, <2>9
<1>6. QED
  BY <1>4, <1>5 DEF InOrder

\* Processing moves the files of a batch from the events to what is handled.
LEMMA ProcessInOrder ==
  ASSUME TypeInv, InOrder, Process
  PROVE  InOrder'
<1>1. handled \in Seq(Events) /\ events \in Seq(Events)
  BY DEF TypeInv
<1>2. PICK batch \in Seq(Events) : batch = Batch(events)
  BY <1>1, BatchAndRest
<1>3. PICK rest \in Seq(Events) : rest = Rest(events)
  BY <1>1, BatchAndRest
<1>4. events = batch \o rest
  BY <1>1, <1>2, <1>3, BatchAndRest
<1>5. handled' = handled \o batch /\ events' = rest /\ kq' = kq /\ written' = written
  BY <1>2, <1>3 DEF Process, dirVars
<1>6. ASSUME NEW i \in Inputs
      PROVE  FilesFor(i, handled) \o FilesFor(i, events) = FilesFor(i, handled \o batch) \o FilesFor(i, rest)
  <2>1. PICK a \in Seq(Names) : a = FilesFor(i, handled)
    BY <1>1, FilesForConcat
  <2>2. PICK b \in Seq(Names) : b = FilesFor(i, batch)
    BY <1>1, <1>2, FilesForConcat
  <2>3. PICK c \in Seq(Names) : c = FilesFor(i, rest)
    BY <1>1, <1>3, FilesForConcat
  <2>4. FilesFor(i, events) = b \o c /\ FilesFor(i, handled \o batch) = a \o b
    <3>1. FilesFor(i, batch \o rest) = FilesFor(i, batch) \o FilesFor(i, rest)
      BY FilesForConcat
    <3>2. FilesFor(i, handled \o batch) = FilesFor(i, handled) \o FilesFor(i, batch)
      BY <1>1, FilesForConcat
    <3>3. QED
      BY <1>4, <2>1, <2>2, <2>3, <3>1, <3>2
  <2>5. a \o (b \o c) = (a \o b) \o c
    BY ConcatAssociative, SMTT(60)
  <2>6. QED
    BY <2>1, <2>3, <2>4, <2>5
<1>7. QED
  BY <1>5, <1>6 DEF InOrder

\* Every step.
LEMMA NextInOrder ==
  OwnDirectories /\ TypeInv /\ OrderInv /\ InOrder /\ [Next]_vars => InOrder'
<1> SUFFICES ASSUME OwnDirectories, TypeInv, OrderInv, InOrder, [Next]_vars PROVE InOrder'
  OBVIOUS
<1>1. ASSUME UNCHANGED <<written, handled, events, kq>> PROVE InOrder'
  BY <1>1 DEF InOrder
<1>2. CASE Environment
  <2>1. ASSUME NEW d \in Dirs, MakeDir(d) PROVE InOrder'
    BY <1>1, <2>1 DEF MakeDir
  <2>2. ASSUME NEW d \in Dirs, RemoveDir(d) PROVE InOrder'
    <3>1. d \in alive /\ Notify(Wd(d), "ignored", "none") /\ UNCHANGED <<written, handled, events>>
      BY <2>2 DEF RemoveDir
    <3>2. QED
      BY <3>1, NotifyInOrder
  <2>3. ASSUME NEW f \in Files, NEW d \in Dirs, Create(f, d) PROVE InOrder'
    <3>1. d \in alive /\ Notify(Wd(d), "create", f) /\ UNCHANGED <<written, handled, events>>
      BY <2>3 DEF Create
    <3>2. QED
      BY <3>1, NotifyInOrder
  <2>4. ASSUME NEW f \in Files, NEW d \in Dirs, Complete(f, d) PROVE InOrder'
    <3>1. /\ d \in alive /\ Notify(Wd(d), "file", f) /\ UNCHANGED <<handled, events>>
          /\ written' = IF Wd(d) \in armed
                        THEN [written EXCEPT ![d] = Append(@, [file |-> f, reported |-> Len(kq) < KernelMax])]
                        ELSE written
      BY <2>4 DEF Complete
    <3>2. QED
      BY <3>1, NotifyInOrder
  <2>5. QED
    BY <1>2, <2>1, <2>2, <2>3, <2>4 DEF Environment
<1>3. CASE Scan \/ AddWatch \/ StartRead \/ SkipRead
  BY <1>1, <1>3 DEF Scan, AddWatch, StartRead, SkipRead, dirVars
<1>4. CASE ReadStep
  <2>1. CASE ReadNothing
    BY <1>1, <2>1 DEF ReadNothing, dirVars
  <2>2. QED
    BY <1>4, <2>1, ReadInOrder DEF ReadStep
<1>5. CASE Process
  BY <1>5, ProcessInOrder
<1>6. ASSUME NEW i \in Inputs, WaitOver(i) PROVE InOrder'
  BY <1>1, <1>6 DEF WaitOver, dirVars
<1>7. CASE Terminated \/ UNCHANGED vars
  BY <1>1, <1>7 DEF Terminated, vars
<1>8. QED
  BY <1>2, <1>3, <1>4, <1>5, <1>6, <1>7 DEF Next

\* The initial states.
LEMMA InitOrder == Init => OrderInv /\ InOrder
<1> SUFFICES ASSUME Init PROVE OrderInv /\ InOrder
  OBVIOUS
<1>1. OrderInv
  BY DEF Init, OrderInv
<1>2. ASSUME NEW i \in Inputs PROVE FilesFor(i, <<>>) = <<>> /\ FilesIn(DirOf[i], <<>>) = <<>>
  BY GatherEmpty DEF FilesFor, FilesIn
<1>3. DirOf \in [Inputs -> Dirs]
  BY FAMAssumption
<1>4. Reported(<<>>) = <<>>
  BY GatherEmpty DEF Reported
<1>5. ASSUME NEW i \in Inputs
      PROVE  Reported(written[DirOf[i]])
               = FilesFor(i, handled) \o FilesFor(i, events) \o FilesIn(DirOf[i], kq)
  <2>1. written[DirOf[i]] = <<>> /\ handled = <<>> /\ events = <<>> /\ kq = <<>>
    BY <1>3 DEF Init
  <2>2. <<>> \o <<>> \o <<>> = <<>>
    OBVIOUS
  <2>3. QED
    BY <1>2, <1>4, <2>1, <2>2
<1>6. QED
  BY <1>1, <1>5 DEF InOrder

(* What is written into a watched directory reaches its input once and in   *)
(* the order it was written, whatever directories go and come, whenever the *)
(* kernel's queue is read and however it is cut, and over disconnections    *)
(* and reconnections; what is missing was completed when that queue was     *)
(* full.                                                                    *)
THEOREM FilesInOrder ==
  ASSUME OwnDirectories
  PROVE  SafetySpec => []InOrder
<1>1. TypeInv /\ TypeInv' /\ OrderInv /\ [Next]_vars => OrderInv'
  BY NextOrder
<1>2. TypeInv /\ OrderInv /\ InOrder /\ [Next]_vars => InOrder'
  BY NextInOrder
<1>3. QED
  BY InitType, InitOrder, NextType, <1>1, <1>2, PTL DEF SafetySpec
==============================================================================
