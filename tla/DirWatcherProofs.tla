--------------------------- MODULE DirWatcherProofs ---------------------------
(***************************************************************************)
(* DirWatcher for every tree, clock, threshold and size of the queue: its  *)
(* type, that no version of a file is handed over twice, and that an       *)
(* archive is read completely.                                             *)
(***************************************************************************)
EXTENDS DirWatcher, SequenceTheorems, TLAPS

-----------------------------------------------------------------------------
(* Sequences and the stack *)

\* A batch and the rest are the queue.
LEMMA BatchAndRest ==
  ASSUME NEW X, NEW s \in Seq(X)
  PROVE  /\ Batch(s) \in Seq(X) /\ Rest(s) \in Seq(X)
         /\ s = Batch(s) \o Rest(s)
<1>1. PICK n \in 0..Len(s) : n = BatchSize(s)
  BY WatcherAssumption DEF BatchSize
<1>2. Batch(s) = SubSeq(s, 1, n) /\ Rest(s) = SubSeq(s, n + 1, Len(s))
  BY <1>1 DEF Batch, Rest
<1>3. SubSeq(s, 1, n) \in Seq(X) /\ SubSeq(s, n + 1, Len(s)) \in Seq(X)
  OBVIOUS
<1>4. SubSeq(s, 1, n) \o SubSeq(s, n + 1, Len(s)) = SubSeq(s, 1, Len(s))
  <2>1. 1 \in 1..Len(s)+1 /\ n \in 1-1..Len(s) /\ Len(s) \in n..Len(s)
    OBVIOUS
  <2>2. QED
    BY <2>1, ConcatAdjacentSubSeq
<1>5. QED
  BY <1>2, <1>3, <1>4, SubSeqFull

\* SetTop: the call at the top is another, the others stay.
LEMMA SetTopIs ==
  ASSUME NEW X, stack \in Seq(X), stack # <<>>, NEW c \in X
  PROVE  /\ SetTop(c) \in Seq(X) /\ Len(SetTop(c)) = Len(stack) /\ Len(stack) \in Nat \ {0}
         /\ DOMAIN SetTop(c) = DOMAIN stack /\ DOMAIN stack = 1..Len(stack)
         /\ SetTop(c)[1] = c /\ 1 \in DOMAIN stack
         /\ \A i \in DOMAIN stack : i # 1 => SetTop(c)[i] = stack[i]
<1>1. /\ Tail(stack) \in Seq(X) /\ Len(Tail(stack)) = Len(stack) - 1 /\ Len(stack) \in Nat \ {0}
      /\ \A i \in 1..Len(Tail(stack)) : Tail(stack)[i] = stack[i + 1]
  OBVIOUS
<1>2. <<c>> \in Seq(X) /\ Len(<<c>>) = 1 /\ <<c>>[1] = c
  OBVIOUS
<1>3. PICK s : s = SetTop(c)
  OBVIOUS
<1>4. /\ s \in Seq(X) /\ Len(s) = 1 + (Len(stack) - 1)
      /\ \A i \in 1..1 + (Len(stack) - 1) : s[i] = IF i <= 1 THEN <<c>>[i] ELSE Tail(stack)[i - 1]
  BY <1>1, <1>2, <1>3, ConcatProperties DEF SetTop
<1>5. s \in Seq(X) /\ Len(s) = Len(stack) /\ DOMAIN s = 1..Len(stack) /\ DOMAIN stack = 1..Len(stack)
  BY <1>1, <1>4
<1>6. s[1] = c
  BY <1>1, <1>2, <1>4
<1>7. ASSUME NEW i \in 1..Len(stack), i # 1 PROVE s[i] = stack[i]
  <2>1. i - 1 \in 1..Len(Tail(stack)) /\ i - 1 + 1 = i /\ i \in 1..1 + (Len(stack) - 1) /\ ~ (i <= 1)
    BY <1>1, <1>7
  <2>2. s[i] = Tail(stack)[i - 1] /\ Tail(stack)[i - 1] = stack[i - 1 + 1]
    BY <1>1, <1>4, <2>1
  <2>3. QED
    BY <2>1, <2>2
<1>8. QED
  BY <1>1, <1>3, <1>5, <1>6, <1>7

\* A call is put on top.
LEMMA PushIs ==
  ASSUME NEW X, NEW s \in Seq(X), NEW c \in X
  PROVE  /\ <<c>> \o s \in Seq(X) /\ Len(<<c>> \o s) = Len(s) + 1
         /\ DOMAIN (<<c>> \o s) = 1..Len(s) + 1 /\ DOMAIN s = 1..Len(s) /\ Len(s) \in Nat
         /\ (<<c>> \o s)[1] = c
         /\ \A i \in 1..Len(s) : (<<c>> \o s)[i + 1] = s[i]
<1>1. <<c>> \in Seq(X) /\ Len(<<c>>) = 1 /\ <<c>>[1] = c /\ Len(s) \in Nat
  OBVIOUS
<1>2. PICK p : p = <<c>> \o s
  OBVIOUS
<1>3. /\ p \in Seq(X) /\ Len(p) = 1 + Len(s)
      /\ \A i \in 1..1 + Len(s) : p[i] = IF i <= 1 THEN <<c>>[i] ELSE s[i - 1]
  BY <1>1, <1>2, ConcatProperties
<1>4. p[1] = c
  BY <1>1, <1>3
<1>5. ASSUME NEW i \in 1..Len(s) PROVE p[i + 1] = s[i]
  <2>1. i + 1 \in 1..1 + Len(s) /\ ~ (i + 1 <= 1) /\ i + 1 - 1 = i
    BY <1>1
  <2>2. QED
    BY <1>3, <2>1
<1>6. QED
  BY <1>1, <1>2, <1>3, <1>4, <1>5

\* The top is the first.
LEMMA TopIs ==
  ASSUME NEW X, stack \in Seq(X), stack # <<>>
  PROVE  Top = stack[1] /\ Top \in X /\ 1 \in DOMAIN stack /\ DOMAIN stack = 1..Len(stack)
BY DEF Top

\* scan() returns.
LEMMA PopIs ==
  ASSUME NEW X, stack \in Seq(X), stack # <<>>
  PROVE  /\ Tail(stack) \in Seq(X) /\ Len(Tail(stack)) = Len(stack) - 1
         /\ DOMAIN Tail(stack) = 1..Len(stack) - 1 /\ DOMAIN stack = 1..Len(stack)
         /\ Len(stack) \in Nat \ {0}
         /\ \A i \in 1..Len(stack) - 1 : Tail(stack)[i] = stack[i + 1] /\ i + 1 \in 1..Len(stack)
         /\ Tail(stack) = <<>> <=> Len(stack) = 1
<1>1. /\ Tail(stack) \in Seq(X) /\ Len(Tail(stack)) = Len(stack) - 1 /\ Len(stack) \in Nat \ {0}
      /\ \A i \in 1..Len(stack) - 1 : Tail(stack)[i] = stack[i + 1]
  OBVIOUS
<1>2. Tail(stack) = <<>> <=> Len(stack) = 1
  BY <1>1
<1>3. QED
  BY <1>1, <1>2

-----------------------------------------------------------------------------
(* The type of the state *)

\* The second of a time is not ahead of it.
LEMMA SecondOK ==
  ASSUME NEW t \in Nat
  PROVE  (t \div PerSecond) * PerSecond \in 0..t
<1>1. PerSecond \in Nat /\ PerSecond > 0
  BY DirAssumption
<1>2. t \div PerSecond \in Nat
  BY <1>1
<1>3. t = (t \div PerSecond) * PerSecond + (t % PerSecond) /\ t % PerSecond \in 0..PerSecond-1
  BY <1>1
<1>4. (t \div PerSecond) * PerSecond \in Nat
  BY <1>1, <1>2
<1>5. QED
  BY <1>1, <1>3, <1>4

\* A change status times of a step of another process.
LEMMA TouchOK ==
  ASSUME TypeOK, NEW e \in Entries, NEW t \in {0, clock}, Touch(e, t)
  PROVE  /\ ctime' \in [Entries -> 0..clock] /\ ctime'[e] = t
         /\ \A x \in Entries : x # e => ctime'[x] \in {ctime[x], clock}
         /\ \A x \in Entries : x # e /\ x # Parent[e] => ctime'[x] = ctime[x]
<1>1. clock \in 1..MaxTime /\ MaxTime \in Nat /\ ctime \in [Entries -> 0..clock]
  BY DirAssumption DEF TypeOK
<1>2. \A x \in Entries : ctime'[x] = IF x = e THEN t
                              ELSE IF x = Parent[e] /\ (t = 0 \/ ~ Exists(e)) THEN clock
                              ELSE ctime[x]
  BY DEF Touch
<1>3. ctime' = [x \in Entries |-> ctime'[x]]
  BY DEF Touch
<1>4. \A x \in Entries : ctime'[x] \in 0..clock
  BY <1>1, <1>2
<1>5. ctime' \in [Entries -> 0..clock]
  BY <1>3, <1>4
<1>6. QED
  BY <1>2, <1>5

\* A new call of scan().
LEMMA CallOK == ASSUME NEW d PROVE Call(d) \in Calls
  BY DEF Call, Calls, Children

\* The stack is a sequence of calls while it is not empty.
LEMMA InScan ==
  ASSUME TypeOK, Scanning
  PROVE  /\ stack \in Seq(Calls) /\ stack # <<>> /\ Top \in Calls /\ Top = stack[1]
         /\ low \in Nat /\ newlow \in Nat /\ clock \in Nat /\ low <= newlow
<1>1. stack \in Seq(Calls) /\ stack # <<>>
  BY DEF TypeOK
<1>2. low \in Nat /\ newlow \in Nat /\ clock \in Nat /\ low <= newlow
  BY DirAssumption DEF TypeOK
<1>3. QED
  BY <1>1, <1>2, TopIs

\* What Take does to stack, threshold and events.
LEMMA TakeType ==
  ASSUME TypeOK, Take
  PROVE  /\ stack' \in Seq(Calls) /\ stack' # <<>> /\ Top.entry \in Entries
         /\ newlow' \in 0..clock /\ newlow <= newlow' /\ ctime[Top.entry] <= newlow'
         /\ ctime[Top.entry] \in 1..MaxTime /\ ctime[Top.entry] > low
         /\ events' \in Seq(Versions)
<1>1. /\ Scanning /\ Top.entry # "none" /\ Exists(Top.entry)
      /\ GreaterStat(ctime[Top.entry], low)
      /\ newlow' = Larger(newlow, ctime[Top.entry])
  BY DEF Take
<1>2. /\ stack \in Seq(Calls) /\ stack # <<>> /\ Top \in Calls
      /\ newlow \in 0..clock /\ clock \in 1..MaxTime /\ ctime \in [Entries -> 0..clock]
      /\ MaxTime \in Nat /\ low \in 0..clock /\ events \in Seq(Versions)
  BY <1>1, InScan, DirAssumption DEF TypeOK
<1>3. Top.entry \in Entries
  BY <1>1, <1>2 DEF Calls
<1>4. PICK e \in Entries : e = Top.entry
  BY <1>3
<1>5. PICK t : t = ctime[e]
  OBVIOUS
<1>6. t \in 1..clock /\ t > low /\ t \in 1..MaxTime
  BY <1>1, <1>2, <1>4, <1>5 DEF Exists, GreaterStat
<1>7. newlow' \in 0..clock /\ newlow <= newlow' /\ t <= newlow'
  BY <1>1, <1>2, <1>4, <1>5, <1>6 DEF Larger
<1>8. PICK c : c = [Top EXCEPT !.entry = "none"]
  OBVIOUS
<1>9. c \in Calls
  BY <1>2, <1>8 DEF Calls
<1>10. PICK done : done = SetTop(c)
  OBVIOUS
<1>11. done \in Seq(Calls) /\ Len(done) \in Nat \ {0}
  BY <1>2, <1>9, <1>10, SetTopIs
<1>12. CASE e \in Subs
  <2>1. stack' = <<Call(e)>> \o done /\ events' = events
    BY <1>4, <1>8, <1>10, <1>12 DEF Take
  <2>2. PICK k \in Calls : k = Call(e)
    BY CallOK
  <2>3. stack' \in Seq(Calls) /\ Len(stack') = Len(done) + 1
    BY <1>11, <2>1, <2>2, PushIs
  <2>4. stack' # <<>>
    BY <1>11, <2>3
  <2>5. QED
    BY <1>2, <1>4, <1>5, <1>6, <1>7, <2>1, <2>3, <2>4
<1>13. CASE e \notin Subs
  <2>1. stack' = done /\ events' = Append(events, <<e, t>>)
    BY <1>4, <1>5, <1>8, <1>10, <1>13 DEF Take
  <2>2. <<e, t>> \in Versions
    BY <1>6, <1>13 DEF Versions, Entries
  <2>3. events' \in Seq(Versions)
    BY <1>2, <2>1, <2>2
  <2>4. stack' # <<>>
    BY <1>11, <2>1
  <2>5. QED
    BY <1>4, <1>5, <1>6, <1>7, <1>11, <2>1, <2>3, <2>4
<1>14. QED
  BY <1>12, <1>13

\* What Return does.
LEMMA ReturnType ==
  ASSUME TypeOK, Scanning, Return, newlow' = newlow
  PROVE  /\ stack' \in Seq(Calls) /\ pc' \in Pcs /\ low' \in 0..clock
         /\ (Scanning' <=> stack' # <<>>) /\ (Scanning' => low' <= newlow')
<1>1. /\ stack \in Seq(Calls) /\ stack # <<>> /\ low \in 0..clock /\ newlow \in 0..clock
      /\ low <= newlow /\ pc \in {"first", "poll"}
  BY DEF TypeOK, Scanning
<1>2. stack' = Tail(stack) /\ Tail(stack) \in Seq(Calls) /\ (Tail(stack) = <<>> <=> Len(stack) = 1)
      /\ Len(stack) \in Nat \ {0}
  BY <1>1, PopIs DEF Return
<1>3. CASE Len(stack) > 1
  <2>1. pc' = pc /\ low' = low
    BY <1>3 DEF Return
  <2>2. QED
    BY <1>1, <1>2, <1>3, <2>1 DEF Scanning, Pcs
<1>4. CASE ~ (Len(stack) > 1)
  <2>1. low' = newlow /\ pc' \in {"drain", "process"}
    BY <1>4 DEF Return
  <2>2. QED
    BY <1>1, <1>2, <1>4, <2>1 DEF Scanning, Pcs
<1>5. QED
  BY <1>3, <1>4

\* The initial states.
LEMMA InitType == Init => TypeOK
<1> SUFFICES ASSUME Init PROVE TypeOK
  OBVIOUS
<1>1. MaxTime \in Nat \ {0}
  BY DirAssumption
<1>2. ctime \in [Entries -> 0..clock] /\ clock \in 1..MaxTime /\ low \in 0..clock /\ newlow \in 0..clock
  BY <1>1 DEF Init
<1>3. /\ mode \in {"old", "new", "all"} /\ pc = "attach" /\ stack = <<>>
      /\ events = <<>> /\ handled = <<>> /\ steady = {} /\ broken = FALSE
  BY DEF Init
<1>4. stack \in Seq(Calls) /\ events \in Seq(Versions) /\ handled \in Seq(Versions)
  BY <1>3
<1>5. pc \in Pcs /\ ~ Scanning
  BY <1>3 DEF Pcs, Scanning
<1>6. QED
  BY <1>2, <1>3, <1>4, <1>5 DEF TypeOK

\* Every step.
LEMMA NextType == TypeOK /\ [Next]_vars => TypeOK'
<1> SUFFICES ASSUME TypeOK, [Next]_vars PROVE TypeOK'
  OBVIOUS
<1> USE DEF treeVars
<1>0. clock \in 1..MaxTime /\ MaxTime \in Nat /\ steady \subseteq Files
  BY DirAssumption DEF TypeOK
<1>1. ASSUME NEW e \in Entries, NEW t \in {0, clock}, Touch(e, t),
             stack' \in Seq(Calls), stack' = <<>> <=> stack = <<>>,
             steady' \subseteq steady,
             UNCHANGED <<mode, pc, low, newlow, events, handled, clock, broken>>
      PROVE  TypeOK'
  BY <1>1, TouchOK DEF TypeOK, Scanning
<1>2. CASE Environment
  <2>1. ASSUME NEW f \in Files, Write(f) PROVE TypeOK'
    <3>1. f \in Entries /\ Touch(f, clock) /\ stack' = stack /\ steady' \subseteq steady
      BY <2>1 DEF Write, Entries
    <3>2. QED
      BY <1>1, <2>1, <3>1 DEF Write, TypeOK
  <2>2. ASSUME NEW f \in Files, RemoveFile(f) PROVE TypeOK'
    <3>1. f \in Entries /\ Touch(f, 0) /\ steady' \subseteq steady
      BY <2>2 DEF RemoveFile, Entries
    <3>2. /\ stack \in Seq(Calls) /\ DOMAIN stack = 1..Len(stack) /\ Len(stack) \in Nat
          /\ stack' = [i \in DOMAIN stack |-> [stack[i] EXCEPT !.must = @ \ {f}]]
      BY <2>2 DEF RemoveFile, TypeOK
    <3>3. ASSUME NEW i \in DOMAIN stack PROVE [stack[i] EXCEPT !.must = @ \ {f}] \in Calls
      <4>1. stack[i] \in Calls
        BY <3>2
      <4>2. QED
        BY <4>1 DEF Calls
    <3>4. stack' \in [1..Len(stack) -> Calls]
      BY <3>2, <3>3
    <3>5. stack' \in Seq(Calls) /\ Len(stack') = Len(stack)
      BY <3>2, <3>4
    <3>6. stack' = <<>> <=> stack = <<>>
      BY <3>2, <3>5
    <3>7. QED
      BY <1>1, <2>2, <3>1, <3>5, <3>6 DEF RemoveFile
  <2>3. ASSUME NEW s \in Subs, MakeDir(s) PROVE TypeOK'
    <3>1. s \in Entries /\ Touch(s, clock) /\ stack' = stack /\ steady' \subseteq steady
      BY <2>3 DEF MakeDir, Entries
    <3>2. QED
      BY <1>1, <2>3, <3>1 DEF MakeDir, TypeOK
  <2>4. CASE ClockTick
    <3>1. clock' = clock + 1 /\ clock' \in 1..MaxTime
      BY <1>0, <2>4 DEF ClockTick
    <3>2. \A x \in 0..clock : x \in 0..clock'
      BY <1>0, <3>1
    <3>3. ctime' \in [Entries -> 0..clock']
      BY <2>4, <3>2 DEF ClockTick, TypeOK
    <3>4. QED
      BY <2>4, <3>1, <3>2, <3>3 DEF ClockTick, TypeOK, Scanning
  <2>5. QED
    BY <1>2, <2>1, <2>2, <2>3, <2>4 DEF Environment
<1>3. CASE AttachArchive \/ Poll
  <2>1. <<Call("root")>> \in Seq(Calls) /\ <<Call("root")>> # <<>>
    BY CallOK
  <2>2. stack' = <<Call("root")>> /\ newlow' = low /\ low' = low /\ pc' \in {"first", "poll"}
    BY <1>3 DEF AttachArchive, Poll
  <2>3. steady' \subseteq Files /\ low <= low
    BY <1>0, <1>3 DEF AttachArchive, Poll, TypeOK
  <2>4. QED
    BY <1>3, <2>1, <2>2, <2>3 DEF AttachArchive, Poll, TypeOK, Scanning, Pcs
<1>4. CASE AttachNow
  <2>1. low' \in 0..clock
    BY <1>0, <1>4, SecondOK DEF AttachNow
  <2>2. QED
    BY <1>4, <2>1 DEF AttachNow, TypeOK, Scanning, Pcs
<1>5. CASE Drain
  <2>1. handled' \in Seq(Versions) /\ events' \in Seq(Versions)
    BY <1>5 DEF Drain, TypeOK
  <2>2. QED
    BY <1>5, <2>1 DEF Drain, TypeOK, Scanning, Pcs
<1>6. CASE SkipPoll
  BY <1>6 DEF SkipPoll, TypeOK, Scanning, Pcs
<1>7. CASE Process
  <2>1. Batch(events) \in Seq(Versions) /\ Rest(events) \in Seq(Versions) /\ handled \in Seq(Versions)
    BY BatchAndRest DEF TypeOK
  <2>2. handled' \in Seq(Versions) /\ events' \in Seq(Versions)
    BY <1>7, <2>1 DEF Process
  <2>3. QED
    BY <1>7, <2>2 DEF Process, TypeOK, Scanning, Pcs
<1>8. ASSUME NEW c \in Calls, Scanning, stack' = SetTop(c),
             UNCHANGED <<mode, pc, low, newlow, events, handled, treeVars, broken>>
      PROVE  TypeOK'
  <2>1. SetTop(c) \in Seq(Calls) /\ Len(SetTop(c)) = Len(stack) /\ Len(stack) \in Nat \ {0}
    BY <1>8, InScan, SetTopIs
  <2>2. stack' \in Seq(Calls) /\ stack' # <<>> /\ stack # <<>>
    BY <1>8, <2>1
  <2>3. QED
    BY <1>8, <2>2 DEF TypeOK, Scanning
<1>9. CASE ScanStep
  <2>1. ASSUME NEW e \in Entries, ReadDir(e) PROVE TypeOK'
    <3>1. [must |-> Top.must \ {e}, left |-> Top.left \ {e}, entry |-> e] \in Calls
      BY <2>1, InScan DEF ReadDir, Calls
    <3>2. QED
      BY <1>8, <2>1, <3>1 DEF ReadDir
  <2>2. CASE CloseDir \/ StatFails
    <3>1. Scanning /\ Return /\ newlow' = newlow
      BY <2>2 DEF CloseDir, StatFails
    <3>2. QED
      BY <2>2, <3>1, ReturnType DEF CloseDir, StatFails, TypeOK
  <2>3. CASE PassOver
    <3>1. [Top EXCEPT !.entry = "none"] \in Calls
      BY <2>3, InScan DEF PassOver, Calls
    <3>2. QED
      BY <1>8, <2>3, <3>1 DEF PassOver
  <2>4. CASE Take
    <3>1. /\ stack' \in Seq(Calls) /\ stack' # <<>>
          /\ newlow' \in 0..clock /\ newlow <= newlow' /\ events' \in Seq(Versions)
      BY <2>4, TakeType
    <3>2. /\ Scanning /\ low \in 0..clock /\ newlow \in 0..clock /\ low <= newlow
          /\ UNCHANGED <<mode, pc, low, handled, treeVars, broken>>
      BY <2>4, InScan DEF Take, TypeOK
    <3>3. low <= newlow'
      BY <1>0, <3>1, <3>2
    <3>4. QED
      BY <3>1, <3>2, <3>3 DEF TypeOK, Scanning
  <2>5. QED
    BY <1>9, <2>1, <2>2, <2>3, <2>4 DEF ScanStep
<1>10. CASE Done \/ UNCHANGED vars
  BY <1>10 DEF Done, vars, TypeOK, Scanning
<1>11. QED
  BY <1>2, <1>3, <1>4, <1>5, <1>6, <1>7, <1>9, <1>10 DEF Next

\* Type correctness of the poller: calls while it scans and none else, and
\* thresholds that are not ahead of the clock.
THEOREM DirTypeCorrect == SafetySpec => []TypeOK
  BY InitType, NextType, PTL DEF SafetySpec

-----------------------------------------------------------------------------
(* No version twice *)

Taken == handled \o events

(* Where the calls s of a walk are: each on the directory path says, and N  *)
(* are the names it has not come to.  What the calls may still return is    *)
(* among those, and what is taken over the threshold is not.                *)
Walk(s, taken, threshold, N, path) ==
  /\ \A i, j \in DOMAIN s : path[i] = path[j] => i = j
  /\ \A i \in DOMAIN s : path[i] \notin N /\ s[i].left \subseteq Children(path[i]) \cap N
  /\ \A i \in DOMAIN s : i # 1 => s[i].entry = "none"
  /\ s[1].entry # "none" => s[1].entry \in (Children(path[1]) \cap N) \ s[1].left
  /\ \A e \in Entries : Parent[e] \in N => e \in N
  /\ \A i \in DOMAIN taken : taken[i][2] > threshold => taken[i][1] \notin N

Paths(s) == [DOMAIN s -> Subs \cup {"root"}]

\* What was taken is not over the threshold of the next scan, and what this
\* scan took it does not come to again.
OnceInv ==
  /\ AtMostOnce
  /\ pc = "attach" => Taken = <<>>
  /\ \A i \in DOMAIN Taken : Taken[i][2] <= IF Scanning THEN newlow ELSE low
  /\ Scanning => \E N \in SUBSET Entries : \E path \in Paths(stack) : Walk(stack, Taken, low, N, path)

\* What is taken are versions.
LEMMA TakenOK ==
  ASSUME TypeOK
  PROVE  Taken \in Seq(Versions) /\ \A i \in DOMAIN Taken : Taken[i][1] \in Files /\ Taken[i][2] \in Nat
<1>1. handled \in Seq(Versions) /\ events \in Seq(Versions)
  BY DEF TypeOK
<1>2. PICK t : t = Taken
  OBVIOUS
<1>3. t \in Seq(Versions)
  BY <1>1, <1>2, ConcatProperties DEF Taken
<1>4. ASSUME NEW i \in DOMAIN t PROVE t[i][1] \in Files /\ t[i][2] \in Nat
  <2>1. t[i] \in Versions
    BY <1>3
  <2>2. PICK f \in Files, c \in 1..MaxTime : t[i] = <<f, c>>
    BY <2>1 DEF Versions
  <2>3. QED
    BY <2>2, DirAssumption
<1>5. QED
  BY <1>2, <1>3, <1>4

\* A call returned an entry, or is done with it.
LEMMA WalkOn ==
  ASSUME NEW s, NEW q, NEW taken, NEW lo, NEW N \in SUBSET Entries, NEW path \in Paths(s),
         Walk(s, taken, lo, N, path), DOMAIN q = DOMAIN s, 1 \in DOMAIN s,
         \A i \in DOMAIN s : i # 1 => q[i].left = s[i].left /\ q[i].entry = s[i].entry,
         q[1].left \subseteq s[1].left,
         q[1].entry # "none" => \/ q[1].entry \in s[1].left \ q[1].left
                                \/ q[1].entry = s[1].entry
  PROVE  path \in Paths(q) /\ Walk(q, taken, lo, N, path)
<1>1. path \in Paths(q)
  BY DEF Paths
<1>2. /\ \A i, j \in DOMAIN q : path[i] = path[j] => i = j
      /\ \A i \in DOMAIN q : i # 1 => q[i].entry = "none"
      /\ \A e \in Entries : Parent[e] \in N => e \in N
      /\ \A i \in DOMAIN taken : taken[i][2] > lo => taken[i][1] \notin N
  BY DEF Walk
<1>3. ASSUME NEW i \in DOMAIN q
      PROVE  path[i] \notin N /\ q[i].left \subseteq Children(path[i]) \cap N
  <2>1. path[i] \notin N /\ s[i].left \subseteq Children(path[i]) \cap N
    BY DEF Walk
  <2>2. q[i].left \subseteq s[i].left
    OBVIOUS
  <2>3. QED
    BY <2>1, <2>2
<1>4. ASSUME q[1].entry # "none" PROVE q[1].entry \in (Children(path[1]) \cap N) \ q[1].left
  <2>1. s[1].left \subseteq Children(path[1]) \cap N
    BY DEF Walk
  <2>2. s[1].entry # "none" => s[1].entry \in (Children(path[1]) \cap N) \ s[1].left
    BY DEF Walk
  <2>3. QED
    BY <1>4, <2>1, <2>2
<1>5. QED
  BY <1>1, <1>2, <1>3, <1>4 DEF Walk

\* A file is taken: the walk does not come to it again.
LEMMA WalkFile ==
  ASSUME NEW s, NEW q, NEW taken \in Seq(Versions), NEW lo, NEW N \in SUBSET Entries,
         NEW path \in Paths(s), NEW v \in Versions,
         Walk(s, taken, lo, N, path), DOMAIN q = DOMAIN s, 1 \in DOMAIN s,
         \A i \in DOMAIN s : i # 1 => q[i] = s[i],
         q[1].left = s[1].left, q[1].entry = "none", s[1].entry = v[1], v[1] \in Files
  PROVE  path \in Paths(q) /\ Walk(q, Append(taken, v), lo, N \ {v[1]}, path)
<1>1. path \in Paths(q)
  BY DEF Paths
<1>2. PICK f \in Files : f = v[1]
  OBVIOUS
<1>3. /\ \A i, j \in DOMAIN q : path[i] = path[j] => i = j
      /\ \A i \in DOMAIN q : i # 1 => q[i].entry = "none"
  BY DEF Walk
<1>4. f \in Entries /\ f # "none"
  BY DirAssumption DEF Entries
<1>5. f \in N /\ f \notin s[1].left /\ Parent[f] = path[1] /\ path[1] \notin N
  BY <1>2, <1>4 DEF Walk, Children
<1>6. ASSUME NEW i \in DOMAIN q
      PROVE  path[i] \notin N \ {f} /\ q[i].left \subseteq Children(path[i]) \cap (N \ {f})
  <2>1. path[i] \notin N /\ s[i].left \subseteq Children(path[i]) \cap N
    BY DEF Walk
  <2>2. q[i].left = s[i].left
    OBVIOUS
  <2>3. f \notin s[i].left
    <3>1. CASE i = 1
      BY <1>5, <3>1
    <3>2. CASE i # 1
      <4>1. path[i] # path[1]
        BY <3>2 DEF Walk
      <4>2. QED
        BY <1>5, <2>1, <4>1 DEF Children
    <3>3. QED
      BY <3>1, <3>2
  <2>4. QED
    BY <2>1, <2>2, <2>3
<1>7. ASSUME NEW e \in Entries, Parent[e] \in N \ {f} PROVE e \in N \ {f}
  <2>1. e \in N
    BY <1>7 DEF Walk
  <2>2. e # f
    BY <1>5, <1>7
  <2>3. QED
    BY <2>1, <2>2
<1>8. ASSUME NEW i \in DOMAIN Append(taken, v), Append(taken, v)[i][2] > lo
      PROVE  Append(taken, v)[i][1] \notin N \ {f}
  <2>1. i \in 1..Len(taken) + 1 /\ Len(taken) \in Nat /\ DOMAIN taken = 1..Len(taken)
    BY <1>8
  <2>2. CASE i = Len(taken) + 1
    <3>1. Append(taken, v)[i] = v
      BY <2>1, <2>2
    <3>2. QED
      BY <1>2, <3>1
  <2>3. CASE i # Len(taken) + 1
    <3>1. i \in 1..Len(taken) /\ Append(taken, v)[i] = taken[i]
      BY <2>1, <2>3
    <3>2. QED
      BY <1>8, <2>1, <3>1 DEF Walk
  <2>4. QED
    BY <2>2, <2>3
<1>9. QED
  BY <1>1, <1>2, <1>3, <1>6, <1>7, <1>8 DEF Walk

\* A directory is entered: its entries are still to come, all of them.
LEMMA WalkDown ==
  ASSUME NEW s \in Seq(Calls), NEW q \in Seq(Calls), NEW taken, NEW lo, NEW N \in SUBSET Entries,
         NEW path \in Paths(s), NEW d \in Subs,
         Walk(s, taken, lo, N, path), DOMAIN q = DOMAIN s, 1 \in DOMAIN s,
         \A i \in DOMAIN s : i # 1 => q[i] = s[i],
         q[1].left = s[1].left, q[1].entry = "none", s[1].entry = d
  PROVE  \E down \in Paths(<<Call(d)>> \o q) : Walk(<<Call(d)>> \o q, taken, lo, N \ {d}, down)
<1>1. PICK c \in Calls : c = Call(d)
  BY CallOK
<1>2. PICK p : p = <<c>> \o q
  OBVIOUS
<1>3. PICK n \in Nat : n = Len(q) /\ DOMAIN q = 1..n /\ DOMAIN s = 1..n /\ n >= 1
  BY PushIs
<1>4. /\ DOMAIN p = 1..n + 1 /\ p[1] = c /\ \A i \in 1..n : p[i + 1] = q[i]
  BY <1>2, <1>3, PushIs
<1>5. PICK down : down = [i \in 1..n + 1 |-> IF i = 1 THEN d ELSE path[i - 1]]
  OBVIOUS
<1>6. down[1] = d /\ \A i \in 1..n : down[i + 1] = path[i]
  BY <1>3, <1>5
<1>7. path \in [1..n -> Subs \cup {"root"}]
  BY <1>3 DEF Paths
<1>8. down \in Paths(p)
  BY <1>4, <1>5, <1>7 DEF Paths
<1>9. d \in Entries /\ d # "none"
  BY DirAssumption DEF Entries
<1>10. d \in N /\ d \notin s[1].left /\ Parent[d] = path[1] /\ path[1] \notin N
  BY <1>9 DEF Walk, Children
<1>11. \A i \in 1..n + 1 : i = 1 \/ \E k \in 1..n : i = k + 1
  <2>1. ASSUME NEW i \in 1..n + 1, i # 1 PROVE i - 1 \in 1..n /\ i = (i - 1) + 1
    BY <1>3, <2>1
  <2>2. QED
    BY <2>1
<1>12. ASSUME NEW k \in 1..n
       PROVE  /\ path[k] \notin N /\ path[k] # d
              /\ p[k + 1].left \subseteq Children(path[k]) \cap (N \ {d})
              /\ p[k + 1].entry = "none"
  <2>1. path[k] \notin N /\ s[k].left \subseteq Children(path[k]) \cap N
    BY <1>3 DEF Walk
  <2>2. q[k].left = s[k].left /\ q[k].entry = "none"
    BY <1>3 DEF Walk
  <2>3. d \notin s[k].left
    <3>1. CASE k = 1
      BY <1>10, <3>1
    <3>2. CASE k # 1
      <4>1. path[k] # path[1]
        BY <1>3, <3>2 DEF Walk
      <4>2. QED
        BY <1>10, <2>1, <4>1 DEF Children
    <3>3. QED
      BY <3>1, <3>2
  <2>4. QED
    BY <1>4, <1>10, <2>1, <2>2, <2>3
<1>13. \A i, j \in 1..n + 1 : down[i] = down[j] => i = j
  <2>1. \A k, l \in 1..n : path[k] = path[l] => k = l
    BY <1>3 DEF Walk
  <2>2. \A k \in 1..n : down[k + 1] # d
    BY <1>6, <1>12
  <2>3. ASSUME NEW i \in 1..n + 1, NEW j \in 1..n + 1, down[i] = down[j] PROVE i = j
    <3>1. CASE i = 1 \/ j = 1
      <4>1. ASSUME NEW k \in 1..n + 1, k # 1 PROVE down[k] # d
        <5>1. PICK l \in 1..n : k = l + 1
          BY <1>11, <4>1
        <5>2. QED
          BY <2>2, <5>1
      <4>2. QED
        BY <1>6, <2>3, <3>1, <4>1
    <3>2. CASE i # 1 /\ j # 1
      <4>1. PICK k \in 1..n : i = k + 1
        BY <1>11, <3>2
      <4>2. PICK l \in 1..n : j = l + 1
        BY <1>11, <3>2
      <4>3. path[k] = path[l]
        BY <1>6, <2>3, <4>1, <4>2
      <4>4. QED
        BY <2>1, <4>1, <4>2, <4>3
    <3>3. QED
      BY <3>1, <3>2
  <2>4. QED
    BY <2>3
<1>14. c.left = Children(d) /\ c.entry = "none"
  BY <1>1 DEF Call
<1>15. Children(d) \subseteq N \ {d}
  <2>1. ASSUME NEW e \in Entries, Parent[e] = d PROVE e \in N /\ e # d
    BY <1>10, <2>1 DEF Walk
  <2>2. QED
    BY <2>1 DEF Children
<1>16. ASSUME NEW i \in 1..n + 1
       PROVE  /\ down[i] \notin N \ {d}
              /\ p[i].left \subseteq Children(down[i]) \cap (N \ {d})
              /\ p[i].entry = "none"
  <2>1. CASE i = 1
    <3>1. p[i] = c /\ down[i] = d
      BY <1>4, <1>6, <2>1
    <3>2. d \notin N \ {d} /\ Children(d) \subseteq Children(d) \cap (N \ {d})
      BY <1>15
    <3>3. QED
      BY <1>14, <3>1, <3>2
  <2>2. CASE i # 1
    <3>1. PICK k \in 1..n : i = k + 1
      BY <1>11, <2>2
    <3>2. down[i] = path[k]
      BY <1>6, <3>1
    <3>3. QED
      BY <1>12, <3>1, <3>2
  <2>3. QED
    BY <2>1, <2>2
<1>17. ASSUME NEW e \in Entries, Parent[e] \in N \ {d} PROVE e \in N \ {d}
  <2>1. e \in N
    BY <1>17 DEF Walk
  <2>2. e # d
    BY <1>10, <1>17
  <2>3. QED
    BY <2>1, <2>2
<1>18. \A i \in DOMAIN taken : taken[i][2] > lo => taken[i][1] \notin N \ {d}
  BY DEF Walk
<1>19. p[1].entry = "none"
  BY <1>4, <1>14
<1>20. Walk(p, taken, lo, N \ {d}, down)
  BY <1>4, <1>13, <1>16, <1>17, <1>18, <1>19 DEF Walk
<1>21. QED
  BY <1>1, <1>2, <1>8, <1>20

\* A call returns to the one that made it.
LEMMA WalkUp ==
  ASSUME NEW s, NEW q, NEW n \in Nat, n >= 1, NEW taken, NEW lo, NEW N \in SUBSET Entries,
         NEW path \in Paths(s), Walk(s, taken, lo, N, path),
         DOMAIN s = 1..n + 1, DOMAIN q = 1..n, \A i \in 1..n : q[i] = s[i + 1]
  PROVE  \E up \in Paths(q) : Walk(q, taken, lo, N, up)
<1>1. PICK up : up = [i \in 1..n |-> path[i + 1]]
  OBVIOUS
<1>2. \A i \in 1..n : i + 1 \in 1..n + 1 /\ i + 1 # 1 /\ up[i] = path[i + 1]
  BY <1>1
<1>3. path \in [1..n + 1 -> Subs \cup {"root"}]
  BY DEF Paths
<1>4. up \in Paths(q)
  BY <1>1, <1>2, <1>3 DEF Paths
<1>5. ASSUME NEW i \in 1..n
      PROVE  /\ up[i] \notin N /\ q[i].left \subseteq Children(up[i]) \cap N
             /\ q[i].entry = "none"
  BY <1>2 DEF Walk
<1>6. ASSUME NEW i \in 1..n, NEW j \in 1..n, up[i] = up[j] PROVE i = j
  <2>1. i + 1 = j + 1
    BY <1>2, <1>6 DEF Walk
  <2>2. QED
    BY <2>1
<1>7. q[1].entry = "none"
  BY <1>5
<1>8. /\ \A e \in Entries : Parent[e] \in N => e \in N
      /\ \A i \in DOMAIN taken : taken[i][2] > lo => taken[i][1] \notin N
  BY DEF Walk
<1>9. Walk(q, taken, lo, N, up)
  BY <1>5, <1>6, <1>7, <1>8 DEF Walk
<1>10. QED
  BY <1>4, <1>9

\* Taken does not change when events are handed over.
LEMMA HandOver ==
  ASSUME TypeOK, Drain \/ Process
  PROVE  Taken' = Taken
<1>1. handled \in Seq(Versions) /\ events \in Seq(Versions)
  BY DEF TypeOK
<1>2. CASE Drain
  <2>1. handled' = handled \o events /\ events' = <<>>
    BY <1>2 DEF Drain
  <2>2. PICK t \in Seq(Versions) : t = handled \o events
    BY <1>1, ConcatProperties
  <2>3. t \o <<>> = t
    OBVIOUS
  <2>4. QED
    BY <2>1, <2>2, <2>3 DEF Taken
<1>3. CASE Process
  <2>1. PICK b \in Seq(Versions) : b = Batch(events)
    BY <1>1, BatchAndRest
  <2>2. PICK r \in Seq(Versions) : r = Rest(events)
    BY <1>1, BatchAndRest
  <2>3. events = b \o r
    BY <1>1, <2>1, <2>2, BatchAndRest
  <2>4. handled' = handled \o b /\ events' = r
    BY <1>3, <2>1, <2>2 DEF Process
  <2>5. (handled \o b) \o r = handled \o (b \o r)
    BY <1>1, ConcatAssociative, SMTT(60)
  <2>6. QED
    BY <2>3, <2>4, <2>5 DEF Taken
<1>4. QED
  BY <1>2, <1>3

\* One version more, that was not taken.
LEMMA TakenOnce ==
  ASSUME NEW t \in Seq(Versions), NEW v \in Versions,
         \A i, j \in 1..Len(t) : t[i] = t[j] => i = j, \A i \in 1..Len(t) : t[i] # v
  PROVE  \A i, j \in 1..Len(Append(t, v)) : Append(t, v)[i] = Append(t, v)[j] => i = j
<1>1. PICK a : a = Append(t, v)
  OBVIOUS
<1>2. /\ Len(t) \in Nat /\ Len(a) = Len(t) + 1 /\ a[Len(t) + 1] = v
      /\ \A i \in 1..Len(t) : a[i] = t[i]
      /\ \A i \in 1..Len(t) + 1 : i = Len(t) + 1 \/ i \in 1..Len(t)
  BY <1>1
<1>3. ASSUME NEW i \in 1..Len(a), NEW j \in 1..Len(a), a[i] = a[j] PROVE i = j
  BY <1>2, <1>3
<1>4. QED
  BY <1>1, <1>3

\* A step that neither scans nor takes.
LEMMA OnceQuiet ==
  ASSUME TypeOK, OnceInv, Taken' = Taken, UNCHANGED <<low, newlow>>,
         pc' = pc \/ (~ Scanning /\ ~ Scanning' /\ pc' # "attach"),
         Scanning => \A N \in SUBSET Entries : \A path \in Paths(stack) :
                       Walk(stack, Taken, low, N, path) =>
                         path \in Paths(stack)' /\ Walk(stack', Taken, low, N, path)
  PROVE  OnceInv'
<1>1. PICK t : t = Taken
  OBVIOUS
<1>2. t = Taken' /\ AtMostOnce'
  BY <1>1 DEF OnceInv, AtMostOnce, Taken
<1>3. (pc = "attach")' => Taken' = <<>>
  BY <1>1, <1>2 DEF OnceInv, Scanning
<1>4. Scanning' <=> Scanning
  BY DEF Scanning
<1>5. ASSUME NEW i \in DOMAIN t PROVE t[i][2] <= IF Scanning THEN newlow ELSE low
  BY <1>1 DEF OnceInv
<1>6. ASSUME Scanning
      PROVE  \E N \in SUBSET Entries : \E path \in Paths(stack)' : Walk(stack', Taken, low, N, path)
  <2>1. PICK N \in SUBSET Entries : \E path \in Paths(stack) : Walk(stack, Taken, low, N, path)
    BY <1>6 DEF OnceInv
  <2>2. PICK path \in Paths(stack) : Walk(stack, Taken, low, N, path)
    BY <2>1
  <2>3. QED
    BY <1>6, <2>2
<1>7. QED
  BY <1>1, <1>2, <1>3, <1>4, <1>5, <1>6 DEF OnceInv

\* The start of a scan: nothing was come to.
LEMMA OnceStart ==
  ASSUME TypeOK, OnceInv, ~ Scanning, stack' = <<Call("root")>>, newlow' = low,
         pc' \in {"first", "poll"}, UNCHANGED <<low, events, handled>>
  PROVE  OnceInv'
<1>1. PICK t : t = Taken
  OBVIOUS
<1>2. t = Taken' /\ AtMostOnce' /\ Scanning' /\ pc' # "attach" /\ low' = low
  BY <1>1 DEF OnceInv, AtMostOnce, Taken, Scanning
<1>3. /\ \A i \in DOMAIN t : t[i][2] <= low /\ t[i][2] \in Nat
      /\ low \in Nat
  BY <1>1, TakenOK, DirAssumption DEF OnceInv, TypeOK
<1>4. PICK s : s = <<Call("root")>>
  OBVIOUS
<1>5. PICK path : path = [i \in 1..1 |-> "root"]
  OBVIOUS
<1>6. DOMAIN s = 1..1 /\ s[1] = Call("root")
  BY <1>4
<1>7. path \in Paths(s) /\ path[1] = "root"
  BY <1>5, <1>6 DEF Paths
<1>8. "root" \notin Entries /\ Children("root") \subseteq Entries
  BY DirAssumption DEF Children
<1>9. s[1].left = Children("root") /\ s[1].entry = "none"
  BY <1>6 DEF Call
<1>10. Walk(s, t, low, Entries, path)
  BY <1>3, <1>6, <1>7, <1>8, <1>9 DEF Walk
<1>11. \E N \in SUBSET Entries : \E p \in Paths(s) : Walk(s, t, low, N, p)
  BY <1>7, <1>10
<1>12. QED
  BY <1>2, <1>3, <1>4, <1>11 DEF OnceInv

\* A return: to the caller, or from the scan with the new threshold.
LEMMA OnceReturn ==
  ASSUME TypeOK, OnceInv, Scanning, Return, UNCHANGED <<newlow, events, handled>>
  PROVE  OnceInv'
<1>1. PICK t : t = Taken
  OBVIOUS
<1>2. t = Taken' /\ AtMostOnce'
  BY <1>1 DEF OnceInv, AtMostOnce, Taken
<1>3. \A i \in DOMAIN t : t[i][2] <= newlow
  BY <1>1 DEF OnceInv
<1>4. stack \in Seq(Calls) /\ stack # <<>> /\ stack' = Tail(stack)
  BY InScan DEF Return
<1>5. /\ Len(stack) \in Nat \ {0}
      /\ DOMAIN stack' = 1..Len(stack) - 1 /\ DOMAIN stack = 1..Len(stack)
      /\ \A i \in 1..Len(stack) - 1 : stack'[i] = stack[i + 1]
  BY <1>4, PopIs
<1>6. CASE Len(stack) > 1
  <2>1. pc' = pc /\ low' = low /\ Scanning'
    BY <1>6 DEF Return, Scanning
  <2>2. PICK n \in Nat : n >= 1 /\ Len(stack) = n + 1
    <3>1. Len(stack) - 1 \in Nat /\ Len(stack) - 1 >= 1 /\ Len(stack) = (Len(stack) - 1) + 1
      BY <1>5, <1>6
    <3>2. QED
      BY <3>1
  <2>3. PICK N \in SUBSET Entries : \E path \in Paths(stack) : Walk(stack, t, low, N, path)
    BY <1>1 DEF OnceInv
  <2>4. PICK path \in Paths(stack) : Walk(stack, t, low, N, path)
    BY <2>3
  <2>5. PICK q : q = stack'
    OBVIOUS
  <2>6. DOMAIN stack = 1..n + 1 /\ DOMAIN q = 1..n /\ \A i \in 1..n : q[i] = stack[i + 1]
    BY <1>5, <2>2, <2>5
  <2>7. \E up \in Paths(q) : Walk(q, t, low, N, up)
    BY <2>2, <2>4, <2>6, WalkUp
  <2>8. pc' # "attach"
    BY <2>1 DEF Scanning
  <2>9. QED
    BY <1>2, <1>3, <2>1, <2>5, <2>7, <2>8 DEF OnceInv
<1>7. CASE ~ (Len(stack) > 1)
  <2>1. pc' \in {"drain", "process"} /\ low' = newlow
    BY <1>7 DEF Return
  <2>2. ~ Scanning' /\ pc' # "attach"
    BY <2>1 DEF Scanning
  <2>3. QED
    BY <1>2, <1>3, <2>1, <2>2 DEF OnceInv
<1>8. QED
  BY <1>6, <1>7

\* What Take takes.
LEMMA OnceTake ==
  ASSUME TypeOK, OnceInv, Take
  PROVE  OnceInv'
<1>1. PICK t : t = Taken
  OBVIOUS
<1>2. /\ Scanning /\ Scanning' /\ pc' # "attach" /\ low' = low /\ handled' = handled
      /\ stack \in Seq(Calls) /\ stack # <<>> /\ Top \in Calls /\ Top = stack[1]
      /\ low \in Nat /\ newlow \in Nat /\ handled \in Seq(Versions) /\ events \in Seq(Versions)
  BY InScan DEF Take, Scanning, TypeOK
<1>3. t \in Seq(Versions) /\ \A i \in DOMAIN t : t[i][2] <= newlow /\ t[i][2] \in Nat
  BY <1>1, <1>2, TakenOK DEF OnceInv
<1>4. PICK e \in Entries : e = Top.entry
  BY TakeType
<1>5. PICK c : c = ctime[e]
  OBVIOUS
<1>6. c \in 1..MaxTime /\ c > low /\ c <= newlow' /\ newlow <= newlow' /\ newlow' \in Nat /\ c \in Nat
  BY <1>2, <1>4, <1>5, TakeType, DirAssumption DEF TypeOK
<1>7. PICK call \in Calls : call = [Top EXCEPT !.entry = "none"]
  BY <1>2 DEF Calls
<1>8. call.left = Top.left /\ call.entry = "none"
  BY <1>2, <1>7 DEF Calls
<1>9. PICK done : done = SetTop(call)
  OBVIOUS
<1>10. /\ done \in Seq(Calls) /\ DOMAIN done = DOMAIN stack /\ done[1] = call
       /\ \A i \in DOMAIN stack : i # 1 => done[i] = stack[i]
       /\ 1 \in DOMAIN stack
  BY <1>2, <1>9, SetTopIs
<1>11. PICK N \in SUBSET Entries : \E path \in Paths(stack) : Walk(stack, t, low, N, path)
  BY <1>1, <1>2 DEF OnceInv
<1>12. PICK path \in Paths(stack) : Walk(stack, t, low, N, path)
  BY <1>11
<1>13. stack[1].entry = e /\ e # "none"
  BY <1>2, <1>4, DirAssumption
<1>14. CASE e \in Subs
  <2>1. stack' = <<Call(e)>> \o done /\ events' = events
    BY <1>4, <1>7, <1>9, <1>14 DEF Take
  <2>2. t = Taken' /\ AtMostOnce'
    BY <1>1, <1>2, <2>1 DEF OnceInv, AtMostOnce, Taken
  <2>3. \E down \in Paths(<<Call(e)>> \o done) : Walk(<<Call(e)>> \o done, t, low, N \ {e}, down)
    BY <1>2, <1>8, <1>10, <1>12, <1>13, <1>14, WalkDown
  <2>4. \A i \in DOMAIN t : t[i][2] <= newlow'
    BY <1>2, <1>3, <1>6
  <2>5. N \ {e} \in SUBSET Entries
    OBVIOUS
  <2>6. QED
    BY <1>2, <2>1, <2>2, <2>3, <2>4, <2>5 DEF OnceInv
<1>15. CASE e \notin Subs
  <2>1. stack' = done /\ events' = Append(events, <<e, c>>) /\ e \in Files
    BY <1>4, <1>5, <1>7, <1>9, <1>15 DEF Take, Entries
  <2>2. PICK v \in Versions : v = <<e, c>>
    BY <1>6, <2>1 DEF Versions
  <2>3. v[1] = e /\ v[2] = c
    BY <2>2
  <2>4. PICK a \in Seq(Versions) : a = Append(t, v)
    <3>1. Append(t, v) \in Seq(Versions)
      BY <1>3
    <3>2. QED
      BY <3>1
  <2>5. Taken' = a
    <3>1. Append(events, v) = events \o <<v>> /\ <<v>> \in Seq(Versions)
      BY <1>2, AppendIsConcat
    <3>2. Append(t, v) = t \o <<v>>
      BY <1>3, AppendIsConcat
    <3>3. (handled \o events) \o <<v>> = handled \o (events \o <<v>>)
      BY <1>2, <3>1, ConcatAssociative, SMTT(60)
    <3>4. QED
      BY <1>1, <1>2, <2>1, <2>2, <2>4, <3>1, <3>2, <3>3 DEF Taken
  <2>6. ASSUME NEW i \in 1..Len(t) PROVE t[i] # v
    <3>1. i \in DOMAIN t
      BY <1>3
    <3>2. e \in N
      BY <1>12, <1>13 DEF Walk
    <3>3. t[i][2] > low => t[i][1] \notin N
      BY <1>12, <3>1 DEF Walk
    <3>4. QED
      BY <1>6, <2>3, <3>2, <3>3
  <2>7. \A i, j \in 1..Len(t) : t[i] = t[j] => i = j
    BY <1>1 DEF OnceInv, AtMostOnce, Taken
  <2>8. \A i, j \in 1..Len(a) : a[i] = a[j] => i = j
    BY <1>3, <2>4, <2>6, <2>7, TakenOnce
  <2>9. AtMostOnce'
    BY <2>5, <2>8 DEF AtMostOnce, Taken
  <2>10. ASSUME NEW i \in DOMAIN a PROVE a[i][2] <= newlow'
    <3>1. i \in 1..Len(t) + 1 /\ Len(t) \in Nat
      BY <1>3, <2>4
    <3>2. CASE i = Len(t) + 1
      BY <1>3, <1>6, <2>3, <2>4, <3>2
    <3>3. CASE i # Len(t) + 1
      <4>1. i \in DOMAIN t /\ a[i] = t[i]
        BY <1>3, <2>4, <3>1, <3>3
      <4>2. QED
        BY <1>2, <1>3, <1>6, <4>1
    <3>4. QED
      BY <3>2, <3>3
  <2>11. path \in Paths(done) /\ Walk(done, Append(t, v), low, N \ {v[1]}, path)
    <3>1. \A i \in DOMAIN stack : i # 1 => done[i] = stack[i]
      BY <1>10
    <3>2. done[1].left = stack[1].left /\ done[1].entry = "none" /\ stack[1].entry = v[1] /\ v[1] \in Files
      BY <1>2, <1>8, <1>10, <1>13, <2>1, <2>3
    <3>3. QED
      BY <1>3, <1>10, <1>12, <3>1, <3>2, WalkFile
  <2>12. N \ {v[1]} \in SUBSET Entries
    OBVIOUS
  <2>13. QED
    BY <1>2, <2>1, <2>4, <2>5, <2>9, <2>10, <2>11, <2>12 DEF OnceInv
<1>16. QED
  BY <1>14, <1>15

\* Every step.
LEMMA NextOnce == TypeOK /\ OnceInv /\ [Next]_vars => OnceInv'
<1> SUFFICES ASSUME TypeOK, OnceInv, [Next]_vars PROVE OnceInv'
  OBVIOUS
<1> USE DEF treeVars
<1>1. ASSUME UNCHANGED <<handled, events>> PROVE Taken' = Taken
  BY <1>1 DEF Taken
<1>2. ASSUME UNCHANGED <<pc, stack, low, newlow, handled, events>> PROVE OnceInv'
  <2>1. Paths(stack)' = Paths(stack)
    BY <1>2 DEF Paths
  <2>2. QED
    BY <1>1, <1>2, <2>1, OnceQuiet
<1>3. ASSUME NEW f \in Files, RemoveFile(f) PROVE OnceInv'
  <2>1. PICK q : q = stack'
    OBVIOUS
  <2>2. /\ stack' = [i \in DOMAIN stack |-> [stack[i] EXCEPT !.must = @ \ {f}]]
        /\ UNCHANGED <<pc, low, newlow, handled, events>>
    BY <1>3 DEF RemoveFile
  <2>3. ASSUME Scanning, NEW N \in SUBSET Entries, NEW path \in Paths(stack),
               Walk(stack, Taken, low, N, path)
        PROVE  path \in Paths(q) /\ Walk(q, Taken, low, N, path)
    <3>1. stack \in Seq(Calls) /\ 1 \in DOMAIN stack
      BY <2>3, InScan, TopIs
    <3>2. ASSUME NEW i \in DOMAIN stack PROVE q[i].left = stack[i].left /\ q[i].entry = stack[i].entry
      <4>1. stack[i] \in Calls
        BY <3>1
      <4>2. QED
        BY <2>1, <2>2, <4>1 DEF Calls
    <3>3. DOMAIN q = DOMAIN stack
      BY <2>1, <2>2
    <3>4. QED
      BY <2>3, <3>1, <3>2, <3>3, WalkOn
  <2>4. \A path : path \in Paths(q) => path \in Paths(stack)'
    BY <2>1 DEF Paths
  <2>5. QED
    BY <1>1, <2>1, <2>2, <2>3, <2>4, OnceQuiet
<1>4. CASE Environment
  BY <1>2, <1>3, <1>4 DEF Environment, Write, MakeDir, ClockTick
<1>5. CASE AttachArchive \/ Poll
  BY <1>5, OnceStart DEF AttachArchive, Poll, Scanning
<1>6. CASE AttachNow
  <2>1. pc = "attach" /\ pc' = "idle" /\ UNCHANGED <<handled, events>>
    BY <1>6 DEF AttachNow
  <2>2. PICK t : t = Taken
    OBVIOUS
  <2>3. t = <<>> /\ t = Taken'
    BY <1>1, <2>1, <2>2 DEF OnceInv
  <2>4. AtMostOnce' /\ ~ Scanning' /\ DOMAIN t = {}
    BY <2>1, <2>3 DEF OnceInv, AtMostOnce, Taken, Scanning
  <2>5. QED
    BY <2>1, <2>3, <2>4 DEF OnceInv
<1>7. CASE Drain \/ Process \/ SkipPoll
  <2>1. Taken' = Taken
    BY <1>1, <1>7, HandOver DEF SkipPoll
  <2>2. UNCHANGED <<low, newlow>> /\ ~ Scanning /\ ~ Scanning' /\ pc' # "attach"
    BY <1>7 DEF Drain, Process, SkipPoll, Scanning
  <2>3. QED
    BY <2>1, <2>2, OnceQuiet
<1>8. ASSUME NEW c \in Calls, Scanning, stack' = SetTop(c),
             c.left \subseteq Top.left,
             c.entry # "none" => c.entry \in Top.left \ c.left,
             UNCHANGED <<pc, low, newlow, events, handled>>
      PROVE  OnceInv'
  <2>1. /\ stack \in Seq(Calls) /\ stack # <<>> /\ Top = stack[1]
    BY <1>8, InScan
  <2>2. PICK q : q = SetTop(c)
    OBVIOUS
  <2>3. /\ DOMAIN q = DOMAIN stack /\ q[1] = c /\ 1 \in DOMAIN stack
        /\ \A i \in DOMAIN stack : i # 1 => q[i] = stack[i]
    BY <2>1, <2>2, SetTopIs
  <2>4. ASSUME NEW N \in SUBSET Entries, NEW path \in Paths(stack),
               Walk(stack, Taken, low, N, path)
        PROVE  path \in Paths(q) /\ Walk(q, Taken, low, N, path)
    <3>1. \A i \in DOMAIN stack : i # 1 => q[i].left = stack[i].left /\ q[i].entry = stack[i].entry
      BY <2>3
    <3>2. /\ q[1].left \subseteq stack[1].left
          /\ q[1].entry # "none" => q[1].entry \in stack[1].left \ q[1].left
      BY <1>8, <2>1, <2>3
    <3>3. QED
      BY <2>3, <2>4, <3>1, <3>2, WalkOn
  <2>5. \A path : path \in Paths(q) => path \in Paths(stack)'
    BY <1>8, <2>2 DEF Paths
  <2>6. QED
    BY <1>1, <1>8, <2>2, <2>4, <2>5, OnceQuiet
<1>9. CASE ScanStep
  <2>1. ASSUME NEW e \in Entries, ReadDir(e) PROVE OnceInv'
    <3>1. PICK c : c = [must |-> Top.must \ {e}, left |-> Top.left \ {e}, entry |-> e]
      OBVIOUS
    <3>2. c \in Calls
      BY <2>1, <3>1, InScan DEF ReadDir, Calls
    <3>3. c.left \subseteq Top.left /\ c.entry \in Top.left \ c.left
      BY <2>1, <3>1 DEF ReadDir
    <3>4. QED
      BY <1>8, <2>1, <3>1, <3>2, <3>3 DEF ReadDir
  <2>2. CASE CloseDir \/ StatFails
    BY <2>2, OnceReturn DEF CloseDir, StatFails
  <2>3. CASE PassOver
    <3>1. PICK c : c = [Top EXCEPT !.entry = "none"]
      OBVIOUS
    <3>2. Scanning /\ Top \in Calls
      BY <2>3, InScan DEF PassOver
    <3>3. c \in Calls /\ c.left = Top.left /\ c.entry = "none"
      BY <3>1, <3>2 DEF Calls
    <3>4. QED
      BY <1>8, <2>3, <3>1, <3>2, <3>3 DEF PassOver
  <2>4. CASE Take
    BY <2>4, OnceTake
  <2>5. QED
    BY <1>9, <2>1, <2>2, <2>3, <2>4 DEF ScanStep
<1>10. CASE Done \/ UNCHANGED vars
  BY <1>2, <1>10 DEF Done, vars
<1>11. QED
  BY <1>4, <1>5, <1>6, <1>7, <1>9, <1>10 DEF Next

(* A file is handed over once for each time it was written, however scans,  *)
(* writers, the clock and the event queue interleave.                       *)
THEOREM VersionsAtMostOnce == SafetySpec => []AtMostOnce
<1>1. Init => OnceInv
  <2>1. ASSUME Init PROVE OnceInv
    <3>1. handled = <<>> /\ events = <<>> /\ pc = "attach"
      BY <2>1 DEF Init
    <3>2. Taken = <<>>
      BY <3>1 DEF Taken
    <3>3. QED
      BY <3>1, <3>2 DEF OnceInv, AtMostOnce, Taken, Scanning
  <2>2. QED
    BY <2>1
<1>2. OnceInv => AtMostOnce
  BY DEF OnceInv
<1>3. QED
  BY <1>1, <1>2, InitType, NextType, NextOnce, PTL DEF SafetySpec

-----------------------------------------------------------------------------
(* An archive is read completely *)

Closed(Z) == \A e \in Entries : Exists(e) /\ Parent[e] \in Z => e \in Z
ClosedFromRoot(Z) == \A e \in Entries : Exists(e) /\ Parent[e] \in Z \cup {"root"} => e \in Z

\* Everything has its directory, and is found from the root: a set that has
\* what is in the root and in its members has all there is.
TreeInv ==
  /\ \A e \in Entries : Exists(e) => Reachable(e)
  /\ \A Z \in SUBSET Entries : ClosedFromRoot(Z) => \A e \in Entries : Exists(e) => e \in Z

\* Z has what the scan must still come to.
Ahead(Z) ==
  /\ Closed(Z)
  /\ \A i \in DOMAIN stack :
       stack[i].must \subseteq Z /\ (stack[i].entry # "none" => stack[i].entry \in Z)

HasEvent(f) == \E i \in 1..Len(events) : events[i][1] = f

\* Of the files that stay each was taken or is ahead of the archive scan.
ReadInv ==
  /\ pc = "attach" => low = 0 /\ steady = {}
  /\ pc = "first" =>
       /\ low = 0
       /\ \A Z \in SUBSET Entries : Ahead(Z) => \A f \in steady : f \in Z \/ HasEvent(f)
  /\ pc = "drain" => \A f \in steady : HasEvent(f)
  /\ ArchiveComplete

\* What exists after a step of another process.
LEMMA TouchExists ==
  ASSUME TypeOK, TreeInv, NEW e \in Entries, NEW t \in {0, clock}, Touch(e, t), Reachable(e)
  PROVE  /\ Exists(e)' <=> t # 0
         /\ \A x \in Entries : x # e => (Exists(x)' <=> Exists(x))
<1>1. /\ ctime'[e] = t
      /\ \A x \in Entries : x # e => ctime'[x] \in {ctime[x], clock}
      /\ \A x \in Entries : x # e /\ x # Parent[e] => ctime'[x] = ctime[x]
  BY TouchOK
<1>2. clock # 0
  BY DirAssumption DEF TypeOK
<1>3. Parent[e] \in Entries => Exists(Parent[e])
  BY DirAssumption DEF Reachable, Entries
<1>4. ASSUME NEW x \in Entries, x # e PROVE Exists(x)' <=> Exists(x)
  <2>1. CASE x = Parent[e]
    BY <1>1, <1>2, <1>3, <1>4, <2>1 DEF Exists
  <2>2. CASE x # Parent[e]
    BY <1>1, <1>4, <2>2 DEF Exists
  <2>3. QED
    BY <2>1, <2>2
<1>5. QED
  BY <1>1, <1>4 DEF Exists

\* The tree: something is made or written again,
LEMMA TreeMade ==
  ASSUME TypeOK, TreeInv, NEW e \in Entries, Touch(e, clock), Reachable(e)
  PROVE  TreeInv'
<1>1. Exists(e)' /\ \A x \in Entries : x # e => (Exists(x)' <=> Exists(x))
  BY TouchExists, DirAssumption DEF TypeOK
<1>2. \A x \in Entries : Exists(x) => Exists(x)'
  BY <1>1
<1>3. \A s \in Subs : Exists(s) => Exists(s)'
  BY <1>2 DEF Entries
<1>4. ASSUME NEW x \in Entries, Exists(x)' PROVE Reachable(x)'
  <2>1. Reachable(x)
    BY <1>1, <1>4 DEF TreeInv
  <2>2. QED
    BY <1>3, <2>1 DEF Reachable
<1>5. ASSUME NEW Z \in SUBSET Entries, ClosedFromRoot(Z)', NEW x \in Entries, Exists(x)'
      PROVE  x \in Z
  <2>1. ClosedFromRoot(Z)
    BY <1>2, <1>5 DEF ClosedFromRoot
  <2>2. \A y \in Entries : Exists(y) => y \in Z
    BY <2>1 DEF TreeInv
  <2>3. CASE x # e
    BY <1>1, <1>5, <2>2, <2>3
  <2>4. CASE x = e
    <3>1. Parent[e] \in Z \cup {"root"}
      BY <2>2 DEF Reachable, Entries
    <3>2. QED
      BY <1>1, <1>5, <2>4, <3>1 DEF ClosedFromRoot
  <2>5. QED
    BY <2>3, <2>4
<1>6. QED
  BY <1>4, <1>5 DEF TreeInv

\* Nothing is in a file.
LEMMA InNoFile == ASSUME NEW f \in Files, NEW e \in Entries PROVE Parent[e] # f /\ f \in Entries
  BY DirAssumption DEF Entries

\* or a file is removed.
LEMMA TreeRemoved ==
  ASSUME TypeOK, TreeInv, NEW f \in Files, Exists(f), Touch(f, 0)
  PROVE  TreeInv'
<1>1. f \in Entries /\ f \notin Subs /\ Reachable(f)
  BY DirAssumption DEF TreeInv, Entries
<1>2. ~ Exists(f)' /\ \A x \in Entries : x # f => (Exists(x)' <=> Exists(x))
  BY <1>1, TouchExists
<1>3. \A s \in Subs : Exists(s)' <=> Exists(s)
  BY <1>1, <1>2 DEF Entries
<1>4. ASSUME NEW x \in Entries, Exists(x)' PROVE Reachable(x)'
  <2>1. Reachable(x)
    BY <1>2, <1>4 DEF TreeInv
  <2>2. QED
    BY <1>3, <2>1 DEF Reachable
<1>5. ASSUME NEW Z \in SUBSET Entries, ClosedFromRoot(Z)', NEW x \in Entries, Exists(x)'
      PROVE  x \in Z
  <2>1. PICK Y \in SUBSET Entries : Y = Z \cup {f}
    BY <1>1
  <2>2. ASSUME NEW y \in Entries, Exists(y), Parent[y] \in Y \cup {"root"} PROVE y \in Y
    <3>1. Parent[y] \in Z \cup {"root"}
      BY <2>1, <2>2, InNoFile
    <3>2. QED
      BY <1>2, <1>5, <2>1, <2>2, <3>1 DEF ClosedFromRoot
  <2>3. \A y \in Entries : Exists(y) => y \in Y
    BY <2>2 DEF TreeInv, ClosedFromRoot
  <2>4. QED
    BY <1>2, <1>5, <2>1, <2>3
<1>6. QED
  BY <1>4, <1>5 DEF TreeInv

\* Every step.
LEMMA NextTree == TypeOK /\ TreeInv /\ [Next]_vars => TreeInv'
<1> SUFFICES ASSUME TypeOK, TreeInv, [Next]_vars PROVE TreeInv'
  OBVIOUS
<1>1. ASSUME UNCHANGED ctime PROVE TreeInv'
  BY <1>1 DEF TreeInv, ClosedFromRoot, Exists, Reachable
<1>2. CASE Environment
  <2>1. ASSUME NEW f \in Files, Write(f) PROVE TreeInv'
    BY <2>1, TreeMade DEF Write, Entries
  <2>2. ASSUME NEW f \in Files, RemoveFile(f) PROVE TreeInv'
    BY <2>2, TreeRemoved DEF RemoveFile
  <2>3. ASSUME NEW s \in Subs, MakeDir(s) PROVE TreeInv'
    BY <2>3, TreeMade DEF MakeDir, Entries
  <2>4. CASE ClockTick
    BY <1>1, <2>4 DEF ClockTick
  <2>5. QED
    BY <1>2, <2>1, <2>2, <2>3, <2>4 DEF Environment
<1>3. CASE AttachArchive \/ AttachNow \/ Drain \/ Poll \/ SkipPoll \/ Process
  BY <1>1, <1>3 DEF AttachArchive, AttachNow, Drain, Poll, SkipPoll, Process, treeVars
<1>4. CASE ScanStep
  BY <1>1, <1>4 DEF ScanStep, ReadDir, CloseDir, StatFails, PassOver, Take, treeVars
<1>5. CASE Done \/ UNCHANGED vars
  BY <1>1, <1>5 DEF Done, vars
<1>6. QED
  BY <1>2, <1>3, <1>4, <1>5 DEF Next

\* Once the archive is read, what stays is handled.
LEMMA ReadLater ==
  ASSUME ReadInv, pc \in {"idle", "poll", "process", "done"}, pc' \in {"idle", "poll", "process", "done"},
         steady' \subseteq steady,
         \A f \in Files : (\E i \in 1..Len(handled) : handled[i][1] = f)
                            => \E i \in 1..Len(handled') : handled'[i][1] = f,
         steady' \subseteq Files
  PROVE  ReadInv'
<1>1. \A f \in steady' : \E i \in 1..Len(handled') : handled'[i][1] = f
  BY DEF ReadInv, ArchiveComplete
<1>2. QED
  BY <1>1 DEF ReadInv, ArchiveComplete

\* A step of the archive scan: whatever is ahead of it afterwards was ahead
\* before, but for what it took.
LEMMA ReadFirst ==
  ASSUME ReadInv, pc = "first", pc' = "first", low' = low,
         NEW S \in SUBSET (Entries \ steady'), steady' \subseteq steady, steady' \subseteq Files,
         \A f \in Files : HasEvent(f) => HasEvent(f)',
         \A Z \in SUBSET Entries :
           Ahead(Z)' => \E Y \in SUBSET Entries : /\ Ahead(Y)
                                                  /\ \A f \in Y : f \in Z \/ f \in S \/ HasEvent(f)'
  PROVE  ReadInv'
<1>1. ASSUME NEW Z \in SUBSET Entries, Ahead(Z)', NEW f \in steady'
      PROVE  f \in Z \/ HasEvent(f)'
  <2>1. PICK Y \in SUBSET Entries : Ahead(Y) /\ \A g \in Y : g \in Z \/ g \in S \/ HasEvent(g)'
    BY <1>1
  <2>2. f \in Y \/ HasEvent(f)
    BY <2>1 DEF ReadInv
  <2>3. f \notin S /\ f \in Files
    BY <1>1
  <2>4. QED
    BY <2>1, <2>2, <2>3
<1>2. low' = 0
  BY DEF ReadInv
<1>3. QED
  BY <1>1, <1>2 DEF ReadInv, ArchiveComplete

\* Other processes: something is made or written again,
LEMMA ReadMade ==
  ASSUME TypeOK, TreeInv, ReadInv, NEW e \in Entries, Touch(e, clock), Reachable(e),
         steady' \subseteq steady, UNCHANGED <<pc, stack, low, events, handled>>
  PROVE  ReadInv'
<1>1. \A x \in Entries : Exists(x) => Exists(x)'
  BY TouchExists, DirAssumption DEF TypeOK
<1>2. ASSUME NEW Z \in SUBSET Entries, Ahead(Z)' PROVE Ahead(Z)
  BY <1>1, <1>2 DEF Ahead, Closed
<1>3. \A f : HasEvent(f)' <=> HasEvent(f)
  BY DEF HasEvent
<1>4. steady' \subseteq Files
  BY DEF TypeOK
<1>5. QED
  BY <1>2, <1>3, <1>4 DEF ReadInv, ArchiveComplete

\* or a file is removed.
LEMMA ReadRemoved ==
  ASSUME TypeOK, TreeInv, ReadInv, NEW f \in Files, RemoveFile(f)
  PROVE  ReadInv'
<1>1. /\ Exists(f) /\ Touch(f, 0) /\ steady' = steady \ {f}
      /\ stack' = [i \in DOMAIN stack |-> [stack[i] EXCEPT !.must = @ \ {f}]]
      /\ UNCHANGED <<pc, low, events, handled>>
  BY DEF RemoveFile
<1>2. f \in Entries /\ Reachable(f) /\ steady \subseteq Files
  BY <1>1 DEF TreeInv, Entries, TypeOK
<1>3. \A x \in Entries : x # f => (Exists(x)' <=> Exists(x))
  BY <1>1, <1>2, TouchExists
<1>4. \A g : HasEvent(g)' <=> HasEvent(g)
  BY <1>1 DEF HasEvent
<1>5. CASE pc = "first"
  <2>1. ASSUME NEW Z \in SUBSET Entries, Ahead(Z)' PROVE Ahead(Z \cup {f})
    <3>1. ASSUME NEW e \in Entries, Exists(e), Parent[e] \in Z \cup {f} PROVE e \in Z \cup {f}
      <4>1. Parent[e] \in Z
        BY <3>1, InNoFile
      <4>2. QED
        BY <1>3, <2>1, <3>1, <4>1 DEF Ahead, Closed
    <3>2. ASSUME NEW i \in DOMAIN stack
          PROVE  /\ stack[i].must \subseteq Z \cup {f}
                 /\ stack[i].entry # "none" => stack[i].entry \in Z \cup {f}
      <4>1. stack[i] \in Calls
        BY DEF TypeOK
      <4>2. PICK q : q = stack'
        OBVIOUS
      <4>3. i \in DOMAIN q /\ q[i].must = stack[i].must \ {f} /\ q[i].entry = stack[i].entry
        BY <1>1, <4>1, <4>2 DEF Calls
      <4>4. q[i].must \subseteq Z /\ (q[i].entry # "none" => q[i].entry \in Z)
        BY <2>1, <4>2, <4>3 DEF Ahead
      <4>5. QED
        BY <4>3, <4>4
    <3>3. QED
      BY <3>1, <3>2 DEF Ahead, Closed
  <2>2. PICK S \in SUBSET (Entries \ steady') : S = {f}
    BY <1>1, <1>2
  <2>3. ASSUME NEW Z \in SUBSET Entries, Ahead(Z)'
        PROVE  \E Y \in SUBSET Entries : /\ Ahead(Y)
                                         /\ \A g \in Y : g \in Z \/ g \in S \/ HasEvent(g)'
    <3>1. Z \cup {f} \in SUBSET Entries
      BY <1>2
    <3>2. QED
      BY <2>1, <2>2, <2>3, <3>1
  <2>4. QED
    BY <1>1, <1>2, <1>4, <1>5, <2>2, <2>3, ReadFirst
<1>6. CASE pc # "first"
  BY <1>1, <1>4, <1>6 DEF ReadInv, ArchiveComplete
<1>7. QED
  BY <1>5, <1>6

\* attach() of an archive: all there is is ahead.
LEMMA ReadAttach ==
  ASSUME TypeOK, TreeInv, ReadInv, AttachArchive
  PROVE  ReadInv'
<1>1. /\ pc = "attach" /\ pc' = "first" /\ stack' = <<Call("root")>>
      /\ steady' = {f \in Files : Exists(f)} /\ UNCHANGED <<low, events, ctime>>
  BY DEF AttachArchive
<1>2. low' = 0
  BY <1>1 DEF ReadInv
<1>3. ASSUME NEW Z \in SUBSET Entries, Ahead(Z)' PROVE \A f \in steady' : f \in Z
  <2>1. PICK q : q = stack'
    OBVIOUS
  <2>2. 1 \in DOMAIN q /\ q[1] = Call("root")
    BY <1>1, <2>1
  <2>3. Call("root").must \subseteq Z
    BY <1>3, <2>1, <2>2 DEF Ahead
  <2>4. ASSUME NEW e \in Entries, Exists(e), Parent[e] = "root" PROVE e \in Z
    BY <2>3, <2>4 DEF Call, Children
  <2>5. ASSUME NEW e \in Entries, Exists(e), Parent[e] \in Z PROVE e \in Z
    BY <1>1, <1>3, <2>5 DEF Ahead, Closed, Exists
  <2>6. \A e \in Entries : Exists(e) => e \in Z
    BY <2>4, <2>5 DEF TreeInv, ClosedFromRoot
  <2>7. QED
    BY <1>1, <2>6 DEF Entries
<1>4. QED
  BY <1>1, <1>2, <1>3 DEF ReadInv, ArchiveComplete

\* The archive's events are handed over all at once.
LEMMA ReadDrain ==
  ASSUME TypeOK, ReadInv, Drain
  PROVE  ReadInv'
<1>1. /\ pc = "drain" /\ pc' \in {"done", "idle"} /\ handled' = handled \o events /\ steady' = steady
      /\ handled \in Seq(Versions) /\ events \in Seq(Versions)
  BY DEF Drain, treeVars, TypeOK
<1>2. PICK h : h = handled'
  OBVIOUS
<1>3. /\ Len(h) = Len(handled) + Len(events) /\ Len(handled) \in Nat /\ Len(events) \in Nat
      /\ \A i \in 1..Len(handled) + Len(events) :
           h[i] = IF i <= Len(handled) THEN handled[i] ELSE events[i - Len(handled)]
  BY <1>1, <1>2, ConcatProperties
<1>4. ASSUME NEW f \in steady PROVE \E i \in 1..Len(h) : h[i][1] = f
  <2>1. PICK i \in 1..Len(events) : events[i][1] = f
    BY <1>1 DEF ReadInv, HasEvent
  <2>2. /\ Len(handled) + i \in 1..Len(handled) + Len(events)
        /\ ~ (Len(handled) + i <= Len(handled)) /\ Len(handled) + i - Len(handled) = i
    BY <1>3
  <2>3. h[Len(handled) + i] = events[i]
    BY <1>3, <2>2
  <2>4. QED
    BY <1>3, <2>1, <2>2, <2>3
<1>5. QED
  BY <1>1, <1>2, <1>4 DEF ReadInv, ArchiveComplete

\* A poll hands over more.
LEMMA ReadProcess ==
  ASSUME TypeOK, ReadInv, Process
  PROVE  ReadInv'
<1>1. /\ pc = "process" /\ pc' = "idle" /\ handled' = handled \o Batch(events) /\ steady' = steady
      /\ handled \in Seq(Versions) /\ Batch(events) \in Seq(Versions) /\ steady \subseteq Files
  BY BatchAndRest DEF Process, treeVars, TypeOK
<1>2. PICK h : h = handled'
  OBVIOUS
<1>3. PICK b \in Seq(Versions) : b = Batch(events)
  BY <1>1
<1>4. /\ Len(h) = Len(handled) + Len(b) /\ Len(handled) \in Nat /\ Len(b) \in Nat
      /\ \A i \in 1..Len(handled) + Len(b) :
           h[i] = IF i <= Len(handled) THEN handled[i] ELSE b[i - Len(handled)]
  BY <1>1, <1>2, <1>3, ConcatProperties
<1>5. ASSUME NEW i \in 1..Len(handled) PROVE i \in 1..Len(h) /\ h[i] = handled[i]
  <2>1. i \in 1..Len(handled) + Len(b) /\ i <= Len(handled)
    BY <1>4
  <2>2. QED
    BY <1>4, <2>1
<1>6. \A f \in Files : (\E i \in 1..Len(handled) : handled[i][1] = f)
                         => \E i \in 1..Len(h) : h[i][1] = f
  BY <1>5
<1>7. QED
  BY <1>1, <1>2, <1>6, ReadLater


\* A stat() fails: nothing is held to stay any more.
LEMMA ReadFails ==
  ASSUME ReadInv, StatFails
  PROVE  ReadInv'
<1>1. /\ pc \in {"first", "poll"} /\ steady' = {} /\ UNCHANGED <<events, handled>>
      /\ pc' \in {pc, "drain", "process"}
      /\ pc' = pc => low' = low
  BY DEF StatFails, Return, Scanning
<1>2. pc' = "first" => low' = 0
  BY <1>1 DEF ReadInv
<1>3. pc' # "attach"
  BY <1>1
<1>4. QED
  BY <1>1, <1>2, <1>3 DEF ReadInv, ArchiveComplete

\* The archive scan reads a name: it was ahead.
LEMMA ReadName ==
  ASSUME TypeOK, ReadInv, pc = "first", NEW e \in Entries, ReadDir(e)
  PROVE  ReadInv'
<1>1. /\ Scanning /\ Top.entry = "none" /\ e \in Top.left
      /\ stack' = SetTop([must |-> Top.must \ {e}, left |-> Top.left \ {e}, entry |-> e])
      /\ UNCHANGED <<pc, low, events, handled, ctime, steady>>
  BY DEF ReadDir, treeVars
<1>2. stack \in Seq(Calls) /\ stack # <<>> /\ Top \in Calls /\ Top = stack[1] /\ steady \subseteq Files
  BY <1>1, InScan DEF TypeOK
<1>3. PICK c : c = [must |-> Top.must \ {e}, left |-> Top.left \ {e}, entry |-> e]
  OBVIOUS
<1>4. c \in Calls /\ c.must = Top.must \ {e} /\ c.entry = e
  BY <1>2, <1>3 DEF Calls
<1>5. PICK q : q = stack'
  OBVIOUS
<1>6. /\ DOMAIN q = DOMAIN stack /\ q[1] = c /\ 1 \in DOMAIN stack
      /\ \A i \in DOMAIN stack : i # 1 => q[i] = stack[i]
  <2>1. q = SetTop(c)
    BY <1>1, <1>3, <1>5
  <2>2. QED
    BY <1>2, <1>4, <2>1, SetTopIs
<1>7. e # "none"
  BY DirAssumption
<1>8. ASSUME NEW Z \in SUBSET Entries, Ahead(Z)' PROVE Ahead(Z)
  <2>1. Closed(Z)
    BY <1>1, <1>8 DEF Ahead, Closed, Exists
  <2>2. \A i \in DOMAIN q : q[i].must \subseteq Z /\ (q[i].entry # "none" => q[i].entry \in Z)
    BY <1>5, <1>8 DEF Ahead
  <2>3. ASSUME NEW i \in DOMAIN stack
        PROVE  stack[i].must \subseteq Z /\ (stack[i].entry # "none" => stack[i].entry \in Z)
    <3>1. CASE i = 1
      <4>1. c.must \subseteq Z /\ c.entry \in Z
        BY <1>4, <1>6, <1>7, <2>2
      <4>2. QED
        BY <1>1, <1>2, <1>4, <3>1, <4>1
    <3>2. CASE i # 1
      BY <1>6, <2>2, <3>2
    <3>3. QED
      BY <3>1, <3>2
  <2>4. QED
    BY <2>1, <2>3 DEF Ahead
<1>9. \A f : HasEvent(f)' <=> HasEvent(f)
  BY <1>1 DEF HasEvent
<1>10. PICK S \in SUBSET (Entries \ steady') : S = {}
  OBVIOUS
<1>11. QED
  BY <1>1, <1>2, <1>8, <1>9, <1>10, ReadFirst

\* In the archive scan a call returns when what it must return was read.
LEMMA ReadClose ==
  ASSUME TypeOK, ReadInv, pc = "first", CloseDir
  PROVE  ReadInv'
<1>1. /\ Scanning /\ Top.entry = "none" /\ Top.must = {} /\ Return
      /\ UNCHANGED <<events, handled, ctime, steady>>
  BY DEF CloseDir, treeVars
<1>2. stack \in Seq(Calls) /\ stack # <<>> /\ Top = stack[1] /\ steady \subseteq Files
  BY <1>1, InScan DEF TypeOK
<1>3. \A f : HasEvent(f)' <=> HasEvent(f)
  BY <1>1 DEF HasEvent
<1>4. CASE Len(stack) > 1
  <2>1. pc' = "first" /\ low' = low /\ stack' = Tail(stack)
    BY <1>1, <1>4 DEF Return
  <2>2. PICK q : q = stack'
    OBVIOUS
  <2>3. /\ DOMAIN q = 1..Len(stack) - 1 /\ DOMAIN stack = 1..Len(stack) /\ Len(stack) \in Nat \ {0}
        /\ \A i \in 1..Len(stack) - 1 : q[i] = stack[i + 1]
    BY <1>2, <2>1, <2>2, PopIs
  <2>4. ASSUME NEW Z \in SUBSET Entries, Ahead(Z)' PROVE Ahead(Z)
    <3>1. Closed(Z)
      BY <1>1, <2>4 DEF Ahead, Closed, Exists
    <3>2. \A i \in DOMAIN q : q[i].must \subseteq Z /\ (q[i].entry # "none" => q[i].entry \in Z)
      BY <2>2, <2>4 DEF Ahead
    <3>3. ASSUME NEW i \in DOMAIN stack
          PROVE  stack[i].must \subseteq Z /\ (stack[i].entry # "none" => stack[i].entry \in Z)
      <4>1. CASE i = 1
        BY <1>1, <1>2, <4>1
      <4>2. CASE i # 1
        <5>1. i - 1 \in 1..Len(stack) - 1 /\ i - 1 + 1 = i
          BY <2>3, <4>2
        <5>2. q[i - 1] = stack[i]
          BY <2>3, <5>1
        <5>3. QED
          BY <2>3, <3>2, <5>1, <5>2
      <4>3. QED
        BY <4>1, <4>2
    <3>4. QED
      BY <3>1, <3>3 DEF Ahead
  <2>5. PICK S \in SUBSET (Entries \ steady') : S = {}
    OBVIOUS
  <2>6. QED
    BY <1>1, <1>2, <1>3, <2>1, <2>4, <2>5, ReadFirst
<1>5. CASE ~ (Len(stack) > 1)
  <2>1. pc' = "drain"
    BY <1>1, <1>5 DEF Return
  <2>2. DOMAIN stack = {1}
    <3>1. DOMAIN stack = 1..Len(stack) /\ Len(stack) \in Nat \ {0}
      BY <1>2, PopIs
    <3>2. QED
      BY <1>5, <3>1
  <2>3. PICK Z \in SUBSET Entries : Z = {}
    OBVIOUS
  <2>4. Ahead(Z)
    BY <1>1, <1>2, <2>2, <2>3 DEF Ahead, Closed
  <2>5. \A f \in steady : HasEvent(f)
    BY <2>3, <2>4 DEF ReadInv
  <2>6. QED
    BY <1>1, <1>3, <2>1, <2>5 DEF ReadInv, ArchiveComplete
<1>6. QED
  BY <1>4, <1>5

\* The archive scan takes a file, which has its event, or goes into a
\* directory, which has what must be read of it ahead.
LEMMA ReadTake ==
  ASSUME TypeOK, ReadInv, pc = "first", Take
  PROVE  ReadInv'
<1>1. /\ Scanning /\ Top.entry # "none"
      /\ UNCHANGED <<pc, low, handled, ctime, steady>>
  BY DEF Take, treeVars
<1>2. /\ stack \in Seq(Calls) /\ stack # <<>> /\ Top \in Calls /\ Top = stack[1]
      /\ steady \subseteq Files /\ events \in Seq(Versions)
  BY <1>1, InScan DEF TypeOK
<1>3. PICK e \in Entries : e = Top.entry
  BY <1>1, <1>2 DEF Calls
<1>4. PICK c : c = [Top EXCEPT !.entry = "none"]
  OBVIOUS
<1>5. c \in Calls /\ c.must = Top.must
  BY <1>2, <1>4 DEF Calls
<1>6. PICK done : done = SetTop(c)
  OBVIOUS
<1>7. /\ done \in Seq(Calls) /\ DOMAIN done = DOMAIN stack /\ done[1] = c /\ 1 \in DOMAIN stack
      /\ \A i \in DOMAIN stack : i # 1 => done[i] = stack[i]
  BY <1>2, <1>5, <1>6, SetTopIs
<1>8. PICK q : q = stack'
  OBVIOUS
<1>9. ASSUME NEW Y, e \in Y,
             \A i \in DOMAIN done : done[i].must \subseteq Y /\ (done[i].entry # "none" => done[i].entry \in Y),
             NEW i \in DOMAIN stack
      PROVE  stack[i].must \subseteq Y /\ (stack[i].entry # "none" => stack[i].entry \in Y)
  <2>1. CASE i = 1
    <3>1. c.must \subseteq Y
      BY <1>7, <1>9
    <3>2. QED
      BY <1>2, <1>3, <1>5, <1>9, <2>1, <3>1
  <2>2. CASE i # 1
    BY <1>7, <1>9, <2>2
  <2>3. QED
    BY <2>1, <2>2
<1>10. CASE e \in Subs
  <2>1. stack' = <<Call(e)>> \o done /\ events' = events
    BY <1>3, <1>4, <1>6, <1>10 DEF Take
  <2>2. PICK k \in Calls : k = Call(e)
    BY CallOK
  <2>3. /\ DOMAIN q = 1..Len(done) + 1 /\ q[1] = k /\ DOMAIN done = 1..Len(done) /\ Len(done) \in Nat
        /\ \A i \in 1..Len(done) : q[i + 1] = done[i]
    BY <1>7, <1>8, <2>1, <2>2, PushIs
  <2>4. k.must = {x \in Entries : Parent[x] = e /\ Exists(x)}
    BY <2>2 DEF Call, Children
  <2>5. e \notin Files
    BY <1>10, DirAssumption
  <2>6. PICK S \in SUBSET (Entries \ steady') : S = {e}
    BY <1>1, <1>2, <2>5
  <2>7. ASSUME NEW Z \in SUBSET Entries, Ahead(Z)' PROVE Ahead(Z \cup {e})
    <3>1. \A i \in DOMAIN q : q[i].must \subseteq Z /\ (q[i].entry # "none" => q[i].entry \in Z)
      BY <1>8, <2>7 DEF Ahead
    <3>2. k.must \subseteq Z
      BY <2>3, <3>1
    <3>3. ASSUME NEW i \in DOMAIN done
          PROVE  done[i].must \subseteq Z /\ (done[i].entry # "none" => done[i].entry \in Z)
      <4>1. i + 1 \in 1..Len(done) + 1 /\ q[i + 1] = done[i]
        BY <2>3
      <4>2. QED
        BY <2>3, <3>1, <4>1
    <3>4. ASSUME NEW x \in Entries, Exists(x), Parent[x] \in Z \cup {e} PROVE x \in Z \cup {e}
      <4>1. CASE Parent[x] = e
        BY <2>4, <3>2, <3>4, <4>1
      <4>2. CASE Parent[x] \in Z
        BY <1>1, <2>7, <3>4, <4>2 DEF Ahead, Closed, Exists
      <4>3. QED
        BY <3>4, <4>1, <4>2
    <3>5. PICK Y : Y = Z \cup {e}
      OBVIOUS
    <3>6. e \in Y /\ \A i \in DOMAIN done :
                       done[i].must \subseteq Y /\ (done[i].entry # "none" => done[i].entry \in Y)
      BY <3>3, <3>5
    <3>7. \A i \in DOMAIN stack :
            stack[i].must \subseteq Y /\ (stack[i].entry # "none" => stack[i].entry \in Y)
      BY <1>9, <3>6
    <3>8. QED
      BY <3>4, <3>5, <3>7 DEF Ahead, Closed
  <2>8. \A f : HasEvent(f)' <=> HasEvent(f)
    BY <2>1 DEF HasEvent
  <2>9. ASSUME NEW Z \in SUBSET Entries, Ahead(Z)'
        PROVE  \E Y \in SUBSET Entries : /\ Ahead(Y)
                                         /\ \A f \in Y : f \in Z \/ f \in S \/ HasEvent(f)'
    <3>1. Z \cup {e} \in SUBSET Entries /\ \A f \in Z \cup {e} : f \in Z \/ f \in S
      BY <2>6
    <3>2. QED
      BY <2>7, <2>9, <3>1
  <2>10. QED
    BY <1>1, <1>2, <2>8, <2>9, ReadFirst
<1>11. CASE e \notin Subs
  <2>1. stack' = done /\ events' = Append(events, <<e, ctime[e]>>)
    BY <1>3, <1>4, <1>6, <1>11 DEF Take
  <2>2. ASSUME NEW f, HasEvent(f) \/ f = e PROVE HasEvent(f)'
    <3>1. PICK v : v = events'
      OBVIOUS
    <3>2. /\ Len(events) \in Nat /\ Len(v) = Len(events) + 1 /\ v[Len(events) + 1] = <<e, ctime[e]>>
          /\ \A i \in 1..Len(events) : v[i] = events[i]
      BY <1>2, <2>1, <3>1
    <3>3. \E i \in 1..Len(v) : v[i][1] = f
      <4>1. CASE f = e
        <5>1. v[Len(events) + 1][1] = f /\ Len(events) + 1 \in 1..Len(v)
          BY <3>2, <4>1
        <5>2. QED
          BY <5>1
      <4>2. CASE HasEvent(f)
        <5>1. PICK i \in 1..Len(events) : events[i][1] = f
          BY <4>2 DEF HasEvent
        <5>2. i \in 1..Len(v) /\ v[i][1] = f
          BY <3>2, <5>1
        <5>3. QED
          BY <5>2
      <4>3. QED
        BY <2>2, <4>1, <4>2
    <3>4. QED
      BY <3>1, <3>3 DEF HasEvent
  <2>3. e \in Files
    BY <1>11 DEF Entries
  <2>4. ASSUME NEW Z \in SUBSET Entries, Ahead(Z)' PROVE Ahead(Z \cup {e})
    <3>1. \A i \in DOMAIN done : done[i].must \subseteq Z /\ (done[i].entry # "none" => done[i].entry \in Z)
      BY <2>1, <2>4 DEF Ahead
    <3>2. ASSUME NEW x \in Entries, Exists(x), Parent[x] \in Z \cup {e} PROVE x \in Z \cup {e}
      <4>1. Parent[x] \in Z
        BY <2>3, <3>2, InNoFile
      <4>2. QED
        BY <1>1, <2>4, <3>2, <4>1 DEF Ahead, Closed, Exists
    <3>3. PICK Y : Y = Z \cup {e}
      OBVIOUS
    <3>4. e \in Y /\ \A i \in DOMAIN done :
                       done[i].must \subseteq Y /\ (done[i].entry # "none" => done[i].entry \in Y)
      BY <3>1, <3>3
    <3>5. \A i \in DOMAIN stack :
            stack[i].must \subseteq Y /\ (stack[i].entry # "none" => stack[i].entry \in Y)
      BY <1>9, <3>4
    <3>6. QED
      BY <3>2, <3>3, <3>5 DEF Ahead, Closed
  <2>5. PICK S \in SUBSET (Entries \ steady') : S = {}
    OBVIOUS
  <2>6. ASSUME NEW Z \in SUBSET Entries, Ahead(Z)'
        PROVE  \E Y \in SUBSET Entries : /\ Ahead(Y)
                                         /\ \A f \in Y : f \in Z \/ f \in S \/ HasEvent(f)'
    <3>1. HasEvent(e)'
      BY <2>2
    <3>2. Z \cup {e} \in SUBSET Entries /\ \A f \in Z \cup {e} : f \in Z \/ HasEvent(f)'
      BY <3>1
    <3>3. QED
      BY <2>4, <2>6, <3>2
  <2>7. QED
    BY <1>1, <1>2, <2>2, <2>6, ReadFirst
<1>12. QED
  BY <1>10, <1>11

\* Nothing is passed over while the threshold is 0.
LEMMA ReadPasses ==
  ASSUME TypeOK, ReadInv, pc = "first"
  PROVE  ~ PassOver
<1> SUFFICES ASSUME PassOver PROVE FALSE
  OBVIOUS
<1>1. Scanning /\ Top.entry # "none" /\ Exists(Top.entry) /\ ~ (ctime[Top.entry] > low)
  BY DEF PassOver, GreaterStat
<1>2. Top \in Calls /\ low = 0
  BY <1>1, InScan DEF ReadInv
<1>3. PICK e \in Entries : e = Top.entry
  BY <1>1, <1>2 DEF Calls
<1>4. ctime[e] \in 0..clock /\ clock \in Nat
  BY DirAssumption DEF TypeOK
<1>5. QED
  BY <1>1, <1>2, <1>3, <1>4 DEF Exists

\* Every step.
LEMMA NextRead == TypeOK /\ TreeInv /\ ReadInv /\ [Next]_vars => ReadInv'
<1> SUFFICES ASSUME TypeOK, TreeInv, ReadInv, [Next]_vars PROVE ReadInv'
  OBVIOUS
<1> USE DEF treeVars
<1>0. steady \subseteq Files
  BY DEF TypeOK
<1>1. ASSUME UNCHANGED <<pc, stack, low, events, handled, ctime, steady>> PROVE ReadInv'
  BY <1>1 DEF ReadInv, ArchiveComplete, Ahead, Closed, Exists, HasEvent
<1>2. ASSUME pc \in {"idle", "poll", "process", "done"}, pc' \in {"idle", "poll", "process", "done"},
             UNCHANGED <<handled, steady>>
      PROVE  ReadInv'
  BY <1>0, <1>2, ReadLater
<1>3. CASE Environment
  <2>1. ASSUME NEW f \in Files, Write(f) PROVE ReadInv'
    BY <2>1, ReadMade DEF Write, Entries
  <2>2. ASSUME NEW f \in Files, RemoveFile(f) PROVE ReadInv'
    BY <2>2, ReadRemoved
  <2>3. ASSUME NEW s \in Subs, MakeDir(s) PROVE ReadInv'
    BY <2>3, ReadMade DEF MakeDir, Entries
  <2>4. CASE ClockTick
    BY <1>1, <2>4 DEF ClockTick
  <2>5. QED
    BY <1>3, <2>1, <2>2, <2>3, <2>4 DEF Environment
<1>4. CASE AttachArchive
  BY <1>4, ReadAttach
<1>5. CASE AttachNow
  <2>1. pc' = "idle" /\ steady' = {}
    BY <1>5 DEF AttachNow, ReadInv
  <2>2. QED
    BY <2>1 DEF ReadInv, ArchiveComplete
<1>6. CASE Drain
  BY <1>6, ReadDrain
<1>7. CASE Poll \/ SkipPoll
  BY <1>2, <1>7 DEF Poll, SkipPoll
<1>8. CASE Process
  BY <1>8, ReadProcess
<1>9. CASE ScanStep
  <2>1. CASE StatFails
    BY <2>1, ReadFails
  <2>2. CASE pc = "first" /\ ~ StatFails
    BY <1>9, <2>2, ReadName, ReadClose, ReadTake, ReadPasses DEF ScanStep
  <2>3. CASE pc # "first" /\ ~ StatFails
    <3>1. Scanning
      BY <1>9, <2>3 DEF ScanStep, ReadDir, CloseDir, PassOver, Take
    <3>2. pc = "poll"
      BY <2>3, <3>1 DEF Scanning
    <3>3. pc' \in {"poll", "process"} /\ UNCHANGED <<handled, steady>>
      BY <1>9, <2>3, <3>2 DEF ScanStep, ReadDir, CloseDir, Return, PassOver, Take
    <3>4. QED
      BY <1>2, <3>2, <3>3
  <2>4. QED
    BY <2>1, <2>2, <2>3
<1>10. CASE Done \/ UNCHANGED vars
  BY <1>1, <1>10 DEF Done, vars
<1>11. QED
  BY <1>3, <1>4, <1>5, <1>6, <1>7, <1>8, <1>9, <1>10 DEF Next

(* After attach() has read an archive every file that was there when it     *)
(* began, at any depth, and was not touched since has been handed over,     *)
(* whatever other processes write and make meanwhile.  Of a scan in which a *)
(* stat() failed (a file removed after readdir() returned it) nothing is    *)
(* said: it gives up the rest of the directory.                             *)
THEOREM ArchiveReadWhole == SafetySpec => []ArchiveComplete
<1>1. Init => TreeInv /\ ReadInv
  <2>1. ASSUME Init PROVE TreeInv /\ ReadInv
    <3>1. pc = "attach" /\ low = 0 /\ steady = {} /\ \A e \in Entries : ~ Exists(e)
      BY <2>1 DEF Init, Exists
    <3>2. QED
      BY <3>1 DEF TreeInv, ReadInv, ArchiveComplete
  <2>2. QED
    BY <2>1
<1>2. ReadInv => ArchiveComplete
  BY DEF ReadInv
<1>3. QED
  BY <1>1, <1>2, InitType, NextType, NextTree, NextRead, PTL DEF SafetySpec
==============================================================================
