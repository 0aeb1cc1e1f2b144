------------------------------ MODULE OutputProofs ------------------------------
(***************************************************************************)
(* What OutputProtocol guarantees for every set of writers, outputs and    *)
(* versions, with or without Redis, whatever fails and whoever stops: the  *)
(* promise of Delivery, which leaves out the products written in place,    *)
(* and what holds of those.  The invariant follows a product from its      *)
(* temporary file, if it has one, to its final name, and a notice from its *)
(* .working file to the record that is read.                               *)
(***************************************************************************)
EXTENDS OutputProtocol, TLAPS

\* A file of version v that nobody writes to any more.
Complete(f, v) == f \in File /\ f.v = v /\ f.state # "part"

InPipe   == {"encode", "compress", "move", "copy"}
Moved    == {"remove", "post", "fml", "fmlwrite", "fmlrename", "redis"}

\* The outputs a writer has not come to have older versions.
Ahead(w) ==
  \A i \in 1..Len(Outputs[w]) :
    i > at[w] /\ out[Outputs[w][i]] # NoFile => out[Outputs[w][i]].v < made[w]

WriterOK(w) ==
  /\ at[w] \in 0..Len(Outputs[w])
  /\ pc[w] \notin {"idle", "next"} => at[w] > 0
  /\ pc[w] # "idle" => made[w] > 0
  /\ pc[w] \in InPipe => temp[w] \in File /\ temp[w].v = made[w]
  /\ pc[w] \in InPipe \ {"encode"} => temp[w].state # "part"
  /\ pc[w] # "idle" => Ahead(w)
  /\ pc[w] = "inplace" => out[Name(w)] = Part(w) /\ Name(w) \in inPlace
  /\ pc[w] = "replace" => Complete(outTmp[Name(w)], made[w])
  /\ pc[w] \in Moved => Complete(out[Name(w)], made[w])
  /\ pc[w] = "fmlwrite" => working[Name(w)] \in File /\ working[Name(w)].v = made[w]
  /\ pc[w] = "fmlrename" => Complete(working[Name(w)], made[w])
  /\ \A n \in NamesOf(w) : out[n] # NoFile => out[n].v <= made[w]

FilesOK == \A n \in Names :
  /\ out[n] # NoFile /\ out[n].state = "part" => n \in inPlace
  /\ fml[n] # NoFile => /\ fml[n].state # "part"
                        /\ [name |-> n, v |-> fml[n].v] \in told

ReaderOK ==
  /\ \A i \in 1..Len(events) : fml[events[i]] # NoFile
  /\ \A i \in 1..Len(wire) : wire[i] \in told
  /\ \A i \in 1..Len(records) : records[i] \in told
  /\ \A r \in read : /\ r.saw.v >= r.v
                     /\ r.saw.state = "part" => r.name \in inPlace /\ r.saw.v > r.v

OutInv == /\ TypeOK
          /\ \A w \in Writers : WriterOK(w)
          /\ FilesOK /\ ReaderOK /\ RecordNamesProduct

-----------------------------------------------------------------------------
\* Where a writer writes.
LEMMA NameOK ==
  ASSUME NEW w \in Writers, at[w] \in 1..Len(Outputs[w])
  PROVE  /\ Name(w) \in Names /\ Name(w) \in NamesOf(w)
         /\ \A x \in Writers : x # w => Name(w) \notin NamesOf(x)
<1>1. Outputs[w] \in Seq(Names)
  BY OutputAssumption
<1>2. Name(w) \in Names /\ Name(w) \in NamesOf(w)
  BY <1>1 DEF Name, NamesOf
<1>3. QED
  BY <1>2, OutputAssumption

\* A writer whose own state and files are as before is as it was.
LEMMA Undisturbed ==
  ASSUME OutInv, NEW x \in Writers,
         pc'[x] = pc[x], at'[x] = at[x], made'[x] = made[x], temp'[x] = temp[x],
         \A n \in NamesOf(x) : out'[n] = out[n] /\ outTmp'[n] = outTmp[n] /\ working'[n] = working[n],
         UNCHANGED inPlace
  PROVE  WriterOK(x)'
<1>1. WriterOK(x)
  BY DEF OutInv
<1>a. pc[x] # "idle" => Ahead(x)'
  BY <1>1 DEF WriterOK, Ahead, NamesOf
<1>2. CASE at[x] > 0
  <2>1. at[x] \in 1..Len(Outputs[x])
    BY <1>1, <1>2 DEF WriterOK
  <2>2. Name(x) \in NamesOf(x) /\ Name(x)' = Name(x)
    BY <2>1, NameOK DEF Name
  <2>3. QED
    BY <1>1, <1>a, <2>2 DEF WriterOK, Complete, Part
<1>3. CASE ~ at[x] > 0
  <2>1. pc[x] \in {"idle", "next"}
    BY <1>1, <1>3 DEF WriterOK
  <2>2. QED
    BY <1>1, <1>a, <1>3, <2>1 DEF WriterOK, InPipe, Moved
<1>4. QED
  BY <1>2, <1>3

\* The initial states.
LEMMA OutInit == Init => OutInv
<1> SUFFICES ASSUME Init PROVE OutInv
  OBVIOUS
<1>1. TypeOK
  <2>1. events \in Seq(Names) /\ wire \in Seq(Notice) /\ records \in Seq(Notice)
    BY DEF Init
  <2>2. QED
    BY <2>1 DEF Init, TypeOK, Steps
<1>2. ASSUME NEW w \in Writers PROVE WriterOK(w)
  <2>1. Len(Outputs[w]) \in Nat /\ NamesOf(w) \subseteq Names
    <3>1. Outputs[w] \in Seq(Names)
      BY OutputAssumption
    <3>2. QED
      BY <3>1 DEF NamesOf
  <2>2. QED
    BY <2>1 DEF Init, WriterOK, InPipe, Moved
<1>3. FilesOK /\ ReaderOK /\ RecordNamesProduct
  BY DEF Init, FilesOK, ReaderOK, RecordNamesProduct
<1>4. QED
  BY <1>1, <1>2, <1>3 DEF OutInv

-----------------------------------------------------------------------------
\* Steps of a writer that no file shows.
Hidden(w) == \/ WriteProduct(w) \/ NextOutput(w) \/ OutputsDone(w) \/ Encode(w) \/ Compress(w)
             \/ RemoveTemp(w) \/ PostWrite(w) \/ PipelineFails(w)
             \/ FmlFails(w) \/ PublishFails(w) \/ Crash(w)

\* Steps of a writer that nobody sees.
LEMMA HiddenStep ==
  ASSUME OutInv, NEW w \in Writers, Hidden(w)
  PROVE  OutInv'
<1>1. TypeOK /\ WriterOK(w) /\ Len(Outputs[w]) \in Nat
  BY OutputAssumption DEF OutInv
<1>2. UNCHANGED <<fileVars, readerVars, told, read>>
  BY DEF Hidden, WriteProduct, NextOutput, OutputsDone, Encode, Compress, RemoveTemp, PostWrite,
         PipelineFails, FmlFails, PublishFails, Crash
<1>3. \A x \in Writers \ {w} : pc'[x] = pc[x] /\ at'[x] = at[x] /\ made'[x] = made[x] /\ temp'[x] = temp[x]
  BY <1>1 DEF Hidden, WriteProduct, NextOutput, OutputsDone, Encode, Compress, RemoveTemp, PostWrite,
         PipelineFails, FmlFails, PublishFails, Crash, Goto, TypeOK
<1>4. FilesOK' /\ ReaderOK' /\ RecordNamesProduct'
  BY <1>2 DEF OutInv, FilesOK, ReaderOK, RecordNamesProduct, fileVars, readerVars
<1>5. ASSUME NEW x \in Writers \ {w} PROVE WriterOK(x)'
  BY <1>2, <1>3, Undisturbed DEF fileVars
<1>6. /\ pc' \in [Writers -> Steps] /\ at' \in [Writers -> Nat] /\ made' \in [Writers -> Nat]
      /\ temp' \in [Writers -> File \cup {NoFile}]
      /\ WriterOK(w)'
  <2> USE <1>1, <1>2 DEF Goto
  <2>1. CASE WriteProduct(w)
    <3>1. /\ pc' \in [Writers -> Steps] /\ made' \in [Writers -> Nat] /\ UNCHANGED <<at, temp>>
      BY <2>1 DEF WriteProduct, TypeOK, Steps
    <3>2. pc[w] = "idle" /\ pc'[w] = "next" /\ made'[w] = made[w] + 1 /\ made[w] \in Nat
      BY <2>1 DEF WriteProduct, TypeOK
    <3>3. \A n \in NamesOf(w) : out[n] # NoFile => out[n].v \in Nat /\ out[n].v <= made[w]
      <4>1. Outputs[w] \in Seq(Names) /\ NamesOf(w) \subseteq Names
        BY OutputAssumption DEF NamesOf
      <4>2. QED
        BY <4>1 DEF TypeOK, WriterOK, File, Versions
    <3>a. Ahead(w)'
      <4>1. ASSUME NEW i \in 1..Len(Outputs[w]), out[Outputs[w][i]] # NoFile
            PROVE  out[Outputs[w][i]].v < made'[w]
        <5>1. Outputs[w][i] \in NamesOf(w)
          BY DEF NamesOf
        <5>2. QED
          BY <3>2, <3>3, <4>1, <5>1
      <4>2. QED
        BY <4>1 DEF Ahead, fileVars
    <3>4. WriterOK(w)'
      BY <3>1, <3>2, <3>3, <3>a DEF WriterOK, InPipe, Moved, fileVars
    <3>5. QED
      BY <3>1, <3>4 DEF TypeOK
  <2>2. CASE NextOutput(w)
    <3>1. /\ pc[w] = "next" /\ made[w] \in Nat /\ made[w] > 0 /\ UNCHANGED made /\ at[w] \in Nat
          /\ at[w] < Len(Outputs[w])
      BY <2>2 DEF NextOutput, WriterOK, TypeOK
    <3>2. Part(w) \in File /\ Part(w).v = made[w]
      BY <3>1 DEF Part, File, States, Versions
    <3>3. /\ pc' \in [Writers -> Steps] /\ at' \in [Writers -> Nat]
          /\ temp' \in [Writers -> File \cup {NoFile}]
          /\ pc'[w] = "encode" /\ at'[w] = at[w] + 1 /\ temp'[w] = Part(w)
      <4>1. /\ pc' = [pc EXCEPT ![w] = "encode"] /\ at' = [at EXCEPT ![w] = @ + 1]
            /\ temp' = [temp EXCEPT ![w] = Part(w)]
        BY <2>2 DEF NextOutput
      <4>2. QED
        BY <3>1, <3>2, <4>1 DEF TypeOK, Steps
    <3>4. Ahead(w)'
      BY <3>1, <3>3 DEF Ahead, WriterOK, fileVars
    <3>5. WriterOK(w)'
      BY <3>1, <3>2, <3>3, <3>4 DEF WriterOK, InPipe, Moved, fileVars
    <3>6. QED
      BY <3>1, <3>3, <3>5 DEF TypeOK
  <2>2a. CASE OutputsDone(w)
    <3>1. /\ pc' = [pc EXCEPT ![w] = "idle"] /\ at' = [at EXCEPT ![w] = 0]
          /\ temp' = [temp EXCEPT ![w] = NoFile] /\ UNCHANGED made
      BY <2>2a DEF OutputsDone
    <3>2. /\ pc' \in [Writers -> Steps] /\ at' \in [Writers -> Nat]
          /\ temp' \in [Writers -> File \cup {NoFile}]
          /\ pc'[w] = "idle" /\ at'[w] = 0
      BY <3>1 DEF TypeOK, Steps
    <3>3. WriterOK(w)'
      BY <3>1, <3>2 DEF WriterOK, InPipe, Moved, fileVars
    <3>4. QED
      BY <3>1, <3>2, <3>3 DEF TypeOK
  <2>3. CASE Encode(w)
    <3>1. pc[w] = "encode" /\ temp[w] \in File /\ temp[w].v = made[w] /\ UNCHANGED <<at, made>>
      BY <2>3 DEF Encode, WriterOK, InPipe
    <3>2. PICK s \in {"whole", "short"} : temp' = [temp EXCEPT ![w].state = s]
      BY <2>3 DEF Encode
    <3>3. temp'[w] = [temp[w] EXCEPT !.state = s]
      BY <3>2 DEF TypeOK
    <3>4. temp'[w] \in File /\ temp'[w].v = made[w] /\ temp'[w].state # "part"
      BY <3>1, <3>3 DEF File, States
    <3>5. temp' \in [Writers -> File \cup {NoFile}]
      BY <3>2, <3>3, <3>4 DEF TypeOK
    <3>6. pc' \in [Writers -> Steps] /\ pc'[w] \in {"compress", "move"}
      BY <2>3 DEF Encode, TypeOK, Steps
    <3>7. WriterOK(w)'
      BY <3>1, <3>4, <3>6 DEF WriterOK, InPipe, Moved, fileVars, Ahead
    <3>8. QED
      BY <3>1, <3>5, <3>6, <3>7 DEF TypeOK
  <2>4. CASE Compress(w) \/ PipelineFails(w)
    BY <1>1, <1>2, <2>4 DEF Compress, PipelineFails, Goto, TypeOK, WriterOK, InPipe, Moved, Steps, fileVars, Ahead
  <2>5. CASE RemoveTemp(w) \/ PostWrite(w) \/ FmlFails(w) \/ PublishFails(w)
    BY <1>1, <1>2, <2>5 DEF RemoveTemp, PostWrite, FmlFails, PublishFails, Goto, TypeOK, WriterOK,
                            InPipe, Moved, Steps, fileVars, Name, Ahead
  <2>6. CASE Crash(w)
    BY <1>1, <1>2, <2>6 DEF Crash, Goto, TypeOK, WriterOK, InPipe, Moved, Steps, fileVars
  <2>7. QED
    BY <2>1, <2>2, <2>2a, <2>3, <2>4, <2>5, <2>6 DEF Hidden
<1>7. TypeOK'
  BY <1>1, <1>2, <1>6 DEF TypeOK, fileVars, readerVars
<1>8. QED
  BY <1>4, <1>5, <1>6, <1>7 DEF OutInv

\* The outputs of a writer.
LEMMA OutputOK ==
  ASSUME NEW w \in Writers, NEW i \in 1..Len(Outputs[w])
  PROVE  /\ Outputs[w][i] \in Names /\ Outputs[w][i] \in NamesOf(w)
         /\ \A x \in Writers : x # w => Outputs[w][i] \notin NamesOf(x)
         /\ \A j \in 1..Len(Outputs[w]) : j # i => Outputs[w][j] # Outputs[w][i]
<1>1. Outputs[w] \in Seq(Names)
  BY OutputAssumption
<1>2. Outputs[w][i] \in Names /\ Outputs[w][i] \in NamesOf(w)
  BY <1>1 DEF NamesOf
<1>3. QED
  BY <1>2, OutputAssumption

\* A final name is given another content: one that is complete, or the making
\* of a version that is newer than what was there, if it is written in place.
LEMMA Overwrite ==
  ASSUME OutInv, NEW w \in Writers, NEW n \in Names, n \in NamesOf(w),
         \A x \in Writers : x # w => n \notin NamesOf(x),
         NEW f \in File, f.v = made[w], out' = [out EXCEPT ![n] = f],
         f.state = "part" => n \in inPlace /\ (out[n] # NoFile => out[n].v < made[w]),
         \A m \in Names \ {n} : outTmp'[m] = outTmp[m],
         outTmp' \in [Names -> File \cup {NoFile}], temp' \in [Writers -> File \cup {NoFile}],
         at' \in [Writers -> Nat], pc' \in [Writers -> Steps],
         \A x \in Writers \ {w} : temp'[x] = temp[x] /\ pc'[x] = pc[x] /\ at'[x] = at[x],
         UNCHANGED <<made, inPlace, working, fml, readerVars, told, read>>,
         WriterOK(w)'
  PROVE  OutInv'
<1>1. TypeOK /\ WriterOK(w) /\ made[w] \in Nat /\ f # NoFile
  BY OutputAssumption DEF OutInv, TypeOK
<1>2. /\ out'[n] = f /\ \A m \in Names \ {n} : out'[m] = out[m]
      /\ out' \in [Names -> File \cup {NoFile}]
  BY <1>1 DEF TypeOK
<1>3. ASSUME NEW x \in Writers PROVE NamesOf(x) \subseteq Names
  <2>1. Outputs[x] \in Seq(Names)
    BY OutputAssumption
  <2>2. QED
    BY <2>1 DEF NamesOf
<1>4. ASSUME NEW x \in Writers, x # w PROVE WriterOK(x)'
  BY <1>2, <1>3, <1>4, Undisturbed
<1>5. RecordNamesProduct'
  <2>1. ASSUME NEW t \in told
        PROVE /\ out'[t.name] # NoFile /\ out'[t.name].v >= t.v
              /\ out'[t.name].state = "part" => t.name \in inPlace /\ out'[t.name].v > t.v
    <3>1. t.name \in Names /\ t.v \in Nat
      BY <1>1 DEF TypeOK, Notice, Versions
    <3>2. /\ out[t.name] # NoFile /\ out[t.name].v >= t.v
          /\ out[t.name].state = "part" => t.name \in inPlace /\ out[t.name].v > t.v
      BY DEF OutInv, RecordNamesProduct
    <3>3. CASE t.name # n
      BY <1>2, <3>1, <3>2, <3>3
    <3>4. CASE t.name = n
      <4>1. out[n].v <= made[w] /\ out[n].v \in Nat
        BY <1>1, <3>1, <3>2, <3>4 DEF WriterOK, TypeOK, File, Versions
      <4>2. QED
        BY <1>1, <1>2, <3>1, <3>2, <3>4, <4>1
    <3>5. QED
      BY <3>3, <3>4
  <2>2. QED
    BY <2>1 DEF RecordNamesProduct
<1>6. FilesOK' /\ ReaderOK'
  BY <1>1, <1>2 DEF OutInv, FilesOK, ReaderOK, readerVars
<1>7. TypeOK'
  BY <1>1, <1>2 DEF TypeOK, readerVars
<1>8. QED
  BY <1>4, <1>5, <1>6, <1>7 DEF OutInv

\* A step that puts a complete file in place.
LEMMA PutInPlace ==
  ASSUME OutInv, NEW w \in Writers, pc[w] \in {"move", "replace"}, NEW f, Complete(f, made[w]),
         out' = [out EXCEPT ![Name(w)] = f],
         \A n \in Names \ {Name(w)} : outTmp'[n] = outTmp[n],
         outTmp' \in [Names -> File \cup {NoFile}], temp' \in [Writers -> File \cup {NoFile}],
         \A x \in Writers \ {w} : temp'[x] = temp[x],
         \E s \in {"remove", "post"} : pc' = [pc EXCEPT ![w] = s],
         UNCHANGED <<at, made, inPlace, working, fml, readerVars, told, read>>
  PROVE  OutInv'
<1>1. TypeOK /\ WriterOK(w) /\ at[w] \in 1..Len(Outputs[w]) /\ made[w] \in Nat
  <2>1. TypeOK /\ WriterOK(w) /\ Len(Outputs[w]) \in Nat
    BY OutputAssumption DEF OutInv
  <2>2. QED
    BY <2>1 DEF WriterOK, TypeOK
<1>2. /\ Name(w) \in Names /\ Name(w) \in NamesOf(w) /\ Name(w)' = Name(w)
      /\ \A x \in Writers : x # w => Name(w) \notin NamesOf(x)
  BY <1>1, NameOK DEF Name
<1>3. f \in File /\ f.v = made[w] /\ f.state # "part" /\ f # NoFile
  BY OutputAssumption DEF Complete
<1>4. out'[Name(w)] = f /\ \A n \in Names \ {Name(w)} : out'[n] = out[n]
  BY <1>1, <1>2, <1>3 DEF TypeOK
<1>5. pc' \in [Writers -> Steps] /\ pc'[w] \in {"remove", "post"}
      /\ \A x \in Writers \ {w} : pc'[x] = pc[x]
  BY <1>1 DEF TypeOK, Steps
<1>6. WriterOK(w)'
  <2>1. \A n \in NamesOf(w) : out'[n] # NoFile => out'[n].v <= made[w]
    <3>1. Outputs[w] \in Seq(Names)
      BY OutputAssumption
    <3>2. NamesOf(w) \subseteq Names
      BY <3>1 DEF NamesOf
    <3>3. QED
      BY <1>1, <1>3, <1>4, <3>2 DEF WriterOK
  <2>2. Complete(out'[Name(w)], made[w])
    BY <1>4
  <2>3. Ahead(w)'
    <3>1. ASSUME NEW i \in 1..Len(Outputs[w]), i > at[w] PROVE out'[Outputs[w][i]] = out[Outputs[w][i]]
      <4>1. Outputs[w][i] \in Names /\ Outputs[w][i] # Name(w)
        BY <1>1, <3>1, OutputOK DEF Name
      <4>2. QED
        BY <1>4, <4>1
    <3>2. Ahead(w)
      BY <1>1 DEF WriterOK
    <3>3. QED
      BY <3>1, <3>2 DEF Ahead
  <2>4. QED
    BY <1>1, <1>2, <1>5, <2>1, <2>2, <2>3 DEF WriterOK, InPipe, Moved, Complete
<1>7. at' \in [Writers -> Nat] /\ \A x \in Writers \ {w} : at'[x] = at[x]
  BY <1>1 DEF TypeOK
<1>8. QED
  BY <1>2, <1>3, <1>5, <1>6, <1>7, Overwrite

\* A product is written in place.
LEMMA InPlaceStep ==
  ASSUME OutInv, NEW w \in Writers, OpenInPlace(w) \/ WriteInPlace(w)
  PROVE  OutInv'
<1>1. /\ TypeOK /\ WriterOK(w) /\ Len(Outputs[w]) \in Nat /\ at[w] \in Nat
      /\ made[w] \in Versions /\ made[w] \in Nat /\ at[w] <= Len(Outputs[w])
  <2>1. TypeOK /\ WriterOK(w) /\ Len(Outputs[w]) \in Nat
    BY OutputAssumption DEF OutInv
  <2>2. pc[w] # "idle"
    BY DEF OpenInPlace, WriteInPlace
  <2>3. QED
    BY <2>1, <2>2 DEF WriterOK, TypeOK, Versions
<1>2. outTmp' \in [Names -> File \cup {NoFile}] /\ temp' \in [Writers -> File \cup {NoFile}]
      /\ UNCHANGED <<made, inPlace, temp, outTmp, working, fml, readerVars, told, read>>
  BY <1>1 DEF OpenInPlace, WriteInPlace, TypeOK
<1>3. CASE OpenInPlace(w)
  <2>1. /\ pc[w] = "next" /\ at[w] < Len(Outputs[w]) /\ at' = [at EXCEPT ![w] = @ + 1]
        /\ Outputs[w][at[w] + 1] \in inPlace
        /\ \/ out' = [out EXCEPT ![Outputs[w][at[w] + 1]] = Part(w)] /\ pc' = [pc EXCEPT ![w] = "inplace"]
           \/ UNCHANGED <<out, pc>>
    BY <1>3 DEF OpenInPlace, Goto
  <2>2. PICK i \in 1..Len(Outputs[w]) : i = at[w] + 1
    BY <1>1, <2>1
  <2>3. PICK n \in Names : n = Outputs[w][i]
    BY OutputOK
  <2>4. /\ n \in NamesOf(w) /\ \A x \in Writers : x # w => n \notin NamesOf(x)
        /\ \A j \in 1..Len(Outputs[w]) : j # i => Outputs[w][j] # n /\ Outputs[w][j] \in Names
    BY <2>3, OutputOK
  <2>5. /\ at' \in [Writers -> Nat] /\ at'[w] = i
        /\ \A x \in Writers \ {w} : at'[x] = at[x]
    BY <1>1, <2>1, <2>2 DEF TypeOK
  <2>6. Ahead(w) /\ (out[n] # NoFile => out[n].v < made[w])
    BY <1>1, <2>1, <2>2, <2>3 DEF WriterOK, Ahead
  <2>7. Name(w)' = n
    BY <2>3, <2>5 DEF Name
  <2>8. CASE UNCHANGED <<out, pc>>
    <3>1. Ahead(w)'
      BY <1>1, <1>2, <2>2, <2>5, <2>6, <2>8 DEF Ahead
    <3>2. WriterOK(w)'
      BY <1>1, <1>2, <2>1, <2>2, <2>5, <2>8, <3>1 DEF WriterOK, InPipe, Moved
    <3>3. ASSUME NEW x \in Writers, x # w PROVE WriterOK(x)'
      BY <1>2, <2>5, <2>8, <3>3, Undisturbed
    <3>4. TypeOK'
      BY <1>1, <1>2, <2>5, <2>8 DEF TypeOK, readerVars
    <3>5. FilesOK' /\ ReaderOK' /\ RecordNamesProduct'
      BY <1>2, <2>8 DEF OutInv, FilesOK, ReaderOK, RecordNamesProduct, readerVars
    <3>6. QED
      BY <3>2, <3>3, <3>4, <3>5 DEF OutInv
  <2>9. CASE out' = [out EXCEPT ![n] = Part(w)] /\ pc' = [pc EXCEPT ![w] = "inplace"]
    <3>1. Part(w) \in File /\ Part(w).v = made[w] /\ Part(w)' = Part(w)
      BY <1>1, <1>2 DEF Part, File, States
    <3>2. out'[n] = Part(w) /\ \A m \in Names \ {n} : out'[m] = out[m]
      BY <1>1, <2>9 DEF TypeOK
    <3>3. /\ pc' \in [Writers -> Steps] /\ pc'[w] = "inplace"
          /\ \A x \in Writers \ {w} : pc'[x] = pc[x]
      BY <1>1, <2>9 DEF TypeOK, Steps
    <3>4. Ahead(w)'
      <4>1. ASSUME NEW j \in 1..Len(Outputs[w]), j > i
            PROVE  j > at[w] /\ out'[Outputs[w][j]] = out[Outputs[w][j]]
        BY <1>1, <2>2, <2>4, <3>2, <4>1
      <4>2. QED
        BY <1>2, <2>5, <2>6, <4>1 DEF Ahead
    <3>5. \A m \in NamesOf(w) : out'[m] # NoFile => out'[m].v <= made[w]
      <4>1. Outputs[w] \in Seq(Names)
        BY OutputAssumption
      <4>2. NamesOf(w) \subseteq Names
        BY <4>1 DEF NamesOf
      <4>3. QED
        BY <1>1, <3>1, <3>2, <4>2 DEF WriterOK
    <3>6. WriterOK(w)'
      <4>1. i \in 0..Len(Outputs[w]) /\ i > 0 /\ made[w] > 0
        BY <1>1, <2>1 DEF WriterOK
      <4>2. n \in inPlace
        BY <2>1, <2>2, <2>3
      <4>3. QED
        BY <1>2, <2>5, <2>7, <3>1, <3>2, <3>3, <3>4, <3>5, <4>1, <4>2 DEF WriterOK, InPipe, Moved
    <3>7. n \in inPlace
      BY <2>1, <2>2, <2>3
    <3>8. QED
      BY <1>2, <2>4, <2>5, <2>6, <2>9, <3>1, <3>3, <3>6, <3>7, Overwrite
  <2>10. QED
    BY <2>1, <2>2, <2>3, <2>8, <2>9
<1>4. CASE WriteInPlace(w)
  <2>1. pc[w] = "inplace" /\ pc' = [pc EXCEPT ![w] = "fml"] /\ at' = at
    BY <1>4 DEF WriteInPlace, Goto
  <2>2. at[w] \in 1..Len(Outputs[w]) /\ out[Name(w)] = Part(w)
    BY <1>1, <2>1 DEF WriterOK
  <2>3. PICK n \in Names : n = Name(w)
    BY <2>2, NameOK
  <2>4. /\ n \in NamesOf(w) /\ \A x \in Writers : x # w => n \notin NamesOf(x)
        /\ Name(w)' = n
    BY <2>1, <2>2, <2>3, NameOK DEF Name
  <2>5. PICK s \in {"whole", "short"} : out' = [out EXCEPT ![n].state = s]
    BY <1>4, <2>3 DEF WriteInPlace
  <2>6. PICK f : f = [Part(w) EXCEPT !.state = s]
    OBVIOUS
  <2>7. f \in File /\ f.v = made[w] /\ f.state # "part"
    BY <1>1, <2>6 DEF Part, File, States
  <2>8. out' = [out EXCEPT ![n] = f]
    BY <1>1, <2>2, <2>3, <2>5, <2>6 DEF TypeOK
  <2>9. out'[n] = f /\ \A m \in Names \ {n} : out'[m] = out[m]
    BY <1>1, <2>8 DEF TypeOK
  <2>10. /\ pc' \in [Writers -> Steps] /\ pc'[w] = "fml"
         /\ \A x \in Writers \ {w} : pc'[x] = pc[x]
    BY <1>1, <2>1 DEF TypeOK, Steps
  <2>11. Ahead(w)'
    <3>1. ASSUME NEW i \in 1..Len(Outputs[w]), i > at[w] PROVE out'[Outputs[w][i]] = out[Outputs[w][i]]
      <4>1. Outputs[w][i] \in Names /\ Outputs[w][i] # n
        BY <1>1, <2>2, <2>3, <3>1, OutputOK DEF Name
      <4>2. QED
        BY <2>9, <4>1
    <3>2. Ahead(w)
      BY <1>1, <2>1 DEF WriterOK
    <3>3. QED
      BY <1>2, <2>1, <3>1, <3>2 DEF Ahead
  <2>12. \A m \in NamesOf(w) : out'[m] # NoFile => out'[m].v <= made[w]
    <3>1. Outputs[w] \in Seq(Names)
      BY OutputAssumption
    <3>2. NamesOf(w) \subseteq Names
      BY <3>1 DEF NamesOf
    <3>3. QED
      BY <1>1, <2>7, <2>9, <3>2 DEF WriterOK
  <2>13. WriterOK(w)'
    BY <1>1, <1>2, <2>1, <2>4, <2>7, <2>9, <2>10, <2>11, <2>12 DEF WriterOK, InPipe, Moved, Complete
  <2>14. at' \in [Writers -> Nat] /\ \A x \in Writers \ {w} : at'[x] = at[x]
    BY <1>1, <2>1 DEF TypeOK
  <2>15. QED
    BY <1>2, <2>4, <2>7, <2>8, <2>10, <2>13, <2>14, Overwrite
<1>5. QED
  BY <1>3, <1>4

\* A step that changes files beside the final name only.
LEMMA Beside ==
  ASSUME OutInv, NEW w \in Writers, at[w] \in 1..Len(Outputs[w]),
         NEW s \in Steps, pc' = [pc EXCEPT ![w] = s],
         outTmp' \in [Names -> File \cup {NoFile}], working' \in [Names -> File \cup {NoFile}],
         \A n \in Names \ {Name(w)} : outTmp'[n] = outTmp[n] /\ working'[n] = working[n],
         UNCHANGED <<at, made, inPlace, temp, out, fml, readerVars, told, read>>,
         WriterOK(w)'
  PROVE  OutInv'
<1>1. TypeOK
  BY DEF OutInv
<1>2. \A x \in Writers : x # w => Name(w) \notin NamesOf(x)
  BY NameOK
<1>3. ASSUME NEW x \in Writers, x # w PROVE WriterOK(x)'
  <2>1. Outputs[x] \in Seq(Names)
    BY OutputAssumption
  <2>2. NamesOf(x) \subseteq Names \ {Name(w)}
    BY <1>2, <1>3, <2>1 DEF NamesOf
  <2>3. pc'[x] = pc[x]
    BY <1>1, <1>3 DEF TypeOK
  <2>4. QED
    BY <2>2, <2>3, Undisturbed
<1>4. FilesOK' /\ ReaderOK' /\ RecordNamesProduct'
  BY DEF OutInv, FilesOK, ReaderOK, RecordNamesProduct, readerVars
<1>5. TypeOK'
  BY <1>1 DEF TypeOK, readerVars
<1>6. QED
  BY <1>3, <1>4, <1>5 DEF OutInv

\* The product gets its final name.
LEMMA MoveStep ==
  ASSUME OutInv, NEW w \in Writers,
         Rename(w) \/ CopyStart(w) \/ CopyEnd(w) \/ Replace(w)
  PROVE  OutInv'
<1>1. TypeOK /\ WriterOK(w) /\ at[w] \in 1..Len(Outputs[w]) /\ made[w] \in Versions
  <2>1. TypeOK /\ WriterOK(w) /\ Len(Outputs[w]) \in Nat
    BY OutputAssumption DEF OutInv
  <2>2. pc[w] \in {"move", "copy", "replace"}
    BY DEF Rename, CopyStart, CopyEnd, Replace
  <2>3. QED
    BY <2>1, <2>2 DEF WriterOK, TypeOK, Versions
<1>2. Name(w) \in Names /\ NoFile \notin File
  BY <1>1, NameOK, OutputAssumption
<1>3. CASE Rename(w)
  <2>1. Complete(temp[w], made[w]) /\ pc[w] = "move"
    BY <1>1, <1>3 DEF Rename, WriterOK, InPipe, Complete
  <2>2. /\ out' = [out EXCEPT ![Name(w)] = temp[w]] /\ temp' = [temp EXCEPT ![w] = NoFile]
        /\ pc' = [pc EXCEPT ![w] = "post"]
        /\ UNCHANGED <<at, made, inPlace, outTmp, working, fml, readerVars, told, read>>
    BY <1>3 DEF Rename, Goto
  <2>3. /\ temp' \in [Writers -> File \cup {NoFile}] /\ \A x \in Writers \ {w} : temp'[x] = temp[x]
        /\ outTmp' \in [Names -> File \cup {NoFile}]
    BY <1>1, <2>2 DEF TypeOK
  <2>4. QED
    BY <2>1, <2>2, <2>3, PutInPlace
<1>4. CASE Replace(w)
  <2>1. Complete(outTmp[Name(w)], made[w]) /\ pc[w] = "replace"
    BY <1>1, <1>4 DEF Replace, WriterOK
  <2>2. /\ out' = [out EXCEPT ![Name(w)] = outTmp[Name(w)]]
        /\ outTmp' = [outTmp EXCEPT ![Name(w)] = NoFile]
        /\ pc' = [pc EXCEPT ![w] = "remove"]
        /\ UNCHANGED <<at, made, inPlace, temp, working, fml, readerVars, told, read>>
    BY <1>4 DEF Replace, Goto
  <2>3. /\ temp' \in [Writers -> File \cup {NoFile}] /\ \A x \in Writers \ {w} : temp'[x] = temp[x]
        /\ outTmp' \in [Names -> File \cup {NoFile}]
        /\ \A n \in Names \ {Name(w)} : outTmp'[n] = outTmp[n]
    BY <1>1, <2>2 DEF TypeOK
  <2>4. QED
    BY <2>1, <2>2, <2>3, PutInPlace
<1>5. CASE CopyStart(w)
  <2>1. Part(w) \in File /\ Part(w).v = made[w]
    BY <1>1 DEF Part, File, States
  <2>2. /\ pc[w] = "move" /\ pc' = [pc EXCEPT ![w] = "copy"]
        /\ outTmp' = [outTmp EXCEPT ![Name(w)] = Part(w)]
        /\ UNCHANGED <<at, made, inPlace, temp, out, working, fml, readerVars, told, read>>
    BY <1>5 DEF CopyStart, Goto
  <2>3. /\ outTmp' \in [Names -> File \cup {NoFile}] /\ working' \in [Names -> File \cup {NoFile}]
        /\ \A n \in Names \ {Name(w)} : outTmp'[n] = outTmp[n] /\ working'[n] = working[n]
    BY <1>1, <2>1, <2>2 DEF TypeOK
  <2>4. pc'[w] = "copy"
    BY <1>1, <2>2 DEF TypeOK
  <2>5. WriterOK(w)'
    BY <1>1, <2>2, <2>4 DEF WriterOK, InPipe, Moved, Ahead
  <2>6. QED
    BY <1>1, <2>2, <2>3, <2>5, Beside DEF Steps
<1>6. CASE CopyEnd(w)
  <2>1. Complete(temp[w], made[w]) /\ pc[w] = "copy"
    BY <1>1, <1>6 DEF CopyEnd, WriterOK, InPipe, Complete
  <2>2. /\ pc' = [pc EXCEPT ![w] = "replace"]
        /\ outTmp' = [outTmp EXCEPT ![Name(w)] = temp[w]]
        /\ UNCHANGED <<at, made, inPlace, temp, out, working, fml, readerVars, told, read>>
    BY <1>6 DEF CopyEnd, Goto
  <2>3. /\ outTmp' \in [Names -> File \cup {NoFile}] /\ working' \in [Names -> File \cup {NoFile}]
        /\ \A n \in Names \ {Name(w)} : outTmp'[n] = outTmp[n] /\ working'[n] = working[n]
    BY <1>1, <2>1, <2>2 DEF TypeOK, Complete
  <2>4. pc'[w] = "replace" /\ outTmp'[Name(w)] = temp[w] /\ Name(w)' = Name(w)
    BY <1>1, <1>2, <2>2 DEF TypeOK, Name
  <2>5. WriterOK(w)'
    BY <1>1, <2>1, <2>2, <2>4 DEF WriterOK, InPipe, Moved, Complete, Ahead
  <2>6. QED
    BY <1>1, <2>2, <2>3, <2>5, Beside DEF Steps
<1>7. QED
  BY <1>3, <1>4, <1>5, <1>6

\* A notice is given.
LEMMA NotifyStep ==
  ASSUME OutInv, NEW w \in Writers,
         OpenWorking(w) \/ WriteWorking(w) \/ RenameFml(w) \/ PublishRedis(w)
  PROVE  OutInv'
<1>1. /\ TypeOK /\ WriterOK(w) /\ at[w] \in 1..Len(Outputs[w]) /\ made[w] \in Versions
      /\ Complete(out[Name(w)], made[w])
  <2>1. TypeOK /\ WriterOK(w) /\ Len(Outputs[w]) \in Nat
    BY OutputAssumption DEF OutInv
  <2>2. pc[w] \in {"fml", "fmlwrite", "fmlrename", "redis"}
    BY DEF OpenWorking, WriteWorking, RenameFml, PublishRedis
  <2>3. QED
    BY <2>1, <2>2 DEF WriterOK, TypeOK, Versions, Moved
<1>2. /\ Name(w) \in Names /\ NoFile \notin File
      /\ \A x \in Writers : x # w => Name(w) \notin NamesOf(x)
  BY <1>1, NameOK, OutputAssumption
<1>3. [name |-> Name(w), v |-> made[w]] \in Notice
  BY <1>1, <1>2 DEF Notice
<1>4. \A x \in Writers : NamesOf(x) \subseteq Names
  <2>1. ASSUME NEW x \in Writers PROVE NamesOf(x) \subseteq Names
    <3>1. Outputs[x] \in Seq(Names)
      BY OutputAssumption
    <3>2. QED
      BY <3>1 DEF NamesOf
  <2>2. QED
    BY <2>1
<1>5. CASE OpenWorking(w)
  <2>1. Part(w) \in File /\ Part(w).v = made[w]
    BY <1>1 DEF Part, File, States
  <2>2. /\ pc[w] = "fml" /\ pc' = [pc EXCEPT ![w] = "fmlwrite"]
        /\ working' = [working EXCEPT ![Name(w)] = Part(w)]
        /\ UNCHANGED <<at, made, inPlace, temp, out, outTmp, fml, readerVars, told, read>>
    BY <1>5 DEF OpenWorking, Goto
  <2>3. /\ outTmp' \in [Names -> File \cup {NoFile}] /\ working' \in [Names -> File \cup {NoFile}]
        /\ \A n \in Names \ {Name(w)} : outTmp'[n] = outTmp[n] /\ working'[n] = working[n]
    BY <1>1, <2>1, <2>2 DEF TypeOK
  <2>4. pc'[w] = "fmlwrite" /\ working'[Name(w)] = Part(w) /\ Name(w)' = Name(w)
    BY <1>1, <1>2, <2>2 DEF TypeOK, Name
  <2>5. WriterOK(w)'
    BY <1>1, <2>1, <2>2, <2>4 DEF WriterOK, InPipe, Moved, Complete, Ahead
  <2>6. QED
    BY <1>1, <2>2, <2>3, <2>5, Beside DEF Steps
<1>6. CASE WriteWorking(w)
  <2>1. pc[w] = "fmlwrite" /\ working[Name(w)] \in File /\ working[Name(w)].v = made[w]
    BY <1>1, <1>6 DEF WriteWorking, WriterOK
  <2>2. PICK s \in {"whole", "short"} : working' = [working EXCEPT ![Name(w)].state = s]
    BY <1>6 DEF WriteWorking
  <2>3. /\ pc' = [pc EXCEPT ![w] = "fmlrename"]
        /\ UNCHANGED <<at, made, inPlace, temp, out, outTmp, fml, readerVars, told, read>>
    BY <1>6 DEF WriteWorking, Goto
  <2>4. working'[Name(w)] = [working[Name(w)] EXCEPT !.state = s]
    BY <1>1, <1>2, <2>2 DEF TypeOK
  <2>5. Complete(working'[Name(w)], made[w])
    BY <2>1, <2>4 DEF Complete, File, States
  <2>6. /\ outTmp' \in [Names -> File \cup {NoFile}] /\ working' \in [Names -> File \cup {NoFile}]
        /\ \A n \in Names \ {Name(w)} : outTmp'[n] = outTmp[n] /\ working'[n] = working[n]
    BY <1>1, <2>2, <2>3, <2>4, <2>5 DEF TypeOK, Complete
  <2>7. pc'[w] = "fmlrename" /\ Name(w)' = Name(w)
    BY <1>1, <2>3 DEF TypeOK, Name
  <2>8. WriterOK(w)'
    BY <1>1, <2>1, <2>3, <2>5, <2>7 DEF WriterOK, InPipe, Moved, Complete, Ahead
  <2>9. QED
    BY <1>1, <2>3, <2>6, <2>8, Beside DEF Steps
<1>7. CASE RenameFml(w) \/ PublishRedis(w)
  <2> DEFINE t == [name |-> Name(w), v |-> made[w]]
  <2>1. /\ told' = told \cup {t}
        /\ UNCHANGED <<at, made, inPlace, temp, out, outTmp, sub, records, restarts, read>>
        /\ pc[w] \in {"fmlrename", "redis"}
    BY <1>7 DEF RenameFml, PublishRedis, fileVars
  <2>2. /\ pc' \in [Writers -> Steps] /\ pc'[w] \in {"redis", "next"}
        /\ \A x \in Writers \ {w} : pc'[x] = pc[x]
    BY <1>1, <1>7 DEF RenameFml, PublishRedis, Goto, TypeOK, Steps
  <2>3. told' \subseteq Notice
    BY <1>1, <1>3, <2>1 DEF TypeOK
  <2>4. RecordNamesProduct'
    <3>1. /\ out[Name(w)] # NoFile /\ out[Name(w)].v = made[w] /\ made[w] \in Nat
          /\ out[Name(w)].state # "part"
      BY <1>1, <1>2 DEF Complete, Versions
    <3>2. t.name = Name(w) /\ t.v = made[w]
      OBVIOUS
    <3> HIDE DEF t
    <3>3. \A u \in told : /\ out[u.name] # NoFile /\ out[u.name].v >= u.v
                          /\ out[u.name].state = "part" => u.name \in inPlace /\ out[u.name].v > u.v
      BY DEF OutInv, RecordNamesProduct
    <3>4. QED
      BY <2>1, <3>1, <3>2, <3>3 DEF RecordNamesProduct
  <2>5. CASE RenameFml(w)
    <3>1. /\ Complete(working[Name(w)], made[w])
          /\ fml' = [fml EXCEPT ![Name(w)] = working[Name(w)]]
          /\ working' = [working EXCEPT ![Name(w)] = NoFile]
          /\ events' = Append(events, Name(w)) /\ UNCHANGED wire
          /\ pc[w] = "fmlrename" /\ pc'[w] = "redis"
      BY <1>1, <2>5 DEF RenameFml, WriterOK, Goto, TypeOK
    <3>2. working[Name(w)] \in File /\ working[Name(w)].v = made[w]
          /\ working[Name(w)].state # "part" /\ working[Name(w)] # NoFile
      BY <1>2, <3>1 DEF Complete
    <3>3. /\ fml'[Name(w)] = working[Name(w)] /\ \A n \in Names \ {Name(w)} : fml'[n] = fml[n]
          /\ fml' \in [Names -> File \cup {NoFile}]
      BY <1>1, <1>2, <3>1, <3>2 DEF TypeOK
    <3>4. /\ \A n \in Names \ {Name(w)} : working'[n] = working[n]
          /\ working' \in [Names -> File \cup {NoFile}]
      BY <1>1, <3>1 DEF TypeOK
    <3>5. TypeOK'
      BY <1>1, <1>2, <2>1, <2>2, <2>3, <3>1, <3>3, <3>4 DEF TypeOK
    <3>6. FilesOK'
      <4>1. ASSUME NEW n \in Names
            PROVE /\ out[n] # NoFile /\ out[n].state = "part" => n \in inPlace
                  /\ fml'[n] # NoFile => /\ fml'[n].state # "part"
                                         /\ [name |-> n, v |-> fml'[n].v] \in told'
        <5>1. CASE n = Name(w)
          BY <2>1, <3>2, <3>3, <5>1 DEF OutInv, FilesOK
        <5>2. CASE n # Name(w)
          BY <2>1, <3>3, <5>2 DEF OutInv, FilesOK
        <5>3. QED
          BY <5>1, <5>2
      <4>2. QED
        BY <2>1, <4>1 DEF FilesOK
    <3>7. ReaderOK'
      <4>1. ReaderOK /\ events \in Seq(Names) /\ Len(events) \in Nat
        BY <1>1 DEF OutInv, TypeOK
      <4>2. ASSUME NEW i \in 1..Len(events') PROVE fml'[events'[i]] # NoFile
        <5>1. CASE i \in 1..Len(events)
          <6>1. events'[i] = events[i] /\ events[i] \in Names /\ fml[events[i]] # NoFile
            BY <3>1, <4>1, <5>1 DEF ReaderOK
          <6>2. QED
            BY <3>2, <3>3, <6>1
        <5>2. CASE i \notin 1..Len(events)
          <6>1. events'[i] = Name(w)
            BY <3>1, <4>1, <4>2, <5>2
          <6>2. QED
            BY <3>2, <3>3, <6>1
        <5>3. QED
          BY <5>1, <5>2
      <4>3. QED
        BY <2>1, <3>1, <4>1, <4>2 DEF ReaderOK
    <3>8. ASSUME NEW x \in Writers, x # w PROVE WriterOK(x)'
      BY <1>2, <1>4, <2>1, <2>2, <3>4, <3>8, Undisturbed
    <3>9. WriterOK(w)'
      <4>1. Name(w)' = Name(w)
        BY <2>1 DEF Name
      <4>2. QED
        BY <1>1, <2>1, <3>1, <4>1 DEF WriterOK, InPipe, Moved, Ahead
    <3>10. QED
      BY <2>4, <3>5, <3>6, <3>7, <3>8, <3>9 DEF OutInv
  <2>6. CASE PublishRedis(w)
    <3>1. /\ UNCHANGED <<working, fml, events>> /\ pc'[w] = "next"
          /\ wire' \in {wire, Append(wire, t)}
      BY <1>1, <2>6 DEF PublishRedis, fileVars, Goto, TypeOK
    <3>2. wire' \in Seq(Notice)
      <4>1. wire \in Seq(Notice) /\ t \in Notice
        BY <1>1, <1>3 DEF TypeOK
      <4> HIDE DEF t
      <4>2. QED
        BY <3>1, <4>1
    <3>3. TypeOK'
      BY <1>1, <2>1, <2>2, <2>3, <3>1, <3>2 DEF TypeOK
    <3>4. FilesOK'
      BY <2>1, <3>1 DEF OutInv, FilesOK
    <3>5. ReaderOK'
      <4>1. ReaderOK /\ wire \in Seq(Notice)
        BY <1>1 DEF OutInv, TypeOK
      <4>2. ASSUME NEW i \in 1..Len(wire') PROVE wire'[i] \in told'
        BY <1>3, <2>1, <3>1, <4>1, <4>2 DEF ReaderOK
      <4>3. QED
        BY <2>1, <3>1, <4>1, <4>2 DEF ReaderOK
    <3>6. ASSUME NEW x \in Writers, x # w PROVE WriterOK(x)'
      BY <2>1, <2>2, <3>1, <3>6, Undisturbed
    <3>7. WriterOK(w)'
      BY <1>1, <2>1, <3>1 DEF WriterOK, InPipe, Moved, Ahead
    <3>8. QED
      BY <2>4, <3>3, <3>4, <3>5, <3>6, <3>7 DEF OutInv
  <2>7. QED
    BY <1>7, <2>5, <2>6
<1>8. QED
  BY <1>5, <1>6, <1>7

\* What holds of all elements and of one more.
LEMMA AppendAll ==
  ASSUME NEW S, NEW T, NEW s \in Seq(S), \A i \in 1..Len(s) : s[i] \in T, NEW x \in S \cap T
  PROVE  Append(s, x) \in Seq(S) /\ \A i \in 1..Len(Append(s, x)) : Append(s, x)[i] \in T
<1>1. /\ Len(s) \in Nat /\ Len(Append(s, x)) = Len(s) + 1 /\ Append(s, x) \in Seq(S)
      /\ Append(s, x)[Len(s) + 1] = x /\ \A i \in 1..Len(s) : Append(s, x)[i] = s[i]
  OBVIOUS
<1>2. QED
  BY <1>1

\* What a reader finds under the name it follows is a reading of that file.
LEMMA WhatIsRead ==
  ASSUME NEW n \in Names, NEW v \in Versions, NEW f \in File, f.v >= v,
         f.state = "part" => n \in inPlace /\ f.v > v
  PROVE  LET s == [name |-> n, v |-> v, saw |-> f]
         IN  /\ s \in [name : Names, v : Versions, saw : File] /\ s.saw.v >= s.v
             /\ (s.saw.state = "part" => s.name \in inPlace /\ s.saw.v > s.v)
OBVIOUS

\* The reader, and what happens to it, leaves files and notices alone.
LEMMA ReaderStep ==
  ASSUME OutInv, Reader \/ LinkDrops \/ Reconnect \/ ReaderRestarts
  PROVE  OutInv'
<1>1. TypeOK /\ ReaderOK /\ FilesOK /\ RecordNamesProduct
  BY DEF OutInv
<1>2. UNCHANGED <<writerVars, fileVars, told>>
  BY DEF Reader, HandleFile, HandleRedis, ReadProduct, LinkDrops, Reconnect, ReaderRestarts
<1>3. FilesOK' /\ RecordNamesProduct'
  BY <1>1, <1>2 DEF FilesOK, RecordNamesProduct, fileVars
<1>4. ASSUME NEW w \in Writers PROVE WriterOK(w)'
  BY <1>2, Undisturbed DEF writerVars, fileVars
<1>5. events \in Seq(Names) /\ wire \in Seq(Notice) /\ records \in Seq(Notice)
  BY <1>1 DEF TypeOK
<1>6. SUFFICES /\ events' \in Seq(Names) /\ \A i \in 1..Len(events') : fml[events'[i]] # NoFile
               /\ wire' \in Seq(Notice) /\ \A i \in 1..Len(wire') : wire'[i] \in told
               /\ records' \in Seq(Notice) /\ \A i \in 1..Len(records') : records'[i] \in told
               /\ sub' \in BOOLEAN /\ restarts' \in Nat
               /\ \A r \in read' : /\ r \in [name : Names, v : Versions, saw : File]
                                   /\ r.saw.v >= r.v
                                   /\ r.saw.state = "part" => r.name \in inPlace /\ r.saw.v > r.v
  <2>1. TypeOK'
    BY <1>1, <1>2, <1>6 DEF TypeOK, writerVars, fileVars
  <2>2. ReaderOK'
    BY <1>2, <1>6 DEF ReaderOK, fileVars
  <2>3. QED
    BY <1>3, <1>4, <2>1, <2>2 DEF OutInv
<1>7. /\ \A i \in 1..Len(events) : fml[events[i]] # NoFile
      /\ \A i \in 1..Len(wire) : wire[i] \in told
      /\ \A i \in 1..Len(records) : records[i] \in told
      /\ sub \in BOOLEAN /\ restarts \in Nat
      /\ \A r \in read : /\ r \in [name : Names, v : Versions, saw : File]
                         /\ r.saw.v >= r.v
                         /\ r.saw.state = "part" => r.name \in inPlace /\ r.saw.v > r.v
  BY <1>1 DEF TypeOK, ReaderOK
<1>8. CASE HandleFile
  <2> DEFINE n == Head(events)
             r == [name |-> n, v |-> fml[n].v]
  <2>1. n \in Names /\ fml[n] # NoFile /\ fml[n] \in File
    BY <1>1, <1>5, <1>7, <1>8 DEF HandleFile, TypeOK
  <2>2. r \in told /\ r \in Notice
    BY <1>1, <2>1 DEF FilesOK, TypeOK
  <2>3. /\ events' = Tail(events) /\ events # << >> /\ records' \in {records, Append(records, r)}
        /\ UNCHANGED <<wire, sub, restarts, read>>
    BY <1>8 DEF HandleFile
  <2> HIDE DEF n, r
  <2>4. events' \in Seq(Names) /\ \A i \in 1..Len(events') : fml[events'[i]] # NoFile
    BY <1>5, <1>7, <2>3
  <2>5. records' \in Seq(Notice) /\ \A i \in 1..Len(records') : records'[i] \in told
    <3>1. CASE records' = records
      BY <1>5, <1>7, <3>1
    <3>2. CASE records' = Append(records, r)
      BY <1>5, <1>7, <2>2, <3>2, AppendAll
    <3>3. QED
      BY <2>3, <3>1, <3>2
  <2>6. QED
    BY <1>5, <1>7, <2>3, <2>4, <2>5
<1>9. CASE HandleRedis
  <2>1. /\ wire # << >> /\ wire' = Tail(wire) /\ records' = Append(records, Head(wire))
        /\ UNCHANGED <<events, sub, restarts, read>>
    BY <1>9 DEF HandleRedis
  <2>2. Head(wire) \in Notice /\ Head(wire) \in told
    BY <1>5, <1>7, <2>1
  <2>3. wire' \in Seq(Notice) /\ \A i \in 1..Len(wire') : wire'[i] \in told
    BY <1>5, <1>7, <2>1
  <2>4. records' \in Seq(Notice) /\ \A i \in 1..Len(records') : records'[i] \in told
    BY <1>5, <1>7, <2>1, <2>2
  <2>5. QED
    BY <1>5, <1>7, <2>1, <2>3, <2>4
<1>10. CASE ReadProduct
  <2> DEFINE r == Head(records)
  <2>1. /\ records # << >> /\ records' = Tail(records)
        /\ read' = read \cup {[name |-> r.name, v |-> r.v, saw |-> out[r.name]]}
        /\ UNCHANGED <<events, wire, sub, restarts>>
    BY <1>10 DEF ReadProduct
  <2>2. r \in told /\ r \in Notice
    BY <1>5, <1>7, <2>1
  <2>3. /\ r.name \in Names /\ r.v \in Versions /\ out[r.name] \in File
        /\ out[r.name].v >= r.v
        /\ out[r.name].state = "part" => r.name \in inPlace /\ out[r.name].v > r.v
    BY <1>1, <2>2 DEF TypeOK, Notice, RecordNamesProduct
  <2> HIDE DEF r
  <2>4. PICK n \in Names, v \in Versions, f \in File :
          /\ read' = read \cup {[name |-> n, v |-> v, saw |-> f]} /\ f.v >= v
          /\ f.state = "part" => n \in inPlace /\ f.v > v
    BY <2>1, <2>3
  <2> DEFINE s == [name |-> n, v |-> v, saw |-> f]
  <2>5. /\ s \in [name : Names, v : Versions, saw : File] /\ s.saw.v >= s.v
        /\ s.saw.state = "part" => s.name \in inPlace /\ s.saw.v > s.v
    BY <2>4, WhatIsRead
  <2>6. records' \in Seq(Notice) /\ \A i \in 1..Len(records') : records'[i] \in told
    BY <1>5, <1>7, <2>1 DEF r
  <2>7. read' = read \cup {s}
    BY <2>4
  <2> HIDE DEF s
  <2>8. QED
    BY <1>5, <1>7, <2>1, <2>5, <2>6, <2>7
<1>11. CASE LinkDrops \/ Reconnect \/ ReaderRestarts
  <2>1. UNCHANGED read /\ restarts' \in Nat
    BY <1>7, <1>11 DEF LinkDrops, Reconnect, ReaderRestarts
  <2>2. /\ events' \in {events, << >>} /\ wire' \in {wire, << >>} /\ records' \in {records, << >>}
    BY <1>11 DEF LinkDrops, Reconnect, ReaderRestarts
  <2>3. sub' \in BOOLEAN
    BY <1>11 DEF LinkDrops, Reconnect, ReaderRestarts
  <2>4. Len(<< >>) = 0 /\ << >> \in Seq(Names) /\ << >> \in Seq(Notice)
    OBVIOUS
  <2>5. events' \in Seq(Names) /\ \A i \in 1..Len(events') : fml[events'[i]] # NoFile
    <3>1. CASE events' = events
      BY <1>5, <1>7, <3>1
    <3>2. CASE events' = << >>
      BY <2>4, <3>2
    <3>3. QED
      BY <2>2, <3>1, <3>2
  <2>6. wire' \in Seq(Notice) /\ \A i \in 1..Len(wire') : wire'[i] \in told
    <3>1. CASE wire' = wire
      BY <1>5, <1>7, <3>1
    <3>2. CASE wire' = << >>
      BY <2>4, <3>2
    <3>3. QED
      BY <2>2, <3>1, <3>2
  <2>7. records' \in Seq(Notice) /\ \A i \in 1..Len(records') : records'[i] \in told
    <3>1. CASE records' = records
      BY <1>5, <1>7, <3>1
    <3>2. CASE records' = << >>
      BY <2>4, <3>2
    <3>3. QED
      BY <2>2, <3>1, <3>2
  <2>8. QED
    BY <1>7, <2>1, <2>3, <2>5, <2>6, <2>7
<1>12. QED
  BY <1>8, <1>9, <1>10, <1>11 DEF Reader

\* Every step.
LEMMA OutNext == OutInv /\ [Next]_vars => OutInv'
<1> SUFFICES ASSUME OutInv, [Next]_vars PROVE OutInv'
  OBVIOUS
<1>1. ASSUME NEW w \in Writers, WriteProduct(w) \/ Writer(w) \/ Crash(w) PROVE OutInv'
  BY <1>1, HiddenStep, InPlaceStep, MoveStep, NotifyStep DEF Writer, Hidden
<1>2. CASE UNCHANGED vars
  <2>1. \A w \in Writers : WriterOK(w)'
    BY <1>2, Undisturbed DEF vars, writerVars, fileVars
  <2>2. QED
    BY <1>2, <2>1 DEF vars, writerVars, fileVars, readerVars, OutInv, TypeOK, FilesOK,
                      ReaderOK, RecordNamesProduct
<1>3. QED
  BY <1>1, <1>2, ReaderStep DEF Next

\* The invariant holds.
LEMMA OutInvariant == SafetySpec => []OutInv
  BY OutInit, OutNext, PTL DEF SafetySpec

-----------------------------------------------------------------------------
\* The state of writers, files, connections and reader is what its declarations
\* say.
THEOREM OutputTypeCorrect == Spec => []TypeOK
<1>1. OutInv => TypeOK
  BY DEF OutInv
<1>2. QED
  BY <1>1, OutInvariant, PTL DEF Spec

\* writeOutputProduct() notifies after the move only, so that no failure of a
\* step and no stop between two leaves a notice without its product; one that
\* is written in place may be in the making again, for a later version.
THEOREM RecordsNameProducts == Spec => []RecordNamesProduct
<1>1. OutInv => RecordNamesProduct
  BY DEF OutInv
<1>2. QED
  BY <1>1, OutInvariant, PTL DEF Spec

\* Since moveFile() and the FML notifier end in a rename, no reader meets a
\* record that is being written, nor a product that has a temporary file, also
\* when a name is overwritten.  Of a product that is written in place it may
\* meet the making of a later version than its record names.
THEOREM ReadersFindWhole == Spec => []ReadersSeeWhole
<1>1. OutInv => ReadersSeeWhole
  <2> SUFFICES ASSUME OutInv PROVE ReadersSeeWhole
    OBVIOUS
  <2>1. ASSUME NEW r \in read
        PROVE /\ r.saw # NoFile /\ r.saw.v >= r.v
              /\ r.saw.state = "part" => r.name \in inPlace /\ r.saw.v > r.v
    BY OutputAssumption DEF OutInv, TypeOK, ReaderOK
  <2>2. QED
    BY <2>1 DEF OutInv, FilesOK, ReadersSeeWhole
<1>2. QED
  BY <1>1, OutInvariant, PTL DEF Spec

-----------------------------------------------------------------------------
\* The version in place, as Delivery sees it.
LEMMA StoreValue ==
  ASSUME OutInv, NEW n \in Names
  PROVE  /\ Store[n] \in Nat
         /\ out[n] = NoFile \/ n \in inPlace => Store[n] = 0
         /\ out[n] # NoFile /\ n \notin inPlace => Store[n] = out[n].v /\ out[n].v \in Versions
  BY DEF OutInv, TypeOK, FilesOK, Store, File, Versions

\* The initial states map to those of Delivery,
LEMMA InitRefined == Init => D!DInit
<1> SUFFICES ASSUME Init PROVE D!DInit
  OBVIOUS
<1>1. Store = [n \in Names |-> 0]
  BY DEF Init, Store
<1>2. Readings = {} /\ Announced = {}
  BY DEF Init, Readings, Announced
<1>3. QED
  BY <1>1, <1>2 DEF D!DInit

\* A complete file in place is a version published, unless it is the same one
\* or written in place.
LEMMA PutRefined ==
  ASSUME OutInv, OutInv', NEW w \in Writers, at[w] \in 1..Len(Outputs[w]), WriterOK(w),
         NEW f \in File, f.v = made[w], out' = [out EXCEPT ![Name(w)] = f],
         UNCHANGED <<inPlace, told, read>>
  PROVE  [D!DNext]_<<Store, Announced, Readings>>
<1> DEFINE n == Name(w)
           v == made[w]
<1>1. n \in Names /\ n \in NamesOf(w)
  BY NameOK
<1>2. f.v = v /\ f # NoFile /\ v \in Versions
  BY OutputAssumption DEF File
<1>3. out \in [Names -> File \cup {NoFile}]
  BY DEF OutInv, TypeOK
<1>4. out'[n] = f /\ \A m \in Names \ {n} : out'[m] = out[m]
  BY <1>1, <1>3
<1>5. /\ \A m \in Names \ {n} : Store'[m] = Store[m]
      /\ n \in inPlace => Store'[n] = Store[n]
      /\ n \notin inPlace => Store'[n] = v
  <2>1. f.state = "part" => n \in inPlace
    BY <1>1, <1>2, <1>4 DEF OutInv, FilesOK
  <2>2. QED
    BY <1>1, <1>2, <1>4, <2>1 DEF Store
<1>6. Store[n] <= v /\ Store[n] \in Nat /\ v \in Nat
  <2>1. out[n] # NoFile => out[n].v <= v
    BY <1>1 DEF WriterOK
  <2>2. QED
    BY <1>1, <1>2, <2>1, StoreValue DEF Versions
<1>7. /\ Store = [m \in Names |-> Store[m]] /\ Store' = [m \in Names |-> Store'[m]]
  BY DEF Store
<1>8. Readings' = Readings /\ Announced' = Announced
  BY DEF Readings, Announced
<1> HIDE DEF n, v
<1>9. Store' = [Store EXCEPT ![n] = Store'[n]]
  BY <1>1, <1>5, <1>7
<1>10. CASE Store[n] = v \/ n \in inPlace
  <2>1. Store' = Store
    BY <1>1, <1>5, <1>7, <1>10
  <2>2. QED
    BY <1>8, <2>1
<1>11. CASE Store[n] < v /\ n \notin inPlace
  <2>1. D!Publish(n)
    BY <1>5, <1>6, <1>8, <1>9, <1>11 DEF D!Publish
  <2>2. QED
    BY <1>1, <2>1 DEF D!DNext
<1>12. QED
  BY <1>6, <1>10, <1>11

\* ... and every step to a step of it or a stutter.
LEMMA StepRefined ==
  ASSUME OutInv, OutInv', [Next]_vars
  PROVE  [D!DNext]_<<Store, Announced, Readings>>
<1>0. UNCHANGED inPlace
  BY DEF Next, Writer, Reader, WriteProduct, NextOutput, OpenInPlace, WriteInPlace, OutputsDone,
         Encode, Compress, Rename, CopyStart, CopyEnd, Replace, RemoveTemp, PostWrite, PipelineFails,
         OpenWorking, WriteWorking, RenameFml, FmlFails, PublishRedis, PublishFails, Crash,
         HandleFile, HandleRedis, ReadProduct, LinkDrops, Reconnect, ReaderRestarts, fileVars, vars
<1>1. ASSUME UNCHANGED <<out, told, read>> PROVE [D!DNext]_<<Store, Announced, Readings>>
  BY <1>0, <1>1 DEF Store, Readings, Announced
<1>2. ASSUME NEW w \in Writers, Rename(w) \/ Replace(w)
      PROVE  [D!DNext]_<<Store, Announced, Readings>>
  <2>1. TypeOK /\ WriterOK(w) /\ Len(Outputs[w]) \in Nat
    BY OutputAssumption DEF OutInv
  <2>2. at[w] \in 1..Len(Outputs[w])
    BY <1>2, <2>1 DEF WriterOK, Rename, Replace
  <2>3. CASE Rename(w)
    <3>1. /\ temp[w] \in File /\ temp[w].v = made[w] /\ out' = [out EXCEPT ![Name(w)] = temp[w]]
          /\ UNCHANGED <<told, read>>
      BY <2>1, <2>3 DEF Rename, WriterOK, InPipe
    <3>2. QED
      BY <1>0, <2>1, <2>2, <3>1, PutRefined
  <2>4. CASE Replace(w)
    <3>1. /\ outTmp[Name(w)] \in File /\ outTmp[Name(w)].v = made[w]
          /\ out' = [out EXCEPT ![Name(w)] = outTmp[Name(w)]] /\ UNCHANGED <<told, read>>
      BY <2>1, <2>4 DEF Replace, WriterOK, Complete
    <3>2. QED
      BY <1>0, <2>1, <2>2, <3>1, PutRefined
  <2>5. QED
    BY <1>2, <2>3, <2>4
<1>3. ASSUME NEW w \in Writers, RenameFml(w) \/ PublishRedis(w)
      PROVE  [D!DNext]_<<Store, Announced, Readings>>
  <2>1. TypeOK /\ WriterOK(w) /\ Len(Outputs[w]) \in Nat
    BY OutputAssumption DEF OutInv
  <2>2. at[w] \in 1..Len(Outputs[w]) /\ Complete(out[Name(w)], made[w])
    BY <1>3, <2>1 DEF WriterOK, RenameFml, PublishRedis, Moved
  <2>3. Name(w) \in Names
    BY <2>2, NameOK
  <2>4. Name(w) \notin inPlace => made[w] \in 1..Store[Name(w)]
    <3>1. out[Name(w)] # NoFile /\ out[Name(w)].v = made[w]
      BY <2>2, OutputAssumption DEF Complete
    <3>2. QED
      BY <2>3, <3>1, StoreValue DEF Versions
  <2>5. told' = told \cup {[name |-> Name(w), v |-> made[w]]} /\ UNCHANGED <<out, read>>
    BY <1>3 DEF RenameFml, PublishRedis, fileVars
  <2>6. Store' = Store /\ Readings' = Readings
    BY <1>0, <2>5 DEF Store, Readings
  <2> DEFINE t == [name |-> Name(w), v |-> made[w]]
  <2>7. CASE Name(w) \in inPlace
    <3>1. Announced' = Announced
      BY <1>0, <2>5, <2>7 DEF Announced
    <3>2. QED
      BY <2>6, <3>1
  <2>8. CASE Name(w) \notin inPlace
    <3>1. Announced' = Announced \cup {t}
      BY <1>0, <2>5, <2>8 DEF Announced
    <3>2. D!Announce(Name(w))
      BY <2>4, <2>6, <2>8, <3>1 DEF D!Announce
    <3>3. QED
      BY <2>3, <3>2 DEF D!DNext
  <2>9. QED
    BY <2>7, <2>8
<1>4. CASE ReadProduct
  <2> DEFINE t == Head(records)
             s == [name |-> t.name, v |-> t.v, saw |-> out[t.name]]
  <2>1. records # << >> /\ read' = read \cup {s} /\ UNCHANGED <<told, out>>
    BY <1>4 DEF ReadProduct, fileVars
  <2>2. t \in told
    <3>1. records \in Seq(Notice) /\ \A i \in 1..Len(records) : records[i] \in told
      BY DEF OutInv, TypeOK, ReaderOK
    <3>2. QED
      BY <2>1, <3>1
  <2>3. t.name \in Names /\ out[t.name] # NoFile /\ out[t.name].v >= t.v
    BY <2>2 DEF OutInv, TypeOK, Notice, RecordNamesProduct
  <2>a. CASE t.name \in inPlace
    <3>1. Store' = Store /\ Announced' = Announced
      BY <1>0, <2>1 DEF Store, Announced
    <3>2. s.name = t.name
      OBVIOUS
    <3> HIDE DEF s, t
    <3>3. Readings' = Readings
      BY <1>0, <2>1, <2>a, <3>2 DEF Readings
    <3>4. QED
      BY <3>1, <3>3
  <2> SUFFICES ASSUME t.name \notin inPlace PROVE [D!DNext]_<<Store, Announced, Readings>>
    BY <2>a
  <2>4. Store[t.name] = out[t.name].v
    BY <2>3, StoreValue
  <2>5. Store' = Store /\ Announced' = Announced
    BY <1>0, <2>1 DEF Store, Announced
  <2>6. Readings' = Readings \cup {[name |-> t.name, v |-> t.v, saw |-> Store[t.name]]}
    <3>1. s.name = t.name /\ s.v = t.v /\ s.saw.v = Store[t.name]
      BY <2>4
    <3>2. t.name \notin inPlace
      OBVIOUS
    <3> HIDE DEF s, t
    <3>3. QED
      BY <1>0, <2>1, <3>1, <3>2 DEF Readings
  <2>7. t.v <= Store[t.name]
    BY <2>3, <2>4
  <2>b. t \in Announced
    BY <2>2 DEF Announced
  <2> HIDE DEF t, s
  <2>8. D!Follow(t)
    BY <2>1, <2>5, <2>6, <2>7 DEF D!Follow
  <2>9. QED
    BY <2>b, <2>8 DEF D!DNext
<1>5. CASE HandleFile \/ HandleRedis \/ LinkDrops \/ Reconnect \/ ReaderRestarts \/ UNCHANGED vars
  <2>1. UNCHANGED <<out, told, read>>
    BY <1>5 DEF HandleFile, HandleRedis, LinkDrops, Reconnect, ReaderRestarts, vars, fileVars
  <2>2. QED
    BY <1>1, <2>1
<1>6. ASSUME NEW w \in Writers,
             Hidden(w) \/ CopyStart(w) \/ CopyEnd(w) \/ OpenWorking(w) \/ WriteWorking(w)
      PROVE  [D!DNext]_<<Store, Announced, Readings>>
  <2>1. UNCHANGED <<out, told, read>>
    BY <1>6 DEF Hidden, WriteProduct, NextOutput, OutputsDone, Encode, Compress, RemoveTemp, PostWrite,
           PipelineFails, FmlFails, PublishFails, Crash, CopyStart, CopyEnd, OpenWorking,
           WriteWorking, fileVars
  <2>2. QED
    BY <1>1, <2>1
<1>7. ASSUME NEW w \in Writers, OpenInPlace(w) \/ WriteInPlace(w)
      PROVE  [D!DNext]_<<Store, Announced, Readings>>
  <2>1. /\ TypeOK /\ WriterOK(w) /\ Len(Outputs[w]) \in Nat /\ at[w] \in Nat
        /\ made[w] \in Versions
    <3>1. TypeOK /\ WriterOK(w) /\ Len(Outputs[w]) \in Nat
      BY OutputAssumption DEF OutInv
    <3>2. pc[w] # "idle"
      BY <1>7 DEF OpenInPlace, WriteInPlace
    <3>3. QED
      BY <3>1, <3>2 DEF WriterOK, TypeOK, Versions
  <2>2. PICK n \in inPlace : \/ out' = out
                             \/ \E f : out' = [out EXCEPT ![n] = f]
    BY <1>7, <2>1 DEF OpenInPlace, WriteInPlace, WriterOK
  <2>3. out' \in [Names -> File \cup {NoFile}] /\ out \in [Names -> File \cup {NoFile}]
    BY DEF OutInv, TypeOK
  <2>4. \A m \in Names \ inPlace : out'[m] = out[m]
    BY <2>2, <2>3
  <2>5. UNCHANGED <<told, read>>
    BY <1>7 DEF OpenInPlace, WriteInPlace
  <2>6. Store' = Store
    BY <1>0, <2>4 DEF Store
  <2>7. QED
    BY <1>0, <2>5, <2>6 DEF Readings, Announced
<1>8. QED
  BY <1>2, <1>3, <1>4, <1>5, <1>6, <1>7 DEF Next, Writer, Reader, Hidden

\* The files, renames, inotify events and Redis messages keep the promise of
\* Delivery for all products that have a temporary file: whole versions that
\* only grow, notices of what is in place, and readers that find at least what
\* a notice names.
THEOREM OutputRefinesDelivery == Spec => ImplementsDelivery
<1>1. OutInv /\ OutInv' /\ [Next]_vars => [D!DNext]_<<Store, Announced, Readings>>
  BY StepRefined
<1>2. QED
  BY <1>1, InitRefined, OutInvariant, PTL DEF Spec, SafetySpec, ImplementsDelivery, D!DSpec
===============================================================================
