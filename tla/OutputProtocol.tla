----------------------------- MODULE OutputProtocol -----------------------------
(***************************************************************************)
(* How a product leaves a program and reaches another: the writer's main   *)
(* thread goes through writeOutputProduct() one system call at a time      *)
(* (temporary file, post processing, move into place, notification by an   *)
(* FML file and by Redis), any call may fail and the program may stop      *)
(* between any two; the reader's watches turn notifications into records   *)
(* and its record queue reads the products they name.  The encoders of     *)
(* XML and JSON, and Python scripts, use no temporary file: they write to  *)
(* the final name.                                                         *)
(*                                                                         *)
(* A file is [v, state]: the version of the product it holds or names and  *)
(* "part" while it is being written or when that was given up, "whole", or *)
(* "short" when a write failed and nobody looked (BinaryIO and the FML     *)
(* notifier do not).                                                       *)
(***************************************************************************)
EXTENDS Naturals, Sequences, FiniteSets

CONSTANTS Writers,             \* the programs that write
          Names,               \* final names of products, one per output of a writer
          Outputs,             \* writer -> sequence of names, its -o list
          Compressed,          \* writers with "compression" set
          HaveRedis,           \* the notifier is compiled with HAVE_REDIS
          NoFile,
          MaxVersion,          \* bound: products a writer writes
          MaxRestarts          \* bound: restarts of the reader

States == {"part", "short", "whole"}
Versions == Nat \ {0}
File == [v : Versions, state : States]

NamesOf(w) == {Outputs[w][i] : i \in 1..Len(Outputs[w])}

(* Each name has one writer and occurs once in its list. *)
ASSUME OutputAssumption ==
  /\ Outputs \in [Writers -> Seq(Names)]
  /\ Compressed \subseteq Writers
  /\ \A w \in Writers : Len(Outputs[w]) > 0
  /\ \A w, x \in Writers : w # x => NamesOf(w) \cap NamesOf(x) = {}
  /\ \A w \in Writers : \A i, j \in 1..Len(Outputs[w]) :
       i # j => Outputs[w][i] # Outputs[w][j]
  /\ HaveRedis \in BOOLEAN /\ NoFile \notin File
  /\ MaxVersion \in Nat /\ MaxRestarts \in Nat

VARIABLES pc, at, made, temp,                \* per writer
          inPlace,                           \* names whose format, in the -o list, is
                                             \* written to the name directly
          out, outTmp, working, fml,         \* per name: files that others can see
          events, wire, sub, records, restarts,   \* the reader
          told, read                         \* history: notices given, products read

writerVars == <<pc, at, made, temp>>
fileVars   == <<inPlace, out, outTmp, working, fml>>
readerVars == <<events, wire, sub, records, restarts>>
vars       == <<writerVars, fileVars, readerVars, told, read>>

Steps == {"idle", "next", "inplace", "encode", "compress", "move", "copy", "replace", "remove",
          "post", "fml", "fmlwrite", "fmlrename", "redis"}
Notice == [name : Names, v : Versions]

TypeOK ==
  /\ pc \in [Writers -> Steps]
  /\ at \in [Writers -> Nat]
  /\ made \in [Writers -> Nat]
  /\ temp \in [Writers -> File \cup {NoFile}]
  /\ inPlace \subseteq Names
  /\ out \in [Names -> File \cup {NoFile}]
  /\ outTmp \in [Names -> File \cup {NoFile}]
  /\ working \in [Names -> File \cup {NoFile}]
  /\ fml \in [Names -> File \cup {NoFile}]
  /\ events \in Seq(Names)
  /\ wire \in Seq(Notice)
  /\ sub \in BOOLEAN
  /\ records \in Seq(Notice)
  /\ restarts \in Nat
  /\ told \subseteq Notice
  /\ read \subseteq [name : Names, v : Versions, saw : File]

Init ==
  /\ pc = [w \in Writers |-> "idle"]
  /\ at = [w \in Writers |-> 0]
  /\ made = [w \in Writers |-> 0]
  /\ temp = [w \in Writers |-> NoFile]
  /\ inPlace \in SUBSET Names
  /\ out = [n \in Names |-> NoFile]
  /\ outTmp = [n \in Names |-> NoFile]
  /\ working = [n \in Names |-> NoFile]
  /\ fml = [n \in Names |-> NoFile]
  /\ events = << >> /\ wire = << >> /\ records = << >>
  /\ sub = TRUE
  /\ restarts = 0
  /\ told = {} /\ read = {}

-----------------------------------------------------------------------------
Name(w) == Outputs[w][at[w]]
Goto(w, step) == pc' = [pc EXCEPT ![w] = step]

\* Mutant: the product is numbered after its outputs were opened.
PartLate(w) == [v |-> made[w] - 1, state |-> "part"]

Part(w) == [v |-> made[w], state |-> "part"]

(* writeOutputProduct(): a new version, to be written to every output. *)
WriteProduct(w) ==
  /\ pc[w] = "idle" /\ made[w] < MaxVersion
  /\ made' = [made EXCEPT ![w] = @ + 1]
  /\ Goto(w, "next")
  /\ UNCHANGED <<at, temp, fileVars, readerVars, told, read>>

(* The loop over the writers; encodeDataType() opens a unique temporary file, *)
NextOutput(w) ==
  /\ pc[w] = "next" /\ at[w] < Len(Outputs[w])
  /\ Outputs[w][at[w] + 1] \notin inPlace
  /\ at' = [at EXCEPT ![w] = @ + 1]
  /\ temp' = [temp EXCEPT ![w] = Part(w)]
  /\ Goto(w, "encode")
  /\ UNCHANGED <<made, fileVars, readerVars, told, read>>

(* or, for XML, JSON and Python, the final name itself, which empties the     *)
(* version that is there; if it can be opened.                                *)
OpenInPlace(w) ==
  /\ pc[w] = "next" /\ at[w] < Len(Outputs[w])
  /\ Outputs[w][at[w] + 1] \in inPlace
  /\ at' = [at EXCEPT ![w] = @ + 1]
  /\ \/ out' = [out EXCEPT ![Outputs[w][at[w] + 1]] = Part(w)] /\ Goto(w, "inplace")
     \/ UNCHANGED <<out, pc>>
  /\ UNCHANGED <<made, inPlace, temp, outTmp, working, fml, readerVars, told, read>>

(* Nothing follows: no compression, no other step of the pipeline.            *)
WriteInPlace(w) ==
  /\ pc[w] = "inplace"
  /\ \E s \in {"whole", "short"} : out' = [out EXCEPT ![Name(w)].state = s]
  /\ Goto(w, "fml")
  /\ UNCHANGED <<at, made, inPlace, temp, outTmp, working, fml, readerVars, told, read>>

OutputsDone(w) ==
  /\ pc[w] = "next" /\ at[w] = Len(Outputs[w])
  /\ at' = [at EXCEPT ![w] = 0]
  /\ temp' = [temp EXCEPT ![w] = NoFile]
  /\ Goto(w, "idle")
  /\ UNCHANGED <<made, fileVars, readerVars, told, read>>

\* Mutant: a compressed product is not moved.
EncodeUnmoved(w) ==
  /\ pc[w] = "encode"
  /\ \E s \in {"whole", "short"} : temp' = [temp EXCEPT ![w].state = s]
  /\ Goto(w, IF w \in Compressed THEN "post" ELSE "move")
  /\ UNCHANGED <<at, made, fileVars, readerVars, told, read>>

Encode(w) ==
  /\ pc[w] = "encode"
  /\ \E s \in {"whole", "short"} : temp' = [temp EXCEPT ![w].state = s]
  /\ Goto(w, IF w \in Compressed THEN "compress" ELSE "move")
  /\ UNCHANGED <<at, made, fileVars, readerVars, told, read>>

(* CompressionStep: another temporary file takes the place of the first. *)
Compress(w) ==
  /\ pc[w] = "compress"
  /\ Goto(w, "move")
  /\ UNCHANGED <<at, made, temp, fileVars, readerVars, told, read>>

(* rename() of the temporary file, when it is on the same device *)
Rename(w) ==
  /\ pc[w] = "move"
  /\ out' = [out EXCEPT ![Name(w)] = temp[w]]
  /\ temp' = [temp EXCEPT ![w] = NoFile]
  /\ Goto(w, "post")
  /\ UNCHANGED <<at, made, inPlace, outTmp, working, fml, readerVars, told, read>>

\* Mutant: the file is copied to its final name.
CopyStartInPlace(w) ==
  /\ pc[w] = "move"
  /\ out' = [out EXCEPT ![Name(w)] = Part(w)]
  /\ outTmp' = [outTmp EXCEPT ![Name(w)] = Part(w)]
  /\ Goto(w, "copy")
  /\ UNCHANGED <<at, made, inPlace, temp, working, fml, readerVars, told, read>>

(* ... otherwise moveFile() copies to a fixed name beside the final one, *)
CopyStart(w) ==
  /\ pc[w] = "move"
  /\ outTmp' = [outTmp EXCEPT ![Name(w)] = Part(w)]
  /\ Goto(w, "copy")
  /\ UNCHANGED <<at, made, inPlace, temp, out, working, fml, readerVars, told, read>>

CopyEnd(w) ==
  /\ pc[w] = "copy"
  /\ outTmp' = [outTmp EXCEPT ![Name(w)] = temp[w]]
  /\ Goto(w, "replace")
  /\ UNCHANGED <<at, made, inPlace, temp, out, working, fml, readerVars, told, read>>

(* renames the copy, *)
Replace(w) ==
  /\ pc[w] = "replace"
  /\ out' = [out EXCEPT ![Name(w)] = outTmp[Name(w)]]
  /\ outTmp' = [outTmp EXCEPT ![Name(w)] = NoFile]
  /\ Goto(w, "remove")
  /\ UNCHANGED <<at, made, inPlace, temp, working, fml, readerVars, told, read>>

(* and removes the original. *)
RemoveTemp(w) ==
  /\ pc[w] = "remove"
  /\ temp' = [temp EXCEPT ![w] = NoFile]
  /\ Goto(w, "post")
  /\ UNCHANGED <<at, made, fileVars, readerVars, told, read>>

PostWrite(w) ==
  /\ pc[w] = "post"
  /\ Goto(w, "fml")
  /\ UNCHANGED <<at, made, temp, fileVars, readerVars, told, read>>

\* Mutant: the result of write() is not looked at.
PipelineFailsSilently(w) ==
  /\ pc[w] \in {"inplace", "encode", "compress", "move", "copy", "replace", "remove", "post"}
  /\ Goto(w, "fml")
  /\ UNCHANGED <<at, made, temp, fileVars, readerVars, told, read>>

(* A step of the pipeline that fails ends it: no record for this output, what *)
(* was written stays where it is, and the loop goes on to the next output.    *)
PipelineFails(w) ==
  /\ pc[w] \in {"inplace", "encode", "compress", "move", "copy", "replace", "remove", "post"}
  /\ Goto(w, "next")
  /\ UNCHANGED <<at, made, temp, fileVars, readerVars, told, read>>

-----------------------------------------------------------------------------
(* FMLRecordNotifier::writeRecord *)
OpenWorking(w) ==
  /\ pc[w] = "fml"
  /\ working' = [working EXCEPT ![Name(w)] = Part(w)]
  /\ Goto(w, "fmlwrite")
  /\ UNCHANGED <<at, made, inPlace, temp, out, outTmp, fml, readerVars, told, read>>

WriteWorking(w) ==
  /\ pc[w] = "fmlwrite"
  /\ \E s \in {"whole", "short"} : working' = [working EXCEPT ![Name(w)].state = s]
  /\ Goto(w, "fmlrename")
  /\ UNCHANGED <<at, made, inPlace, temp, out, outTmp, fml, readerVars, told, read>>

\* Mutant: a rename raises no event (IN_MOVED_TO is not in the mask).
RenameFmlUnseen(w) ==
  /\ pc[w] = "fmlrename"
  /\ fml' = [fml EXCEPT ![Name(w)] = working[Name(w)]]
  /\ working' = [working EXCEPT ![Name(w)] = NoFile]
  /\ told' = told \cup {[name |-> Name(w), v |-> made[w]]}
  /\ Goto(w, "redis")
  /\ UNCHANGED <<at, made, inPlace, temp, out, outTmp, readerVars, read>>

(* The final name appears with its content; inotify tells the reader. *)
RenameFml(w) ==
  /\ pc[w] = "fmlrename"
  /\ fml' = [fml EXCEPT ![Name(w)] = working[Name(w)]]
  /\ working' = [working EXCEPT ![Name(w)] = NoFile]
  /\ events' = Append(events, Name(w))
  /\ told' = told \cup {[name |-> Name(w), v |-> made[w]]}
  /\ Goto(w, "redis")
  /\ UNCHANGED <<at, made, inPlace, temp, out, outTmp, wire, sub, records, restarts, read>>

(* The .working file cannot be opened or renamed: the record is lost here. *)
FmlFails(w) ==
  /\ pc[w] \in {"fml", "fmlrename"}
  /\ Goto(w, "redis")
  /\ UNCHANGED <<at, made, temp, fileVars, readerVars, told, read>>

(* RedisRecordNotifier::publish; the server passes a message on to whoever    *)
(* is subscribed, and keeps none.                                             *)
PublishRedis(w) ==
  /\ pc[w] = "redis" /\ HaveRedis
  /\ wire' = IF sub THEN Append(wire, [name |-> Name(w), v |-> made[w]]) ELSE wire
  /\ told' = told \cup {[name |-> Name(w), v |-> made[w]]}
  /\ Goto(w, "next")
  /\ UNCHANGED <<at, made, temp, fileVars, events, sub, records, restarts, read>>

(* connect() fails, as it always does without HAVE_REDIS, or PUBLISH does. *)
PublishFails(w) ==
  /\ pc[w] = "redis"
  /\ Goto(w, "next")
  /\ UNCHANGED <<at, made, temp, fileVars, readerVars, told, read>>

(* The program stops at any step and is started again: its files stay, and a  *)
(* unique temporary file is of no interest to anybody.                        *)
Crash(w) ==
  /\ pc[w] # "idle"
  /\ Goto(w, "idle")
  /\ at' = [at EXCEPT ![w] = 0]
  /\ temp' = [temp EXCEPT ![w] = NoFile]
  /\ UNCHANGED <<made, fileVars, readerVars, told, read>>

-----------------------------------------------------------------------------
(* FMLIndex::handleFile: the file is read when its event is handled; one that *)
(* cannot be parsed is dropped.                                               *)
HandleFile ==
  /\ events # << >>
  /\ LET n == Head(events) IN
       records' = IF fml[n].state = "whole"
                    THEN Append(records, [name |-> n, v |-> fml[n].v])
                    ELSE records
  /\ events' = Tail(events)
  /\ UNCHANGED <<writerVars, fileVars, wire, sub, restarts, told, read>>

(* RedisWatcher and RedisIndex *)
HandleRedis ==
  /\ wire # << >>
  /\ records' = Append(records, Head(wire))
  /\ wire' = Tail(wire)
  /\ UNCHANGED <<writerVars, fileVars, events, sub, restarts, told, read>>

(* The record queue hands a record to the algorithm, which reads the product. *)
ReadProduct ==
  /\ records # << >>
  /\ LET r == Head(records) IN
       read' = read \cup {[name |-> r.name, v |-> r.v, saw |-> out[r.name]]}
  /\ records' = Tail(records)
  /\ UNCHANGED <<writerVars, fileVars, events, wire, sub, restarts, told>>

LinkDrops ==
  /\ sub
  /\ sub' = FALSE /\ wire' = << >>
  /\ UNCHANGED <<writerVars, fileVars, events, records, restarts, told, read>>

Reconnect ==
  /\ ~sub
  /\ sub' = TRUE
  /\ UNCHANGED <<writerVars, fileVars, events, wire, records, restarts, told, read>>

(* A reader that is started again with -r waits for new records only. *)
ReaderRestarts ==
  /\ restarts < MaxRestarts
  /\ restarts' = restarts + 1
  /\ events' = << >> /\ wire' = << >> /\ records' = << >>
  /\ sub' \in BOOLEAN
  /\ UNCHANGED <<writerVars, fileVars, told, read>>

Writer(w) ==
  \/ NextOutput(w) \/ OpenInPlace(w) \/ WriteInPlace(w) \/ OutputsDone(w)
  \/ Encode(w) \/ Compress(w)
  \/ Rename(w) \/ CopyStart(w) \/ CopyEnd(w) \/ Replace(w) \/ RemoveTemp(w)
  \/ PostWrite(w) \/ PipelineFails(w)
  \/ OpenWorking(w) \/ WriteWorking(w) \/ RenameFml(w) \/ FmlFails(w)
  \/ PublishRedis(w) \/ PublishFails(w)

Reader == HandleFile \/ HandleRedis \/ ReadProduct

Next == \/ \E w \in Writers : WriteProduct(w) \/ Writer(w) \/ Crash(w)
        \/ Reader
        \/ LinkDrops \/ Reconnect \/ ReaderRestarts

SafetySpec == Init /\ [][Next]_vars

(* The reader's main loop serves its watches and its queue. *)
Spec == SafetySpec /\ WF_vars(HandleFile) /\ WF_vars(ReadProduct)

-----------------------------------------------------------------------------
(* A notice, by file or by Redis, names a product that is in place with the   *)
(* version it was given for or a later one, and that nobody is writing:       *)
(* whatever failed, whoever crashed.  Only a product that is written in place *)
(* may be in the making again, for a later version.                           *)
RecordNamesProduct ==
  \A t \in told : /\ out[t.name] # NoFile
                  /\ out[t.name].v >= t.v
                  /\ out[t.name].state = "part" => t.name \in inPlace /\ out[t.name].v > t.v

(* What readers find under a final name is never a file in the making, unless *)
(* it is one of the products that are written in place (XML, JSON, Python),   *)
(* and of those never the version that the record names; an FML file that can *)
(* be found is never one either: it appears by rename().                      *)
ReadersSeeWhole ==
  /\ \A n \in Names : /\ out[n] # NoFile /\ out[n].state = "part" => n \in inPlace
                      /\ fml[n] # NoFile => fml[n].state # "part"
  /\ \A r \in read : /\ r.saw # NoFile /\ r.saw.v >= r.v
                     /\ r.saw.state = "part" => r.name \in inPlace /\ r.saw.v > r.v

(* A record that was published as a file reaches the algorithm, with this     *)
(* version of the product or a later one, unless the reader is restarted or   *)
(* the file is short.                                                         *)
FmlIsRead ==
  \A n \in Names : \A k \in 1..MaxVersion :
    (fml[n] = [v |-> k, state |-> "whole"] /\ restarts = 0)
      ~> \/ \E r \in read : r.name = n /\ r.v >= k
         \/ restarts > 0
         \/ fml[n] # NoFile /\ fml[n].state = "short"

(* The files and connections implement the promise of Delivery, for all       *)
(* products but those written in place: these are not replaced as a whole.    *)
Store == [n \in Names |->
            IF n \in inPlace \/ out[n] = NoFile \/ out[n].state = "part" THEN 0 ELSE out[n].v]
Announced == {t \in told : t.name \notin inPlace}
Readings == {[name |-> r.name, v |-> r.v, saw |-> r.saw.v] : r \in {s \in read : s.name \notin inPlace}}

D == INSTANCE Delivery WITH store <- Store, told <- Announced, read <- Readings

ImplementsDelivery == D!DSpec
==============================================================================
