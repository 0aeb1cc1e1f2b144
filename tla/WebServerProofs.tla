---------------------------- MODULE WebServerProofs ----------------------------
(***************************************************************************)
(* What WebServer guarantees for every set of web threads and number of    *)
(* requests: the trigger stays consistent though its steps interleave, no  *)
(* message is stranded, and messages are answered in order.                *)
(***************************************************************************)
EXTENDS WebServer, SequenceTheorems, TLAPS

-----------------------------------------------------------------------------
(* The trigger, whatever its threads owe *)

\* Before the plugins run nothing is posted and every flag is down.
LEMMA IdleLoopOK == IdleLoop \in LoopStates /\ TriggerOK(IdleLoop, {})
  BY DEF IdleLoop, LoopStates, TriggerOK, OneCompletionEach, FlagMatchesPosted, IsPosted

\* Winning the compare-exchange makes the thread owe a completion.
LEMMA RaiseFlagOK ==
  ASSUME NEW l \in LoopStates, NEW owing, NEW h \in Handlers,
         TriggerOK(l, owing), ~ l.flag[h]
  PROVE  /\ RaiseFlag(l, h) \in LoopStates
         /\ TriggerOK(RaiseFlag(l, h), owing \cup {h})
  BY DEF LoopStates, TriggerOK, OneCompletionEach, FlagMatchesPosted, IsPosted, RaiseFlag

\* Posting the completion settles what is owed.
LEMMA PostOK ==
  ASSUME NEW l \in LoopStates, NEW owing, NEW h \in owing \cap Handlers, TriggerOK(l, owing)
  PROVE  /\ Post(l, h) \in LoopStates
         /\ TriggerOK(Post(l, h), owing \ {h})
         /\ IsPosted(Post(l, h), h)
<1>1. Post(l, h) \in LoopStates
  BY DEF LoopStates, Post
<1>2. \A k \in Handlers : IsPosted(Post(l, h), k) <=> IsPosted(l, k) \/ k = h
  <2>1. /\ Post(l, h).posted = Append(l.posted, h)
        /\ l.posted \in Seq(Handlers)
    BY DEF LoopStates, Post
  <2>2. /\ Len(Append(l.posted, h)) = Len(l.posted) + 1
        /\ Append(l.posted, h)[Len(l.posted) + 1] = h
        /\ \A i \in 1..Len(l.posted) : Append(l.posted, h)[i] = l.posted[i]
        /\ Len(l.posted) \in Nat
    BY <2>1
  <2>3. QED
    BY <2>1, <2>2 DEF IsPosted
<1>3. OneCompletionEach(Post(l, h))
  BY DEF LoopStates, Post, TriggerOK, OneCompletionEach, FlagMatchesPosted, IsPosted
<1>4. FlagMatchesPosted(Post(l, h), owing \ {h})
  BY <1>2 DEF LoopStates, Post, TriggerOK, FlagMatchesPosted
<1>5. QED
  BY <1>1, <1>2, <1>3, <1>4 DEF TriggerOK

\* setReady() on a free trigger: afterwards the handler is scheduled, and no
\* other handler stopped being so.
LEMMA SetReadyOK ==
  ASSUME NEW l \in LoopStates, NEW owing, NEW h \in Handlers, TriggerOK(l, owing)
  PROVE  /\ SetReady(l, h) \in LoopStates
         /\ TriggerOK(SetReady(l, h), owing)
         /\ SetReady(l, h).flag[h]
         /\ \A k \in Handlers : l.flag[k] => SetReady(l, h).flag[k]
         /\ \A k \in Handlers : IsPosted(l, k) => IsPosted(SetReady(l, h), k)
<1>1. CASE l.flag[h]
  BY <1>1 DEF SetReady, LoopStates
<1>2. CASE ~ l.flag[h]
  <2> DEFINE r == RaiseFlag(l, h)
             p == Post(r, h)
  <2>1. SetReady(l, h) = p
    BY <1>2 DEF SetReady
  <2>2. r \in LoopStates /\ TriggerOK(r, owing \cup {h})
    BY <1>2, RaiseFlagOK
  <2>3. p \in LoopStates /\ TriggerOK(p, (owing \cup {h}) \ {h}) /\ IsPosted(p, h)
    BY <2>2, PostOK
  <2>4. h \notin owing
    BY <1>2 DEF TriggerOK, FlagMatchesPosted
  <2>5. (owing \cup {h}) \ {h} = owing
    BY <2>4
  <2>6. TriggerOK(p, owing)
    BY <2>3, <2>5
  <2>7. p.flag = [l.flag EXCEPT ![h] = TRUE] /\ p.posted = Append(l.posted, h)
    BY DEF RaiseFlag, Post, LoopStates
  <2>8. \A k \in Handlers : IsPosted(l, k) => IsPosted(p, k)
    BY <2>7 DEF IsPosted, LoopStates
  <2>9. QED
    BY <2>1, <2>3, <2>6, <2>7, <2>8 DEF LoopStates
<1>3. QED
  BY <1>1, <1>2

\* Taking the completion at the head: its handler is now owed the lowering
\* of its flag.
LEMMA TakeNextOK ==
  ASSUME NEW l \in LoopStates, NEW owing, NEW h \in Handlers,
         TriggerOK(l, owing), NextHandler(l, h)
  PROVE  /\ TakeNext(l) \in LoopStates
         /\ TriggerOK(TakeNext(l), owing \cup {h})
         /\ TakeNext(l).flag = l.flag
         /\ l.flag[h] /\ h \notin owing
<1> DEFINE e == TakeNext(l)
<1>1. /\ l.posted \in Seq(Handlers) /\ l.posted # <<>>
      /\ l.flag \in [Handlers -> BOOLEAN] /\ Head(l.posted) = h
  BY DEF LoopStates, NextHandler
<1>2. e.posted = Tail(l.posted) /\ e.flag = l.flag
  BY <1>1 DEF TakeNext
<1>3. e \in LoopStates
  BY <1>1 DEF TakeNext, LoopStates
<1>4. /\ Len(e.posted) = Len(l.posted) - 1
      /\ \A i \in 1..Len(e.posted) : e.posted[i] = l.posted[i + 1]
  BY <1>1, <1>2
<1>5. OneCompletionEach(e)
  BY <1>1, <1>4 DEF TriggerOK, OneCompletionEach
<1>6. ~ IsPosted(e, h)
  BY <1>1, <1>4 DEF TriggerOK, OneCompletionEach, IsPosted
<1>7. ASSUME NEW k \in Handlers \ {h} PROVE IsPosted(e, k) <=> IsPosted(l, k)
  <2>1. ASSUME NEW i \in 1..Len(l.posted), l.posted[i] = k PROVE IsPosted(e, k)
    <3>1. i # 1
      BY <1>1, <2>1
    <3>2. i - 1 \in 1..Len(e.posted) /\ i - 1 + 1 = i
      BY <1>1, <1>4, <3>1
    <3>3. e.posted[i - 1] = k
      BY <1>4, <2>1, <3>2
    <3>4. QED
      BY <3>2, <3>3 DEF IsPosted
  <2>2. ASSUME NEW i \in 1..Len(e.posted), e.posted[i] = k PROVE IsPosted(l, k)
    <3>1. i + 1 \in 1..Len(l.posted) /\ l.posted[i + 1] = k
      BY <1>1, <1>4, <2>2
    <3>2. QED
      BY <3>1 DEF IsPosted
  <2>3. QED
    BY <2>1, <2>2 DEF IsPosted
<1>8. l.flag[h] /\ h \notin owing
  <2>1. 1 \in 1..Len(l.posted) /\ l.posted[1] = h
    BY <1>1
  <2>2. IsPosted(l, h)
    BY <2>1 DEF IsPosted
  <2>3. QED
    BY <2>2 DEF TriggerOK, FlagMatchesPosted
<1>9. FlagMatchesPosted(e, owing \cup {h})
  BY <1>2, <1>6, <1>7, <1>8 DEF TriggerOK, FlagMatchesPosted
<1>10. QED
  BY <1>2, <1>3, <1>5, <1>8, <1>9 DEF TriggerOK

\* Lowering the flag settles it.
LEMMA LowerFlagOK ==
  ASSUME NEW l \in LoopStates, NEW owing, NEW h \in Handlers \cap owing, TriggerOK(l, owing)
  PROVE  /\ LowerFlag(l, h) \in LoopStates
         /\ TriggerOK(LowerFlag(l, h), owing \ {h})
         /\ \A k \in Handlers \ {h} : LowerFlag(l, h).flag[k] = l.flag[k]
         /\ ~ LowerFlag(l, h).flag[h]
  BY DEF LoopStates, TriggerOK, OneCompletionEach, FlagMatchesPosted, IsPosted, LowerFlag

\* Both together lower exactly the flag of the handler that runs.
LEMMA ExecuteActionOK ==
  ASSUME NEW l \in LoopStates, NEW owing, NEW h \in Handlers,
         TriggerOK(l, owing), NextHandler(l, h)
  PROVE  /\ ExecuteAction(l) \in LoopStates
         /\ TriggerOK(ExecuteAction(l), owing)
         /\ \A k \in Handlers \ {h} : ExecuteAction(l).flag[k] = l.flag[k]
         /\ ~ ExecuteAction(l).flag[h]
<1> DEFINE t == TakeNext(l)
           o == owing \cup {h}
<1>1. t \in LoopStates /\ TriggerOK(t, o) /\ t.flag = l.flag /\ h \notin owing
  BY TakeNextOK
<1>2. o \ {h} = owing
  BY <1>1
<1>3. ExecuteAction(l) = LowerFlag(t, h)
  BY DEF ExecuteAction, NextHandler
<1> HIDE DEF t
<1>4. /\ LowerFlag(t, h) \in LoopStates
      /\ TriggerOK(LowerFlag(t, h), o \ {h})
      /\ \A k \in Handlers \ {h} : LowerFlag(t, h).flag[k] = t.flag[k]
      /\ ~ LowerFlag(t, h).flag[h]
  BY <1>1, LowerFlagOK
<1>5. QED
  BY <1>1, <1>2, <1>3, <1>4

-----------------------------------------------------------------------------
(* The web queue *)

\* Only one thread at a time is between the two steps of setReady(), or
\* between taking the completion and lowering the flag: the others find the
\* flag up.
BusyAlone ==
  /\ \A t, u \in WebBusy : t = u
  /\ MainBusy => WebBusy = {}

\* A thread that left "idle" works on a request.
RequestCounted == \A t \in WebThreads : wpc[t] # "idle" => sent[t] \in 1..MaxRequests

WebInv == TypeOK /\ RequestCounted /\ BusyAlone /\ TriggerConsistent /\ NoStrandedMessage

\* The web queue is a handler, and the threads' names are distinct.
LEMMA Names == /\ Q \in Handlers /\ "Timer" \in Handlers /\ Q # "Timer"
               /\ \A t \in WebThreads : t # "main" /\ t # "free"
  BY WebAssumption DEF Q

\* The initial states.
LEMMA WebInit == Init => WebInv
<1> SUFFICES ASSUME Init PROVE WebInv
  OBVIOUS
<1>1. loop \in LoopStates /\ TriggerOK(loop, {})
  BY IdleLoopOK DEF Init
<1>2. WebBusy = {} /\ ~ MainBusy
  BY DEF Init, WebBusy, MainBusy
<1>3. TypeOK
  <2>1. LockHeld
    BY Names DEF Init, LockHeld
  <2>2. 0 \in 0..MaxRequests /\ <<>> \in Seq(Messages)
    BY WebAssumption
  <2>3. QED
    BY <1>1, <2>1, <2>2 DEF Init, TypeOK, MainPc, WebPc
<1>4. TriggerConsistent
  <2>1. Owing = {}
    BY <1>2 DEF Owing
  <2>2. QED
    BY <1>1, <2>1 DEF TriggerConsistent
<1>5. RequestCounted /\ NoStrandedMessage
  BY DEF Init, RequestCounted, NoStrandedMessage
<1>6. QED
  BY <1>2, <1>3, <1>4, <1>5 DEF WebInv, BusyAlone

\* A thread's request is a message.
LEMMA CurrentType ==
  ASSUME RequestCounted, NEW t \in WebThreads, wpc[t] # "idle"
  PROVE  Current(t) \in Messages
  BY DEF RequestCounted, Current, Messages

\* A step that leaves the trigger and every thread's business with it alone.
LEMMA TriggerQuiet ==
  ASSUME WebInv, loop' = loop, WebBusy' = WebBusy, MainBusy' <=> MainBusy
  PROVE  BusyAlone' /\ TriggerConsistent'
<1>1. BusyAlone'
  BY DEF WebInv, BusyAlone
<1>2. Owing' = Owing
  BY DEF Owing
<1>3. QED
  BY <1>1, <1>2 DEF WebInv, TriggerConsistent

\* Nobody is busy exactly when nothing is owed.
LEMMA OwingBusy == (Q \in Owing <=> MainBusy \/ WebBusy # {}) /\ Owing \subseteq {Q}
  BY DEF Owing

\* The steps of a web thread.
LEMMA WebThreadOK ==
  ASSUME WebInv, NEW t \in WebThreads, Request(t) \/ WebStep(t)
  PROVE  WebInv'
<1>t. /\ loop \in LoopStates /\ TriggerOK(loop, Owing)
      /\ wpc \in [WebThreads -> WebPc] /\ sent \in [WebThreads -> 0..MaxRequests]
  BY DEF WebInv, TypeOK, TriggerConsistent
<1>1. CASE Request(t)
  <2>1. WebBusy' = WebBusy /\ MainBusy' = MainBusy /\ loop' = loop
    BY <1>1, <1>t DEF Request, WebBusy, MainBusy, mainVars
  <2>2. TypeOK'
    BY <1>1, WebAssumption DEF Request, WebInv, TypeOK, LockHeld, WebPc, mainVars
  <2>3. RequestCounted' /\ NoStrandedMessage'
    BY <1>1, <1>t, WebAssumption
    DEF Request, WebInv, RequestCounted, NoStrandedMessage, mainVars
  <2>4. QED
    BY <2>1, <2>2, <2>3, TriggerQuiet DEF WebInv
<1>2. CASE WebLock(t)
  <2>1. WebBusy' = WebBusy /\ MainBusy' = MainBusy /\ loop' = loop
    BY <1>2, <1>t DEF WebLock, WebBusy, MainBusy, mainVars
  <2>2. TypeOK'
    BY <1>2, Names DEF WebLock, WebInv, TypeOK, LockHeld, WebPc, mainVars
  <2>3. RequestCounted' /\ NoStrandedMessage'
    BY <1>2, <1>t DEF WebLock, WebInv, RequestCounted, NoStrandedMessage, mainVars
  <2>4. QED
    BY <2>1, <2>2, <2>3, TriggerQuiet DEF WebInv
<1>3. CASE Push(t)
  <2>1. WebBusy' = WebBusy /\ MainBusy' = MainBusy /\ loop' = loop
    BY <1>3, <1>t DEF Push, WebBusy, MainBusy, mainVars
  <2>2. Current(t) \in Messages
    BY <1>3, CurrentType DEF Push, WebInv
  <2>3. TypeOK'
    BY <1>3, <2>2, Names DEF Push, WebInv, TypeOK, LockHeld, WebPc, mainVars
  <2>4. RequestCounted' /\ NoStrandedMessage'
    BY <1>3, <1>t DEF Push, WebInv, RequestCounted, NoStrandedMessage, mainVars
  <2>5. QED
    BY <2>1, <2>3, <2>4, TriggerQuiet DEF WebInv
<1>4. CASE WebRaise(t) /\ loop.flag[Q]
  <2>1. WebBusy' = WebBusy /\ MainBusy' = MainBusy /\ loop' = loop
    BY <1>4, <1>t DEF WebRaise, WebBusy, MainBusy, mainVars
  <2>2. TypeOK'
    BY <1>4, Names DEF WebRaise, WebInv, TypeOK, LockHeld, WebPc, mainVars
  <2>3. RequestCounted' /\ NoStrandedMessage'
    BY <1>4, <1>t DEF WebRaise, WebInv, RequestCounted, NoStrandedMessage, mainVars
  <2>4. QED
    BY <2>1, <2>2, <2>3, TriggerQuiet DEF WebInv
<1>5. CASE WebRaise(t) /\ ~ loop.flag[Q]
  <2> DEFINE r == RaiseFlag(loop, Q)
  <2>1. /\ wpc[t] = "raise" /\ wpc' = [wpc EXCEPT ![t] = "post"] /\ loop' = r
        /\ UNCHANGED <<mpc, stopped, sent, lock, queue, answered, pushed>>
    BY <1>5 DEF WebRaise, mainVars
  <2>2. Q \notin Owing
    BY <1>5, <1>t, Names DEF TriggerOK, FlagMatchesPosted
  <2>3. WebBusy' = {t} /\ ~ MainBusy' /\ Owing = {}
    BY <1>t, <2>1, <2>2, OwingBusy DEF WebBusy, MainBusy
  <2>4. r \in LoopStates /\ TriggerOK(r, Owing \cup {Q})
    BY <1>5, <1>t, Names, RaiseFlagOK
  <2>5. r.flag[Q]
    BY <1>t, Names DEF RaiseFlag, LoopStates
  <2> HIDE DEF r
  <2>6. TypeOK'
    BY <2>1, <2>4, Names DEF WebInv, TypeOK, LockHeld, WebPc
  <2>7. Owing' = {Q}
    BY <2>3 DEF Owing
  <2>8. BusyAlone' /\ TriggerConsistent'
    BY <2>1, <2>3, <2>4, <2>7 DEF BusyAlone, TriggerConsistent
  <2>9. RequestCounted' /\ NoStrandedMessage'
    BY <1>t, <2>1, <2>5 DEF WebInv, RequestCounted, NoStrandedMessage
  <2>10. QED
    BY <2>6, <2>8, <2>9 DEF WebInv
<1>6. CASE WebPost(t)
  <2> DEFINE p == Post(loop, Q)
  <2>1. /\ wpc[t] = "post" /\ wpc' = [wpc EXCEPT ![t] = "wait"] /\ loop' = p
        /\ UNCHANGED <<mpc, stopped, sent, lock, queue, answered, pushed>>
    BY <1>6 DEF WebPost, mainVars
  <2>2. WebBusy = {t} /\ ~ MainBusy
    BY <2>1 DEF WebInv, BusyAlone, WebBusy
  <2>3. Owing = {Q} /\ WebBusy' = {} /\ ~ MainBusy'
    BY <1>t, <2>1, <2>2 DEF Owing, WebBusy, MainBusy
  <2>4. p \in LoopStates /\ TriggerOK(p, Owing \ {Q}) /\ p.flag = loop.flag
    BY <1>t, <2>3, Names, PostOK DEF Post
  <2> HIDE DEF p
  <2>5. TypeOK'
    BY <2>1, <2>4, Names DEF WebInv, TypeOK, LockHeld, WebPc
  <2>6. Owing' = {} /\ Owing \ {Q} = {}
    BY <2>3 DEF Owing
  <2>7. BusyAlone' /\ TriggerConsistent'
    BY <2>1, <2>3, <2>4, <2>6 DEF BusyAlone, TriggerConsistent
  <2>8. RequestCounted' /\ NoStrandedMessage'
    BY <1>t, <2>1, <2>4 DEF WebInv, RequestCounted, NoStrandedMessage
  <2>9. QED
    BY <2>5, <2>7, <2>8 DEF WebInv
<1>7. CASE Respond(t)
  <2>1. WebBusy' = WebBusy /\ MainBusy' = MainBusy /\ loop' = loop
    BY <1>7, <1>t DEF Respond, WebBusy, MainBusy, mainVars
  <2>2. TypeOK'
    BY <1>7, Names DEF Respond, WebInv, TypeOK, LockHeld, WebPc, mainVars
  <2>3. RequestCounted' /\ NoStrandedMessage'
    BY <1>7, <1>t DEF Respond, WebInv, RequestCounted, NoStrandedMessage, mainVars
  <2>4. QED
    BY <2>1, <2>2, <2>3, TriggerQuiet DEF WebInv
<1>8. QED
  BY <1>1, <1>2, <1>3, <1>4, <1>5, <1>6, <1>7 DEF WebStep

\* The steps of the main thread.
LEMMA MainThreadOK ==
  ASSUME WebInv, MainStep \/ TimerTick \/ ProcessThrows \/ Exit
  PROVE  WebInv'
<1>t. /\ loop \in LoopStates /\ TriggerOK(loop, Owing) /\ mpc \in MainPc
      /\ queue \in Seq(Messages) /\ answered \in Seq(Messages)
  BY DEF WebInv, TypeOK, TriggerConsistent
<1>1. CASE StartLoop
  <2>1. WebBusy' = WebBusy /\ MainBusy' = MainBusy /\ loop' = loop
    BY <1>1 DEF StartLoop, WebBusy, MainBusy, webVars
  <2>2. TypeOK'
    BY <1>1, Names DEF StartLoop, WebInv, TypeOK, LockHeld, MainPc, webVars
  <2>3. RequestCounted' /\ NoStrandedMessage'
    BY <1>1 DEF StartLoop, WebInv, RequestCounted, NoStrandedMessage, webVars
  <2>4. QED
    BY <2>1, <2>2, <2>3, TriggerQuiet DEF WebInv
<1>2. CASE TimerTick
  <2> DEFINE s == SetReady(loop, "Timer")
  <2>1. loop' = s /\ UNCHANGED <<mpc, stopped, wpc, sent, lock, queue, answered, pushed>>
    BY <1>2 DEF TimerTick, mainVars, webVars
  <2>2. s \in LoopStates /\ TriggerOK(s, Owing) /\ (loop.flag[Q] => s.flag[Q])
    BY <1>t, Names, SetReadyOK
  <2> HIDE DEF s
  <2>3. WebBusy' = WebBusy /\ MainBusy' = MainBusy
    BY <2>1 DEF WebBusy, MainBusy
  <2>4. Owing' = Owing /\ BusyAlone'
    BY <2>3 DEF Owing, WebInv, BusyAlone
  <2>5. TypeOK' /\ RequestCounted' /\ NoStrandedMessage' /\ TriggerConsistent'
    BY <2>1, <2>2, <2>4
    DEF WebInv, TypeOK, LockHeld, RequestCounted, NoStrandedMessage, TriggerConsistent
  <2>6. QED
    BY <2>4, <2>5 DEF WebInv
<1>3. CASE OtherAction
  <2> DEFINE e == ExecuteAction(loop)
  <2>1. /\ loop' = e /\ NextHandler(loop, "Timer")
        /\ UNCHANGED <<mpc, stopped, wpc, sent, lock, queue, answered, pushed>>
    BY <1>3 DEF OtherAction, mainVars, webVars
  <2>2. e \in LoopStates /\ TriggerOK(e, Owing) /\ e.flag[Q] = loop.flag[Q]
    BY <1>t, <2>1, Names, ExecuteActionOK
  <2> HIDE DEF e
  <2>3. WebBusy' = WebBusy /\ MainBusy' = MainBusy
    BY <2>1 DEF WebBusy, MainBusy
  <2>4. Owing' = Owing /\ BusyAlone'
    BY <2>3 DEF Owing, WebInv, BusyAlone
  <2>5. TypeOK' /\ RequestCounted' /\ NoStrandedMessage' /\ TriggerConsistent'
    BY <2>1, <2>2, <2>4
    DEF WebInv, TypeOK, LockHeld, RequestCounted, NoStrandedMessage, TriggerConsistent
  <2>6. QED
    BY <2>4, <2>5 DEF WebInv
<1>4. CASE TakeCompletion
  <2> DEFINE e == TakeNext(loop)
  <2>1. /\ loop' = e /\ NextHandler(loop, Q) /\ mpc = "loop" /\ mpc' = "lower"
        /\ UNCHANGED <<stopped, wpc, sent, lock, queue, answered, pushed>>
    BY <1>4 DEF TakeCompletion, webVars
  <2>2. /\ e \in LoopStates /\ TriggerOK(e, Owing \cup {Q})
        /\ e.flag = loop.flag /\ loop.flag[Q] /\ Q \notin Owing
    BY <1>t, <2>1, Names, TakeNextOK
  <2> HIDE DEF e
  <2>3. WebBusy = {} /\ Owing = {}
    BY <2>2, OwingBusy
  <2>4. WebBusy' = {} /\ MainBusy'
    BY <2>1, <2>3 DEF WebBusy, MainBusy
  <2>5. Owing' = {Q} /\ BusyAlone'
    BY <2>4 DEF Owing, BusyAlone
  <2>6. TriggerConsistent'
    BY <2>1, <2>2, <2>3, <2>5 DEF TriggerConsistent
  <2>7. TypeOK' /\ RequestCounted' /\ NoStrandedMessage'
    BY <2>1, <2>2, Names
    DEF WebInv, TypeOK, LockHeld, MainPc, RequestCounted, NoStrandedMessage
  <2>8. QED
    BY <2>5, <2>6, <2>7 DEF WebInv
<1>5. CASE Lower
  <2> DEFINE e == LowerFlag(loop, Q)
  <2>1. /\ loop' = e /\ mpc = "lower" /\ mpc' = "lock"
        /\ UNCHANGED <<stopped, wpc, sent, lock, queue, answered, pushed>>
    BY <1>5 DEF Lower, webVars
  <2>2. MainBusy /\ WebBusy = {}
    BY <2>1 DEF MainBusy, WebInv, BusyAlone
  <2>3. Owing = {Q}
    BY <2>2 DEF Owing
  <2>4. e \in LoopStates /\ TriggerOK(e, Owing \ {Q})
    BY <1>t, <2>3, Names, LowerFlagOK
  <2> HIDE DEF e
  <2>5. WebBusy' = {} /\ ~ MainBusy'
    BY <2>1, <2>2 DEF WebBusy, MainBusy
  <2>6. Owing' = {} /\ Owing \ {Q} = {} /\ BusyAlone'
    BY <2>3, <2>5 DEF Owing, BusyAlone
  <2>7. TriggerConsistent'
    BY <2>1, <2>4, <2>6 DEF TriggerConsistent
  <2>8. TypeOK' /\ RequestCounted' /\ NoStrandedMessage'
    BY <2>1, <2>4, Names
    DEF WebInv, TypeOK, LockHeld, MainPc, RequestCounted, NoStrandedMessage
  <2>9. QED
    BY <2>6, <2>7, <2>8 DEF WebInv
<1>6. CASE MainLock \/ ProcessNothing \/ MainUnlock \/ Exit \/ LoopReturns
  <2>1. WebBusy' = WebBusy /\ MainBusy' = MainBusy /\ loop' = loop
    BY <1>6 DEF MainLock, ProcessNothing, MainUnlock, Exit, LoopReturns, WebBusy, MainBusy,
                webVars
  <2>2. TypeOK'
    BY <1>6, Names
    DEF MainLock, ProcessNothing, MainUnlock, Exit, LoopReturns, WebInv, TypeOK, LockHeld,
        MainPc, webVars
  <2>3. RequestCounted' /\ NoStrandedMessage'
    BY <1>6 DEF MainLock, ProcessNothing, MainUnlock, Exit, LoopReturns, WebInv,
                RequestCounted, NoStrandedMessage, webVars
  <2>4. QED
    BY <2>1, <2>2, <2>3, TriggerQuiet DEF WebInv
<1>7. CASE Process \/ ProcessThrows
  <2>1. WebBusy' = WebBusy /\ MainBusy' = MainBusy /\ loop' = loop
    BY <1>7 DEF Process, ProcessThrows, WebBusy, MainBusy, webVars
  <2>2. queue # <<>> => Tail(queue) \in Seq(Messages) /\ Head(queue) \in Messages
    BY <1>t
  <2>3. TypeOK'
    <3>1. /\ queue' = Tail(queue) /\ queue # <<>>
          /\ answered' \in {answered, Append(answered, Head(queue))}
          /\ mpc = "process" /\ mpc' \in {"unlock", "exited"}
          /\ UNCHANGED <<loop, stopped, wpc, sent, lock, pushed>>
      BY <1>7 DEF Process, ProcessThrows, webVars
    <3>2. queue' \in Seq(Messages) /\ answered' \in Seq(Messages)
      <4>1. Append(answered, Head(queue)) \in Seq(Messages)
        BY <1>t, <2>2, <3>1
      <4>2. QED
        BY <1>t, <2>2, <3>1, <4>1
    <3>3. TypeOK /\ LockHeld
      BY DEF WebInv, TypeOK
    <3>4. LockHeld'
      BY <3>1, <3>3 DEF LockHeld
    <3>5. QED
      BY <3>1, <3>2, <3>3, <3>4 DEF TypeOK, MainPc
  <2>4. RequestCounted' /\ NoStrandedMessage'
    BY <1>7 DEF Process, ProcessThrows, WebInv, RequestCounted, NoStrandedMessage, webVars
  <2>5. QED
    BY <2>1, <2>3, <2>4, TriggerQuiet DEF WebInv
<1>8. CASE Check
  <2>1. /\ mpc = "check" /\ mpc' \in {"raise", "loop"} /\ (queue # <<>> => mpc' = "raise")
        /\ UNCHANGED <<loop, stopped, wpc, sent, lock, queue, answered, pushed>>
    BY <1>8 DEF Check, webVars
  <2>2. WebBusy' = WebBusy /\ MainBusy' = MainBusy /\ loop' = loop
    BY <2>1 DEF WebBusy, MainBusy
  <2>3. TypeOK'
    BY <2>1, Names DEF WebInv, TypeOK, LockHeld, MainPc
  <2>4. RequestCounted' /\ NoStrandedMessage'
    BY <2>1 DEF WebInv, RequestCounted, NoStrandedMessage
  <2>5. QED
    BY <2>2, <2>3, <2>4, TriggerQuiet DEF WebInv
<1>9. CASE MainRaise /\ loop.flag[Q]
  <2>1. WebBusy' = WebBusy /\ MainBusy' = MainBusy /\ loop' = loop
    BY <1>9 DEF MainRaise, WebBusy, MainBusy, webVars
  <2>2. TypeOK'
    BY <1>9, Names DEF MainRaise, WebInv, TypeOK, LockHeld, MainPc, webVars
  <2>3. RequestCounted' /\ NoStrandedMessage'
    BY <1>9 DEF MainRaise, WebInv, RequestCounted, NoStrandedMessage, webVars
  <2>4. QED
    BY <2>1, <2>2, <2>3, TriggerQuiet DEF WebInv
<1>10. CASE MainRaise /\ ~ loop.flag[Q]
  <2> DEFINE r == RaiseFlag(loop, Q)
  <2>1. /\ mpc = "raise" /\ mpc' = "post" /\ loop' = r
        /\ UNCHANGED <<stopped, wpc, sent, lock, queue, answered, pushed>>
    BY <1>10 DEF MainRaise, webVars
  <2>2. Q \notin Owing
    BY <1>10, <1>t, Names DEF TriggerOK, FlagMatchesPosted
  <2>3. WebBusy = {} /\ Owing = {}
    BY <2>2, OwingBusy
  <2>4. r \in LoopStates /\ TriggerOK(r, Owing \cup {Q})
    BY <1>10, <1>t, Names, RaiseFlagOK
  <2>5. r.flag[Q]
    BY <1>t, Names DEF RaiseFlag, LoopStates
  <2> HIDE DEF r
  <2>6. WebBusy' = {} /\ MainBusy'
    BY <2>1, <2>3 DEF WebBusy, MainBusy
  <2>7. Owing' = {Q} /\ BusyAlone'
    BY <2>6 DEF Owing, BusyAlone
  <2>8. TriggerConsistent'
    BY <2>1, <2>3, <2>4, <2>7 DEF TriggerConsistent
  <2>9. TypeOK' /\ RequestCounted' /\ NoStrandedMessage'
    BY <2>1, <2>4, <2>5, Names
    DEF WebInv, TypeOK, LockHeld, MainPc, RequestCounted, NoStrandedMessage
  <2>10. QED
    BY <2>7, <2>8, <2>9 DEF WebInv
<1>11. CASE MainPost
  <2> DEFINE p == Post(loop, Q)
  <2>1. /\ mpc = "post" /\ mpc' = "loop" /\ loop' = p
        /\ UNCHANGED <<stopped, wpc, sent, lock, queue, answered, pushed>>
    BY <1>11 DEF MainPost, webVars
  <2>2. MainBusy /\ WebBusy = {}
    BY <2>1 DEF MainBusy, WebInv, BusyAlone
  <2>3. Owing = {Q}
    BY <2>2 DEF Owing
  <2>4. /\ p \in LoopStates /\ TriggerOK(p, Owing \ {Q}) /\ IsPosted(p, Q)
    BY <1>t, <2>3, Names, PostOK
  <2> HIDE DEF p
  <2>5. p.flag[Q]
    BY <2>4, Names DEF TriggerOK, FlagMatchesPosted
  <2>6. WebBusy' = {} /\ ~ MainBusy'
    BY <2>1, <2>2 DEF WebBusy, MainBusy
  <2>7. Owing' = {} /\ Owing \ {Q} = {} /\ BusyAlone'
    BY <2>3, <2>6 DEF Owing, BusyAlone
  <2>8. TriggerConsistent'
    BY <2>1, <2>4, <2>7 DEF TriggerConsistent
  <2>9. TypeOK' /\ RequestCounted' /\ NoStrandedMessage'
    BY <2>1, <2>4, <2>5, Names
    DEF WebInv, TypeOK, LockHeld, MainPc, RequestCounted, NoStrandedMessage
  <2>10. QED
    BY <2>7, <2>8, <2>9 DEF WebInv
<1>12. QED
  BY <1>1, <1>2, <1>3, <1>4, <1>5, <1>6, <1>7, <1>8, <1>9, <1>10, <1>11 DEF MainStep

\* Every step.
LEMMA WebNext == WebInv /\ [Next]_vars => WebInv'
<1> SUFFICES ASSUME WebInv, [Next]_vars PROVE WebInv'
  OBVIOUS
<1>1. CASE \E t \in WebThreads : Request(t) \/ WebStep(t)
  BY <1>1, WebThreadOK
<1>2. CASE MainStep \/ TimerTick \/ ProcessThrows \/ Exit
  BY <1>2, MainThreadOK
<1>3. CASE UNCHANGED vars
  <2>1. WebBusy' = WebBusy /\ MainBusy' = MainBusy /\ loop' = loop
    BY <1>3 DEF vars, WebBusy, MainBusy
  <2>2. TypeOK' /\ RequestCounted' /\ NoStrandedMessage'
    BY <1>3 DEF vars, WebInv, TypeOK, LockHeld, RequestCounted, NoStrandedMessage
  <2>3. QED
    BY <2>1, <2>2, TriggerQuiet DEF WebInv
<1>4. QED
  BY <1>1, <1>2, <1>3 DEF Next, Terminated

\* The invariants hold of every execution.
THEOREM WebSafety == SafetySpec => []WebInv
  BY WebInit, WebNext, PTL DEF SafetySpec

\* Type correctness, with the lock held by the one thread that works on the
\* queue.
THEOREM WebTypeCorrect == SafetySpec => []TypeOK
<1>1. WebInv => TypeOK
  BY DEF WebInv
<1>2. QED
  BY <1>1, WebSafety, PTL

\* The interleaved halves of setReady() and executeAction() leave exactly one
\* completion, or one thread about to make or use it, for a raised flag.
THEOREM WebTriggerConsistent == SafetySpec => []TriggerConsistent
<1>1. WebInv => TriggerConsistent
  BY DEF WebInv
<1>2. QED
  BY <1>1, WebSafety, PTL

\* No request is stranded in the queue, for any number of web threads.
THEOREM NoMessageStranded == SafetySpec => []NoStrandedMessage
<1>1. WebInv => NoStrandedMessage
  BY DEF WebInv
<1>2. QED
  BY <1>1, WebSafety, PTL

-----------------------------------------------------------------------------
(* The order of the answers *)

\* Every step: a push adds to the end of the queue, and processing moves the
\* message at its head to the end of the answers.
LEMMA OrderNext == WebInv /\ AnsweredInOrder /\ [Next]_vars => AnsweredInOrder'
<1> SUFFICES ASSUME WebInv, AnsweredInOrder, [Next]_vars PROVE AnsweredInOrder'
  OBVIOUS
<1>t. queue \in Seq(Messages) /\ answered \in Seq(Messages)
  BY DEF WebInv, TypeOK
<1>1. ASSUME NEW t \in WebThreads, Push(t) PROVE AnsweredInOrder'
  <2> DEFINE m == Current(t)
  <2>1. /\ queue' = Append(queue, m) /\ pushed' = Append(pushed, m)
        /\ UNCHANGED <<mpc, answered>>
    BY <1>1 DEF Push, mainVars
  <2>2. m \in Messages
    BY <1>1, CurrentType DEF Push, WebInv
  <2> HIDE DEF m
  <2>3. Append(answered \o queue, m) = answered \o Append(queue, m)
    BY <1>t, <2>2
  <2>4. QED
    BY <2>1, <2>3 DEF AnsweredInOrder
<1>2. CASE Process
  <2>1. /\ mpc = "process" /\ queue # <<>>
        /\ queue' = Tail(queue) /\ answered' = Append(answered, Head(queue))
        /\ UNCHANGED pushed
    BY <1>2 DEF Process
  <2>2. Append(answered, Head(queue)) \o Tail(queue) = answered \o queue
    BY <1>t, <2>1
  <2>3. QED
    BY <2>1, <2>2 DEF AnsweredInOrder
<1>3. CASE ProcessThrows
  BY <1>3 DEF ProcessThrows, AnsweredInOrder
<1>4. CASE UNCHANGED <<queue, answered, pushed>> /\ (mpc = "exited" => mpc' = "exited")
  BY <1>4 DEF AnsweredInOrder
<1>5. ASSUME NEW t \in WebThreads,
             Request(t) \/ WebLock(t) \/ WebRaise(t) \/ WebPost(t) \/ Respond(t)
      PROVE  AnsweredInOrder'
  BY <1>4, <1>5 DEF Request, WebLock, WebRaise, WebPost, Respond, mainVars
<1>6. CASE \/ StartLoop \/ OtherAction \/ TakeCompletion \/ Lower \/ MainLock
           \/ ProcessNothing \/ MainUnlock \/ Check \/ MainRaise \/ MainPost
           \/ LoopReturns \/ TimerTick \/ Exit \/ UNCHANGED vars
  BY <1>4, <1>6
  DEF StartLoop, OtherAction, TakeCompletion, Lower, MainLock, ProcessNothing, MainUnlock,
      Check, MainRaise, MainPost, LoopReturns, TimerTick, Exit, vars, mainVars
<1>7. QED
  BY <1>1, <1>2, <1>3, <1>5, <1>6 DEF Next, WebStep, MainStep, Terminated

\* Messages are answered in the order they were pushed, none skipped.
THEOREM AnswersInOrder == SafetySpec => []AnsweredInOrder
<1>1. Init => AnsweredInOrder
  BY DEF Init, AnsweredInOrder
<1>2. QED
  BY <1>1, OrderNext, WebSafety, PTL DEF SafetySpec
-----------------------------------------------------------------------------
(* The abstract queue *)

Elems(s) == {s[i] : i \in 1..Len(s)}

\* A message was pushed by a thread that is done pushing it.
Gone(m) == /\ m[2] <= sent[m[1]]
           /\ wpc[m[1]] \in {"lock", "push"} => m[2] < sent[m[1]]

(* No message is in the queue twice, and a thread pushes none again: what a *)
(* step of the queue needs to be one of WorkQueue.                          *)
PushedOnce ==
  /\ \A i, j \in 1..Len(queue) : queue[i] = queue[j] => i = j
  /\ \A m \in Elems(queue) \cup Elems(answered) : Gone(m)

\* What is added to a sequence.
LEMMA AppendElems ==
  ASSUME NEW S, NEW s \in Seq(S), NEW x \in S
  PROVE  /\ Append(s, x) \in Seq(S) /\ Elems(Append(s, x)) = Elems(s) \cup {x}
         /\ x \notin Elems(s) /\ (\A i, j \in 1..Len(s) : s[i] = s[j] => i = j)
              => \A i, j \in 1..Len(Append(s, x)) : Append(s, x)[i] = Append(s, x)[j] => i = j
<1> DEFINE a == Append(s, x)
<1>1. /\ a \in Seq(S) /\ Len(s) \in Nat /\ Len(a) = Len(s) + 1
      /\ \A i \in 1..Len(s) : a[i] = s[i]
      /\ a[Len(s) + 1] = x
  OBVIOUS
<1> HIDE DEF a
<1>2. Elems(a) = Elems(s) \cup {x}
  <2>1. 1..Len(s) + 1 = 1..Len(s) \cup {Len(s) + 1}
    BY <1>1
  <2>2. QED
    BY <1>1, <2>1 DEF Elems
<1>3. ASSUME x \notin Elems(s), \A i, j \in 1..Len(s) : s[i] = s[j] => i = j,
             NEW i \in 1..Len(a), NEW j \in 1..Len(a), a[i] = a[j]
      PROVE  i = j
  <2>1. /\ i \in 1..Len(s) \/ i = Len(s) + 1
        /\ j \in 1..Len(s) \/ j = Len(s) + 1
    BY <1>1
  <2>2. \A k \in 1..Len(s) : a[k] # x
    BY <1>1, <1>3 DEF Elems
  <2>3. QED
    BY <1>1, <1>3, <2>1, <2>2
<1>4. QED
  BY <1>1, <1>2, <1>3 DEF a

\* What is left of a sequence without its head.
LEMMA TailElems ==
  ASSUME NEW S, NEW s \in Seq(S), s # << >>, \A i, j \in 1..Len(s) : s[i] = s[j] => i = j
  PROVE  /\ Head(s) \in Elems(s) /\ Elems(Tail(s)) = Elems(s) \ {Head(s)}
         /\ \A i, j \in 1..Len(Tail(s)) : Tail(s)[i] = Tail(s)[j] => i = j
<1> DEFINE q == Tail(s)
<1>1. /\ Len(s) \in Nat \ {0} /\ Len(q) = Len(s) - 1 /\ Head(s) = s[1]
      /\ \A i \in 1..Len(q) : q[i] = s[i + 1]
  OBVIOUS
<1> HIDE DEF q
<1>2. \A i \in 1..Len(q) : i + 1 \in 1..Len(s) /\ i + 1 # 1
  BY <1>1
<1>3. \A i \in 1..Len(s) : i = 1 \/ (i - 1 \in 1..Len(q) /\ q[i - 1] = s[i])
  BY <1>1
<1>4. Head(s) \in Elems(s)
  BY <1>1 DEF Elems
<1>5. Elems(q) \subseteq Elems(s) \ {Head(s)}
  BY <1>1, <1>2 DEF Elems
<1>6. Elems(s) \ {Head(s)} \subseteq Elems(q)
  BY <1>1, <1>3 DEF Elems
<1>7. ASSUME NEW i \in 1..Len(q), NEW j \in 1..Len(q), q[i] = q[j] PROVE i = j
  <2>1. i + 1 = j + 1
    BY <1>1, <1>2, <1>7
  <2>2. QED
    BY <1>1, <2>1
<1>8. QED
  BY <1>4, <1>5, <1>6, <1>7 DEF q

\* The message of a thread that is pushing is new.
LEMMA CurrentNew ==
  ASSUME WebInv, PushedOnce, NEW t \in WebThreads, wpc[t] = "push"
  PROVE  Current(t) \in Messages /\ Current(t) \notin Elems(queue) \cup Elems(answered)
<1>1. sent[t] \in Nat /\ Current(t) \in Messages /\ Current(t)[1] = t /\ Current(t)[2] = sent[t]
  BY CurrentType DEF WebInv, RequestCounted, Current
<1>2. ~ Gone(Current(t))
  BY <1>1 DEF Gone
<1>3. QED
  BY <1>1, <1>2 DEF PushedOnce

\* Messages stay gone: threads only count up, and push after counting.
LEMMA GoneStays ==
  ASSUME WebInv, NEW m \in Messages, Gone(m), NEW t \in WebThreads, Request(t) \/ WebStep(t)
  PROVE  Gone(m)'
<1>1. /\ sent \in [WebThreads -> 0..MaxRequests] /\ wpc \in [WebThreads -> WebPc]
      /\ m[1] \in WebThreads /\ m[2] \in Nat
  BY WebAssumption DEF WebInv, TypeOK, Messages
<1>2. CASE Request(t)
  <2>1. sent' = [sent EXCEPT ![t] = @ + 1] /\ wpc' = [wpc EXCEPT ![t] = "lock"]
    BY <1>2 DEF Request
  <2>2. CASE m[1] = t
    <3>1. sent[t] \in Nat /\ sent'[m[1]] = sent[t] + 1 /\ m[2] <= sent[t]
      BY <1>1, <2>1, <2>2, WebAssumption DEF Gone
    <3>2. QED
      BY <1>1, <3>1 DEF Gone
  <2>3. CASE m[1] # t
    BY <1>1, <2>1, <2>3 DEF Gone
  <2>4. QED
    BY <2>2, <2>3
<1>3. CASE WebStep(t)
  <2>1. /\ sent' = sent
        /\ \A u \in WebThreads : wpc'[u] \in {"lock", "push"} => wpc[u] \in {"lock", "push"}
    BY <1>1, <1>3 DEF WebStep, WebLock, Push, WebRaise, WebPost, Respond
  <2>2. QED
    BY <1>1, <2>1 DEF Gone
<1>4. QED
  BY <1>2, <1>3

\* Every step.
LEMMA OnceNext == WebInv /\ PushedOnce /\ [Next]_vars => PushedOnce'
<1> SUFFICES ASSUME WebInv, PushedOnce, [Next]_vars PROVE PushedOnce'
  OBVIOUS
<1>t. /\ queue \in Seq(Messages) /\ answered \in Seq(Messages)
      /\ Elems(queue) \cup Elems(answered) \subseteq Messages
  BY DEF WebInv, TypeOK, Elems
<1>1. ASSUME NEW t \in WebThreads, Request(t) \/ WebStep(t) PROVE PushedOnce'
  <2>1. \A m \in Elems(queue) \cup Elems(answered) : Gone(m)'
    BY <1>1, <1>t, GoneStays DEF PushedOnce
  <2>2. CASE Push(t)
    <3>m. PICK m : m = Current(t)
      OBVIOUS
    <3>1. /\ wpc[t] = "push" /\ queue' = Append(queue, m) /\ answered' = answered
          /\ wpc' = [wpc EXCEPT ![t] = "raise"] /\ sent' = sent
      BY <2>2, <3>m DEF Push
    <3>2. m \in Messages /\ m \notin Elems(queue) /\ m[1] = t /\ m[2] = sent[t]
      BY <3>m, <3>1, CurrentNew DEF Current
    <3>3. /\ Elems(queue') = Elems(queue) \cup {m}
          /\ \A i, j \in 1..Len(queue') : queue'[i] = queue'[j] => i = j
      BY <1>t, <3>1, <3>2, AppendElems DEF PushedOnce
    <3>4. Gone(m)'
      <4>1. wpc'[t] = "raise" /\ sent[t] \in Nat
        BY <3>1, WebAssumption DEF WebInv, TypeOK
      <4>2. QED
        BY <3>1, <3>2, <4>1 DEF Gone
    <3>5. QED
      BY <2>1, <3>1, <3>3, <3>4 DEF PushedOnce
  <2>3. CASE UNCHANGED <<queue, answered>>
    BY <2>1, <2>3 DEF PushedOnce
  <2>4. QED
    BY <1>1, <2>2, <2>3 DEF Request, WebStep, WebLock, WebRaise, WebPost, Respond
<1>2. ASSUME UNCHANGED webVars PROVE \A m : Gone(m)' <=> Gone(m)
  BY <1>2 DEF Gone, webVars
<1>3. CASE Process \/ ProcessThrows
  <2>1. /\ queue # << >> /\ queue' = Tail(queue) /\ UNCHANGED webVars
        /\ answered' \in {answered, Append(answered, Head(queue))}
    BY <1>3 DEF Process, ProcessThrows
  <2>2. /\ Head(queue) \in Elems(queue) /\ Elems(queue') \subseteq Elems(queue)
        /\ \A i, j \in 1..Len(queue') : queue'[i] = queue'[j] => i = j
    BY <1>t, <2>1, TailElems DEF PushedOnce
  <2>3. Head(queue) \in Messages
    BY <1>t, <2>2
  <2>4. Elems(answered') \subseteq Elems(answered) \cup {Head(queue)}
    <3>1. Elems(Append(answered, Head(queue))) = Elems(answered) \cup {Head(queue)}
      BY <1>t, <2>3, AppendElems
    <3>2. QED
      BY <2>1, <3>1
  <2>5. QED
    BY <1>2, <2>1, <2>2, <2>4 DEF PushedOnce
<1>4. CASE UNCHANGED <<webVars, queue, answered>>
  BY <1>2, <1>4 DEF PushedOnce
<1>5. CASE \/ StartLoop \/ OtherAction \/ TakeCompletion \/ Lower \/ MainLock
           \/ ProcessNothing \/ MainUnlock \/ Check \/ MainRaise \/ MainPost
           \/ LoopReturns \/ TimerTick \/ Exit \/ UNCHANGED vars
  BY <1>4, <1>5
  DEF StartLoop, OtherAction, TakeCompletion, Lower, MainLock, ProcessNothing, MainUnlock,
      Check, MainRaise, MainPost, LoopReturns, TimerTick, Exit, vars, webVars
<1>6. QED
  BY <1>1, <1>3, <1>5 DEF Next, MainStep, Terminated

\* A step of the web queue is a step of the abstract queue or a stutter.
LEMMA WebQueueStep == WebInv /\ PushedOnce /\ [Next]_vars => [WQ!Next]_(WQ!wqVars)
<1> SUFFICES ASSUME WebInv, PushedOnce, [Next]_vars PROVE [WQ!Next]_(WQ!wqVars)
  OBVIOUS
<1>t. queue \in Seq(Messages) /\ answered \in Seq(Messages)
  BY DEF WebInv, TypeOK
<1>0. ASSUME UNCHANGED <<queue, answered>>, mpc' # "exited" <=> mpc # "exited"
      PROVE  UNCHANGED WQ!wqVars
  BY <1>0 DEF WQ!wqVars
<1>1. ASSUME NEW t \in WebThreads,
             Request(t) \/ WebLock(t) \/ WebRaise(t) \/ WebPost(t) \/ Respond(t)
      PROVE  UNCHANGED WQ!wqVars
  BY <1>0, <1>1 DEF Request, WebLock, WebRaise, WebPost, Respond, mainVars
<1>2. ASSUME NEW t \in WebThreads, Push(t) PROVE WQ!Next
  <2>m. PICK m : m = Current(t)
    OBVIOUS
  <2>1. wpc[t] = "push" /\ queue' = Append(queue, m) /\ UNCHANGED <<mpc, answered>>
    BY <1>2, <2>m DEF Push, mainVars
  <2>2. m \in Messages /\ m \notin Elems(queue) /\ m \notin Elems(answered)
    BY <2>m, <2>1, CurrentNew
  <2>3. Elems(queue') = Elems(queue) \cup {m}
    BY <1>t, <2>1, <2>2, AppendElems
  <2>4. WQ!Submit({m})
    BY <2>1, <2>2, <2>3 DEF WQ!Submit, Elems
  <2>5. {m} \in SUBSET Messages
    BY <2>2
  <2>6. QED
    BY <2>4, <2>5 DEF WQ!Next
<1>3. CASE Process \/ ProcessThrows
  <2>m. PICK m : m = Head(queue)
    OBVIOUS
  <2>1. queue # << >> /\ queue' = Tail(queue) /\ mpc = "process"
    BY <1>3 DEF Process, ProcessThrows
  <2>2. m \in Elems(queue) /\ Elems(queue') = Elems(queue) \ {m}
    BY <1>t, <2>m, <2>1, TailElems DEF PushedOnce
  <2>3. \/ answered' = Append(answered, m) /\ mpc' = "unlock"
        \/ answered' = answered /\ mpc' = "exited"
    BY <1>3, <2>m DEF Process, ProcessThrows
  <2>4. WQ!Serve(m) \/ WQ!Fail(m)
    BY <2>1, <2>2, <2>3 DEF WQ!Serve, WQ!Fail, Elems
  <2>5. m \in {queue[i] : i \in 1..Len(queue)}
    BY <2>2 DEF Elems
  <2>6. QED
    BY <2>4, <2>5 DEF WQ!Next
<1>4. CASE LoopReturns
  <2>1. UNCHANGED <<queue, answered>> /\ mpc = "loop" /\ mpc' = "exited"
    BY <1>4 DEF LoopReturns
  <2>2. WQ!Close
    BY <2>1 DEF WQ!Close
  <2>3. QED
    BY <2>2 DEF WQ!Next
<1>5. CASE \/ StartLoop \/ OtherAction \/ TakeCompletion \/ Lower \/ MainLock
           \/ ProcessNothing \/ MainUnlock \/ Check \/ MainRaise \/ MainPost
           \/ TimerTick \/ Exit \/ UNCHANGED vars
  BY <1>0, <1>5
  DEF StartLoop, OtherAction, TakeCompletion, Lower, MainLock, ProcessNothing, MainUnlock,
      Check, MainRaise, MainPost, TimerTick, Exit, vars, mainVars
<1>6. QED
  BY <1>1, <1>2, <1>3, <1>4, <1>5 DEF Next, WebStep, MainStep, Terminated

\* The safety of the abstract queue: what the web threads see is a WorkQueue.
THEOREM WebRefinesWorkQueue == SafetySpec => WQ!Init /\ [][WQ!Next]_(WQ!wqVars)
<1>1. Init => WQ!Init /\ PushedOnce
  BY DEF Init, WQ!Init, PushedOnce, Elems
<1>2. QED
  BY <1>1, OnceNext, WebQueueStep, WebSafety, PTL DEF SafetySpec
================================================================================
