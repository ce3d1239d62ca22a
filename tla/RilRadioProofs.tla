--------------------------- MODULE RilRadioProofs ---------------------------
(***************************************************************************)
(* Proofs about the connections of libril and the radio state it decodes,  *)
(* for any faults, connections and scripts of radio states.  ConnIInv and  *)
(* IInv are the inductive invariants; the theorems at the end are the      *)
(* invariants that the run of RilRadio checks.                             *)
(***************************************************************************)
EXTENDS RilRadio, SequenceTheorems, TLAPS

-----------------------------------------------------------------------------
(* The batch of pending events                                             *)

\* What is left of a batch when its first callback has run.
LEMMA TailOfBatch ==
    ASSUME NEW S, NEW s \in Seq(S), s # <<>>, Once(s)
    PROVE  /\ Tail(s) \in Seq(S) /\ Once(Tail(s))
           /\ Has(s, Head(s))
           /\ \A e : Has(Tail(s), e) <=> Has(s, e) /\ e # Head(s)
<1>1. /\ Len(s) \in Nat \ {0} /\ DOMAIN s = 1..Len(s) /\ Head(s) = s[1]
      /\ Tail(s) \in Seq(S) /\ Len(Tail(s)) = Len(s) - 1
      /\ DOMAIN Tail(s) = 1..(Len(s) - 1)
      /\ \A i \in 1..(Len(s) - 1) : Tail(s)[i] = s[i + 1]
  BY HeadTailProperties, LenProperties, EmptySeq
<1>2. \A i \in 1..(Len(s) - 1) : i + 1 \in 1..Len(s) /\ i + 1 # 1
  BY <1>1
<1>3. Once(Tail(s))
  <2> SUFFICES ASSUME NEW i \in 1..(Len(s) - 1), NEW j \in 1..(Len(s) - 1), Tail(s)[i] = Tail(s)[j]
               PROVE  i = j
    BY <1>1 DEF Once
  <2>1. s[i + 1] = s[j + 1]
    BY <1>1
  <2>2. i + 1 = j + 1
    BY <1>1, <1>2, <2>1 DEF Once
  <2>3. QED
    BY <1>1, <2>2
<1>4. ASSUME NEW e, Has(Tail(s), e) PROVE Has(s, e) /\ e # Head(s)
  <2> PICK i \in 1..(Len(s) - 1) : Tail(s)[i] = e
    BY <1>1, <1>4 DEF Has
  <2>1. s[i + 1] = e /\ i + 1 \in DOMAIN s /\ 1 \in DOMAIN s /\ i + 1 # 1
    BY <1>1, <1>2
  <2>2. QED
    BY <1>1, <2>1 DEF Has, Once
<1>5. ASSUME NEW e, Has(s, e), e # Head(s) PROVE Has(Tail(s), e)
  <2> PICK i \in 1..Len(s) : s[i] = e
    BY <1>1, <1>5 DEF Has
  <2>1. i - 1 \in 1..(Len(s) - 1) /\ (i - 1) + 1 = i
    BY <1>1, <1>5
  <2>2. QED
    BY <1>1, <2>1 DEF Has
<1>6. Has(s, Head(s))
  BY <1>1 DEF Has
<1>7. QED
  BY <1>1, <1>3, <1>4, <1>5, <1>6

\* Two batches with nothing in common, one after the other.
LEMMA BatchAfterBatch ==
    ASSUME NEW S, NEW s \in Seq(S), NEW t \in Seq(S), Once(s), Once(t),
           \A e \in S : ~Has(s, e) \/ ~Has(t, e)
    PROVE  /\ s \o t \in Seq(S) /\ Once(s \o t)
           /\ \A e : Has(s \o t, e) <=> Has(s, e) \/ Has(t, e)
<1>1. /\ Len(s) \in Nat /\ Len(t) \in Nat /\ DOMAIN s = 1..Len(s) /\ DOMAIN t = 1..Len(t)
      /\ s \o t \in Seq(S) /\ DOMAIN (s \o t) = 1..(Len(s) + Len(t))
      /\ \A i \in 1..(Len(s) + Len(t)) :
            (s \o t)[i] = IF i <= Len(s) THEN s[i] ELSE t[i - Len(s)]
      /\ \A i \in 1..Len(s) : s[i] \in S
      /\ \A i \in 1..Len(t) : t[i] \in S
  <2>1. /\ s \o t \in Seq(S) /\ Len(s \o t) = Len(s) + Len(t)
        /\ \A i \in 1..(Len(s) + Len(t)) :
              (s \o t)[i] = IF i <= Len(s) THEN s[i] ELSE t[i - Len(s)]
    BY ConcatProperties
  <2>2. QED
    BY <2>1, LenProperties, ElementOfSeq
<1>2. \A i \in 1..(Len(s) + Len(t)) : i > Len(s) => i - Len(s) \in 1..Len(t)
  BY <1>1
<1>3. \A i \in 1..Len(s), j \in 1..Len(t) : s[i] # t[j]
  BY <1>1 DEF Has
<1>4. Once(s \o t)
  <2> SUFFICES ASSUME NEW i \in 1..(Len(s) + Len(t)), NEW j \in 1..(Len(s) + Len(t)),
                      (s \o t)[i] = (s \o t)[j]
               PROVE  i = j
    BY <1>1 DEF Once
  <2>1. CASE i <= Len(s) /\ j <= Len(s)
    BY <1>1, <2>1 DEF Once
  <2>2. CASE i > Len(s) /\ j > Len(s)
    <3>1. t[i - Len(s)] = t[j - Len(s)]
      BY <1>1, <2>2
    <3>2. i - Len(s) = j - Len(s)
      BY <1>1, <1>2, <2>2, <3>1 DEF Once
    <3>3. QED
      BY <1>1, <3>2
  <2>3. CASE i <= Len(s) /\ j > Len(s)
    <3>1. i \in 1..Len(s) /\ j - Len(s) \in 1..Len(t) /\ s[i] = t[j - Len(s)]
      BY <1>1, <1>2, <2>3
    <3>2. QED
      BY <1>3, <3>1
  <2>4. CASE i > Len(s) /\ j <= Len(s)
    <3>1. j \in 1..Len(s) /\ i - Len(s) \in 1..Len(t) /\ s[j] = t[i - Len(s)]
      BY <1>1, <1>2, <2>4
    <3>2. QED
      BY <1>3, <3>1
  <2>5. QED
    BY <1>1, <2>1, <2>2, <2>3, <2>4
<1>5. ASSUME NEW e, Has(s \o t, e) PROVE Has(s, e) \/ Has(t, e)
  <2> PICK i \in 1..(Len(s) + Len(t)) : (s \o t)[i] = e
    BY <1>1, <1>5 DEF Has
  <2>1. CASE i <= Len(s)
    BY <1>1, <2>1 DEF Has
  <2>2. CASE i > Len(s)
    <3>1. i - Len(s) \in 1..Len(t) /\ t[i - Len(s)] = e
      BY <1>1, <1>2, <2>2
    <3>2. QED
      BY <1>1, <3>1 DEF Has
  <2>3. QED
    BY <1>1, <2>1, <2>2
<1>6. ASSUME NEW e, Has(s, e) PROVE Has(s \o t, e)
  <2> PICK i \in 1..Len(s) : s[i] = e
    BY <1>1, <1>6 DEF Has
  <2>1. i \in 1..(Len(s) + Len(t)) /\ (s \o t)[i] = e
    BY <1>1
  <2>2. QED
    BY <1>1, <2>1 DEF Has
<1>7. ASSUME NEW e, Has(t, e) PROVE Has(s \o t, e)
  <2> PICK i \in 1..Len(t) : t[i] = e
    BY <1>1, <1>7 DEF Has
  <2>1. i + Len(s) \in 1..(Len(s) + Len(t)) /\ i + Len(s) > Len(s) /\ i + Len(s) - Len(s) = i
    BY <1>1
  <2>2. (s \o t)[i + Len(s)] = e
    BY <1>1, <2>1
  <2>3. QED
    BY <1>1, <2>1, <2>2 DEF Has
<1>8. QED
  BY <1>1, <1>4, <1>5, <1>6, <1>7

\* What select finds ready is pending once, and nothing else is.
LEMMA FoundBatch ==
    LET batch == Found("listen") \o Found("commands") \o Found("debug")
    IN  /\ batch \in Seq(Events) /\ Once(batch)
        /\ \A e \in Events : Has(batch, e) <=> e \in Readable
<1>1. ASSUME NEW e \in Events
      PROVE  /\ Found(e) \in Seq(Events) /\ Once(Found(e))
             /\ \A f : Has(Found(e), f) <=> e \in Readable /\ f = e
  <2>1. CASE e \in Readable
    <3>1. Found(e) = <<e>> /\ <<e>> \in Seq(Events) /\ DOMAIN <<e>> = {1} /\ <<e>>[1] = e
      BY <2>1 DEF Found
    <3>2. QED
      BY <2>1, <3>1 DEF Once, Has
  <2>2. CASE e \notin Readable
    <3>1. Found(e) = <<>> /\ <<>> \in Seq(Events) /\ DOMAIN <<>> = {}
      BY <2>2 DEF Found
    <3>2. QED
      BY <2>2, <3>1 DEF Once, Has
  <2>3. QED
    BY <2>1, <2>2
<1>2. "listen" \in Events /\ "commands" \in Events /\ "debug" \in Events
      /\ \A e \in Events : e \in {"listen", "commands", "debug"}
  BY DEF Events
<1> DEFINE two == Found("listen") \o Found("commands")
<1>3. /\ two \in Seq(Events) /\ Once(two)
      /\ \A e : Has(two, e) <=> Has(Found("listen"), e) \/ Has(Found("commands"), e)
  BY <1>1, <1>2, BatchAfterBatch
<1> HIDE DEF two
<1>4. /\ two \o Found("debug") \in Seq(Events) /\ Once(two \o Found("debug"))
      /\ \A e : Has(two \o Found("debug"), e) <=> Has(two, e) \/ Has(Found("debug"), e)
  <2>1. \A e \in Events : ~Has(two, e) \/ ~Has(Found("debug"), e)
    BY <1>1, <1>2, <1>3
  <2>2. QED
    BY <1>1, <1>2, <1>3, <2>1, BatchAfterBatch
<1>5. \A e \in Events : Has(two \o Found("debug"), e) <=> e \in Readable
  BY <1>1, <1>2, <1>3, <1>4
<1>6. QED
  BY <1>4, <1>5 DEF two

-----------------------------------------------------------------------------
(* The connection                                                          *)

ConnStep ==
    MainStep \/ EventStep \/ AcceptPhone \/ DebugRequest \/ DebugPowerOff \/ Environment

\* A new process has not come up yet.
LEMMA RestartFresh ==
    ASSUME ConnTypeOK, Restart, UNCHANGED closes, faults' \in 0..MaxFaults
    PROVE  ConnIInv'
<1>1. \A e : ~Has(pending', e)
  BY DEF Restart, Has
<1>2. pending' \in Seq(Events) /\ Once(pending')
  BY DEF Restart, Once
<1>3. QED
  BY <1>1, <1>2 DEF Restart, ConnIInv, ConnTypeOK, StartUp, Batch, ListensOrServes

\* A failure is one more of at most MaxFaults.
LEMMA FaultCounted == ConnTypeOK /\ (Fault \/ UNCHANGED faults) => faults' \in 0..MaxFaults
BY ConnectionAssumption DEF ConnTypeOK, Fault

\* Steps of the main thread.
LEMMA MainKeeps == ConnIInv /\ MainStep => ConnIInv'
<1> SUFFICES ASSUME ConnIInv, MainStep PROVE ConnIInv'
  OBVIOUS
<1> USE DEF ConnIInv
<1>1. CASE StartEventLoop \/ CheckStarted \/ Sleep \/ WakeUp \/ Register
  <2>1. /\ UNCHANGED <<watch_table, pending, s_fdCommand, open, outside, closes>>
        /\ main \notin {"debug", "up"} /\ main' \notin {"debug", "up"}
        /\ Fault \/ UNCHANGED faults
    BY <1>1 DEF StartEventLoop, CheckStarted, Sleep, WakeUp, Register, spent
  <2>2. watch_table = {} /\ pending = <<>> /\ ~s_fdCommand /\ ~open
    BY <2>1 DEF StartUp, ListensOrServes
  <2>3. ConnTypeOK'
    <3>1. faults' \in 0..MaxFaults
      BY <2>1, FaultCounted
    <3>2. /\ main' \in {"check", "register", "sleep", "asleep", "listen"}
          /\ loop' = loop \/ loop' \in {"init", "none"}
      BY <1>1 DEF StartEventLoop, CheckStarted, Sleep, WakeUp, Register
    <3>3. s_started' \in BOOLEAN /\ s_registerCalled' \in BOOLEAN
      BY <1>1 DEF ConnTypeOK, StartEventLoop, CheckStarted, Sleep, WakeUp, Register
    <3>4. QED
      BY <2>1, <3>1, <3>2, <3>3 DEF ConnTypeOK, outside
  <2>4. StartUp'
    <3>1. CASE StartEventLoop
      BY <2>1, <2>2, <3>1 DEF StartUp, StartEventLoop
    <3>2. CASE CheckStarted \/ Sleep \/ WakeUp \/ Register
      BY <2>1, <2>2, <3>2 DEF StartUp, CheckStarted, Sleep, WakeUp, Register
    <3>3. QED
      BY <1>1, <3>1, <3>2
  <2>5. Batch'
    <3>1. ~(loop' = "recv")
      BY <1>1, <2>2 DEF Batch, StartEventLoop, CheckStarted, Sleep, WakeUp, Register
    <3>2. QED
      BY <2>1, <2>2, <3>1 DEF Batch
  <2>6. ListensOrServes'
    BY <2>1, <2>2 DEF ListensOrServes
  <2>7. QED
    BY <2>3, <2>4, <2>5, <2>6
<1>2. ASSUME NEW event, NEW next, AddSocket(event, next), Fault /\ Restart PROVE ConnIInv'
  BY <1>2, RestartFresh, FaultCounted DEF AddSocket
<1>3. ASSUME AddSocket("listen", "debug"), ~(Fault /\ Restart) PROVE ConnIInv'
  <2>1. /\ main = "listen" /\ main' = "debug" /\ watch_table' = watch_table \cup {"listen"}
        /\ UNCHANGED <<loop, s_started, s_registerCalled, pending, s_fdCommand, open, outside,
                       faults, closes>>
    BY <1>3 DEF AddSocket
  <2>2. watch_table = {} /\ pending = <<>> /\ ~s_fdCommand
    BY <2>1 DEF StartUp
  <2>3. \A e : ~Has(pending, e)
    BY <2>2 DEF Has
  <2>4. QED
    BY <2>1, <2>2, <2>3 DEF ConnTypeOK, StartUp, Batch, ListensOrServes, outside
<1>4. ASSUME AddSocket("debug", "up"), ~(Fault /\ Restart) PROVE ConnIInv'
  <2>1. /\ main = "debug" /\ main' = "up" /\ watch_table' = watch_table \cup {"debug"}
        /\ UNCHANGED <<loop, s_started, s_registerCalled, pending, s_fdCommand, open, outside,
                       faults, closes>>
    BY <1>4 DEF AddSocket
  <2>2. QED
    BY <2>1 DEF ConnTypeOK, StartUp, Batch, ListensOrServes, outside
<1>5. QED
  BY <1>1, <1>2, <1>3, <1>4 DEF MainStep

\* Callbacks of the event thread end with the rest of the batch.
LEMMA RestOfBatch ==
    ASSUME Batch, pending # <<>>, pending' = Tail(pending)
    PROVE  /\ pending' \in Seq(Events) /\ Once(pending')
           /\ Has(pending, Head(pending))
           /\ \A e : Has(pending', e) <=> Has(pending, e) /\ e # Head(pending)
BY TailOfBatch DEF Batch

\* Steps of the event thread, the accepting and the debug port's included.
LEMMA EventKeeps ==
    ConnIInv /\ (EventStep \/ AcceptPhone \/ DebugRequest \/ DebugPowerOff) => ConnIInv'
<1> SUFFICES ASSUME ConnIInv, EventStep \/ AcceptPhone \/ DebugRequest \/ DebugPowerOff
             PROVE  ConnIInv'
  OBVIOUS
<1> USE DEF ConnIInv
<1>1. CASE EventInit \/ Handshake \/ CreatePipe
  <2>1. /\ loop \in {"init", "handshake", "pipe"}
        /\ UNCHANGED <<s_fdCommand, open, outside, closes>>
        /\ Fault \/ UNCHANGED faults
    BY <1>1 DEF EventInit, Handshake, CreatePipe, spent
  <2>2. CASE EventInit \/ Handshake
    <3>1. main \notin {"debug", "up"} /\ watch_table = {} /\ pending = <<>> /\ ~s_fdCommand
          /\ loop' \notin {"recv", "callbacks"} /\ UNCHANGED s_registerCalled
      BY <2>2 DEF EventInit, Handshake, StartUp
    <3>2. main' \notin {"debug", "up"} /\ watch_table' = {} /\ pending' = <<>>
      BY <2>2, <3>1 DEF EventInit, Handshake
    <3>3. ConnTypeOK'
      <4>1. faults' \in 0..MaxFaults
        BY <2>1, FaultCounted
      <4>2. main' \in {main, "woken"} /\ loop' \in {"handshake", "pipe"} /\ s_started' \in BOOLEAN
        BY <2>2 DEF EventInit, Handshake, ConnTypeOK
      <4>3. QED
        BY <2>1, <3>1, <3>2, <4>1, <4>2 DEF ConnTypeOK, outside
    <3>4. StartUp'
      BY <2>1, <2>2, <3>1, <3>2 DEF StartUp, EventInit, Handshake
    <3>5. Batch' /\ ListensOrServes'
      BY <2>1, <3>1, <3>2 DEF Batch, ListensOrServes
    <3>6. QED
      BY <3>3, <3>4, <3>5
  <2>3. CASE CreatePipe
    BY <2>1, <2>3, FaultCounted
       DEF CreatePipe, ConnTypeOK, StartUp, Batch, ListensOrServes, outside
  <2>4. QED
    BY <1>1, <2>2, <2>3
<1>2. CASE Select
  <2>1. /\ pending' \in Seq(Events) /\ Once(pending')
        /\ \A e \in Events : Has(pending', e) <=> e \in Readable
    BY <1>2, FoundBatch DEF Select
  <2>2. Readable \subseteq watch_table /\ pending = <<>> /\ \A e : ~Has(pending, e)
    <3>1. loop = "select" /\ pending = <<>>
      BY <1>2 DEF Select, Batch
    <3>2. \A e : ~Has(<<>>, e)
      BY DEF Has
    <3>3. Readable \subseteq watch_table
      BY DEF Readable
    <3>4. QED
      BY <3>1, <3>2, <3>3
  <2>3. "listen" \in Events /\ "commands" \in Events
    BY DEF Events
  <2>4. /\ watch_table' = watch_table \ (Readable \cap {"listen"}) /\ loop' = "callbacks"
        /\ loop = "select" /\ Readable # {}
        /\ UNCHANGED <<main, s_started, s_registerCalled, s_fdCommand, open, outside, spent>>
    BY <1>2 DEF Select
  <2>5. main \in {"debug", "up"}
    BY <2>2, <2>4 DEF StartUp
  <2>6. ConnTypeOK' /\ StartUp'
    BY <2>4, <2>5 DEF ConnTypeOK, StartUp, outside, spent
  <2>7. Batch' /\ ListensOrServes'
    BY <2>1, <2>2, <2>3, <2>4, <2>5 DEF Batch, ListensOrServes
  <2>8. QED
    BY <2>6, <2>7
<1>3. CASE LoopFails
  BY <1>3, RestartFresh, FaultCounted DEF LoopFails, spent
<1>4. CASE BatchDone
  BY <1>4 DEF BatchDone, ConnTypeOK, StartUp, Batch, ListensOrServes, outside, spent
<1>5. CASE AcceptFails \/ RejectOther \/ AcceptPhone \/ CommandsClosed
  <2>1. /\ pending # <<>> /\ pending' = Tail(pending) /\ loop = "callbacks"
        /\ Head(pending) = IF CommandsClosed THEN "commands" ELSE "listen"
        /\ UNCHANGED <<main, loop, s_started, s_registerCalled, closes>>
        /\ Fault \/ UNCHANGED faults
    BY <1>5 DEF AcceptFails, RejectOther, AcceptPhone, CommandsClosed, Running, spent
  <2>2. main \in {"debug", "up"}
    BY <2>1 DEF StartUp
  <2>3. /\ pending' \in Seq(Events) /\ Once(pending')
        /\ Has(pending, Head(pending))
        /\ \A e : Has(pending', e) <=> Has(pending, e) /\ e # Head(pending)
    BY <2>1, RestOfBatch
  <2>4. ConnTypeOK'
    <3>1. faults' \in 0..MaxFaults
      BY <2>1, FaultCounted
    <3>2. /\ watch_table' \subseteq watch_table \cup {"listen", "commands"}
          /\ s_fdCommand' \in BOOLEAN /\ open' \in BOOLEAN
          /\ peer' \in {peer, "connected", "away"} /\ debugger' = debugger
      BY <1>5 DEF AcceptFails, RejectOther, AcceptPhone, CommandsClosed, ConnTypeOK, outside
    <3>3. QED
      BY <2>1, <3>1, <3>2 DEF ConnTypeOK
  <2>5. StartUp'
    BY <2>1, <2>2 DEF StartUp
  <2>6. CASE AcceptFails \/ RejectOther
    <3>1. /\ watch_table' = watch_table \cup {"listen"} /\ UNCHANGED <<s_fdCommand, open>>
          /\ Head(pending) = "listen"
      BY <2>6, <2>1 DEF AcceptFails, RejectOther, Running
    <3>2. QED
      BY <2>1, <2>2, <2>3, <2>4, <2>5, <3>1 DEF Batch, ListensOrServes
  <2>7. CASE AcceptPhone
    <3>1. /\ watch_table' = watch_table \cup {"commands"} /\ s_fdCommand' = TRUE /\ open' = TRUE
          /\ Head(pending) = "listen"
      BY <2>7 DEF AcceptPhone, Running
    <3>2. QED
      BY <2>1, <2>2, <2>3, <2>4, <2>5, <3>1 DEF Batch, ListensOrServes
  <2>8. CASE CommandsClosed
    <3>1. /\ watch_table' = (watch_table \ {"commands"}) \cup {"listen"}
          /\ s_fdCommand' = FALSE /\ open' = FALSE /\ Head(pending) = "commands"
      BY <2>8 DEF CommandsClosed, Running
    <3>2. QED
      BY <2>1, <2>2, <2>3, <2>4, <2>5, <3>1 DEF Batch, ListensOrServes
  <2>9. QED
    BY <1>5, <2>6, <2>7, <2>8
<1>6. CASE DebugAccept
  BY <1>6 DEF DebugAccept, Running, ConnTypeOK, StartUp, Batch, ListensOrServes, spent
<1>7. CASE DebugRequest \/ DebugPowerOff
  <2>1. /\ pending # <<>> /\ pending' = Tail(pending) /\ Head(pending) = "debug"
        /\ loop = "recv" /\ loop' = "callbacks" /\ closes' = closes /\ faults' = faults
        /\ UNCHANGED <<main, s_started, s_registerCalled, watch_table>>
        /\ \/ UNCHANGED <<s_fdCommand, open>>
           \/ s_fdCommand' = FALSE /\ open' = FALSE
    <3>1. CASE DebugRequest
      BY <3>1 DEF DebugRequest, Batch, spent
    <3>2. CASE DebugPowerOff
      BY <3>2 DEF DebugPowerOff, Batch, spent
    <3>3. QED
      BY <1>7, <3>1, <3>2
  <2>2. /\ pending' \in Seq(Events) /\ Once(pending')
        /\ \A e : Has(pending', e) <=> Has(pending, e) /\ e # "debug"
    BY <2>1, RestOfBatch
  <2>3. main \in {"debug", "up"}
    BY <2>1 DEF StartUp
  <2>4. ConnTypeOK' /\ StartUp'
    BY <1>7, <2>1, <2>3 DEF DebugRequest, DebugPowerOff, ConnTypeOK, StartUp
  <2>5. QED
    BY <2>1, <2>2, <2>3, <2>4 DEF Batch, ListensOrServes
<1>8. QED
  BY <1>1, <1>2, <1>3, <1>4, <1>5, <1>6, <1>7 DEF EventStep

\* Every step of the daemon and of its surroundings keeps ConnIInv.
LEMMA ConnNext == ConnIInv /\ (ConnStep \/ UNCHANGED connVars) => ConnIInv'
<1> SUFFICES ASSUME ConnIInv, Environment \/ UNCHANGED connVars PROVE ConnIInv'
  BY MainKeeps, EventKeeps DEF ConnStep
<1>1. UNCHANGED process /\ (Fault \/ UNCHANGED faults)
  BY DEF Environment, FrameworkConnects, FrameworkCloses, OtherConnects, DebuggerConnects,
         connVars, spent
<1>2. UNCHANGED <<main, loop, s_started, s_registerCalled, watch_table, pending, s_fdCommand, open>>
  BY <1>1 DEF process
<1>3. closes' \in 0..MaxCloses /\ peer' \in {"away", "connected", "closed"}
      /\ debugger' \in {"away", "waiting", "silent"}
  BY ConnectionAssumption DEF Environment, FrameworkConnects, FrameworkCloses, OtherConnects,
         DebuggerConnects, connVars, outside, spent, ConnIInv, ConnTypeOK
<1>4. QED
  BY <1>1, <1>2, <1>3, FaultCounted DEF ConnIInv, ConnTypeOK, StartUp, Batch, ListensOrServes

-----------------------------------------------------------------------------
(* The radio state                                                         *)

\* What the decode functions say of an old vendor RIL's state is never unknown, but
\* for the status of the card.
LEMMA Decoding ==
    ASSUME NEW s \in OldStates
    PROVE  /\ \A f \in Fields :
                 Decode(f, s) \in Values
           /\ Decode("tech", s) # Unknown /\ Decode("source", s) # Unknown
<1> USE DEF Decode, Fields, Values, OldStates, RadioStates, Unknown
<1>1. CASE s \in Sim
  BY <1>1 DEF decodeVoiceRadioTechnology, decodeCdmaSubscriptionSource, decodeSimStatus, Sim, Ruim, Nv
<1>2. CASE s \in Ruim
  BY <1>2 DEF decodeVoiceRadioTechnology, decodeCdmaSubscriptionSource, decodeSimStatus, Sim, Ruim, Nv
<1>3. CASE s \in Nv
  BY <1>3 DEF decodeVoiceRadioTechnology, decodeCdmaSubscriptionSource, decodeSimStatus, Sim, Ruim, Nv
<1>4. QED
  BY <1>1, <1>2, <1>3

\* The queried fields of any state decode to a value of the type.
LEMMA DecodingAny ==
    ASSUME NEW f \in {"tech", "source"}, NEW s
    PROVE  Decode(f, s) \in Values
BY DEF Values, Decode, decodeVoiceRadioTechnology, decodeCdmaSubscriptionSource, Unknown

\* No step but an accept connects the framework.
LEMMA NoNewConnection ==
    ASSUME MainStep \/ EventStep \/ DebugRequest \/ DebugPowerOff \/ Environment
    PROVE  /\ open' => open
           /\ open' /\ peer' = "connected" => open /\ peer = "connected"
<1>1. CASE MainStep
  BY <1>1 DEF MainStep, StartEventLoop, CheckStarted, Sleep, WakeUp, Register, AddSocket, Restart, outside
<1>2. CASE EventStep
  <2>1. CASE EventInit \/ Handshake \/ CreatePipe \/ Select \/ LoopFails \/ BatchDone
    BY <2>1 DEF EventInit, Handshake, CreatePipe, Select, LoopFails, BatchDone, Restart, outside
  <2>2. CASE AcceptFails \/ RejectOther \/ CommandsClosed \/ DebugAccept
    BY <2>2 DEF AcceptFails, RejectOther, CommandsClosed, DebugAccept, outside
  <2>3. QED
    BY <1>2, <2>1, <2>2 DEF EventStep
<1>3. CASE DebugRequest \/ DebugPowerOff
  BY <1>3 DEF DebugRequest, DebugPowerOff
<1>4. CASE Environment
  BY <1>4 DEF Environment, FrameworkConnects, FrameworkCloses, OtherConnects, DebuggerConnects, process
<1>5. QED
  BY <1>1, <1>2, <1>3, <1>4

\* RIL_register stays called until the process ends.
LEMMA StaysRegistered ==
    ASSUME MainStep \/ EventStep \/ DebugRequest \/ DebugPowerOff \/ Environment
    PROVE  s_registerCalled => s_registerCalled' \/ main' = "start"
<1>1. CASE MainStep
  BY <1>1 DEF MainStep, StartEventLoop, CheckStarted, Sleep, WakeUp, Register, AddSocket, Restart
<1>2. CASE EventStep
  <2>1. CASE EventInit \/ Handshake \/ CreatePipe \/ Select \/ LoopFails \/ BatchDone
    BY <2>1 DEF EventInit, Handshake, CreatePipe, Select, LoopFails, BatchDone, Restart
  <2>2. CASE AcceptFails \/ RejectOther \/ CommandsClosed \/ DebugAccept
    BY <2>2 DEF AcceptFails, RejectOther, CommandsClosed, DebugAccept
  <2>3. QED
    BY <1>2, <2>1, <2>2 DEF EventStep
<1>3. CASE DebugRequest \/ DebugPowerOff
  BY <1>3 DEF DebugRequest, DebugPowerOff
<1>4. CASE Environment
  BY <1>4 DEF Environment, FrameworkConnects, FrameworkCloses, OtherConnects, DebuggerConnects, process
<1>5. QED
  BY <1>1, <1>2, <1>3, <1>4

\* The variables of the radio, as they are typed.
RadioTypes ==
    /\ radioState \in RadioStates
    /\ cache \in [Fields -> Values]
    /\ pc \in [Threads -> {"idle", "compare", "marshal", "send", "decode", "answer"}]
    /\ \A t \in Threads : field[t] = NULL <=> pc[t] = "idle"
    /\ \A t \in Threads : newState[t] # NULL => newState[t] \in RadioStates

RadioInv == RadioTypes /\ Doing /\ Decoded /\ Informed

\* What a step that leaves the radio's variables alone keeps.
LEMMA RadioStays ==
    ASSUME RadioInv, UNCHANGED radioVars, open' => open,
           open' /\ peer' = "connected" => open /\ peer = "connected",
           s_registerCalled /\ Busy(Event) => s_registerCalled'
    PROVE  RadioInv'
<1>1. UNCHANGED <<radioState, script, cache, pc, field, newState, value, told, raced>>
  BY DEF radioVars, threads
<1>2. \A t \in Threads : (Processing(t)' <=> Processing(t)) /\ Compared(t)' = Compared(t)
  BY <1>1 DEF Processing, Compared
<1>3. RadioTypes' /\ Doing'
  <2>1. RadioTypes'
    BY <1>1 DEF RadioInv, RadioTypes
  <2>2. s_registerCalled \/ pc[Event] = "idle" => s_registerCalled' \/ pc'[Event] = "idle"
    BY <1>1 DEF Busy
  <2>3. Doing'
    BY <1>1, <2>2 DEF RadioInv, Doing, Busy, Processing
  <2>4. QED
    BY <2>1, <2>3
<1>4. Decoded'
  <2>1. (~Processing(Vendor))' = ~Processing(Vendor) /\ (~Processing(Event))' = ~Processing(Event)
    BY <1>1 DEF Processing
  <2>2. QED
    BY <1>1, <1>2, <2>1 DEF RadioInv, Decoded
<1>5. Informed'
  BY <1>1 DEF RadioInv, Informed
<1>6. QED
  BY <1>3, <1>4, <1>5 DEF RadioInv

\* A new process knows nothing.
LEMMA RadioFresh ==
    ASSUME RadioInv, RadioRestarts
    PROVE  RadioInv'
<1>1. /\ radioState' = "UNAVAILABLE" /\ script' = script
      /\ cache' = [f \in Fields |-> Unknown] /\ pc' = [t \in Threads |-> "idle"]
      /\ field' = [t \in Threads |-> NULL] /\ newState' = [t \in Threads |-> NULL]
      /\ value' = [t \in Threads |-> NULL] /\ told' = [f \in Fields |-> NULL] /\ raced' = FALSE
  BY DEF RadioRestarts
<1>2. /\ "UNAVAILABLE" \in RadioStates /\ "UNAVAILABLE" \notin OldStates /\ Unknown \in Values
      /\ Vendor \in Threads /\ Event \in Threads
  BY DEF RadioStates, OldStates, Sim, Ruim, Nv, Values, Threads
<1>3. RadioTypes'
  BY <1>1, <1>2 DEF RadioTypes
<1>4. Doing'
  BY <1>1, <1>2 DEF RadioInv, Doing, Busy, Processing
<1>5. Decoded' /\ Informed'
  BY <1>1, <1>2 DEF Decoded, Informed, Processing
<1>6. QED
  BY <1>3, <1>4, <1>5 DEF RadioInv

\* With a connection RIL_register has been called.
LEMMA OpenRegistered ==
    ASSUME ConnIInv
    PROVE  /\ open => s_registerCalled
           /\ pending # <<>> => s_registerCalled
           /\ s_registerCalled => main # "start"
BY DEF ConnIInv, StartUp, ListensOrServes

\* The event thread, or the vendor's, turns to an old state.
LEMMA Turns ==
    ASSUME RadioInv, NEW t \in Threads, NEW s \in OldStates, ~Busy(t), ProcessRadioState(t, s)
    PROVE  /\ pc' = [pc EXCEPT ![t] = "compare"]
           /\ field' = [field EXCEPT ![t] = "tech"]
           /\ newState' = [newState EXCEPT ![t] = s]
           /\ ~raced' => ~raced /\ \A u \in Threads \ {t} : ~Busy(u)
BY DEF ProcessRadioState, Goto, NoteRace

\* The radio changes.
LEMMA ChangeKeeps == ConnIInv /\ RadioInv /\ RadioChanges => RadioInv'
<1> SUFFICES ASSUME ConnIInv, RadioInv, RadioChanges PROVE RadioInv'
  OBVIOUS
<1> USE DEF RadioInv
<1> DEFINE s == Head(script)
<1>1. /\ radioState' = s /\ s \in RadioStates /\ script' \in Seq(RadioStates)
      /\ UNCHANGED <<main, s_registerCalled, open, peer, cache, value, told>>
      /\ pc[Vendor] = "idle" /\ field[Vendor] = NULL
  <2>1. script # <<>> /\ script \in Seq(RadioStates)
    BY DEF RadioChanges, Doing
  <2>2. Head(script) \in RadioStates /\ Tail(script) \in Seq(RadioStates)
    BY <2>1, HeadTailProperties
  <2>3. Vendor \in Threads
    BY DEF Threads
  <2>4. QED
    BY <2>2, <2>3 DEF RadioChanges, Busy, RadioTypes, connVars, process, outside
<1> HIDE DEF s
<1>2. Vendor \in Threads /\ Event \in Threads /\ Vendor # Event
      /\ \A t \in Threads : t = Vendor \/ t = Event
  BY RadioAssumption DEF Threads
<1>3. "tech" \in Fields /\ NULL \notin Fields /\ NULL \notin OldStates
  BY RadioAssumption DEF Fields
<1>4. CASE s \in OldStates /\ s_registerCalled
  <2>1. /\ pc' = [pc EXCEPT ![Vendor] = "compare"]
        /\ field' = [field EXCEPT ![Vendor] = "tech"]
        /\ newState' = [newState EXCEPT ![Vendor] = s]
        /\ ~raced' => ~raced /\ \A u \in Threads \ {Vendor} : ~Busy(u)
    <3>1. ProcessRadioState(Vendor, s) /\ ~Busy(Vendor)
      BY <1>4 DEF RadioChanges, s
    <3>2. QED
      BY <1>2, <1>4, <3>1, Turns
  <2>2. RadioTypes'
    BY <1>1, <1>2, <1>3, <1>4, <2>1 DEF RadioTypes, Doing
  <2>3. ~raced' => ~raced /\ pc[Event] = "idle" /\ pc'[Event] = "idle"
    BY <1>2, <2>1 DEF Busy, RadioTypes
  <2>4. Doing'
    BY <1>1, <1>2, <1>3, <1>4, <2>1, <2>3 DEF Doing, RadioTypes, Busy, Processing
  <2>5. Decoded'
    BY <1>1, <1>2, <2>1, <2>3 DEF Decoded, RadioTypes, Doing, Processing, Compared
  <2>6. Informed'
    <3>1. \A f \in Fields, t \in Threads : field[t] = f => t # Vendor
      BY <1>1, <1>3
    <3>2. QED
      BY <1>1, <1>2, <2>1, <2>3, <3>1 DEF Informed
  <2>7. QED
    BY <2>2, <2>4, <2>5, <2>6
<1>5. CASE ~(s \in OldStates /\ s_registerCalled)
  <2>1. UNCHANGED <<pc, field, newState, raced>>
    BY <1>5 DEF RadioChanges, ProcessRadioState, s
  <2>2. \A t \in Threads : (Processing(t)' <=> Processing(t)) /\ Compared(t)' = Compared(t)
    BY <2>1 DEF Processing, Compared
  <2>3. radioState' \in OldStates => ~open /\ pc[Event] = "idle"
    BY <1>1, <1>5, OpenRegistered DEF Doing, Busy
  <2>4. RadioTypes' /\ Doing'
    BY <1>1, <1>2, <2>1, <2>3 DEF RadioTypes, Doing, Busy, Processing
  <2>5. Decoded'
    BY <1>1, <2>1, <2>2, <2>3 DEF Decoded
  <2>6. Informed'
    BY <1>1, <2>1 DEF Informed
  <2>7. QED
    BY <2>4, <2>5, <2>6
<1>6. QED
  BY <1>4, <1>5

\* Where a thread goes that is done with a field.
LEMMA Advances ==
    ASSUME RadioInv, NEW t \in Threads, Processing(t), Advance(t)
    PROVE  \/ /\ field[t] = "status"
              /\ pc' = [pc EXCEPT ![t] = "idle"]
              /\ field' = [field EXCEPT ![t] = NULL]
              /\ newState' = [newState EXCEPT ![t] = NULL]
           \/ /\ field[t] = "tech" /\ is3gpp2(Decode("tech", newState[t]))
              /\ pc' = [pc EXCEPT ![t] = "compare"]
              /\ field' = [field EXCEPT ![t] = "source"]
              /\ newState' = newState
           \/ /\ field[t] = "source" \/ (field[t] = "tech" /\ ~is3gpp2(Decode("tech", newState[t])))
              /\ pc' = [pc EXCEPT ![t] = "compare"]
              /\ field' = [field EXCEPT ![t] = "status"]
              /\ newState' = newState
<1>1. field[t] \in Fields /\ newState \in [Threads -> RadioStates \cup {NULL}]
  BY DEF RadioInv, RadioTypes, Doing, Processing
<1>2. NULL \notin Fields
  BY RadioAssumption
<1>3. CASE field[t] = "status"
  BY <1>3 DEF Advance, Goto
<1>4. CASE field[t] = "tech" /\ is3gpp2(Decode("tech", newState[t]))
  <2>1. "source" # NULL
    BY <1>2 DEF Fields
  <2>2. QED
    BY <1>1, <1>4, <2>1 DEF Advance, Goto
<1>5. CASE field[t] = "source" \/ (field[t] = "tech" /\ ~is3gpp2(Decode("tech", newState[t])))
  <2>1. "status" # NULL
    BY <1>2 DEF Fields
  <2>2. QED
    BY <1>1, <1>5, <2>1 DEF Advance, Goto
<1>6. QED
  BY <1>1, <1>3, <1>4, <1>5 DEF Fields

\* A thread that has settled a field, and told it if it was to, goes on to the next.
LEMMA AdvanceKeeps ==
    ASSUME RadioInv, NEW t \in Threads, Processing(t), Advance(t),
           UNCHANGED <<connVars, radioState, script, cache, raced>>,
           DOMAIN value' = Threads, DOMAIN told' = Fields,
           ~raced => cache[field[t]] = Decode(field[t], newState[t]),
           ~raced /\ open /\ peer = "connected" => \A f \in Fields :
               \/ told'[f] = told[f] /\ (f # field[t] \/ pc[t] = "compare")
               \/ told'[f] \in {NULL, cache[f]}
    PROVE  RadioInv'
<1> USE DEF RadioInv
<1>1. /\ Vendor \in Threads /\ Event \in Threads /\ Vendor # Event
      /\ \A u \in Threads : u = Vendor \/ u = Event
      /\ NULL \notin Fields /\ NULL \notin OldStates /\ "source" \in Fields /\ "status" \in Fields
      /\ "tech" \in Fields
  BY RadioAssumption DEF Threads, Fields
<1>2. PICK p \in {"idle", "compare"}, g \in Fields \cup {NULL}, s \in OldStates \cup {NULL} :
         /\ pc' = [pc EXCEPT ![t] = p] /\ field' = [field EXCEPT ![t] = g]
         /\ newState' = [newState EXCEPT ![t] = s]
         /\ p = "idle" => g = NULL /\ s = NULL /\ field[t] = "status"
         /\ p = "compare" => g \in {"source", "status"} /\ s = newState[t] /\ s \in OldStates
         /\ g = "source" => field[t] = "tech"
         /\ g = "status" => \/ field[t] = "source"
                            \/ field[t] = "tech" /\ ~is3gpp2(Decode("tech", newState[t]))
  <2>1. newState[t] \in OldStates /\ newState = [newState EXCEPT ![t] = newState[t]]
    BY DEF Doing
  <2>2. QED
    BY <1>1, <2>1, Advances
<1>3. /\ UNCHANGED <<open, peer, s_registerCalled, radioState, script, cache, raced>>
  BY DEF connVars, process, outside
<1>4. RadioTypes'
  BY <1>1, <1>2, <1>3 DEF RadioTypes, Doing
<1>5. ~raced => \A u \in Threads \ {t} : pc[u] = "idle" /\ pc'[u] = "idle"
  <2>1. pc[t] # "idle"
    BY DEF Processing
  <2>2. QED
    BY <1>1, <1>2, <2>1 DEF Doing, Busy, RadioTypes
<1>6. Doing'
  <2>1. field' \in [Threads -> Fields \cup {NULL}] /\ newState' \in [Threads -> RadioStates \cup {NULL}]
    BY <1>2 DEF Doing
  <2>2. Busy(Event)' => Busy(Event)
    BY <1>1, <1>2 DEF Busy, RadioTypes, Processing
  <2>3. /\ pc'[Vendor] \notin {"decode", "answer"}
        /\ pc'[Event] \in {"decode", "answer"} => field'[Event] \in {"tech", "source"}
        /\ pc'[Event] = "decode" => pc[Event] = "decode" /\ newState'[Event] = newState[Event]
    BY <1>1, <1>2 DEF Doing, RadioTypes
  <2>4. \A u \in Threads : Processing(u)' => Processing(u) /\ newState'[u] = newState[u]
    BY <1>1, <1>2 DEF Doing, RadioTypes, Processing
  <2>5. ~raced' => pc'[Vendor] = "idle" \/ pc'[Event] = "idle"
    BY <1>1, <1>3, <1>5
  <2>6. QED
    BY <1>1, <1>3, <2>1, <2>2, <2>3, <2>4, <2>5 DEF Doing, Busy
<1>7. Decoded'
  <2> SUFFICES ASSUME ~raced PROVE Decoded'
    BY <1>3 DEF Decoded
  <2>1. cache[field[t]] = Decode(field[t], newState[t])
        /\ \A f \in Compared(t) : Matter(f, newState[t]) => cache[f] = Decode(f, newState[t])
    BY DEF Decoded
  <2>2. pc'[Event] # "answer"
    BY <1>1, <1>2, <1>5 DEF RadioTypes
  <2>3. CASE p = "compare"
    <3>1. /\ pc'[t] = "compare" /\ newState'[t] = newState[t] /\ Processing(t)'
          /\ ~Processing(Vendor)' \/ ~Processing(Event)'
      BY <1>1, <1>2, <1>5, <2>3 DEF RadioTypes, Doing, Processing
    <3>2. \A f \in Compared(t)' : Matter(f, newState'[t]) => cache[f] = Decode(f, newState'[t])
      <4>1. field'[t] = g
        BY <1>2 DEF Doing
      <4>2. CASE g = "source"
        BY <1>2, <2>1, <3>1, <4>1, <4>2 DEF Compared
      <4>3. CASE g = "status"
        BY <1>2, <2>1, <3>1, <4>1, <4>3 DEF Compared, Matter
      <4>4. QED
        BY <1>2, <2>3, <4>2, <4>3
    <3>3. \A u \in Threads : Processing(u)' => u = t
      BY <1>5 DEF Processing
    <3>4. QED
      BY <1>1, <1>3, <2>2, <3>1, <3>2, <3>3 DEF Decoded
  <2>4. CASE p = "idle"
    <3>1. \A u \in Threads : ~Processing(u)'
      BY <1>2, <1>5, <2>4 DEF RadioTypes, Processing
    <3>2. radioState \in OldStates => newState[t] = radioState
      BY <1>1 DEF Doing
    <3>3. \A f \in Fields : Matter(f, newState[t]) => cache[f] = Decode(f, newState[t])
      BY <1>2, <2>1, <2>4 DEF Compared, Fields
    <3>4. QED
      BY <1>1, <1>3, <2>2, <3>1, <3>2, <3>3 DEF Decoded
  <2>5. QED
    BY <1>2, <2>3, <2>4
<1>8. Informed'
  <2> SUFFICES ASSUME ~raced, open, peer = "connected", NEW f \in Fields
               PROVE  \/ told'[f] \in {NULL, cache[f]}
                      \/ f # "status" /\ cache[f] = Unknown
                      \/ \E u \in Threads : field'[u] = f /\ pc'[u] \in {"marshal", "send", "answer"}
    BY <1>3 DEF Informed
  <2>1. CASE told'[f] \in {NULL, cache[f]}
    BY <2>1
  <2>2. CASE told'[f] = told[f] /\ (f # field[t] \/ pc[t] = "compare")
    <3>1. \A u \in Threads : field[u] = f /\ pc[u] \in {"marshal", "send", "answer"} =>
              u # t /\ field'[u] = f /\ pc'[u] \in {"marshal", "send", "answer"}
      BY <1>2, <2>2 DEF RadioTypes, Doing
    <3>2. QED
      BY <2>2, <3>1 DEF Informed
  <2>3. QED
    BY <2>1, <2>2
<1>9. QED
  BY <1>4, <1>6, <1>7, <1>8

\* The three steps of a thread in processRadioState.
LEMMA StepKeeps ==
    ASSUME ConnIInv, RadioInv, NEW t \in Threads, RadioStep(t)
    PROVE  RadioInv'
<1> USE DEF RadioInv
<1>1. /\ Processing(t) /\ field[t] \in Fields /\ newState[t] \in OldStates
      /\ UNCHANGED <<connVars, radioState, script, raced>>
  BY RadioAssumption
     DEF RadioStep, CompareAndStore, Marshal, Send, Processing, RadioTypes, Doing
<1>2. UNCHANGED <<open, peer, s_registerCalled>>
  BY <1>1 DEF connVars, process, outside
<1>3. /\ Vendor \in Threads /\ Event \in Threads /\ Vendor # Event
      /\ \A u \in Threads : u = Vendor \/ u = Event
  BY RadioAssumption DEF Threads
<1>4. ~raced => \A u \in Threads \ {t} : pc[u] = "idle"
  BY <1>1, <1>3 DEF Doing, Busy, Processing
<1>5. DOMAIN value = Threads /\ DOMAIN told = Fields
  BY DEF Doing
<1> DEFINE f == field[t]  new == Decode(f, newState[t])
<1>6. CASE CompareAndStore(t) /\ cache[f] = new
  <2>1. Advance(t) /\ UNCHANGED <<cache, value, told>>
    BY <1>6 DEF CompareAndStore
  <2>2. pc[t] = "compare"
    BY <1>6 DEF CompareAndStore
  <2>3. \A g \in Fields : told'[g] = told[g] /\ (g # field[t] \/ pc[t] = "compare")
    BY <2>1, <2>2
  <2>4. QED
    BY <1>1, <1>5, <1>6, <2>1, <2>2, <2>3, AdvanceKeeps
<1>7. CASE CompareAndStore(t) /\ cache[f] # new
  <2>1. /\ pc[t] = "compare" /\ pc' = [pc EXCEPT ![t] = "marshal"]
        /\ cache' = [cache EXCEPT ![f] = new] /\ UNCHANGED <<field, newState, value, told>>
    BY <1>7 DEF CompareAndStore, Goto
  <2>2. cache' \in [Fields -> Values]
    BY <1>1, <2>1, Decoding DEF RadioTypes
  <2>3. RadioTypes'
    BY <1>1, <2>1, <2>2, RadioAssumption DEF RadioTypes
  <2>4. \A u \in Threads : /\ Processing(u)' = Processing(u)
                           /\ (pc'[u] = "idle") = (pc[u] = "idle")
                           /\ (pc'[u] = "answer") = (pc[u] = "answer")
                           /\ (pc'[u] = "decode") = (pc[u] = "decode")
    BY <2>1 DEF Processing, RadioTypes
  <2>5. Doing'
    BY <1>1, <1>2, <1>3, <2>1, <2>4 DEF Doing, Busy
  <2>6. Decoded'
    <3> SUFFICES ASSUME ~raced PROVE Decoded'
      BY <1>1 DEF Decoded
    <3>1. Processing(t)' /\ pc'[t] = "marshal" /\ \A u \in Threads : Processing(u)' => u = t
      BY <1>1, <1>4, <2>1, <2>4 DEF Processing, RadioTypes
    <3>2. f \notin Compared(t) /\ Compared(t) \subseteq Fields /\ Compared(t)' = Compared(t)
      BY <1>1, <2>1 DEF Compared, Fields
    <3>3. /\ cache'[f] = new
          /\ \A g \in Compared(t) : Matter(g, newState[t]) => cache'[g] = Decode(g, newState[t])
      BY <1>1, <2>1, <3>2 DEF Decoded, RadioTypes
    <3>4. Processing(Vendor)' \/ Processing(Event)'
      BY <1>3, <3>1
    <3>5. pc'[Event] # "answer"
      BY <1>3, <1>4, <2>4, <3>1
    <3>6. QED
      BY <1>3, <2>1, <3>1, <3>2, <3>3, <3>4, <3>5 DEF Decoded
  <2>7. Informed'
    <3>1. field'[t] = f /\ pc'[t] = "marshal"
      BY <2>1 DEF RadioTypes
    <3>2. \A g \in Fields \ {f} : cache'[g] = cache[g] /\ told'[g] = told[g]
      BY <1>1, <2>1 DEF RadioTypes
    <3>3. \A u \in Threads, g \in Fields \ {f} : field[u] = g =>
              field'[u] = g /\ pc'[u] = pc[u]
      BY <2>1 DEF RadioTypes
    <3>4. QED
      BY <1>1, <1>2, <3>1, <3>2, <3>3 DEF Informed
  <2>8. QED
    BY <2>3, <2>5, <2>6, <2>7
<1>8. CASE Marshal(t)
  <2>1. /\ pc[t] = "marshal" /\ pc' = [pc EXCEPT ![t] = "send"]
        /\ value' = [value EXCEPT ![t] = cache[f]] /\ UNCHANGED <<cache, field, newState, told>>
    BY <1>8 DEF Marshal, Goto
  <2>2. RadioTypes'
    BY <1>1, <2>1, RadioAssumption DEF RadioTypes
  <2>3. \A u \in Threads : /\ Processing(u)' = Processing(u)
                           /\ (pc'[u] = "idle") = (pc[u] = "idle")
                           /\ (pc'[u] = "answer") = (pc[u] = "answer")
                           /\ (pc'[u] = "decode") = (pc[u] = "decode")
                           /\ (pc'[u] \in {"marshal", "send", "answer"})
                                 = (pc[u] \in {"marshal", "send", "answer"})
    BY <2>1 DEF Processing, RadioTypes
  <2>4. Doing'
    BY <1>1, <1>2, <1>3, <2>1, <2>3 DEF Doing, Busy
  <2>5. Decoded'
    <3> SUFFICES ASSUME ~raced PROVE Decoded'
      BY <1>1 DEF Decoded
    <3>1. Processing(t)' /\ value'[t] = cache[f] /\ \A u \in Threads : Processing(u)' => u = t
      BY <1>1, <1>4, <1>5, <2>1, <2>3 DEF Processing
    <3>2. Compared(t)' = Compared(t)
      BY <1>1, <2>1 DEF Compared
    <3>3. /\ cache[f] = new
          /\ \A g \in Compared(t) : Matter(g, newState[t]) => cache[g] = Decode(g, newState[t])
      BY <1>1, <2>1 DEF Decoded
    <3>4. Processing(Vendor)' \/ Processing(Event)'
      BY <1>3, <3>1
    <3>5. QED
      BY <1>3, <2>1, <3>1, <3>2, <3>3, <3>4 DEF Decoded
  <2>6. Informed'
    BY <1>1, <1>2, <2>1, <2>3 DEF Informed
  <2>7. QED
    BY <2>2, <2>4, <2>5, <2>6
<1>9. CASE Send(t)
  <2>1. /\ pc[t] = "send" /\ Advance(t) /\ UNCHANGED cache
        /\ value' = [value EXCEPT ![t] = NULL]
        /\ told' = IF open /\ peer = "connected"
                   THEN [told EXCEPT ![f] = IF f = "status" THEN cache["status"] ELSE value[t]]
                   ELSE told
    BY <1>9 DEF Send, Tell
  <2>2. DOMAIN value' = Threads /\ DOMAIN told' = Fields
    BY <1>5, <2>1
  <2>3. ~raced => cache[f] = new /\ value[t] = cache[f]
    BY <1>1, <2>1 DEF Decoded
  <2>4. ~raced /\ open /\ peer = "connected" => \A g \in Fields :
            \/ told'[g] = told[g] /\ (g # field[t] \/ pc[t] = "compare")
            \/ told'[g] \in {NULL, cache[g]}
    BY <1>1, <1>5, <2>1, <2>3
  <2>5. QED
    BY <1>1, <2>1, <2>2, <2>3, <2>4, AdvanceKeeps
<1>10. QED
  BY <1>6, <1>7, <1>8, <1>9 DEF RadioStep

\* A query that is begun changes nothing yet.
LEMMA QueryKeeps ==
    ASSUME ConnIInv, RadioInv, NEW q \in {"tech", "source"}, DispatchQuery(q)
    PROVE  RadioInv'
<1> USE DEF RadioInv
<1>1. /\ pc[Event] = "idle" /\ open
      /\ newState' = [newState EXCEPT ![Event] = radioState]
      /\ pc' = [pc EXCEPT ![Event] = "decode"] /\ field' = [field EXCEPT ![Event] = q]
      /\ raced' = (raced \/ \E u \in Threads \ {Event} : Busy(u))
      /\ UNCHANGED <<connVars, radioState, script, cache, value, told>>
  BY DEF DispatchQuery, Busy, Goto, NoteRace
<1>2. UNCHANGED <<open, peer, s_registerCalled>> /\ s_registerCalled
  BY <1>1, OpenRegistered DEF connVars, process, outside
<1>3. /\ Vendor \in Threads /\ Event \in Threads /\ Vendor # Event
      /\ \A u \in Threads : u = Vendor \/ u = Event
      /\ q \in Fields /\ NULL \notin Fields
  BY RadioAssumption DEF Threads, Fields
<1>4. ~raced' => ~raced /\ pc[Vendor] = "idle" /\ pc'[Vendor] = "idle"
  BY <1>1, <1>3 DEF Busy, RadioTypes
<1>5. RadioTypes'
  BY <1>1, <1>3 DEF RadioTypes, Doing
<1>6. /\ \A u \in Threads : Processing(u)' = Processing(u)
      /\ pc'[Vendor] = pc[Vendor] /\ pc'[Event] = "decode" /\ field'[Event] = q
      /\ field'[Vendor] = field[Vendor] /\ newState'[Vendor] = newState[Vendor]
      /\ newState'[Event] = radioState /\ ~Processing(Event) /\ ~Processing(Event)'
  BY <1>1, <1>3 DEF Processing, RadioTypes, Doing
<1>7. Doing'
  <2>1. field' \in [Threads -> Fields \cup {NULL}] /\ newState' \in [Threads -> RadioStates \cup {NULL}]
    BY <1>1, <1>3 DEF Doing, RadioTypes
  <2>2. QED
    BY <1>1, <1>2, <1>3, <1>4, <1>6, <2>1 DEF Doing, Busy
<1>8. Decoded'
  <2> SUFFICES ASSUME ~raced' PROVE Decoded'
    BY DEF Decoded
  <2>1. \A u \in Threads : ~Processing(u) /\ ~Processing(u)'
    BY <1>3, <1>4, <1>6 DEF Processing
  <2>2. QED
    BY <1>1, <1>2, <1>3, <1>4, <2>1 DEF Decoded
<1>9. Informed'
  <2>1. ~raced' => \A u \in Threads : pc[u] = "idle"
    BY <1>1, <1>3, <1>4
  <2>2. QED
    BY <1>1, <1>2, <1>4, <2>1 DEF Informed
<1>10. QED
  BY <1>5, <1>7, <1>8, <1>9

\* It decodes the state it was told into the global it asks for.
LEMMA DecodeKeeps ==
    ASSUME ConnIInv, RadioInv, DecodeQuery
    PROVE  RadioInv'
<1> USE DEF RadioInv
<1> DEFINE q == field[Event]
<1>1. /\ pc[Event] = "decode" /\ q \in {"tech", "source"} /\ q \in Fields
      /\ cache' = [cache EXCEPT ![q] = Decode(q, newState[Event])]
      /\ pc' = [pc EXCEPT ![Event] = "answer"]
      /\ UNCHANGED <<connVars, radioState, script, field, newState, value, told, raced>>
  BY DEF DecodeQuery, Goto, Doing, Fields
<1>2. UNCHANGED <<open, peer, s_registerCalled>>
  BY <1>1 DEF connVars, process, outside
<1>3. /\ Vendor \in Threads /\ Event \in Threads /\ Vendor # Event
      /\ \A u \in Threads : u = Vendor \/ u = Event
  BY RadioAssumption DEF Threads
<1>4. ~raced => /\ pc[Vendor] = "idle" /\ pc'[Vendor] = "idle"
                /\ radioState \in OldStates => newState[Event] = radioState
  BY <1>1, <1>3 DEF Doing, Busy, RadioTypes
<1>5. RadioTypes'
  <2>1. cache' \in [Fields -> Values]
    BY <1>1, <1>3, DecodingAny DEF RadioTypes
  <2>2. QED
    BY <1>1, <1>3, <2>1, RadioAssumption DEF RadioTypes
<1>6. /\ \A u \in Threads : Processing(u)' = Processing(u)
      /\ pc'[Vendor] = pc[Vendor] /\ pc'[Event] = "answer"
      /\ ~Processing(Event) /\ ~Processing(Event)'
  BY <1>1, <1>3 DEF Processing, RadioTypes
<1>7. Doing'
  BY <1>1, <1>2, <1>3, <1>6 DEF Doing, Busy
<1>8. Decoded'
  <2> SUFFICES ASSUME ~raced PROVE Decoded'
    BY <1>1 DEF Decoded
  <2>1. \A u \in Threads : ~Processing(u) /\ ~Processing(u)'
    BY <1>3, <1>4, <1>6 DEF Processing
  <2>2. open /\ radioState \in OldStates =>
            \A f \in Fields : Matter(f, radioState) => cache'[f] = Decode(f, radioState)
    BY <1>1, <1>3, <1>4, <2>1 DEF Decoded, RadioTypes
  <2>3. cache'[q] = Decode(q, newState[Event])
    BY <1>1 DEF RadioTypes
  <2>4. QED
    BY <1>1, <1>2, <1>3, <2>1, <2>2, <2>3 DEF Decoded
<1>9. Informed'
  <2> SUFFICES ASSUME ~raced, open, peer = "connected", NEW f \in Fields
               PROVE  \/ told[f] \in {NULL, cache'[f]}
                      \/ f # "status" /\ cache'[f] = Unknown
                      \/ \E u \in Threads : field'[u] = f /\ pc'[u] \in {"marshal", "send", "answer"}
    BY <1>1, <1>2 DEF Informed
  <2>1. CASE f = q
    BY <1>1, <1>3, <1>6, <2>1
  <2>2. CASE f # q
    <3>1. cache'[f] = cache[f]
      BY <1>1, <2>2 DEF RadioTypes
    <3>2. \A u \in Threads : pc[u] \in {"marshal", "send", "answer"} => FALSE
      BY <1>1, <1>3, <1>4
    <3>3. QED
      BY <3>1, <3>2 DEF Informed
  <2>3. QED
    BY <2>1, <2>2
<1>10. QED
  BY <1>5, <1>7, <1>8, <1>9

\* Its answer is the global as it is, if the state was an old one.
LEMMA AnswerKeeps ==
    ASSUME ConnIInv, RadioInv, AnswerQuery
    PROVE  RadioInv'
<1> USE DEF RadioInv
<1> DEFINE q == field[Event]
<1>1. /\ pc[Event] = "answer" /\ q \in {"tech", "source"} /\ q \in Fields
      /\ told' = IF newState[Event] \in OldStates /\ cache[q] # Unknown
                    /\ open /\ peer = "connected"
                 THEN [told EXCEPT ![q] = cache[q]] ELSE told
      /\ pc' = [pc EXCEPT ![Event] = "idle"] /\ field' = [field EXCEPT ![Event] = NULL]
      /\ newState' = [newState EXCEPT ![Event] = NULL]
      /\ UNCHANGED <<connVars, radioState, script, cache, value, raced>>
  BY DEF AnswerQuery, Reply, Goto, Tell, Doing, Fields
<1>2. UNCHANGED <<open, peer, s_registerCalled>>
  BY <1>1 DEF connVars, process, outside
<1>3. /\ Vendor \in Threads /\ Event \in Threads /\ Vendor # Event
      /\ \A u \in Threads : u = Vendor \/ u = Event
  BY RadioAssumption DEF Threads
<1>4. RadioTypes'
  BY <1>1, <1>3 DEF RadioTypes, Doing
<1>5. /\ \A u \in Threads : Processing(u)' = Processing(u)
      /\ pc'[Vendor] = pc[Vendor] /\ pc'[Event] = "idle" /\ field'[Vendor] = field[Vendor]
      /\ newState'[Vendor] = newState[Vendor]
      /\ ~Processing(Event) /\ ~Processing(Event)'
  BY <1>1, <1>3 DEF Processing, RadioTypes, Doing
<1>6. Doing'
  <2>1. field' \in [Threads -> Fields \cup {NULL}] /\ DOMAIN told' = Fields
        /\ newState' \in [Threads -> RadioStates \cup {NULL}]
    BY <1>1, <1>3 DEF Doing
  <2>2. QED
    BY <1>1, <1>2, <1>3, <1>5, <2>1 DEF Doing, Busy
<1>7. Decoded'
  <2>1. \A u \in Threads : Processing(u) => u = Vendor /\ Compared(u)' = Compared(u)
    BY <1>3, <1>5 DEF Compared
  <2>2. QED
    BY <1>1, <1>2, <1>3, <1>5, <2>1 DEF Decoded
<1>8. Informed'
  <2> SUFFICES ASSUME ~raced, open, peer = "connected", NEW f \in Fields
               PROVE  \/ told'[f] \in {NULL, cache[f]}
                      \/ f # "status" /\ cache[f] = Unknown
                      \/ \E u \in Threads : field'[u] = f /\ pc'[u] \in {"marshal", "send", "answer"}
    BY <1>1, <1>2 DEF Informed
  <2>1. CASE f = q
    <3>1. newState[Event] \notin OldStates => Decode(q, newState[Event]) = Unknown
      BY <1>1 DEF OldStates, Decode, decodeVoiceRadioTechnology, decodeCdmaSubscriptionSource
    <3>2. f # "status" /\ cache[q] = Decode(q, newState[Event])
      BY <1>1, <2>1 DEF Decoded
    <3>3. QED
      BY <1>1, <2>1, <3>1, <3>2 DEF Doing
  <2>2. CASE f # q
    <3>1. told'[f] = told[f]
      BY <1>1, <2>2 DEF Doing
    <3>2. \A u \in Threads : field[u] = f => field'[u] = f /\ pc'[u] = pc[u]
      BY <1>3, <1>5, <2>2
    <3>3. QED
      BY <3>1, <3>2 DEF Informed
  <2>3. QED
    BY <2>1, <2>2
<1>9. QED
  BY <1>4, <1>6, <1>7, <1>8

\* A new framework knows nothing, and is told what the present state says.
LEMMA GreetKeeps ==
    ASSUME ConnIInv, RadioInv, Greet
    PROVE  RadioInv'
<1> USE DEF RadioInv
<1>1. /\ pc[Event] = "idle" /\ field[Event] = NULL
      /\ told' = [f \in Fields |-> NULL] /\ s_registerCalled /\ s_registerCalled'
      /\ UNCHANGED <<radioState, script, cache, value>>
  <2>1. Event \in Threads /\ pending # <<>> /\ s_registerCalled' = s_registerCalled
    BY DEF Threads, Greet, AcceptPhone, Running
  <2>2. QED
    BY <2>1, OpenRegistered DEF Greet, Busy, RadioTypes
<1>2. /\ Vendor \in Threads /\ Event \in Threads /\ Vendor # Event
      /\ \A u \in Threads : u = Vendor \/ u = Event
      /\ "tech" \in Fields /\ NULL \notin Fields
  BY RadioAssumption DEF Threads, Fields
<1>3. Informed'
  BY <1>1 DEF Informed
<1>4. CASE radioState \in OldStates
  <2>1. /\ pc' = [pc EXCEPT ![Event] = "compare"]
        /\ field' = [field EXCEPT ![Event] = "tech"]
        /\ newState' = [newState EXCEPT ![Event] = radioState]
        /\ ~raced' => ~raced /\ \A u \in Threads \ {Event} : ~Busy(u)
    BY <1>2, <1>4, Turns DEF Greet
  <2>2. RadioTypes'
    BY <1>1, <1>2, <1>4, <2>1 DEF RadioTypes, Doing
  <2>3. /\ ~raced' => pc'[Vendor] = "idle" /\ ~raced
        /\ pc'[Vendor] = pc[Vendor] /\ newState'[Vendor] = newState[Vendor]
        /\ pc'[Event] = "compare" /\ newState'[Event] = radioState /\ field'[Event] = "tech"
    BY <1>2, <2>1 DEF Busy, RadioTypes, Doing
  <2>4. Doing'
    <3>1. /\ field' \in [Threads -> Fields \cup {NULL}]
          /\ newState' \in [Threads -> RadioStates \cup {NULL}] /\ DOMAIN told' = Fields
      BY <1>1, <1>2, <1>4, <2>1 DEF Doing, RadioStates
    <3>2. QED
      BY <1>1, <1>2, <1>4, <2>3, <3>1 DEF Doing, Busy, Processing
  <2>5. Decoded'
    BY <1>1, <1>2, <2>3 DEF Decoded, Processing, Compared
  <2>6. QED
    BY <1>3, <2>2, <2>4, <2>5
<1>5. CASE radioState \notin OldStates
  <2>1. UNCHANGED <<pc, field, newState, raced>>
    BY <1>5 DEF Greet, ProcessRadioState
  <2>2. RadioTypes'
    BY <1>1, <2>1 DEF RadioTypes
  <2>3. Doing'
    BY <1>1, <2>1 DEF Doing, Busy, Processing
  <2>4. Decoded'
    <3>1. \A u \in Threads : Processing(u)' = Processing(u) /\ Compared(u)' = Compared(u)
      BY <2>1 DEF Processing, Compared
    <3>2. QED
      BY <1>1, <1>2, <1>5, <2>1, <3>1 DEF Decoded
  <2>5. QED
    BY <1>3, <2>2, <2>3, <2>4
<1>6. QED
  BY <1>4, <1>5

-----------------------------------------------------------------------------
(* The inductive invariant                                                 *)

\* It holds at first: every script is a sequence of radio states.
LEMMA InitIInv == Init => IInv
<1> SUFFICES ASSUME Init PROVE IInv
  OBVIOUS
<1>1. ConnIInv
  <2>1. \A e : ~Has(pending, e)
    BY DEF Init, ConnInit, Fresh, Has
  <2>2. pending \in Seq(Events) /\ Once(pending)
    BY DEF Init, ConnInit, Fresh, Once
  <2>3. 0 \in 0..MaxFaults /\ 0 \in 0..MaxCloses
    BY ConnectionAssumption
  <2>4. QED
    BY <2>1, <2>2, <2>3
       DEF Init, ConnInit, Fresh, ConnIInv, ConnTypeOK, StartUp, Batch, ListensOrServes
<1>2. /\ "UNAVAILABLE" \in RadioStates /\ "UNAVAILABLE" \notin OldStates /\ Unknown \in Values
      /\ Vendor \in Threads /\ Event \in Threads /\ script \in Seq(RadioStates)
  BY RadioAssumption DEF RadioStates, OldStates, Sim, Ruim, Nv, Values, Threads, Init
<1>3. RadioTypeOK
  BY <1>1, <1>2 DEF Init, RadioTypeOK, ConnIInv
<1>4. Doing
  BY <1>2 DEF Init, Doing, Busy, Processing
<1>5. Decoded /\ Informed
  BY <1>2 DEF Init, Decoded, Informed, Processing
<1>6. QED
  BY <1>1, <1>3, <1>4, <1>5 DEF IInv

\* Every step keeps it.
LEMMA NextIInv == IInv /\ [Next]_vars => IInv'
<1> SUFFICES ASSUME IInv, [Next]_vars PROVE ConnIInv' /\ RadioInv'
  BY DEF IInv, RadioInv, RadioTypes, RadioTypeOK, ConnIInv
<1>1. ConnIInv /\ RadioInv
  BY DEF IInv, RadioInv, RadioTypes, RadioTypeOK
<1>2. CASE DaemonStep
  <2>1. MainStep \/ EventStep
    BY <1>2 DEF DaemonStep
  <2>2. ConnIInv'
    BY <1>1, <2>1, ConnNext DEF ConnStep
  <2>3. CASE main # "start" /\ main' = "start"
    BY <1>1, <1>2, <2>2, <2>3, RadioFresh DEF DaemonStep
  <2>4. CASE ~(main # "start" /\ main' = "start")
    <3>1. UNCHANGED radioVars
      BY <1>2, <2>4 DEF DaemonStep
    <3>2. s_registerCalled => s_registerCalled'
      BY <1>1, <2>1, <2>4, OpenRegistered, StaysRegistered
    <3>3. (open' => open) /\ (open' /\ peer' = "connected" => open /\ peer = "connected")
      BY <2>1, NoNewConnection
    <3>4. QED
      BY <1>1, <2>2, <3>1, <3>2, <3>3, RadioStays
  <2>5. QED
    BY <2>3, <2>4
<1>3. CASE Greet
  <2>1. ConnIInv'
    BY <1>1, <1>3, ConnNext DEF Greet, ConnStep
  <2>2. QED
    BY <1>1, <1>3, <2>1, GreetKeeps
<1>4. CASE DebugStep \/ (Environment /\ UNCHANGED radioVars)
  <2>1. (DebugRequest \/ DebugPowerOff \/ Environment) /\ UNCHANGED radioVars
    BY <1>4 DEF DebugStep
  <2>2. ConnIInv'
    BY <1>1, <2>1, ConnNext DEF ConnStep
  <2>3. s_registerCalled => s_registerCalled'
    BY <2>1 DEF DebugRequest, DebugPowerOff, Environment, FrameworkConnects, FrameworkCloses,
                OtherConnects, DebuggerConnects, process
  <2>4. (open' => open) /\ (open' /\ peer' = "connected" => open /\ peer = "connected")
    BY <2>1, NoNewConnection
  <2>5. QED
    BY <1>1, <2>1, <2>2, <2>3, <2>4, RadioStays
<1>5. CASE RadioChanges
  <2>1. UNCHANGED connVars
    BY <1>5 DEF RadioChanges
  <2>2. QED
    BY <1>1, <1>5, <2>1, ConnNext, ChangeKeeps
<1>6. ASSUME NEW t \in Threads, RadioStep(t) PROVE ConnIInv' /\ RadioInv'
  <2>1. UNCHANGED connVars
    BY <1>6 DEF RadioStep, CompareAndStore, Marshal, Send
  <2>2. QED
    BY <1>1, <1>6, <2>1, ConnNext, StepKeeps
<1>7. ASSUME NEW q \in {"tech", "source"}, DispatchQuery(q) PROVE ConnIInv' /\ RadioInv'
  <2>1. UNCHANGED connVars
    BY <1>7 DEF DispatchQuery
  <2>2. QED
    BY <1>1, <1>7, <2>1, ConnNext, QueryKeeps
<1>8. CASE AnswerQuery
  <2>1. UNCHANGED connVars
    BY <1>8 DEF AnswerQuery
  <2>2. QED
    BY <1>1, <1>8, <2>1, ConnNext, AnswerKeeps
<1>9. CASE DecodeQuery
  <2>1. UNCHANGED connVars
    BY <1>9 DEF DecodeQuery
  <2>2. QED
    BY <1>1, <1>9, <2>1, ConnNext, DecodeKeeps
<1>10. CASE UNCHANGED vars
  <2>1. UNCHANGED connVars /\ UNCHANGED radioVars
    BY <1>10 DEF vars
  <2>2. UNCHANGED <<open, peer, s_registerCalled>>
    BY <2>1 DEF connVars, process, outside
  <2>3. QED
    BY <1>1, <2>1, <2>2, ConnNext, RadioStays
<1>11. QED
  BY <1>2, <1>3, <1>4, <1>5, <1>6, <1>7, <1>8, <1>9, <1>10 DEF Next

\* IInv holds in every reachable state.
THEOREM Invariance == Spec => []IInv
<1>1. QED
  BY InitIInv, NextIInv, PTL DEF Spec

\* The daemon, the radio state and the three globals that are decoded from it keep their
\* types, whatever states the vendor RIL goes through.
THEOREM RadioTypeCorrect == Spec => []RadioTypeOK
<1>1. IInv => RadioTypeOK
  BY DEF IInv
<1>2. QED
  BY <1>1, Invariance, PTL

\* The order of start-up: nothing is added to the loop and no connection accepted before
\* RIL_register, nor RIL_register called before ril_event_init has run, through failures of
\* pthread_create and spurious wake-ups.
THEOREM ComesUpInOrder == Spec => []StartedInOrder
<1>1. IInv => StartedInOrder
  BY DEF IInv, ConnIInv, StartUp, StartedInOrder
<1>2. QED
  BY <1>1, Invariance, PTL

\* The daemon listens or serves one connection, through any number of failures, of
\* visits to the debug port, of closed connections and of restarts.
THEOREM NeverDeaf == Spec => []ListensOrServes
<1>1. IInv => ListensOrServes
  BY DEF IInv, ConnIInv
<1>2. QED
  BY <1>1, Invariance, PTL

\* Once nothing is under way and no two threads were at it together, the globals say what
\* the radio's state says and the framework was told nothing else: for any script of
\* states, any queries and any connections in between.
THEOREM AgreesWithRadio == Spec => []RadioAgrees
<1>1. IInv => RadioAgrees
  <2> SUFFICES ASSUME IInv, ~Busy(Vendor), ~Busy(Event), ~raced, open, peer = "connected",
                      radioState \in OldStates, NEW f \in Fields,
                      f = "source" => is3gpp2(Decode("tech", radioState))
               PROVE  cache[f] = Decode(f, radioState) /\ told[f] \in {NULL, cache[f]}
    BY DEF RadioAgrees
  <2>1. \A t \in Threads : pc[t] = "idle"
    BY DEF Threads, Busy
  <2>2. cache[f] = Decode(f, radioState)
    BY <2>1 DEF IInv, Decoded, Processing, Matter, Busy
  <2>3. f \in {"tech", "source"} => cache[f] # Unknown
    BY <2>2, Decoding
  <2>4. f # "status" => f \in {"tech", "source"}
    BY DEF Fields
  <2>5. told[f] \in {NULL, cache[f]}
    BY <2>1, <2>3, <2>4 DEF IInv, Informed
  <2>6. QED
    BY <2>2, <2>5
<1>2. QED
  BY <1>1, Invariance, PTL

=============================================================================
