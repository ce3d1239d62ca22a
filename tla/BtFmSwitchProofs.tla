-------------------------- MODULE BtFmSwitchProofs --------------------------
(***************************************************************************)
(* Proofs about the Bluetooth and FM switch, for any number of callers,    *)
(* calls, failures and crashes.  IInv of BtFmSwitch is the inductive       *)
(* invariant; the theorems at the end are what its run checks of safety.   *)
(***************************************************************************)
EXTENDS BtFmSwitch, TLAPS

-----------------------------------------------------------------------------
(* The four handlers                                                       *)

\* What a case c of the handler of state h promises the daemons and the state.
CaseFacts(h, a, c) ==
    /\ c.next \in States
    /\ h = "BTON_FMON" /\ a = "BT_OFF" => c.next = "BTOFF_FMON"
    /\ c.daemons # NULL => c.daemons \in {"start", "stop"}
    /\ c.ctl \in {"BTLD_SIG", "BTLD_CTRL", "BTLD_SIG_NO_SW", "BTLD_CTRL_NO_SW", NULL}
    /\ c.daemons = NULL \/ Ignored(c.ctl) =>
          Needed(c.next) = Needed(h) /\ (soft => BtOn(c.next) = BtOn(h))
    /\ c.daemons # NULL /\ ~Ignored(c.ctl) => (Signals(c.ctl) <=> soft)
    /\ c.daemons = "start" /\ ~Ignored(c.ctl) =>
          /\ Needed(c.next) = Daemons
          /\ soft => BtOn(c.next) = TRUE /\ c.before = TRUE
    /\ c.daemons = "stop" /\ ~Ignored(c.ctl) =>
          /\ Needed(c.next) = IF soft THEN {"btld"} ELSE {}
          /\ soft => BtOn(c.next) = FALSE /\ c.before = FALSE
    /\ BtOn(c.next) # BtOn(h) => a = IF BtOn(c.next) THEN "BT_ON" ELSE "BT_OFF"
    /\ FmOn(c.next) # FmOn(h) => a = IF FmOn(c.next) THEN "FM_ON" ELSE "FM_OFF"

\* Every case of every handler keeps those promises, with and without soft on/off.
LEMMA Cases ==
    ASSUME soft \in BOOLEAN, NEW h \in States, NEW a, BT_FM_state_handling(h, a) # NULL
    PROVE  CaseFacts(h, a, BT_FM_state_handling(h, a))
<1> DEFINE c == BT_FM_state_handling(h, a)
<1> USE SwitchAssumption
<1> USE DEF Case, Control, Ignored, Signals, Needed, BtOn, FmOn, Daemons, States, CaseFacts
<1>1. CASE h = "BTOFF_FMOFF"
  <2>1. CASE a = "BT_ON"
    <3>1. c = Case(TRUE, "start", Control, NULL, "BTON_FMOFF")
      BY <1>1, <2>1 DEF BT_FM_state_handling, BTOFF_FMOFF_handling
    <3>2. QED
      BY <1>1, <2>1, <3>1
  <2>2. CASE a = "FM_ON"
    <3>1. c = Case(FALSE, "start", "BTLD_CTRL_NO_SW", NULL, "BTOFF_FMON")
      BY <1>1, <2>2 DEF BT_FM_state_handling, BTOFF_FMOFF_handling
    <3>2. QED
      BY <1>1, <2>2, <3>1
  <2>3. QED
    BY <1>1, <2>1, <2>2 DEF BT_FM_state_handling, BTOFF_FMOFF_handling
<1>2. CASE h = "BTON_FMOFF"
  <2>1. CASE a = "BT_OFF"
    <3>1. c = Case(FALSE, "stop", Control, NULL, "BTOFF_FMOFF")
      BY <1>2, <2>1 DEF BT_FM_state_handling, BTON_FMOFF_handling
    <3>2. QED
      BY <1>2, <2>1, <3>1
  <2>2. CASE a = "FM_ON"
    <3>1. c = Case(NULL, NULL, NULL, NULL, "BTON_FMON")
      BY <1>2, <2>2 DEF BT_FM_state_handling, BTON_FMOFF_handling
    <3>2. QED
      BY <1>2, <2>2, <3>1
  <2>3. QED
    BY <1>2, <2>1, <2>2 DEF BT_FM_state_handling, BTON_FMOFF_handling
<1>3. CASE h = "BTOFF_FMON"
  <2>1. CASE a = "BT_ON"
    <3>1. c = Case(TRUE, "start", "BTLD_SIG_NO_SW", NULL, "BTON_FMON")
      BY <1>3, <2>1 DEF BT_FM_state_handling, BTOFF_FMON_handling
    <3>2. QED
      BY <1>3, <2>1, <3>1
  <2>2. CASE a = "FM_OFF"
    <3>1. c = Case(NULL, "stop", "BTLD_CTRL_NO_SW", FALSE, "BTOFF_FMOFF")
      BY <1>3, <2>2 DEF BT_FM_state_handling, BTOFF_FMON_handling
    <3>2. QED
      BY <1>3, <2>2, <3>1
  <2>3. QED
    BY <1>3, <2>1, <2>2 DEF BT_FM_state_handling, BTOFF_FMON_handling
<1>4. CASE h = "BTON_FMON"
  <2>1. CASE a = "BT_OFF"
    <3>1. c = Case(FALSE, "stop", "BTLD_SIG_NO_SW", NULL, "BTOFF_FMON")
      BY <1>4, <2>1 DEF BT_FM_state_handling, BTON_FMON_handling
    <3>2. CASE soft
      BY <1>4, <2>1, <3>1, <3>2
    <3>3. CASE ~soft
      BY <1>4, <2>1, <3>1, <3>3
    <3>4. QED
      BY <3>2, <3>3
  <2>2. CASE a = "FM_OFF"
    <3>1. c = Case(NULL, NULL, NULL, NULL, "BTON_FMOFF")
      BY <1>4, <2>2 DEF BT_FM_state_handling, BTON_FMON_handling
    <3>2. QED
      BY <1>4, <2>2, <3>1
  <2>3. QED
    BY <1>4, <2>1, <2>2 DEF BT_FM_state_handling, BTON_FMON_handling
<1>5. QED
  BY <1>1, <1>2, <1>3, <1>4

\* A caller stays in its case while neither its action nor its handler changes.
LEMMA SameCase ==
    ASSUME NEW t \in Callers, UNCHANGED soft, handler'[t] = handler[t], act'[t] = act[t]
    PROVE  CaseOf(t)' = CaseOf(t)
BY DEF CaseOf, BT_FM_state_handling, BTOFF_FMOFF_handling, BTON_FMOFF_handling,
       BTOFF_FMON_handling, BTON_FMON_handling, Case, Control

\* The facts of the case a caller inside a handler is in.
LEMMA CaseOfFacts ==
    ASSUME TypeOK, InCase, NEW t \in Callers, Inside(t), CaseOf(t) # NULL
    PROVE  CaseFacts(handler[t], act[t], CaseOf(t))
BY Cases DEF TypeOK, InCase, CaseOf

-----------------------------------------------------------------------------
(* Steps of the callers                                                    *)

\* A step of t is no other caller's.
OthersStay(t) ==
    \A u \in Callers \ {t} :
        /\ pc'[u] = pc[u] /\ act'[u] = act[u] /\ handler'[u] = handler[u] /\ ctl'[u] = ctl[u]
        /\ loop'[u] = loop[u] /\ seen'[u] = seen[u]

\* A step of t on its way to the mutex: nothing a handler works on is touched.
Outer(t) ==
    /\ ~Inside(t) /\ ~Inside(t)' /\ OthersStay(t)
    /\ pc'[t] \in {"flag", "set", "init", "lock"} => handler'[t] \in States
    /\ initRace => initRace'
    /\ locked /\ ~initRace' => locked'
    /\ UNCHANGED <<soft, bt_current_state, waits, system, incomplete, unawaited, stale>>

OuterStep(t) ==
    \/ \E a \in eBT_FM_STATE_ACTION : Call(t, a)
    \/ AccessMac(t) \/ CreateMac(t) \/ CopyMac(t) \/ ChownMac(t) \/ ReadMac(t)
    \/ PickHandler(t) \/ TestFlag(t) \/ SetFlag(t) \/ InitMutex(t)

\* A step of t inside the handler: it stays inside, in the same case.
Inner(t) ==
    /\ Inside(t) /\ Inside(t)' /\ OthersStay(t)
    /\ UNCHANGED <<soft, locked, act, handler, stale, initRace>>

\* A step of t in one of its waits: it may come to its end, and touches only the
\* property of a daemon that was stopped.
Waits == {"btld", "bluetoothd", "stopped"}

Wait(t) ==
    /\ pc[t] \in Waits
    /\ \/ pc' = pc
       \/ pc' = [pc EXCEPT ![t] = "state"]
       \/ pc[t] = "btld" /\ pc' = [pc EXCEPT ![t] = "startBluetoothd"]
    /\ \A u \in Callers \ {t} : loop'[u] = loop[u] /\ seen'[u] = seen[u]
    /\ active' \subseteq active /\ (pc[t] # "stopped" => active' = active)
    /\ ~incomplete' => ~incomplete
    /\ UNCHANGED <<soft, switch, act, handler, ctl, activation, told, proc, restart, macs,
                   stale, initRace>>

CountStep(t) == AssignCount(t) \/ LoadCount(t) \/ StoreCount(t)
StoppedStep(t) ==
    LookBluetoothd(t) \/ ClearBluetoothd(t) \/ LookBtld(t) \/ TestStop(t) \/ ClearLate(t)
WaitStep(t) == CountStep(t) \/ LookActive(t) \/ TestStart(t) \/ StoppedStep(t)

InnerStep(t) ==
    \/ Handle(t) \/ SetState(t)
    \/ StartBtld(t) \/ StartBluetoothd(t) \/ StopBluetoothd(t) \/ StopBtld(t)
    \/ WaitStep(t)

\* The steps of the three waits.
LEMMA WaitFrame ==
    ASSUME TypeOK, NEW t \in Callers, WaitStep(t)
    PROVE  Wait(t)
<1> USE DEF TypeOK, Goto, Wait, Waits, Waiting, Starting, Stopping, Turn, Begin, End
<1>1. CASE CountStep(t)
  BY <1>1 DEF CountStep, AssignCount, LoadCount, StoreCount, system, marks
<1>2. CASE LookActive(t)
  BY <1>2 DEF LookActive, system, marks
<1>3. CASE TestStart(t)
  BY <1>3 DEF TestStart, GiveUp, system
<1>4. CASE StoppedStep(t)
  <2>1. CASE LookBluetoothd(t) \/ LookBtld(t)
    BY <2>1 DEF LookBluetoothd, LookBtld, system, marks
  <2>2. CASE ClearBluetoothd(t)
    BY <2>2 DEF ClearBluetoothd, marks
  <2>3. CASE TestStop(t)
    BY <2>3 DEF TestStop, system
  <2>4. CASE ClearLate(t)
    BY <2>4 DEF ClearLate
  <2>5. QED
    BY <1>4, <2>1, <2>2, <2>3, <2>4 DEF StoppedStep
<1>5. QED
  BY <1>1, <1>2, <1>3, <1>4 DEF WaitStep

\* Waiting for a daemon that was started: the wait is left for the next step only if
\* the daemon was seen active, or the count was somebody else's.
StartWait(t) ==
    /\ UNCHANGED <<active, unawaited>>
    /\ pc' = pc /\ loop'[t] = "test" => retry_cnt' = 0 \/ pc[t] \in active
    /\ pc' # pc /\ ~incomplete' =>
          /\ loop[t] = "test" /\ retry_cnt # 0
          /\ pc'[t] = IF pc[t] = "btld" THEN "startBluetoothd" ELSE "state"

LEMMA StartFrame ==
    ASSUME TypeOK, NEW t \in Callers, WaitStep(t), pc[t] # "stopped"
    PROVE  StartWait(t)
<1> USE DEF TypeOK, StartWait, Waiting, Starting, Stopping, Turn, Begin, End
<1>1. CASE CountStep(t)
  BY <1>1 DEF CountStep, AssignCount, LoadCount, StoreCount, system, marks
<1>2. CASE LookActive(t)
  BY <1>2 DEF LookActive, system, marks
<1>3. CASE TestStart(t)
  BY <1>3 DEF TestStart, GiveUp, Goto, system
<1>4. QED
  BY <1>1, <1>2, <1>3 DEF WaitStep, StoppedStep, LookBluetoothd, ClearBluetoothd, LookBtld,
                          TestStop, ClearLate

\* Waiting for daemons to die: what is newly seen dead is not active any more, and
\* what is active in the end was seen dead, or was not waited for.
StopWait(t) ==
    /\ pc'[t] = "stopped" =>
          /\ seen[t] \subseteq seen'[t] /\ \A d \in seen'[t] \ seen[t] : d \notin active'
          /\ loop'[t] = "late" => seen'[t] # Daemons
    /\ pc'[t] = "state" /\ ~unawaited' => active' \subseteq seen[t]
    /\ (loop[t] = "late" => seen[t] # Daemons) /\ "btld" \in seen[t] =>
          ("btld" \in active => "btld" \in active')

LEMMA StopFrame ==
    ASSUME TypeOK, NEW t \in Callers, WaitStep(t), pc[t] = "stopped"
    PROVE  StopWait(t)
<1> USE DEF TypeOK, StopWait, Waiting, Starting, Stopping, Turn, Begin, End, Goto
<1>1. CASE CountStep(t)
  BY <1>1 DEF CountStep, AssignCount, LoadCount, StoreCount, system
<1>2. CASE LookBluetoothd(t) \/ LookBtld(t)
  BY <1>2 DEF LookBluetoothd, LookBtld, system
<1>3. CASE ClearBluetoothd(t)
  BY <1>3 DEF ClearBluetoothd
<1>4. CASE TestStop(t)
  BY <1>4 DEF TestStop, system
<1>5. CASE ClearLate(t)
  <2> DEFINE d == IF "bluetoothd" \in seen[t] THEN "btld" ELSE "bluetoothd"
  <2>1. active' = active \ {d} /\ d \in Daemons
    BY <1>5 DEF ClearLate, Daemons
  <2>2. \/ /\ seen[t] \cup {d} = Daemons /\ pc'[t] = "state"
        \/ /\ seen[t] \cup {d} # Daemons /\ pc'[t] = "stopped" /\ seen'[t] = seen[t] \cup {d}
    BY <1>5 DEF ClearLate
  <2>3. loop[t] = "late" /\ (seen[t] # Daemons /\ "btld" \in seen[t] => d # "btld")
    BY <1>5 DEF ClearLate, Daemons
  <2>4. QED
    BY <2>1, <2>2, <2>3
<1>6. QED
  BY <1>1, <1>2, <1>3, <1>4, <1>5 DEF WaitStep, StoppedStep, LookActive, TestStart

\* Every step keeps the shape of the variables.
LEMMA TypeStep == TypeOK /\ InCase /\ Next => TypeOK'
<1> SUFFICES ASSUME TypeOK, InCase, Next PROVE TypeOK'
  OBVIOUS
<1> USE DEF TypeOK, Goto, Before, Starts, Stops
<1>1. ASSUME NEW t \in Callers, OuterStep(t) PROVE TypeOK'
  BY <1>1 DEF OuterStep, Call, AccessMac, CreateMac, CopyMac, ChownMac, ReadMac, PickHandler,
              TestFlag, SetFlag, InitMutex, switch, waits, system, marks
<1>2. ASSUME NEW t \in Callers, LockMutex(t) \/ UnlockMutex(t) PROVE TypeOK'
  BY <1>2 DEF LockMutex, UnlockMutex, waits, system
<1>3. ASSUME NEW t \in Callers, Handle(t) PROVE TypeOK'
  <2>1. Inside(t) /\ (CaseOf(t) # NULL => CaseFacts(handler[t], act[t], CaseOf(t)))
    BY <1>3, CaseOfFacts DEF Handle, Inside
  <2>2. CASE CaseOf(t) = NULL
    BY <1>3, <2>2 DEF Handle, CaseOf, waits
  <2>3. CASE CaseOf(t) # NULL
    <3>1. /\ CaseOf(t).next \in States
          /\ CaseOf(t).ctl \in {"BTLD_SIG", "BTLD_CTRL", "BTLD_SIG_NO_SW", "BTLD_CTRL_NO_SW", NULL}
          /\ CaseOf(t).daemons # NULL => CaseOf(t).daemons \in {"start", "stop"}
      BY <2>1, <2>3 DEF CaseFacts
    <3>2. bt_current_state' \in States
      BY <1>3, <2>3, <3>1 DEF Handle, CaseOf
    <3>3. ctl' \in [Callers -> {"BTLD_SIG", "BTLD_CTRL", "BTLD_SIG_NO_SW", "BTLD_CTRL_NO_SW", NULL}]
      BY <1>3, <2>3, <3>1 DEF Handle, CaseOf
    <3>4. \/ pc' = [pc EXCEPT ![t] = "state"]
          \/ pc' = [pc EXCEPT ![t] = CaseOf(t).daemons] /\ CaseOf(t).daemons # NULL
      BY <1>3, <2>3 DEF Handle, CaseOf
    <3>5. UNCHANGED <<soft, act, handler, retry_cnt, loop, left, seen, proc, restart, active>>
      BY <1>3 DEF Handle, waits
    <3>6. QED
      BY <3>1, <3>2, <3>3, <3>4, <3>5
  <2>4. QED
    BY <2>2, <2>3
<1>4. ASSUME NEW t \in Callers, SetState(t) PROVE TypeOK'
  <2>1. CaseFacts(handler[t], act[t], CaseOf(t))
    BY <1>4, CaseOfFacts DEF SetState, Inside, InCase
  <2>2. bt_current_state' \in States
    BY <1>4, <2>1 DEF SetState, CaseFacts, CaseOf
  <2>3. QED
    BY <1>4, <2>2 DEF SetState, waits
<1>5. ASSUME NEW t \in Callers, StartBtld(t) \/ StartBluetoothd(t) PROVE TypeOK'
  <2>1. ASSUME NEW d \in Daemons, CtlStart(d)
        PROVE /\ proc' \in [Daemons -> {"down", "starting", "up", "dying"}]
              /\ restart' \subseteq Daemons
    BY <2>1 DEF CtlStart
  <2>2. "btld" \in Daemons /\ "bluetoothd" \in Daemons
    BY DEF Daemons
  <2>3. CASE StartBtld(t)
    BY <2>1, <2>2, <2>3 DEF StartBtld, GiveUp, Begin, switch, waits
  <2>4. CASE StartBluetoothd(t)
    BY <2>1, <2>2, <2>4 DEF StartBluetoothd, GiveUp, Begin, switch, waits
  <2>5. QED
    BY <1>5, <2>3, <2>4
<1>6. ASSUME NEW t \in Callers, StopBluetoothd(t) \/ StopBtld(t) PROVE TypeOK'
  <2>1. ASSUME NEW d \in Daemons, CtlStop(d)
        PROVE /\ proc' \in [Daemons -> {"down", "starting", "up", "dying"}]
              /\ restart' \subseteq Daemons
    BY <2>1 DEF CtlStop
  <2>2. "btld" \in Daemons /\ "bluetoothd" \in Daemons
    BY DEF Daemons
  <2>3. CASE StopBluetoothd(t)
    BY <2>1, <2>2, <2>3 DEF StopBluetoothd, GiveUp, switch, waits
  <2>4. CASE StopBtld(t)
    BY <2>1, <2>2, <2>4 DEF StopBtld, GiveUp, Begin, switch, waits
  <2>5. QED
    BY <1>6, <2>3, <2>4
<1>7. ASSUME NEW t \in Callers, WaitStep(t) PROVE TypeOK'
  <2>1. Wait(t)
    BY <1>7, WaitFrame
  <2>2. /\ pc' \in [Callers -> Before \cup Starts \cup Stops \cup {"handle", "state", "unlock"}]
        /\ active' \subseteq Daemons
        /\ UNCHANGED <<soft, bt_current_state, act, handler, ctl, proc, restart>>
    BY <2>1 DEF Wait, switch
  <2>3. /\ retry_cnt' \in Int /\ left' \in [Callers -> Int]
        /\ seen' \in [Callers -> SUBSET Daemons]
        /\ loop' \in [Callers -> {"assign", "load", "store", "look", "clear", "lookBtld", "test",
                                 "late", NULL}]
    <3> USE DEF Turn, Begin, End
    <3>1. CASE CountStep(t)
      <4>1. \A n \in Int : Decremented(n) \in Int
        BY DEF Decremented
      <4>2. CASE AssignCount(t)
        BY <4>2, SwitchAssumption DEF AssignCount
      <4>3. CASE LoadCount(t)
        BY <4>3 DEF LoadCount
      <4>4. CASE StoreCount(t)
        BY <4>1, <4>4 DEF StoreCount
      <4>5. QED
        BY <3>1, <4>2, <4>3, <4>4 DEF CountStep
    <3>2. CASE LookActive(t) \/ TestStart(t)
      BY <3>2 DEF LookActive, TestStart
    <3>3. "btld" \in Daemons /\ "bluetoothd" \in Daemons
      BY DEF Daemons
    <3>4. CASE LookBluetoothd(t) \/ ClearBluetoothd(t)
      BY <3>3, <3>4 DEF LookBluetoothd, ClearBluetoothd
    <3>5. CASE LookBtld(t)
      BY <3>3, <3>5 DEF LookBtld
    <3>6. CASE TestStop(t)
      BY <3>6 DEF TestStop
    <3>7. CASE ClearLate(t)
      BY <3>3, <3>7 DEF ClearLate
    <3>8. QED
      BY <1>7, <3>1, <3>2, <3>4, <3>5, <3>6, <3>7 DEF WaitStep, StoppedStep
  <2>4. QED
    BY <2>2, <2>3
<1>8. CASE DaemonStep \/ Crash
  <2>1. CASE Crash
    BY <2>1 DEF Crash, system, States
  <2>2. ASSUME NEW d \in Daemons, DaemonReady(d) \/ DaemonDies(d) PROVE TypeOK'
    BY <2>2 DEF DaemonReady, DaemonDies, switch, caller, waits
  <2>3. QED
    BY <1>8, <2>1, <2>2 DEF DaemonStep
<1>9. QED
  BY <1>1, <1>2, <1>3, <1>4, <1>5, <1>6, <1>7, <1>8
     DEF Next, CallerStep, OuterStep, WaitStep, CountStep, StoppedStep

\* What a caller does before it has the mutex.
LEMMA OuterFrame ==
    ASSUME TypeOK, InCase, NEW t \in Callers, OuterStep(t)
    PROVE  Outer(t)
<1> USE DEF TypeOK, Goto, Outer, OthersStay, Inside
<1>1. CASE \E a \in eBT_FM_STATE_ACTION : Call(t, a)
  BY <1>1 DEF Call, switch, waits, marks
<1>2. CASE AccessMac(t) \/ CreateMac(t) \/ CopyMac(t) \/ ChownMac(t) \/ ReadMac(t)
  BY <1>2 DEF AccessMac, CreateMac, CopyMac, ChownMac, ReadMac, switch, waits, marks
<1>3. CASE PickHandler(t)
  BY <1>3 DEF PickHandler, switch, waits, marks
<1>4. CASE TestFlag(t) \/ SetFlag(t) \/ InitMutex(t)
  <2>1. /\ pc[t] \in {"flag", "set", "init"} /\ pc'[t] \in {"set", "init", "lock"}
        /\ handler'[t] \in States
    BY <1>4 DEF TestFlag, SetFlag, InitMutex, InCase
  <2>2. initRace => initRace'
    BY <1>4 DEF TestFlag, SetFlag, InitMutex, marks
  <2>3. locked /\ ~initRace' => locked'
    BY <1>4 DEF TestFlag, SetFlag, InitMutex, switch
  <2>4. QED
    BY <1>4, <2>1, <2>2, <2>3 DEF TestFlag, SetFlag, InitMutex, switch, waits, marks
<1>5. QED
  BY <1>1, <1>2, <1>3, <1>4 DEF OuterStep

\* What a caller does between the mutex and its release.
LEMMA InnerFrame ==
    ASSUME TypeOK, InCase, NEW t \in Callers, InnerStep(t)
    PROVE  Inner(t)
<1> USE DEF TypeOK, Goto, Inner, OthersStay, Inside
<1>1. CASE Handle(t)
  <2>1. (CaseOf(t) # NULL /\ CaseOf(t).daemons # NULL) => CaseOf(t).daemons \in {"start", "stop"}
    BY <1>1, CaseOfFacts DEF Handle, CaseFacts
  <2>2. pc' = [pc EXCEPT ![t] = "unlock"] \/ pc' = [pc EXCEPT ![t] = "state"]
        \/ pc' = [pc EXCEPT ![t] = "start"] \/ pc' = [pc EXCEPT ![t] = "stop"]
    BY <1>1, <2>1 DEF Handle, CaseOf
  <2>3. /\ \A u \in Callers \ {t} : ctl'[u] = ctl[u]
        /\ UNCHANGED <<loop, seen>>
    BY <1>1 DEF Handle, waits
  <2>4. pc[t] = "handle" /\ UNCHANGED <<soft, locked, act, handler, stale, initRace>>
    BY <1>1 DEF Handle
  <2>5. QED
    BY <2>2, <2>3, <2>4
<1>2. CASE SetState(t)
  BY <1>2 DEF SetState, waits, marks
<1>3. CASE StartBtld(t) \/ StartBluetoothd(t)
  BY <1>3 DEF StartBtld, StartBluetoothd, GiveUp, Begin, switch, waits
<1>4. CASE StopBluetoothd(t) \/ StopBtld(t)
  BY <1>4 DEF StopBluetoothd, StopBtld, GiveUp, Begin, switch, waits
<1>5. CASE WaitStep(t)
  BY <1>5, WaitFrame DEF Wait, Waits, switch
<1>6. QED
  BY <1>1, <1>2, <1>3, <1>4, <1>5 DEF InnerStep

-----------------------------------------------------------------------------
(* Who is inside, and in which case                                        *)

\* The mutex admits one caller, unless it was made anew while it was locked.
LEMMA ExclusiveStep == IInv /\ Next => Exclusive'
<1> SUFFICES ASSUME IInv, Next PROVE Exclusive'
  OBVIOUS
<1> USE DEF IInv
<1>1. ASSUME NEW t \in Callers, OuterStep(t) PROVE Exclusive'
  <2>1. Outer(t)
    BY <1>1, OuterFrame
  <2>2. \A u \in Callers : Inside(u)' <=> Inside(u)
    BY <2>1 DEF Outer, OthersStay, Inside
  <2>3. QED
    BY <2>1, <2>2 DEF Outer, Exclusive
<1>2. ASSUME NEW t \in Callers, LockMutex(t) PROVE Exclusive'
  <2>1. \A u \in Callers \ {t} : Inside(u)' <=> Inside(u)
    BY <1>2 DEF LockMutex, Goto, Inside, TypeOK
  <2>2. ~locked /\ locked' = TRUE /\ initRace' = initRace
    BY <1>2 DEF LockMutex
  <2>3. QED
    BY <2>1, <2>2 DEF Exclusive
<1>3. ASSUME NEW t \in Callers, InnerStep(t) PROVE Exclusive'
  <2>1. Inner(t)
    BY <1>3, InnerFrame
  <2>2. \A u \in Callers : Inside(u)' <=> Inside(u)
    BY <2>1 DEF Inner, OthersStay, Inside
  <2>3. QED
    BY <2>1, <2>2 DEF Inner, Exclusive
<1>4. ASSUME NEW t \in Callers, UnlockMutex(t) PROVE Exclusive'
  <2>1. /\ Inside(t) /\ ~Inside(t)' /\ initRace' = initRace
        /\ \A u \in Callers \ {t} : Inside(u)' <=> Inside(u)
    BY <1>4 DEF UnlockMutex, Goto, Inside, TypeOK, marks
  <2>2. QED
    BY <2>1 DEF Exclusive
<1>5. CASE DaemonStep
  BY <1>5 DEF DaemonStep, DaemonReady, DaemonDies, switch, caller, marks, Exclusive, Inside
<1>6. CASE Crash
  <2>1. \A u \in Callers : ~Inside(u)'
    BY <1>6 DEF Crash, Inside
  <2>2. QED
    BY <2>1 DEF Exclusive
<1>7. QED
  BY <1>1, <1>2, <1>3, <1>4, <1>5, <1>6 DEF Next, CallerStep, OuterStep, InnerStep, WaitStep, CountStep, StoppedStep

\* InCase of one caller.
InItsCase(t) ==
    /\ pc[t] \in {"flag", "set", "init", "lock"} \/ Inside(t) => handler[t] \in States
    /\ Inside(t) /\ pc[t] \notin {"handle", "unlock"} => CaseOf(t) # NULL
    /\ pc[t] \in Starts \cup Stops =>
          /\ CaseOf(t).daemons = IF pc[t] \in Starts THEN "start" ELSE "stop"
          /\ ctl[t] = CaseOf(t).ctl /\ ~Ignored(ctl[t])

\* It stays true of a caller that does not move.
LEMMA CaseStays ==
    ASSUME NEW t \in Callers, InItsCase(t), UNCHANGED soft, pc'[t] = pc[t],
           handler'[t] = handler[t], act'[t] = act[t], ctl'[t] = ctl[t]
    PROVE  InItsCase(t)'
<1>1. CaseOf(t)' = CaseOf(t) /\ (Inside(t)' <=> Inside(t)) /\ (Ignored(ctl[t])' <=> Ignored(ctl[t]))
  BY SameCase DEF Inside, Ignored
<1>2. QED
  BY <1>1 DEF InItsCase

\* A caller inside a handler is in a case of it, and the daemons are started or
\* stopped as the case says.
LEMMA InCaseStep == IInv /\ Next => InCase'
<1> SUFFICES ASSUME IInv, Next PROVE InCase'
  OBVIOUS
<1> USE DEF IInv
<1>1. InCase <=> \A t \in Callers : InItsCase(t)
  BY DEF InCase, InItsCase
<1>2. InCase' <=> \A t \in Callers : InItsCase(t)'
  BY DEF InCase, InItsCase
<1>3. ASSUME NEW t \in Callers, OthersStay(t), UNCHANGED soft, InItsCase(t)' PROVE InCase'
  BY <1>1, <1>2, <1>3, CaseStays DEF OthersStay
<1>4. ASSUME NEW t \in Callers, OuterStep(t) PROVE InCase'
  <2>1. Outer(t)
    BY <1>4, OuterFrame
  <2>2. InItsCase(t)'
    BY <2>1 DEF Outer, InItsCase, Inside, Starts, Stops
  <2>3. QED
    BY <1>3, <2>1, <2>2 DEF Outer
<1>5. ASSUME NEW t \in Callers, LockMutex(t) \/ UnlockMutex(t) PROVE InCase'
  <2>1. OthersStay(t) /\ UNCHANGED soft
    BY <1>5 DEF LockMutex, UnlockMutex, OthersStay, Goto, TypeOK, waits
  <2>2. \/ pc'[t] = "handle" /\ handler'[t] \in States
        \/ pc'[t] = "idle"
    BY <1>5 DEF LockMutex, UnlockMutex, Goto, TypeOK, InCase
  <2>3. QED
    BY <1>3, <2>1, <2>2 DEF InItsCase, Inside, Starts, Stops
<1>6. ASSUME NEW t \in Callers, InnerStep(t) PROVE InCase'
  <2>1. Inner(t)
    BY <1>6, InnerFrame
  <2>2. CaseOf(t)' = CaseOf(t) /\ handler'[t] \in States
    BY <2>1, SameCase DEF Inner, InCase
  <2>3. CASE Handle(t)
    <3>1. CASE CaseOf(t) = NULL
      <4>1. pc'[t] = "unlock"
        BY <2>3, <3>1 DEF Handle, Goto, CaseOf, TypeOK
      <4>2. QED
        BY <1>3, <2>1, <2>2, <4>1 DEF Inner, InItsCase, Starts, Stops
    <3>2. CASE CaseOf(t) # NULL /\ (CaseOf(t).daemons = NULL \/ Ignored(CaseOf(t).ctl))
      <4>1. pc'[t] = "state"
        BY <2>3, <3>2 DEF Handle, Goto, CaseOf, TypeOK
      <4>2. QED
        BY <1>3, <2>1, <2>2, <3>2, <4>1 DEF Inner, InItsCase, Starts, Stops
    <3>3. CASE CaseOf(t) # NULL /\ CaseOf(t).daemons # NULL /\ ~Ignored(CaseOf(t).ctl)
      <4>1. pc'[t] = CaseOf(t).daemons /\ ctl'[t] = CaseOf(t).ctl
        BY <2>3, <3>3 DEF Handle, Goto, CaseOf, TypeOK
      <4>2. CaseOf(t).daemons \in {"start", "stop"}
        BY <2>1, <3>3, CaseOfFacts DEF Inner, CaseFacts
      <4>3. ~Ignored(CaseOf(t).ctl)'
        BY <2>1, <2>2, <3>3 DEF Inner, Ignored
      <4>4. QED
        BY <1>3, <2>1, <2>2, <3>3, <4>1, <4>2, <4>3 DEF Inner, InItsCase, Starts, Stops
    <3>4. QED
      BY <3>1, <3>2, <3>3
  <2>4. CASE ~Handle(t)
    <3> DEFINE Goes ==
          /\ pc[t] \in Starts \cup Stops \cup {"state"}
          /\ \/ pc'[t] \in {"state", "unlock"}
             \/ pc[t] \in Starts /\ pc'[t] \in Starts /\ ctl'[t] = ctl[t]
             \/ pc[t] \in Stops /\ pc'[t] \in Stops /\ ctl'[t] = ctl[t]
    <3>1. ASSUME StartBtld(t) \/ StartBluetoothd(t) PROVE Goes
      BY <3>1 DEF StartBtld, StartBluetoothd, GiveUp, Goto, Starts, TypeOK
    <3>2. ASSUME StopBluetoothd(t) \/ StopBtld(t) PROVE Goes
      BY <3>2 DEF StopBluetoothd, StopBtld, GiveUp, Goto, Stops, TypeOK
    <3>3. ASSUME SetState(t) \/ WaitStep(t) PROVE Goes
      <4>1. CASE SetState(t)
        BY <4>1 DEF SetState, Goto, TypeOK
      <4>2. CASE WaitStep(t)
        BY <4>2, WaitFrame DEF Wait, Waits, Starts, Stops, TypeOK
      <4>3. QED
        BY <3>3, <4>1, <4>2
    <3>4. Goes
      BY <1>6, <2>4, <3>1, <3>2, <3>3 DEF InnerStep
    <3>5. \/ pc'[t] \in {"state", "unlock"} /\ CaseOf(t) # NULL
          \/ pc[t] \in Starts /\ pc'[t] \in Starts /\ ctl'[t] = ctl[t]
          \/ pc[t] \in Stops /\ pc'[t] \in Stops /\ ctl'[t] = ctl[t]
      BY <3>4 DEF InCase, Inside, Starts, Stops
    <3>6. Ignored(ctl[t])' <=> Ignored(ctl'[t])
      BY <2>1 DEF Inner, Ignored
    <3>7. QED
      BY <1>1, <1>3, <2>1, <2>2, <3>5, <3>6 DEF Inner, InItsCase, Inside, Starts, Stops, Ignored
  <2>5. QED
    BY <2>3, <2>4
<1>7. CASE DaemonStep
  <2>1. UNCHANGED <<soft, pc, act, handler, ctl>>
    BY <1>7 DEF DaemonStep, DaemonReady, DaemonDies, caller
  <2>2. QED
    BY <1>1, <1>2, <2>1, CaseStays
<1>8. CASE Crash
  BY <1>2, <1>8 DEF Crash, InItsCase, Inside, Starts, Stops
<1>9. QED
  BY <1>4, <1>5, <1>6, <1>7, <1>8 DEF Next, CallerStep, OuterStep, InnerStep, WaitStep, CountStep, StoppedStep

\* A handler that is not stale is in the state that belongs to its case.
LEMMA InStateStep == IInv /\ Next => InState'
<1> SUFFICES ASSUME IInv, Next, ~stale', ~initRace', NEW u \in Callers,
                    Inside(u)', pc'[u] # "unlock"
             PROVE  bt_current_state' =
                        IF pc'[u] # "handle" /\ handler'[u] = "BTON_FMON" /\ act'[u] = "BT_OFF"
                        THEN "BTOFF_FMON" ELSE handler'[u]
  BY DEF InState
<1> USE DEF IInv
<1>1. ASSUME NEW t \in Callers, OuterStep(t) PROVE u # t /\ Inside(u) /\ pc[u] # "unlock"
      /\ ~stale /\ ~initRace /\ UNCHANGED bt_current_state /\ OthersStay(t)
  <2>1. Outer(t)
    BY <1>1, OuterFrame
  <2>2. u # t
    BY <2>1 DEF Outer
  <2>3. Inside(u) /\ pc[u] # "unlock"
    BY <2>1, <2>2 DEF Outer, OthersStay, Inside
  <2>4. QED
    BY <2>1, <2>2, <2>3 DEF Outer
<1>2. ASSUME NEW t \in Callers, OuterStep(t)
      PROVE bt_current_state' =
                IF pc'[u] # "handle" /\ handler'[u] = "BTON_FMON" /\ act'[u] = "BT_OFF"
                THEN "BTOFF_FMON" ELSE handler'[u]
  BY <1>1, <1>2 DEF InState, OthersStay
<1>3. ASSUME NEW t \in Callers, LockMutex(t)
      PROVE bt_current_state' =
                IF pc'[u] # "handle" /\ handler'[u] = "BTON_FMON" /\ act'[u] = "BT_OFF"
                THEN "BTOFF_FMON" ELSE handler'[u]
  <2>1. u = t
    BY <1>3, ExclusiveStep DEF LockMutex, Goto, Exclusive, Inside, TypeOK
  <2>2. QED
    BY <1>3, <2>1 DEF LockMutex, Goto, TypeOK
<1>4. ASSUME NEW t \in Callers, UnlockMutex(t) PROVE FALSE
  <2>1. Inside(t) /\ ~Inside(t)' /\ initRace' = initRace /\ (u # t => pc'[u] = pc[u])
    BY <1>4 DEF UnlockMutex, Goto, Inside, TypeOK, marks
  <2>2. u # t /\ Inside(u)
    BY <2>1 DEF Inside
  <2>3. QED
    BY <2>1, <2>2 DEF Exclusive
<1>5. ASSUME NEW t \in Callers, InnerStep(t)
      PROVE bt_current_state' =
                IF pc'[u] # "handle" /\ handler'[u] = "BTON_FMON" /\ act'[u] = "BT_OFF"
                THEN "BTOFF_FMON" ELSE handler'[u]
  <2>1. Inner(t) /\ ~stale /\ ~initRace
    BY <1>5, InnerFrame DEF Inner
  <2>2. u = t
    BY <2>1, ExclusiveStep DEF Exclusive, Inner
  <2>3. CASE Handle(t)
    <3>1. bt_current_state = handler[t] /\ pc[t] = "handle"
      BY <2>1, <2>3 DEF Handle, InState, Inner
    <3>2. CaseOf(t) # NULL
      BY <2>2, <2>3 DEF Handle, Goto, CaseOf, TypeOK
    <3>3. handler[t] = "BTON_FMON" /\ act[t] = "BT_OFF" => CaseOf(t).next = "BTOFF_FMON"
      BY <2>1, <3>2, CaseOfFacts DEF CaseFacts, Inner
    <3>4. bt_current_state' = IF handler[t] = "BTON_FMON" /\ act[t] = "BT_OFF"
                              THEN CaseOf(t).next ELSE bt_current_state
      BY <2>3, <3>2 DEF Handle, CaseOf
    <3>5. pc'[t] # "handle"
      BY <2>1, <2>3, <3>2, CaseOfFacts DEF Handle, Goto, CaseOf, CaseFacts, Inner, TypeOK
    <3>6. QED
      BY <2>1, <2>2, <3>1, <3>3, <3>4, <3>5 DEF Inner
  <2>4. CASE SetState(t)
    BY <2>2, <2>4 DEF SetState, Goto, TypeOK
  <2>5. CASE ~Handle(t) /\ ~SetState(t)
    <3>1. pc[t] \notin {"handle", "unlock"} /\ pc'[t] # "handle" /\ UNCHANGED bt_current_state
      <4>1. CASE WaitStep(t)
        BY <4>1, WaitFrame DEF Wait, Waits, TypeOK, switch
      <4>2. CASE ~WaitStep(t)
        BY <1>5, <2>5, <4>2 DEF InnerStep, StartBtld, StartBluetoothd,
              StopBluetoothd, StopBtld, GiveUp, Goto, TypeOK, switch
      <4>3. QED
        BY <4>1, <4>2
    <3>2. QED
      BY <2>1, <2>2, <3>1 DEF Inner, InState
  <2>6. QED
    BY <2>3, <2>4, <2>5
<1>6. CASE DaemonStep
  <2>1. UNCHANGED <<bt_current_state, pc, act, handler, stale, initRace>>
    BY <1>6 DEF DaemonStep, DaemonReady, DaemonDies, switch, caller, marks
  <2>2. QED
    BY <2>1 DEF InState, Inside
<1>7. CASE Crash
  BY <1>7 DEF Crash, Inside
<1>8. QED
  BY <1>2, <1>3, <1>4, <1>5, <1>6, <1>7
     DEF Next, CallerStep, OuterStep, InnerStep, WaitStep, CountStep, StoppedStep

-----------------------------------------------------------------------------
(* The daemons                                                             *)

\* A daemon that becomes ready or dies keeps what was done to it: it stays started,
\* stopped or running.
LEMMA DaemonKeeps ==
    ASSUME TypeOK, DaemonStep, NEW d \in Daemons
    PROVE  /\ Started(d) => Started(d)'
           /\ Stopped(d) => Stopped(d)'
           /\ Running(d) => Running(d)'
<1> PICK e \in Daemons : DaemonReady(e) \/ DaemonDies(e)
  BY DEF DaemonStep
<1>1. CASE DaemonReady(e)
  BY <1>1 DEF DaemonReady, TypeOK, Started, Stopped, Running
<1>2. CASE DaemonDies(e)
  BY <1>2 DEF DaemonDies, TypeOK, Started, Stopped, Running
<1>3. QED
  BY <1>1, <1>2

\* So the daemons that follow a state go on following it.
LEMMA FollowKept ==
    ASSUME TypeOK, DaemonStep, UNCHANGED <<soft, told, unawaited>>, NEW s, Follow(s)
    PROVE  Follow(s)'
<1>1. Needed(s)' = Needed(s) /\ BtOn(s)' = BtOn(s)
  BY DEF Needed, BtOn
<1>2. ASSUME NEW d \in Daemons, d \in Needed(s)
      PROVE  Started(d)' /\ (~unawaited' => Running(d)')
  BY <1>2, DaemonKeeps DEF Follow
<1>3. ASSUME NEW d \in Daemons, d \notin Needed(s) PROVE Stopped(d)'
  BY <1>3, DaemonKeeps DEF Follow
<1>4. soft' => told' = BtOn(s)'
  BY <1>1 DEF Follow
<1>5. QED
  BY <1>1, <1>2, <1>3, <1>4 DEF Follow

\* ctl.start and ctl.stop do to a daemon what they say, and nothing to the other.
LEMMA Controlled ==
    ASSUME TypeOK, NEW d \in Daemons
    PROVE  /\ CtlStart(d) => Started(d)' /\ (Running(d) => proc'[d] = "up")
           /\ CtlStop(d) => Stopped(d)'
           /\ CtlStart(d) \/ CtlStop(d) => \A e \in Daemons \ {d} :
                 proc'[e] = proc[e] /\ (e \in restart' <=> e \in restart)
BY DEF TypeOK, CtlStart, CtlStop, Started, Stopped, Running

\* Soft on/off is decided at boot.
LEMMA SoftStays == Next => UNCHANGED soft
BY ZenonT(60) DEF Next, CallerStep, DaemonStep, Call, AccessMac, CreateMac, CopyMac, ChownMac,
   ReadMac, PickHandler, TestFlag, SetFlag, InitMutex, LockMutex, Handle, SetState, UnlockMutex,
   StartBtld, StartBluetoothd, StopBluetoothd, StopBtld, AssignCount, LoadCount, StoreCount,
   LookActive, TestStart, LookBluetoothd, ClearBluetoothd, LookBtld, TestStop, ClearLate,
   DaemonReady, DaemonDies, Crash

\* A caller that starts or stops daemons signals btld exactly with soft on/off.
LEMMA SignalsIffSoft ==
    ASSUME TypeOK, InCase, NEW t \in Callers, pc[t] \in Starts \cup Stops
    PROVE  Signals(ctl[t]) <=> soft
<1>1. Inside(t) /\ CaseOf(t) # NULL /\ CaseOf(t).daemons \in {"start", "stop"}
      /\ ctl[t] = CaseOf(t).ctl /\ ~Ignored(ctl[t])
  BY DEF InCase, Inside, Starts, Stops
<1>2. QED
  BY <1>1, CaseOfFacts, SwitchAssumption DEF CaseFacts

\* With soft on/off btld counts as dead from the start; who is late lacks a daemon.
LEMMA InWaitStep == IInv /\ Next => InWait'
<1> SUFFICES ASSUME IInv, Next, NEW u \in Callers, pc'[u] = "stopped"
             PROVE  (soft' => "btld" \in seen'[u]) /\ (loop'[u] = "late" => seen'[u] # Daemons)
  BY DEF InWait
<1> USE DEF IInv
<1> HIDE DEF Daemons
<1>1. soft' = soft
  BY SoftStays
<1>2. ASSUME pc[u] = "stopped", loop'[u] = loop[u], seen'[u] = seen[u]
      PROVE  (soft' => "btld" \in seen'[u]) /\ (loop'[u] = "late" => seen'[u] # Daemons)
  BY <1>1, <1>2 DEF InWait
<1>3. ASSUME NEW t \in Callers, t # u, OthersStay(t)
      PROVE  (soft' => "btld" \in seen'[u]) /\ (loop'[u] = "late" => seen'[u] # Daemons)
  BY <1>2, <1>3 DEF OthersStay
<1>4. ASSUME NEW t \in Callers, OuterStep(t) PROVE t # u /\ OthersStay(t)
  BY <1>4, OuterFrame DEF Outer, Inside
<1>5. ASSUME NEW t \in Callers, LockMutex(t) \/ UnlockMutex(t) PROVE t # u /\ OthersStay(t)
  BY <1>5 DEF LockMutex, UnlockMutex, OthersStay, Goto, TypeOK, waits
<1>6. ASSUME NEW t \in Callers, InnerStep(t)
      PROVE  (soft' => "btld" \in seen'[u]) /\ (loop'[u] = "late" => seen'[u] # Daemons)
  <2>1. Inner(t)
    BY <1>6, InnerFrame
  <2>2. CASE t # u
    BY <1>3, <2>1, <2>2 DEF Inner
  <2>3. CASE t = u /\ WaitStep(t)
    <3>1. pc[t] = "stopped"
      BY <2>3, WaitFrame DEF Wait, TypeOK
    <3>2. StopWait(t)
      BY <2>3, <3>1, StopFrame
    <3>3. QED
      BY <1>1, <2>3, <3>1, <3>2 DEF StopWait, InWait
  <2>4. CASE t = u /\ StopBtld(t)
    <3>1. Signals(ctl[t]) <=> soft
      BY <2>4, SignalsIffSoft DEF StopBtld, Stops
    <3>2. loop'[t] = "assign" /\ seen'[t] = IF Signals(ctl[t]) THEN {"btld"} ELSE {}
      BY <2>4 DEF StopBtld, GiveUp, Goto, Begin, TypeOK
    <3>3. QED
      BY <1>1, <2>4, <3>1, <3>2
  <2>5. CASE t = u /\ ~WaitStep(t) /\ ~StopBtld(t)
    <3>1. pc'[t] # "stopped"
      <4>1. CASE Handle(t)
        <5>1. (CaseOf(t) # NULL /\ CaseOf(t).daemons # NULL) => CaseOf(t).daemons \in {"start", "stop"}
          BY <2>1, CaseOfFacts DEF Inner, CaseFacts
        <5>2. QED
          BY <4>1, <5>1 DEF Handle, CaseOf, Goto, TypeOK
      <4>2. CASE ~Handle(t)
        BY <1>6, <2>5, <4>2 DEF InnerStep, SetState, StartBtld, StartBluetoothd, StopBluetoothd,
                               GiveUp, Goto, TypeOK
      <4>3. QED
        BY <4>1, <4>2
    <3>2. QED
      BY <2>5, <3>1
  <2>6. QED
    BY <2>2, <2>3, <2>4, <2>5
<1>7. CASE DaemonStep
  BY <1>2, <1>7 DEF DaemonStep, DaemonReady, DaemonDies, caller, waits
<1>8. CASE Crash
  BY <1>8 DEF Crash
<1>9. QED
  BY <1>3, <1>4, <1>5, <1>6, <1>7, <1>8
     DEF Next, CallerStep, OuterStep, InnerStep, WaitStep, CountStep, StoppedStep

\* With soft on/off btld is only ever signalled, by stale handlers too.
LEMMA SoftBtldStep == IInv /\ Next => SoftBtld'
<1> SUFFICES ASSUME IInv, Next, soft' PROVE Running("btld")'
  BY DEF SoftBtld
<1> USE DEF IInv
<1>1. soft /\ Running("btld")
  BY SoftStays DEF SoftBtld
<1>2. "btld" \in Daemons /\ "bluetoothd" \in Daemons
  BY DEF Daemons
<1>3. ASSUME NEW t \in Callers, OuterStep(t) \/ LockMutex(t) \/ UnlockMutex(t) \/ Handle(t)
                                \/ SetState(t)
      PROVE UNCHANGED <<proc, active>>
  <2>1. OuterStep(t) => UNCHANGED <<proc, active>>
    BY OuterFrame DEF Outer, system
  <2>2. QED
    BY <1>3, <2>1 DEF LockMutex, UnlockMutex, Handle, SetState, system
<1>4. ASSUME NEW t \in Callers, StartBtld(t) \/ StopBtld(t)
      PROVE UNCHANGED <<proc, active>>
  <2>1. Signals(ctl[t])
    BY <1>1, <1>4, SignalsIffSoft DEF StartBtld, StopBtld, Starts, Stops
  <2>2. QED
    BY <1>4, <2>1 DEF StartBtld, StopBtld
<1>5. ASSUME NEW t \in Callers, StartBluetoothd(t) \/ StopBluetoothd(t)
      PROVE proc'["btld"] = proc["btld"] /\ active' = active
  <2>1. CtlStart("bluetoothd") \/ CtlStop("bluetoothd") \/ UNCHANGED proc
    BY <1>5 DEF StartBluetoothd, StopBluetoothd
  <2>2. CtlStart("bluetoothd") \/ CtlStop("bluetoothd") =>
            \A e \in Daemons \ {"bluetoothd"} : proc'[e] = proc[e]
    BY <1>2, Controlled
  <2>3. active' = active
    BY <1>5 DEF StartBluetoothd, StopBluetoothd
  <2>4. QED
    BY <1>2, <2>1, <2>2, <2>3
<1>6. ASSUME NEW t \in Callers, WaitStep(t)
      PROVE proc' = proc /\ ("btld" \in active => "btld" \in active')
  <2>1. Wait(t)
    BY <1>6, WaitFrame
  <2>2. CASE pc[t] # "stopped"
    BY <2>1, <2>2 DEF Wait
  <2>3. CASE pc[t] = "stopped"
    <3>1. StopWait(t)
      BY <1>6, <2>3, StopFrame
    <3>2. QED
      BY <1>1, <2>1, <2>3, <3>1 DEF Wait, StopWait, InWait
  <2>4. QED
    BY <2>2, <2>3
<1>7. CASE DaemonStep
  BY <1>1, <1>2, <1>7, DaemonKeeps
<1>8. CASE Crash
  BY <1>1, <1>8 DEF Crash, system, Running
<1>9. QED
  BY <1>1, <1>3, <1>4, <1>5, <1>6, <1>7, <1>8
     DEF Next, CallerStep, OuterStep, WaitStep, CountStep, StoppedStep, Running

\* DyingStay of one caller.
Dying(t) ==
    /\ pc[t] \in {"stopBtld", "stopped"} => Stopped("bluetoothd")
    /\ pc[t] = "stopped" =>
          /\ ~soft => Stopped("btld")
          /\ \A d \in seen[t] : d \in active => soft /\ d = "btld"

\* What a stop has told to die stays dead while it waits.
LEMMA DyingStep == IInv /\ Next => DyingStay'
<1> SUFFICES ASSUME IInv, Next, ~initRace', NEW u \in Callers PROVE Dying(u)'
  BY DEF DyingStay, Dying
<1> USE DEF IInv
<1>1. soft' = soft /\ "btld" \in Daemons /\ "bluetoothd" \in Daemons
  BY SoftStays DEF Daemons
<1>2. ~initRace => Dying(u)
  BY DEF DyingStay, Dying
<1>3. ASSUME ~initRace, pc'[u] = pc[u], seen'[u] = seen[u], UNCHANGED <<proc, restart, active>>
      PROVE  Dying(u)'
  BY <1>1, <1>2, <1>3 DEF Dying, Stopped
<1>4. ASSUME NEW t \in Callers, OuterStep(t) PROVE Dying(u)'
  <2>1. Outer(t)
    BY <1>4, OuterFrame
  <2>2. CASE u = t
    BY <2>1, <2>2 DEF Outer, Dying, Inside
  <2>3. CASE u # t
    BY <1>3, <2>1, <2>3 DEF Outer, OthersStay, system
  <2>4. QED
    BY <2>2, <2>3
<1>5. ASSUME NEW t \in Callers, LockMutex(t) \/ UnlockMutex(t) PROVE Dying(u)'
  <2>1. /\ UNCHANGED <<proc, restart, active, seen, initRace>>
        /\ pc'[t] \in {"handle", "idle"} /\ (u # t => pc'[u] = pc[u])
    BY <1>5 DEF LockMutex, UnlockMutex, Goto, TypeOK, system, waits, marks
  <2>2. CASE u = t
    BY <2>1, <2>2 DEF Dying
  <2>3. CASE u # t
    BY <1>3, <2>1, <2>3
  <2>4. QED
    BY <2>2, <2>3
<1>6. ASSUME NEW t \in Callers, InnerStep(t) PROVE Dying(u)'
  <2>1. Inner(t) /\ ~initRace
    BY <1>6, InnerFrame DEF Inner
  <2>2. CASE u # t
    <3>1. ~Inside(u)'
      BY <2>1, <2>2, ExclusiveStep DEF Inner, Exclusive
    <3>2. QED
      BY <3>1 DEF Dying, Inside
  <2>3. CASE u = t /\ StopBluetoothd(t)
    <3>1. \/ pc'[t] = "state"
          \/ pc'[t] = "stopBtld" /\ CtlStop("bluetoothd")
      BY <2>3 DEF StopBluetoothd, GiveUp, Goto, TypeOK
    <3>2. QED
      BY <1>1, <2>3, <3>1, Controlled DEF Dying
  <2>4. CASE u = t /\ StopBtld(t)
    <3>1. Signals(ctl[t]) <=> soft
      BY <2>4, SignalsIffSoft DEF StopBtld, Stops
    <3>2. /\ pc[t] = "stopBtld"
          /\ \/ pc'[t] = "state"
             \/ /\ pc'[t] = "stopped" /\ seen'[t] = IF soft THEN {"btld"} ELSE {}
                /\ IF soft THEN UNCHANGED <<proc, restart>> ELSE CtlStop("btld")
      BY <2>4, <3>1 DEF StopBtld, GiveUp, Goto, Begin, TypeOK
    <3>3. Stopped("bluetoothd")
      BY <1>2, <2>1, <2>4, <3>2 DEF Dying
    <3>4. CtlStop("btld") => Stopped("btld")' /\ proc'["bluetoothd"] = proc["bluetoothd"]
                             /\ ("bluetoothd" \in restart' <=> "bluetoothd" \in restart)
      BY <1>1, Controlled
    <3>5. QED
      BY <1>1, <2>4, <3>2, <3>3, <3>4 DEF Dying, Stopped
  <2>5. CASE u = t /\ WaitStep(t)
    <3>1. Wait(t)
      BY <2>5, WaitFrame
    <3>2. CASE pc'[t] = "stopped"
      <4>1. pc[t] = "stopped"
        BY <3>1, <3>2 DEF Wait, TypeOK
      <4>2. StopWait(t)
        BY <2>5, <4>1, StopFrame
      <4>3. UNCHANGED <<proc, restart>> /\ active' \subseteq active
        BY <3>1 DEF Wait
      <4>4. \A d \in seen'[t] : d \in active' => soft /\ d = "btld"
        BY <1>2, <2>1, <2>5, <3>2, <4>1, <4>2, <4>3 DEF Dying, StopWait
      <4>5. QED
        BY <1>1, <1>2, <2>1, <2>5, <4>1, <4>3, <4>4 DEF Dying, Stopped
    <3>3. CASE pc'[t] # "stopped"
      BY <2>5, <3>1, <3>3 DEF Wait, Waits, Dying, TypeOK
    <3>4. QED
      BY <3>2, <3>3
  <2>6. CASE u = t /\ ~WaitStep(t) /\ ~StopBtld(t) /\ ~StopBluetoothd(t)
    <3>1. pc'[t] \notin {"stopBtld", "stopped"}
      <4>1. CASE Handle(t)
        <5>1. (CaseOf(t) # NULL /\ CaseOf(t).daemons # NULL) => CaseOf(t).daemons \in {"start", "stop"}
          BY <2>1, CaseOfFacts DEF Inner, CaseFacts
        <5>2. QED
          BY <4>1, <5>1 DEF Handle, CaseOf, Goto, TypeOK
      <4>2. CASE ~Handle(t)
        BY <1>6, <2>6, <4>2 DEF InnerStep, SetState, StartBtld, StartBluetoothd, GiveUp, Goto,
                                TypeOK
      <4>3. QED
        BY <4>1, <4>2
    <3>2. QED
      BY <2>6, <3>1 DEF Dying
  <2>7. QED
    BY <2>2, <2>3, <2>4, <2>5, <2>6
<1>7. CASE DaemonStep
  <2>1. UNCHANGED <<pc, seen, initRace>>
    BY <1>7 DEF DaemonStep, DaemonReady, DaemonDies, caller, waits, marks
  <2>2. /\ Stopped("btld") => Stopped("btld")'
        /\ Stopped("bluetoothd") => Stopped("bluetoothd")'
    BY <1>1, <1>7, DaemonKeeps
  <2>3. Dying(u)
    BY <1>2, <2>1
  <2>4. \A d \in Daemons : d \in active' /\ d \notin active => ~Stopped(d)
    BY <1>7 DEF DaemonStep, DaemonReady, DaemonDies, Stopped
  <2>5. ASSUME pc[u] = "stopped", NEW d \in seen[u], d \in active' PROVE soft /\ d = "btld"
    <3>1. d = "btld" \/ d = "bluetoothd"
      BY DEF TypeOK, Daemons
    <3>2. QED
      BY <1>1, <2>3, <2>4, <2>5, <3>1 DEF Dying
  <2>6. QED
    BY <1>1, <2>1, <2>2, <2>3, <2>5 DEF Dying
<1>8. CASE Crash
  BY <1>8 DEF Crash, Dying
<1>9. QED
  BY <1>4, <1>5, <1>6, <1>7, <1>8
     DEF Next, CallerStep, OuterStep, InnerStep, WaitStep, CountStep, StoppedStep

\* A daemon that is said to be active is up, once a stop has waited for the daemons.
LEMMA ActiveUpStep == IInv /\ Next => ActiveUp'
<1> SUFFICES ASSUME IInv, Next, ~stale', ~initRace', ~unawaited',
                    \A t \in Callers : pc'[t] \notin {"stopBtld", "stopped"}
             PROVE  \A d \in active' : proc'[d] = "up"
  BY DEF ActiveUp
<1> USE DEF IInv
<1> DEFINE Dies(t) == pc[t] \in {"stopBtld", "stopped"}
<1>1. ASSUME ~stale, ~initRace, ~unawaited, \A t \in Callers : ~Dies(t)
      PROVE  \A d \in active : d \in Daemons /\ proc[d] = "up"
  BY <1>1 DEF ActiveUp, TypeOK
<1>2. ASSUME NEW t \in Callers, OuterStep(t) PROVE \A d \in active' : proc'[d] = "up"
  <2>1. Outer(t)
    BY <1>2, OuterFrame
  <2>2. \A u \in Callers : ~Dies(u)
    BY <2>1 DEF Outer, OthersStay, Inside
  <2>3. QED
    BY <1>1, <2>1, <2>2 DEF Outer, system
<1>3. ASSUME NEW t \in Callers, LockMutex(t) \/ UnlockMutex(t)
      PROVE  \A d \in active' : proc'[d] = "up"
  <2>1. UNCHANGED <<proc, active, unawaited>> /\ ~stale /\ ~initRace
    <3>1. UNCHANGED <<proc, active, unawaited, initRace>> /\ ~initRace
      BY <1>3 DEF LockMutex, UnlockMutex, system, marks
    <3>2. CASE LockMutex(t)
      BY <3>1, <3>2 DEF LockMutex
    <3>3. CASE UnlockMutex(t)
      BY <3>1, <3>3 DEF UnlockMutex, marks
    <3>4. QED
      BY <1>3, <3>1, <3>2, <3>3
  <2>2. \A u \in Callers : ~Dies(u)
    BY <1>3 DEF LockMutex, UnlockMutex, Goto, TypeOK
  <2>3. QED
    BY <1>1, <2>1, <2>2
<1>4. ASSUME NEW t \in Callers, InnerStep(t), pc[t] # "stopped"
      PROVE  \A d \in active' : proc'[d] = "up"
  <2>1. Inner(t)
    BY <1>4, InnerFrame
  <2>2. /\ ~unawaited /\ ~Dies(t) /\ active' = active
        /\ \/ proc' = proc
           \/ CtlStart("btld")
           \/ CtlStart("bluetoothd")
    <3>1. CASE Handle(t) \/ SetState(t)
      BY <3>1 DEF Handle, SetState, system, marks
    <3>2. CASE StartBtld(t) \/ StartBluetoothd(t)
      <4>1. active' = active /\ unawaited' = unawaited /\ ~Dies(t)
        BY <3>2 DEF StartBtld, StartBluetoothd
      <4>2. proc' = proc \/ CtlStart("btld") \/ CtlStart("bluetoothd")
        BY <3>2 DEF StartBtld, StartBluetoothd
      <4>3. QED
        BY <4>1, <4>2
    <3>3. CASE StopBluetoothd(t)
      BY <3>3 DEF StopBluetoothd, Goto, GiveUp, TypeOK
    <3>4. CASE StopBtld(t)
      BY <3>4 DEF StopBtld, Goto, GiveUp, TypeOK
    <3>5. CASE WaitStep(t)
      <4>1. Wait(t) /\ StartWait(t)
        BY <1>4, <3>5, WaitFrame, StartFrame
      <4>2. QED
        BY <1>4, <4>1 DEF Wait, StartWait, Waits
    <3>6. QED
      BY <1>4, <3>1, <3>2, <3>3, <3>4, <3>5 DEF InnerStep
  <2>3. \A u \in Callers : ~Dies(u)
    BY <2>1, <2>2 DEF Inner, OthersStay
  <2>4. \A d \in active : d \in Daemons /\ proc[d] = "up"
    BY <1>1, <2>1, <2>2, <2>3 DEF Inner
  <2>5. "btld" \in Daemons /\ "bluetoothd" \in Daemons
    BY DEF Daemons
  <2>6. ASSUME NEW e \in Daemons, CtlStart(e) PROVE \A d \in Daemons : proc[d] = "up" => proc'[d] = "up"
    BY <2>6 DEF CtlStart, TypeOK
  <2>7. QED
    BY <2>2, <2>4, <2>5, <2>6
<1>5. ASSUME NEW t \in Callers, InnerStep(t), pc[t] = "stopped"
      PROVE  \A d \in active' : proc'[d] = "up"
  <2>1. WaitStep(t)
    BY <1>5 DEF InnerStep, Handle, SetState, StartBtld, StartBluetoothd, StopBluetoothd, StopBtld
  <2>2. Wait(t) /\ StopWait(t)
    BY <1>5, <2>1, WaitFrame, StopFrame
  <2>3. pc'[t] = "state" /\ proc' = proc /\ active' \subseteq active
    BY <1>5, <2>2 DEF Wait, TypeOK
  <2>4. active' \subseteq seen[t]
    BY <2>2, <2>3 DEF StopWait
  <2>5. ~initRace
    BY <2>2 DEF Wait
  <2>6. \A d \in seen[t] : d \in active => soft /\ d = "btld"
    BY <1>5, <2>5 DEF DyingStay
  <2>7. QED
    BY <2>3, <2>4, <2>6 DEF SoftBtld, Running
<1>6. CASE DaemonStep
  <2>1. UNCHANGED <<pc, stale, initRace, unawaited>>
    BY <1>6 DEF DaemonStep, DaemonReady, DaemonDies, caller, marks
  <2>2. \A d \in active : d \in Daemons /\ proc[d] = "up"
    BY <1>1, <2>1
  <2>3. PICK e \in Daemons : DaemonReady(e) \/ DaemonDies(e)
    BY <1>6 DEF DaemonStep
  <2>4. CASE DaemonReady(e)
    BY <2>2, <2>4 DEF DaemonReady, TypeOK
  <2>5. CASE DaemonDies(e)
    <3>1. active' \subseteq active /\ e \notin active /\ \A d \in Daemons \ {e} : proc'[d] = proc[d]
      BY <2>2, <2>5 DEF DaemonDies, TypeOK
    <3>2. QED
      BY <2>2, <3>1
  <2>6. QED
    BY <2>3, <2>4, <2>5
<1>7. CASE Crash
  BY <1>7 DEF Crash
<1>8. QED
  BY <1>2, <1>3, <1>4, <1>5, <1>6, <1>7
     DEF Next, CallerStep, OuterStep, InnerStep, WaitStep, CountStep, StoppedStep

\* While one caller is inside a handler, what it has come to is all that counts.
LEMMA InsideAlone ==
    ASSUME NEW t \in Callers, Inside(t)', Exclusive', ~initRace', Progress(t)'
    PROVE  (Quiet => Follow(bt_current_state))' /\ \A u \in Callers : Progress(u)'
<1>1. \A u \in Callers \ {t} : ~Inside(u)'
  BY DEF Exclusive
<1>2. \A u \in Callers \ {t} : Progress(u)'
  BY <1>1 DEF Progress, Inside
<1>3. ~Quiet'
  BY DEF Quiet
<1>4. QED
  BY <1>2, <1>3

\* What a caller has come to stays while it waits and nobody touches the daemons.
LEMMA ProgressStays ==
    ASSUME UNCHANGED <<soft, bt_current_state, activation, told, proc, restart, active, unawaited>>,
           UNCHANGED retry_cnt, NEW t \in Callers, pc'[t] = pc[t], handler'[t] = handler[t],
           act'[t] = act[t], loop'[t] = loop[t], Progress(t)
    PROVE  Progress(t)'
<1>1. CaseOf(t)' = CaseOf(t)
  BY SameCase
<1>2. QED
  BY <1>1 DEF Progress, Follow, Needed, Started, Stopped, Running

\* How far the daemons have come with each action of a handler.
LEMMA ProgressStep ==
    ASSUME IInv, NEW t \in Callers, InnerStep(t), ~stale', ~initRace', ~incomplete', SoftBtld'
    PROVE  Progress(t)'
<1> USE DEF IInv
<1>1. Inner(t) /\ ~stale /\ ~initRace /\ Inside(t)
  BY InnerFrame DEF Inner
<1>2. CaseOf(t)' = CaseOf(t)
  BY <1>1, SameCase DEF Inner
<1>3. CaseOf(t) # NULL => CaseFacts(handler[t], act[t], CaseOf(t))
  BY <1>1, CaseOfFacts
<1>4. ~incomplete => Progress(t)
  BY <1>1 DEF Following
<1>5. pc[t] \in Starts \cup Stops =>
          /\ CaseOf(t) # NULL /\ ctl[t] = CaseOf(t).ctl /\ ~Ignored(CaseOf(t).ctl)
          /\ CaseOf(t).daemons = IF pc[t] \in Starts THEN "start" ELSE "stop"
          /\ Signals(ctl[t]) <=> soft
  BY <1>1, <1>3, SwitchAssumption DEF InCase, CaseFacts, Inside, Starts, Stops
<1>6. "btld" \in Daemons /\ "bluetoothd" \in Daemons /\ \A d \in Daemons : d \in {"btld", "bluetoothd"}
  BY DEF Daemons
<1>7. ASSUME pc[t] \notin {"stopBtld", "stopped"}, ~unawaited
      PROVE  \A d \in active : proc[d] = "up"
  <2>1. \A u \in Callers : pc[u] \notin {"stopBtld", "stopped"}
    BY <1>1, <1>7 DEF Exclusive, Inside
  <2>2. QED
    BY <1>1, <1>7, <2>1 DEF ActiveUp
<1>8. CASE Handle(t)
  <2>1. /\ pc[t] = "handle" /\ bt_current_state = handler[t]
        /\ UNCHANGED <<soft, told, proc, restart, active, unawaited, handler>>
    BY <1>1, <1>8 DEF Handle, InState
  <2>2. CASE CaseOf(t) = NULL
    <3>1. pc'[t] = "unlock" /\ UNCHANGED <<bt_current_state, incomplete>>
      BY <1>8, <2>2 DEF Handle, CaseOf, Goto, TypeOK
    <3>2. Follow(bt_current_state)
      BY <1>4, <2>1, <3>1 DEF Progress
    <3>3. QED
      BY <2>1, <3>1, <3>2 DEF Progress, Follow, Needed, Started, Stopped, Running
  <2>3. CASE CaseOf(t) # NULL /\ (CaseOf(t).daemons = NULL \/ Ignored(CaseOf(t).ctl))
    <3>1. pc'[t] = "state" /\ UNCHANGED incomplete
      BY <1>8, <2>3 DEF Handle, CaseOf, Goto, TypeOK
    <3>2. Follow(handler[t])
      BY <1>4, <2>1, <3>1 DEF Progress
    <3>3. Needed(CaseOf(t).next) = Needed(handler[t]) /\ (soft => BtOn(CaseOf(t).next) = BtOn(handler[t]))
      BY <1>3, <2>3 DEF CaseFacts
    <3>4. Follow(CaseOf(t).next)
      BY <3>2, <3>3 DEF Follow
    <3>5. QED
      BY <1>2, <2>1, <3>1, <3>4 DEF Progress, Follow, Needed, Started, Stopped, Running
  <2>4. CASE CaseOf(t) # NULL /\ CaseOf(t).daemons # NULL /\ ~Ignored(CaseOf(t).ctl)
    <3>1. pc'[t] = CaseOf(t).daemons
          /\ activation' = IF CaseOf(t).before = NULL THEN activation ELSE CaseOf(t).before
      BY <1>8, <2>4 DEF Handle, CaseOf, Goto, TypeOK
    <3>2. CaseOf(t).daemons \in {"start", "stop"}
      BY <1>3, <2>4 DEF CaseFacts
    <3>3. soft => CaseOf(t).before = (CaseOf(t).daemons = "start")
      BY <1>3, <2>4, <3>2 DEF CaseFacts
    <3>4. soft => activation' = (CaseOf(t).daemons = "start")
      BY <3>1, <3>3, SwitchAssumption
    <3>5. QED
      BY <2>1, <3>1, <3>2, <3>4 DEF Progress
  <2>5. QED
    BY <2>2, <2>3, <2>4
<1>9. CASE SetState(t)
  <2>1. /\ pc[t] = "state" /\ pc'[t] = "unlock" /\ bt_current_state' = CaseOf(t).next
        /\ UNCHANGED <<soft, told, proc, restart, active, unawaited, incomplete>>
    BY <1>9 DEF SetState, Goto, CaseOf, TypeOK, marks
  <2>2. Follow(CaseOf(t).next)
    BY <1>4, <2>1 DEF Progress
  <2>3. QED
    BY <2>1, <2>2 DEF Progress, Follow, Needed, Started, Stopped, Running
<1>10. CASE StartBtld(t)
  <2>1. /\ pc[t] = "start" /\ pc'[t] = "btld" /\ loop'[t] = "assign" /\ incomplete' = incomplete
        /\ active' = active
        /\ IF Signals(ctl[t]) THEN told' = activation /\ UNCHANGED <<proc, restart>>
           ELSE CtlStart("btld") /\ UNCHANGED told
    BY <1>10 DEF StartBtld, Signal, GiveUp, Goto, Begin, TypeOK
  <2>2. Started("btld")'
    <3>1. CASE soft
      BY <3>1, <1>5, <2>1 DEF SoftBtld, Running, Started, Starts
    <3>2. CASE ~soft
      BY <3>2, <1>5, <1>6, <2>1, Controlled DEF Starts
    <3>3. QED
      BY <3>1, <3>2
  <2>3. soft' => told' = TRUE
    BY <1>1, <1>4, <1>5, <2>1 DEF Progress, Starts, Inner
  <2>4. QED
    BY <2>1, <2>2, <2>3 DEF Progress
<1>11. CASE StartBluetoothd(t)
  <2>1. /\ pc[t] = "startBluetoothd" /\ pc'[t] = "bluetoothd" /\ loop'[t] = "assign"
        /\ incomplete' = incomplete /\ CtlStart("bluetoothd")
        /\ UNCHANGED <<soft, told, active, unawaited>>
    BY <1>11 DEF StartBluetoothd, GiveUp, Goto, Begin, TypeOK
  <2>2. /\ Started("btld") /\ (soft => told = TRUE)
        /\ ~unawaited => Running("btld")
    BY <1>4, <2>1 DEF Progress
  <2>3. Started("bluetoothd")' /\ proc'["btld"] = proc["btld"]
        /\ ("btld" \in restart' <=> "btld" \in restart)
    BY <1>6, <2>1, Controlled
  <2>4. QED
    BY <2>1, <2>2, <2>3 DEF Progress, Started, Running
<1>12. CASE WaitStep(t) /\ pc[t] # "stopped"
  <2>1. Wait(t) /\ StartWait(t)
    BY <1>12, WaitFrame, StartFrame
  <2>2. /\ pc[t] \in {"btld", "bluetoothd"} /\ ~incomplete /\ Progress(t)
        /\ UNCHANGED <<soft, told, proc, restart, active, unawaited, handler, act>>
    BY <1>4, <1>12, <2>1 DEF Wait, Waits, StartWait
  <2>3. /\ Started("btld") /\ (soft => told = TRUE)
        /\ pc[t] = "bluetoothd" => Started("bluetoothd") /\ (~unawaited => Running("btld"))
        /\ loop[t] = "test" /\ ~unawaited => retry_cnt = 0 \/ Running(pc[t])
    BY <2>2 DEF Progress
  <2>4. CASE pc' = pc
    <3>1. loop'[t] = "test" /\ ~unawaited => retry_cnt' = 0 \/ Running(pc[t])
      BY <1>7, <2>1, <2>2, <2>4 DEF StartWait, Running
    <3>2. /\ Started("btld")' /\ (soft' => told' = TRUE)
          /\ pc[t] = "bluetoothd" => Started("bluetoothd")' /\ (~unawaited' => Running("btld")')
      BY <2>2, <2>3 DEF Started, Running
    <3>3. \A d \in Daemons : Running(d)' <=> Running(d)
      BY <2>2 DEF Running
    <3>4. pc'[t] = pc[t] /\ pc[t] \in Daemons
      BY <1>6, <2>2, <2>4
    <3>5. loop'[t] = "test" /\ ~unawaited' => retry_cnt' = 0 \/ Running(pc[t])'
      <4>1. Running(pc[t])' <=> Running(pc'[t]) \/ Running(pc[t])
        BY <2>2, <3>4 DEF Running
      <4>2. QED
        BY <2>2, <3>1, <4>1
    <3>6. QED
      BY <2>2, <3>2, <3>4, <3>5 DEF Progress
  <2>5. CASE pc' # pc /\ pc[t] = "btld"
    <3>1. pc'[t] = "startBluetoothd" /\ (~unawaited => Running("btld"))
      BY <2>1, <2>3, <2>5 DEF StartWait
    <3>2. QED
      BY <2>2, <2>3, <3>1 DEF Progress, Started, Running
  <2>6. CASE pc' # pc /\ pc[t] = "bluetoothd"
    <3>1. pc'[t] = "state" /\ (~unawaited => Running("bluetoothd"))
      BY <2>1, <2>3, <2>6 DEF StartWait
    <3>2. Needed(CaseOf(t).next) = Daemons /\ (soft => BtOn(CaseOf(t).next) = TRUE)
      BY <1>3, <1>5, <2>6 DEF CaseFacts, Starts
    <3>3. Follow(CaseOf(t).next)
      BY <1>6, <2>3, <2>6, <3>1, <3>2 DEF Follow
    <3>4. QED
      BY <1>2, <2>2, <3>1, <3>3 DEF Progress, Follow, Needed, Started, Stopped, Running
  <2>7. QED
    BY <2>2, <2>4, <2>5, <2>6
<1>13. CASE StopBluetoothd(t)
  <2>1. /\ pc[t] = "stop" /\ pc'[t] = "stopBtld" /\ incomplete' = incomplete
        /\ UNCHANGED <<soft, activation>>
    BY <1>13 DEF StopBluetoothd, GiveUp, Goto, TypeOK
  <2>2. QED
    BY <1>4, <2>1 DEF Progress
<1>14. CASE StopBtld(t)
  <2>1. /\ pc[t] = "stopBtld" /\ pc'[t] = "stopped" /\ incomplete' = incomplete /\ UNCHANGED soft
        /\ Signals(ctl[t]) => told' = activation
    BY <1>14 DEF StopBtld, Signal, GiveUp, Goto, TypeOK
  <2>2. soft => activation = FALSE
    BY <1>4, <2>1 DEF Progress
  <2>3. QED
    BY <1>5, <2>1, <2>2 DEF Progress, Stops
<1>15. CASE WaitStep(t) /\ pc[t] = "stopped"
  <2>1. Wait(t)
    BY <1>15, WaitFrame
  <2>2. /\ ~incomplete /\ (soft => told = FALSE)
        /\ pc'[t] \in {"stopped", "state"}
        /\ UNCHANGED <<soft, told, proc, restart>>
    BY <1>4, <1>15, <2>1 DEF Wait, Progress, TypeOK
  <2>3. CASE pc'[t] = "stopped"
    BY <2>2, <2>3 DEF Progress
  <2>4. CASE pc'[t] = "state"
    <3>1. Stopped("bluetoothd") /\ (~soft => Stopped("btld"))
      BY <1>1, <1>15 DEF DyingStay
    <3>2. Needed(CaseOf(t).next) = (IF soft THEN {"btld"} ELSE {})
          /\ (soft => BtOn(CaseOf(t).next) = FALSE)
      BY <1>3, <1>5, <1>15 DEF CaseFacts, Starts, Stops
    <3>3. soft => Running("btld")'
      BY <2>2 DEF SoftBtld
    <3>4. Follow(CaseOf(t).next)'
      BY <1>2, <1>6, <2>2, <3>1, <3>2, <3>3 DEF Follow, Needed, Started, Stopped, Running
    <3>5. QED
      BY <2>4, <3>4 DEF Progress
  <2>5. QED
    BY <2>2, <2>3, <2>4
<1>16. QED
  BY <1>8, <1>9, <1>10, <1>11, <1>12, <1>13, <1>14, <1>15 DEF InnerStep

\* The daemons follow the state when nobody is inside a handler, and the handler
\* as far as it has come otherwise.
LEMMA FollowingStep == IInv /\ Next => Following'
<1> SUFFICES ASSUME IInv, Next, ~stale', ~initRace', ~incomplete'
             PROVE  (Quiet => Follow(bt_current_state))' /\ \A u \in Callers : Progress(u)'
  BY DEF Following
<1> USE DEF IInv
<1>1. Exclusive' /\ SoftBtld' /\ InState'
  BY ExclusiveStep, SoftBtldStep, InStateStep
<1>2. ASSUME NEW t \in Callers, OuterStep(t)
      PROVE  (Quiet => Follow(bt_current_state))' /\ \A u \in Callers : Progress(u)'
  <2>1. Outer(t) /\ ~stale /\ ~initRace /\ ~incomplete
    BY <1>2, OuterFrame DEF Outer
  <2>2. UNCHANGED <<soft, bt_current_state, activation, told, proc, restart, active, unawaited>>
    BY <2>1 DEF Outer, system
  <2>3. Quiet' => Follow(bt_current_state)'
    <3>1. Quiet' => Quiet
      BY <2>1 DEF Quiet, Outer, OthersStay, Inside
    <3>2. QED
      BY <2>1, <2>2, <3>1 DEF Following, Follow, Needed, Started, Stopped, Running
  <2>4. \A u \in Callers \ {t} : Progress(u)'
    BY <2>1, <2>2, ProgressStays DEF Following, Outer, OthersStay, waits
  <2>5. Progress(t)'
    BY <2>1 DEF Outer, Progress, Inside
  <2>6. QED
    BY <2>3, <2>4, <2>5
<1>3. ASSUME NEW t \in Callers, LockMutex(t)
      PROVE  (Quiet => Follow(bt_current_state))' /\ \A u \in Callers : Progress(u)'
  <2>1. /\ ~locked /\ pc'[t] = "handle" /\ ~initRace /\ ~incomplete
        /\ UNCHANGED <<soft, bt_current_state, handler, told, proc, restart, active, unawaited>>
    BY <1>3 DEF LockMutex, Goto, TypeOK, system
  <2>2. ~stale /\ handler[t] = bt_current_state
    BY <1>3 DEF LockMutex
  <2>3. Quiet
    BY <2>1 DEF Exclusive, Quiet
  <2>4. Follow(bt_current_state)
    BY <2>1, <2>2, <2>3 DEF Following
  <2>5. Progress(t)'
    BY <2>1, <2>2, <2>4 DEF Progress, Follow, Needed, Started, Stopped, Running
  <2>6. Inside(t)'
    BY <2>1 DEF Inside
  <2>7. QED
    BY <1>1, <2>5, <2>6, InsideAlone
<1>4. ASSUME NEW t \in Callers, InnerStep(t)
      PROVE  (Quiet => Follow(bt_current_state))' /\ \A u \in Callers : Progress(u)'
  <2>1. Inside(t)'
    BY <1>4, InnerFrame DEF Inner
  <2>2. Progress(t)'
    BY <1>1, <1>4, ProgressStep
  <2>3. QED
    BY <1>1, <2>1, <2>2, InsideAlone
<1>5. ASSUME NEW t \in Callers, UnlockMutex(t)
      PROVE  (Quiet => Follow(bt_current_state))' /\ \A u \in Callers : Progress(u)'
  <2>1. /\ pc[t] = "unlock" /\ ~stale /\ ~initRace /\ ~incomplete
        /\ UNCHANGED <<soft, bt_current_state, told, proc, restart, active, unawaited>>
        /\ pc' = [pc EXCEPT ![t] = "idle"]
    BY <1>5 DEF UnlockMutex, Goto, system, marks
  <2>2. \A u \in Callers : ~Inside(u)'
    BY <2>1 DEF Exclusive, Inside, TypeOK
  <2>3. Follow(bt_current_state)
    BY <2>1 DEF Following, Progress
  <2>4. QED
    BY <2>1, <2>2, <2>3 DEF Progress, Inside, Follow, Needed, Started, Stopped, Running
<1>6. CASE DaemonStep
  <2>1. /\ UNCHANGED <<soft, switch, caller, activation, told, marks>>
        /\ ~stale /\ ~initRace /\ ~incomplete
    BY <1>6 DEF DaemonStep, DaemonReady, DaemonDies, marks
  <2>2. \A d \in Daemons :
            /\ Started(d) => (Started(d))'
            /\ Stopped(d) => (Stopped(d))'
            /\ Running(d) => (Running(d))'
    BY <1>6, DaemonKeeps
  <2>3. /\ "btld" \in Daemons /\ "bluetoothd" \in Daemons
        /\ UNCHANGED <<soft, bt_current_state, pc, act, handler, activation, told, unawaited,
                       retry_cnt, loop>>
    BY <2>1 DEF switch, caller, waits, marks, Daemons
  <2>4. ASSUME NEW s, Follow(s) PROVE Follow(s)'
    BY <1>6, <2>3, <2>4, FollowKept
  <2>5. Follow(bt_current_state) => Follow(bt_current_state)'
    <3> PICK s : s = bt_current_state /\ s = bt_current_state'
      BY <2>3
    <3>1. Follow(s) => Follow(s)'
      BY <2>4
    <3>2. QED
      BY <3>1
  <2>6. ASSUME NEW u \in Callers PROVE Progress(u)'
    <3>1. Progress(u) /\ CaseOf(u)' = CaseOf(u) /\ pc'[u] = pc[u]
      BY <2>1, <2>3, SameCase DEF Following
    <3>2. Follow(handler[u]) => Follow(handler[u])'
      <4> PICK s : s = handler[u] /\ s = handler'[u]
        BY <2>3
      <4>1. Follow(s) => Follow(s)'
        BY <2>4
      <4>2. QED
        BY <4>1
    <3>3. Follow(CaseOf(u).next) => Follow(CaseOf(u).next)'
      <4> PICK s : s = CaseOf(u).next /\ s = CaseOf(u)'.next
        BY <3>1
      <4>1. Follow(s) => Follow(s)'
        BY <2>4
      <4>2. QED
        BY <4>1
    <3>4. /\ Started("btld") => Started("btld")'
          /\ Started("bluetoothd") => Started("bluetoothd")'
          /\ Running("btld") => Running("btld")'
          /\ Running("bluetoothd") => Running("bluetoothd")'
      BY <1>6, <2>3, DaemonKeeps
    <3>5. pc[u] \in {"btld", "bluetoothd"} => (Running(pc[u]) => Running(pc[u])')
      BY <2>3, <3>4 DEF Running
    <3>6. QED
      BY <2>3, <2>5, <3>1, <3>2, <3>3, <3>4, <3>5 DEF Progress
  <2>7. Quiet' => Quiet
    BY <2>3 DEF Quiet, Inside
  <2>8. QED
    BY <2>1, <2>5, <2>6, <2>7 DEF Following
<1>7. CASE Crash
  BY <1>7 DEF Crash
<1>8. QED
  BY <1>2, <1>3, <1>4, <1>5, <1>6, <1>7
     DEF Next, CallerStep, OuterStep, InnerStep, WaitStep, CountStep, StoppedStep

-----------------------------------------------------------------------------
(* The address file, and the theorems                                      *)

\* Whoever makes the file of the address is about to fill it, and says so if it fails.
LEMMA MacFileStep == IInv /\ Next => MacFileWhole'
<1> SUFFICES ASSUME IInv, Next, macFile' = "empty"
             PROVE  spoilt' \/ \E t \in Callers : pc'[t] = "copy"
  BY DEF MacFileWhole
<1> USE DEF IInv
<1>1. ASSUME NEW t \in Callers, UNCHANGED <<macFile, spoilt>>, pc[t] # "copy",
             \A u \in Callers \ {t} : pc'[u] = pc[u]
      PROVE  spoilt' \/ \E u \in Callers : pc'[u] = "copy"
  BY <1>1 DEF MacFileWhole
<1>2. ASSUME NEW t \in Callers, \E a \in eBT_FM_STATE_ACTION : Call(t, a)
      PROVE  spoilt' \/ \E u \in Callers : pc'[u] = "copy"
  BY <1>1, <1>2 DEF Call, Goto, macs, TypeOK
<1>3. ASSUME NEW t \in Callers, AccessMac(t) \/ ReadMac(t) \/ PickHandler(t) \/ TestFlag(t)
                                \/ SetFlag(t) \/ InitMutex(t) \/ LockMutex(t) \/ SetState(t)
                                \/ UnlockMutex(t)
      PROVE  spoilt' \/ \E u \in Callers : pc'[u] = "copy"
  <2>1. /\ UNCHANGED <<macFile, spoilt>> /\ pc[t] # "copy"
        /\ \A u \in Callers \ {t} : pc'[u] = pc[u]
    BY <1>3 DEF AccessMac, ReadMac, PickHandler, TestFlag, SetFlag, InitMutex, LockMutex, SetState,
                UnlockMutex, Goto, macs, TypeOK
  <2>2. QED
    BY <1>1, <2>1
<1>4. ASSUME NEW t \in Callers, CreateMac(t)
      PROVE  spoilt' \/ \E u \in Callers : pc'[u] = "copy"
  <2>1. CASE pc'[t] = "copy"
    BY <2>1
  <2>2. CASE pc'[t] # "copy"
    <3>1. /\ UNCHANGED <<macFile, spoilt>> /\ pc[t] # "copy"
          /\ \A u \in Callers \ {t} : pc'[u] = pc[u]
      BY <1>4, <2>2 DEF CreateMac, Goto, TypeOK
    <3>2. QED
      BY <1>1, <3>1
  <2>3. QED
    BY <2>1, <2>2
<1>5. ASSUME NEW t \in Callers, CopyMac(t)
      PROVE  spoilt' \/ \E u \in Callers : pc'[u] = "copy"
  BY <1>5 DEF CopyMac
<1>6. ASSUME NEW t \in Callers, ChownMac(t)
      PROVE  spoilt' \/ \E u \in Callers : pc'[u] = "copy"
  <2>1. /\ UNCHANGED <<macFile, spoilt>> /\ pc[t] # "copy"
        /\ \A u \in Callers \ {t} : pc'[u] = pc[u]
    BY <1>6 DEF ChownMac, Goto, TypeOK
  <2>2. QED
    BY <1>1, <2>1
<1>7. ASSUME NEW t \in Callers, InnerStep(t)
      PROVE  spoilt' \/ \E u \in Callers : pc'[u] = "copy"
  <2>1. /\ pc[t] # "copy" /\ \A u \in Callers \ {t} : pc'[u] = pc[u]
    BY <1>7, InnerFrame DEF Inner, Inside, OthersStay
  <2>2. UNCHANGED <<macFile, spoilt>>
    <3>1. WaitStep(t) => UNCHANGED <<macFile, spoilt>>
      BY WaitFrame DEF Wait, macs
    <3>2. QED
      BY <1>7, <3>1 DEF InnerStep, Handle, SetState, StartBtld, StartBluetoothd, StopBluetoothd,
                        StopBtld, macs
  <2>3. QED
    BY <1>1, <2>1, <2>2
<1>8. CASE DaemonStep
  BY <1>8 DEF DaemonStep, DaemonReady, DaemonDies, caller, macs, MacFileWhole
<1>9. CASE Crash
  BY <1>9 DEF Crash
<1>10. QED
  BY <1>2, <1>3, <1>4, <1>5, <1>6, <1>7, <1>8, <1>9
     DEF Next, CallerStep, InnerStep, WaitStep, CountStep, StoppedStep

\* The machine starts with IInv.
LEMMA InitIInv == Init => IInv
<1> SUFFICES ASSUME Init PROVE IInv
  OBVIOUS
<1> USE DEF Init
<1>1. TypeOK
  BY DEF TypeOK, States, Before, Daemons
<1>2. \A t \in Callers : pc[t] = "idle" /\ ~Inside(t)
  BY DEF Inside
<1>3. Exclusive /\ InCase /\ InState /\ InWait /\ DyingStay
  BY <1>2 DEF Exclusive, InCase, InState, InWait, DyingStay, Inside, Starts, Stops
<1>4. SoftBtld /\ ActiveUp
  <2>1. soft => proc["btld"] = "up" /\ active = {"btld"}
    BY DEF Daemons
  <2>2. ~soft => active = {}
    OBVIOUS
  <2>3. QED
    BY <2>1, <2>2 DEF SoftBtld, ActiveUp, Running
<1>5. Following
  <2>1. Follow(bt_current_state)
    <3>1. Needed(bt_current_state) = (IF soft THEN {"btld"} ELSE {})
          /\ BtOn(bt_current_state) = FALSE
      BY DEF Needed, BtOn
    <3>2. CASE soft
      <4>1. Started("btld") /\ Running("btld") /\ Stopped("bluetoothd")
        BY <3>2 DEF Started, Running, Stopped, Daemons
      <4>2. QED
        BY <3>1, <3>2, <4>1 DEF Follow, Daemons
    <3>3. CASE ~soft
      <4>1. Stopped("btld") /\ Stopped("bluetoothd")
        BY <3>3 DEF Stopped, Daemons
      <4>2. QED
        BY <3>1, <3>3, <4>1 DEF Follow, Daemons
    <3>4. QED
      BY <3>2, <3>3
  <2>2. \A t \in Callers : Progress(t)
    BY <1>2 DEF Progress
  <2>3. QED
    BY <2>1, <2>2 DEF Following
<1>6. MacFileWhole
  BY DEF MacFileWhole
<1>7. QED
  BY <1>1, <1>3, <1>4, <1>5, <1>6 DEF IInv

\* IInv is an inductive invariant of the specification.
THEOREM Invariance == Spec => []IInv
<1>1. IInv /\ [Next]_vars => IInv'
  <2> SUFFICES ASSUME IInv, [Next]_vars PROVE IInv'
    OBVIOUS
  <2>1. CASE Next
    BY <2>1, TypeStep, ExclusiveStep, InCaseStep, InStateStep, InWaitStep,
       SoftBtldStep, DyingStep, ActiveUpStep, FollowingStep, MacFileStep DEF IInv
  <2>2. CASE UNCHANGED vars
    <3>1. UNCHANGED <<soft, switch, caller, system, macs, marks>>
      BY <2>2 DEF vars
    <3>2. \A t \in Callers : CaseOf(t)' = CaseOf(t) /\ (Inside(t)' <=> Inside(t))
      BY <3>1, SameCase DEF caller, Inside
    <3>3. TypeOK' /\ Exclusive' /\ MacFileWhole'
      BY <3>1, <3>2 DEF IInv, TypeOK, Exclusive, MacFileWhole, switch, caller, waits, system, macs,
                      marks
    <3>4. InCase'
      BY <3>1, <3>2 DEF IInv, InCase, Ignored, caller
    <3>5. InState' /\ SoftBtld' /\ ActiveUp' /\ InWait' /\ DyingStay'
      BY <3>1, <3>2 DEF IInv, InState, SoftBtld, ActiveUp, InWait, DyingStay, Running, Stopped,
                        switch, caller, waits, system, marks
    <3>6. Following'
      <4>1. UNCHANGED <<stale, initRace, incomplete>> /\ (Quiet' <=> Quiet)
            /\ \A t \in Callers : Progress(t) => Progress(t)'
        BY <3>1, <3>2, ProgressStays DEF switch, caller, waits, system, marks, Quiet
      <4>2. Follow(bt_current_state) => Follow(bt_current_state)'
        BY <3>1 DEF Follow, Needed, Started, Stopped, Running, switch, system, marks
      <4>3. QED
        BY <4>1, <4>2 DEF IInv, Following
    <3>7. QED
      BY <3>3, <3>4, <3>5, <3>6 DEF IInv
  <2>3. QED
    BY <2>1, <2>2
<1>2. QED
  BY InitIInv, <1>1, PTL DEF Spec

\* Between calls the daemons are as the state says, across time-outs, failed
\* commands, late daemons and crashes, as soon as one start or stop was finished.
THEOREM DaemonsFollow == Spec => []DaemonsFollowState
<1>1. IInv => DaemonsFollowState
  BY DEF IInv, Following, DaemonsFollowState
<1>2. QED
  BY <1>1, Invariance, PTL

\* The file of the address is whole, missing, or being filled, unless a crash or a
\* failing write spoilt it.
THEOREM NoEmptyMacFile == Spec => []MacFileWhole
<1>1. IInv => MacFileWhole
  BY DEF IInv
<1>2. QED
  BY <1>1, Invariance, PTL

\* Bluetooth is switched by Bluetooth calls and FM by FM calls, but by a handler that
\* runs in a state it is not for, after the mutex was made anew, or by a crash.
THEOREM SwitchedByTheirCalls == Spec => SwitchedByItsCaller
<1>1. IInv /\ [Next]_vars => [SwitchedByCaller]_bt_current_state
  <2> SUFFICES ASSUME IInv, Next, bt_current_state' # bt_current_state,
                      ~stale', ~initRace', bt_on_off_mutex_initialized'
               PROVE  SwitchedByCaller
    BY DEF SwitchedByCaller, vars, switch
  <2> USE DEF IInv
  <2>1. ASSUME NEW t \in Callers, NEW s, s = CaseOf(t).next, CaseOf(t) # NULL, Inside(t),
               bt_current_state' = s, bt_current_state = handler[t]
        PROVE  SwitchedByCaller
    <3>1. /\ BtOn(s) # BtOn(handler[t]) => act[t] = IF BtOn(s) THEN "BT_ON" ELSE "BT_OFF"
          /\ FmOn(s) # FmOn(handler[t]) => act[t] = IF FmOn(s) THEN "FM_ON" ELSE "FM_OFF"
      BY <2>1, CaseOfFacts DEF CaseFacts
    <3>2. QED
      BY <2>1, <3>1 DEF SwitchedByCaller, Switching
  <2>2. ASSUME NEW t \in Callers, Handle(t) PROVE SwitchedByCaller
    <3>1. /\ pc[t] = "handle" /\ Inside(t) /\ ~stale /\ ~initRace
          /\ CaseOf(t) # NULL /\ bt_current_state' = CaseOf(t).next
      BY <2>2 DEF Handle, CaseOf, Inside
    <3>2. bt_current_state = handler[t]
      BY <3>1 DEF InState
    <3>3. QED
      BY <2>1, <3>1, <3>2
  <2>3. ASSUME NEW t \in Callers, SetState(t) PROVE SwitchedByCaller
    <3>1. /\ pc[t] = "state" /\ Inside(t) /\ ~stale /\ ~initRace
          /\ CaseOf(t) # NULL /\ bt_current_state' = CaseOf(t).next
      BY <2>3 DEF SetState, CaseOf, Inside, InCase, marks
    <3>2. CaseFacts(handler[t], act[t], CaseOf(t))
      BY <3>1, CaseOfFacts
    <3>3. bt_current_state = handler[t]
      BY <3>1, <3>2 DEF InState, CaseFacts
    <3>4. QED
      BY <2>1, <3>1, <3>3
  <2>4. ASSUME NEW t \in Callers, OuterStep(t) PROVE FALSE
    BY <2>4, OuterFrame DEF Outer
  <2>5. ASSUME NEW t \in Callers, LockMutex(t) \/ UnlockMutex(t) \/ StartBtld(t)
                   \/ StartBluetoothd(t) \/ StopBluetoothd(t) \/ StopBtld(t) \/ WaitStep(t)
        PROVE  FALSE
    <3>1. ~WaitStep(t)
      BY WaitFrame DEF Wait, switch
    <3>2. QED
      BY <2>5, <3>1 DEF LockMutex, UnlockMutex, StartBtld, StartBluetoothd, StopBluetoothd,
                        StopBtld, switch
  <2>6. CASE DaemonStep
    BY <2>6 DEF DaemonStep, DaemonReady, DaemonDies, switch
  <2>7. CASE Crash
    BY <2>7 DEF Crash
  <2>8. QED
    BY <2>2, <2>3, <2>4, <2>5, <2>6, <2>7
       DEF Next, CallerStep, OuterStep, WaitStep, CountStep, StoppedStep
<1>2. QED
  BY <1>1, Invariance, PTL DEF Spec, SwitchedByItsCaller

=============================================================================
