----------------------------- MODULE BtFmSwitch -----------------------------
(***************************************************************************)
(* bluetooth/bluetooth.c: bt_enable, bt_disable, fm_enable and fm_disable  *)
(* choose the handler of the current state of a four-state machine, which  *)
(* takes the mutex, starts or stops the daemons btld and bluetoothd, and   *)
(* sets the new state.  bt_enable first sees to the file of the Bluetooth  *)
(* address.                                                                *)
(*                                                                         *)
(* A step of a caller is one access to what callers share: the state, the  *)
(* mutex and its flag, the count of retries, a property, or the file.      *)
(* There is one count, and no daemon need ever do what a caller waits for. *)
(***************************************************************************)
EXTENDS Integers, FiniteSets

CONSTANTS
    Callers,        \* threads of the framework
    MaxCalls,       \* bound: calls, of each of them
    MaxEvents,      \* bound: calls, failing system calls and crashes, all together
    StartRetries,   \* START_DAEMON_PROPERTY_CHECK_TIMEOUT_RETRY_COUNT
    StopRetries,    \* STOP_DAEMON_PROPERTY_CHECK_TIMEOUT_RETRY_COUNT
    NULL

ASSUME SwitchAssumption ==
    /\ MaxCalls \in [Callers -> Nat] /\ MaxEvents \in Nat
    /\ StartRetries \in Nat \ {0} /\ StopRetries \in Nat \ {0}
    /\ NULL \notin BOOLEAN /\ NULL \notin {"start", "stop"}

eBT_FM_STATE_ACTION == {"BT_OFF", "BT_ON", "FM_OFF", "FM_ON"}
BtOn(s) == s \in {"BTON_FMOFF", "BTON_FMON"}
FmOn(s) == s \in {"BTOFF_FMON", "BTON_FMON"}

VARIABLES
    soft,               \* service.brcm.bt.soft_onoff: btld runs from boot
    bt_current_state,
    bt_on_off_mutex_initialized, locked,    \* the flag, and the mutex
    pc, act, handler,   \* each caller: where it is, its action, its handler's state
    ctl,                \* and its BTLD_CONTROL_ACTION_t
    retry_cnt,          \* the one count of all waits
    loop, left, seen,   \* each wait: its step, the count it has read, the daemons seen dead
    activation,         \* service.brcm.bt.activation
    told,               \* activation when btld was last signalled
    proc,               \* the daemons, as init runs them
    restart,            \* daemons init starts again once they are dead
    active,             \* the daemons whose property says that they are active
    macFile, mac,       \* the address file; service.brcm.bt.mac is set
    calls, events,      \* how much of the bounds is used
    incomplete,         \* history: the last start or stop was not finished
    unawaited,          \* history: a stop was left before it had waited for the daemons
    stale, initRace,    \* history: a handler ran in another state; the mutex was made anew
    spoilt              \* history: a crash or a failing write left the file empty

switch == <<bt_current_state, bt_on_off_mutex_initialized, locked>>
waits  == <<retry_cnt, loop, left, seen>>
caller == <<pc, act, handler, ctl, calls, waits>>
system == <<activation, told, proc, restart, active>>
macs   == <<macFile, mac, spoilt>>
marks  == <<incomplete, unawaited, stale, initRace>>
vars   == <<soft, switch, caller, system, macs, events, marks>>

Daemons == {"btld", "bluetoothd"}

Init ==
    /\ soft \in BOOLEAN
    /\ bt_current_state = "BTOFF_FMOFF"
    /\ bt_on_off_mutex_initialized = FALSE /\ locked = FALSE
    /\ pc = [t \in Callers |-> "idle"] /\ act = [t \in Callers |-> NULL]
    /\ handler = [t \in Callers |-> NULL] /\ ctl = [t \in Callers |-> NULL]
    /\ retry_cnt = 0 /\ loop = [t \in Callers |-> NULL]
    /\ left = [t \in Callers |-> 0] /\ seen = [t \in Callers |-> {}]
    /\ activation = FALSE /\ told = FALSE
    /\ proc = [d \in Daemons |-> IF soft /\ d = "btld" THEN "up" ELSE "down"]
    /\ restart = {} /\ active = IF soft THEN {"btld"} ELSE {}
    /\ macFile = "none" /\ mac = FALSE
    /\ calls = [t \in Callers |-> 0] /\ events = 0
    /\ incomplete = FALSE /\ unawaited = FALSE /\ spoilt = FALSE
    /\ stale = FALSE /\ initRace = FALSE

Goto(t, label) == pc' = [pc EXCEPT ![t] = label]
Event == events < MaxEvents /\ events' = events + 1
Fault == Event

-----------------------------------------------------------------------------
(* bt_enable: the address.  Whatever comes of it, the switch goes on.      *)

Call(t, a) ==
    /\ pc[t] = "idle" /\ calls[t] < MaxCalls[t] /\ Event
    /\ calls' = [calls EXCEPT ![t] = @ + 1]
    /\ act' = [act EXCEPT ![t] = a]
    /\ Goto(t, IF a = "BT_ON" /\ ~mac THEN "access" ELSE "pick")
    /\ UNCHANGED <<soft, switch, handler, ctl, waits, system, macs, marks>>

\* A file that is there is taken for complete.
AccessMac(t) ==
    /\ pc[t] = "access"
    /\ \/ Goto(t, IF macFile = "none" THEN "create" ELSE "read") /\ UNCHANGED events
       \/ Goto(t, "pick") /\ Fault
    /\ UNCHANGED <<soft, switch, act, handler, ctl, calls, waits, system, macs, marks>>

\* O_CREAT without O_EXCL or O_TRUNC: another caller may have created it.
CreateMac(t) ==
    /\ pc[t] = "create"
    /\ \/ /\ macFile' = IF macFile = "none" THEN "empty" ELSE macFile
          /\ Goto(t, "copy") /\ UNCHANGED events
       \/ Goto(t, "pick") /\ Fault /\ UNCHANGED macFile
    /\ UNCHANGED <<soft, switch, act, handler, ctl, calls, waits, system, mac, spoilt, marks>>

\* Fault: a file that could not be filled is left.
CopyMacKeepsFile(t) ==
    /\ pc[t] = "copy"
    /\ \/ /\ macFile' = IF macFile = "empty" THEN "whole" ELSE macFile
          /\ Goto(t, "chown") /\ UNCHANGED <<events, spoilt>>
       \/ Goto(t, "pick") /\ Fault /\ UNCHANGED <<macFile, spoilt>>
    /\ UNCHANGED <<soft, switch, act, handler, ctl, calls, waits, system, mac, marks>>

\* The template is shorter than the buffer: one read and one write, whose result
\* is not looked at.  If the read fails the file is removed.
CopyMac(t) ==
    /\ pc[t] = "copy"
    /\ \/ /\ macFile' = IF macFile = "empty" THEN "whole" ELSE macFile
          /\ Goto(t, "chown") /\ UNCHANGED <<events, spoilt>>
       \/ macFile' = "none" /\ Goto(t, "pick") /\ Fault /\ UNCHANGED spoilt
       \/ Goto(t, "chown") /\ Fault /\ spoilt' = TRUE /\ UNCHANGED macFile
    /\ UNCHANGED <<soft, switch, act, handler, ctl, calls, waits, system, mac, marks>>

\* It fails also if another caller has removed the file meanwhile.
ChownMac(t) ==
    /\ pc[t] = "chown"
    /\ \/ macFile # "none" /\ Goto(t, "read") /\ UNCHANGED <<macFile, events>>
       \/ macFile = "none" /\ Goto(t, "pick") /\ UNCHANGED <<macFile, events>>
       \/ macFile # "none" /\ macFile' = "none" /\ Goto(t, "pick") /\ Fault
    /\ UNCHANGED <<soft, switch, act, handler, ctl, calls, waits, system, mac, spoilt, marks>>

\* get_bt_mac, and the property.
ReadMac(t) ==
    /\ pc[t] = "read"
    /\ mac' = (mac \/ macFile = "whole")
    /\ Goto(t, "pick")
    /\ UNCHANGED <<soft, switch, act, handler, ctl, calls, waits, system, macFile, spoilt, events,
                   marks>>

-----------------------------------------------------------------------------
(* Into the handler: BT_FM_state_handling[bt_current_state], BT_LOCK_MUTEX *)

PickHandler(t) ==
    /\ pc[t] = "pick"
    /\ handler' = [handler EXCEPT ![t] = bt_current_state]
    /\ Goto(t, "flag")
    /\ UNCHANGED <<soft, switch, act, ctl, calls, waits, system, macs, events, marks>>

TestFlag(t) ==
    /\ pc[t] = "flag"
    /\ Goto(t, IF bt_on_off_mutex_initialized THEN "lock" ELSE "set")
    /\ UNCHANGED <<soft, switch, act, handler, ctl, calls, waits, system, macs, events, marks>>

\* Another caller may have found the flag clear as well.
SetFlag(t) ==
    /\ pc[t] = "set"
    /\ bt_on_off_mutex_initialized' = TRUE
    /\ Goto(t, "init")
    /\ UNCHANGED <<soft, bt_current_state, locked, act, handler, ctl, calls, waits, system, macs,
                   events, marks>>

\* pthread_mutex_init: another caller may have locked the mutex by now, the static,
\* zero one or the one that it has made itself.
InitMutex(t) ==
    /\ pc[t] = "init"
    /\ locked' = FALSE
    /\ initRace' = (initRace \/ locked)
    /\ Goto(t, "lock")
    /\ UNCHANGED <<soft, bt_current_state, bt_on_off_mutex_initialized, act, handler, ctl,
                   calls, waits, system, macs, events, incomplete, unawaited, stale>>

LockMutex(t) ==
    /\ pc[t] = "lock" /\ ~locked
    /\ locked' = TRUE
    /\ stale' = (stale \/ handler[t] # bt_current_state)
    /\ Goto(t, "handle")
    /\ UNCHANGED <<soft, bt_current_state, bt_on_off_mutex_initialized, act, handler, ctl,
                   calls, waits, system, macs, events, incomplete, unawaited,
                   initRace>>

-----------------------------------------------------------------------------
(* The handlers.  A case is what it sets activation to, before or after    *)
(* the daemons, how it starts or stops them, and the new state.            *)

Case(before, daemons, how, after, next) ==
    [before |-> before, daemons |-> daemons, ctl |-> how, after |-> after, next |-> next]
Control == IF soft THEN "BTLD_SIG" ELSE "BTLD_CTRL"

BTOFF_FMOFF_handling(a) ==
    CASE a = "BT_ON" -> Case(TRUE, "start", Control, NULL, "BTON_FMOFF")
      [] a = "FM_ON" -> Case(FALSE, "start", "BTLD_CTRL_NO_SW", NULL, "BTOFF_FMON")
      [] OTHER -> NULL

BTON_FMOFF_handling(a) ==
    CASE a = "BT_OFF" -> Case(FALSE, "stop", Control, NULL, "BTOFF_FMOFF")
      [] a = "FM_ON"  -> Case(NULL, NULL, NULL, NULL, "BTON_FMON")
      [] OTHER -> NULL

BTOFF_FMON_handling(a) ==
    CASE a = "BT_ON"  -> Case(TRUE, "start", "BTLD_SIG_NO_SW", NULL, "BTON_FMON")
      [] a = "FM_OFF" -> Case(NULL, "stop", "BTLD_CTRL_NO_SW", FALSE, "BTOFF_FMOFF")
      [] OTHER -> NULL

\* Fault: with Bluetooth still on, FM_OFF ends in the state with both off.
FmOffForgetsBt(a) ==
    CASE a = "BT_OFF" -> Case(FALSE, "stop", "BTLD_SIG_NO_SW", NULL, "BTOFF_FMON")
      [] a = "FM_OFF" -> Case(NULL, NULL, NULL, NULL, "BTOFF_FMOFF")
      [] OTHER -> NULL

\* The state of BT_OFF is set first here.
BTON_FMON_handling(a) ==
    CASE a = "BT_OFF" -> Case(FALSE, "stop", "BTLD_SIG_NO_SW", NULL, "BTOFF_FMON")
      [] a = "FM_OFF" -> Case(NULL, NULL, NULL, NULL, "BTON_FMOFF")
      [] OTHER -> NULL

BT_FM_state_handling(h, a) ==
    CASE h = "BTOFF_FMOFF" -> BTOFF_FMOFF_handling(a)
      [] h = "BTON_FMOFF"  -> BTON_FMOFF_handling(a)
      [] h = "BTOFF_FMON"  -> BTOFF_FMON_handling(a)
      [] h = "BTON_FMON"   -> BTON_FMON_handling(a)

\* Start and stop ignore what soft on/off makes needless.
Ignored(how) == how = IF soft THEN "BTLD_CTRL_NO_SW" ELSE "BTLD_SIG_NO_SW"
Signals(how) == how \in {"BTLD_SIG", "BTLD_SIG_NO_SW"}

Handle(t) ==
    /\ pc[t] = "handle"
    /\ LET c == BT_FM_state_handling(handler[t], act[t]) IN
       IF c = NULL
       THEN Goto(t, "unlock") /\ UNCHANGED <<bt_current_state, ctl, activation, incomplete>>
       ELSE /\ activation' = IF c.before = NULL THEN activation ELSE c.before
            /\ ctl' = [ctl EXCEPT ![t] = c.ctl]
            /\ bt_current_state' = IF handler[t] = "BTON_FMON" /\ act[t] = "BT_OFF"
                                   THEN c.next ELSE bt_current_state
            /\ IF c.daemons = NULL \/ Ignored(c.ctl)
               THEN Goto(t, "state") /\ UNCHANGED incomplete
               ELSE Goto(t, c.daemons) /\ incomplete' = FALSE
    /\ UNCHANGED <<soft, bt_on_off_mutex_initialized, locked, act, handler, calls, waits, told,
                   proc, restart, active, macs, events, unawaited, stale,
                   initRace>>

SetState(t) ==
    /\ pc[t] = "state"
    /\ LET c == BT_FM_state_handling(handler[t], act[t]) IN
       /\ bt_current_state' = c.next
       /\ activation' = IF c.after = NULL THEN activation ELSE c.after
    /\ Goto(t, "unlock")
    /\ UNCHANGED <<soft, bt_on_off_mutex_initialized, locked, act, handler, ctl, calls, waits, told,
                   proc, restart, active, macs, events, marks>>

\* The call returns 0, whatever happened.
UnlockMutex(t) ==
    /\ pc[t] = "unlock"
    /\ locked' = FALSE
    /\ Goto(t, "idle") /\ act' = [act EXCEPT ![t] = NULL]
    /\ handler' = [handler EXCEPT ![t] = NULL] /\ ctl' = [ctl EXCEPT ![t] = NULL]
    /\ UNCHANGED <<soft, bt_current_state, bt_on_off_mutex_initialized, calls, waits, system, macs,
                   events, marks>>

-----------------------------------------------------------------------------
(* bt_start_daemons and bt_stop_daemons                                    *)

\* ctl.start and ctl.stop, as init obeys them.
CtlStart(d) ==
    /\ proc' = IF proc[d] = "down" THEN [proc EXCEPT ![d] = "starting"] ELSE proc
    /\ restart' = IF proc[d] = "dying" THEN restart \cup {d} ELSE restart
CtlStop(d) ==
    /\ proc' = IF proc[d] = "down" THEN proc ELSE [proc EXCEPT ![d] = "dying"]
    /\ restart' = restart \ {d}

\* The function returns early; the handler sets the state all the same.
GiveUp(t) == incomplete' = TRUE /\ Goto(t, "state")

\* btl_send_on_off_signal: nobody looks whether kill has failed.
Signal ==
    \/ told' = activation /\ UNCHANGED <<events, incomplete>>
    \/ Fault /\ incomplete' = TRUE /\ UNCHANGED told

Begin(t, position, dead) ==
    /\ loop' = [loop EXCEPT ![t] = position]
    /\ seen' = [seen EXCEPT ![t] = dead]
    /\ UNCHANGED <<retry_cnt, left>>
End(t) == Begin(t, NULL, {})

StartBtld(t) ==
    /\ pc[t] = "start"
    /\ \/ /\ \/ Signals(ctl[t]) /\ Signal /\ UNCHANGED <<proc, restart>>
             \/ ~Signals(ctl[t]) /\ CtlStart("btld") /\ UNCHANGED <<told, events, incomplete>>
          /\ Goto(t, "btld") /\ Begin(t, "assign", {})
       \/ Fault /\ GiveUp(t) /\ UNCHANGED <<told, proc, restart, waits>>
    /\ UNCHANGED <<soft, switch, act, handler, ctl, calls, activation, active, macs, unawaited,
                   stale, initRace>>

StartBluetoothd(t) ==
    /\ pc[t] = "startBluetoothd"
    /\ \/ /\ CtlStart("bluetoothd") /\ UNCHANGED <<events, incomplete>>
          /\ Goto(t, "bluetoothd") /\ Begin(t, "assign", {})
       \/ Fault /\ GiveUp(t) /\ UNCHANGED <<proc, restart, waits>>
    /\ UNCHANGED <<soft, switch, act, handler, ctl, calls, activation, told, active, macs,
                   unawaited, stale, initRace>>

StopBluetoothd(t) ==
    /\ pc[t] = "stop"
    /\ \/ CtlStop("bluetoothd") /\ Goto(t, "stopBtld") /\ UNCHANGED <<events, incomplete>>
       \/ Fault /\ GiveUp(t) /\ UNCHANGED <<proc, restart>>
    /\ UNCHANGED <<soft, switch, act, handler, ctl, calls, waits, activation, told, active, macs,
                   unawaited, stale, initRace>>

\* A signal alone is sent without soft on/off by nobody.
StopBtld(t) ==
    /\ pc[t] = "stopBtld"
    /\ \/ /\ \/ Signals(ctl[t]) /\ Signal /\ UNCHANGED <<proc, restart>>
             \/ ~Signals(ctl[t]) /\ CtlStop("btld") /\ UNCHANGED <<told, events, incomplete>>
          /\ Goto(t, "stopped") /\ UNCHANGED unawaited
          /\ Begin(t, "assign", IF Signals(ctl[t]) THEN {"btld"} ELSE {})
       \/ Fault /\ GiveUp(t) /\ unawaited' = TRUE /\ UNCHANGED <<told, proc, restart, waits>>
    /\ UNCHANGED <<soft, switch, act, handler, ctl, calls, activation, active, macs,
                   stale, initRace>>

-----------------------------------------------------------------------------
(* The three waits: for the property of a daemon that was started, and for *)
(* both to be dead.  They count retry_cnt down, which is static: a caller  *)
(* whose handler runs beside another one, after the mutex was made anew,   *)
(* counts down the same number.                                            *)

Starting(t, position) == pc[t] \in {"btld", "bluetoothd"} /\ loop[t] = position
Stopping(t, position) == pc[t] = "stopped" /\ loop[t] = position
Waiting(t, position)  == Starting(t, position) \/ Stopping(t, position)
Turn(t, position) == loop' = [loop EXCEPT ![t] = position]

AssignCount(t) ==
    /\ Waiting(t, "assign")
    /\ retry_cnt' = IF pc[t] = "stopped" THEN StopRetries ELSE StartRetries
    /\ Turn(t, "load")
    /\ UNCHANGED <<soft, switch, pc, act, handler, ctl, calls, left, seen, system, macs, events,
                   marks>>

LoadCount(t) ==
    /\ Waiting(t, "load")
    /\ left' = [left EXCEPT ![t] = retry_cnt]
    /\ Turn(t, "store")
    /\ UNCHANGED <<soft, switch, pc, act, handler, ctl, calls, retry_cnt, seen, system, macs,
                   events, marks>>

\* Below 0 the count would come back to 0 after 2^32 turns, 27 years and more: -1
\* stands for all of them.
Decremented(n) == IF n > 0 THEN n - 1 ELSE -1

\* Fault: a turn is not counted.
StoreSameCount(t) ==
    /\ Waiting(t, "store")
    /\ retry_cnt' = left[t] /\ left' = [left EXCEPT ![t] = 0]
    /\ Turn(t, IF left[t] = 0 THEN "test" ELSE "look")
    /\ UNCHANGED <<soft, switch, pc, act, handler, ctl, calls, seen, system, macs, events, marks>>

StoreCount(t) ==
    /\ Waiting(t, "store")
    /\ retry_cnt' = Decremented(left[t]) /\ left' = [left EXCEPT ![t] = 0]
    /\ Turn(t, IF Decremented(left[t]) = 0 THEN "test" ELSE "look")
    /\ UNCHANGED <<soft, switch, pc, act, handler, ctl, calls, seen, system, macs, events, marks>>

\* dtun_property_is_active, of the daemon that was started.
LookActive(t) ==
    /\ Starting(t, "look")
    /\ Turn(t, IF pc[t] \in active THEN "test" ELSE "load")
    /\ UNCHANGED <<soft, switch, pc, act, handler, ctl, calls, retry_cnt, left, seen, system,
                   macs, events, marks>>

\* Fault: bluetoothd is not started.
TestStartOfBtldOnly(t) ==
    /\ Starting(t, "test")
    /\ IF retry_cnt = 0 THEN GiveUp(t) ELSE Goto(t, "state") /\ UNCHANGED incomplete
    /\ End(t)
    /\ UNCHANGED <<soft, switch, act, handler, ctl, calls, system, macs, events, unawaited,
                   stale, initRace>>

\* What is 0 here is the count, not what this caller made of it.
TestStart(t) ==
    /\ Starting(t, "test")
    /\ IF retry_cnt = 0 THEN GiveUp(t)
       ELSE /\ Goto(t, IF pc[t] = "btld" THEN "startBluetoothd" ELSE "state")
            /\ UNCHANGED incomplete
    /\ End(t)
    /\ UNCHANGED <<soft, switch, act, handler, ctl, calls, system, macs, events, unawaited,
                   stale, initRace>>

\* is_bluetoothd_stopped.
LookBluetoothd(t) ==
    /\ Stopping(t, "look")
    /\ Turn(t, IF "bluetoothd" \notin seen[t] /\ proc["bluetoothd"] = "down"
               THEN "clear" ELSE "lookBtld")
    /\ UNCHANGED <<soft, switch, pc, act, handler, ctl, calls, retry_cnt, left, seen, system,
                   macs, events, marks>>

\* A dead bluetoothd may have left its property behind.
ClearBluetoothd(t) ==
    /\ Stopping(t, "clear")
    /\ active' = active \ {"bluetoothd"}
    /\ Begin(t, "lookBtld", seen[t] \cup {"bluetoothd"})
    /\ UNCHANGED <<soft, switch, pc, act, handler, ctl, calls, activation, told, proc, restart,
                   macs, events, marks>>

LookBtld(t) ==
    /\ Stopping(t, "lookBtld")
    /\ LET dead == IF "btld" \in active THEN seen[t] ELSE seen[t] \cup {"btld"}
       IN  Begin(t, IF dead = Daemons THEN "test" ELSE "load", dead)
    /\ UNCHANGED <<soft, switch, pc, act, handler, ctl, calls, system, macs, events, marks>>

TestStop(t) ==
    /\ Stopping(t, "test")
    /\ \/ /\ retry_cnt = 0 /\ seen[t] # Daemons
          /\ Begin(t, "late", seen[t]) /\ UNCHANGED <<pc, unawaited>>
       \/ /\ retry_cnt # 0 \/ seen[t] = Daemons
          /\ End(t) /\ Goto(t, "state") /\ unawaited' = (seen[t] # Daemons)
    /\ UNCHANGED <<soft, switch, act, handler, ctl, calls, system, macs, events, incomplete,
                   stale, initRace>>

\* Timed out: the properties of the daemons that were not seen dead are cleared.
ClearLate(t) ==
    /\ Stopping(t, "late")
    /\ LET d    == IF "bluetoothd" \in seen[t] THEN "btld" ELSE "bluetoothd"
           dead == seen[t] \cup {d}
       IN  /\ active' = active \ {d}
           /\ IF dead = Daemons
              THEN End(t) /\ Goto(t, "state") /\ unawaited' = FALSE
              ELSE Begin(t, "late", dead) /\ UNCHANGED <<pc, unawaited>>
    /\ UNCHANGED <<soft, switch, act, handler, ctl, calls, activation, told, proc, restart,
                   macs, events, incomplete, stale, initRace>>

-----------------------------------------------------------------------------
(* The daemons, and a crash                                                *)

DaemonReady(d) ==
    /\ proc[d] = "starting"
    /\ proc' = [proc EXCEPT ![d] = "up"] /\ active' = active \cup {d}
    /\ UNCHANGED <<soft, switch, caller, activation, told, restart, macs, events, marks>>

\* btld clears its property; bluetoothd may not.
DaemonDies(d) ==
    /\ proc[d] = "dying"
    /\ proc' = [proc EXCEPT ![d] = IF d \in restart THEN "starting" ELSE "down"]
    /\ restart' = restart \ {d}
    /\ active' \in {active \ {d}} \cup (IF d = "bluetoothd" THEN {active} ELSE {})
    /\ UNCHANGED <<soft, switch, caller, activation, told, macs, events, marks>>

\* The process of the callers starts again; the daemons are init's.
Crash ==
    /\ Fault
    /\ bt_current_state' = "BTOFF_FMOFF"
    /\ bt_on_off_mutex_initialized' = FALSE /\ locked' = FALSE
    /\ pc' = [t \in Callers |-> "idle"] /\ act' = [t \in Callers |-> NULL]
    /\ handler' = [t \in Callers |-> NULL] /\ ctl' = [t \in Callers |-> NULL]
    /\ retry_cnt' = 0 /\ loop' = [t \in Callers |-> NULL]
    /\ left' = [t \in Callers |-> 0] /\ seen' = [t \in Callers |-> {}]
    /\ incomplete' = TRUE /\ unawaited' = TRUE
    /\ spoilt' = (spoilt \/ macFile = "empty")
    /\ stale' = FALSE /\ initRace' = FALSE
    /\ UNCHANGED <<soft, system, macFile, mac, calls>>

CallerStep(t) ==
    \/ AccessMac(t) \/ CreateMac(t) \/ CopyMac(t) \/ ChownMac(t) \/ ReadMac(t)
    \/ PickHandler(t) \/ TestFlag(t) \/ SetFlag(t) \/ InitMutex(t) \/ LockMutex(t)
    \/ Handle(t) \/ SetState(t) \/ UnlockMutex(t)
    \/ StartBtld(t) \/ StartBluetoothd(t) \/ StopBluetoothd(t) \/ StopBtld(t)
    \/ AssignCount(t) \/ LoadCount(t) \/ StoreCount(t) \/ LookActive(t) \/ TestStart(t)
    \/ LookBluetoothd(t) \/ ClearBluetoothd(t) \/ LookBtld(t) \/ TestStop(t) \/ ClearLate(t)

DaemonStep == \E d \in Daemons : DaemonReady(d) \/ DaemonDies(d)

Next ==
    \/ \E t \in Callers : \E a \in eBT_FM_STATE_ACTION : Call(t, a)
    \/ \E t \in Callers : CallerStep(t)
    \/ DaemonStep \/ Crash

Spec == Init /\ [][Next]_vars

\* While a thread can go on, some thread does.  Neither the scheduler nor the mutex
\* need be fairer, as the calls are bounded; nothing is asked of the daemons.
Fairness == WF_vars(\E t \in Callers : CallerStep(t))

FairSpec == Spec /\ Fairness

-----------------------------------------------------------------------------
(* Properties                                                              *)

Inside(t) == pc[t] \in {"handle", "state", "unlock", "start", "btld", "startBluetoothd",
                        "bluetoothd", "stop", "stopBtld", "stopped"}
Quiet == \A t \in Callers : ~Inside(t)

\* As the comment on the mutex has it, it handles concurrent access to the state
\* machine: one caller at a time is inside a handler, although the mutex is made
\* by whoever finds it not made.
OneInside == Cardinality({t \in Callers : Inside(t)}) <= 1

\* As the comment on each handler has it, on entry the current state is the one
\* it is for: so also when the mutex lets one caller in at a time.
EntryState ==
    ~initRace => \A t \in Callers : pc[t] = "handle" => handler[t] = bt_current_state

\* Between calls the daemons are as the state says, across time-outs, failed
\* commands and late daemons, as soon as one start or stop was finished since:
\* with soft on/off btld was told so and bluetoothd runs exactly for Bluetooth,
\* without it both run exactly for Bluetooth or FM.  A daemon that was waited for
\* is really up, unless an earlier stop was left before its daemons were dead (the
\* property of bluetoothd may then be an old one).  Calls that raced are excepted.
Needed(s) ==
    IF soft THEN {"btld"} \cup IF BtOn(s) THEN {"bluetoothd"} ELSE {}
    ELSE IF s = "BTOFF_FMOFF" THEN {} ELSE Daemons

Started(d) == proc[d] \in {"starting", "up"} \/ d \in restart
Running(d) == proc[d] = "up" /\ d \in active
Stopped(d) == proc[d] \in {"down", "dying"} /\ d \notin restart

Follow(s) ==
    /\ \A d \in Daemons : IF d \in Needed(s) THEN Started(d) /\ (~unawaited => Running(d))
                         ELSE Stopped(d)
    /\ soft => told = BtOn(s)

DaemonsFollowState ==
    Quiet /\ ~stale /\ ~initRace /\ ~incomplete => Follow(bt_current_state)

\* Bluetooth is switched by Bluetooth calls only and FM by FM calls only; but a
\* handler that runs in a state it is not for undoes what another caller did, and
\* in a process that has started again the mutex is not made yet.
Switching(on, action) == \E t \in Callers : Inside(t) /\ on /\ act[t] = action

SwitchedByCaller ==
    \/ stale' \/ initRace' \/ ~bt_on_off_mutex_initialized'
    \/ /\ BtOn(bt_current_state') # BtOn(bt_current_state) =>
             \/ Switching(BtOn(bt_current_state'), "BT_ON")
             \/ Switching(~BtOn(bt_current_state'), "BT_OFF")
       /\ FmOn(bt_current_state') # FmOn(bt_current_state) =>
             \/ Switching(FmOn(bt_current_state'), "FM_ON")
             \/ Switching(~FmOn(bt_current_state'), "FM_OFF")

SwitchedByItsCaller == [][SwitchedByCaller]_bt_current_state

\* A caller that could not fill the address file leaves none: the next finds it
\* whole or makes it; unless the daemon crashed over it or a write failed.
MacFileWhole ==
    macFile = "empty" => spoilt \/ \E t \in Callers : pc[t] = "copy"

\* Every call returns, whatever becomes of the daemons and whoever else calls,
\* unless two handlers ran at a time and counted retry_cnt past 0 between them.
CallReturns == \A t \in Callers : pc[t] # "idle" ~> pc[t] = "idle" \/ retry_cnt < 0

-----------------------------------------------------------------------------
(* The inductive invariant                                                 *)

States == {"BTOFF_FMOFF", "BTON_FMOFF", "BTOFF_FMON", "BTON_FMON"}
Before == {"idle", "access", "create", "copy", "chown", "read", "pick", "flag", "set", "init",
           "lock"}
Starts == {"start", "btld", "startBluetoothd", "bluetoothd"}
Stops  == {"stop", "stopBtld", "stopped"}

TypeOK ==
    /\ soft \in BOOLEAN /\ bt_current_state \in States
    /\ pc \in [Callers -> Before \cup Starts \cup Stops \cup {"handle", "state", "unlock"}]
    /\ act \in [Callers -> eBT_FM_STATE_ACTION \cup {NULL}]
    /\ handler \in [Callers -> States \cup {NULL}]
    /\ ctl \in [Callers -> {"BTLD_SIG", "BTLD_CTRL", "BTLD_SIG_NO_SW", "BTLD_CTRL_NO_SW", NULL}]
    /\ proc \in [Daemons -> {"down", "starting", "up", "dying"}]
    /\ restart \subseteq Daemons /\ active \subseteq Daemons
    /\ retry_cnt \in Int /\ left \in [Callers -> Int] /\ seen \in [Callers -> SUBSET Daemons]
    /\ loop \in [Callers -> {"assign", "load", "store", "look", "clear", "lookBtld", "test",
                             "late", NULL}]

\* Whoever is inside a handler has locked the mutex, and nobody else is.
Exclusive ==
    ~initRace => \A t \in Callers : Inside(t) => locked /\ \A u \in Callers : Inside(u) => u = t

\* The case of the switch that a caller inside a handler is in.
CaseOf(t) == BT_FM_state_handling(handler[t], act[t])

InCase ==
    \A t \in Callers :
        /\ pc[t] \in {"flag", "set", "init", "lock"} \/ Inside(t) => handler[t] \in States
        /\ Inside(t) /\ pc[t] \notin {"handle", "unlock"} => CaseOf(t) # NULL
        /\ pc[t] \in Starts \cup Stops =>
              /\ CaseOf(t).daemons = IF pc[t] \in Starts THEN "start" ELSE "stop"
              /\ ctl[t] = CaseOf(t).ctl /\ ~Ignored(ctl[t])

\* A handler that is not stale runs in the state it is for, or in the one it has
\* set first.
InState ==
    ~stale /\ ~initRace => \A t \in Callers :
        (Inside(t) /\ pc[t] # "unlock") =>
            bt_current_state = IF pc[t] # "handle" /\ handler[t] = "BTON_FMON" /\ act[t] = "BT_OFF"
                               THEN "BTOFF_FMON" ELSE handler[t]

\* With soft on/off nobody starts or stops btld.
SoftBtld == soft => Running("btld")

\* An active daemon is really up, once those that were stopped have been waited for.
ActiveUp ==
    /\ ~stale /\ ~initRace /\ ~unawaited
    /\ \A t \in Callers : pc[t] \notin {"stopBtld", "stopped"}
    => \A d \in active : proc[d] = "up"

\* Who only signals btld does not wait for it; who is late has not seen both dead.
InWait ==
    \A t \in Callers : pc[t] = "stopped" =>
        (soft => "btld" \in seen[t]) /\ (loop[t] = "late" => seen[t] # Daemons)

\* What a stop has told to die stays dead; what it has seen dead has no property
\* that says otherwise.
DyingStay ==
    ~initRace => \A t \in Callers :
        /\ pc[t] \in {"stopBtld", "stopped"} => Stopped("bluetoothd")
        /\ pc[t] = "stopped" =>
              /\ ~soft => Stopped("btld")
              /\ \A d \in seen[t] : d \in active => soft /\ d = "btld"

\* How far the daemons follow a handler that is not through.
Progress(t) ==
    /\ pc[t] = "handle" => Follow(handler[t])
    /\ pc[t] = "state" => Follow(CaseOf(t).next)
    /\ pc[t] = "unlock" => Follow(bt_current_state)
    /\ pc[t] = "start" => (soft => activation = TRUE)
    /\ pc[t] \in {"btld", "startBluetoothd", "bluetoothd"} =>
          Started("btld") /\ (soft => told = TRUE)
    /\ pc[t] \in {"startBluetoothd", "bluetoothd"} /\ ~unawaited => Running("btld")
    /\ pc[t] = "bluetoothd" => Started("bluetoothd")
    /\ pc[t] \in {"btld", "bluetoothd"} /\ loop[t] = "test" /\ ~unawaited =>
          retry_cnt = 0 \/ Running(pc[t])
    /\ pc[t] \in {"stop", "stopBtld"} => (soft => activation = FALSE)
    /\ pc[t] = "stopped" => (soft => told = FALSE)

Following == ~stale /\ ~initRace /\ ~incomplete =>
    (Quiet => Follow(bt_current_state)) /\ \A t \in Callers : Progress(t)

IInv ==
    /\ TypeOK /\ Exclusive /\ InCase /\ InState /\ InWait /\ SoftBtld /\ DyingStay
    /\ ActiveUp /\ Following /\ MacFileWhole

=============================================================================
