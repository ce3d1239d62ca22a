--------------------------- MODULE RilUnsolicited ---------------------------
(***************************************************************************)
(* RIL_onUnsolicitedResponse in libs/libril/ril.cpp: a vendor thread, or   *)
(* the event thread that greets a new connection, sends a message nobody   *)
(* asked for.  Two pieces of state are shared with no lock around them:    *)
(*                                                                         *)
(*   the wake lock, which the kernel does not count, and the timer that    *)
(*   releases it, found through s_last_wake_timeout_info;                  *)
(*   s_lastNITZTimeData, the last time message nobody could be sent.       *)
(*                                                                         *)
(* A step reads or writes one of them once.  Writing the socket is one     *)
(* step here; RilRequests has its inside, and RilRadio that of             *)
(* processRadioState.                                                      *)
(***************************************************************************)
EXTENDS Integers, Sequences

CONSTANTS
    Vendors,    \* threads of the vendor RIL
    Event,      \* the event thread
    Infos,      \* addresses malloc can return for a UserCallbackInfo, numbers
    Scripts,    \* what the vendor threads send: functions to sequences of messages
    MaxConns,   \* bound: connections accepted during a run
    NULL

Threads == Vendors \cup {Event}

\* wake, nowake   an entry of s_unsolResponses with WAKE_PARTIAL or DONT_WAKE
\* invalid        its responseFunction refuses the data
\* nitz           NITZ_TIME_RECEIVED, numbered by the order the vendor sends them
\* radio          RADIO_STATE_CHANGED
Kinds == {"wake", "nowake", "invalid", "nitz", "radio"}
Message(k, n) == [kind |-> k, number |-> n]
Messages == [kind : Kinds, number : Nat]

ASSUME UnsolicitedAssumption ==
    /\ Event \notin Vendors
    /\ MaxConns \in Nat
    /\ Infos \subseteq Nat
    /\ NULL \notin Infos \cup Messages \cup {"armed", "cancelled"}
    /\ \A s \in Scripts : s \in [Vendors -> Seq(Messages)]

VARIABLES
    s_registerCalled,
    link,               \* the framework: "up", "dead" (unnoticed) or "down"
    conns,              \* connections so far
    script,             \* what each vendor thread has still to send
    pc, msg,            \* each thread's RIL_onUnsolicitedResponse
    nested,             \* it is called from processRadioState
    last,               \* its copy of s_last_wake_timeout_info, or the new timer
    wakeLock,
    info,               \* address -> NULL when free, or whether cancelled
    timers,             \* the pending wake timers, earliest first
    s_last_wake_timeout_info,
    s_lastNITZTimeData, \* number of the message kept, or 0
    nitzBlocks,         \* allocated copies of NITZ messages
    epc, fired,         \* the event thread's callback
    toldNitz,           \* history: the NITZ message the framework got last
    latestNitz,         \* history: the one the vendor sent last
    twiceFreed, nitzRaced, nitzLost     \* history

calls   == <<pc, msg, nested, last>>
wake    == <<wakeLock, info, timers, s_last_wake_timeout_info>>
nitz    == <<s_lastNITZTimeData, nitzBlocks, twiceFreed>>
outside == <<s_registerCalled, link, conns, script>>
marks   == <<latestNitz, nitzRaced, nitzLost>>
vars    == <<outside, calls, wake, nitz, epc, fired, toldNitz, marks>>

\* The entries of s_unsolResponses marked DONT_WAKE.
Wakes(m) == m.kind # "nowake"

-----------------------------------------------------------------------------

Init ==
    /\ s_registerCalled = FALSE
    /\ link = "down" /\ conns = 0
    /\ script \in Scripts
    /\ pc = [t \in Threads |-> "idle"]
    /\ msg = [t \in Threads |-> NULL]
    /\ nested = [t \in Threads |-> FALSE]
    /\ last = [t \in Threads |-> NULL]
    /\ wakeLock = FALSE
    /\ info = [p \in Infos |-> NULL]
    /\ timers = <<>>
    /\ s_last_wake_timeout_info = NULL
    /\ s_lastNITZTimeData = 0 /\ nitzBlocks = {}
    /\ epc = "idle" /\ fired = NULL
    /\ toldNitz = 0 /\ latestNitz = 0
    /\ twiceFreed = FALSE /\ nitzRaced = FALSE /\ nitzLost = FALSE

Goto(t, label) == pc' = [pc EXCEPT ![t] = label]

Greeting == {"hello", "greet", "nitz", "freeNitz", "clearNitz"}

InNitz(t) ==
    \/ pc[t] # "idle" /\ msg[t].kind = "nitz"
    \/ t = Event /\ epc \in Greeting
NoteNitzRace(t) ==
    nitzRaced' = (nitzRaced \/ \E u \in Threads \ {t} : InNitz(u))

-----------------------------------------------------------------------------
(* RIL_onUnsolicitedResponse                                               *)

\* The call begins: a partial wake lock is taken for what the framework needs.
Enter(t, m) ==
    /\ msg' = [msg EXCEPT ![t] = m]
    /\ Goto(t, "marshal")
    /\ wakeLock' = (wakeLock \/ Wakes(m))

\* A vendor thread's next message; before RIL_register it is ignored.
Vendor(t) ==
    /\ pc[t] = "idle" /\ script[t] # <<>>
    /\ LET m == Head(script[t]) IN
       /\ script' = [script EXCEPT ![t] = Tail(@)]
       /\ IF s_registerCalled
          THEN /\ Enter(t, m)
               /\ IF m.kind = "nitz"
                  THEN latestNitz' = m.number /\ NoteNitzRace(t)
                  ELSE UNCHANGED <<latestNitz, nitzRaced>>
          ELSE UNCHANGED <<pc, msg, wakeLock, latestNitz, nitzRaced>>
    /\ UNCHANGED <<s_registerCalled, link, conns, nested, last, info, timers,
                   s_last_wake_timeout_info, nitz, epc, fired, toldNitz, nitzLost>>

\* responseFunction.  For RADIO_STATE_CHANGED processRadioState may announce what
\* changed, by the same function, before this message is sent.
Marshal(t) ==
    /\ pc[t] = "marshal"
    /\ \/ Goto(t, IF msg[t].kind = "invalid" THEN "error_exit" ELSE "send")
          /\ UNCHANGED <<msg, wakeLock, nested>>
       \/ /\ msg[t].kind = "radio"
          /\ Enter(t, Message("wake", 0))
          /\ nested' = [nested EXCEPT ![t] = TRUE]
    /\ UNCHANGED <<outside, last, info, timers, s_last_wake_timeout_info, nitz, epc,
                   fired, toldNitz, marks>>

\* sendResponse.  Only a NITZ message is worth keeping when that fails.
Send(t) ==
    /\ pc[t] = "send"
    /\ IF link = "up"
       THEN /\ toldNitz' = IF msg[t].kind = "nitz" THEN msg[t].number ELSE toldNitz
            /\ Goto(t, "cancel")
       ELSE /\ Goto(t, IF msg[t].kind = "nitz" THEN "testOld" ELSE "cancel")
            /\ UNCHANGED toldNitz
    /\ UNCHANGED <<outside, msg, nested, last, wake, nitz, epc, fired, marks>>

\* Fault: an earlier message is kept instead of the new one.
KeepOldNitz(t) ==
    /\ pc[t] = "testOld"
    /\ Goto(t, IF s_lastNITZTimeData # 0 THEN "cancel" ELSE "store")
    /\ UNCHANGED <<outside, msg, nested, last, wake, nitz, epc, fired, toldNitz, marks>>

\* A NITZ message that was not sent replaces the one kept: the old copy is
\* freed, the pointer cleared, and the new copy stored.
TestOldNitz(t) ==
    /\ pc[t] = "testOld"
    /\ Goto(t, IF s_lastNITZTimeData # 0 THEN "freeOld" ELSE "store")
    /\ UNCHANGED <<outside, msg, nested, last, wake, nitz, epc, fired, toldNitz, marks>>

\* What the pointer holds by then, if anything.
FreeOldNitz(t) ==
    /\ pc[t] = "freeOld"
    /\ twiceFreed' = (twiceFreed \/ s_lastNITZTimeData \notin {0} \cup nitzBlocks)
    /\ nitzBlocks' = nitzBlocks \ {s_lastNITZTimeData}
    /\ Goto(t, "clearOld")
    /\ UNCHANGED <<outside, msg, nested, last, wake, s_lastNITZTimeData, epc, fired,
                   toldNitz, marks>>

ClearOldNitz(t) ==
    /\ pc[t] = "clearOld"
    /\ s_lastNITZTimeData' = 0
    /\ Goto(t, "store")
    /\ UNCHANGED <<outside, msg, nested, last, wake, nitzBlocks, twiceFreed, epc, fired,
                   toldNitz, marks>>

StoreNitz(t) ==
    /\ pc[t] = "store"
    /\ s_lastNITZTimeData' = msg[t].number
    /\ nitzBlocks' = nitzBlocks \cup {msg[t].number}
    /\ Goto(t, "cancel")
    /\ UNCHANGED <<outside, msg, nested, last, wake, twiceFreed, epc, fired, toldNitz,
                   marks>>

\* The call returns, perhaps into processRadioState of an outer call.
Return(t) ==
    /\ last' = [last EXCEPT ![t] = NULL]
    /\ nested' = [nested EXCEPT ![t] = FALSE]
    /\ IF nested[t]
       THEN Goto(t, "send") /\ msg' = [msg EXCEPT ![t] = Message("radio", 0)]
       ELSE Goto(t, "idle") /\ msg' = [msg EXCEPT ![t] = NULL]

\* What is kept of the call from here on does not depend on the message.
ReadLastTimer(t) ==
    /\ pc[t] = "cancel"
    /\ IF Wakes(msg[t])
       THEN /\ last' = [last EXCEPT ![t] = s_last_wake_timeout_info]
            /\ Goto(t, IF s_last_wake_timeout_info = NULL THEN "schedule" ELSE "overwrite")
            /\ UNCHANGED <<msg, nested>>
       ELSE Return(t)
    /\ UNCHANGED <<outside, wake, nitz, epc, fired, toldNitz, marks>>

\* userParam = 1, through a pointer that may be free, when nobody reads it again,
\* or in use again by now.
CancelLastTimer(t) ==
    /\ pc[t] = "overwrite"
    /\ info' = IF info[last[t]] = NULL THEN info
               ELSE [info EXCEPT ![last[t]] = "cancelled"]
    /\ Goto(t, "schedule")
    /\ UNCHANGED <<outside, msg, nested, last, wakeLock, timers,
                   s_last_wake_timeout_info, nitz, epc, fired, toldNitz, marks>>

\* A freed block is handed out again before an unused one: the case in which a
\* pointer kept too long finds somebody else's timer.
Malloc(p) == info[p] = NULL /\ \A q \in Infos : info[q] = NULL => p <= q

\* Fault: the earlier timer is trusted to release the lock.
ScheduleUnlessPending(t) ==
    /\ pc[t] = "schedule"
    /\ IF timers # <<>> THEN UNCHANGED <<info, timers, last>> ELSE
       \E p \in Infos :
          /\ Malloc(p)
          /\ info' = [info EXCEPT ![p] = "armed"]
          /\ timers' = Append(timers, p)
          /\ last' = [last EXCEPT ![t] = p]
    /\ Goto(t, "remember")
    /\ UNCHANGED <<outside, msg, nested, wakeLock, s_last_wake_timeout_info, nitz, epc,
                   fired, toldNitz, marks>>

\* internalRequestTimedCallback: all wake timers run TIMEVAL_WAKE_TIMEOUT, so
\* they expire in the order they are added.
Schedule(t) ==
    /\ pc[t] = "schedule"
    /\ \E p \in Infos :
          /\ Malloc(p)
          /\ info' = [info EXCEPT ![p] = "armed"]
          /\ timers' = Append(timers, p)
          /\ last' = [last EXCEPT ![t] = p]
    /\ Goto(t, "remember")
    /\ UNCHANGED <<outside, msg, nested, wakeLock, s_last_wake_timeout_info, nitz, epc,
                   fired, toldNitz, marks>>

\* Its result is assigned; the timer may have fired, and be freed, by then.
RememberTimer(t) ==
    /\ pc[t] = "remember"
    /\ s_last_wake_timeout_info' = last[t]
    /\ Return(t)
    /\ UNCHANGED <<outside, wakeLock, info, timers, nitz, epc, fired, toldNitz, marks>>

\* Fault: the error return forgets the lock.
ErrorExitKeepsLock(t) ==
    /\ pc[t] = "error_exit"
    /\ wakeLock' = wakeLock
    /\ Return(t)
    /\ UNCHANGED <<outside, info, timers, s_last_wake_timeout_info, nitz, epc, fired,
                   toldNitz, marks>>

\* error_exit: the lock is released at once, whoever else wants it.
ErrorExit(t) ==
    /\ pc[t] = "error_exit"
    /\ wakeLock' = (wakeLock /\ ~Wakes(msg[t]))
    /\ Return(t)
    /\ UNCHANGED <<outside, info, timers, s_last_wake_timeout_info, nitz, epc, fired,
                   toldNitz, marks>>

CallStep(t) ==
    \/ Marshal(t) \/ Send(t)
    \/ TestOldNitz(t) \/ FreeOldNitz(t) \/ ClearOldNitz(t) \/ StoreNitz(t)
    \/ ReadLastTimer(t) \/ CancelLastTimer(t) \/ Schedule(t) \/ RememberTimer(t)
    \/ ErrorExit(t)

-----------------------------------------------------------------------------
(* The event thread's callbacks                                            *)

\* Fault: the timer fires without leaving the pending list.
FireAndStayPending ==
    /\ epc = "idle" /\ timers # <<>>
    /\ fired' = Head(timers) /\ timers' = timers
    /\ epc' = IF info[Head(timers)] = "armed" THEN "release" ELSE "forget"
    /\ UNCHANGED <<outside, calls, wakeLock, info, s_last_wake_timeout_info, nitz,
                   toldNitz, marks>>

\* userTimerCallback: wakeTimeoutCallback reads userParam as it is now.
FireWakeTimer ==
    /\ epc = "idle" /\ timers # <<>>
    /\ fired' = Head(timers) /\ timers' = Tail(timers)
    /\ epc' = IF info[Head(timers)] = "armed" THEN "release" ELSE "forget"
    /\ UNCHANGED <<outside, calls, wakeLock, info, s_last_wake_timeout_info, nitz,
                   toldNitz, marks>>

WakeTimeout ==
    /\ epc = "release"
    /\ wakeLock' = FALSE
    /\ epc' = "forget"
    /\ UNCHANGED <<outside, calls, info, timers, s_last_wake_timeout_info, nitz, fired,
                   toldNitz, marks>>

ForgetTimer ==
    /\ epc = "forget"
    /\ s_last_wake_timeout_info' =
          IF s_last_wake_timeout_info = fired THEN NULL ELSE s_last_wake_timeout_info
    /\ info' = [info EXCEPT ![fired] = NULL]
    /\ epc' = "idle" /\ fired' = NULL
    /\ UNCHANGED <<outside, calls, wakeLock, timers, nitz, toldNitz, marks>>

\* listenCallback accepts the framework.
Connect ==
    /\ epc = "idle" /\ s_registerCalled
    /\ link = "down" /\ conns < MaxConns
    /\ link' = "up" /\ conns' = conns + 1
    /\ epc' = "hello"
    /\ NoteNitzRace(Event)
    /\ UNCHANGED <<s_registerCalled, script, calls, wake, nitz, fired, toldNitz,
                   latestNitz, nitzLost>>

\* onNewCommandConnect: RIL_CONNECTED, then RADIO_STATE_CHANGED.
Greet ==
    /\ pc[Event] = "idle"
    /\ \/ epc = "hello" /\ epc' = "greet" /\ Enter(Event, Message("wake", 0))
       \/ epc = "greet" /\ epc' = "nitz" /\ Enter(Event, Message("radio", 0))
    /\ UNCHANGED <<outside, nested, last, info, timers, s_last_wake_timeout_info, nitz,
                   fired, toldNitz, marks>>

\* The NITZ message that was kept is sent, whether or not that works.
SendLastNitz ==
    /\ epc = "nitz" /\ pc[Event] = "idle"
    /\ IF s_lastNITZTimeData = 0
       THEN epc' = "idle" /\ UNCHANGED <<toldNitz, nitzLost>>
       ELSE /\ epc' = "freeNitz"
            /\ IF link = "up"
               THEN toldNitz' = s_lastNITZTimeData /\ UNCHANGED nitzLost
               ELSE nitzLost' = TRUE /\ UNCHANGED toldNitz
    /\ UNCHANGED <<outside, calls, wake, nitz, fired, latestNitz, nitzRaced>>

FreeLastNitz ==
    /\ epc = "freeNitz"
    /\ twiceFreed' = (twiceFreed \/ s_lastNITZTimeData \notin nitzBlocks \cup {0})
    /\ nitzBlocks' = nitzBlocks \ {s_lastNITZTimeData}
    /\ epc' = "clearNitz"
    /\ UNCHANGED <<outside, calls, wake, s_lastNITZTimeData, fired, toldNitz, marks>>

\* Fault: the pointer to the freed copy is kept.
ClearNothing ==
    /\ epc = "clearNitz"
    /\ epc' = "idle"
    /\ UNCHANGED <<outside, calls, wake, nitz, fired, toldNitz, marks>>

ClearLastNitz ==
    /\ epc = "clearNitz"
    /\ s_lastNITZTimeData' = 0
    /\ epc' = "idle"
    /\ UNCHANGED <<outside, calls, wake, nitzBlocks, twiceFreed, fired, toldNitz,
                   marks>>

\* processCommandsCallback closes a connection the framework has left.
CommandsClosed ==
    /\ epc = "idle" /\ link = "dead"
    /\ link' = "down"
    /\ UNCHANGED <<s_registerCalled, conns, script, calls, wake, nitz, epc, fired,
                   toldNitz, marks>>

EventStep ==
    \/ FireWakeTimer \/ WakeTimeout \/ ForgetTimer
    \/ Greet \/ SendLastNitz \/ FreeLastNitz \/ ClearLastNitz
    \/ CommandsClosed

-----------------------------------------------------------------------------

RIL_register ==
    /\ ~s_registerCalled
    /\ s_registerCalled' = TRUE
    /\ UNCHANGED <<link, conns, script, calls, wake, nitz, epc, fired, toldNitz, marks>>

FrameworkDies ==
    /\ link = "up"
    /\ link' = "dead"
    /\ UNCHANGED <<s_registerCalled, conns, script, calls, wake, nitz, epc, fired,
                   toldNitz, marks>>

Next ==
    \/ RIL_register \/ Connect \/ FrameworkDies
    \/ EventStep
    \/ \E t \in Vendors : Vendor(t)
    \/ \E t \in Threads : CallStep(t)

Spec == Init /\ [][Next]_vars

\* Threads are scheduled and timers expire; connections and messages need not
\* come.
Fairness == WF_vars(EventStep) /\ \A t \in Threads : WF_vars(CallStep(t))

FairSpec == Spec /\ Fairness

-----------------------------------------------------------------------------
(* Properties                                                              *)

Quiet == epc = "idle" /\ \A t \in Threads : pc[t] = "idle"

TypeOK ==
    /\ s_registerCalled \in BOOLEAN /\ link \in {"up", "dead", "down"}
    /\ conns \in 0..MaxConns
    /\ \A t \in Threads : pc[t] = "idle" <=> msg[t] = NULL
    /\ \A t \in Threads : nested[t] => pc[t] # "idle"
    /\ wakeLock \in BOOLEAN
    /\ info \in [Infos -> {NULL, "armed", "cancelled"}]
    /\ \A i \in DOMAIN timers : info[timers[i]] # NULL
    /\ epc \in {"release", "forget"} <=> fired # NULL

\* A thread that took the wake lock and has not arranged for its release yet.
Awake(t) == /\ pc[t] \notin {"idle", "remember"}
            /\ Wakes(msg[t])

\* The phone is never kept awake for nothing: while the wake lock is held, a
\* thread is still inside RIL_onUnsolicitedResponse, or a timer that nobody
\* cancelled will release it, whichever pointers the threads overwrote.
WakeLockAccounted ==
    wakeLock => \/ \E t \in Threads : Awake(t)
                \/ \E i \in DOMAIN timers : info[timers[i]] = "armed"
                \/ epc = "release"

\* The phone can always go back to sleep.
WakeLockReleased == wakeLock ~> ~wakeLock

\* The last NITZ time is not lost: once its call is over it has been told or is
\* kept, and a framework that has been greeted is owed none; unless the call met
\* another one or a greeting, or the greeted framework died under the greeting.
NitzKept ==
    Quiet /\ ~nitzRaced /\ ~nitzLost =>
        /\ latestNitz \in {0, toldNitz, s_lastNITZTimeData}
        /\ link = "up" => s_lastNITZTimeData = 0

\* The kept copy is freed once, under the same condition.
NitzFreedOnce == twiceFreed => nitzRaced

-----------------------------------------------------------------------------
(* The inductive invariant                                                 *)

Keeping == {"testOld", "freeOld", "clearOld", "store"}
Labels == {"idle", "marshal", "send", "cancel", "overwrite", "schedule", "remember",
           "error_exit"} \cup Keeping

\* Where a call is says what it is for.
CallsInOrder ==
    /\ pc \in [Threads -> Labels] /\ nested \in [Threads -> BOOLEAN]
    /\ msg \in [Threads -> Messages \cup {NULL}]
    /\ last \in [Threads -> Infos \cup {NULL}]
    /\ script \in [Vendors -> Seq(Messages)]
    /\ \A t \in Threads :
          /\ pc[t] \in Keeping => msg[t].kind = "nitz"
          /\ pc[t] \in {"overwrite", "schedule", "remember"} => Wakes(msg[t])
          /\ pc[t] \in {"overwrite", "remember"} => last[t] # NULL
    /\ pc[Event] # "idle" => msg[Event].kind # "nitz"

\* A timer is pending once, or is the one that fires.
TimersOnce ==
    /\ epc \in {"idle", "release", "forget"} \cup Greeting
    /\ timers \in Seq(Infos)
    /\ \A i, j \in DOMAIN timers : timers[i] = timers[j] => i = j
    /\ s_last_wake_timeout_info \in Infos \cup {NULL} /\ fired \in Infos \cup {NULL}
    /\ fired # NULL => info[fired] # NULL /\ \A i \in DOMAIN timers : timers[i] # fired

\* One thread at a time: what s_lastNITZTimeData points to is allocated, but between its
\* being freed and its being cleared, and there is none while a greeted framework is up.
OneCopy ==
    ~nitzRaced =>
        /\ \A t, u \in Threads : InNitz(t) /\ InNitz(u) => t = u
        /\ ~twiceFreed
        /\ \/ s_lastNITZTimeData \in {0} \cup nitzBlocks
           \/ epc = "clearNitz" \/ \E t \in Threads : pc[t] = "clearOld"
        /\ link = "up" => /\ s_lastNITZTimeData = 0 \/ epc \in Greeting
                          /\ \A t \in Threads : pc[t] \notin Keeping

\* A NITZ message that was neither sent nor kept so far.
Undecided(t) == InNitz(t) /\ pc[t] \in {"marshal", "send"} \cup Keeping

\* The message kept is the latest, or else the latest is in the making.
LatestKept ==
    ~nitzRaced /\ ~nitzLost =>
        /\ \A t \in Vendors : InNitz(t) => msg[t].number = latestNitz
        /\ epc \in {"freeNitz", "clearNitz"} => toldNitz = s_lastNITZTimeData
        /\ \/ \E t \in Vendors : Undecided(t)
           \/ s_lastNITZTimeData = latestNitz
           \/ s_lastNITZTimeData = 0 /\ latestNitz \in {0, toldNitz}

IInv == TypeOK /\ CallsInOrder /\ TimersOnce /\ WakeLockAccounted /\ OneCopy /\ LatestKept

=============================================================================
