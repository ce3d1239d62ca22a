------------------------------ MODULE RilEvent ------------------------------
(***************************************************************************)
(* The event loop of libril (libs/libril/ril_event.cpp) together with the  *)
(* wake-up pipe that libs/libril/ril.cpp puts around it: one event thread  *)
(* runs ril_event_loop; any other thread may register a descriptor or a    *)
(* timer and then writes a byte to the pipe, because the event thread may  *)
(* already be inside select with an older descriptor set and time-out.     *)
(*                                                                         *)
(* What callbacks and other threads do is the discipline of ril.cpp: an    *)
(* event object is handed to the loop only while nobody else holds it, and *)
(* only the callback of an event deletes it.  Each API call is one action, *)
(* since each holds listMutex from its first line to its last.             *)
(*                                                                         *)
(* Time is a counter.  The time-out passed to select is kept as a          *)
(* deadline: what passes between the computation and the call only makes   *)
(* select return later, by the same amount.                                *)
(***************************************************************************)
EXTENDS Integers, SequencesExt

CONSTANTS
    FdEvents,       \* ril_event objects registered for a descriptor
    Timers,         \* ril_event objects used as timers
    Wakeup,         \* s_wakeupfd_event, the read end of the wake-up pipe
    Persistent,     \* the FdEvents set with persist = true
    Fds,            \* descriptor numbers the kernel hands out
    MAX_FD_EVENTS,  \* length of watch_table
    Threads,        \* threads other than the event thread
    MaxTime,        \* bound: the clock stops here
    MaxDelay,       \* bound: largest relative time of a timer
    NULL

ASSUME EventAssumption ==
    /\ Wakeup \in Persistent
    /\ Persistent \subseteq FdEvents
    /\ FdEvents \cap Timers = {}
    /\ NULL \notin FdEvents \cup Timers
    /\ Fds \subseteq Nat
    /\ MAX_FD_EVENTS \in Nat \ {0}
    /\ MaxTime \in Nat
    /\ MaxDelay \in Nat

\* The ril_events of ril.cpp fit into the table (4 of 8 in the source).
ASSUME CapacityAssumption ==
    IsFiniteSet(FdEvents) /\ Cardinality(FdEvents) <= MAX_FD_EVENTS

VARIABLES
    watch_table,    \* slot -> event or NULL
    index,          \* ev->index, 0 for the source's -1
    fd,             \* ev->fd
    readFds, nfds,
    timer_list, timeout,
    pending_list,
    pc,             \* where the event thread is
    rfds,           \* its local fd_set
    ptv,            \* its select deadline, NoTimeout for a NULL time-out
    running,        \* the event whose callback it is in
    pipe,           \* there are bytes in the wake-up pipe
    readable,       \* descriptors with input, other than the pipe
    now,            \* the monotonic clock
    thread,         \* what each other thread is about to do
    added           \* history: events handed to the loop and not given back

table  == <<watch_table, index, fd, readFds, nfds, added>>
timers == <<timer_list, timeout>>
loop   == <<pc, rfds, ptv, running>>
env    == <<readable, now>>
vars   == <<table, timers, pending_list, loop, pipe, env, thread>>

Slots     == 1..MAX_FD_EVENTS
Events    == FdEvents \cup Timers
NoTimeout == -1
NoFd      == -1

Watched   == {e \in FdEvents : \E i \in Slots : watch_table[i] = e}
WatchedFds == {fd[e] : e \in Watched}
Timed     == Range(timer_list)
Pending   == Range(pending_list)

\* Nobody holds e: not the loop's lists, not the running callback.
Idle(e) == e \notin Timed \cup Pending \cup {running}

\* Descriptors no registered event uses.
FreeFds == Fds \ {fd[e] : e \in added}

-----------------------------------------------------------------------------
(* The list and table operations                                           *)

\* Fault: the index stored is the one after the slot.
EventAddIndexPastSlot(e, f) ==
    \E i \in Slots :
        /\ watch_table[i] = NULL /\ \A j \in 1..(i - 1) : watch_table[j] # NULL
        /\ watch_table' = [watch_table EXCEPT ![i] = e]
        /\ index' = [index EXCEPT ![e] = i + 1]
        /\ readFds' = readFds \cup {f}
        /\ nfds' = IF f >= nfds THEN f + 1 ELSE nfds
        /\ fd' = [fd EXCEPT ![e] = f]
        /\ added' = added \cup {e}

\* Fault: the search for a free slot stops one short of the table's end.
EventAddSkipsLastSlot(e, f) ==
    /\ added' = added \cup {e}
    /\ fd' = [fd EXCEPT ![e] = f]
    /\ \/ \E i \in 1..(MAX_FD_EVENTS - 1) :
            /\ watch_table[i] = NULL /\ \A j \in 1..(i - 1) : watch_table[j] # NULL
            /\ watch_table' = [watch_table EXCEPT ![i] = e]
            /\ index' = [index EXCEPT ![e] = i]
            /\ readFds' = readFds \cup {f}
            /\ nfds' = IF f >= nfds THEN f + 1 ELSE nfds
       \/ /\ \A i \in 1..(MAX_FD_EVENTS - 1) : watch_table[i] # NULL
          /\ UNCHANGED <<watch_table, index, readFds, nfds>>

\* ril_event_add, after ril_event_set gave the event descriptor f: the first
\* free slot; with a full table the event is dropped without a word.
EventAdd(e, f) ==
    /\ added' = added \cup {e}
    /\ fd' = [fd EXCEPT ![e] = f]
    /\ \/ \E i \in Slots :
            /\ watch_table[i] = NULL
            /\ \A j \in 1..(i - 1) : watch_table[j] # NULL
            /\ watch_table' = [watch_table EXCEPT ![i] = e]
            /\ index' = [index EXCEPT ![e] = i]
            /\ readFds' = readFds \cup {f}
            /\ nfds' = IF f >= nfds THEN f + 1 ELSE nfds
       \/ /\ \A i \in Slots : watch_table[i] # NULL
          /\ index' = [index EXCEPT ![e] = 0]
          /\ UNCHANGED <<watch_table, readFds, nfds>>

\* Fault: nfds is recomputed as the highest descriptor, not one more.
RemoveWatchNfdsShort(E) ==
    LET left == {fd[e] : e \in Watched \ E}
    IN  /\ watch_table' = [i \in Slots |->
                IF watch_table[i] \in E THEN NULL ELSE watch_table[i]]
        /\ index' = [e \in FdEvents |-> IF e \in E THEN 0 ELSE index[e]]
        /\ readFds' = readFds \ {fd[e] : e \in E}
        /\ nfds' \in IF \E e \in E : fd[e] + 1 = nfds
                     THEN {n \in left \cup {0} : \A m \in left : m <= n}
                     ELSE {nfds}
        /\ added' = added \ E
        /\ UNCHANGED fd

\* removeWatch applied to each event of E in turn: clears slots and bits, and
\* recomputes nfds from what is left when the highest descriptor went.
RemoveWatch(E) ==
    LET left == {fd[e] : e \in Watched \ E}
    IN  /\ watch_table' = [i \in Slots |->
                IF watch_table[i] \in E THEN NULL ELSE watch_table[i]]
        /\ index' = [e \in FdEvents |-> IF e \in E THEN 0 ELSE index[e]]
        /\ readFds' = readFds \ {fd[e] : e \in E}
        /\ IF \E e \in E : fd[e] + 1 = nfds
           THEN \E n \in left \cup {0} :
                    /\ \A m \in left : m <= n
                    /\ nfds' = n + 1
           ELSE nfds' = nfds
        /\ added' = added \ E
        /\ UNCHANGED fd

\* Fault: the timer goes to the end of the list.
TimerAddAtEnd(tm, delay) ==
    /\ timer_list' = Append(timer_list, tm)
    /\ timeout' = [timeout EXCEPT ![tm] = now + delay]

\* ril_timer_add: walk over the timers that expire earlier, insert before the
\* first that does not.
TimerAdd(tm, delay) ==
    LET due == now + delay
    IN  \E i \in 1..(Len(timer_list) + 1) :
            /\ \A j \in 1..(i - 1) : timeout[timer_list[j]] < due
            /\ i <= Len(timer_list) => timeout[timer_list[i]] >= due
            /\ timer_list' = InsertAt(timer_list, i, tm)
            /\ timeout' = [timeout EXCEPT ![tm] = due]

-----------------------------------------------------------------------------
(* Initial state: globals, and ril_event_init before the start is signalled *)

Init ==
    /\ watch_table = [i \in Slots |-> NULL]
    /\ index = [e \in FdEvents |-> 0]
    /\ fd = [e \in FdEvents |-> NoFd]
    /\ readFds = {}
    /\ nfds = 0
    /\ timer_list = <<>>
    /\ timeout = [tm \in Timers |-> 0]
    /\ pending_list = <<>>
    /\ pc = "pipe"
    /\ rfds = {}
    /\ ptv = NoTimeout
    /\ running = NULL
    /\ pipe = FALSE
    /\ readable = {}
    /\ now = 0
    /\ thread = [t \in Threads |-> "idle"]
    /\ added = {}

-----------------------------------------------------------------------------
(* The event thread                                                        *)

\* eventLoop: pipe() and the assignment of s_fdWakeupWrite.
CreatePipe ==
    /\ pc = "pipe"
    /\ pc' = "register"
    /\ UNCHANGED <<table, timers, pending_list, rfds, ptv, running, pipe, env,
                   thread>>

\* eventLoop: s_wakeupfd_event is set and added, ril_event_loop is entered.
RegisterWakeup ==
    /\ pc = "register"
    /\ \E f \in FreeFds : EventAdd(Wakeup, f)
    /\ pc' = "copy"
    /\ UNCHANGED <<timers, pending_list, rfds, ptv, running, pipe, env, thread>>

\* memcpy(&rfds, &readFds), without the mutex.
CopyFds ==
    /\ pc = "copy"
    /\ rfds' = readFds
    /\ pc' = "calc"
    /\ UNCHANGED <<table, timers, pending_list, ptv, running, pipe, env, thread>>

\* Fault: the list is taken for empty.
CalcNoTimeout ==
    /\ pc = "calc"
    /\ ptv' = NoTimeout
    /\ pc' = "select"
    /\ UNCHANGED <<table, timers, pending_list, rfds, running, pipe, env, thread>>

\* calcNextTimeout, without the mutex: the head of the sorted list.
CalcNextTimeout ==
    /\ pc = "calc"
    /\ ptv' = IF timer_list = <<>> THEN NoTimeout
              ELSE IF timeout[Head(timer_list)] > now
                   THEN timeout[Head(timer_list)] ELSE now
    /\ pc' = "select"
    /\ UNCHANGED <<table, timers, pending_list, rfds, running, pipe, env, thread>>

Ready == {f \in rfds : /\ f < nfds
                       /\ f \in readable \/ (pipe /\ f = fd[Wakeup])}

TimedOut == ptv # NoTimeout /\ now >= ptv

SelectReturn ==
    /\ pc = "select"
    /\ Ready # {} \/ TimedOut
    /\ rfds' = Ready
    /\ ptv' = NoTimeout
    /\ pc' = "timeouts"
    /\ UNCHANGED <<table, timers, pending_list, running, pipe, env, thread>>

\* EINTR: the kernel reports a signal only when it has nothing better.
SelectInterrupted ==
    /\ pc = "select"
    /\ Ready = {} /\ ~TimedOut
    /\ ptv' = NoTimeout
    /\ pc' = "copy"
    /\ UNCHANGED <<table, timers, pending_list, rfds, running, pipe, env, thread>>

\* The expired prefix of timer_list moves to the end of pending_list.
ProcessTimeouts ==
    /\ pc = "timeouts"
    /\ \E k \in 0..Len(timer_list) :
          /\ \A j \in 1..k : now > timeout[timer_list[j]]
          /\ k < Len(timer_list) => ~(now > timeout[timer_list[k + 1]])
          /\ pending_list' = pending_list \o SubSeq(timer_list, 1, k)
          /\ timer_list' = SubSeq(timer_list, k + 1, Len(timer_list))
    /\ pc' = "readies"
    /\ UNCHANGED <<table, timeout, rfds, ptv, running, pipe, env, thread>>

\* The slots of S in the order of the table.
InSlotOrder(S) ==
    {m \in [1..Cardinality(S) -> S] : \A j, k \in DOMAIN m : j < k => m[j] < m[k]}

\* In slot order, each watched event whose descriptor select returned becomes
\* pending; those that are not persistent leave the table.
ProcessReadReadies ==
    /\ pc = "readies"
    /\ LET hits == {i \in Slots : watch_table[i] # NULL
                                 /\ fd[watch_table[i]] \in rfds}
       IN  \E m \in InSlotOrder(hits) :
              pending_list' = pending_list
                              \o [k \in 1..Cardinality(hits) |-> watch_table[m[k]]]
    /\ RemoveWatch({e \in Watched \ Persistent : fd[e] \in rfds})
    /\ rfds' = {}
    /\ pc' = "fire"
    /\ UNCHANGED <<timers, ptv, running, pipe, env, thread>>

\* firePending, one event: unlink it and enter its callback.
FirePending ==
    /\ pc = "fire"
    /\ pending_list # <<>>
    /\ running' = Head(pending_list)
    /\ pending_list' = Tail(pending_list)
    /\ pc' = "callback"
    /\ UNCHANGED <<table, timers, rfds, ptv, pipe, env, thread>>

\* Fault: a round ends with events still pending.
FireDoneEarly ==
    /\ pc = "fire"
    /\ pc' = "copy"
    /\ UNCHANGED <<table, timers, pending_list, rfds, ptv, running, pipe, env,
                   thread>>

\* firePending: the list is empty, the next round begins.
FireDone ==
    /\ pc = "fire"
    /\ pending_list = <<>>
    /\ pc' = "copy"
    /\ UNCHANGED <<table, timers, pending_list, rfds, ptv, running, pipe, env,
                   thread>>

-----------------------------------------------------------------------------
(* Callbacks, on the event thread.  They call the API without triggerEvLoop, *)
(* whose pthread_equal test finds the event thread.                          *)

\* processWakeupCallback: read until the pipe is empty.
WakeupCallback ==
    /\ pc = "callback" /\ running = Wakeup
    /\ pipe' = FALSE
    /\ running' = NULL
    /\ pc' = "fire"
    /\ UNCHANGED <<table, timers, pending_list, rfds, ptv, env, thread>>

\* rilEventAddWakeup on an event that nobody holds: with the descriptor it has
\* (the listen event put back) or a new one (ril_event_set on a connection).
CallbackEventAdd(e, f) ==
    /\ pc = "callback" /\ running # Wakeup
    /\ e \in FdEvents \ (added \cup {Wakeup}) /\ e \notin Pending
    /\ EventAdd(e, f)
    /\ UNCHANGED <<timers, pending_list, loop, pipe, env, thread>>

\* ril_event_del of the event whose callback runs, which closed its descriptor.
CallbackEventDel ==
    /\ pc = "callback" /\ running \in Watched \ {Wakeup}
    /\ RemoveWatch({running})
    /\ readable' = readable \ {fd[running]}
    /\ UNCHANGED <<timers, pending_list, loop, pipe, now, thread>>

CallbackTimerAdd(tm, delay) ==
    /\ pc = "callback" /\ running # Wakeup
    /\ Idle(tm)
    /\ now + delay < MaxTime
    /\ TimerAdd(tm, delay)
    /\ UNCHANGED <<table, pending_list, loop, pipe, env, thread>>

\* The callback returns: a descriptor's has read its input or not, a timer's
\* (userTimerCallback) frees the UserCallbackInfo.
CallbackReturn ==
    /\ pc = "callback" /\ running # Wakeup
    /\ readable' \in IF running \in FdEvents
                     THEN {readable, readable \ {fd[running]}} ELSE {readable}
    /\ timeout' = [tm \in Timers |-> IF tm = running THEN 0 ELSE timeout[tm]]
    /\ running' = NULL
    /\ pc' = "fire"
    /\ UNCHANGED <<table, timer_list, pending_list, rfds, ptv, pipe, now, thread>>

-----------------------------------------------------------------------------
(* The other threads                                                       *)

\* rilEventAddWakeup, first half: ril_event_add.
ThreadEventAdd(t, e, f) ==
    /\ thread[t] = "idle"
    /\ e \in FdEvents \ (added \cup {Wakeup}) /\ Idle(e)
    /\ EventAdd(e, f)
    /\ thread' = [thread EXCEPT ![t] = "trigger"]
    /\ UNCHANGED <<timers, pending_list, loop, pipe, env>>

\* internalRequestTimedCallback, first half: a fresh UserCallbackInfo is
\* allocated and its event handed to ril_timer_add.
ThreadTimerAdd(t, tm, delay) ==
    /\ thread[t] = "idle"
    /\ Idle(tm)
    /\ now + delay < MaxTime
    /\ TimerAdd(tm, delay)
    /\ thread' = [thread EXCEPT ![t] = "trigger"]
    /\ UNCHANGED <<table, pending_list, loop, pipe, env>>

\* Fault: no byte is written.
TriggerNothing(t) ==
    /\ thread[t] = "trigger"
    /\ thread' = [thread EXCEPT ![t] = "idle"]
    /\ UNCHANGED <<table, timers, pending_list, loop, pipe, env>>

\* triggerEvLoop.  Until eventLoop has made the pipe the byte goes to
\* descriptor 0, the initial value of s_fdWakeupWrite.
TriggerEvLoop(t) ==
    /\ thread[t] = "trigger"
    /\ pipe' = (pipe \/ pc # "pipe")
    /\ thread' = [thread EXCEPT ![t] = "idle"]
    /\ UNCHANGED <<table, timers, pending_list, loop, env>>

-----------------------------------------------------------------------------
(* The kernel                                                              *)

InputArrives(e) ==
    /\ e \in Watched \ {Wakeup}
    /\ fd[e] \notin readable
    /\ readable' = readable \cup {fd[e]}
    /\ UNCHANGED <<table, timers, pending_list, loop, pipe, now, thread>>

Tick ==
    /\ now < MaxTime
    /\ now' = now + 1
    /\ UNCHANGED <<table, timers, pending_list, loop, pipe, readable, thread>>

-----------------------------------------------------------------------------

LoopStep ==
    \/ CreatePipe \/ RegisterWakeup
    \/ CopyFds \/ CalcNextTimeout \/ SelectReturn
    \/ ProcessTimeouts \/ ProcessReadReadies
    \/ FirePending \/ FireDone

Next ==
    \/ LoopStep \/ SelectInterrupted
    \/ WakeupCallback \/ CallbackEventDel \/ CallbackReturn
    \/ \E e \in FdEvents, f \in FreeFds : CallbackEventAdd(e, f)
    \/ \E tm \in Timers, d \in 0..MaxDelay : CallbackTimerAdd(tm, d)
    \/ \E t \in Threads :
        \/ \E e \in FdEvents, f \in FreeFds : ThreadEventAdd(t, e, f)
        \/ \E tm \in Timers, d \in 0..MaxDelay : ThreadTimerAdd(t, tm, d)
        \/ TriggerEvLoop(t)
    \/ \E e \in FdEvents : InputArrives(e)
    \/ Tick

Spec == Init /\ [][Next]_vars

\* The event thread is scheduled, callbacks return, a thread that added an
\* event goes on to write its byte, and time passes.
Fairness ==
    /\ WF_vars(LoopStep)
    /\ WF_vars(WakeupCallback \/ CallbackReturn)
    /\ \A t \in Threads : WF_vars(TriggerEvLoop(t))
    /\ WF_vars(Tick)

FairSpec == Spec /\ Fairness

-----------------------------------------------------------------------------
(* Properties                                                              *)

\* A byte is in the pipe, or a thread is about to write one.
WakeComing == pipe \/ \E t \in Threads : thread[t] = "trigger"

\* The select call (or the one being prepared) returns in time for tm.
SelectCovers(tm) == ptv # NoTimeout /\ (ptv <= timeout[tm] \/ ptv <= now)

\* Shapes of the loop's state: the table holds events or NULL, the lists hold
\* what ril_event_add and ril_timer_add were given.
TypeOK ==
    /\ watch_table \in [Slots -> FdEvents \cup {NULL}]
    /\ index \in [FdEvents -> 0..MAX_FD_EVENTS]
    /\ fd \in [FdEvents -> Fds \cup {NoFd}]
    /\ readFds \subseteq Fds /\ nfds \in Nat
    /\ timer_list \in Seq(Timers) /\ timeout \in [Timers -> Nat]
    /\ pending_list \in Seq(Events)
    /\ pc \in {"pipe", "register", "copy", "calc", "select", "timeouts",
               "readies", "fire", "callback"}
    /\ rfds \subseteq Fds /\ ptv \in Nat \cup {NoTimeout}
    /\ running \in Events \cup {NULL}
    /\ pipe \in BOOLEAN /\ readable \subseteq Fds /\ now \in Nat
    /\ thread \in [Threads -> {"idle", "trigger"}]
    /\ added \subseteq FdEvents

\* The table, the back pointers and what select is told agree: an event sits in
\* the slot its index names and in no other, readFds is the set of watched
\* descriptors and nfds exceeds them all (ril_event_add and removeWatch keep
\* five pieces of state in step across every order of adds and removals).
TableConsistent ==
    /\ \A e \in FdEvents, i \in Slots : watch_table[i] = e <=> index[e] = i
    /\ readFds = WatchedFds
    /\ \A f \in readFds : f < nfds

\* No registration is lost: what clients handed to ril_event_add and did not
\* get back stays in the table, although ril_event_add drops an event silently
\* when it finds no free slot.
NoLostAdd == added \subseteq Watched

\* The intrusive next/prev pointers belong to one list at a time: an event is
\* linked at most once in timer_list and pending_list together, the running
\* one in neither, and a one-shot event is never watched while it is pending.
LinkedOnce ==
    /\ IsInjective(timer_list) /\ IsInjective(pending_list)
    /\ Timed \cap Pending = {}
    /\ running \notin Timed \cup Pending
    /\ (Pending \ Persistent) \cap Watched = {}

\* The event thread never sleeps on outdated arguments without a wake-up on its
\* way: once it copied readFds, a descriptor missing from the copy, and once it
\* chose a time-out, a timer due before it, imply a byte in the pipe or a thread
\* committed to writing one, and the pipe is in the descriptor set.
NoLostWakeup ==
    /\ pc \in {"calc", "select"} =>
          /\ fd[Wakeup] \in rfds
          /\ readFds \subseteq rfds \/ WakeComing
    /\ pc = "select" => (\A tm \in Timed : SelectCovers(tm)) \/ WakeComing

\* A timer's callback starts strictly after its time-out, and never while a
\* timer with an earlier time-out still waits in either list, whatever threads
\* add timers between processTimeouts and firePending.
FireInDeadlineOrder ==
    [][\A tm \in Timers : running' = tm /\ running # tm =>
          /\ timeout[tm] < now
          /\ \A o \in (Timed \cup Pending) \cap Timers :
                timeout[tm] <= timeout[o]]_vars

\* Every timer that any thread added is eventually called back.
TimerFires == \A tm \in Timers : tm \in Timed ~> running = tm

\* Input that stays on a watched descriptor is eventually handed to its
\* callback, even if the event was added while the loop was inside select.
FdServiced ==
    \A e \in FdEvents \ {Wakeup} :
        e \in Watched /\ fd[e] \in readable ~>
            running = e \/ ~(e \in Watched /\ fd[e] \in readable)

-----------------------------------------------------------------------------
(* The inductive invariant behind TableConsistent, NoLostAdd, LinkedOnce   *)
(* and NoLostWakeup                                                        *)

\* The watched events are exactly those handed over, on descriptors of their own.
TableCore ==
    /\ TableConsistent
    /\ added = Watched
    /\ \A e \in Watched : fd[e] \in Fds
    /\ \A a, b \in Watched : fd[a] = fd[b] => a = b

\* From RegisterWakeup on, the pipe is watched.
WakeupWatched == Wakeup \in added <=> pc \notin {"pipe", "register"}

\* ril_timer_add keeps the list sorted.
TimersSorted ==
    \A i, j \in 1..Len(timer_list) :
        i < j => timeout[timer_list[i]] <= timeout[timer_list[j]]

\* pending_list is drained before the next round, and filled in two steps.
PendingPhase ==
    /\ pc \notin {"readies", "fire", "callback"} => pending_list = <<>>
    /\ pc = "readies" => Pending \subseteq Timers
    /\ pc # "callback" => running = NULL

IInv ==
    /\ TypeOK /\ TableCore /\ WakeupWatched
    /\ LinkedOnce /\ TimersSorted /\ PendingPhase
    /\ NoLostWakeup

\* What FireInDeadlineOrder needs besides: processTimeouts takes what is due from a
\* sorted list, and what is added later is due later.
DueInOrder ==
    /\ \A tm \in Pending \cap Timers :
          timeout[tm] < now /\ \A o \in Timed : timeout[tm] <= timeout[o]
    /\ \A i, j \in 1..Len(pending_list) :
          i < j /\ pending_list[i] \in Timers /\ pending_list[j] \in Timers
             => timeout[pending_list[i]] <= timeout[pending_list[j]]

=============================================================================
