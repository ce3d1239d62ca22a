# A TLA+ model of the Lenovo Stuttgart device tree

The repository is an Android device tree. Most of it is configuration and
binaries; the programs in it are a fork of libril (the radio interface daemon's
library), the Bluetooth/FM switch, the recovery's frame-buffer code, the
over-the-air packaging tools and a Java subclass of the telephony framework's
RIL. This directory holds TLA+ modules for those programs, TLC configurations
and proofs for TLAPS. libril comes first: it is the largest, the only one with
several threads on shared state, and every phone call goes through it.

    tlc -workers 2 -config RilEvent.cfg MCRilEvent.tla      # a run
    tlapm RilEventProofs.tla                                # the proofs
    tlapm RilRequestsProofs.tla
    tlapm RilUnsolicitedProofs.tla
    tlapm RilRadioProofs.tla
    tlapm RilParcelProofs.tla
    tlapm RilCommandProofs.tla
    tlapm BtFmSwitchProofs.tla
    tlapm GrFlipProofs.tla

`PROJECT.json` lists components, runs, mutants, hazards, theorems, and the source
lines each definition stands for.

## Inventory

| component | state it keeps | operations | interacts with |
|---|---|---|---|
| event loop, `libs/libril/ril_event.cpp` | `watch_table`, `readFds`, `nfds`, `timer_list`, `pending_list` under `listMutex` | `ril_event_add/del`, `ril_timer_add`, `ril_event_loop` | any thread registers; `ril.cpp` adds the wake-up pipe and the callbacks |
| requests, `libs/libril/ril.cpp` | `s_pendingRequests` (its mutex), `s_fdCommand` (none), the socket (`s_writeMutex`) | `listenCallback`, `processCommandsCallback`, `processCommandBuffer`, dispatch, `RIL_onRequestComplete`, `sendResponseRaw`, `onCommandsSocketClosed` | event thread and vendor threads share the list and the socket |
| connections and debug port | the four `ril_event`s, `s_fdListen`, `s_fdDebug` | `listenCallback`, `debugCallback` | the loop, the requests |
| unsolicited messages, wake lock, NITZ | `s_last_wake_timeout_info`, `s_lastNITZTimeData`, the kernel's wake lock (no mutex) | `RIL_onUnsolicitedResponse`, `wakeTimeoutCallback`, `userTimerCallback`, `onNewCommandConnect` | timers of the loop, `sendResponseRaw` |
| radio state cache | `voiceRadioTech`, `cdmaSubscriptionSource`, `simRuimStatus` (no mutex) | `processRadioState`, the decode functions | unsolicited messages, dispatch |
| startup | `s_started`, `s_registerCalled` | `RIL_startEventLoop`, `eventLoop`, `RIL_register` | the loop |
| parcels | none | dispatch (decode), `response*` (encode), `StuttgartRIL.java` (decode) | the socket's bytes |
| Bluetooth/FM switch, `bluetooth/bluetooth.c` | `bt_current_state`, system properties, daemons | `bt_enable`, `bt_disable`, `fm_enable`, `fm_disable` | init, btld, bluetoothd |
| Bluetooth MAC file | a file made from a template | `ensure_bt_mac_file_exists`, `get_bt_mac` | file system, crashes |
| recovery graphics, `recovery/graphics.c` | two frame buffers, the active one | `gr_init`, `gr_flip`, `gr_text`, `gr_exit` | the kernel's fb driver |
| release tools, `releasetools/` | target files, the edify script, a queue of diffs | `WriteFullOTAPackage`, `WriteIncrementalOTAPackage`, `ComputeDifferences` | the recovery that runs the script |
| init scripts, boot mode | properties, services | triggers in `rootdir/`, `init.c.patch` | USB mode, boot into charger or recovery |

What is hard, component by component, and what would make each correct:

* **event loop** - other threads change what the event thread is sleeping on.
  Correct: no wake-up lost, table, pointers and `nfds` agree, an event is on one
  list at a time, no registration dropped, timers in order and eventually.
* **requests** - the request leaves the list under one mutex, is tested without
  one, and is written under another, while the connection closes and opens.
  Correct: at most one reply, none that was not asked for or was abandoned,
  frames whole, no use after free, every completion returns.
* **startup, connections, debug port** - a one-shot listen event, calls that fail,
  a debug port that closes the command socket behind the loop's back, a restart.
  Correct: the daemon listens or serves, never neither and never both, and the
  framework gets its connection.
* **wake lock, NITZ** - a lock that is not counted, a timer cancelled and a time
  message kept through unprotected pointers. Correct: the lock is released in the
  end, the last time message is told or kept.
* **radio state** - racy compare-and-set. Correct: the framework ends up knowing
  the last value.
* **parcels** - hand-written readers and writers for a hundred commands, in two
  languages, over parcels that may be short. Correct: read(write(x)) = x, nothing is
  made up.
* **Bluetooth/FM** - the mutex is made by whoever finds it not made, the handler is
  picked before it is taken; waits time out by one count for all callers, and the
  state is set as if they had not. Correct: one handler at a time, in the state it is
  for; the daemons match the state; every call returns.
* **recovery graphics** - two buffers and a driver that may refuse to swap.
  Correct: what was flipped is seen; files, surface and console are given back.
* **OTA** - an installation interrupted and run again. Correct: it ends with the
  target image or refuses.

## Plan

Done: every component whose logic is in this repository, in the order of the
table; an inductive invariant and proofs for each of them; the refinement of
`RequestLedger`. Left:

* a fourth call in `MCBtFmSwitch`, should the state space allow it.

## Modules

### RilEvent - the event loop

A variable per global of `ril_event.cpp`, with its name. The intrusive lists are
sequences; `LinkedOnce` states what the intrusive pointers need. The event
thread's `pc` walks through one iteration of `ril_event_loop`: `copy` (memcpy of
`readFds`), `calc` (`calcNextTimeout`), `select`, `timeouts`, `readies`, `fire`,
`callback`; before that `eventLoop` makes the pipe and registers it. One API call
is one action because it holds `listMutex` throughout; a callback makes any number
of calls before it returns. Another thread's `rilEventAddWakeup` or
`RIL_requestTimedCallback` is two actions, the list operation and the byte to the
pipe, since the loop can run in between.

Abstractions: the unlocked `memcpy` and `calcNextTimeout` are one read each
(torn copies of one machine word's bits are not modelled); the relative time-out
of `select` is a deadline; the bytes in the pipe are a Boolean, as
`processWakeupCallback` reads until it is empty; addresses of freed timers are
reused at once. Clients follow the discipline of `ril.cpp`: they add an event
nobody holds and delete only the running one. The debug port breaks that
discipline; `RilConnection` has it. Other `select` errors end the loop and the
process; see `LoopDies` in `RilRequests`.

`CapacityAssumption`, that the clients own at most `MAX_FD_EVENTS` events, is what
`ril.cpp` satisfies with 4 events of 8 slots.

### RequestLedger, RilRequests - the life of a request

`RequestLedger` is the promise to the framework: a submitted request is outstanding
until it is replied to, once, or dropped; nothing else is replied to.

`RilRequests` has the event thread (`epc`), and for each thread, the event thread
included, a position `wpc` in `RIL_onRequestComplete`/`sendResponseRaw`:
`dequeue` (list mutex), `check` (`cancelled`), `send` (reads `s_fdCommand`, the
size test), `header` and `body` (the two writes under `s_writeMutex`). The kernel
side is one open descriptor for connection number `conn`; a write goes to whatever
connection the number names at that moment, or fails: EAGAIN on the non-blocking
socket, EPIPE, EBADF. `blockingWrite` then closes the number. A request's
`kind` decides what happens to it: answered (by a vendor thread, or within
`onRequest` on the event thread), answered with too much data, outside
the table, malformed, completed twice by the functions that lack a `return`, or
local. `info` is the heap of RequestInfos by address, so that use after free and
reuse of an address are visible. `stream` and `origin` record what was written
where and which connection asked.

The event thread reacts to a descriptor closed under it in two ways, and both are
in the model: it was already past `select` and reads EBADF (`CommandsClosed`), or
`select` fails, the loop returns and the process kills itself (`LoopDies`), after
which a new one starts empty.

Abstractions: payloads are kinds; a write succeeds whole or fails (a partial write
before a failure leaves a torn last frame on a connection that is closed at that
moment); the greeting of a new connection is its first two messages, NITZ and
other unsolicited messages are in `RilUnsolicited`; calloc does not fail;
`assert`s are taken to hold where the state shows they do; no other part of the
process opens descriptors between a close and an accept.

### RilConnection, RilRadio - coming up, staying reachable, the radio's state

`RilConnection` has the main thread (`main`: `RIL_startEventLoop`, then
`RIL_register` with its two sockets) and the event thread (`loop`). The table of the
event loop is the set of events that are watched; those that are ready go through
`pending`, in the order of their slots, as in `firePending`. A callback is one step, but
for `debugCallback`, which may sit in `recv`. `RilEvent` shows that the loop
serves what is added to it, so `Select` may take every watched event for granted.

`MaxFaults` counts failing calls (`pthread_create`, `pipe`, `listen`, `accept`), spurious
wake-ups of the main thread, strangers on the rild socket and visits to the debug
port. Some of it cannot be recovered from; `Stuck` lists that, because
`FrameworkServed` must except it:

* `pthread_create` fails: it returns a positive number and starts nothing, the test
  for `ret < 0` never succeeds, the main thread waits for `s_started` for ever;
* the pipe cannot be made: the event thread returns after the hand-shake, and the
  daemon runs deaf;
* a visitor of the debug port who says nothing: `recv` blocks the event thread.

Others cure themselves: the debug port's close of `s_fdCommand` leaves the event
watched on a closed descriptor, `select` fails, and init starts the process anew.

`RilRadio` EXTENDS it with the three globals decoded from the radio state. A vendor
thread in `processRadioState`, the event thread greeting a connection with the same
function, and the two requests answered from the globals read and store them one
field at a time; a request takes three steps, reading the state, decoding it into the
global and answering from the global. `raced` remembers that two were decoding at once; then the earlier
state can be the one that sticks, until the next change.

### RilUnsolicited - messages nobody asked for

`RIL_onUnsolicitedResponse`, one access to shared state per step, on vendor threads
and on the event thread during a greeting. The wake lock is a Boolean, as the kernel
does not count. `info` is the heap of `UserCallbackInfo`s and `timers` the list of
pending ones, `s_last_wake_timeout_info` a pointer that may dangle. A NITZ time is a
number, 0 for none. Writing is one step that succeeds if there is a connection:
`RilRequests` has its inside.

The comment where the lock is taken (`as we exit we'll either release it immediately
or set a timer to release it later`) reads as if the lock lasted until the message's
own release. It need not: the timer of an earlier message may release it while a
later one is still inside. The phone may then sleep a second early;
`WakeLockAccounted` and `WakeLockReleased` say that it is never kept awake for good.

### RilParcel, RilDispatch, RilResponse, RilCommand - requests as data

`RilParcel` is the reader of a parcel as libbinder behaves: a parcel is a sequence of
words, a string its length and its characters; a read past the end changes nothing
and leaves an error. A number that was not read is `Unread`. `cut` says that a string
was cut, after which the parcel's position is inside its characters.

`RilDispatch` and `RilResponse` have one operator per dispatch and response function.
A structure's fixed part is a layout, the list of its fields in the order in which
they are written; reader and writer name theirs separately, so that a swapped field
is seen. What differs between functions is written out: which status is checked, what
is a null pointer, which sizes and counts are refused, and what was already written
by then. Of `StuttgartRIL.java` there are `responseCallList` and
`responseSignalStrength`, which decode by themselves.

`RilCommand` is the life of one request over them: the framework sends a parcel of
which a prefix arrives, `processCommandBuffer` dispatches it, the vendor RIL completes
it, perhaps twice, the reply is written. `s_commands` is reduced to the pairs of
functions the table contains.

Seen while modelling, and excepted where a property speaks of it: a truncated raw
block hands the vendor RIL a null pointer with a positive length; a cut inside the
path of SIM_IO is read as the numbers behind it; the signal level's test for
`< 0` is dead because the value was masked to eight bits before (-1 is shown as 31); a
refused data-call list leaves its version word in the reply; a malformed request
stays in `s_pendingRequests` and is never answered.

### BtFmSwitch - Bluetooth and FM

Each of `bt_enable`, `bt_disable`, `fm_enable`, `fm_disable` is a thread's walk through
`pc`: for `bt_enable` first the address file, then the choice of the handler by
`bt_current_state`, the lazily made mutex, the handler with the starting or stopping of
the daemons, the new state, the release. A step is one access to what threads share:
`BT_LOCK_MUTEX` is four of them (test of the flag, its setting, `pthread_mutex_init`,
the lock), so that two first callers can both make the mutex. btld and bluetoothd are
processes (`down`, `starting`, `up`, `dying`) with a property each; init starts and
stops them on `ctl.start` and `ctl.stop`. A signal to btld may fail unnoticed.

A wait for a property (`loop`) is the code's: `retry_cnt` is set, decremented in two
steps (it is a plain variable), tested; the daemon is looked at; what decides in the
end is `retry_cnt` again, whoever changed it last. It is static, and so the count of all
callers at once. The two numbers of retries are constants. Once two handlers run at a
time, one may take the count past 0 for the other, and that wait ends only with its
daemon: below 0 the count would be back at 0 after 2^32 turns, so -1 stands for all of
that.

`DaemonsFollowState` says what survives all that. What does not is in its exceptions:
a handler that ran in a state it was not for (`stale`), a mutex made anew while it was
locked (`initRace`), a start or stop that was left early (`incomplete`) until the next one
finishes, and a start that trusted the property of an earlier bluetoothd
(`unawaited`): a stop that times out leaves the property set, and the next start
returns before bluetoothd is up. `MacFileWhole` excepts an address file that was left
empty by a crash, or by a write whose failure nobody looks at (`spoilt`).

### GrFlip - the recovery's screen

`gr_init` with each of its failures, drawing, the copy and the swap of `gr_flip`,
`gr_exit`. The two buffers and the memory surface hold pictures; the framebuffer is mapped
by each `gr_init` and never unmapped (`mapped`). `malloc` may fail, which nobody looks at,
and the program ends with the first drawing or copy (`crashed`). `KD_TEXT` may fail as
well, unnoticed (`kept`): `GivenBack` says no more of the console, and does not say that
the mapping is given back. A swap may be refused
by the driver: `gr_flip` goes on as if it had not been, so that the next flip writes
into the buffer that is shown, and the screen may be one flip behind, never two.
`gr_exit` keeps the freed pointer: a `gr_init` that fails after an earlier
session frees it again (`freedTwice`).

### MC modules and bounds

* `MCRilEvent`: the pipe, a persistent and a one-shot event in a table of exactly
  three slots (so the full table and the last slot are reached), three descriptor
  numbers (so numbers move between events), two timers with delays 0 and 1 over
  three clock values (equal, earlier and later time-outs), one other thread. One is
  enough: two threads' registrations are ordered by `listMutex` and each
  only leaves one more byte. The liveness run drops the persistent event.
  `MaxTime` stops the clock, and timers are only added so early that they still can
  expire: the bound must not be what keeps a timer from firing.
* `MCRilRequests`: two requests of every combination of kinds, two addresses, two
  vendor threads (three writers with the event thread), two connections with the same
  or another descriptor number. A third connection adds nothing a stale write could
  tell from the second. Addresses and vendor threads are symmetric; the liveness run
  uses no symmetry, one vendor thread and the kinds that must be answered.
  Runs of this module allow deadlock: a framework that is silent, or
  `MaxConns` connections used up, is a legitimate end.
* `MCRilUnsolicited`: two vendor threads with scripts of up to three messages, chosen so
  that each pair of accesses to the timer pointer and to the NITZ pointer meets; one
  connection with its greeting. There are as many addresses as a run can have
  timers, and malloc hands out a freed one first, the case in which a stale pointer
  finds another thread's timer.
* `MCRilRadio`: two changes of the radio, of four kinds; two faults or visits; the
  framework closes once. Closing once gives two connections, the second found by
  whatever the first left.
* `MCRilCommand`: values of fields are all different, arrays hold up to two elements and
  counts say up to three; the limits of the structures are scaled to 2 and 1 so that
  too little, enough and too much are all reached. Every prefix of every parcel
  arrives, every version from 2 to 7 is tried.
* `MCBtFmSwitch`: two callers, one that calls twice and one that calls once, which share
  `MaxEvents`, three, with failing system calls and crashes: three calls, or two and a
  fault, or one and two. Three calls are a switch on, a second of the other kind and a
  switch off under both. `StartRetries` is 2 and `StopRetries` 3, which is one look at a
  daemon that starts and two at daemons that stop: enough for each wait to end by its
  daemon and by time-out, and for a count to be set back and taken past 0 by another
  caller. The invariants were also checked once with four events, three of them calls
  by either caller (6.5 million states), which is too many for a short run. The two
  violations take two events and no fault.
* `MCGrFlip`: three pictures, two mappings; only the mappings need a bound.

## What the runs show

| run | properties | result |
|---|---|---|
| `event_loop` | `TypeOK`, `TableConsistent`, `NoLostAdd`, `LinkedOnce`, `NoLostWakeup`, `FireInDeadlineOrder` | hold |
| `event_loop_live` | `TimerFires`, `FdServiced` | hold under `Fairness` |
| `requests` | `TypeOK`, `HeldAllocated`, `FramesWhole`, `AbandonedNotReported`, `KeepsLedger` | hold |
| `requests_live` | `CompletionReturns`, `AnsweredOrLost` | hold under `Fairness` |
| `late_reply` | `NoReplyToLaterConnection` | violated |
| `connection_radio` | `RadioTypeOK`, `StartedInOrder`, `ListensOrServes`, `RadioAgrees`, `FrameworkServed` | hold, the last under `Fairness` |
| `unsolicited` | `TypeOK`, `WakeLockAccounted`, `NitzKept`, `NitzFreedOnce`, `WakeLockReleased` | hold, the last under `Fairness` |
| `commands` | `NoNumberMadeUp`, `CutRequestHonest`, `SameFormat`, `CallsReadBack`, `SignalReadable`, `NetworksGrouped`, `RefusedReplyMarked` | hold |
| `bt_fm_switch` | `DaemonsFollowState`, `MacFileWhole`, `SwitchedByItsCaller`, `CallReturns` | hold, the last under `Fairness` |
| `bt_fm_entry` | `EntryState` | violated |
| `bt_fm_mutex` | `OneInside` | violated |
| `recovery_screen` | `ScreenFollows`, `GivenBack` | hold |

`KeepsLedger` is the refinement `RilRequests => RequestLedger`. The double
completion of `dispatchVoiceRadioTech` turns out harmless because only the event
thread allocates, so the freed address cannot be on the list again when it is
completed a second time.

The three violations are recorded as findings. `NoReplyToLaterConnection` is the
comment of `onCommandsSocketClosed`: a request that was dequeued before its
connection closed is not marked, and its response reaches the next connection,
whose serial numbers start afresh. `EntryState` is the comment on each handler of
`bluetooth.c` (`On entry the current state is ...`): the handler is picked before the
mutex is taken, so of two concurrent calls the second runs in a state it is not for
and undoes what the first did. `OneInside` is the comment on the mutex itself (`Mutex to
handle concurrent access to the state machine`): its flag is tested and set without a
lock, so the second of two first callers may make the mutex anew while the first is
inside.

The comment of `processTimeouts` (`now >= ev->timeout`) does not fit its `>` either; the
model has the `>`. It is harmless but for a busy loop until the clock's next microsecond.

Several properties hold but for a race the code does not exclude. The race is then
named by a variable that remembers it (`nitzRaced`, `raced`, `stale`, `initRace`), and the
property says what is right without it; the exception is reached in the runs, and
states where exactly the missing lock bites.

Note what `FramesWhole` does not say: a frame may lose its header to the old
connection and put its body at the very start of the new one, when the number is
reused between the two writes. The property allows exactly that, at the
first position of a stream only.

## Fairness

`RilEvent`: the event thread keeps running (`LoopStep`), callbacks return, a thread
that added an event writes its byte, time passes. `select` interrupted by signals is
not fair, so it may not be what makes progress. Nothing forces anyone to add or
input to arrive. `RilRequests`: the event thread takes enabled steps, each thread
inside `RIL_onRequestComplete` goes on, and the vendor RIL completes what it was
given, which is its contract in `ril.h`. The framework owes nothing. All weak:
s_writeMutex is contended a bounded number of times, and nothing else can be taken
away again and again.

`RilRadio`: both threads of the daemon are scheduled, the vendor thread goes on, and
the framework, which retries every few seconds, connects when it has no connection.
Visitors of the debug port owe nothing. `RilUnsolicited`: threads go on and timers,
which `RilEvent` shows to fire, fire. `BtFmSwitch`: while a caller's thread can go on, some
caller's does; that is enough, even for the mutex, because the calls are bounded.
Nothing is asked of the daemons, so that a wait must end by its count.

## Proofs

`RilEventProofs` proves, for every set of events, timers, threads and descriptors,
every table size and every clock bound, under `EventAssumption` and
`CapacityAssumption`:

* `TypeCorrect`, `TableIsConsistent`, `NoAddIsLost`, `EventsAreLinkedOnce`,
  `NoWakeupIsLost`, each `Spec => []P`, all from `Invariance`, `Spec => []IInv`.

None of the properties is inductive alone. `IInv` adds what their steps rely on:
the watched events are exactly those handed over, on descriptors of their own
(`TableCore`, so that clearing one descriptor's bit does not clear another's and a
free slot exists by counting); the pipe is watched from `RegisterWakeup` on
(`WakeupWatched`); the timers are sorted (`TimersSorted`, so that `select`'s
time-out for the head covers all); the pending list is empty until it is filled in
its two phases, and no callback runs outside `callback` (`PendingPhase`).

The argument is split by concern: lemmas on what each operation does to table and
lists (`EventAddEffect`, `RemoveWatchEffect`, `TimerAddEffect`,
`ProcessTimeoutsEffect`, `ProcessReadReadiesEffect`), then one step lemma for each
group of conjuncts (`TypeStep`, `TableStep`, `ListStep`, `WakeStep`) with one case per
action. `FreeSlot` is where `CapacityAssumption` enters.

`RilRequestsProofs` proves, for every set of requests, addresses, vendor threads
and descriptors and every number of connections, under `RequestAssumption` (the
names are distinct) and `GreetingAssumption`:

* `TypeCorrect`, `NoUseAfterFree`, `AbandonedStayUnreported` and
  `FramesStayWhole`, each `Spec => []P` for a property of the run `requests`.

The first three follow from `Invariance`, whose `IInv` (defined at the end of
`RilRequests`) says who owns what:

* `Phases`: which locals a thread has set in which phase;
* `Ownership`: an address belongs to the vendor RIL, to the thread about to dequeue
  it, or to the one that did, never to two; what the event thread completes a second
  time is off the list by then, so that the second completion frees nothing;
* `OneInfo`: at most one RequestInfo carries a serial number, and none exists for a
  request still in the socket;
* `Marked`: a request abandoned by a closed connection carries the mark while it
  exists, and one whose response is under way does not;
* `Unreported`: a response that was begun is not that of a listed request; without
  it, closing a connection could abandon what was already reported.

`FramesStayWhole` rests on `Framing`: the thread between its two writes is the
holder of s_writeMutex, and an open connection is empty, ends with a whole frame, or
ends with the holder's header. A failed second write keeps it because it closes the
connection that has the header.

The steps of RIL_onRequestComplete have a lemma each (`DequeueStep`, `CheckStep`,
`SendStep`, `WriteHeaderStep`, `WriteBodyStep`) over `FreeingStep`, what `free` and
return do to the invariant, and `AdvanceStep`; all other steps (`QuietStep`) have one
lemma per part of `IInv`, with one case per action.

`RilEventProofs` also has `TimersFireInOrder`, `Spec => FireInDeadlineOrder`. It rests
on `DueInOrder` on top of `IInv`: a pending timer is due strictly before the clock, the
pending ones are in the order of their time-outs, and none of them is later than one
still listed. `DueStep` keeps it: `processTimeouts` splits a prefix off a sorted list,
and whatever is added afterwards has the clock's time at least.

`RilRequestsProofs` also proves the refinement, `LedgerKept`, `Spec => KeepsLedger`. The
mapping reads the ledger off the state: a request is submitted once the framework has
sent it on some connection (the daemon's own never are), replied to as often as its body
is in a stream, outstanding while somebody can still write it. Each step is one of
three: `SendSubmits`, `BodyReplies`, or one that only lets go (`DropsOrStutters`, used
by `QuietDrops`, `FreeingDrops`, `PreparingDrops`, `WritingDrops`). That the body that
is written is of a request that is outstanding, and that after it nothing else is on its
way to a second, is where `Ownership` and `OneInfo` enter (`OnItsWay`, `LessOnItsWay`).
`Counted` adds what counting needs: the bodies written of a request are a finite set,
and a request of the daemon's own was never sent by the framework. `RepliedAtMostOnce`
states what is bought with it: in every state, no request has a second reply and none a
reply that was not asked for.

`RilUnsolicitedProofs`, under `UnsolicitedAssumption`: `TypeCorrect`,
`NeverAwakeForNothing`, `LatestNitzKept`, `FreedTwiceOnlyInRaces`. The invariant adds
where each call is and what its message then must be (`CallsInOrder`), that a timer is
on the list once or is the one that fires (`TimersOnce`, so that cancelling through a
stale pointer hits at most one), that without a race the kept NITZ copy is allocated or
about to be cleared (`OneCopy`) and is the latest or the latest is in the making
(`LatestKept`). The wake-lock argument does not need the pointer to be good: a thread
that cancels another's timer is itself still awake and arms one. Of malloc it uses only
that the address is free; that the model takes the lowest free one matters to the runs
alone.

`RilRadioProofs`, under `ConnectionAssumption` and `RadioAssumption`, for start-up,
connections and radio cache in one: `RadioTypeCorrect`, `ComesUpInOrder`, `NeverDeaf`,
`AgreesWithRadio`. `ListensOrServes` needs `StartUp` (what the main thread has not done
yet) and `Batch`: of the events found ready, the one-shot listen event has left the
table and the others have not, and none is there twice; the lemmas `FoundBatch`,
`TailOfBatch` and `RestOfBatch` follow the batch through the callbacks. `RadioAgrees`
needs three parts. `Doing`: the vendor thread decodes the present state, the event
thread one that is past only if the radio has left the states that are decoded.
`Decoded`: nothing overtakes a thread that decodes alone, field by field. `Informed`: a
connected framework knows a global as it is or is about to be told.

`RilParcelProofs` is about parcels of any length, under `ParcelAssumption` (NULL is nothing
that is there, an unread variable holds no number) and `DispatchAssumption` (nor a list).
What reads or writes many words is a recursive function or a fold here, and what it
does for every count is proved by induction. The library's induction theorems are
about an operator; `SetInduction` and `BoundedInduction` say the same of a set of
numbers, which the provers can instantiate. With them `RunExists`, `ChainExists` and
`FlatExists` show that the functions which `ReadStruct`, `Repeat` and `FlattenSeq` choose
are the ones their equations describe, and the rest goes from one element to the next:

* of any parcel, however short: every field of a structure, array or list that a
  dispatch function hands over has a value of its type (`LinksTook`, `StructTyped` and one
  lemma `...Handed` for each function), because the words before the last were read if
  the last one was;
* of a parcel that begins with what was written: `ValueReadsBack`, `StructReadsBack`,
  `ArrayReadsBack` and `RowsReadBack`, for any layout and count, each also saying
  where the reader then stands, so that they can be put behind each other
  (`AheadParts`). Of the functions themselves there are `StringsReadBack`, `RawReadsBack`,
  `BrReadBack`, `CdmaSmsReadsBack`, `CallForwardReadsBack` and `ListedCallsReadBack`;
* of a parcel and a beginning of it, read by the same function: a simulation. `Follows`
  says that the shorter one has lost something (a number was missing, or a string cut),
  or both stand at the same word, or the shorter one at its end, where only strings
  can still be missing; and that, if nothing is lost, what was read is the same but for
  such strings. Reading a field keeps it (`OneFollows`), hence a structure, an array, a
  list (`StructFollows`, `LinksListed`, `ArrayFollows`, `TextsFollow`, `RowsFollow`), and nothing
  lost is found again (`Onward`), so that a status looked at once, at the end, covers
  what came before. One lemma for each dispatch function (`...Honest`, `StringsCut`,
  `DataCallCut`) puts them together.

`RilCommandProofs`, under the assumptions of the modules it extends, `CommandAssumption`
(NULL is no command, and parcels are words) and `ResponsesAssumption` (the vendor RIL keeps
to the structures of `ril.h`, but for sizes and counts): `RefusedIsMarked`,
`NumbersAreRead`, `CutRequestsAreHonest`, `FormatIsTheSame`, `CallsAreReadBack`,
`SignalIsReadable` and `NetworksAreGrouped`. The invariant follows one request: no reply
before it was looked at, none while it is pending, one as soon as it is not (`Life`,
`OneReply`), what arrived is a beginning of what was sent (`Beginning`), what the vendor RIL was handed is what the
dispatch function makes of it (`Taken`), and the reply is what the response function
makes of what the vendor RIL gave (`Answer`). From `Taken` and `Answer` the properties are
statements about the operators alone. For `CutRequestHonest`, `FreshAlong` starts the
simulation, from `Beginning`, and `AllCut` ends it. `RefusedIsShort` goes through every response
function a command has: what it refuses it has written nothing of, or the version
alone. For `NetworksGrouped` the walk through the strings is followed by
`WalkGroups`, network by network.

The first attempt to prove `CutRequestHonest` found an error of the model. `dispatchDataCall`
reads the strings and puts six of them into a parcel of their own for an older vendor
RIL; the model took that new parcel for whole although the first had been cut inside a
string, so that garbage counted as read from a whole parcel. It now carries the mark
over, and `MCPayloads` has a data call whose first string is long enough to be cut.

`BtFmSwitchProofs`, under `SwitchAssumption`: `DaemonsFollow`, `NoEmptyMacFile`, and of
the steps `SwitchedByTheirCalls`. `Exclusive` says the mutex is held by whoever is inside,
but for a mutex made anew while locked; `InCase` and `InState`, that the caller is in the
case of the switch its handler and its action pick, in the state that this case is for
unless it is stale; `ActiveUp`, that a property set means a daemon that runs once stops
were waited for; `DyingStay` and `InWait`, what a stop that is waiting may rely on: what
it told to die stays dead, and what it saw dead has no property left that says
otherwise; `Progress`, how far the daemons are at each label of a handler, from which
`Follow` is back when it leaves. A start that passes its test with a count other than 0
has seen its daemon active, because without `initRace` nobody else counts.

`GrFlipProofs`, under `PointerAssumption` (NULL and a dangling pointer differ, and neither
is a picture or uninitialized memory): `ScreenNeverFarBehind` and `AllGivenBack`. `Buffers`
says the two frame buffers hold the last two pictures, the older one where the next flip
goes, whichever is shown; `Session`, what the surface's pointer is worth, what is open and
why the console may not be in text mode, at each label of `gr_init`.

Every inductive invariant was checked with TLC on the instance of its run before it was
proved. The assumptions are evaluated by TLC in the runs. All but `CapacityAssumption`
(the daemon's four events in a table of eight) only say that constants have their types
and that names are distinct; `ResponsesAssumption` says it field by field, because what a
response function does with a string where `ril.h` has a number means nothing.

Every invariant and every action property that a passing run checks is proved. Only
model-checked:

* what is under fairness: `TimerFires`, `FdServiced`, `CompletionReturns`,
  `AnsweredOrLost`, `FrameworkServed`, `WakeLockReleased`, `CallReturns`. Liveness and
  ENABLED are out of the prover's reach.
* the violations, which are counterexamples by nature.

## Not modelled

* The release tools: build-time scripts that write a zip file, whose worker threads
  compute one patch each. What makes an interrupted update safe, applypatch and the
  updater that run the script, is not in this repository.
* The init scripts: triggers without state of their own; what they mean is init's.
* Parts of modelled files: the vendor's side of a request, the log and its print
  buffer; in `bluetooth.c` the build alternative with hciattach and `bt_is_enabled`, which
  looks up the rfkill switch and reads it; in `graphics.c` the pixel flinger, the font, which is constant data, and
  the blanking, which changes no state of the program, and a screen with memory for one
  buffer only; in `ril.cpp` a count of elements below zero, which the code takes as the
  size of an array on the stack; in `StuttgartRIL.java` what it
  passes on to the framework's classes.
* alsa, configs, gps, firmware, idc, include, prebuilt libraries, overlays, selinux and
  makefiles: data, headers of others or binaries.
