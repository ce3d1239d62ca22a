--------------------------- MODULE RilConnection ---------------------------
(***************************************************************************)
(* How the daemon of libs/libril/ril.cpp comes up and stays reachable: the *)
(* start-up hand-shake between the main thread and the event thread, the   *)
(* one-shot listen event, the commands connection it accepts, the debug    *)
(* port, and the restart by init when the event loop gives up.             *)
(*                                                                         *)
(* A callback of the event thread is one step, but for the debug port's    *)
(* recv, which may block.  RilEvent has the loop underneath, RilRequests   *)
(* what vendor threads see of a connection.                                *)
(***************************************************************************)
EXTENDS Integers, Sequences

CONSTANTS
    MaxFaults,      \* bound: failures of the system, and visits to the debug port
    MaxCloses       \* bound: times the framework closes its connection

ASSUME ConnectionAssumption == MaxFaults \in Nat /\ MaxCloses \in Nat

VARIABLES
    main,           \* the main thread: where it is in RIL_startEventLoop, RIL_register
    loop,           \* the event thread
    s_started, s_registerCalled,
    watch_table,    \* the events added: "listen", "commands", "debug"
    pending,        \* those found ready, whose callbacks are to run
    s_fdCommand,    \* there is a descriptor in it
    open,           \* that connection is open at this end
    peer,           \* the framework: "away", "connected" or "closed"
    backlog,        \* who waits to be accepted on the command socket
    debugger,       \* the debug port's visitor: "away", "waiting", "silent"
    faults, closes  \* how much of the bounds is used

process   == <<main, loop, s_started, s_registerCalled, watch_table, pending, s_fdCommand, open>>
outside   == <<peer, backlog, debugger>>
spent     == <<faults, closes>>
connVars  == <<process, outside, spent>>

\* A new process, as init starts it.
Fresh ==
    /\ main = "start" /\ loop = "none"
    /\ s_started = FALSE /\ s_registerCalled = FALSE
    /\ watch_table = {} /\ pending = <<>>
    /\ s_fdCommand = FALSE /\ open = FALSE

ConnInit ==
    /\ Fresh
    /\ peer = "away" /\ backlog = <<>> /\ debugger = "away"
    /\ faults = 0 /\ closes = 0

Fault == faults < MaxFaults /\ faults' = faults + 1

\* The process ends (exit, abort or SIGKILL): every connection is closed, init
\* makes new sockets and starts it again.
Restart ==
    /\ main' = "start" /\ loop' = "none"
    /\ s_started' = FALSE /\ s_registerCalled' = FALSE
    /\ watch_table' = {} /\ pending' = <<>>
    /\ s_fdCommand' = FALSE /\ open' = FALSE
    /\ peer' = "away" /\ backlog' = <<>> /\ debugger' = "away"

-----------------------------------------------------------------------------
(* Start-up.  The main thread holds s_startupMutex from "check" to the end *)
(* of "sleep".                                                             *)

MutexFree == main \notin {"check", "sleep"}

\* RIL_startEventLoop, as far as pthread_create, whose failure is a positive
\* number and passes the test for a negative one.
StartEventLoop ==
    /\ main = "start"
    /\ s_started' = FALSE
    /\ main' = "check"
    /\ \/ loop' = "init" /\ UNCHANGED faults
       \/ loop' = "none" /\ Fault
    /\ UNCHANGED <<s_registerCalled, watch_table, pending, s_fdCommand, open, outside, closes>>

CheckStarted ==
    /\ main = "check"
    /\ main' = IF s_started THEN "register" ELSE "sleep"
    /\ UNCHANGED <<loop, s_started, s_registerCalled, watch_table, pending, s_fdCommand,
                   open, outside, spent>>

\* pthread_cond_wait lets go of the mutex.
Sleep ==
    /\ main = "sleep"
    /\ main' = "asleep"
    /\ UNCHANGED <<loop, s_started, s_registerCalled, watch_table, pending, s_fdCommand,
                   open, outside, spent>>

\* Fault: s_started is not tested again.
WakeUpAndGoOn ==
    /\ \/ main = "woken" /\ UNCHANGED faults
       \/ main = "asleep" /\ Fault
    /\ main' = "register"
    /\ UNCHANGED <<loop, s_started, s_registerCalled, watch_table, pending, s_fdCommand,
                   open, outside, closes>>

\* It has it again when it returns, for a signal or for nothing.
WakeUp ==
    /\ \/ main = "woken" /\ UNCHANGED faults
       \/ main = "asleep" /\ Fault
    /\ main' = "check"
    /\ UNCHANGED <<loop, s_started, s_registerCalled, watch_table, pending, s_fdCommand,
                   open, outside, closes>>

EventInit ==
    /\ loop = "init"
    /\ loop' = "handshake"
    /\ watch_table' = {} /\ pending' = <<>>
    /\ UNCHANGED <<main, s_started, s_registerCalled, s_fdCommand, open, outside, spent>>

\* Fault: the event thread announces itself without the mutex.
HandshakeUnlocked ==
    /\ loop = "handshake"
    /\ s_started' = TRUE
    /\ main' = IF main = "asleep" THEN "woken" ELSE main
    /\ loop' = "pipe"
    /\ UNCHANGED <<s_registerCalled, watch_table, pending, s_fdCommand, open, outside, spent>>

Handshake ==
    /\ loop = "handshake" /\ MutexFree
    /\ s_started' = TRUE
    /\ main' = IF main = "asleep" THEN "woken" ELSE main
    /\ loop' = "pipe"
    /\ UNCHANGED <<s_registerCalled, watch_table, pending, s_fdCommand, open, outside, spent>>

\* Without a pipe the event thread returns, and the process goes on without it.
CreatePipe ==
    /\ loop = "pipe"
    /\ \/ loop' = "select" /\ UNCHANGED faults
       \/ loop' = "gone" /\ Fault
    /\ UNCHANGED <<main, s_started, s_registerCalled, watch_table, pending, s_fdCommand,
                   open, outside, closes>>

\* RIL_register: the callbacks are known, and the loop thread has been started.
Register ==
    /\ main = "register"
    /\ s_registerCalled' = TRUE
    /\ main' = "listen"
    /\ UNCHANGED <<loop, s_started, watch_table, pending, s_fdCommand, open, outside, spent>>

\* The sockets init made are listened on and their events added; exit(-1) else.
AddSocket(event, next) ==
    /\ main = event
    /\ \/ /\ main' = next
          /\ watch_table' = watch_table \cup {event}
          /\ UNCHANGED <<loop, s_started, s_registerCalled, pending, s_fdCommand, open,
                         outside, faults>>
       \/ Fault /\ Restart
    /\ UNCHANGED closes

MainStep ==
    \/ StartEventLoop \/ CheckStarted \/ Sleep \/ WakeUp \/ Register
    \/ AddSocket("listen", "debug") \/ AddSocket("debug", "up")

-----------------------------------------------------------------------------
(* The event loop                                                          *)

Readable ==
    {e \in watch_table : CASE e = "listen" -> backlog # <<>>
                           [] e = "commands" -> peer = "closed"
                           [] e = "debug" -> debugger = "waiting"}

\* select fails on a descriptor that was closed while it is watched.
BadDescriptor == "commands" \in watch_table /\ ~open

Found(e) == IF e \in Readable THEN <<e>> ELSE <<>>

\* The listen event leaves the table as it becomes pending.  The listen and the
\* commands event use the slot before the debug event's.
Select ==
    /\ loop = "select" /\ ~BadDescriptor /\ Readable # {}
    /\ pending' = Found("listen") \o Found("commands") \o Found("debug")
    /\ watch_table' = watch_table \ (Readable \cap {"listen"})
    /\ loop' = "callbacks"
    /\ UNCHANGED <<main, s_started, s_registerCalled, s_fdCommand, open, outside, spent>>

\* ril_event_loop returns, and eventLoop kills the process.
LoopFails ==
    /\ loop = "select" /\ BadDescriptor
    /\ Restart
    /\ UNCHANGED spent

Running(event) == loop = "callbacks" /\ pending # <<>> /\ Head(pending) = event

BatchDone ==
    /\ loop = "callbacks" /\ pending = <<>>
    /\ loop' = "select"
    /\ UNCHANGED <<main, s_started, s_registerCalled, watch_table, pending, s_fdCommand,
                   open, outside, spent>>

\* Fault: the listen event, one-shot, is not added again.
AcceptFailsForGood ==
    /\ Running("listen")
    /\ Fault
    /\ pending' = Tail(pending)
    /\ UNCHANGED <<main, loop, s_started, s_registerCalled, watch_table, s_fdCommand, open,
                   outside, closes>>

\* listenCallback: accept fails, and the listen event is added again.
AcceptFails ==
    /\ Running("listen")
    /\ Fault
    /\ watch_table' = watch_table \cup {"listen"}
    /\ pending' = Tail(pending)
    /\ UNCHANGED <<main, loop, s_started, s_registerCalled, s_fdCommand, open, outside, closes>>

\* listenCallback: the peer is not the phone process.  s_fdCommand was its
\* descriptor for a while, and is -1 again.
RejectOther ==
    /\ Running("listen") /\ Head(backlog) = "other"
    /\ backlog' = Tail(backlog)
    /\ watch_table' = watch_table \cup {"listen"}
    /\ pending' = Tail(pending)
    /\ UNCHANGED <<main, loop, s_started, s_registerCalled, s_fdCommand, open, peer,
                   debugger, spent>>

\* listenCallback: the phone process is connected and will be greeted.
AcceptPhone ==
    /\ Running("listen") /\ Head(backlog) = "phone"
    /\ backlog' = Tail(backlog)
    /\ s_fdCommand' = TRUE /\ open' = TRUE /\ peer' = "connected"
    /\ watch_table' = watch_table \cup {"commands"}
    /\ pending' = Tail(pending)
    /\ UNCHANGED <<main, loop, s_started, s_registerCalled, debugger, spent>>

\* Fault: the old event is left in the table.
CommandsClosedStaysWatched ==
    /\ Running("commands")
    /\ s_fdCommand' = FALSE /\ open' = FALSE /\ peer' = "away"
    /\ watch_table' = watch_table \cup {"listen"}
    /\ pending' = Tail(pending)
    /\ UNCHANGED <<main, loop, s_started, s_registerCalled, backlog, debugger, spent>>

\* processCommandsCallback reaches the end of the stream.
CommandsClosed ==
    /\ Running("commands")
    /\ s_fdCommand' = FALSE /\ open' = FALSE /\ peer' = "away"
    /\ watch_table' = (watch_table \ {"commands"}) \cup {"listen"}
    /\ pending' = Tail(pending)
    /\ UNCHANGED <<main, loop, s_started, s_registerCalled, backlog, debugger, spent>>

\* debugCallback accepts its visitor and waits in recv for the arguments.
DebugAccept ==
    /\ Running("debug")
    /\ loop' = "recv" /\ debugger' = "silent"
    /\ UNCHANGED <<main, s_started, s_registerCalled, watch_table, pending, s_fdCommand,
                   open, peer, backlog, spent>>

\* The arguments arrive, or the visitor leaves: any case of the switch but 1 is a
\* local request or a message, and leaves the connection alone.
DebugRequest ==
    /\ loop = "recv"
    /\ loop' = "callbacks" /\ pending' = Tail(pending) /\ debugger' = "away"
    /\ UNCHANGED <<main, s_started, s_registerCalled, watch_table, s_fdCommand, open, peer,
                   backlog, spent>>

\* Case 1, radio power off, also closes s_fdCommand: neither is the commands
\* event deleted nor the listen event added.
DebugPowerOff ==
    /\ loop = "recv"
    /\ s_fdCommand' = FALSE /\ open' = FALSE
    /\ peer' = IF open THEN "away" ELSE peer
    /\ loop' = "callbacks" /\ pending' = Tail(pending) /\ debugger' = "away"
    /\ UNCHANGED <<main, s_started, s_registerCalled, watch_table, backlog, spent>>

EventStep ==
    \/ EventInit \/ Handshake \/ CreatePipe
    \/ Select \/ LoopFails \/ BatchDone
    \/ AcceptFails \/ RejectOther \/ CommandsClosed
    \/ DebugAccept

-----------------------------------------------------------------------------
(* The processes at the other ends                                         *)

\* The socket is listened on before the debug port's is.
FrameworkConnects ==
    /\ main \in {"debug", "up"} /\ peer = "away" /\ backlog = <<>>
    /\ backlog' = <<"phone">>
    /\ UNCHANGED <<process, peer, debugger, spent>>

FrameworkCloses ==
    /\ peer = "connected" /\ closes < MaxCloses
    /\ peer' = "closed" /\ closes' = closes + 1
    /\ UNCHANGED <<process, backlog, debugger, faults>>

\* Another process connects, before or instead of the framework.
OtherConnects ==
    /\ main \in {"debug", "up"} /\ backlog = <<>> /\ Fault
    /\ backlog' = <<"other">>
    /\ UNCHANGED <<process, peer, debugger, closes>>

DebuggerConnects ==
    /\ main = "up" /\ debugger = "away" /\ Fault
    /\ debugger' = "waiting"
    /\ UNCHANGED <<process, peer, backlog, closes>>

Environment ==
    \/ FrameworkConnects \/ FrameworkCloses \/ OtherConnects \/ DebuggerConnects

-----------------------------------------------------------------------------
(* Properties                                                              *)

\* What can be waited for in vain: a thread that could not be created, an event
\* thread that could not make its pipe, a debug visitor that says nothing.
Stuck ==
    \/ main # "start" /\ loop = "none"
    \/ loop \in {"gone", "recv"}

ConnTypeOK ==
    /\ main \in {"start", "check", "sleep", "asleep", "woken", "register", "listen", "debug", "up"}
    /\ loop \in {"none", "init", "handshake", "pipe", "select", "callbacks", "recv", "gone"}
    /\ s_started \in BOOLEAN /\ s_registerCalled \in BOOLEAN
    /\ watch_table \subseteq {"listen", "commands", "debug"}
    /\ s_fdCommand \in BOOLEAN /\ open \in BOOLEAN
    /\ peer \in {"away", "connected", "closed"} /\ debugger \in {"away", "waiting", "silent"}
    /\ faults \in 0..MaxFaults /\ closes \in 0..MaxCloses

\* Nothing is added to the loop, and no connection accepted, before RIL_register,
\* and that not before ril_event_init has run.
StartedInOrder ==
    /\ watch_table # {} => s_registerCalled
    /\ s_registerCalled => loop \notin {"init", "handshake"}

Has(s, e) == \E i \in DOMAIN s : s[i] = e

\* One connection at a time, and never deaf: between two callbacks the daemon
\* either listens and has no connection, or serves the one it has and does not
\* listen, or is about to be killed and restarted because the debug port closed
\* the connection under the event loop.
ListensOrServes ==
    LET listening == "listen" \in watch_table \/ Has(pending, "listen")
        serving   == "commands" \in watch_table
    IN  /\ main \in {"debug", "up"} => (listening # serving)
        /\ listening => ~s_fdCommand
        /\ s_fdCommand => serving
        /\ open <=> s_fdCommand

\* Whatever fails and whoever connects, the framework gets its connection, unless
\* something is waited for in vain.
FrameworkServed == []<>(peer = "connected" \/ Stuck)

-----------------------------------------------------------------------------
(* The inductive invariant, as far as the connection goes                  *)

Events == {"listen", "commands", "debug"}
Once(s) == \A i, j \in DOMAIN s : s[i] = s[j] => i = j

\* How far the main thread has come, and what it has not done yet.
StartUp ==
    /\ main \in {"register", "listen", "debug", "up"} => s_started
    /\ s_started => loop \notin {"none", "init", "handshake"}
    /\ s_registerCalled <=> main \in {"listen", "debug", "up"}
    /\ main \notin {"debug", "up"} => watch_table = {} /\ pending = <<>> /\ ~s_fdCommand

\* What was found ready is run once: the listen event has left the table meanwhile,
\* the others are still in it.
Batch ==
    /\ pending \in Seq(Events)
    /\ Once(pending)
    /\ loop \notin {"callbacks", "recv"} => pending = <<>>
    /\ loop = "recv" => pending # <<>> /\ Head(pending) = "debug"
    /\ Has(pending, "listen") => "listen" \notin watch_table
    /\ Has(pending, "commands") => "commands" \in watch_table

ConnIInv == ConnTypeOK /\ StartUp /\ Batch /\ ListensOrServes

=============================================================================
