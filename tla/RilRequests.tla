---------------------------- MODULE RilRequests ----------------------------
(***************************************************************************)
(* The life of a request in libs/libril/ril.cpp: the event thread accepts  *)
(* the framework's connection, reads request records, puts a RequestInfo   *)
(* on s_pendingRequests and dispatches it; vendor threads complete it with *)
(* RIL_onRequestComplete, which takes the RequestInfo off the list, looks  *)
(* at its cancelled flag and writes the response through sendResponseRaw.  *)
(* Meanwhile the connection may close, and be accepted again, under any of *)
(* these steps.                                                            *)
(*                                                                         *)
(* A step is what one thread does between two points where another thread  *)
(* can observe it: a critical section of s_pendingRequestsMutex, one read  *)
(* of s_fdCommand, one write to the socket under s_writeMutex.             *)
(*                                                                         *)
(* At most one connection is open at a time, so the kernel's side is one   *)
(* descriptor, openFd, for connection number conn.  Closing and accepting  *)
(* again may well return the same descriptor number.                       *)
(***************************************************************************)
EXTENDS Integers, SequencesExt

CONSTANTS
    Reqs,       \* requests, by the serial number (pRI->token) they carry
    Ptrs,       \* addresses calloc can return for a RequestInfo
    Vendors,    \* threads of the vendor RIL
    Event,      \* the event thread
    Fds,        \* descriptor numbers accept can return
    MaxConns,   \* bound: connections accepted during a run
    Kinds,      \* kinds of request this run looks at
    NULL

\* plain        the vendor answers with something that fits
\* big          the vendor answers with more than MAX_COMMAND_BYTES
\* unsupported  the request code is outside s_commands
\* malformed    its dispatch function cannot decode it
\* oldradio     dispatchVoiceRadioTech or dispatchCdmaSubscriptionSource,
\*              with the radio off
\* local        issued through the debug port by issueLocalRequest
AllKinds == {"plain", "big", "unsupported", "malformed", "oldradio", "local"}

RequestInfo == [token : Reqs, cancelled : BOOLEAN, local : BOOLEAN]

ASSUME RequestAssumption ==
    /\ Event \notin Vendors
    /\ Fds \subseteq Nat
    /\ MaxConns \in Nat
    /\ Kinds \subseteq AllKinds
    /\ NULL \notin Reqs \cup Ptrs \cup RequestInfo \cup Vendors \cup {Event}

Threads  == Vendors \cup {Event}
NoFd     == -1
Greeting == "greeting"      \* the unsolicited messages of onNewCommandConnect
Messages == Reqs \cup {Greeting}

ASSUME GreetingAssumption == Greeting \notin Reqs \cup {NULL}

VARIABLES
    kind,               \* what each request is; fixed
    conn,               \* number of the latest connection
    openFd,             \* descriptor open on it, or NoFd
    peerOpen,           \* the other end has not closed
    inbox,              \* requests in its receive buffer
    s_fdCommand,
    s_pendingRequests,  \* addresses on the list
    info,               \* address -> RequestInfo, NULL when free
    vendor,             \* tokens the vendor RIL holds
    epc,                \* where the event thread is
    wpc, ptr, msg, wfd, \* each thread's RIL_onRequestComplete and sendResponseRaw
    writer,             \* holder of s_writeMutex, or NULL
    stream,             \* history: what was written to each connection
    origin,             \* history: connection each request was sent on, 0 before
    abandoned           \* history: requests on the list when the socket closed

kernel  == <<conn, openFd, peerOpen, inbox>>
list    == <<s_pendingRequests, info, vendor>>
writers == <<wpc, ptr, msg, wfd, writer>>
history == <<stream, origin, abandoned>>
vars    == <<kind, kernel, s_fdCommand, list, epc, writers, history>>

Header(m) == <<"header", m>>
Body(m)   == <<"body", m>>

\* Times the response to r was written in full.
Replies(r) ==
    Cardinality({ci \in UNION {{c} \X DOMAIN stream[c] : c \in 1..MaxConns} :
                    stream[ci[1]][ci[2]] = Body(r)})

-----------------------------------------------------------------------------

Init ==
    /\ kind \in [Reqs -> Kinds]
    /\ conn = 0 /\ openFd = NoFd /\ peerOpen = FALSE /\ inbox = {}
    /\ s_fdCommand = NoFd
    /\ s_pendingRequests = {} /\ info = [p \in Ptrs |-> NULL] /\ vendor = {}
    /\ epc = "idle"
    /\ wpc = [t \in Threads |-> "idle"]
    /\ ptr = [t \in Threads |-> NULL]
    /\ msg = [t \in Threads |-> NULL]
    /\ wfd = [t \in Threads |-> NoFd]
    /\ writer = NULL
    /\ stream = [c \in 1..MaxConns |-> <<>>]
    /\ origin = [r \in Reqs |-> 0]
    /\ abandoned = {}

-----------------------------------------------------------------------------
(* The framework at the other end of the socket                            *)

PeerSend(r) ==
    /\ peerOpen
    /\ origin[r] = 0 /\ kind[r] # "local"
    /\ origin' = [origin EXCEPT ![r] = conn]
    /\ inbox' = inbox \cup {r}
    /\ UNCHANGED <<kind, conn, openFd, peerOpen, s_fdCommand, list, epc, writers,
                   stream, abandoned>>

PeerClose ==
    /\ peerOpen
    /\ peerOpen' = FALSE
    /\ UNCHANGED <<kind, conn, openFd, inbox, s_fdCommand, list, epc, writers,
                   history>>

-----------------------------------------------------------------------------
(* The event thread                                                        *)

EventIdle == epc = "idle" /\ wpc[Event] = "idle"

\* listenCallback: accept stores the new descriptor in s_fdCommand at once.
Accept(f) ==
    /\ EventIdle
    /\ s_fdCommand = NoFd
    /\ conn < MaxConns
    /\ conn' = conn + 1 /\ openFd' = f /\ peerOpen' = TRUE /\ inbox' = {}
    /\ s_fdCommand' = f
    /\ epc' = "vet"
    /\ UNCHANGED <<kind, list, writers, history>>

\* onNewCommandConnect: one unsolicited message goes to sendResponseRaw.
Greet(next) ==
    /\ wpc[Event] = "idle"
    /\ wpc' = [wpc EXCEPT ![Event] = "send"]
    /\ msg' = [msg EXCEPT ![Event] = Greeting]
    /\ epc' = next
    /\ UNCHANGED <<kind, kernel, s_fdCommand, list, ptr, wfd, writer, history>>

\* listenCallback: the peer is the phone process; the commands event is added,
\* and RIL_UNSOL_RIL_CONNECTED is sent.
VetPhone == epc = "vet" /\ Greet("greet")

\* The radio state follows, whatever became of the first message.
GreetAgain == epc = "greet" /\ Greet("idle")

\* listenCallback: it is not; close(s_fdCommand).
VetOther ==
    /\ epc = "vet"
    /\ openFd' = NoFd /\ peerOpen' = FALSE /\ inbox' = {}
    /\ epc' = "closed"
    /\ UNCHANGED <<kind, conn, s_fdCommand, list, writers, history>>

\* Fault: the request is dispatched without being put on the list.
ReadRecordUnlisted(r) ==
    /\ EventIdle
    /\ s_fdCommand # NoFd
    /\ r \in inbox
    /\ inbox' = inbox \ {r}
    /\ \E p \in Ptrs :
        /\ info[p] = NULL
        /\ info' = [info EXCEPT ![p] =
                [token |-> r, cancelled |-> FALSE, local |-> FALSE]]
        /\ ptr' = [ptr EXCEPT ![Event] = p]
    /\ epc' = "dispatch"
    /\ UNCHANGED <<kind, conn, openFd, peerOpen, s_fdCommand, s_pendingRequests,
                   vendor, wpc, msg, wfd, writer, history>>

\* processCommandBuffer, one record: a request code outside the table is
\* dropped, any other request goes on the list.
ReadRecord(r) ==
    /\ EventIdle
    /\ s_fdCommand # NoFd
    /\ r \in inbox
    /\ inbox' = inbox \ {r}
    /\ IF kind[r] = "unsupported"
       THEN UNCHANGED <<s_pendingRequests, info, epc, ptr>>
       ELSE \E p \in Ptrs :
            /\ info[p] = NULL
            /\ info' = [info EXCEPT ![p] =
                    [token |-> r, cancelled |-> FALSE, local |-> FALSE]]
            /\ s_pendingRequests' = s_pendingRequests \cup {p}
            /\ ptr' = [ptr EXCEPT ![Event] = p]
            /\ epc' = "dispatch"
    /\ UNCHANGED <<kind, conn, openFd, peerOpen, s_fdCommand, vendor, wpc, msg,
                   wfd, writer, history>>

\* The dispatch function fails to decode: invalidCommandBlock only logs.
DispatchMalformed ==
    /\ epc = "dispatch" /\ kind[info[ptr[Event]].token] = "malformed"
    /\ ptr' = [ptr EXCEPT ![Event] = NULL]
    /\ epc' = "idle"
    /\ UNCHANGED <<kind, kernel, s_fdCommand, list, wpc, msg, wfd, writer, history>>

\* dispatchVoiceRadioTech with the radio off: complete the request here...
DispatchOldRadio ==
    /\ epc = "dispatch" /\ kind[info[ptr[Event]].token] = "oldradio"
    /\ wpc' = [wpc EXCEPT ![Event] = "dequeue"]
    /\ epc' = "again"
    /\ UNCHANGED <<kind, kernel, s_fdCommand, list, ptr, msg, wfd, writer, history>>

\* ... and, for want of a return, complete the same RIL_Token once more.
DispatchAgain ==
    /\ epc = "again" /\ wpc[Event] = "idle"
    /\ wpc' = [wpc EXCEPT ![Event] = "dequeue"]
    /\ epc' = "idle"
    /\ UNCHANGED <<kind, kernel, s_fdCommand, list, ptr, msg, wfd, writer, history>>

\* onRequest hands the RIL_Token to the vendor RIL, which keeps it ...
DispatchToVendor ==
    /\ epc = "dispatch" /\ kind[info[ptr[Event]].token] \in {"plain", "big"}
    /\ vendor' = vendor \cup {ptr[Event]}
    /\ ptr' = [ptr EXCEPT ![Event] = NULL]
    /\ epc' = "idle"
    /\ UNCHANGED <<kind, kernel, s_fdCommand, s_pendingRequests, info, wpc, msg,
                   wfd, writer, history>>

\* ... or answers within onRequest, on the event thread.
DispatchAnswered ==
    /\ epc = "dispatch" /\ kind[info[ptr[Event]].token] \in {"plain", "big"}
    /\ wpc' = [wpc EXCEPT ![Event] = "dequeue"]
    /\ epc' = "idle"
    /\ UNCHANGED <<kind, kernel, s_fdCommand, list, ptr, msg, wfd, writer, history>>

\* issueLocalRequest, called from debugCallback.  The source gives every local
\* request the token 0xffffffff, which is never sent; here r names it.
IssueLocalRequest(r) ==
    /\ EventIdle
    /\ kind[r] = "local" /\ r \notin {info[p].token : p \in {q \in Ptrs : info[q] # NULL}}
    /\ \E p \in Ptrs :
        /\ info[p] = NULL
        /\ info' = [info EXCEPT ![p] =
                [token |-> r, cancelled |-> FALSE, local |-> TRUE]]
        /\ s_pendingRequests' = s_pendingRequests \cup {p}
        /\ vendor' = vendor \cup {p}
    /\ UNCHANGED <<kind, kernel, s_fdCommand, epc, writers, history>>

\* processCommandsCallback: end of stream, or a read error on a descriptor that
\* a failed write has closed; close(s_fdCommand).
CommandsClosed ==
    /\ EventIdle
    /\ s_fdCommand # NoFd
    /\ openFd = NoFd \/ (~peerOpen /\ inbox = {})
    /\ openFd' = NoFd /\ peerOpen' = FALSE /\ inbox' = {}
    /\ epc' = "closed"
    /\ UNCHANGED <<kind, conn, s_fdCommand, list, writers, history>>

\* s_fdCommand = -1; the listen event goes back to the loop.
ForgetCommandFd ==
    /\ epc = "closed"
    /\ s_fdCommand' = NoFd
    /\ epc' = "cancel"
    /\ UNCHANGED <<kind, kernel, list, writers, history>>

\* onCommandsSocketClosed: every request on the list is marked.
OnCommandsSocketClosed ==
    /\ epc = "cancel"
    /\ info' = [p \in Ptrs |-> IF p \in s_pendingRequests
                               THEN [info[p] EXCEPT !.cancelled = TRUE] ELSE info[p]]
    /\ abandoned' = abandoned \cup {info[p].token : p \in s_pendingRequests}
    /\ epc' = "idle"
    /\ UNCHANGED <<kind, kernel, s_fdCommand, s_pendingRequests, vendor, writers,
                   stream, origin>>

\* A failed write has closed the descriptor that the loop still watches: select
\* fails with EBADF, ril_event_loop returns, eventLoop kills the process, and
\* init starts a new one.
LoopDies ==
    /\ EventIdle
    /\ s_fdCommand # NoFd /\ openFd = NoFd
    /\ s_fdCommand' = NoFd
    /\ peerOpen' = FALSE /\ inbox' = {}
    /\ s_pendingRequests' = {} /\ info' = [p \in Ptrs |-> NULL] /\ vendor' = {}
    /\ wpc' = [t \in Threads |-> "idle"]
    /\ ptr' = [t \in Threads |-> NULL]
    /\ msg' = [t \in Threads |-> NULL]
    /\ wfd' = [t \in Threads |-> NoFd]
    /\ writer' = NULL
    /\ UNCHANGED <<kind, conn, openFd, epc, history>>

-----------------------------------------------------------------------------
(* RIL_onRequestComplete and sendResponseRaw, on any thread                *)

\* The thread returns from RIL_onRequestComplete (or RIL_onUnsolicitedResponse);
\* the event thread may hold on to a RIL_Token it is about to use again.
Return(t) ==
    /\ wpc' = [wpc EXCEPT ![t] = "idle"]
    /\ ptr' = IF t = Event /\ epc = "again" THEN ptr ELSE [ptr EXCEPT ![t] = NULL]
    /\ msg' = [msg EXCEPT ![t] = NULL]
    /\ wfd' = [wfd EXCEPT ![t] = NoFd]

\* free(pRI), then return.  Unsolicited messages have no RequestInfo.
FreeAndReturn(t) ==
    /\ info' = IF ptr[t] = NULL THEN info ELSE [info EXCEPT ![ptr[t]] = NULL]
    /\ Return(t)

\* A vendor thread answers a request it holds.
VendorComplete(t, p) ==
    /\ wpc[t] = "idle" /\ p \in vendor
    /\ vendor' = vendor \ {p}
    /\ ptr' = [ptr EXCEPT ![t] = p]
    /\ wpc' = [wpc EXCEPT ![t] = "dequeue"]
    /\ UNCHANGED <<kind, kernel, s_fdCommand, s_pendingRequests, info, epc, msg,
                   wfd, writer, history>>

\* Fault: a RIL_Token that is not on the list is used all the same.
DequeueAnyToken(t) ==
    /\ wpc[t] = "dequeue"
    /\ s_pendingRequests' = s_pendingRequests \ {ptr[t]}
    /\ wpc' = [wpc EXCEPT ![t] = "check"]
    /\ UNCHANGED <<kind, kernel, s_fdCommand, info, vendor, epc, ptr, msg, wfd,
                   writer, history>>

\* Fault: the entry is found but stays linked.
DequeueWithoutUnlink(t) ==
    /\ wpc[t] = "dequeue"
    /\ \/ /\ ptr[t] \in s_pendingRequests
          /\ IF info[ptr[t]].local THEN FreeAndReturn(t)
             ELSE /\ wpc' = [wpc EXCEPT ![t] = "check"]
                  /\ UNCHANGED <<info, ptr, msg, wfd>>
       \/ ptr[t] \notin s_pendingRequests /\ Return(t) /\ UNCHANGED info
    /\ UNCHANGED <<kind, kernel, s_fdCommand, s_pendingRequests, vendor, epc,
                   writer, history>>

\* checkAndDequeueRequestInfo and the test of pRI->local: an unknown RIL_Token
\* is refused, a local request is freed without a response.
Dequeue(t) ==
    /\ wpc[t] = "dequeue"
    /\ s_pendingRequests' = s_pendingRequests \ {ptr[t]}
    /\ \/ ptr[t] \notin s_pendingRequests /\ Return(t) /\ UNCHANGED info
       \/ ptr[t] \in s_pendingRequests /\ info[ptr[t]].local /\ FreeAndReturn(t)
       \/ /\ ptr[t] \in s_pendingRequests /\ ~info[ptr[t]].local
          /\ wpc' = [wpc EXCEPT ![t] = "check"]
          /\ UNCHANGED <<info, ptr, msg, wfd>>
    /\ UNCHANGED <<kind, kernel, s_fdCommand, vendor, epc, writer, history>>

\* Fault: the flag is not looked at.
CheckNothing(t) ==
    /\ wpc[t] = "check"
    /\ wpc' = [wpc EXCEPT ![t] = "send"]
    /\ msg' = [msg EXCEPT ![t] = info[ptr[t]].token]
    /\ UNCHANGED <<kind, kernel, s_fdCommand, list, epc, ptr, wfd, writer, history>>

\* pRI->cancelled is read, without a lock; the response is marshalled if it is 0.
CheckCancelled(t) ==
    /\ wpc[t] = "check"
    /\ IF info[ptr[t]].cancelled THEN FreeAndReturn(t)
       ELSE /\ wpc' = [wpc EXCEPT ![t] = "send"]
            /\ msg' = [msg EXCEPT ![t] = info[ptr[t]].token]
            /\ UNCHANGED <<info, ptr, wfd>>
    /\ UNCHANGED <<kind, kernel, s_fdCommand, s_pendingRequests, vendor, epc,
                   writer, history>>

\* sendResponseRaw up to the mutex: s_fdCommand is copied; without a connection,
\* or with a packet beyond MAX_COMMAND_BYTES, the response is lost.  (The source
\* reads s_fdCommand twice; if the readings differ the response is lost too.)
SendResponse(t) ==
    /\ wpc[t] = "send"
    /\ IF s_fdCommand = NoFd \/ (msg[t] \in Reqs /\ kind[msg[t]] = "big")
       THEN FreeAndReturn(t)
       ELSE /\ wfd' = [wfd EXCEPT ![t] = s_fdCommand]
            /\ wpc' = [wpc EXCEPT ![t] = "header"]
            /\ UNCHANGED <<info, ptr, msg>>
    /\ UNCHANGED <<kind, kernel, s_fdCommand, s_pendingRequests, vendor, epc,
                   writer, history>>

\* blockingWrite fails: the socket is full (EAGAIN, it is O_NONBLOCK), the peer
\* is gone (EPIPE), or the descriptor is closed by now (EBADF).  It closes the
\* descriptor; records that record_stream has buffered can still be read.
WriteFails(t) ==
    /\ IF openFd = wfd[t]
       THEN openFd' = NoFd /\ peerOpen' = FALSE /\ inbox' \in SUBSET inbox
       ELSE UNCHANGED <<openFd, peerOpen, inbox>>
    /\ FreeAndReturn(t)
    /\ UNCHANGED stream

\* It succeeds: the bytes go to whatever connection the descriptor names now.
WriteTo(t, item) ==
    /\ openFd = wfd[t] /\ peerOpen
    /\ stream' = [stream EXCEPT ![conn] = Append(@, item)]
    /\ UNCHANGED <<openFd, peerOpen, inbox>>

\* Fault: the header is written before the mutex is taken.
WriteHeaderUnlocked(t) ==
    /\ wpc[t] = "header"
    /\ \/ /\ WriteTo(t, Header(msg[t]))
          /\ writer' = t
          /\ wpc' = [wpc EXCEPT ![t] = "body"]
          /\ UNCHANGED <<info, ptr, msg, wfd>>
       \/ WriteFails(t) /\ UNCHANGED writer
    /\ UNCHANGED <<kind, conn, s_fdCommand, s_pendingRequests, vendor, epc, origin,
                   abandoned>>

\* s_writeMutex is taken and the length is written.
WriteHeader(t) ==
    /\ wpc[t] = "header" /\ writer = NULL
    /\ \/ /\ WriteTo(t, Header(msg[t]))
          /\ writer' = t
          /\ wpc' = [wpc EXCEPT ![t] = "body"]
          /\ UNCHANGED <<info, ptr, msg, wfd>>
       \/ WriteFails(t) /\ UNCHANGED writer
    /\ UNCHANGED <<kind, conn, s_fdCommand, s_pendingRequests, vendor, epc, origin,
                   abandoned>>

\* Fault: the error return forgets the mutex.
WriteBodyKeepsMutex(t) ==
    /\ wpc[t] = "body"
    /\ \/ /\ WriteTo(t, Body(msg[t]))
          /\ FreeAndReturn(t)
          /\ writer' = NULL
       \/ WriteFails(t) /\ UNCHANGED writer
    /\ UNCHANGED <<kind, conn, s_fdCommand, s_pendingRequests, vendor, epc, origin,
                   abandoned>>

\* Fault: a response that was written is sent once more.
WriteBodyAndRetry(t) ==
    /\ wpc[t] = "body"
    /\ \/ /\ WriteTo(t, Body(msg[t])) /\ UNCHANGED <<info, ptr, msg, wfd>>
          /\ wpc' = [wpc EXCEPT ![t] = "send"]
       \/ WriteFails(t)
    /\ writer' = NULL
    /\ UNCHANGED <<kind, conn, s_fdCommand, s_pendingRequests, vendor, epc, origin,
                   abandoned>>

\* The data is written, s_writeMutex released, the RequestInfo freed.
WriteBody(t) ==
    /\ wpc[t] = "body"
    /\ \/ WriteTo(t, Body(msg[t])) /\ FreeAndReturn(t)
       \/ WriteFails(t)
    /\ writer' = NULL
    /\ UNCHANGED <<kind, conn, s_fdCommand, s_pendingRequests, vendor, epc, origin,
                   abandoned>>

-----------------------------------------------------------------------------

EventStep ==
    \/ VetPhone \/ VetOther \/ GreetAgain
    \/ \E r \in Reqs : ReadRecord(r)
    \/ DispatchMalformed \/ DispatchOldRadio \/ DispatchAgain
    \/ DispatchToVendor \/ DispatchAnswered
    \/ CommandsClosed \/ ForgetCommandFd \/ OnCommandsSocketClosed
    \/ LoopDies

WriterStep(t) ==
    \/ Dequeue(t) \/ CheckCancelled(t) \/ SendResponse(t)
    \/ WriteHeader(t) \/ WriteBody(t)

Next ==
    \/ \E r \in Reqs : PeerSend(r) \/ IssueLocalRequest(r)
    \/ PeerClose
    \/ \E f \in Fds : Accept(f)
    \/ EventStep
    \/ \E t \in Vendors, p \in Ptrs : VendorComplete(t, p)
    \/ \E t \in Threads : WriterStep(t)

Spec == Init /\ [][Next]_vars

\* Threads are scheduled, and the vendor RIL completes what it was given, as
\* ril.h asks of it.  Nothing is assumed of the framework.
Fairness ==
    /\ WF_vars(EventStep)
    /\ \A t \in Threads : WF_vars(WriterStep(t))
    /\ \A p \in Ptrs : WF_vars(\E t \in Vendors : VendorComplete(t, p))

FairSpec == Spec /\ Fairness

-----------------------------------------------------------------------------
(* Properties                                                              *)

Allocated == {p \in Ptrs : info[p] # NULL}

\* t has taken its RequestInfo off the list and not freed it yet.
Holds(t) == wpc[t] \in {"check", "send", "header", "body"} /\ msg[t] # Greeting

\* Shapes of the state; the list never holds the address of a freed RequestInfo.
TypeOK ==
    /\ kind \in [Reqs -> Kinds]
    /\ conn \in 0..MaxConns /\ openFd \in Fds \cup {NoFd}
    /\ peerOpen \in BOOLEAN /\ (peerOpen => conn # 0) /\ inbox \subseteq Reqs
    /\ s_fdCommand \in Fds \cup {NoFd}
    /\ info \in [Ptrs -> RequestInfo \cup {NULL}]
    /\ s_pendingRequests \subseteq Allocated /\ vendor \subseteq Ptrs
    /\ epc \in {"idle", "vet", "greet", "dispatch", "again", "closed", "cancel"}
    /\ wpc \in [Threads -> {"idle", "dequeue", "check", "send", "header", "body"}]
    /\ ptr \in [Threads -> Ptrs \cup {NULL}]
    /\ msg \in [Threads -> Messages \cup {NULL}]
    /\ wfd \in [Threads -> Fds \cup {NoFd}]
    /\ writer \in Threads \cup {NULL}
    /\ stream \in [1..MaxConns -> Seq({"header", "body"} \X Messages)]
    /\ origin \in [Reqs -> 0..MaxConns] /\ abandoned \subseteq Reqs

\* No use after free and no double free: what a thread holds between dequeue
\* and free is allocated, off the list and held by no other thread, although
\* dispatchVoiceRadioTech completes the same RIL_Token twice.
HeldAllocated ==
    /\ \A t \in Threads : Holds(t) =>
          /\ ptr[t] \in Allocated \ (s_pendingRequests \cup vendor)
          /\ \A u \in Threads \ {t} : Holds(u) => ptr[u] # ptr[t]
    /\ vendor \subseteq s_pendingRequests

\* Frames are not mixed up: whatever is written after a header is its own body,
\* and a body that does not open a connection follows its own header, with any
\* number of threads writing and connections coming and going under them.
FramesWhole ==
    \A c \in 1..MaxConns : \A i \in 2..Len(stream[c]) :
        \A m \in Messages :
            stream[c][i - 1] = Header(m) <=> stream[c][i] = Body(m)

\* A request that was on the list when its connection closed is never reported,
\* not even the header of its response, on any connection.
AbandonedNotReported ==
    \A c \in 1..MaxConns :
        \A r \in abandoned : Header(r) \notin Range(stream[c])

\* What the ledger calls outstanding: a request on its way to a reply.
Outstanding ==
    {r \in Reqs : /\ origin[r] # 0
                  /\ \/ r \in inbox
                     \/ \E p \in s_pendingRequests :
                           info[p].token = r /\ ~info[p].cancelled
                     \/ \E t \in Threads :
                           \/ msg[t] = r
                           \/ /\ wpc[t] = "check"
                              /\ info[ptr[t]].token = r /\ ~info[ptr[t]].cancelled}

Ledger == INSTANCE RequestLedger WITH
    submitted <- {r \in Reqs : origin[r] # 0},
    outstanding <- Outstanding,
    replies <- [r \in Reqs |-> Replies(r)]

\* The daemon keeps the ledger: a request is answered at most once, only if the
\* framework sent it (never a local one), and not after it was dropped.
KeepsLedger == Ledger!LedgerSpec

\* As the comment in onCommandsSocketClosed has it, responses to the requests of
\* a closed connection are not reported: the next connection sees none of them.
NoReplyToLaterConnection ==
    \A c \in 1..MaxConns : \A r \in Reqs :
        Body(r) \in Range(stream[c]) => origin[r] = c

\* A thread that enters RIL_onRequestComplete or the greeting returns: every
\* path out of sendResponseRaw releases s_writeMutex.
CompletionReturns == \A t \in Threads : wpc[t] # "idle" ~> wpc[t] = "idle"

\* The connection r was sent on is gone.
Lost(r) == openFd = NoFd \/ conn # origin[r]

\* A well-formed request that reached the daemon is answered in full, unless its
\* connection is lost first.
AnsweredOrLost ==
    \A r \in Reqs : kind[r] \in {"plain", "oldradio"} /\ r \in inbox ~>
                        Replies(r) = 1 \/ Lost(r)

-----------------------------------------------------------------------------
(* The inductive invariant behind HeldAllocated and AbandonedNotReported   *)

\* t is going to look for its RequestInfo on the list, or to hand it on.
Claims(t) == wpc[t] = "dequeue" \/ (t = Event /\ epc = "dispatch")

\* Which locals are set in which phase of a thread.
Phases ==
    /\ \A t \in Threads :
          /\ wpc[t] \in {"idle", "dequeue", "check"} => msg[t] = NULL
          /\ wpc[t] \in {"send", "header", "body"} => msg[t] \in Messages
          /\ msg[t] = Greeting => ptr[t] = NULL
    /\ epc \in {"vet", "dispatch", "closed", "cancel"} => wpc[Event] = "idle"
    /\ wpc[Event] = "idle" /\ epc \notin {"dispatch", "again"} => ptr[Event] = NULL

\* Every address has one owner: the vendor RIL, a thread about to dequeue it, or
\* the thread that did; what the event thread completes again is off the list.
Ownership ==
    /\ HeldAllocated
    /\ \A t \in Threads : Claims(t) =>
          /\ ptr[t] \in Ptrs \ vendor
          /\ t # Event \/ epc = "dispatch" => ptr[t] \in s_pendingRequests
          /\ \A u \in Threads \ {t} : Claims(u) => ptr[u] # ptr[t]
    /\ epc = "again" /\ wpc[Event] # "dequeue" =>
          ptr[Event] \in Ptrs \ s_pendingRequests

\* A request has at most one RequestInfo, made after it was sent and read.
OneInfo ==
    /\ \A p \in Allocated :
          /\ info[p].local <=> kind[info[p].token] = "local"
          /\ ~info[p].local => origin[info[p].token] # 0
    /\ \A p, q \in Allocated :
          ~info[p].local /\ info[p].token = info[q].token => p = q
    /\ \A r \in inbox :
          /\ kind[r] # "local" /\ origin[r] # 0
          /\ \A p \in Allocated : info[p].token # r

\* What is abandoned carries the mark, and what is being sent does not.
Marked ==
    /\ \A r \in abandoned : r \notin inbox /\ (kind[r] # "local" => origin[r] # 0)
    /\ \A p \in Allocated :
          ~info[p].local /\ info[p].token \in abandoned => info[p].cancelled
    /\ \A t \in Threads : wpc[t] = "check" => ~info[ptr[t]].local
    /\ \A t \in Threads : msg[t] \in Reqs =>
          /\ info[ptr[t]].token = msg[t]
          /\ ~info[ptr[t]].local /\ ~info[ptr[t]].cancelled
    /\ AbandonedNotReported

\* A response that was begun is not that of a request still to be completed.
Unreported ==
    \A c \in 1..MaxConns : \A r \in Reqs :
        Header(r) \in Range(stream[c]) =>
            /\ kind[r] # "local" /\ origin[r] # 0 /\ r \notin inbox
            /\ \A p \in s_pendingRequests : info[p].token # r

\* What FramesWhole needs besides: the holder of s_writeMutex is the thread
\* between its two writes, later connections are untouched, and an open one ends
\* with a whole frame or with the holder's header.
Framing ==
    /\ \A t \in Threads : wpc[t] = "body" <=> writer = t
    /\ \A c \in 1..MaxConns : c > conn => stream[c] = <<>>
    /\ peerOpen =>
          LET s == stream[conn] IN
          \/ s = <<>>
          \/ writer = NULL /\ \E m \in Messages : s[Len(s)] = Body(m)
          \/ /\ writer # NULL /\ wfd[writer] = openFd
             /\ s[Len(s)] = Header(msg[writer])
    /\ FramesWhole

IInv == TypeOK /\ Phases /\ Ownership /\ OneInfo /\ Marked /\ Unreported

=============================================================================
