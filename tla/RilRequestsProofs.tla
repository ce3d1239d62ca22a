------------------------- MODULE RilRequestsProofs -------------------------
(***************************************************************************)
(* Proofs about the life of a request, for any number of requests,         *)
(* addresses, threads, descriptors and connections.  IInv is the inductive *)
(* invariant; the theorems are invariants the runs check and, at the end,  *)
(* that the daemon implements RequestLedger.                               *)
(***************************************************************************)
EXTENDS RilRequests, FiniteSetTheorems, SequenceTheorems, TLAPS

-----------------------------------------------------------------------------
(* What the parts of the completing thread do                              *)

\* In IInv a thread past dequeue owns its RequestInfo, unless it sends a
\* greeting.
LEMMA HolderOwns ==
    ASSUME IInv, NEW t \in Threads, wpc[t] \in {"check", "send", "header", "body"}
    PROVE  \/ /\ Holds(t) /\ ptr[t] \in Ptrs /\ info[ptr[t]] \in RequestInfo
              /\ ptr[t] \notin s_pendingRequests \cup vendor
              /\ info[ptr[t]] # NULL
           \/ /\ msg[t] = Greeting /\ ptr[t] = NULL /\ ~Holds(t)
              /\ wpc[t] # "check"
<1>1. wpc[t] = "check" => msg[t] # Greeting
  BY GreetingAssumption DEF IInv, Phases
<1>2. CASE msg[t] = Greeting
  BY <1>1, <1>2 DEF IInv, Phases, Holds
<1>3. CASE msg[t] # Greeting
  BY <1>3 DEF IInv, TypeOK, Ownership, HeldAllocated, Holds, Allocated
<1>4. QED
  BY <1>2, <1>3

\* The state in which a thread may free what it has and return: it owns it or
\* has just found it on the list.
MayFree(t) ==
    \/ wpc[t] \in {"check", "send", "header", "body"}
    \/ wpc[t] = "dequeue" /\ ptr[t] \in s_pendingRequests

\* FreeAndReturn from such a state, with the address taken off the list.
Frees(t) ==
    /\ MayFree(t) /\ FreeAndReturn(t)
    /\ s_pendingRequests' = s_pendingRequests \ {ptr[t]}
    /\ inbox' \subseteq inbox
    /\ UNCHANGED <<kind, vendor, epc, origin, abandoned>>

\* What is left after such a step satisfies every part of IInv that it can disturb.
LEMMA FreeingStep ==
    ASSUME IInv, NEW t \in Threads, Frees(t)
    PROVE  /\ info' \in [Ptrs -> RequestInfo \cup {NULL}]
           /\ s_pendingRequests' \subseteq Allocated'
           /\ wpc' \in [Threads -> {"idle", "dequeue", "check", "send", "header", "body"}]
           /\ ptr' \in [Threads -> Ptrs \cup {NULL}]
           /\ msg' \in [Threads -> Messages \cup {NULL}]
           /\ wfd' \in [Threads -> Fds \cup {NoFd}]
           /\ Phases' /\ Ownership' /\ OneInfo'
           /\ AbandonedNotReported' => Marked'
           /\ \A p \in s_pendingRequests' : info'[p] = info[p]
<1>1. \/ ptr[t] \in Ptrs /\ info[ptr[t]] \in RequestInfo /\ info[ptr[t]] # NULL
      \/ ptr[t] = NULL
  BY HolderOwns DEF Frees, MayFree, IInv, TypeOK, Allocated
<1>2. /\ info' \in [Ptrs -> RequestInfo \cup {NULL}]
      /\ \A p \in Ptrs : info'[p] = IF p = ptr[t] THEN NULL ELSE info[p]
  BY <1>1, RequestAssumption DEF Frees, FreeAndReturn, IInv, TypeOK
<1>3. Allocated' = Allocated \ {ptr[t]}
  BY <1>2 DEF Allocated
<1>4. /\ wpc' = [wpc EXCEPT ![t] = "idle"]
      /\ msg' = [msg EXCEPT ![t] = NULL]
      /\ wfd' = [wfd EXCEPT ![t] = NoFd]
      /\ ptr' = IF t = Event /\ epc = "again" THEN ptr ELSE [ptr EXCEPT ![t] = NULL]
  BY DEF Frees, FreeAndReturn, Return
<1>5. /\ s_pendingRequests' \subseteq Allocated'
      /\ wpc' \in [Threads -> {"idle", "dequeue", "check", "send", "header", "body"}]
      /\ ptr' \in [Threads -> Ptrs \cup {NULL}]
      /\ msg' \in [Threads -> Messages \cup {NULL}]
      /\ wfd' \in [Threads -> Fds \cup {NoFd}]
  BY <1>3, <1>4 DEF Frees, IInv, TypeOK
<1>6. Phases'
  BY <1>4, GreetingAssumption DEF Frees, IInv, TypeOK, Phases, Threads
<1>7. \A u \in Threads \ {t} :
         /\ wpc'[u] = wpc[u] /\ msg'[u] = msg[u] /\ ptr'[u] = ptr[u]
         /\ Holds(u) => ptr[u] # ptr[t]
         /\ Claims(u) /\ (u # Event \/ epc = "dispatch") => ptr[u] # ptr[t]
  <2>1. ASSUME NEW u \in Threads \ {t}
        PROVE  wpc'[u] = wpc[u] /\ msg'[u] = msg[u] /\ ptr'[u] = ptr[u]
    BY <1>4 DEF IInv, TypeOK
  <2>2. ASSUME NEW u \in Threads \ {t}, Holds(u) PROVE ptr[u] # ptr[t]
    BY <2>2, HolderOwns, RequestAssumption
       DEF Frees, MayFree, IInv, Ownership, HeldAllocated, Allocated
  <2>3. ASSUME NEW u \in Threads \ {t}, Claims(u), u # Event \/ epc = "dispatch"
        PROVE  ptr[u] # ptr[t]
    BY <2>3, HolderOwns, RequestAssumption
       DEF Frees, MayFree, IInv, Ownership, Claims
  <2>4. QED
    BY <2>1, <2>2, <2>3
<1>8. ~Holds(t)' /\ ~Claims(t)'
  <2>1. wpc'[t] = "idle" /\ epc' = epc
    BY <1>4 DEF Frees, IInv, TypeOK
  <2>2. ~(t = Event /\ epc = "dispatch")
    BY DEF Frees, MayFree, IInv, Phases
  <2>3. QED
    BY <2>1, <2>2 DEF Holds, Claims
<1>9. \A u \in Threads \ {t} : Holds(u)' = Holds(u) /\ Claims(u)' = Claims(u)
  BY <1>7 DEF Holds, Claims, Frees
<1>10. HeldAllocated'
  <2>1. ptr[t] \notin vendor
    BY HolderOwns, RequestAssumption
       DEF Frees, MayFree, IInv, TypeOK, Ownership, HeldAllocated, Claims
  <2>2. vendor' \subseteq s_pendingRequests'
    BY <2>1 DEF Frees, IInv, Ownership, HeldAllocated
  <2>3. ASSUME NEW u \in Threads, Holds(u)'
        PROVE  /\ ptr'[u] \in Allocated' \ (s_pendingRequests' \cup vendor')
               /\ \A v \in Threads \ {u} : Holds(v)' => ptr'[v] # ptr'[u]
    BY <2>3, <1>3, <1>7, <1>8, <1>9 DEF Frees, IInv, Ownership, HeldAllocated
  <2>4. QED
    BY <2>2, <2>3 DEF HeldAllocated
<1>11. Ownership'
  <2>1. ASSUME NEW u \in Threads, Claims(u)'
        PROVE  /\ ptr'[u] \in Ptrs \ vendor'
               /\ u # Event \/ epc' = "dispatch" => ptr'[u] \in s_pendingRequests'
               /\ \A v \in Threads \ {u} : Claims(v)' => ptr'[v] # ptr'[u]
    BY <2>1, <1>7, <1>8, <1>9 DEF Frees, IInv, Ownership
  <2>2. ASSUME epc' = "again", wpc'[Event] # "dequeue"
        PROVE  ptr'[Event] \in Ptrs \ s_pendingRequests'
    <3>1. CASE t = Event
      <4>1. ptr'[Event] = ptr[Event]
        BY <3>1, <2>2, <1>4 DEF Frees
      <4>2. CASE wpc[Event] = "dequeue"
        BY <4>1, <4>2, <3>1 DEF Frees, MayFree, IInv, TypeOK, Allocated
      <4>3. CASE wpc[Event] # "dequeue"
        BY <4>1, <4>3, <2>2 DEF Frees, IInv, Ownership
      <4>4. QED
        BY <4>2, <4>3
    <3>2. CASE t # Event
      BY <3>2, <2>2, <1>7 DEF Frees, IInv, Ownership, Threads
    <3>3. QED
      BY <3>1, <3>2
  <2>3. QED
    BY <1>10, <2>1, <2>2 DEF Ownership
<1>12. OneInfo'
  BY <1>2, <1>3 DEF Frees, IInv, OneInfo, Allocated
<1>13. ASSUME AbandonedNotReported' PROVE Marked'
  <2>1. \A u \in Threads \ {t} : Holds(u) => ptr[u] \in Ptrs /\ info'[ptr[u]] = info[ptr[u]]
    BY <1>2, <1>7 DEF IInv, Ownership, HeldAllocated, Allocated
  <2>2. \A u \in Threads : wpc'[u] = "check" =>
            u # t /\ Holds(u) /\ wpc[u] = "check"
    BY <1>4, <1>7, GreetingAssumption DEF IInv, TypeOK, Phases, Holds
  <2>3. \A u \in Threads : msg'[u] \in Reqs =>
            u # t /\ Holds(u) /\ msg'[u] = msg[u] /\ ptr'[u] = ptr[u]
    <3>1. \A u \in Threads : msg[u] \in Reqs => Holds(u)
      BY RequestAssumption, GreetingAssumption DEF IInv, TypeOK, Phases, Holds
    <3>2. msg'[t] = NULL
      BY <1>4 DEF IInv, TypeOK
    <3>3. QED
      BY <3>1, <3>2, <1>7, RequestAssumption
  <2>4. \A u \in Threads : wpc'[u] = "check" => ~info'[ptr'[u]].local
    BY <2>1, <2>2, <1>7 DEF IInv, Marked
  <2>5. \A u \in Threads : msg'[u] \in Reqs =>
            /\ info'[ptr'[u]].token = msg'[u]
            /\ ~info'[ptr'[u]].local /\ ~info'[ptr'[u]].cancelled
    BY <2>1, <2>3 DEF IInv, Marked
  <2>6. \A p \in Allocated' : p \in Allocated /\ info'[p] = info[p]
    BY <1>2, <1>3 DEF Allocated
  <2>7. \A r \in abandoned' : r \notin inbox' /\ (kind'[r] # "local" => origin'[r] # 0)
    BY DEF Frees, IInv, Marked
  <2>8. \A p \in Allocated' :
            ~info'[p].local /\ info'[p].token \in abandoned' => info'[p].cancelled
    BY <2>6 DEF Frees, IInv, Marked
  <2>9. QED
    BY <1>13, <2>4, <2>5, <2>7, <2>8 DEF Marked
<1>14. \A p \in s_pendingRequests' : info'[p] = info[p]
  BY <1>2 DEF Frees, IInv, TypeOK, Allocated
<1>15. QED
  BY <1>2, <1>5, <1>6, <1>11, <1>12, <1>13, <1>14

\* The elements of a stream after a write.
LEMMA AppendRange ==
    ASSUME NEW S, NEW s \in Seq(S), NEW e \in S
    PROVE  Append(s, e) \in Seq(S) /\ Range(Append(s, e)) \subseteq Range(s) \cup {e}
<1>1. /\ Append(s, e) \in Seq(S)
      /\ Len(Append(s, e)) = Len(s) + 1
      /\ \A i \in 1..Len(s) : Append(s, e)[i] = s[i]
      /\ Append(s, e)[Len(s) + 1] = e
  BY AppendProperties
<1>2. DOMAIN Append(s, e) = 1..(Len(s) + 1) /\ DOMAIN s = 1..Len(s) /\ Len(s) \in Nat
  BY <1>1, LenProperties
<1>3. QED
  BY <1>1, <1>2 DEF Range

\* Unreported under the steps of a thread in RIL_onRequestComplete: only its own
\* response can have been begun.
LEMMA WriterReports ==
    ASSUME IInv, NEW t \in Threads, UNCHANGED <<kind, origin>>,
           inbox' \subseteq inbox, s_pendingRequests' \subseteq s_pendingRequests,
           \A p \in s_pendingRequests' : info'[p] = info[p],
           \A c \in 1..MaxConns : \A r \in Reqs :
               Header(r) \in Range(stream'[c]) =>
                   \/ Header(r) \in Range(stream[c])
                   \/ msg[t] = r /\ wpc[t] \in {"header", "body"}
    PROVE  Unreported'
<1>1. SUFFICES ASSUME NEW c \in 1..MaxConns, NEW r \in Reqs,
                      Header(r) \in Range(stream'[c])
               PROVE  /\ kind[r] # "local" /\ origin[r] # 0 /\ r \notin inbox
                      /\ \A p \in s_pendingRequests : info[p].token # r
  BY DEF Unreported, Header
<1>2. CASE Header(r) \in Range(stream[c])
  BY <1>2 DEF IInv, Unreported
<1>3. CASE msg[t] = r /\ wpc[t] \in {"header", "body"}
  <2>1. /\ ptr[t] \in Allocated \ s_pendingRequests
        /\ info[ptr[t]].token = r /\ ~info[ptr[t]].local
    BY <1>3, GreetingAssumption
       DEF IInv, Ownership, HeldAllocated, Holds, Marked
  <2>2. s_pendingRequests \subseteq Allocated
    BY DEF IInv, TypeOK
  <2>3. QED
    BY <2>1, <2>2 DEF IInv, OneInfo
<1>4. QED
  BY <1>1, <1>2, <1>3

\* A holder that frees and leaves the list alone is an instance of Frees.
LEMMA HolderFrees ==
    ASSUME IInv, NEW t \in Threads,
           wpc[t] \in {"check", "send", "header", "body"}, FreeAndReturn(t),
           inbox' \subseteq inbox,
           UNCHANGED <<kind, s_pendingRequests, vendor, epc, origin, abandoned>>
    PROVE  Frees(t)
<1>1. ptr[t] \notin s_pendingRequests
  BY HolderOwns, RequestAssumption DEF IInv, TypeOK, Allocated
<1>2. QED
  BY <1>1 DEF Frees, MayFree

\* The rest of TypeOK, for steps of a thread in RIL_onRequestComplete.
LEMMA WriterTypes ==
    ASSUME TypeOK, UNCHANGED <<kind, conn, s_fdCommand, epc, vendor, origin, abandoned>>,
           openFd' \in {openFd, NoFd}, peerOpen' \in {peerOpen, FALSE}, inbox' \subseteq inbox,
           writer' \in Threads \cup {NULL},
           stream' \in [1..MaxConns -> Seq({"header", "body"} \X Messages)],
           info' \in [Ptrs -> RequestInfo \cup {NULL}],
           s_pendingRequests' \subseteq Allocated',
           wpc' \in [Threads -> {"idle", "dequeue", "check", "send", "header", "body"}],
           ptr' \in [Threads -> Ptrs \cup {NULL}],
           msg' \in [Threads -> Messages \cup {NULL}],
           wfd' \in [Threads -> Fds \cup {NoFd}]
    PROVE  TypeOK'
<1>1. peerOpen' \in BOOLEAN /\ (peerOpen' => conn' # 0)
  <2>1. peerOpen \in BOOLEAN /\ (peerOpen => conn # 0)
    BY DEF TypeOK
  <2>2. conn' = conn
    OBVIOUS
  <2>3. CASE peerOpen' = peerOpen
    BY <2>1, <2>2, <2>3, Zenon
  <2>4. CASE peerOpen' = FALSE
    BY <2>4
  <2>5. QED
    BY <2>3, <2>4
<1>2. QED
  BY <1>1 DEF TypeOK

\* checkAndDequeueRequestInfo: the address found has no other owner.
LEMMA DequeueStep ==
    ASSUME IInv, NEW t \in Threads, Dequeue(t)
    PROVE  IInv'
<1>1. /\ wpc[t] = "dequeue" /\ s_pendingRequests' = s_pendingRequests \ {ptr[t]}
      /\ UNCHANGED <<kind, conn, openFd, peerOpen, inbox, s_fdCommand, vendor, epc,
                     writer, stream, origin, abandoned>>
  BY DEF Dequeue, kernel, history
<1>2. CASE ptr[t] \notin s_pendingRequests
  <2>1. s_pendingRequests' = s_pendingRequests /\ info' = info /\ Return(t)
    BY <1>1, <1>2 DEF Dequeue
  <2>2. TypeOK'
    BY <1>1, <2>1 DEF Return, IInv, TypeOK, Allocated, NoFd
  <2>3. Phases'
    BY <1>1, <2>1, GreetingAssumption DEF Return, IInv, TypeOK, Phases, Threads
  <2>4. Ownership'
    BY <1>1, <1>2, <2>1, RequestAssumption
       DEF Return, IInv, TypeOK, Phases, Ownership, HeldAllocated, Holds, Claims,
           Allocated, Threads
  <2>5. OneInfo'
    BY <1>1, <2>1 DEF IInv, OneInfo, Allocated
  <2>6. Marked'
    BY <1>1, <2>1, RequestAssumption, GreetingAssumption
       DEF Return, IInv, TypeOK, Phases, Marked, Allocated, AbandonedNotReported
  <2>7. Unreported'
    BY <1>1, <2>1, WriterReports
  <2>8. QED
    BY <2>2, <2>3, <2>4, <2>5, <2>6, <2>7 DEF IInv
<1>3. CASE ptr[t] \in s_pendingRequests /\ info[ptr[t]].local
  <2>1. FreeAndReturn(t)
    BY <1>3 DEF Dequeue
  <2>2. Frees(t)
    BY <1>1, <1>3, <2>1 DEF Frees, MayFree
  <2>3. AbandonedNotReported'
    BY <1>1 DEF IInv, Marked, AbandonedNotReported
  <2>4. TypeOK'
    BY <1>1, <2>2, FreeingStep, WriterTypes DEF IInv, TypeOK
  <2>5. Unreported'
    BY <1>1, <2>2, FreeingStep, WriterReports DEF Frees
  <2>6. QED
    BY <2>2, <2>3, <2>4, FreeingStep, <2>5 DEF IInv
<1>4. CASE ptr[t] \in s_pendingRequests /\ ~info[ptr[t]].local
  <2>1. /\ wpc' = [wpc EXCEPT ![t] = "check"]
        /\ UNCHANGED <<info, ptr, msg, wfd>>
    BY <1>4 DEF Dequeue
  <2>2. TypeOK'
    BY <1>1, <2>1 DEF IInv, TypeOK, Allocated
  <2>3. Phases'
    BY <1>1, <1>4, <2>1, RequestAssumption, GreetingAssumption
       DEF IInv, TypeOK, Phases, Threads, Allocated
  <2>4. Ownership'
    <3>1. ptr[t] \in Allocated \ vendor /\ ptr[t] \in Ptrs
      BY <1>1, <1>4 DEF IInv, TypeOK, Ownership, Claims, Allocated
    <3>2. \A u \in Threads \ {t} : wpc'[u] = wpc[u] /\ Holds(u)' = Holds(u)
      BY <2>1 DEF IInv, TypeOK, Holds
    <3>3. \A u \in Threads : Claims(u)' => Claims(u) /\ u # t
      BY <1>1, <2>1 DEF IInv, TypeOK, Phases, Claims
    <3>4. HeldAllocated'
      <4>1. \A u \in Threads \ {t} : Holds(u) => ptr[u] # ptr[t]
        BY <1>4 DEF IInv, Ownership, HeldAllocated
      <4>2. vendor' \subseteq s_pendingRequests'
        BY <1>1, <3>1 DEF IInv, Ownership, HeldAllocated
      <4>3. Allocated' = Allocated
        BY <2>1 DEF Allocated
      <4>4. QED
        BY <1>1, <2>1, <3>1, <3>2, <4>1, <4>2, <4>3 DEF IInv, Ownership, HeldAllocated
    <3>5. QED
      BY <1>1, <2>1, <3>1, <3>3, <3>4
         DEF IInv, TypeOK, Ownership, Claims, Phases, Threads
  <2>5. OneInfo'
    BY <1>1, <2>1 DEF IInv, OneInfo, Allocated
  <2>6. Marked'
    BY <1>1, <1>4, <2>1 DEF IInv, TypeOK, Marked, Allocated, AbandonedNotReported
  <2>7. Unreported'
    BY <1>1, <2>1, WriterReports
  <2>8. QED
    BY <2>2, <2>3, <2>4, <2>5, <2>6, <2>7 DEF IInv
<1>5. QED
  BY <1>2, <1>3, <1>4

\* A holder that goes one phase on, with its RequestInfo and what it will send.
LEMMA AdvanceStep ==
    ASSUME IInv, NEW t \in Threads,
           wpc[t] \in {"check", "send", "header"},
           NEW to \in {"send", "header", "body"}, NEW m \in Messages,
           wpc' = [wpc EXCEPT ![t] = to], msg' = [msg EXCEPT ![t] = m],
           IF wpc[t] = "check" THEN m = info[ptr[t]].token /\ ~info[ptr[t]].cancelled
                               ELSE m = msg[t],
           UNCHANGED <<kind, inbox, s_pendingRequests, info, vendor, epc, ptr, origin,
                       abandoned>>,
           AbandonedNotReported'
    PROVE  Phases' /\ Ownership' /\ OneInfo' /\ Marked'
<1>1. /\ wpc'[t] = to /\ msg'[t] = m
      /\ \A u \in Threads \ {t} : wpc'[u] = wpc[u] /\ msg'[u] = msg[u]
  BY DEF IInv, TypeOK
<1>2. wpc[t] = "check" => m \in Reqs /\ ptr[t] \in Ptrs /\ info[ptr[t]] \in RequestInfo
  BY HolderOwns DEF RequestInfo
<1>3. Holds(t)' = Holds(t)
  BY <1>1, <1>2, GreetingAssumption DEF IInv, Phases, Holds
<1>4. \A u \in Threads : Holds(u)' = Holds(u) /\ Claims(u)' = Claims(u)
  BY <1>1, <1>3 DEF Holds, Claims
<1>5. Phases'
  BY <1>1, <1>2, GreetingAssumption DEF IInv, TypeOK, Phases, Threads
<1>6. Allocated' = Allocated
  BY DEF Allocated
<1>7. Ownership'
  <2>1. HeldAllocated'
    BY <1>4, <1>6 DEF IInv, Ownership, HeldAllocated
  <2>2. QED
    BY <1>1, <1>4, <2>1 DEF IInv, Ownership, Threads
<1>8. OneInfo'
  BY <1>6 DEF IInv, OneInfo
<1>9. Marked'
  BY <1>1, <1>2, <1>6 DEF IInv, Marked
<1>10. QED
  BY <1>5, <1>7, <1>8, <1>9

\* The test of the cancelled flag.
LEMMA CheckStep ==
    ASSUME IInv, NEW t \in Threads, CheckCancelled(t)
    PROVE  IInv'
<1>1. /\ wpc[t] = "check"
      /\ UNCHANGED <<kind, conn, openFd, peerOpen, inbox, s_fdCommand,
                     s_pendingRequests, vendor, epc, writer, stream, origin, abandoned>>
  BY DEF CheckCancelled, kernel, history
<1>2. AbandonedNotReported'
  BY <1>1 DEF IInv, Marked, AbandonedNotReported
<1>3. CASE info[ptr[t]].cancelled
  <2>1. FreeAndReturn(t)
    BY <1>3 DEF CheckCancelled
  <2>2. Frees(t)
    BY <1>1, <2>1, HolderFrees
  <2>3. TypeOK'
    BY <1>1, <2>2, FreeingStep, WriterTypes DEF IInv, TypeOK
  <2>4. Unreported'
    BY <1>1, <2>2, FreeingStep, WriterReports DEF Frees
  <2>5. QED
    BY <1>2, <2>2, <2>3, FreeingStep, <2>4 DEF IInv
<1>4. CASE ~info[ptr[t]].cancelled
  <2>1. /\ wpc' = [wpc EXCEPT ![t] = "send"]
        /\ msg' = [msg EXCEPT ![t] = info[ptr[t]].token]
        /\ UNCHANGED <<info, ptr, wfd>>
    BY <1>4 DEF CheckCancelled
  <2>2. info[ptr[t]].token \in Messages
    BY <1>1, HolderOwns DEF RequestInfo, Messages
  <2>3. TypeOK'
    BY <1>1, <2>1, <2>2 DEF IInv, TypeOK, Allocated
  <2>4. Phases' /\ Ownership' /\ OneInfo' /\ Marked'
    BY <1>1, <1>2, <1>4, <2>1, <2>2, AdvanceStep
  <2>5. Unreported'
    BY <1>1, <2>1, WriterReports
  <2>6. QED
    BY <2>3, <2>4, <2>5 DEF IInv
<1>5. QED
  BY <1>3, <1>4

\* sendResponseRaw up to s_writeMutex.
LEMMA SendStep ==
    ASSUME IInv, NEW t \in Threads, SendResponse(t)
    PROVE  IInv'
<1>1. /\ wpc[t] = "send"
      /\ UNCHANGED <<kind, conn, openFd, peerOpen, inbox, s_fdCommand,
                     s_pendingRequests, vendor, epc, writer, stream, origin, abandoned>>
  BY DEF SendResponse, kernel, history
<1>2. AbandonedNotReported'
  BY <1>1 DEF IInv, Marked, AbandonedNotReported
<1>3. CASE FreeAndReturn(t)
  <2>1. Frees(t)
    BY <1>1, <1>3, HolderFrees
  <2>2. TypeOK'
    BY <1>1, <2>1, FreeingStep, WriterTypes DEF IInv, TypeOK
  <2>3. Unreported'
    BY <1>1, <2>1, FreeingStep, WriterReports DEF Frees
  <2>4. QED
    BY <1>2, <2>1, <2>2, FreeingStep, <2>3 DEF IInv
<1>4. CASE /\ wfd' = [wfd EXCEPT ![t] = s_fdCommand]
           /\ wpc' = [wpc EXCEPT ![t] = "header"]
           /\ UNCHANGED <<info, ptr, msg>>
  <2>1. msg[t] \in Messages /\ msg' = [msg EXCEPT ![t] = msg[t]]
    BY <1>1, <1>4 DEF IInv, TypeOK, Phases
  <2>2. TypeOK'
    BY <1>1, <1>4 DEF IInv, TypeOK, Allocated
  <2>3. Phases' /\ Ownership' /\ OneInfo' /\ Marked'
    BY <1>1, <1>2, <1>4, <2>1, AdvanceStep
  <2>4. Unreported'
    BY <1>1, <1>4, WriterReports
  <2>5. QED
    BY <2>2, <2>3, <2>4 DEF IInv
<1>5. QED
  BY <1>3, <1>4 DEF SendResponse

\* What a write adds to a stream is not part of an abandoned response.
LEMMA WriteStep ==
    ASSUME IInv, NEW t \in Threads, wpc[t] \in {"header", "body"},
           NEW item \in {Header(msg[t]), Body(msg[t])}, WriteTo(t, item),
           UNCHANGED <<conn, abandoned>>
    PROVE  /\ stream' \in [1..MaxConns -> Seq({"header", "body"} \X Messages)]
           /\ AbandonedNotReported'
           /\ \A c \in 1..MaxConns : \A r \in Reqs :
                 Header(r) \in Range(stream'[c]) =>
                     Header(r) \in Range(stream[c]) \/ msg[t] = r
<1>1. msg[t] \in Messages
  BY DEF IInv, Phases
<1>2. item \in {"header", "body"} \X Messages
  BY <1>1 DEF Header, Body
<1>3. \A c \in 1..MaxConns :
         /\ stream[c] \in Seq({"header", "body"} \X Messages)
         /\ stream'[c] \in {stream[c], Append(stream[c], item)}
  BY DEF IInv, TypeOK, WriteTo
<1>4. ASSUME NEW c \in 1..MaxConns
      PROVE  /\ stream'[c] \in Seq({"header", "body"} \X Messages)
             /\ Range(stream'[c]) \subseteq Range(stream[c]) \cup {item}
  <2>1. CASE stream'[c] = stream[c]
    BY <2>1, <1>3
  <2>2. CASE stream'[c] = Append(stream[c], item)
    <3>1. /\ Append(stream[c], item) \in Seq({"header", "body"} \X Messages)
          /\ Range(Append(stream[c], item)) \subseteq Range(stream[c]) \cup {item}
      BY <1>2, <1>3, AppendRange
    <3>2. QED
      BY <3>1, <2>2
  <2>3. QED
    BY <2>1, <2>2, <1>3
<1>5. stream' \in [1..MaxConns -> Seq({"header", "body"} \X Messages)]
  <2>1. stream' = [c \in 1..MaxConns |-> stream'[c]]
    BY DEF IInv, TypeOK, WriteTo
  <2>2. QED
    BY <2>1, <1>4
<1>6. ASSUME NEW r \in abandoned PROVE item # Header(r)
  <2>1. CASE msg[t] \in Reqs
    <3>1. ptr[t] \in Allocated /\ ~info[ptr[t]].local /\ ~info[ptr[t]].cancelled
          /\ info[ptr[t]].token = msg[t]
      BY <2>1, HolderOwns, GreetingAssumption DEF IInv, Marked, Allocated
    <3>2. msg[t] \notin abandoned
      BY <3>1 DEF IInv, Marked
    <3>3. QED
      BY <3>2, <1>6 DEF Header, Body
  <2>2. CASE msg[t] = Greeting
    BY <2>2, <1>6, GreetingAssumption DEF IInv, TypeOK, Header, Body
  <2>3. msg[t] \in Reqs \/ msg[t] = Greeting
    BY <1>1 DEF Messages
  <2>4. QED
    BY <2>1, <2>2, <2>3
<1>7. AbandonedNotReported'
  <2>1. ASSUME NEW c \in 1..MaxConns, NEW r \in abandoned
        PROVE  Header(r) \notin Range(stream'[c])
    <3>1. Header(r) \notin Range(stream[c])
      BY DEF IInv, Marked, AbandonedNotReported
    <3>2. QED
      BY <3>1, <1>4, <1>6
  <2>2. abandoned' = abandoned
    OBVIOUS
  <2>3. QED
    BY <2>1, <2>2 DEF AbandonedNotReported, Header
<1>8. ASSUME NEW c \in 1..MaxConns, NEW r \in Reqs, Header(r) \in Range(stream'[c])
      PROVE  Header(r) \in Range(stream[c]) \/ msg[t] = r
  <2>1. Header(r) = item => msg[t] = r
    BY DEF Header, Body
  <2>2. QED
    BY <2>1, <1>4, <1>8
<1>9. QED
  BY <1>5, <1>7, <1>8

\* The two writes differ in what follows a success.
LEMMA FailedWriteStep ==
    ASSUME IInv, NEW t \in Threads, wpc[t] \in {"header", "body"}, WriteFails(t),
           writer' \in Threads \cup {NULL},
           UNCHANGED <<kind, conn, s_fdCommand, s_pendingRequests, vendor, epc, origin,
                       abandoned>>
    PROVE  IInv'
<1>1. /\ inbox' \subseteq inbox /\ openFd' \in {openFd, NoFd}
      /\ peerOpen' \in {peerOpen, FALSE}
      /\ stream' = stream /\ FreeAndReturn(t)
  BY DEF WriteFails, IInv, TypeOK
<1>2. Frees(t)
  BY <1>1, HolderFrees
<1>3. AbandonedNotReported'
  BY <1>1 DEF IInv, Marked, AbandonedNotReported
<1>4. TypeOK'
  BY <1>1, <1>2, FreeingStep, WriterTypes DEF IInv, TypeOK
<1>5. Unreported'
  BY <1>1, <1>2, FreeingStep, WriterReports DEF Frees
<1>6. QED
  BY <1>2, <1>3, <1>4, FreeingStep, <1>5 DEF IInv

\* The length word: the mutex is held and the body is still to come.
LEMMA WriteHeaderStep ==
    ASSUME IInv, NEW t \in Threads, WriteHeader(t)
    PROVE  IInv'
<1>1. /\ wpc[t] = "header"
      /\ UNCHANGED <<kind, conn, s_fdCommand, s_pendingRequests, vendor, epc, origin,
                     abandoned>>
  BY DEF WriteHeader
<1>2. CASE WriteFails(t) /\ UNCHANGED writer
  BY <1>1, <1>2, FailedWriteStep DEF IInv, TypeOK
<1>3. CASE /\ WriteTo(t, Header(msg[t]))
           /\ writer' = t
           /\ wpc' = [wpc EXCEPT ![t] = "body"]
           /\ UNCHANGED <<info, ptr, msg, wfd>>
  <2>1. /\ stream' \in [1..MaxConns -> Seq({"header", "body"} \X Messages)]
        /\ AbandonedNotReported'
        /\ \A c \in 1..MaxConns : \A r \in Reqs :
              Header(r) \in Range(stream'[c]) =>
                  Header(r) \in Range(stream[c]) \/ msg[t] = r
    BY <1>1, <1>3, WriteStep
  <2>2. UNCHANGED <<openFd, peerOpen, inbox>>
    BY <1>3 DEF WriteTo
  <2>3. msg[t] \in Messages /\ msg' = [msg EXCEPT ![t] = msg[t]]
    BY <1>1, <1>3 DEF IInv, TypeOK, Phases
  <2>4. TypeOK'
    <3>1. wpc' \in [Threads -> {"idle", "dequeue", "check", "send", "header", "body"}]
      BY <1>3 DEF IInv, TypeOK
    <3>2. QED
      BY <1>1, <1>3, <2>1, <2>2, <3>1 DEF IInv, TypeOK, Allocated
  <2>5. Phases' /\ Ownership' /\ OneInfo' /\ Marked'
    BY <1>1, <1>3, <2>1, <2>2, <2>3, AdvanceStep
  <2>6. Unreported'
    BY <1>1, <1>3, <2>1, <2>2, WriterReports
  <2>7. QED
    BY <2>4, <2>5, <2>6 DEF IInv
<1>4. QED
  BY <1>2, <1>3 DEF WriteHeader

\* The data: the RequestInfo is freed, whether the write succeeds or not.
LEMMA WriteBodyStep ==
    ASSUME IInv, NEW t \in Threads, WriteBody(t)
    PROVE  IInv'
<1>1. /\ wpc[t] = "body" /\ writer' = NULL
      /\ UNCHANGED <<kind, conn, s_fdCommand, s_pendingRequests, vendor, epc, origin,
                     abandoned>>
  BY DEF WriteBody
<1>2. CASE WriteFails(t)
  BY <1>1, <1>2, FailedWriteStep
<1>3. CASE WriteTo(t, Body(msg[t])) /\ FreeAndReturn(t)
  <2>1. /\ stream' \in [1..MaxConns -> Seq({"header", "body"} \X Messages)]
        /\ AbandonedNotReported'
        /\ \A c \in 1..MaxConns : \A r \in Reqs :
              Header(r) \in Range(stream'[c]) =>
                  Header(r) \in Range(stream[c]) \/ msg[t] = r
    BY <1>1, <1>3, WriteStep
  <2>2. UNCHANGED <<openFd, peerOpen, inbox>>
    BY <1>3 DEF WriteTo
  <2>3. Frees(t)
    BY <1>1, <1>3, <2>2, HolderFrees
  <2>4. TypeOK'
    BY <1>1, <2>1, <2>2, <2>3, FreeingStep, WriterTypes DEF IInv, TypeOK
  <2>5. Unreported'
    BY <1>1, <2>1, <2>3, FreeingStep, WriterReports DEF Frees
  <2>6. QED
    BY <2>1, <2>3, <2>4, FreeingStep, <2>5 DEF IInv
<1>4. QED
  BY <1>2, <1>3 DEF WriteBody

-----------------------------------------------------------------------------
(* The other steps                                                         *)

\* Any step but those of a thread inside RIL_onRequestComplete.
QuietStep ==
    \/ \E r \in Reqs : PeerSend(r) \/ IssueLocalRequest(r)
    \/ PeerClose
    \/ \E f \in Fds : Accept(f)
    \/ EventStep
    \/ \E t \in Vendors, p \in Ptrs : VendorComplete(t, p)
    \/ UNCHANGED vars

\* A new RequestInfo for r on the list, at an address that was free.
Puts(r, p, loc) ==
    /\ info[p] = NULL
    /\ info' = [info EXCEPT ![p] = [token |-> r, cancelled |-> FALSE, local |-> loc]]
    /\ s_pendingRequests' = s_pendingRequests \cup {p}

\* Then only p changes, and it becomes allocated.
LEMMA PutRecord ==
    ASSUME IInv, NEW r \in Reqs, NEW p \in Ptrs, NEW loc \in BOOLEAN, Puts(r, p, loc)
    PROVE  /\ info' \in [Ptrs -> RequestInfo \cup {NULL}]
           /\ \A q \in Ptrs : q # p => info'[q] = info[q]
           /\ info'[p].token = r /\ info'[p].local = loc
           /\ Allocated' = Allocated \cup {p} /\ p \notin Allocated
           /\ s_pendingRequests' \subseteq Allocated'
<1> DEFINE new == [token |-> r, cancelled |-> FALSE, local |-> loc]
<1>1. new \in RequestInfo /\ new # NULL /\ new.token = r /\ new.local = loc
  <2>1. new \in RequestInfo /\ new.token = r /\ new.local = loc
    BY DEF RequestInfo
  <2>2. QED
    BY <2>1, RequestAssumption
<1>2. info' = [info EXCEPT ![p] = new] /\ info[p] = NULL
  BY DEF Puts
<1> HIDE DEF new
<1>3. /\ info' \in [Ptrs -> RequestInfo \cup {NULL}]
      /\ info'[p] = new /\ \A q \in Ptrs : q # p => info'[q] = info[q]
  BY <1>1, <1>2 DEF IInv, TypeOK
<1>4. Allocated' = Allocated \cup {p} /\ p \notin Allocated
  BY <1>1, <1>2, <1>3 DEF Allocated
<1>5. QED
  BY <1>1, <1>3, <1>4 DEF Puts, IInv, TypeOK

\* What onCommandsSocketClosed does to the RequestInfos.
LEMMA MarkRecords ==
    ASSUME IInv, OnCommandsSocketClosed
    PROVE  /\ info' \in [Ptrs -> RequestInfo \cup {NULL}]
           /\ Allocated' = Allocated /\ abandoned' \subseteq Reqs
           /\ \A p \in Allocated :
                 /\ info'[p].token = info[p].token /\ info'[p].local = info[p].local
                 /\ info[p].cancelled => info'[p].cancelled
                 /\ p \in s_pendingRequests => info'[p].cancelled
                 /\ p \notin s_pendingRequests => info'[p] = info[p]
           /\ \A r \in abandoned' \ abandoned :
                 \E p \in s_pendingRequests : p \in Allocated /\ info[p].token = r
<1>1. \A p \in Allocated : p \in Ptrs /\ info[p] \in RequestInfo
  BY DEF IInv, TypeOK, Allocated
<1>2. \A p \in Ptrs : info'[p] = IF p \in s_pendingRequests
                                 THEN [info[p] EXCEPT !.cancelled = TRUE] ELSE info[p]
  BY DEF OnCommandsSocketClosed
<1>3. /\ s_pendingRequests \subseteq Allocated
      /\ abandoned' = abandoned \cup {info[p].token : p \in s_pendingRequests}
  BY DEF OnCommandsSocketClosed, IInv, TypeOK
<1>4. \A x \in RequestInfo :
          /\ [x EXCEPT !.cancelled = TRUE] \in RequestInfo
          /\ [x EXCEPT !.cancelled = TRUE].token = x.token
          /\ [x EXCEPT !.cancelled = TRUE].local = x.local
          /\ [x EXCEPT !.cancelled = TRUE].cancelled = TRUE
          /\ x.token \in Reqs
  BY DEF RequestInfo
<1>5. info' \in [Ptrs -> RequestInfo \cup {NULL}]
  <2>1. info' = [p \in Ptrs |-> info'[p]]
    BY DEF OnCommandsSocketClosed
  <2>2. \A p \in Ptrs : info'[p] \in RequestInfo \cup {NULL}
    <3>1. TAKE p \in Ptrs
    <3>2. CASE p \in s_pendingRequests
      BY <3>2, <1>1, <1>2, <1>3, <1>4
    <3>3. CASE p \notin s_pendingRequests
      BY <3>3, <1>2 DEF IInv, TypeOK
    <3>4. QED
      BY <3>2, <3>3
  <2>3. QED
    BY <2>1, <2>2
<1>6. Allocated' = Allocated
  <2>1. \A p \in s_pendingRequests : p \in Allocated /\ info'[p] \in RequestInfo
    BY <1>1, <1>2, <1>3, <1>4
  <2>2. \A p \in s_pendingRequests : info'[p] # NULL
    BY <2>1, RequestAssumption
  <2>3. \A p \in Ptrs \ s_pendingRequests : info'[p] = info[p]
    BY <1>2
  <2>4. QED
    BY <2>1, <2>2, <2>3 DEF Allocated
<1>7. abandoned' \subseteq Reqs
  <2>1. \A p \in s_pendingRequests : info[p].token \in Reqs
    BY <1>1, <1>3, <1>4
  <2>2. QED
    BY <2>1, <1>3 DEF IInv, TypeOK
<1>8. \A p \in Allocated :
          /\ info'[p].token = info[p].token /\ info'[p].local = info[p].local
          /\ info[p].cancelled => info'[p].cancelled
          /\ p \in s_pendingRequests => info'[p].cancelled
          /\ p \notin s_pendingRequests => info'[p] = info[p]
  BY <1>1, <1>2, <1>4
<1>9. QED
  BY <1>3, <1>5, <1>6, <1>7, <1>8

\* TypeOK under the other steps.
LEMMA TypeStep ==
    ASSUME IInv, QuietStep
    PROVE  TypeOK'
<1>1. ASSUME NEW r \in Reqs, PeerSend(r) PROVE TypeOK'
  BY <1>1, RequestAssumption, GreetingAssumption DEF PeerSend, IInv, TypeOK, Phases,
     Ownership, HeldAllocated, Claims, Allocated, Threads, NoFd, Messages, kernel,
     list, writers, history
<1>2. CASE PeerClose
  BY <1>2, RequestAssumption, GreetingAssumption DEF PeerClose, IInv, TypeOK,
     Phases, Ownership, HeldAllocated, Claims, Allocated, Threads, NoFd, Messages,
     kernel, list, writers, history
<1>3. ASSUME NEW f \in Fds, Accept(f) PROVE TypeOK'
  BY <1>3, RequestAssumption, GreetingAssumption DEF Accept, EventIdle, IInv,
     TypeOK, Phases, Ownership, HeldAllocated, Claims, Allocated, Threads, NoFd,
     Messages, kernel, list, writers, history
<1>4. CASE VetPhone
  BY <1>4, RequestAssumption, GreetingAssumption DEF VetPhone, Greet, IInv, TypeOK,
     Phases, Ownership, HeldAllocated, Claims, Allocated, Threads, NoFd, Messages,
     kernel, list, writers, history
<1>5. CASE VetOther
  BY <1>5, RequestAssumption, GreetingAssumption DEF VetOther, IInv, TypeOK, Phases,
     Ownership, HeldAllocated, Claims, Allocated, Threads, NoFd, Messages, kernel,
     list, writers, history
<1>6. CASE GreetAgain
  BY <1>6, RequestAssumption, GreetingAssumption DEF GreetAgain, Greet, IInv,
     TypeOK, Phases, Ownership, HeldAllocated, Claims, Allocated, Threads, NoFd,
     Messages, kernel, list, writers, history
<1>7. ASSUME NEW r \in Reqs, ReadRecord(r) PROVE TypeOK'
  <2>1. /\ r \in inbox /\ inbox' = inbox \ {r}
        /\ UNCHANGED <<kind, conn, openFd, peerOpen, s_fdCommand, vendor, wpc, msg, wfd,
                     writer, stream, origin, abandoned>>
    BY <1>7 DEF ReadRecord, kernel, history
  <2>2. CASE UNCHANGED <<s_pendingRequests, info, epc, ptr>>
    BY <2>1, <2>2 DEF IInv, TypeOK, Allocated
  <2>3. ASSUME NEW p \in Ptrs, Puts(r, p, FALSE),
               ptr' = [ptr EXCEPT ![Event] = p], epc' = "dispatch"
        PROVE  TypeOK'
    BY <2>1, <2>3, PutRecord, RequestAssumption DEF Puts, IInv, TypeOK, Threads
  <2>4. QED
    BY <1>7, <2>2, <2>3 DEF ReadRecord, Puts
<1>8. ASSUME NEW r \in Reqs, IssueLocalRequest(r) PROVE TypeOK'
  <2>1. PICK p \in Ptrs : Puts(r, p, TRUE) /\ vendor' = vendor \cup {p}
    BY <1>8 DEF IssueLocalRequest, Puts
  <2>2. UNCHANGED <<kind, conn, openFd, peerOpen, inbox, s_fdCommand, epc, wpc, ptr,
                    msg, wfd, writer, stream, origin, abandoned>>
    BY <1>8 DEF IssueLocalRequest, kernel, list, writers, history
  <2>3. /\ info' \in [Ptrs -> RequestInfo \cup {NULL}]
        /\ s_pendingRequests' \subseteq Allocated'
    BY <2>1, PutRecord
  <2>4. vendor' \subseteq Ptrs
    BY <2>1 DEF IInv, TypeOK
  <2>5. QED
    BY <2>2, <2>3, <2>4 DEF IInv, TypeOK
<1>9. CASE DispatchMalformed
  BY <1>9, RequestAssumption, GreetingAssumption DEF DispatchMalformed, IInv,
     TypeOK, Phases, Ownership, HeldAllocated, Claims, Allocated, Threads, NoFd,
     Messages, kernel, list, writers, history
<1>10. CASE DispatchOldRadio
  BY <1>10, RequestAssumption, GreetingAssumption DEF DispatchOldRadio, IInv,
     TypeOK, Phases, Ownership, HeldAllocated, Claims, Allocated, Threads, NoFd,
     Messages, kernel, list, writers, history
<1>11. CASE DispatchAgain
  BY <1>11, RequestAssumption, GreetingAssumption DEF DispatchAgain, IInv, TypeOK,
     Phases, Ownership, HeldAllocated, Claims, Allocated, Threads, NoFd, Messages,
     kernel, list, writers, history
<1>12. CASE DispatchToVendor
  BY <1>12, RequestAssumption, GreetingAssumption DEF DispatchToVendor, IInv,
     TypeOK, Phases, Ownership, HeldAllocated, Claims, Allocated, Threads, NoFd,
     Messages, kernel, list, writers, history
<1>13. CASE DispatchAnswered
  BY <1>13, RequestAssumption, GreetingAssumption DEF DispatchAnswered, IInv,
     TypeOK, Phases, Ownership, HeldAllocated, Claims, Allocated, Threads, NoFd,
     Messages, kernel, list, writers, history
<1>14. CASE CommandsClosed
  BY <1>14, RequestAssumption, GreetingAssumption DEF CommandsClosed, EventIdle,
     IInv, TypeOK, Phases, Ownership, HeldAllocated, Claims, Allocated, Threads,
     NoFd, Messages, kernel, list, writers, history
<1>15. CASE ForgetCommandFd
  BY <1>15, RequestAssumption, GreetingAssumption DEF ForgetCommandFd, IInv, TypeOK,
     Phases, Ownership, HeldAllocated, Claims, Allocated, Threads, NoFd, Messages,
     kernel, list, writers, history
<1>16. CASE OnCommandsSocketClosed
  <2>1. /\ UNCHANGED <<kind, conn, openFd, peerOpen, inbox, s_fdCommand, s_pendingRequests,
                       vendor, wpc, ptr, msg, wfd, writer, stream, origin>>
        /\ epc' = "idle"
    BY <1>16 DEF OnCommandsSocketClosed, kernel, list, writers, history
  <2>2. /\ info' \in [Ptrs -> RequestInfo \cup {NULL}] /\ Allocated' = Allocated
        /\ abandoned' \subseteq Reqs
    BY <1>16, MarkRecords
  <2>3. QED
    BY <2>1, <2>2 DEF IInv, TypeOK
<1>17. CASE LoopDies
  BY <1>17, RequestAssumption, GreetingAssumption DEF LoopDies, EventIdle, IInv,
     TypeOK, Phases, Ownership, HeldAllocated, Claims, Allocated, Threads, NoFd,
     Messages, kernel, list, writers, history
<1>18. ASSUME NEW t \in Vendors, NEW p \in Ptrs, VendorComplete(t, p) PROVE TypeOK'
  BY <1>18, RequestAssumption, GreetingAssumption DEF VendorComplete, IInv, TypeOK,
     Phases, Ownership, HeldAllocated, Claims, Allocated, Threads, NoFd, Messages,
     kernel, list, writers, history
<1>19. CASE UNCHANGED vars
  BY <1>19 DEF vars, IInv, TypeOK, Phases, Ownership, HeldAllocated, Claims,
     Allocated, Threads, NoFd, Messages, kernel, list, writers, history
<1>20. QED
  BY <1>1, <1>2, <1>3, <1>4, <1>5, <1>6, <1>7, <1>8, <1>9, <1>10, <1>11, <1>12,
     <1>13, <1>14, <1>15, <1>16, <1>17, <1>18, <1>19 DEF QuietStep, EventStep

\* Phases under the other steps.
LEMMA PhaseStep ==
    ASSUME IInv, QuietStep
    PROVE  Phases'
<1>1. ASSUME NEW r \in Reqs, PeerSend(r) PROVE Phases'
  BY <1>1, RequestAssumption, GreetingAssumption DEF PeerSend, IInv, TypeOK, Phases,
     Threads, kernel, list, writers, history
<1>2. CASE PeerClose
  BY <1>2, RequestAssumption, GreetingAssumption DEF PeerClose, IInv, TypeOK,
     Phases, Threads, kernel, list, writers, history
<1>3. ASSUME NEW f \in Fds, Accept(f) PROVE Phases'
  BY <1>3, RequestAssumption, GreetingAssumption DEF Accept, EventIdle, IInv,
     TypeOK, Phases, Threads, kernel, list, writers, history
<1>4. CASE VetPhone
  BY <1>4, RequestAssumption, GreetingAssumption
     DEF VetPhone, Greet, IInv, TypeOK, Phases, Threads, Messages,
         kernel, list, writers, history
<1>5. CASE VetOther
  BY <1>5, RequestAssumption, GreetingAssumption DEF VetOther, IInv, TypeOK, Phases,
     Threads, kernel, list, writers, history
<1>6. CASE GreetAgain
  BY <1>6, RequestAssumption, GreetingAssumption
     DEF GreetAgain, Greet, IInv, TypeOK, Phases, Threads, Messages,
         kernel, list, writers, history
<1>7. ASSUME NEW r \in Reqs, ReadRecord(r) PROVE Phases'
  BY <1>7, RequestAssumption, GreetingAssumption DEF ReadRecord, EventIdle, IInv,
     TypeOK, Phases, Threads, kernel, list, writers, history
<1>8. ASSUME NEW r \in Reqs, IssueLocalRequest(r) PROVE Phases'
  BY <1>8, RequestAssumption, GreetingAssumption DEF IssueLocalRequest, EventIdle,
     IInv, TypeOK, Phases, Threads, kernel, list, writers, history
<1>9. CASE DispatchMalformed
  BY <1>9, RequestAssumption, GreetingAssumption DEF DispatchMalformed, IInv,
     TypeOK, Phases, Threads, kernel, list, writers, history
<1>10. CASE DispatchOldRadio
  BY <1>10, RequestAssumption, GreetingAssumption DEF DispatchOldRadio, IInv,
     TypeOK, Phases, Threads, kernel, list, writers, history
<1>11. CASE DispatchAgain
  BY <1>11, RequestAssumption, GreetingAssumption DEF DispatchAgain, IInv, TypeOK,
     Phases, Threads, kernel, list, writers, history
<1>12. CASE DispatchToVendor
  BY <1>12, RequestAssumption, GreetingAssumption DEF DispatchToVendor, IInv,
     TypeOK, Phases, Threads, kernel, list, writers, history
<1>13. CASE DispatchAnswered
  BY <1>13, RequestAssumption, GreetingAssumption DEF DispatchAnswered, IInv,
     TypeOK, Phases, Threads, kernel, list, writers, history
<1>14. CASE CommandsClosed
  BY <1>14, RequestAssumption, GreetingAssumption DEF CommandsClosed, EventIdle,
     IInv, TypeOK, Phases, Threads, kernel, list, writers, history
<1>15. CASE ForgetCommandFd
  BY <1>15, RequestAssumption, GreetingAssumption DEF ForgetCommandFd, IInv, TypeOK,
     Phases, Threads, kernel, list, writers, history
<1>16. CASE OnCommandsSocketClosed
  BY <1>16, RequestAssumption, GreetingAssumption DEF OnCommandsSocketClosed, IInv,
     TypeOK, Phases, Threads, kernel, list, writers, history
<1>17. CASE LoopDies
  BY <1>17, RequestAssumption, GreetingAssumption DEF LoopDies, EventIdle, IInv,
     TypeOK, Phases, Threads, kernel, list, writers, history
<1>18. ASSUME NEW t \in Vendors, NEW p \in Ptrs, VendorComplete(t, p) PROVE Phases'
  BY <1>18, RequestAssumption, GreetingAssumption DEF VendorComplete, IInv, TypeOK,
     Phases, Threads, kernel, list, writers, history
<1>19. CASE UNCHANGED vars
  BY <1>19 DEF vars, IInv, TypeOK, Phases, Threads, kernel, list, writers, history
<1>20. QED
  BY <1>1, <1>2, <1>3, <1>4, <1>5, <1>6, <1>7, <1>8, <1>9, <1>10, <1>11, <1>12,
     <1>13, <1>14, <1>15, <1>16, <1>17, <1>18, <1>19 DEF QuietStep, EventStep

\* Ownership under the other steps: an address enters the list or the vendor RIL,
\* or goes from the vendor RIL to one of its threads.
LEMMA OwnStep ==
    ASSUME IInv, QuietStep
    PROVE  Ownership'
<1>1. ASSUME NEW r \in Reqs, PeerSend(r) PROVE Ownership'
  BY <1>1, RequestAssumption, GreetingAssumption DEF PeerSend, IInv, TypeOK, Phases,
     Ownership, HeldAllocated, Holds, Claims, Allocated, Threads, kernel, list,
     writers, history
<1>2. CASE PeerClose
  BY <1>2, RequestAssumption, GreetingAssumption DEF PeerClose, IInv, TypeOK,
     Phases, Ownership, HeldAllocated, Holds, Claims, Allocated, Threads, kernel,
     list, writers, history
<1>3. ASSUME NEW f \in Fds, Accept(f) PROVE Ownership'
  BY <1>3, RequestAssumption, GreetingAssumption DEF Accept, EventIdle, IInv,
     TypeOK, Phases, Ownership, HeldAllocated, Holds, Claims, Allocated, Threads,
     kernel, list, writers, history
<1>4. CASE VetPhone
  BY <1>4, RequestAssumption, GreetingAssumption DEF VetPhone, Greet, IInv, TypeOK,
     Phases, Ownership, HeldAllocated, Holds, Claims, Allocated, Threads, kernel,
     list, writers, history
<1>5. CASE VetOther
  BY <1>5, RequestAssumption, GreetingAssumption DEF VetOther, IInv, TypeOK, Phases,
     Ownership, HeldAllocated, Holds, Claims, Allocated, Threads, kernel, list,
     writers, history
<1>6. CASE GreetAgain
  BY <1>6, RequestAssumption, GreetingAssumption DEF GreetAgain, Greet, IInv,
     TypeOK, Phases, Ownership, HeldAllocated, Holds, Claims, Allocated, Threads,
     kernel, list, writers, history
<1>7. ASSUME NEW r \in Reqs, ReadRecord(r) PROVE Ownership'
  BY <1>7, RequestAssumption, GreetingAssumption DEF ReadRecord, EventIdle, IInv,
     TypeOK, Phases, Ownership, HeldAllocated, Holds, Claims, Allocated, Threads,
     kernel, list, writers, history
<1>8. ASSUME NEW r \in Reqs, IssueLocalRequest(r) PROVE Ownership'
  BY <1>8, RequestAssumption, GreetingAssumption DEF IssueLocalRequest, EventIdle,
     IInv, TypeOK, Phases, Ownership, HeldAllocated, Holds, Claims, Allocated,
     Threads, kernel, list, writers, history
<1>9. CASE DispatchMalformed
  BY <1>9, RequestAssumption, GreetingAssumption DEF DispatchMalformed, IInv,
     TypeOK, Phases, Ownership, HeldAllocated, Holds, Claims, Allocated, Threads,
     kernel, list, writers, history
<1>10. CASE DispatchOldRadio
  BY <1>10, RequestAssumption, GreetingAssumption DEF DispatchOldRadio, IInv,
     TypeOK, Phases, Ownership, HeldAllocated, Holds, Claims, Allocated, Threads,
     kernel, list, writers, history
<1>11. CASE DispatchAgain
  BY <1>11, RequestAssumption, GreetingAssumption DEF DispatchAgain, IInv, TypeOK,
     Phases, Ownership, HeldAllocated, Holds, Claims, Allocated, Threads, kernel,
     list, writers, history
<1>12. CASE DispatchToVendor
  BY <1>12, RequestAssumption, GreetingAssumption DEF DispatchToVendor, IInv,
     TypeOK, Phases, Ownership, HeldAllocated, Holds, Claims, Allocated, Threads,
     kernel, list, writers, history
<1>13. CASE DispatchAnswered
  BY <1>13, RequestAssumption, GreetingAssumption DEF DispatchAnswered, IInv,
     TypeOK, Phases, Ownership, HeldAllocated, Holds, Claims, Allocated, Threads,
     kernel, list, writers, history
<1>14. CASE CommandsClosed
  BY <1>14, RequestAssumption, GreetingAssumption DEF CommandsClosed, EventIdle,
     IInv, TypeOK, Phases, Ownership, HeldAllocated, Holds, Claims, Allocated,
     Threads, kernel, list, writers, history
<1>15. CASE ForgetCommandFd
  BY <1>15, RequestAssumption, GreetingAssumption DEF ForgetCommandFd, IInv, TypeOK,
     Phases, Ownership, HeldAllocated, Holds, Claims, Allocated, Threads, kernel,
     list, writers, history
<1>16. CASE OnCommandsSocketClosed
  BY <1>16, RequestAssumption, GreetingAssumption DEF OnCommandsSocketClosed, IInv,
     TypeOK, Phases, Ownership, HeldAllocated, Holds, Claims, Allocated, Threads,
     kernel, list, writers, history
<1>17. CASE LoopDies
  BY <1>17, RequestAssumption, GreetingAssumption DEF LoopDies, EventIdle, IInv,
     TypeOK, Phases, Ownership, HeldAllocated, Holds, Claims, Allocated, Threads,
     kernel, list, writers, history
<1>18. ASSUME NEW t \in Vendors, NEW p \in Ptrs, VendorComplete(t, p) PROVE Ownership'
  BY <1>18, RequestAssumption, GreetingAssumption DEF VendorComplete, IInv, TypeOK,
     Phases, Ownership, HeldAllocated, Holds, Claims, Allocated, Threads, kernel,
     list, writers, history
<1>19. CASE UNCHANGED vars
  BY <1>19 DEF vars, IInv, TypeOK, Phases, Ownership, HeldAllocated, Holds, Claims,
     Allocated, Threads, kernel, list, writers, history
<1>20. QED
  BY <1>1, <1>2, <1>3, <1>4, <1>5, <1>6, <1>7, <1>8, <1>9, <1>10, <1>11, <1>12,
     <1>13, <1>14, <1>15, <1>16, <1>17, <1>18, <1>19 DEF QuietStep, EventStep

\* OneInfo under the other steps.
LEMMA OneInfoStep ==
    ASSUME IInv, QuietStep
    PROVE  OneInfo'
<1>1. ASSUME NEW r \in Reqs, PeerSend(r) PROVE OneInfo'
  <2>1. /\ origin[r] = 0 /\ kind[r] # "local"
        /\ \A s \in Reqs : origin'[s] = IF s = r THEN conn ELSE origin[s]
        /\ inbox' = inbox \cup {r}
        /\ kind' = kind /\ info' = info /\ Allocated' = Allocated
    BY <1>1 DEF PeerSend, IInv, TypeOK, Allocated, kernel, list, writers, history
  <2>2. conn # 0
    BY <1>1 DEF PeerSend, IInv, TypeOK
  <2>3. \A p \in Allocated : info[p].token \in Reqs
    BY DEF IInv, TypeOK, Allocated, RequestInfo
  <2>4. \A p \in Allocated : info[p].token # r \/ info[p].local
    BY <2>1 DEF IInv, OneInfo
  <2>5. QED
    BY <2>1, <2>2, <2>3, <2>4 DEF IInv, TypeOK, OneInfo
<1>2. CASE PeerClose
  BY <1>2, RequestAssumption, GreetingAssumption DEF PeerClose, IInv, TypeOK,
     OneInfo, Ownership, Claims, Allocated, Threads, kernel, list, writers, history
<1>3. ASSUME NEW f \in Fds, Accept(f) PROVE OneInfo'
  BY <1>3, RequestAssumption, GreetingAssumption DEF Accept, EventIdle, IInv,
     TypeOK, OneInfo, Ownership, Claims, Allocated, Threads, kernel, list, writers,
     history
<1>4. CASE VetPhone
  BY <1>4, RequestAssumption, GreetingAssumption DEF VetPhone, Greet, IInv, TypeOK,
     OneInfo, Ownership, Claims, Allocated, Threads, kernel, list, writers, history
<1>5. CASE VetOther
  BY <1>5, RequestAssumption, GreetingAssumption DEF VetOther, IInv, TypeOK,
     OneInfo, Ownership, Claims, Allocated, Threads, kernel, list, writers, history
<1>6. CASE GreetAgain
  BY <1>6, RequestAssumption, GreetingAssumption DEF GreetAgain, Greet, IInv,
     TypeOK, OneInfo, Ownership, Claims, Allocated, Threads, kernel, list, writers,
     history
<1>7. ASSUME NEW r \in Reqs, ReadRecord(r) PROVE OneInfo'
  <2>1. /\ r \in inbox /\ inbox' = inbox \ {r}
        /\ UNCHANGED <<kind, conn, openFd, peerOpen, s_fdCommand, vendor, wpc, msg, wfd,
                     writer, stream, origin, abandoned>>
    BY <1>7 DEF ReadRecord, kernel, history
  <2>2. CASE UNCHANGED <<s_pendingRequests, info, epc, ptr>>
    BY <2>1, <2>2 DEF IInv, OneInfo, Allocated
  <2>3. ASSUME NEW p \in Ptrs, Puts(r, p, FALSE),
               ptr' = [ptr EXCEPT ![Event] = p], epc' = "dispatch"
        PROVE  OneInfo'
    <3>1. /\ \A q \in Ptrs : q # p => info'[q] = info[q]
          /\ info'[p].token = r /\ ~info'[p].local /\ Allocated' = Allocated \cup {p}
          /\ p \notin Allocated
      BY <2>3, PutRecord
    <3>2. kind[r] # "local" /\ origin[r] # 0 /\ \A q \in Allocated : info[q].token # r
      BY <2>1 DEF IInv, OneInfo
    <3>3. \A q \in Allocated : q \in Ptrs /\ q # p
      BY <3>1 DEF Allocated
    <3>4. /\ \A q \in Allocated' :
                /\ info'[q].local <=> kind'[info'[q].token] = "local"
                /\ ~info'[q].local => origin'[info'[q].token] # 0
      BY <2>1, <3>1, <3>2, <3>3 DEF IInv, OneInfo
    <3>5. \A q, u \in Allocated' :
              ~info'[q].local /\ info'[q].token = info'[u].token => q = u
      BY <3>1, <3>2, <3>3 DEF IInv, OneInfo
    <3>6. \A s \in inbox' :
              /\ kind'[s] # "local" /\ origin'[s] # 0
              /\ \A q \in Allocated' : info'[q].token # s
      BY <2>1, <3>1, <3>3 DEF IInv, OneInfo
    <3>7. QED
      BY <3>4, <3>5, <3>6 DEF OneInfo
  <2>4. QED
    BY <1>7, <2>2, <2>3 DEF ReadRecord, Puts
<1>8. ASSUME NEW r \in Reqs, IssueLocalRequest(r) PROVE OneInfo'
  BY <1>8, RequestAssumption, GreetingAssumption DEF IssueLocalRequest, EventIdle,
     IInv, TypeOK, OneInfo, Ownership, Claims, Allocated, Threads, kernel, list,
     writers, history
<1>9. CASE DispatchMalformed
  BY <1>9, RequestAssumption, GreetingAssumption DEF DispatchMalformed, IInv,
     TypeOK, OneInfo, Ownership, Claims, Allocated, Threads, kernel, list, writers,
     history
<1>10. CASE DispatchOldRadio
  BY <1>10, RequestAssumption, GreetingAssumption DEF DispatchOldRadio, IInv,
     TypeOK, OneInfo, Ownership, Claims, Allocated, Threads, kernel, list, writers,
     history
<1>11. CASE DispatchAgain
  BY <1>11, RequestAssumption, GreetingAssumption DEF DispatchAgain, IInv, TypeOK,
     OneInfo, Ownership, Claims, Allocated, Threads, kernel, list, writers, history
<1>12. CASE DispatchToVendor
  BY <1>12, RequestAssumption, GreetingAssumption DEF DispatchToVendor, IInv,
     TypeOK, OneInfo, Ownership, Claims, Allocated, Threads, kernel, list, writers,
     history
<1>13. CASE DispatchAnswered
  BY <1>13, RequestAssumption, GreetingAssumption DEF DispatchAnswered, IInv,
     TypeOK, OneInfo, Ownership, Claims, Allocated, Threads, kernel, list, writers,
     history
<1>14. CASE CommandsClosed
  BY <1>14, RequestAssumption, GreetingAssumption DEF CommandsClosed, EventIdle,
     IInv, TypeOK, OneInfo, Ownership, Claims, Allocated, Threads, kernel, list,
     writers, history
<1>15. CASE ForgetCommandFd
  BY <1>15, RequestAssumption, GreetingAssumption DEF ForgetCommandFd, IInv, TypeOK,
     OneInfo, Ownership, Claims, Allocated, Threads, kernel, list, writers, history
<1>16. CASE OnCommandsSocketClosed
  BY <1>16, RequestAssumption, GreetingAssumption DEF OnCommandsSocketClosed, IInv,
     TypeOK, OneInfo, Ownership, Claims, Allocated, Threads, kernel, list, writers,
     history
<1>17. CASE LoopDies
  BY <1>17, RequestAssumption, GreetingAssumption DEF LoopDies, EventIdle, IInv,
     TypeOK, OneInfo, Ownership, Claims, Allocated, Threads, kernel, list, writers,
     history
<1>18. ASSUME NEW t \in Vendors, NEW p \in Ptrs, VendorComplete(t, p) PROVE OneInfo'
  BY <1>18, RequestAssumption, GreetingAssumption DEF VendorComplete, IInv, TypeOK,
     OneInfo, Ownership, Claims, Allocated, Threads, kernel, list, writers, history
<1>19. CASE UNCHANGED vars
  BY <1>19 DEF vars, IInv, TypeOK, OneInfo, Ownership, Claims, Allocated, Threads,
     kernel, list, writers, history
<1>20. QED
  BY <1>1, <1>2, <1>3, <1>4, <1>5, <1>6, <1>7, <1>8, <1>9, <1>10, <1>11, <1>12,
     <1>13, <1>14, <1>15, <1>16, <1>17, <1>18, <1>19 DEF QuietStep, EventStep

\* Unreported under the other steps.
LEMMA ReportStep ==
    ASSUME IInv, QuietStep
    PROVE  Unreported'
<1>1. ASSUME NEW r \in Reqs, PeerSend(r) PROVE Unreported'
  BY <1>1, RequestAssumption, GreetingAssumption DEF PeerSend, IInv, TypeOK,
     Unreported, OneInfo, Allocated, Header, kernel, list, writers, history
<1>2. CASE PeerClose
  BY <1>2, RequestAssumption, GreetingAssumption DEF PeerClose, IInv, TypeOK,
     Unreported, OneInfo, Allocated, Header, kernel, list, writers, history
<1>3. ASSUME NEW f \in Fds, Accept(f) PROVE Unreported'
  BY <1>3, RequestAssumption, GreetingAssumption DEF Accept, EventIdle, IInv,
     TypeOK, Unreported, OneInfo, Allocated, Header, kernel, list, writers, history
<1>4. CASE VetPhone
  BY <1>4, RequestAssumption, GreetingAssumption DEF VetPhone, Greet, IInv, TypeOK,
     Unreported, OneInfo, Allocated, Header, kernel, list, writers, history
<1>5. CASE VetOther
  BY <1>5, RequestAssumption, GreetingAssumption DEF VetOther, IInv, TypeOK,
     Unreported, OneInfo, Allocated, Header, kernel, list, writers, history
<1>6. CASE GreetAgain
  BY <1>6, RequestAssumption, GreetingAssumption DEF GreetAgain, Greet, IInv,
     TypeOK, Unreported, OneInfo, Allocated, Header, kernel, list, writers, history
<1>7. ASSUME NEW r \in Reqs, ReadRecord(r) PROVE Unreported'
  <2>1. /\ r \in inbox /\ inbox' = inbox \ {r}
        /\ UNCHANGED <<kind, conn, openFd, peerOpen, s_fdCommand, vendor, wpc, msg, wfd,
                     writer, stream, origin, abandoned>>
    BY <1>7 DEF ReadRecord, kernel, history
  <2>2. CASE UNCHANGED <<s_pendingRequests, info, epc, ptr>>
    BY <2>1, <2>2 DEF IInv, Unreported, Header
  <2>3. ASSUME NEW p \in Ptrs, Puts(r, p, FALSE),
               ptr' = [ptr EXCEPT ![Event] = p], epc' = "dispatch"
        PROVE  Unreported'
    <3>1. /\ \A q \in Ptrs : q # p => info'[q] = info[q]
          /\ info'[p].token = r /\ p \notin Allocated
      BY <2>3, PutRecord
    <3>2. \A q \in s_pendingRequests : info'[q] = info[q]
      BY <3>1 DEF IInv, TypeOK, Allocated
    <3>3. \A c \in 1..MaxConns : Header(r) \notin Range(stream[c])
      BY <2>1 DEF IInv, Unreported
    <3>4. QED
      BY <2>1, <2>3, <3>1, <3>2, <3>3 DEF Puts, IInv, Unreported, Header
  <2>4. QED
    BY <1>7, <2>2, <2>3 DEF ReadRecord, Puts
<1>8. ASSUME NEW r \in Reqs, IssueLocalRequest(r) PROVE Unreported'
  <2>1. PICK p \in Ptrs : Puts(r, p, TRUE)
    BY <1>8 DEF IssueLocalRequest, Puts
  <2>2. UNCHANGED <<kind, inbox, stream, origin>> /\ kind[r] = "local"
    BY <1>8 DEF IssueLocalRequest, kernel, list, writers, history
  <2>3. QED
    <3>1. /\ \A q \in Ptrs : q # p => info'[q] = info[q]
          /\ info'[p].token = r /\ p \notin Allocated
      BY <2>1, PutRecord
    <3>2. \A q \in s_pendingRequests : info'[q] = info[q]
      BY <3>1 DEF IInv, TypeOK, Allocated
    <3>3. \A c \in 1..MaxConns : Header(r) \notin Range(stream[c])
      BY <2>2 DEF IInv, Unreported
    <3>4. QED
      BY <2>1, <2>2, <3>1, <3>2, <3>3 DEF Puts, IInv, Unreported, Header
<1>9. CASE DispatchMalformed
  BY <1>9, RequestAssumption, GreetingAssumption DEF DispatchMalformed, IInv,
     TypeOK, Unreported, OneInfo, Allocated, Header, kernel, list, writers, history
<1>10. CASE DispatchOldRadio
  BY <1>10, RequestAssumption, GreetingAssumption DEF DispatchOldRadio, IInv,
     TypeOK, Unreported, OneInfo, Allocated, Header, kernel, list, writers, history
<1>11. CASE DispatchAgain
  BY <1>11, RequestAssumption, GreetingAssumption DEF DispatchAgain, IInv, TypeOK,
     Unreported, OneInfo, Allocated, Header, kernel, list, writers, history
<1>12. CASE DispatchToVendor
  BY <1>12, RequestAssumption, GreetingAssumption DEF DispatchToVendor, IInv,
     TypeOK, Unreported, OneInfo, Allocated, Header, kernel, list, writers, history
<1>13. CASE DispatchAnswered
  BY <1>13, RequestAssumption, GreetingAssumption DEF DispatchAnswered, IInv,
     TypeOK, Unreported, OneInfo, Allocated, Header, kernel, list, writers, history
<1>14. CASE CommandsClosed
  BY <1>14, RequestAssumption, GreetingAssumption DEF CommandsClosed, EventIdle,
     IInv, TypeOK, Unreported, OneInfo, Allocated, Header, kernel, list, writers,
     history
<1>15. CASE ForgetCommandFd
  BY <1>15, RequestAssumption, GreetingAssumption DEF ForgetCommandFd, IInv, TypeOK,
     Unreported, OneInfo, Allocated, Header, kernel, list, writers, history
<1>16. CASE OnCommandsSocketClosed
  <2>1. UNCHANGED <<kind, inbox, s_pendingRequests, stream, origin>>
    BY <1>16 DEF OnCommandsSocketClosed, kernel, list, writers, history
  <2>2. \A p \in s_pendingRequests : info'[p].token = info[p].token
    BY <1>16, MarkRecords DEF IInv, TypeOK
  <2>3. QED
    BY <2>1, <2>2 DEF IInv, Unreported, Header
<1>17. CASE LoopDies
  BY <1>17, RequestAssumption, GreetingAssumption DEF LoopDies, EventIdle, IInv,
     TypeOK, Unreported, OneInfo, Allocated, Header, kernel, list, writers, history
<1>18. ASSUME NEW t \in Vendors, NEW p \in Ptrs, VendorComplete(t, p) PROVE Unreported'
  BY <1>18, RequestAssumption, GreetingAssumption DEF VendorComplete, IInv, TypeOK,
     Unreported, OneInfo, Allocated, Header, kernel, list, writers, history
<1>19. CASE UNCHANGED vars
  BY <1>19 DEF vars, IInv, TypeOK, Unreported, OneInfo, Allocated, Header, kernel,
     list, writers, history
<1>20. QED
  BY <1>1, <1>2, <1>3, <1>4, <1>5, <1>6, <1>7, <1>8, <1>9, <1>10, <1>11, <1>12,
     <1>13, <1>14, <1>15, <1>16, <1>17, <1>18, <1>19 DEF QuietStep, EventStep

\* Marked under the other steps; a connection that is closed marks what it abandons.
LEMMA MarkStep ==
    ASSUME IInv, QuietStep
    PROVE  Marked'
<1>1. ASSUME NEW r \in Reqs, PeerSend(r) PROVE Marked'
  BY <1>1, RequestAssumption, GreetingAssumption DEF PeerSend, IInv, TypeOK, Phases,
     Ownership, HeldAllocated, Holds, OneInfo, Marked, Unreported,
     AbandonedNotReported, Allocated, Threads, kernel, list, writers, history
<1>2. CASE PeerClose
  BY <1>2, RequestAssumption, GreetingAssumption DEF PeerClose, IInv, TypeOK,
     Phases, Ownership, HeldAllocated, Holds, OneInfo, Marked, Unreported,
     AbandonedNotReported, Allocated, Threads, kernel, list, writers, history
<1>3. ASSUME NEW f \in Fds, Accept(f) PROVE Marked'
  BY <1>3, RequestAssumption, GreetingAssumption DEF Accept, EventIdle, IInv,
     TypeOK, Phases, Ownership, HeldAllocated, Holds, OneInfo, Marked, Unreported,
     AbandonedNotReported, Allocated, Threads, kernel, list, writers, history
<1>4. CASE VetPhone
  BY <1>4, RequestAssumption, GreetingAssumption DEF VetPhone, Greet, IInv, TypeOK,
     Phases, Ownership, HeldAllocated, Holds, OneInfo, Marked, Unreported,
     AbandonedNotReported, Allocated, Threads, kernel, list, writers, history
<1>5. CASE VetOther
  BY <1>5, RequestAssumption, GreetingAssumption DEF VetOther, IInv, TypeOK, Phases,
     Ownership, HeldAllocated, Holds, OneInfo, Marked, Unreported,
     AbandonedNotReported, Allocated, Threads, kernel, list, writers, history
<1>6. CASE GreetAgain
  BY <1>6, RequestAssumption, GreetingAssumption DEF GreetAgain, Greet, IInv,
     TypeOK, Phases, Ownership, HeldAllocated, Holds, OneInfo, Marked, Unreported,
     AbandonedNotReported, Allocated, Threads, kernel, list, writers, history
<1>7. ASSUME NEW r \in Reqs, ReadRecord(r) PROVE Marked'
  <2>1. /\ r \in inbox /\ inbox' = inbox \ {r}
        /\ UNCHANGED <<kind, conn, openFd, peerOpen, s_fdCommand, vendor, wpc, msg, wfd,
                     writer, stream, origin, abandoned>>
    BY <1>7 DEF ReadRecord, kernel, history
  <2>2. CASE UNCHANGED <<s_pendingRequests, info, epc, ptr>>
    BY <2>1, <2>2 DEF IInv, Marked, AbandonedNotReported, Allocated
  <2>3. ASSUME NEW p \in Ptrs, Puts(r, p, FALSE),
               ptr' = [ptr EXCEPT ![Event] = p], epc' = "dispatch"
        PROVE  Marked'
    <3>1. /\ \A q \in Ptrs : q # p => info'[q] = info[q]
          /\ info'[p].token = r /\ ~info'[p].local /\ Allocated' = Allocated \cup {p}
          /\ p \notin Allocated
      BY <2>3, PutRecord
    <3>2. r \notin abandoned
      BY <2>1 DEF IInv, Marked
    <3>3. \A q \in Allocated : q \in Ptrs /\ q # p
      BY <3>1 DEF Allocated
    <3>4. \A t \in Threads :
              wpc[t] = "check" \/ msg[t] \in Reqs =>
                  ptr'[t] = ptr[t] /\ info'[ptr[t]] = info[ptr[t]]
      <4>1. ASSUME NEW t \in Threads, wpc[t] = "check" \/ msg[t] \in Reqs
            PROVE  Holds(t)
        BY <4>1, RequestAssumption, GreetingAssumption DEF IInv, TypeOK, Phases, Holds
      <4>2. wpc[Event] = "idle"
        BY <1>7 DEF ReadRecord, EventIdle
      <4>3. QED
        BY <2>3, <3>1, <3>3, <4>1, <4>2
           DEF IInv, TypeOK, Ownership, HeldAllocated, Holds
    <3>5. AbandonedNotReported'
      BY <2>1 DEF IInv, Marked, AbandonedNotReported
    <3>6. \A q \in Allocated' :
              ~info'[q].local /\ info'[q].token \in abandoned' => info'[q].cancelled
      BY <2>1, <3>1, <3>2, <3>3 DEF IInv, Marked
    <3>7. \A s \in abandoned' : s \notin inbox' /\ (kind'[s] # "local" => origin'[s] # 0)
      BY <2>1 DEF IInv, Marked
    <3>8. QED
      BY <2>1, <3>4, <3>5, <3>6, <3>7 DEF IInv, Marked
  <2>4. QED
    BY <1>7, <2>2, <2>3 DEF ReadRecord, Puts
<1>8. ASSUME NEW r \in Reqs, IssueLocalRequest(r) PROVE Marked'
  <2>1. PICK p \in Ptrs : Puts(r, p, TRUE)
    BY <1>8 DEF IssueLocalRequest, Puts
  <2>2. UNCHANGED <<kind, inbox, wpc, ptr, msg, stream, origin, abandoned>>
    BY <1>8 DEF IssueLocalRequest, kernel, list, writers, history
  <2>3. /\ \A q \in Ptrs : q # p => info'[q] = info[q]
        /\ info'[p].local /\ Allocated' = Allocated \cup {p} /\ p \notin Allocated
    BY <2>1, PutRecord
  <2>4. \A q \in Allocated : q \in Ptrs /\ q # p /\ info'[q] = info[q]
    BY <2>3 DEF Allocated
  <2>5. \A t \in Threads :
            wpc[t] = "check" \/ msg[t] \in Reqs => info'[ptr[t]] = info[ptr[t]]
    <3>1. ASSUME NEW t \in Threads, wpc[t] = "check" \/ msg[t] \in Reqs
          PROVE  Holds(t)
      BY <3>1, RequestAssumption, GreetingAssumption DEF IInv, TypeOK, Phases, Holds
    <3>2. QED
      BY <2>4, <3>1 DEF IInv, Ownership, HeldAllocated
  <2>6. AbandonedNotReported'
    BY <2>2 DEF IInv, Marked, AbandonedNotReported
  <2>7. QED
    BY <2>2, <2>3, <2>4, <2>5, <2>6 DEF IInv, Marked
<1>9. CASE DispatchMalformed
  BY <1>9, RequestAssumption, GreetingAssumption DEF DispatchMalformed, IInv,
     TypeOK, Phases, Ownership, HeldAllocated, Holds, OneInfo, Marked, Unreported,
     AbandonedNotReported, Allocated, Threads, kernel, list, writers, history
<1>10. CASE DispatchOldRadio
  BY <1>10, RequestAssumption, GreetingAssumption DEF DispatchOldRadio, IInv,
     TypeOK, Phases, Ownership, HeldAllocated, Holds, OneInfo, Marked, Unreported,
     AbandonedNotReported, Allocated, Threads, kernel, list, writers, history
<1>11. CASE DispatchAgain
  BY <1>11, RequestAssumption, GreetingAssumption DEF DispatchAgain, IInv, TypeOK,
     Phases, Ownership, HeldAllocated, Holds, OneInfo, Marked, Unreported,
     AbandonedNotReported, Allocated, Threads, kernel, list, writers, history
<1>12. CASE DispatchToVendor
  BY <1>12, RequestAssumption, GreetingAssumption DEF DispatchToVendor, IInv,
     TypeOK, Phases, Ownership, HeldAllocated, Holds, OneInfo, Marked, Unreported,
     AbandonedNotReported, Allocated, Threads, kernel, list, writers, history
<1>13. CASE DispatchAnswered
  BY <1>13, RequestAssumption, GreetingAssumption DEF DispatchAnswered, IInv,
     TypeOK, Phases, Ownership, HeldAllocated, Holds, OneInfo, Marked, Unreported,
     AbandonedNotReported, Allocated, Threads, kernel, list, writers, history
<1>14. CASE CommandsClosed
  BY <1>14, RequestAssumption, GreetingAssumption DEF CommandsClosed, EventIdle,
     IInv, TypeOK, Phases, Ownership, HeldAllocated, Holds, OneInfo, Marked,
     Unreported, AbandonedNotReported, Allocated, Threads, kernel, list, writers,
     history
<1>15. CASE ForgetCommandFd
  BY <1>15, RequestAssumption, GreetingAssumption DEF ForgetCommandFd, IInv, TypeOK,
     Phases, Ownership, HeldAllocated, Holds, OneInfo, Marked, Unreported,
     AbandonedNotReported, Allocated, Threads, kernel, list, writers, history
<1>16. CASE OnCommandsSocketClosed
  <2>1. UNCHANGED <<kind, inbox, wpc, ptr, msg, stream, origin>>
    BY <1>16 DEF OnCommandsSocketClosed, kernel, list, writers, history
  <2>2. /\ Allocated' = Allocated
        /\ \A p \in Allocated :
              /\ info'[p].token = info[p].token /\ info'[p].local = info[p].local
              /\ info[p].cancelled => info'[p].cancelled
              /\ p \in s_pendingRequests => info'[p].cancelled
              /\ p \notin s_pendingRequests => info'[p] = info[p]
        /\ \A r \in abandoned' \ abandoned :
              \E p \in s_pendingRequests : p \in Allocated /\ info[p].token = r
    BY <1>16, MarkRecords
  <2>3. \A r \in abandoned' : r \notin inbox' /\ (kind'[r] # "local" => origin'[r] # 0)
    BY <2>1, <2>2 DEF IInv, Marked, OneInfo
  <2>4. \A p \in Allocated' :
            ~info'[p].local /\ info'[p].token \in abandoned' => info'[p].cancelled
    BY <2>2 DEF IInv, Marked, OneInfo
  <2>5. \A t \in Threads :
            wpc[t] = "check" \/ msg[t] \in Reqs =>
                /\ Holds(t) /\ ptr[t] \in Allocated \ s_pendingRequests
                /\ info'[ptr[t]] = info[ptr[t]]
    BY <2>2, RequestAssumption, GreetingAssumption
       DEF IInv, TypeOK, Phases, Holds, Ownership, HeldAllocated
  <2>6. AbandonedNotReported'
    <3>1. ASSUME NEW r \in abandoned' \ abandoned, NEW c \in 1..MaxConns
          PROVE  Header(r) \notin Range(stream[c])
      BY <2>2 DEF IInv, TypeOK, Unreported, Allocated, RequestInfo
    <3>2. QED
      BY <2>1, <3>1 DEF IInv, Marked, AbandonedNotReported, Header
  <2>7. QED
    BY <2>1, <2>3, <2>4, <2>5, <2>6 DEF IInv, Marked
<1>17. CASE LoopDies
  BY <1>17, RequestAssumption, GreetingAssumption DEF LoopDies, EventIdle, IInv,
     TypeOK, Phases, Ownership, HeldAllocated, Holds, OneInfo, Marked, Unreported,
     AbandonedNotReported, Allocated, Threads, kernel, list, writers, history
<1>18. ASSUME NEW t \in Vendors, NEW p \in Ptrs, VendorComplete(t, p) PROVE Marked'
  BY <1>18, RequestAssumption, GreetingAssumption DEF VendorComplete, IInv, TypeOK,
     Phases, Ownership, HeldAllocated, Holds, OneInfo, Marked, Unreported,
     AbandonedNotReported, Allocated, Threads, kernel, list, writers, history
<1>19. CASE UNCHANGED vars
  BY <1>19 DEF vars, IInv, TypeOK, Phases, Ownership, HeldAllocated, Holds, OneInfo,
     Marked, Unreported, AbandonedNotReported, Allocated, Threads, kernel, list,
     writers, history
<1>20. QED
  BY <1>1, <1>2, <1>3, <1>4, <1>5, <1>6, <1>7, <1>8, <1>9, <1>10, <1>11, <1>12,
     <1>13, <1>14, <1>15, <1>16, <1>17, <1>18, <1>19 DEF QuietStep, EventStep

-----------------------------------------------------------------------------
(* Frames stay whole                                                       *)

\* A frame that is begun or finished in order leaves a stream of whole frames.
LEMMA AppendFrames ==
    ASSUME NEW S, NEW s \in Seq(S), NEW e \in S, NEW n \in Messages,
           \A i \in 2..Len(s) : \A m \in Messages :
               s[i - 1] = Header(m) <=> s[i] = Body(m),
           \/ s = <<>>
           \/ s[Len(s)] = Header(n) /\ e = Body(n)
           \/ (\E m \in Messages : s[Len(s)] = Body(m)) /\ e = Header(n)
    PROVE  /\ \A i \in 2..Len(Append(s, e)) : \A m \in Messages :
                  Append(s, e)[i - 1] = Header(m) <=> Append(s, e)[i] = Body(m)
           /\ Append(s, e)[Len(Append(s, e))] = e
<1>1. /\ Len(s) \in Nat /\ Len(Append(s, e)) = Len(s) + 1
      /\ \A i \in 1..Len(s) : Append(s, e)[i] = s[i]
      /\ Append(s, e)[Len(s) + 1] = e
  BY AppendProperties, LenProperties
<1>2. ASSUME NEW i \in 2..Len(s), NEW m \in Messages
      PROVE  Append(s, e)[i - 1] = Header(m) <=> Append(s, e)[i] = Body(m)
  <2>1. i - 1 \in 1..Len(s) /\ i \in 1..Len(s)
    BY <1>1
  <2>2. QED
    BY <2>1, <1>1
<1>3. ASSUME Len(s) + 1 \in 2..(Len(s) + 1), NEW m \in Messages
      PROVE  s[Len(s)] = Header(m) <=> e = Body(m)
  <2>1. s # <<>>
    BY <1>3
  <2>2. CASE s[Len(s)] = Header(n) /\ e = Body(n)
    BY <2>2 DEF Header, Body
  <2>3. CASE (\E k \in Messages : s[Len(s)] = Body(k)) /\ e = Header(n)
    BY <2>3 DEF Header, Body
  <2>4. QED
    BY <2>1, <2>2, <2>3
<1>4. ASSUME NEW i \in 2..(Len(s) + 1), NEW m \in Messages
      PROVE  Append(s, e)[i - 1] = Header(m) <=> Append(s, e)[i] = Body(m)
  <2>1. CASE i \in 2..Len(s)
    BY <2>1, <1>2
  <2>2. CASE i = Len(s) + 1
    <3>1. i - 1 = Len(s) /\ Len(s) \in 1..Len(s)
      BY <2>2, <1>1
    <3>2. Append(s, e)[i - 1] = s[Len(s)] /\ Append(s, e)[i] = e
      BY <2>2, <3>1, <1>1
    <3>3. QED
      BY <2>2, <3>2, <1>3
  <2>3. QED
    BY <2>1, <2>2, <1>1
<1>5. QED
  BY <1>1, <1>4

\* A step that writes nothing, leaves the mutex alone and opens nothing keeps
\* Framing.
LEMMA KeepsFraming ==
    ASSUME IInv, Framing, UNCHANGED <<stream, conn, writer>>,
           peerOpen' => peerOpen /\ openFd' = openFd,
           \A t \in Threads :
               /\ wpc'[t] = "body" <=> wpc[t] = "body"
               /\ wpc[t] = "body" => msg'[t] = msg[t] /\ wfd'[t] = wfd[t]
    PROVE  Framing'
<1>1. FramesWhole'
  BY DEF Framing, FramesWhole, Header, Body
<1>2. ASSUME writer # NULL
      PROVE  msg'[writer] = msg[writer] /\ wfd'[writer] = wfd[writer]
  BY <1>2 DEF IInv, TypeOK, Framing
<1>3. ASSUME peerOpen'
      PROVE  \/ stream'[conn'] = <<>>
             \/ /\ writer' = NULL
                /\ \E m \in Messages : stream'[conn'][Len(stream'[conn'])] = Body(m)
             \/ /\ writer' # NULL /\ wfd'[writer'] = openFd'
                /\ stream'[conn'][Len(stream'[conn'])] = Header(msg'[writer'])
  BY <1>2, <1>3 DEF Framing, Header, Body
<1>4. /\ \A t \in Threads : wpc'[t] = "body" <=> writer' = t
      /\ \A c \in 1..MaxConns : c > conn' => stream'[c] = <<>>
  BY DEF Framing
<1>5. QED
  BY <1>1, <1>3, <1>4 DEF Framing, Header, Body

\* Framing under the steps outside RIL_onRequestComplete.
LEMMA QuietFraming ==
    ASSUME IInv, Framing, QuietStep
    PROVE  Framing'
<1>1. ASSUME NEW f \in Fds, Accept(f) PROVE Framing'
  <2>1. /\ conn' = conn + 1 /\ conn' \in 1..MaxConns /\ conn \in Nat
        /\ UNCHANGED <<stream, writer, wpc>>
    BY <1>1, RequestAssumption DEF Accept, IInv, TypeOK, kernel, list, writers, history
  <2>2. FramesWhole'
    BY <2>1 DEF Framing, FramesWhole, Header, Body
  <2>3. \A c \in 1..MaxConns : c > conn' => stream'[c] = <<>>
    BY <2>1, RequestAssumption DEF Framing
  <2>4. stream'[conn'] = <<>>
    BY <2>1 DEF Framing
  <2>5. \A t \in Threads : wpc'[t] = "body" <=> writer' = t
    BY <2>1 DEF Framing
  <2>6. QED
    BY <2>2, <2>3, <2>4, <2>5 DEF Framing
<1>2. CASE LoopDies
  <2>1. /\ UNCHANGED <<stream, conn>> /\ writer' = NULL /\ ~peerOpen'
        /\ \A t \in Threads : wpc'[t] = "idle"
    BY <1>2 DEF LoopDies, kernel, list, writers, history
  <2>2. FramesWhole'
    BY <2>1 DEF Framing, FramesWhole, Header, Body
  <2>3. NULL \notin Threads
    BY RequestAssumption DEF Threads
  <2>4. QED
    BY <2>1, <2>2, <2>3 DEF Framing
<1>3. CASE \/ \E r \in Reqs : PeerSend(r) \/ IssueLocalRequest(r) \/ ReadRecord(r)
           \/ PeerClose \/ DispatchMalformed \/ DispatchToVendor
           \/ VetOther \/ CommandsClosed \/ ForgetCommandFd \/ OnCommandsSocketClosed
           \/ UNCHANGED vars
  <2>1. /\ UNCHANGED <<stream, conn, writer, wpc, msg, wfd>>
        /\ peerOpen' => peerOpen /\ openFd' = openFd
    BY <1>3 DEF PeerSend, IssueLocalRequest, ReadRecord, PeerClose, DispatchMalformed,
                DispatchToVendor, VetOther, CommandsClosed, ForgetCommandFd,
                OnCommandsSocketClosed, vars, kernel, list, writers, history
  <2>2. QED
    BY <2>1, KeepsFraming
<1>4. CASE \/ VetPhone \/ GreetAgain \/ DispatchOldRadio \/ DispatchAgain
           \/ DispatchAnswered
           \/ \E t \in Vendors, p \in Ptrs : VendorComplete(t, p)
  <2>1. UNCHANGED <<stream, conn, peerOpen, openFd, writer, wfd>>
    BY <1>4 DEF VetPhone, GreetAgain, Greet, DispatchOldRadio, DispatchAgain,
                DispatchAnswered, VendorComplete, kernel, list, writers, history
  <2>2. PICK t \in Threads, to \in {"send", "dequeue"} :
            /\ wpc[t] = "idle" /\ wpc' = [wpc EXCEPT ![t] = to]
            /\ \E m : msg' = [msg EXCEPT ![t] = m]
    <3>1. CASE VetPhone \/ GreetAgain
      BY <3>1 DEF VetPhone, GreetAgain, Greet, Threads
    <3>2. CASE DispatchOldRadio \/ DispatchAnswered \/ DispatchAgain
      <4>1. /\ wpc[Event] = "idle" /\ wpc' = [wpc EXCEPT ![Event] = "dequeue"]
            /\ msg' = msg
        BY <3>2 DEF DispatchOldRadio, DispatchAnswered, DispatchAgain, IInv, Phases, kernel, list, writers, history
      <4>2. msg' = [msg EXCEPT ![Event] = msg[Event]]
        BY <4>1 DEF IInv, TypeOK
      <4>3. QED
        BY <4>1, <4>2 DEF Threads
    <3>3. CASE \E t \in Vendors, p \in Ptrs : VendorComplete(t, p)
      <4>1. PICK t \in Vendors :
                /\ wpc[t] = "idle" /\ wpc' = [wpc EXCEPT ![t] = "dequeue"]
                /\ msg' = msg
        BY <3>3 DEF VendorComplete, kernel, list, writers, history
      <4>2. msg' = [msg EXCEPT ![t] = msg[t]]
        BY <4>1 DEF IInv, TypeOK
      <4>3. QED
        BY <4>1, <4>2 DEF Threads
    <3>4. QED
      BY <1>4, <3>1, <3>2, <3>3
  <2>3. \A u \in Threads :
            /\ wpc'[u] = "body" <=> wpc[u] = "body"
            /\ wpc[u] = "body" => msg'[u] = msg[u]
    BY <2>2 DEF IInv, TypeOK
  <2>4. QED
    BY <2>1, <2>3, KeepsFraming
<1>5. QED
  BY <1>1, <1>2, <1>3, <1>4 DEF QuietStep, EventStep

\* A return from any phase but the last leaves the other threads' writes alone.
LEMMA ReturnFraming ==
    ASSUME IInv, Framing, NEW t \in Threads, wpc[t] # "body", Return(t),
           UNCHANGED <<stream, conn, writer>>,
           peerOpen' => peerOpen /\ openFd' = openFd
    PROVE  Framing'
<1>1. \A u \in Threads :
          /\ wpc'[u] = "body" <=> wpc[u] = "body"
          /\ wpc[u] = "body" => msg'[u] = msg[u] /\ wfd'[u] = wfd[u]
  BY DEF Return, IInv, TypeOK
<1>2. QED
  BY <1>1, KeepsFraming

\* Framing under the steps before the first write.
LEMMA PrepareFraming ==
    ASSUME IInv, Framing, NEW t \in Threads,
           Dequeue(t) \/ CheckCancelled(t) \/ SendResponse(t)
    PROVE  Framing'
<1>1. /\ UNCHANGED <<stream, conn, writer, peerOpen, openFd>> /\ wpc[t] # "body"
  BY DEF Dequeue, CheckCancelled, SendResponse, kernel, history
<1>2. CASE Return(t)
  BY <1>1, <1>2, ReturnFraming
<1>3. CASE ~Return(t)
  <2>1. /\ \E to \in {"check", "send", "header"} : wpc' = [wpc EXCEPT ![t] = to]
        /\ \E m : msg' = [msg EXCEPT ![t] = m]
        /\ \E f : wfd' = [wfd EXCEPT ![t] = f]
    <3>1. msg = [msg EXCEPT ![t] = msg[t]] /\ wfd = [wfd EXCEPT ![t] = wfd[t]]
      BY DEF IInv, TypeOK
    <3>2. QED
      BY <1>3, <3>1 DEF Dequeue, CheckCancelled, SendResponse, FreeAndReturn
  <2>2. \A u \in Threads :
            /\ wpc'[u] = "body" <=> wpc[u] = "body"
            /\ wpc[u] = "body" => msg'[u] = msg[u] /\ wfd'[u] = wfd[u]
    BY <1>1, <2>1 DEF IInv, TypeOK
  <2>3. QED
    BY <1>1, <2>2, KeepsFraming
<1>4. QED
  BY <1>2, <1>3

\* A write goes to the current connection, which has no gap before it.
LEMMA WriteFraming ==
    ASSUME IInv, Framing, NEW t \in Threads, wpc[t] \in {"header", "body"},
           \/ writer = NULL /\ wpc[t] = "header" /\ WriteTo(t, Header(msg[t]))
           \/ wpc[t] = "body" /\ WriteTo(t, Body(msg[t])),
           conn' = conn
    PROVE  /\ FramesWhole'
           /\ \A c \in 1..MaxConns : c > conn' => stream'[c] = <<>>
           /\ openFd' = wfd[t] /\ msg[t] \in Messages
           /\ stream'[conn'][Len(stream'[conn'])] =
                  IF wpc[t] = "header" THEN Header(msg[t]) ELSE Body(msg[t])
<1> DEFINE item == IF wpc[t] = "header" THEN Header(msg[t]) ELSE Body(msg[t])
           s == stream[conn]
           S == {"header", "body"} \X Messages
<1>1. WriteTo(t, item) /\ openFd = wfd[t] /\ peerOpen
  BY DEF WriteTo
<1>2. conn \in 1..MaxConns /\ conn # 0
  BY <1>1, RequestAssumption DEF IInv, TypeOK
<1>3. msg[t] \in Messages
  BY DEF IInv, Phases
<1>4. s \in Seq(S) /\ item \in S
  BY <1>2, <1>3 DEF IInv, TypeOK, Header, Body
<1>5. \A i \in 2..Len(s) : \A m \in Messages : s[i - 1] = Header(m) <=> s[i] = Body(m)
  BY <1>2 DEF Framing, FramesWhole
<1>6. wpc[t] = "body" <=> writer = t
  BY DEF Framing
<1>7. \/ s = <<>>
      \/ s[Len(s)] = Header(msg[t]) /\ item = Body(msg[t])
      \/ (\E m \in Messages : s[Len(s)] = Body(m)) /\ item = Header(msg[t])
  <2>1. t # NULL
    BY RequestAssumption DEF Threads
  <2>2. \/ s = <<>>
        \/ writer = NULL /\ \E m \in Messages : s[Len(s)] = Body(m)
        \/ writer # NULL /\ s[Len(s)] = Header(msg[writer])
    BY <1>1 DEF Framing
  <2>3. QED
    BY <2>1, <2>2, <1>6
<1>8. /\ \A c \in 1..MaxConns : c # conn => stream'[c] = stream[c]
      /\ stream'[conn] = Append(s, item)
  BY <1>1, <1>2 DEF WriteTo, IInv, TypeOK
<1> HIDE DEF item, s, S
<1>9. /\ \A i \in 2..Len(Append(s, item)) : \A m \in Messages :
            Append(s, item)[i - 1] = Header(m) <=> Append(s, item)[i] = Body(m)
      /\ Append(s, item)[Len(Append(s, item))] = item
  BY <1>3, <1>4, <1>5, <1>7, AppendFrames
<1> USE DEF s
<1>10. FramesWhole'
  <2>1. ASSUME NEW c \in 1..MaxConns
        PROVE  \A i \in 2..Len(stream'[c]) : \A m \in Messages :
                   stream'[c][i - 1] = Header(m) <=> stream'[c][i] = Body(m)
    <3>1. CASE c = conn
      <4>1. stream'[c] = Append(s, item)
        BY <3>1, <1>8
      <4>2. QED
        BY <4>1, <1>9
    <3>2. CASE c # conn
      BY <3>2, <1>8 DEF Framing, FramesWhole
    <3>3. QED
      BY <3>1, <3>2
  <2>2. QED
    BY <2>1 DEF FramesWhole, Header, Body
<1>11. \A c \in 1..MaxConns : c > conn' => stream'[c] = <<>>
  BY <1>2, <1>8 DEF Framing
<1>12. QED
  BY <1>1, <1>3, <1>8, <1>9, <1>10, <1>11 DEF WriteTo, item

\* Framing under the first write, which takes the mutex.
LEMMA HeaderFraming ==
    ASSUME IInv, Framing, NEW t \in Threads, WriteHeader(t)
    PROVE  Framing'
<1>1. wpc[t] = "header" /\ writer = NULL /\ conn' = conn
  BY DEF WriteHeader
<1>2. CASE WriteFails(t) /\ UNCHANGED writer
  <2>1. Return(t) /\ stream' = stream /\ (peerOpen' => peerOpen /\ openFd' = openFd)
    BY <1>2 DEF WriteFails, FreeAndReturn
  <2>2. QED
    BY <1>1, <1>2, <2>1, ReturnFraming
<1>3. CASE /\ WriteTo(t, Header(msg[t])) /\ writer' = t
           /\ wpc' = [wpc EXCEPT ![t] = "body"] /\ UNCHANGED <<info, ptr, msg, wfd>>
  <2>1. /\ FramesWhole'
        /\ \A c \in 1..MaxConns : c > conn' => stream'[c] = <<>>
        /\ openFd' = wfd[t]
        /\ stream'[conn'][Len(stream'[conn'])] = Header(msg[t])
    BY <1>1, <1>3, WriteFraming
  <2>2. \A u \in Threads : wpc[u] # "body"
    BY <1>1, RequestAssumption DEF Framing, Threads
  <2>3. \A u \in Threads : wpc'[u] = "body" <=> writer' = u
    BY <1>3, <2>2 DEF IInv, TypeOK
  <2>4. t # NULL
    BY RequestAssumption DEF Threads
  <2>5. msg' = msg /\ wfd' = wfd /\ writer' = t
    BY <1>3
  <2>6. QED
    BY <2>1, <2>3, <2>4, <2>5 DEF Framing, Header
<1>4. QED
  BY <1>2, <1>3 DEF WriteHeader

\* Framing under the second write: a failure closes the connection that has the
\* header, so nothing can follow it.
LEMMA BodyFraming ==
    ASSUME IInv, Framing, NEW t \in Threads, WriteBody(t)
    PROVE  Framing'
<1>1. wpc[t] = "body" /\ writer' = NULL /\ conn' = conn /\ writer = t /\ t # NULL
  BY RequestAssumption DEF WriteBody, Framing, Threads
<1>2. \A u \in Threads : wpc'[u] = "body" <=> writer' = u
  <2>1. Return(t)
    BY DEF WriteBody, WriteFails, FreeAndReturn
  <2>2. \A u \in Threads : wpc'[u] # "body"
    BY <1>1, <2>1 DEF Return, IInv, TypeOK, Framing
  <2>3. QED
    BY <1>1, <2>2, RequestAssumption DEF Threads
<1>3. CASE WriteFails(t)
  <2>1. /\ stream' = stream
        /\ peerOpen' => peerOpen /\ openFd # wfd[t]
    BY <1>3 DEF WriteFails
  <2>2. peerOpen' => stream'[conn'] = <<>>
    BY <1>1, <2>1 DEF Framing
  <2>3. FramesWhole' /\ \A c \in 1..MaxConns : c > conn' => stream'[c] = <<>>
    BY <1>1, <2>1 DEF Framing, FramesWhole, Header, Body
  <2>4. QED
    BY <1>2, <2>2, <2>3 DEF Framing
<1>4. CASE WriteTo(t, Body(msg[t]))
  <2>1. /\ FramesWhole' /\ msg[t] \in Messages
        /\ \A c \in 1..MaxConns : c > conn' => stream'[c] = <<>>
        /\ stream'[conn'][Len(stream'[conn'])] = Body(msg[t])
    BY <1>1, <1>4, WriteFraming
  <2>2. QED
    BY <1>1, <1>2, <2>1 DEF Framing, Body
<1>5. QED
  BY <1>3, <1>4 DEF WriteBody

-----------------------------------------------------------------------------
(* The theorems                                                            *)

\* IInv holds when the daemon starts.
LEMMA InitIInv == Init => IInv
<1> SUFFICES ASSUME Init PROVE IInv
  OBVIOUS
<1>1. Allocated = {}
  BY DEF Init, Allocated
<1>2. /\ \A t \in Threads : wpc[t] = "idle" /\ ptr[t] = NULL /\ msg[t] = NULL
      /\ \A c \in 1..MaxConns : stream[c] = <<>>
      /\ epc = "idle" /\ abandoned = {} /\ inbox = {} /\ vendor = {}
      /\ s_pendingRequests = {}
  BY DEF Init
<1>3. Event \in Threads
  BY DEF Threads
<1>4. TypeOK
  <2>1. stream \in [1..MaxConns -> Seq({"header", "body"} \X Messages)]
    BY DEF Init
  <2>2. conn = 0 /\ conn \in 0..MaxConns
    BY RequestAssumption DEF Init
  <2>3. origin \in [Reqs -> 0..MaxConns] /\ info \in [Ptrs -> RequestInfo \cup {NULL}]
    BY RequestAssumption DEF Init
  <2>4. /\ wpc \in [Threads -> {"idle", "dequeue", "check", "send", "header", "body"}]
        /\ ptr \in [Threads -> Ptrs \cup {NULL}]
        /\ msg \in [Threads -> Messages \cup {NULL}]
        /\ wfd \in [Threads -> Fds \cup {NoFd}]
    BY DEF Init
  <2>5. QED
    BY <1>1, <2>1, <2>2, <2>3, <2>4 DEF Init, TypeOK
<1>5. Phases
  BY <1>2, <1>3, GreetingAssumption DEF Phases
<1>6. Ownership
  BY <1>2, <1>3 DEF Ownership, HeldAllocated, Holds, Claims
<1>7. OneInfo
  BY <1>1, <1>2 DEF OneInfo
<1>8. \A m : \A c \in 1..MaxConns : Header(m) \notin Range(stream[c])
  BY <1>2 DEF Range
<1>9. Marked
  BY <1>1, <1>2, RequestAssumption DEF Marked, AbandonedNotReported
<1>10. Unreported
  BY <1>8 DEF Unreported
<1>11. QED
  BY <1>4, <1>5, <1>6, <1>7, <1>9, <1>10 DEF IInv

\* Every step of every thread, the peer or the kernel keeps it.
LEMMA NextIInv ==
    ASSUME IInv, [Next]_vars
    PROVE  IInv'
<1>1. CASE QuietStep
  BY <1>1, TypeStep, PhaseStep, OwnStep, OneInfoStep, MarkStep, ReportStep DEF IInv
<1>2. ASSUME NEW t \in Threads, WriterStep(t) PROVE IInv'
  BY <1>2, DequeueStep, CheckStep, SendStep, WriteHeaderStep, WriteBodyStep
     DEF WriterStep
<1>3. QED
  BY <1>1, <1>2 DEF Next, QuietStep

\* IInv is an inductive invariant of the specification.
THEOREM Invariance == Spec => []IInv
  BY InitIInv, NextIInv, PTL DEF Spec

\* Every variable keeps its shape, and no address of a freed RequestInfo is ever
\* left on s_pendingRequests.
THEOREM TypeCorrect == Spec => []TypeOK
<1>1. IInv => TypeOK
  BY DEF IInv
<1>2. QED
  BY <1>1, Invariance, PTL

\* Whatever threads complete which tokens, the double completion of
\* dispatchVoiceRadioTech included, a RequestInfo is used by one thread at a time
\* and only while it is allocated.
THEOREM NoUseAfterFree == Spec => []HeldAllocated
<1>1. IInv => HeldAllocated
  BY DEF IInv, Ownership
<1>2. QED
  BY <1>1, Invariance, PTL

\* A request that onCommandsSocketClosed found on the list is not reported, on any
\* connection, by any thread.
THEOREM AbandonedStayUnreported == Spec => []AbandonedNotReported
<1>1. IInv => AbandonedNotReported
  BY DEF IInv, Marked
<1>2. QED
  BY <1>1, Invariance, PTL

\* Frames are never mixed up, however many threads write and however connections
\* come and go: a body that does not open its connection follows its own header,
\* and nothing else follows a header.
THEOREM FramesStayWhole == Spec => []FramesWhole
<1>1. Init => Framing
  <2>1. Init => /\ \A t \in Threads : wpc[t] # "body"
                /\ writer = NULL /\ ~peerOpen
                /\ \A c \in 1..MaxConns : stream[c] = <<>>
    BY DEF Init
  <2>2. NULL \notin Threads
    BY RequestAssumption DEF Threads
  <2>3. QED
    BY <2>1, <2>2 DEF Framing, FramesWhole
<1>2. IInv /\ Framing /\ [Next]_vars => Framing'
  <2>1. IInv /\ Framing /\ QuietStep => Framing'
    BY QuietFraming
  <2>2. ASSUME IInv, Framing, NEW t \in Threads, WriterStep(t) PROVE Framing'
    BY <2>2, PrepareFraming, HeaderFraming, BodyFraming DEF WriterStep
  <2>3. QED
    BY <2>1, <2>2 DEF Next, QuietStep
<1>3. Framing => FramesWhole
  BY DEF Framing
<1>4. QED
  BY <1>1, <1>2, <1>3, Invariance, PTL DEF Spec

-----------------------------------------------------------------------------
(* The daemon implements RequestLedger: every step of every thread, of the *)
(* framework and of the kernel submits one request, replies to one, or at  *)
(* most drops some.  It rests on IInv: the response a thread is about to   *)
(* write belongs to a RequestInfo that is its own, so nobody else can      *)
(* reply to the request, and nothing on the list or in the socket still    *)
(* asks for it.                                                            *)
-----------------------------------------------------------------------------
(* Counting replies                                                        *)

\* Where the response to r was written in full: connection and place.
Bodies(r) == {ci \in UNION {{c} \X DOMAIN stream[c] : c \in 1..MaxConns} :
                  stream[ci[1]][ci[2]] = Body(r)}

\* Beside IInv: what was written can be counted, and a local request is never
\* one the framework sent.
Counted ==
    /\ \A r \in Reqs : IsFiniteSet(Bodies(r))
    /\ \A r \in Reqs : kind[r] = "local" => origin[r] = 0

\* A write puts its item behind what the current connection has, and nothing else.
LEMMA WriteAdds ==
    ASSUME IInv, NEW t \in Threads, wpc[t] \in {"header", "body"},
           NEW item \in {Header(msg[t]), Body(msg[t])}, WriteTo(t, item),
           UNCHANGED conn, NEW r \in Reqs
    PROVE  LET at == <<conn, Len(stream[conn]) + 1>> IN
           /\ at \notin Bodies(r)
           /\ Bodies(r)' = IF item = Body(r) THEN Bodies(r) \cup {at} ELSE Bodies(r)
<1> DEFINE s == stream[conn]  n == Len(s) + 1
<1>1. conn \in 1..MaxConns
  BY RequestAssumption DEF WriteTo, IInv, TypeOK
<1>2. s \in Seq({"header", "body"} \X Messages) /\ item \in {"header", "body"} \X Messages
  <2>1. stream \in [1..MaxConns -> Seq({"header", "body"} \X Messages)] /\ msg[t] \in Messages
    BY DEF IInv, TypeOK, Phases
  <2>2. \A m \in Messages : Header(m) \in {"header", "body"} \X Messages
                         /\ Body(m) \in {"header", "body"} \X Messages
    BY DEF Header, Body
  <2> QED BY <1>1, <2>1, <2>2
<1>3. /\ stream'[conn] = Append(s, item)
      /\ \A c \in 1..MaxConns : c # conn => stream'[c] = stream[c]
  BY <1>1 DEF WriteTo, IInv, TypeOK
<1>4. /\ Len(s) \in Nat /\ DOMAIN s = 1..Len(s) /\ DOMAIN Append(s, item) = 1..n
      /\ \A i \in 1..Len(s) : Append(s, item)[i] = s[i]
      /\ Append(s, item)[n] = item
  BY <1>2, AppendProperties, LenProperties
<1>5. \A c \in 1..MaxConns : \A i :
          i \in DOMAIN stream'[c] <=> i \in DOMAIN stream[c] \/ (c = conn /\ i = n)
  BY <1>1, <1>3, <1>4
<1>6. \A c \in 1..MaxConns : \A i \in DOMAIN stream[c] :
          stream'[c][i] = stream[c][i] /\ (c # conn \/ i # n)
  <2>1. \A c \in 1..MaxConns : c # conn => stream'[c] = stream[c]
    BY <1>3
  <2>2. \A i \in DOMAIN s : stream'[conn][i] = s[i] /\ i # n
    BY <1>3, <1>4
  <2> QED BY <2>1, <2>2
<1>7. stream'[conn][n] = item
  BY <1>3, <1>4
<1> HIDE DEF s, n
<1>8. \A c \in 1..MaxConns : \A i : <<c, i>> \in Bodies(r) <=>
          i \in DOMAIN stream[c] /\ stream[c][i] = Body(r)
  BY DEF Bodies
<1>9. \A c \in 1..MaxConns : \A i : <<c, i>> \in Bodies(r)' <=>
          i \in DOMAIN stream'[c] /\ stream'[c][i] = Body(r)
  BY DEF Bodies, Body
<1>10. /\ \A x \in Bodies(r) : \E c \in 1..MaxConns : \E i : x = <<c, i>>
       /\ \A x \in Bodies(r)' : \E c \in 1..MaxConns : \E i : x = <<c, i>>
  BY DEF Bodies
<1>11. <<conn, n>> \notin Bodies(r)
  BY <1>1, <1>6, <1>8
<1>12. ASSUME NEW c \in 1..MaxConns, NEW i
       PROVE  <<c, i>> \in Bodies(r)' <=>
                  <<c, i>> \in Bodies(r) \/ (item = Body(r) /\ c = conn /\ i = n)
  <2>1. CASE i \in DOMAIN stream[c]
    BY <2>1, <1>5, <1>6, <1>8, <1>9
  <2>2. CASE c = conn /\ i = n
    BY <2>2, <1>5, <1>6, <1>7, <1>8, <1>9
  <2>3. CASE i \notin DOMAIN stream[c] /\ (c # conn \/ i # n)
    BY <2>3, <1>5, <1>8, <1>9
  <2>4. QED
    BY <2>1, <2>2, <2>3
<1>13. Bodies(r)' = IF item = Body(r) THEN Bodies(r) \cup {<<conn, n>>} ELSE Bodies(r)
  BY <1>1, <1>10, <1>12
<1>14. QED
  BY <1>11, <1>13 DEF n, s

-----------------------------------------------------------------------------
(* What a step does to the ledger                                          *)

\* Nothing is submitted or replied to, and nothing new is outstanding: the ledger
\* drops what is not outstanding any more, or stutters.
LEMMA DropsOrStutters ==
    ASSUME origin' = origin, \A r \in Reqs : Bodies(r)' = Bodies(r),
           Outstanding' \subseteq Outstanding
    PROVE  Ledger!Drop(Outstanding \ Outstanding')
<1>1. \A r \in Reqs : Replies(r)' = Replies(r)
  BY DEF Replies, Bodies
<1>2. [r \in Reqs |-> Replies(r)]' = [r \in Reqs |-> Replies(r)]
  BY <1>1
<1>3. QED
  BY <1>2 DEF Ledger!Drop

\* r is on its way to a reply: the disjunction in Outstanding.
OnItsWay(r) ==
    \/ r \in inbox
    \/ \E p \in s_pendingRequests : info[p].token = r /\ ~info[p].cancelled
    \/ \E t \in Threads :
          \/ msg[t] = r
          \/ wpc[t] = "check" /\ info[ptr[t]].token = r /\ ~info[ptr[t]].cancelled

\* What was submitted before and is on its way after a step was so before it.
LEMMA LessOnItsWay ==
    ASSUME origin' = origin,
           \A r \in Reqs : origin[r] # 0 /\ OnItsWay(r)' => OnItsWay(r)
    PROVE  Outstanding' \subseteq Outstanding
<1>1. ASSUME NEW r \in Outstanding' PROVE r \in Outstanding
  <2>1. r \in Reqs /\ origin[r] # 0 /\ OnItsWay(r)'
    BY DEF Outstanding, OnItsWay
  <2>2. QED
    BY <2>1 DEF Outstanding, OnItsWay
<1>2. QED
  BY <1>1

\* A step that puts nothing into the socket, on the list or into a thread, and
\* changes what is there by marking only.
LEMMA NothingNew ==
    ASSUME origin' = origin, inbox' \subseteq inbox,
           s_pendingRequests' \subseteq s_pendingRequests,
           \A p \in s_pendingRequests' : info'[p].cancelled \/ info'[p] = info[p],
           \A t \in Threads :
               /\ msg'[t] \in Reqs => msg'[t] = msg[t]
               /\ wpc'[t] = "check" =>
                     /\ wpc[t] = "check" /\ ptr'[t] = ptr[t]
                     /\ info'[ptr[t]].cancelled \/ info'[ptr[t]] = info[ptr[t]]
    PROVE  Outstanding' \subseteq Outstanding
<1>1. ASSUME NEW r \in Reqs, OnItsWay(r)' PROVE OnItsWay(r)
  BY <1>1 DEF OnItsWay
<1>2. QED
  BY <1>1, LessOnItsWay

\* The framework writes a request: it is submitted.
LEMMA SendSubmits ==
    ASSUME IInv, NEW r \in Reqs, PeerSend(r)
    PROVE  Ledger!Submit(r)
<1>1. /\ origin[r] = 0 /\ inbox' = inbox \cup {r}
      /\ \A s \in Reqs : origin'[s] = IF s = r THEN conn ELSE origin[s]
      /\ conn # 0
      /\ UNCHANGED <<s_pendingRequests, info, wpc, ptr, msg, stream>>
  BY DEF PeerSend, IInv, TypeOK, list, writers
<1>2. {s \in Reqs : origin[s] # 0}' = {s \in Reqs : origin[s] # 0} \cup {r}
  BY <1>1
<1>3. Outstanding' = Outstanding \cup {r}
  BY <1>1 DEF Outstanding
<1>4. [s \in Reqs |-> Replies(s)]' = [s \in Reqs |-> Replies(s)]
  BY <1>1 DEF Replies, Body
<1>5. QED
  BY <1>1, <1>2, <1>3, <1>4 DEF Ledger!Submit

\* The other steps outside RIL_onRequestComplete leave no more outstanding than
\* before: a record read from the socket goes on the list, a local request was
\* never submitted.
LEMMA QuietDrops ==
    ASSUME IInv, Counted, QuietStep, \A r \in Reqs : ~PeerSend(r)
    PROVE  /\ origin' = origin /\ stream' = stream
           /\ Outstanding' \subseteq Outstanding
<1>1. /\ NULL \notin Reqs /\ Greeting \notin Reqs
      /\ \A t \in Threads : wpc[t] = "check" => ptr[t] \in Allocated
      /\ epc \in {"vet", "dispatch", "closed", "cancel"} => wpc[Event] = "idle"
  BY RequestAssumption, GreetingAssumption, HolderOwns DEF IInv, Phases, Allocated
<1>2. CASE \/ PeerClose \/ ForgetCommandFd \/ UNCHANGED vars
           \/ \E f \in Fds : Accept(f)
           \/ VetOther \/ CommandsClosed
  <2>1. /\ inbox' \subseteq inbox
        /\ UNCHANGED <<origin, stream, s_pendingRequests, info, wpc, ptr, msg>>
    BY <1>2 DEF PeerClose, ForgetCommandFd, vars, Accept, VetOther, CommandsClosed,
                kernel, list, writers, history
  <2>2. QED
    BY <2>1, NothingNew
<1>3. CASE VetPhone \/ GreetAgain
  <2>1. /\ UNCHANGED <<origin, stream, inbox, s_pendingRequests, info, ptr>>
        /\ wpc' = [wpc EXCEPT ![Event] = "send"]
        /\ msg' = [msg EXCEPT ![Event] = Greeting]
    BY <1>3 DEF VetPhone, GreetAgain, Greet, kernel, list, history
  <2>2. \A t \in Threads :
            /\ msg'[t] \in Reqs => msg'[t] = msg[t]
            /\ wpc'[t] = "check" => wpc[t] = "check"
    BY <2>1, <1>1 DEF IInv, TypeOK
  <2>3. QED
    BY <2>1, <2>2, NothingNew
<1>4. CASE \/ DispatchMalformed \/ DispatchToVendor
           \/ DispatchOldRadio \/ DispatchAgain \/ DispatchAnswered
  <2>1. /\ UNCHANGED <<origin, stream, inbox, s_pendingRequests, info, msg>>
        /\ wpc[Event] = "idle"
        /\ \/ wpc' = wpc /\ ptr' = [ptr EXCEPT ![Event] = NULL]
           \/ wpc' = [wpc EXCEPT ![Event] = "dequeue"] /\ ptr' = ptr
    BY <1>4, <1>1 DEF DispatchMalformed, DispatchToVendor, DispatchOldRadio, DispatchAgain,
                      DispatchAnswered, kernel, list, history
  <2>2. \A t \in Threads : wpc'[t] = "check" => wpc[t] = "check" /\ ptr'[t] = ptr[t]
    BY <2>1 DEF IInv, TypeOK
  <2>3. QED
    BY <2>1, <2>2, NothingNew
<1>5. CASE \E t \in Vendors, p \in Ptrs : VendorComplete(t, p)
  <2>1. PICK t \in Vendors, p \in Ptrs : VendorComplete(t, p)
    BY <1>5
  <2>2. /\ UNCHANGED <<origin, stream, inbox, s_pendingRequests, info, msg>>
        /\ wpc' = [wpc EXCEPT ![t] = "dequeue"] /\ ptr' = [ptr EXCEPT ![t] = p]
    BY <2>1 DEF VendorComplete, kernel, history
  <2>3. \A u \in Threads : wpc'[u] = "check" => wpc[u] = "check" /\ ptr'[u] = ptr[u]
    BY <2>2 DEF IInv, TypeOK
  <2>4. QED
    BY <2>2, <2>3, NothingNew
<1>6. CASE LoopDies
  <2>1. /\ UNCHANGED <<origin, stream>> /\ inbox' = {} /\ s_pendingRequests' = {}
        /\ \A t \in Threads : wpc'[t] = "idle" /\ msg'[t] = NULL
    BY <1>6 DEF LoopDies, history
  <2>2. QED
    BY <2>1, <1>1, NothingNew
<1>7. CASE OnCommandsSocketClosed
  <2>1. UNCHANGED <<origin, stream, inbox, s_pendingRequests, wpc, ptr, msg>>
    BY <1>7 DEF OnCommandsSocketClosed, kernel, writers
  <2>2. \A p \in Allocated : info'[p].cancelled \/ info'[p] = info[p]
    BY <1>7, MarkRecords
  <2>3. s_pendingRequests \subseteq Allocated
    BY DEF IInv, TypeOK
  <2>4. QED
    BY <2>1, <2>2, <2>3, <1>1, NothingNew
<1>8. ASSUME NEW r \in Reqs, NEW p \in Ptrs, NEW loc \in BOOLEAN, Puts(r, p, loc),
             IF loc THEN kind[r] = "local" ELSE r \in inbox,
             inbox' \subseteq inbox,
             UNCHANGED <<origin, wpc, msg>>,
             \A t \in Threads : wpc[t] = "check" => ptr'[t] = ptr[t]
      PROVE  Outstanding' \subseteq Outstanding
  <2>1. /\ \A q \in Ptrs : q # p => info'[q] = info[q]
        /\ info'[p].token = r /\ p \notin Allocated
    BY <1>8, PutRecord
  <2>2. \A q \in Allocated : info'[q] = info[q]
    BY <2>1 DEF Allocated
  <2>3. s_pendingRequests \subseteq Allocated
    BY DEF IInv, TypeOK
  <2>4. s_pendingRequests' = s_pendingRequests \cup {p}
    BY <1>8 DEF Puts
  <2>5. origin[r] # 0 => r \in inbox
    BY <1>8 DEF Counted
  <2>6. ASSUME NEW s \in Reqs, origin[s] # 0, OnItsWay(s)' PROVE OnItsWay(s)
    <3>1. CASE s \in inbox'
      BY <3>1, <1>8 DEF OnItsWay
    <3>2. CASE \E q \in s_pendingRequests' : info'[q].token = s /\ ~info'[q].cancelled
      BY <3>2, <2>1, <2>2, <2>3, <2>4, <2>5, <2>6 DEF OnItsWay
    <3>3. CASE \E t \in Threads :
                  \/ msg'[t] = s
                  \/ /\ wpc'[t] = "check"
                     /\ info'[ptr'[t]].token = s /\ ~info'[ptr'[t]].cancelled
      BY <3>3, <2>2, <1>1, <1>8 DEF OnItsWay
    <3>4. QED
      BY <2>6, <3>1, <3>2, <3>3 DEF OnItsWay
  <2>7. QED
    BY <2>6, <1>8, LessOnItsWay
<1>9. ASSUME NEW r \in Reqs, ReadRecord(r)
      PROVE  origin' = origin /\ stream' = stream /\ Outstanding' \subseteq Outstanding
  <2>1. /\ r \in inbox /\ inbox' \subseteq inbox /\ wpc[Event] = "idle"
        /\ UNCHANGED <<origin, stream, wpc, msg>>
    BY <1>9 DEF ReadRecord, EventIdle, history
  <2>2. CASE UNCHANGED <<s_pendingRequests, info, ptr>>
    BY <2>1, <2>2, NothingNew
  <2>3. ASSUME NEW p \in Ptrs, Puts(r, p, FALSE), ptr' = [ptr EXCEPT ![Event] = p]
        PROVE  Outstanding' \subseteq Outstanding
    <3>1. \A t \in Threads : wpc[t] = "check" => ptr'[t] = ptr[t]
      BY <2>1, <2>3 DEF IInv, TypeOK
    <3>2. QED
      BY <2>1, <2>3, <3>1, <1>8
  <2>4. QED
    BY <1>9, <2>1, <2>2, <2>3 DEF ReadRecord, Puts
<1>10. ASSUME NEW r \in Reqs, IssueLocalRequest(r)
       PROVE  origin' = origin /\ stream' = stream /\ Outstanding' \subseteq Outstanding
  <2>1. /\ kind[r] = "local"
        /\ UNCHANGED <<origin, stream, inbox, wpc, ptr, msg>>
    BY <1>10 DEF IssueLocalRequest, kernel, writers, history
  <2>2. PICK p \in Ptrs : Puts(r, p, TRUE)
    BY <1>10 DEF IssueLocalRequest, Puts
  <2>3. QED
    BY <2>1, <2>2, <1>8
<1>11. QED
  BY <1>2, <1>3, <1>4, <1>5, <1>6, <1>7, <1>9, <1>10 DEF QuietStep, EventStep

\* A thread that frees and returns takes its request off the way, and no other.
LEMMA FreeingDrops ==
    ASSUME IInv, NEW t \in Threads, Frees(t)
    PROVE  Outstanding' \subseteq Outstanding
<1>1. /\ origin' = origin /\ inbox' \subseteq inbox
      /\ s_pendingRequests' \subseteq s_pendingRequests
      /\ \A p \in s_pendingRequests' : info'[p] = info[p]
  BY FreeingStep DEF Frees
<1>2. /\ wpc' = [wpc EXCEPT ![t] = "idle"] /\ msg' = [msg EXCEPT ![t] = NULL]
      /\ \A u \in Threads \ {t} : ptr'[u] = ptr[u]
  BY DEF Frees, FreeAndReturn, Return, IInv, TypeOK
<1>3. \A u \in Threads : msg'[u] \in Reqs => msg'[u] = msg[u]
  BY <1>2, RequestAssumption DEF IInv, TypeOK
<1>4. \A p \in Ptrs \ {ptr[t]} : info'[p] = info[p]
  BY DEF Frees, FreeAndReturn, IInv, TypeOK
<1>5. ASSUME NEW u \in Threads, wpc'[u] = "check"
      PROVE  wpc[u] = "check" /\ ptr'[u] = ptr[u] /\ info'[ptr[u]] = info[ptr[u]]
  <2>1. wpc[u] = "check" /\ u # t
    BY <1>2, <1>5 DEF IInv, TypeOK
  <2>2. Holds(u) /\ ptr[u] \in Ptrs /\ ptr[u] \notin s_pendingRequests
    BY <2>1, HolderOwns
  <2>3. CASE Holds(t)
    <3>1. ptr[u] # ptr[t]
      BY <2>1, <2>2, <2>3 DEF IInv, Ownership, HeldAllocated
    <3>2. QED
      BY <3>1, <2>1, <2>2, <1>2, <1>4
  <2>4. CASE ~Holds(t)
    <3>1. ptr[t] = NULL \/ ptr[t] \in s_pendingRequests
      BY <2>4, HolderOwns DEF Frees, MayFree
    <3>2. QED
      BY <3>1, <2>1, <2>2, <1>2, <1>4, RequestAssumption
  <2>5. QED
    BY <2>3, <2>4
<1>6. QED
  BY <1>1, <1>3, <1>5, NothingNew

\* RIL_onRequestComplete up to the first write passes its request on, from the list
\* to the thread and from the RequestInfo to the response, or drops it.
LEMMA PreparingDrops ==
    ASSUME IInv, NEW t \in Threads,
           Dequeue(t) \/ CheckCancelled(t) \/ SendResponse(t)
    PROVE  /\ origin' = origin /\ stream' = stream
           /\ Outstanding' \subseteq Outstanding
<1>1. UNCHANGED <<kind, inbox, vendor, epc, origin, stream, abandoned>>
  BY DEF Dequeue, CheckCancelled, SendResponse, kernel, history
<1>2. CASE Dequeue(t) /\ ptr[t] \notin s_pendingRequests
  <2>1. s_pendingRequests' = s_pendingRequests /\ info' = info /\ Return(t)
    BY <1>2 DEF Dequeue
  <2>2. \A u \in Threads :
            /\ msg'[u] \in Reqs => msg'[u] = msg[u]
            /\ wpc'[u] = "check" => wpc[u] = "check" /\ ptr'[u] = ptr[u]
    BY <2>1, RequestAssumption DEF Return, IInv, TypeOK
  <2>3. QED
    BY <1>1, <2>1, <2>2, NothingNew
<1>3. CASE Dequeue(t) /\ ptr[t] \in s_pendingRequests /\ info[ptr[t]].local
  <2>1. Frees(t)
    BY <1>1, <1>3 DEF Dequeue, Frees, MayFree
  <2>2. QED
    BY <1>1, <2>1, FreeingDrops
<1>4. CASE Dequeue(t) /\ ptr[t] \in s_pendingRequests /\ ~info[ptr[t]].local
  <2>1. /\ s_pendingRequests' \subseteq s_pendingRequests
        /\ wpc' = [wpc EXCEPT ![t] = "check"] /\ UNCHANGED <<info, ptr, msg>>
    BY <1>4 DEF Dequeue
  <2>2. \A u \in Threads : wpc'[u] = "check" => wpc[u] = "check" \/ u = t
    BY <2>1 DEF IInv, TypeOK
  <2>3. ASSUME NEW r \in Reqs, OnItsWay(r)' PROVE OnItsWay(r)
    BY <1>1, <1>4, <2>1, <2>2, <2>3 DEF OnItsWay
  <2>4. QED
    BY <1>1, <2>3, LessOnItsWay
<1>5. CASE CheckCancelled(t) /\ ~info[ptr[t]].cancelled
  <2>1. /\ UNCHANGED <<s_pendingRequests, info, ptr>> /\ wpc[t] = "check"
        /\ wpc' = [wpc EXCEPT ![t] = "send"]
        /\ msg' = [msg EXCEPT ![t] = info[ptr[t]].token]
    BY <1>5 DEF CheckCancelled
  <2>2. \A u \in Threads :
            /\ wpc'[u] = "check" => wpc[u] = "check"
            /\ msg'[u] = msg[u] \/ (u = t /\ msg'[u] = info[ptr[t]].token)
    BY <2>1 DEF IInv, TypeOK
  <2>3. ASSUME NEW r \in Reqs, OnItsWay(r)' PROVE OnItsWay(r)
    BY <1>1, <1>5, <2>1, <2>2, <2>3 DEF OnItsWay
  <2>4. QED
    BY <1>1, <2>3, LessOnItsWay
<1>6. CASE /\ (CheckCancelled(t) \/ SendResponse(t)) /\ FreeAndReturn(t)
  <2>1. Frees(t)
    BY <1>1, <1>6, HolderFrees DEF CheckCancelled, SendResponse
  <2>2. QED
    BY <1>1, <2>1, FreeingDrops
<1>7. CASE SendResponse(t) /\ ~FreeAndReturn(t)
  <2>1. /\ UNCHANGED <<s_pendingRequests, info, ptr, msg>>
        /\ wpc' = [wpc EXCEPT ![t] = "header"]
    BY <1>7 DEF SendResponse
  <2>2. \A u \in Threads : wpc'[u] = "check" => wpc[u] = "check"
    BY <2>1 DEF IInv, TypeOK
  <2>3. QED
    BY <1>1, <2>1, <2>2, NothingNew
<1>8. QED
  BY <1>2, <1>3, <1>4, <1>5, <1>6, <1>7 DEF Dequeue, CheckCancelled

\* A write that fails, or writes a length, replies to nothing.
LEMMA WritingDrops ==
    ASSUME IInv, NEW t \in Threads,
           \/ WriteHeader(t)
           \/ WriteBody(t) /\ (WriteFails(t) \/ msg[t] = Greeting)
    PROVE  /\ origin' = origin /\ Outstanding' \subseteq Outstanding
           /\ \A r \in Reqs : Bodies(r)' = Bodies(r)
<1>1. /\ wpc[t] \in {"header", "body"}
      /\ UNCHANGED <<kind, conn, s_pendingRequests, vendor, epc, origin, abandoned>>
  BY DEF WriteHeader, WriteBody
<1>2. ASSUME FreeAndReturn(t), inbox' \subseteq inbox PROVE Outstanding' \subseteq Outstanding
  BY <1>1, <1>2, HolderFrees, FreeingDrops
<1>3. CASE WriteFails(t)
  <2>1. stream' = stream /\ FreeAndReturn(t) /\ inbox' \subseteq inbox
    BY <1>3 DEF WriteFails
  <2>2. QED
    BY <1>1, <1>2, <2>1 DEF Bodies, Body
<1>4. CASE /\ WriteTo(t, Header(msg[t])) /\ wpc' = [wpc EXCEPT ![t] = "body"]
           /\ UNCHANGED <<info, ptr, msg, wfd>>
  <2>1. \A r \in Reqs : Header(msg[t]) # Body(r)
    BY DEF Header, Body
  <2>2. \A r \in Reqs : Bodies(r)' = Bodies(r)
    BY <1>1, <1>4, <2>1, WriteAdds
  <2>3. \A u \in Threads : wpc'[u] = "check" => wpc[u] = "check"
    BY <1>4 DEF IInv, TypeOK
  <2>4. inbox' = inbox
    BY <1>4 DEF WriteTo
  <2>5. QED
    BY <1>1, <1>4, <2>2, <2>3, <2>4, NothingNew
<1>5. CASE WriteTo(t, Body(msg[t])) /\ FreeAndReturn(t) /\ msg[t] = Greeting
  <2>1. \A r \in Reqs : Body(msg[t]) # Body(r)
    BY <1>5, GreetingAssumption DEF Body
  <2>2. \A r \in Reqs : Bodies(r)' = Bodies(r)
    BY <1>1, <1>5, <2>1, WriteAdds
  <2>3. inbox' = inbox
    BY <1>5 DEF WriteTo
  <2>4. QED
    BY <1>1, <1>2, <1>5, <2>2, <2>3
<1>6. QED
  BY <1>3, <1>4, <1>5 DEF WriteHeader, WriteBody

\* The data of a response is written: its request is replied to and is on no other
\* way to a reply.
LEMMA BodyReplies ==
    ASSUME IInv, Counted, NEW t \in Threads, WriteBody(t), ~WriteFails(t),
           msg[t] \in Reqs
    PROVE  Ledger!Reply(msg[t])
<1> DEFINE m == msg[t]
<1>1. /\ wpc[t] = "body" /\ WriteTo(t, Body(m)) /\ FreeAndReturn(t)
      /\ UNCHANGED <<kind, conn, s_pendingRequests, vendor, epc, origin, abandoned>>
  BY DEF WriteBody
<1>2. inbox' = inbox
  BY <1>1 DEF WriteTo
<1>3. Frees(t)
  BY <1>1, <1>2, HolderFrees
<1>4. /\ ptr[t] \in Allocated \ s_pendingRequests /\ Holds(t)
      /\ info[ptr[t]].token = m /\ ~info[ptr[t]].local
  BY <1>1, GreetingAssumption DEF IInv, Ownership, HeldAllocated, Holds, Marked
<1>5. origin[m] # 0
  BY <1>4 DEF IInv, OneInfo
<1>6. m \in Outstanding
  BY <1>5 DEF Outstanding
<1>7. Outstanding' \subseteq Outstanding
  BY <1>3, FreeingDrops
<1>8. /\ \A u \in Threads : wpc'[u] = IF u = t THEN "idle" ELSE wpc[u]
      /\ \A u \in Threads : msg'[u] = IF u = t THEN NULL ELSE msg[u]
      /\ \A u \in Threads \ {t} : ptr'[u] = ptr[u]
      /\ \A p \in Ptrs \ {ptr[t]} : info'[p] = info[p]
  BY <1>1 DEF FreeAndReturn, Return, IInv, TypeOK
<1>9. \A p \in Allocated : info[p].token = m => p = ptr[t]
  BY <1>4 DEF IInv, OneInfo
<1>10. ASSUME NEW u \in Threads \ {t}, Holds(u)
       PROVE  ptr[u] \in Allocated /\ ptr[u] # ptr[t]
  BY <1>4, <1>10 DEF IInv, Ownership, HeldAllocated
<1>11. m \notin Outstanding'
  <2>1. m \notin inbox'
    BY <1>2, <1>4 DEF IInv, OneInfo
  <2>2. \A p \in s_pendingRequests' : info'[p].token # m
    <3>1. \A p \in s_pendingRequests : p \in Allocated /\ p # ptr[t]
      BY <1>4 DEF IInv, TypeOK
    <3>2. QED
      BY <1>1, <1>8, <1>9, <3>1 DEF Allocated
  <2>3. ASSUME NEW u \in Threads PROVE msg'[u] # m
    <3>1. CASE u = t
      BY <3>1, <1>8, RequestAssumption
    <3>2. CASE u # t
      <4>1. msg[u] = m => Holds(u)
        BY RequestAssumption, GreetingAssumption DEF IInv, TypeOK, Phases, Holds
      <4>2. msg[u] = m => info[ptr[u]].token = m
        BY DEF IInv, Marked
      <4>3. QED
        BY <3>2, <4>1, <4>2, <1>8, <1>9, <1>10
    <3>3. QED
      BY <3>1, <3>2
  <2>4. ASSUME NEW u \in Threads, wpc'[u] = "check" PROVE info'[ptr'[u]].token # m
    <3>1. u # t /\ wpc[u] = "check" /\ ptr'[u] = ptr[u]
      BY <1>8, <2>4
    <3>2. Holds(u)
      BY <3>1, HolderOwns
    <3>3. QED
      BY <3>1, <3>2, <1>8, <1>9, <1>10 DEF Allocated
  <2>5. QED
    BY <2>1, <2>2, <2>3, <2>4 DEF Outstanding
<1>12. Outstanding' = Outstanding \ {m}
  <2>1. ASSUME NEW r \in Outstanding, r # m PROVE r \in Outstanding'
    <3>1. CASE r \in inbox
      BY <1>1, <1>2, <3>1 DEF Outstanding
    <3>2. ASSUME NEW p \in s_pendingRequests, info[p].token = r, ~info[p].cancelled
          PROVE  r \in Outstanding'
      <4>1. info'[p] = info[p]
        BY <1>3, <1>1, FreeingStep
      <4>2. QED
        BY <1>1, <3>2, <4>1 DEF Outstanding
    <3>3. ASSUME NEW u \in Threads, msg[u] = r PROVE r \in Outstanding'
      BY <1>1, <1>8, <2>1, <3>3 DEF Outstanding
    <3>4. ASSUME NEW u \in Threads, wpc[u] = "check", info[ptr[u]].token = r,
                 ~info[ptr[u]].cancelled
          PROVE  r \in Outstanding'
      <4>1. u # t /\ Holds(u)
        BY <1>1, <3>4, HolderOwns
      <4>2. info'[ptr'[u]] = info[ptr[u]] /\ wpc'[u] = "check"
        BY <4>1, <3>4, <1>8, <1>10 DEF Allocated
      <4>3. QED
        BY <1>1, <3>4, <4>2 DEF Outstanding
    <3>5. QED
      BY <3>1, <3>2, <3>3, <3>4 DEF Outstanding
  <2>2. QED
    BY <1>7, <1>11, <2>1
<1>13. \A r \in Reqs : Replies(r)' = IF r = m THEN Replies(r) + 1 ELSE Replies(r)
  <2>1. ASSUME NEW r \in Reqs PROVE Replies(r)' = IF r = m THEN Replies(r) + 1 ELSE Replies(r)
    <3> DEFINE at == <<conn, Len(stream[conn]) + 1>>
    <3>1. /\ at \notin Bodies(r)
          /\ Bodies(r)' = IF Body(m) = Body(r) THEN Bodies(r) \cup {at} ELSE Bodies(r)
      BY <1>1, WriteAdds
    <3>2. Body(m) = Body(r) <=> r = m
      BY DEF Body
    <3>3. IsFiniteSet(Bodies(r))
      BY DEF Counted
    <3> HIDE DEF at
    <3>4. Cardinality(Bodies(r) \cup {at}) = Cardinality(Bodies(r)) + 1
      BY <3>1, <3>3, FS_AddElement
    <3>5. Replies(r) = Cardinality(Bodies(r)) /\ Replies(r)' = Cardinality(Bodies(r)')
      BY DEF Replies, Bodies
    <3>6. QED
      BY <3>1, <3>2, <3>4, <3>5
  <2>2. QED
    BY <2>1
<1>14. [r \in Reqs |-> Replies(r)]' =
           [[r \in Reqs |-> Replies(r)] EXCEPT ![m] = @ + 1]
  BY <1>13
<1>15. QED
  BY <1>1, <1>6, <1>12, <1>14 DEF Ledger!Reply

-----------------------------------------------------------------------------
(* The theorems                                                            *)

\* Counted holds when the daemon starts, and every step keeps it.
LEMMA InitCounted == Init => Counted
<1> SUFFICES ASSUME Init PROVE Counted
  OBVIOUS
<1>1. ASSUME NEW r \in Reqs PROVE IsFiniteSet(Bodies(r)) /\ Bodies(r) = {}
  <2>1. \A c \in 1..MaxConns : DOMAIN stream[c] = {}
    BY DEF Init
  <2>2. Bodies(r) = {}
    BY <2>1 DEF Bodies
  <2>3. QED
    BY <2>2, FS_EmptySet
<1>2. QED
  BY <1>1 DEF Counted, Init

\* A step changes the stream by a write only.
LEMMA KeepsCounted ==
    ASSUME IInv, Counted, [Next]_vars
    PROVE  Counted'
<1>1. \A r \in Reqs : kind'[r] = "local" => origin'[r] = 0
  <2>1. ASSUME NEW s \in Reqs, PeerSend(s)
        PROVE  \A r \in Reqs : kind'[r] = "local" => origin'[r] = 0
    BY <2>1 DEF PeerSend, IInv, TypeOK, Counted
  <2>2. CASE QuietStep /\ \A s \in Reqs : ~PeerSend(s)
    <3>1. origin' = origin
      BY <2>2, QuietDrops
    <3>2. kind' = kind
      BY <2>2 DEF QuietStep, EventStep, PeerClose, Accept, VetPhone, VetOther, GreetAgain,
         Greet, ReadRecord, DispatchMalformed, DispatchOldRadio, DispatchAgain,
         DispatchToVendor, DispatchAnswered, CommandsClosed, ForgetCommandFd,
         OnCommandsSocketClosed, LoopDies, IssueLocalRequest, VendorComplete, vars
    <3>3. QED
      BY <3>1, <3>2 DEF Counted
  <2>3. ASSUME NEW t \in Threads, WriterStep(t) PROVE kind' = kind /\ origin' = origin
    BY <2>3 DEF WriterStep, Dequeue, CheckCancelled, SendResponse, WriteHeader, WriteBody,
                history
  <2>4. QED
    BY <2>1, <2>2, <2>3 DEF Next, QuietStep, Counted
<1>2. ASSUME NEW r \in Reqs PROVE IsFiniteSet(Bodies(r)')
  <2>1. CASE stream' = stream
    BY <2>1 DEF Counted, Bodies, Body
  <2>2. ASSUME NEW t \in Threads, wpc[t] \in {"header", "body"},
               NEW item \in {Header(msg[t]), Body(msg[t])}, WriteTo(t, item),
               UNCHANGED conn
        PROVE  IsFiniteSet(Bodies(r)')
    <3> DEFINE at == <<conn, Len(stream[conn]) + 1>>
    <3>1. Bodies(r)' = Bodies(r) \cup {at} \/ Bodies(r)' = Bodies(r)
      BY <2>2, WriteAdds
    <3> HIDE DEF at
    <3>2. IsFiniteSet(Bodies(r)) /\ IsFiniteSet(Bodies(r) \cup {at})
      BY FS_AddElement DEF Counted
    <3>3. QED
      BY <3>1, <3>2
  <2>3. CASE QuietStep
    <3>1. stream' = stream
      BY <2>3, QuietDrops DEF PeerSend
    <3>2. QED
      BY <3>1, <2>1
  <2>4. ASSUME NEW t \in Threads, WriterStep(t) PROVE IsFiniteSet(Bodies(r)')
    <3>1. CASE Dequeue(t) \/ CheckCancelled(t) \/ SendResponse(t)
      BY <3>1, <2>1, PreparingDrops
    <3>2. CASE WriteHeader(t)
      BY <3>2, <2>1, <2>2 DEF WriteHeader, WriteFails
    <3>3. CASE WriteBody(t)
      BY <3>3, <2>1, <2>2 DEF WriteBody, WriteFails
    <3>4. QED
      BY <2>4, <3>1, <3>2, <3>3 DEF WriterStep
  <2>5. QED
    BY <2>3, <2>4 DEF Next, QuietStep
<1>3. QED
  BY <1>1, <1>2 DEF Counted, Bodies, Body

\* Every step of the daemon, the framework or the kernel is one of the ledger.
LEMMA StepKeepsLedger ==
    ASSUME IInv, Counted, [Next]_vars
    PROVE  Ledger!LedgerNext
<1>1. ASSUME NEW r \in Reqs, PeerSend(r) PROVE Ledger!LedgerNext
  BY <1>1, SendSubmits DEF Ledger!LedgerNext
<1>2. ASSUME NEW t \in Threads, WriteBody(t), ~WriteFails(t), msg[t] \in Reqs
      PROVE  Ledger!LedgerNext
  BY <1>2, BodyReplies DEF Ledger!LedgerNext
<1>3. ASSUME origin' = origin, Outstanding' \subseteq Outstanding,
             \A r \in Reqs : Bodies(r)' = Bodies(r)
      PROVE  Ledger!LedgerNext
  <2>1. Ledger!Drop(Outstanding \ Outstanding')
    BY <1>3, DropsOrStutters
  <2>2. Outstanding \ Outstanding' \in SUBSET Reqs
    BY DEF Outstanding
  <2>3. QED
    BY <2>1, <2>2 DEF Ledger!LedgerNext
<1>4. ASSUME stream' = stream PROVE \A r \in Reqs : Bodies(r)' = Bodies(r)
  BY <1>4 DEF Bodies, Body
<1>5. CASE QuietStep /\ \A r \in Reqs : ~PeerSend(r)
  BY <1>3, <1>4, <1>5, QuietDrops
<1>6. ASSUME NEW t \in Threads, WriterStep(t) PROVE Ledger!LedgerNext
  <2>1. CASE Dequeue(t) \/ CheckCancelled(t) \/ SendResponse(t)
    BY <2>1, <1>3, <1>4, PreparingDrops
  <2>2. CASE WriteHeader(t)
    BY <2>2, <1>3, WritingDrops
  <2>3. CASE WriteBody(t)
    <3>1. msg[t] \in Reqs \/ msg[t] = Greeting
      BY <2>3 DEF WriteBody, IInv, Phases, Messages
    <3>2. QED
      BY <2>3, <3>1, <1>2, <1>3, WritingDrops
  <2>4. QED
    BY <1>6, <2>1, <2>2, <2>3 DEF WriterStep
<1>7. QED
  BY <1>1, <1>5, <1>6 DEF Next, QuietStep

\* The daemon of RilRequests implements the ledger, with any number of requests,
\* threads and connections: a request is replied to at most once, only if the
\* framework sent it, and not after it was dropped.
THEOREM LedgerKept == Spec => KeepsLedger
<1>1. Init => Ledger!LedgerInit
  <2> SUFFICES ASSUME Init PROVE Ledger!LedgerInit
    OBVIOUS
  <2>1. {r \in Reqs : origin[r] # 0} = {} /\ Outstanding = {}
    BY DEF Init, Outstanding
  <2>2. \A r \in Reqs : Bodies(r) = {}
    BY DEF Init, Bodies
  <2>3. \A r \in Reqs : Replies(r) = 0
    BY <2>2, FS_EmptySet DEF Replies, Bodies
  <2>4. QED
    BY <2>1, <2>3 DEF Ledger!LedgerInit
<1>2. IInv /\ Counted /\ [Next]_vars => [Ledger!LedgerNext]_(Ledger!lvars)
  BY StepKeepsLedger
<1>3. IInv /\ Counted /\ [Next]_vars => Counted'
  BY KeepsCounted
<1>4. Spec => []Counted
  BY <1>3, InitCounted, Invariance, PTL DEF Spec
<1>5. QED
  BY <1>1, <1>2, <1>4, Invariance, PTL DEF Spec, KeepsLedger, Ledger!LedgerSpec

\* What the ledger promises of its steps: it submits before it replies, and what is
\* outstanding has no reply.
LEMMA LedgerCounts ==
    ASSUME Ledger!LedgerTypeOK, Ledger!AtMostOneReply, Ledger!NoUnaskedReply,
           [Ledger!LedgerNext]_(Ledger!lvars)
    PROVE  (Ledger!LedgerTypeOK /\ Ledger!AtMostOneReply /\ Ledger!NoUnaskedReply)'
<1> DEFINE submitted == {r \in Reqs : origin[r] # 0}
           replies   == [r \in Reqs |-> Replies(r)]
<1>1. /\ submitted \subseteq Reqs /\ Outstanding \subseteq submitted
      /\ replies \in [Reqs -> Nat]
      /\ \A r \in Reqs : replies[r] <= 1 /\ (r \in Outstanding => replies[r] = 0)
      /\ \A r \in Reqs \ submitted : replies[r] = 0
  BY DEF Ledger!LedgerTypeOK, Ledger!AtMostOneReply, Ledger!NoUnaskedReply
<1>2. \/ \E r \in Reqs :
            \/ /\ r \notin submitted /\ submitted' = submitted \cup {r}
               /\ Outstanding' = Outstanding \cup {r} /\ replies' = replies
            \/ /\ r \in Outstanding /\ replies' = [replies EXCEPT ![r] = @ + 1]
               /\ Outstanding' = Outstanding \ {r} /\ submitted' = submitted
      \/ /\ Outstanding' \subseteq Outstanding
         /\ submitted' = submitted /\ replies' = replies
  BY DEF Ledger!LedgerNext, Ledger!Submit, Ledger!Reply, Ledger!Drop, Ledger!lvars
<1> HIDE DEF submitted, replies
<1>3. /\ submitted' \subseteq Reqs /\ Outstanding' \subseteq submitted'
      /\ replies' \in [Reqs -> Nat]
      /\ \A r \in Reqs : replies'[r] <= 1 /\ (r \in Outstanding' => replies'[r] = 0)
      /\ \A r \in Reqs \ submitted' : replies'[r] = 0
  BY <1>1, <1>2
<1> USE DEF submitted, replies
<1>4. QED
  BY <1>3 DEF Ledger!LedgerTypeOK, Ledger!AtMostOneReply, Ledger!NoUnaskedReply

\* What it comes to: whatever the threads and connections do, no request has two
\* replies, one that still may be replied to has none, and neither has one that the
\* framework did not send.
THEOREM RepliedAtMostOnce == Spec => [](Ledger!AtMostOneReply /\ Ledger!NoUnaskedReply)
<1> DEFINE LInv == Ledger!LedgerTypeOK /\ Ledger!AtMostOneReply /\ Ledger!NoUnaskedReply
<1>1. Ledger!LedgerInit => LInv
  BY DEF Ledger!LedgerInit, Ledger!LedgerTypeOK, Ledger!AtMostOneReply, Ledger!NoUnaskedReply
<1>2. LInv /\ [Ledger!LedgerNext]_(Ledger!lvars) => LInv'
  BY LedgerCounts
<1>3. LInv => Ledger!AtMostOneReply /\ Ledger!NoUnaskedReply
  OBVIOUS
<1> HIDE DEF LInv
<1>4. QED
  BY <1>1, <1>2, <1>3, LedgerKept, PTL DEF KeepsLedger, Ledger!LedgerSpec

=============================================================================
