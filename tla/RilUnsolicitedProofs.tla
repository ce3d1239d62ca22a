------------------------ MODULE RilUnsolicitedProofs ------------------------
(***************************************************************************)
(* Proofs about RIL_onUnsolicitedResponse, the timer that releases its     *)
(* wake lock and the NITZ time it keeps, for any threads, addresses and    *)
(* scripts.  IInv is the inductive invariant; the theorems at the end are  *)
(* the invariants that the run of RilUnsolicited checks.                   *)
(***************************************************************************)
EXTENDS RilUnsolicited, SequenceTheorems, TLAPS

-----------------------------------------------------------------------------
(* The calls                                                               *)

\* What TypeOK and CallsInOrder say of the calls.
Calls ==
    /\ CallsInOrder
    /\ \A t \in Threads : pc[t] = "idle" <=> msg[t] = NULL
    /\ \A t \in Threads : nested[t] => pc[t] # "idle"

\* A message of a known kind is none of the things NULL is not.
LEMMA MessageIsOne ==
    ASSUME NEW k \in Kinds, NEW n \in Nat
    PROVE  /\ Message(k, n) \in Messages /\ Message(k, n) # NULL
           /\ Message(k, n).kind = k /\ Message(k, n).number = n
BY UnsolicitedAssumption DEF Message, Messages

\* One call goes on, with whatever message, to a place that fits the message.
LEMMA CallMoves ==
    ASSUME Calls, NEW t \in Threads, NEW a \in Labels, NEW m \in Messages \cup {NULL},
           NEW n \in BOOLEAN, NEW l \in Infos \cup {NULL},
           pc' = [pc EXCEPT ![t] = a], msg' = [msg EXCEPT ![t] = m],
           nested' = [nested EXCEPT ![t] = n], last' = [last EXCEPT ![t] = l],
           script' \in [Vendors -> Seq(Messages)],
           a = "idle" <=> m = NULL, n => a # "idle",
           a \in Keeping => m.kind = "nitz",
           a \in {"overwrite", "schedule", "remember"} => Wakes(m),
           a \in {"overwrite", "remember"} => l # NULL,
           t = Event /\ a # "idle" => m.kind # "nitz"
    PROVE  Calls'
<1> USE DEF Calls
<1>1. /\ pc' \in [Threads -> Labels] /\ nested' \in [Threads -> BOOLEAN]
      /\ msg' \in [Threads -> Messages \cup {NULL}]
      /\ last' \in [Threads -> Infos \cup {NULL}]
  BY DEF CallsInOrder
<1>2. ASSUME NEW u \in Threads
      PROVE  /\ pc'[u] \in Keeping => msg'[u].kind = "nitz"
             /\ pc'[u] \in {"overwrite", "schedule", "remember"} => Wakes(msg'[u])
             /\ pc'[u] \in {"overwrite", "remember"} => last'[u] # NULL
             /\ pc'[u] = "idle" <=> msg'[u] = NULL
             /\ nested'[u] => pc'[u] # "idle"
  <2>1. CASE u = t
    BY <2>1 DEF CallsInOrder
  <2>2. CASE u # t
    BY <2>2 DEF CallsInOrder
  <2>3. QED
    BY <2>1, <2>2
<1>3. pc'[Event] # "idle" => msg'[Event].kind # "nitz"
  <2>1. Event \in Threads
    BY DEF Threads
  <2>2. CASE t = Event
    BY <2>1, <2>2 DEF CallsInOrder
  <2>3. CASE t # Event
    BY <2>1, <2>3 DEF CallsInOrder
  <2>4. QED
    BY <2>2, <2>3
<1>4. QED
  BY <1>1, <1>2, <1>3 DEF CallsInOrder, Wakes

\* What a call that stays where it is has.
LEMMA Same ==
    ASSUME Calls, NEW t \in Threads
    PROVE  /\ pc = [pc EXCEPT ![t] = pc[t]] /\ pc[t] \in Labels
           /\ msg = [msg EXCEPT ![t] = msg[t]] /\ msg[t] \in Messages \cup {NULL}
           /\ nested = [nested EXCEPT ![t] = nested[t]] /\ nested[t] \in BOOLEAN
           /\ last = [last EXCEPT ![t] = last[t]] /\ last[t] \in Infos \cup {NULL}
           /\ script \in [Vendors -> Seq(Messages)]
           /\ pc[t] # "idle" => msg[t] # NULL /\ msg[t] \in Messages
           /\ t = Event /\ pc[t] # "idle" => msg[t].kind # "nitz"
BY DEF Calls, CallsInOrder

\* A call goes on with its message.
LEMMA CallGoesOn ==
    ASSUME Calls, NEW t \in Threads, NEW a \in Labels, pc[t] # "idle", a # "idle",
           pc' = [pc EXCEPT ![t] = a],
           a \in Keeping => msg[t].kind = "nitz",
           a \in {"overwrite", "schedule", "remember"} => Wakes(msg[t]),
           a \in {"overwrite", "remember"} => last[t] # NULL
    PROVE  UNCHANGED <<msg, nested, last, script>> => Calls'
<1> DEFINE Stays(m, n, l) ==
              /\ m = msg[t] /\ msg' = [msg EXCEPT ![t] = m]
              /\ n = nested[t] /\ nested' = [nested EXCEPT ![t] = n]
              /\ l = last[t] /\ last' = [last EXCEPT ![t] = l]
              /\ script' \in [Vendors -> Seq(Messages)]
              /\ m # NULL /\ (t = Event => m.kind # "nitz")
<1>1. ASSUME UNCHANGED <<msg, nested, last, script>>
      PROVE  \E m \in Messages \cup {NULL}, n \in BOOLEAN, l \in Infos \cup {NULL} : Stays(m, n, l)
  BY <1>1, Same
<1>2. ASSUME NEW m \in Messages \cup {NULL}, NEW n \in BOOLEAN, NEW l \in Infos \cup {NULL},
             Stays(m, n, l)
      PROVE  Calls'
  BY <1>2, CallMoves
<1>3. QED
  BY <1>1, <1>2

\* A call returns to nothing or to the announcement of a radio state.
LEMMA Returns ==
    ASSUME Calls, NEW t \in Threads, Return(t)
    PROVE  \E a \in {"send", "idle"}, m \in Messages \cup {NULL} :
              /\ pc' = [pc EXCEPT ![t] = a] /\ msg' = [msg EXCEPT ![t] = m]
              /\ nested' = [nested EXCEPT ![t] = FALSE] /\ last' = [last EXCEPT ![t] = NULL]
              /\ a = "idle" <=> m = NULL
              /\ a = "send" => m = Message("radio", 0)
<1>1. Message("radio", 0) \in Messages /\ Message("radio", 0) # NULL
  BY MessageIsOne DEF Kinds
<1>2. QED
  BY <1>1 DEF Return, Goto

\* Steps of RIL_onUnsolicitedResponse.
LEMMA CallStepKeepsCalls ==
    ASSUME Calls, s_last_wake_timeout_info \in Infos \cup {NULL},
           NEW t \in Threads, CallStep(t)
    PROVE  Calls'
<1> USE DEF Goto
<1>1. /\ pc = [pc EXCEPT ![t] = pc[t]] /\ pc[t] \in Labels
      /\ msg = [msg EXCEPT ![t] = msg[t]] /\ msg[t] \in Messages \cup {NULL}
      /\ nested = [nested EXCEPT ![t] = nested[t]] /\ nested[t] \in BOOLEAN
      /\ last = [last EXCEPT ![t] = last[t]] /\ last[t] \in Infos \cup {NULL}
      /\ script \in [Vendors -> Seq(Messages)]
      /\ pc[t] # "idle" => msg[t] # NULL /\ msg[t] \in Messages
      /\ t = Event /\ pc[t] # "idle" => msg[t].kind # "nitz"
  BY Same
<1>2. script' = script
  BY DEF CallStep, Marshal, Send, TestOldNitz, FreeOldNitz, ClearOldNitz, StoreNitz, ReadLastTimer,
         CancelLastTimer, Schedule, RememberTimer, ErrorExit, outside
<1>3. ASSUME Return(t) PROVE Calls'
  <2>1. PICK a \in {"send", "idle"}, m \in Messages \cup {NULL} :
              /\ pc' = [pc EXCEPT ![t] = a] /\ msg' = [msg EXCEPT ![t] = m]
              /\ nested' = [nested EXCEPT ![t] = FALSE] /\ last' = [last EXCEPT ![t] = NULL]
              /\ a = "idle" <=> m = NULL
              /\ a = "send" => m = Message("radio", 0)
    BY <1>3, Returns
  <2>2. a \in Labels /\ a \notin Keeping /\ a \notin {"overwrite", "schedule", "remember"}
        /\ (a # "idle" => m.kind # "nitz")
    BY <2>1, MessageIsOne DEF Labels, Keeping, Kinds
  <2>3. QED
    BY <1>1, <1>2, <2>1, <2>2, CallMoves
<1>4. CASE Marshal(t)
  <2>1. CASE /\ pc' = [pc EXCEPT ![t] = IF msg[t].kind = "invalid" THEN "error_exit" ELSE "send"]
             /\ UNCHANGED <<msg, nested>>
    <3>1. pc[t] = "marshal" /\ last' = last
      BY <1>4 DEF Marshal
    <3>2. \E a \in {"error_exit", "send"} : pc' = [pc EXCEPT ![t] = a]
      BY <2>1
    <3>3. \A a \in {"error_exit", "send"} : a \in Labels /\ a \notin Keeping /\ a # "idle"
             /\ a \notin {"overwrite", "schedule", "remember"}
      BY DEF Labels, Keeping
    <3>4. QED
      BY <1>2, <2>1, <3>1, <3>2, <3>3, CallGoesOn
  <2>2. CASE /\ pc' = [pc EXCEPT ![t] = "marshal"]
             /\ msg' = [msg EXCEPT ![t] = Message("wake", 0)]
             /\ nested' = [nested EXCEPT ![t] = TRUE]
    <3>1. Message("wake", 0) \in Messages /\ Message("wake", 0) # NULL
          /\ Message("wake", 0).kind # "nitz"
      BY MessageIsOne DEF Kinds
    <3>2. last' = last /\ "marshal" \in Labels \ Keeping
      BY <1>4 DEF Marshal, Labels, Keeping
    <3>3. QED
      BY <1>1, <1>2, <2>2, <3>1, <3>2, CallMoves
  <2>3. QED
    BY <1>4, <2>1, <2>2 DEF Marshal, Enter
<1>5. CASE Send(t)
  <2>1. PICK a \in {"cancel", "testOld"} : pc' = [pc EXCEPT ![t] = a]
                 /\ (a = "testOld" => msg[t].kind = "nitz")
    BY <1>5 DEF Send
  <2>2. UNCHANGED <<msg, nested, last>> /\ pc[t] = "send"
    BY <1>5 DEF Send
  <2>3. a \in Labels /\ a # "idle" /\ a \notin {"overwrite", "schedule", "remember"}
        /\ (a \in Keeping => a = "testOld")
    BY DEF Labels, Keeping
  <2>4. QED
    BY <1>2, <2>1, <2>2, <2>3, CallGoesOn
<1>6. CASE TestOldNitz(t) \/ FreeOldNitz(t) \/ ClearOldNitz(t) \/ StoreNitz(t)
  <2>1. PICK a \in {"freeOld", "clearOld", "store", "cancel"} : pc' = [pc EXCEPT ![t] = a]
    BY <1>6 DEF TestOldNitz, FreeOldNitz, ClearOldNitz, StoreNitz
  <2>2. UNCHANGED <<msg, nested, last>> /\ pc[t] \in Keeping
    BY <1>6 DEF TestOldNitz, FreeOldNitz, ClearOldNitz, StoreNitz, Keeping
  <2>3. a \in Labels /\ a # "idle" /\ a \notin {"overwrite", "schedule", "remember"}
    BY DEF Labels, Keeping
  <2>4. pc[t] # "idle" /\ msg[t].kind = "nitz"
    BY <2>2 DEF Keeping, Calls, CallsInOrder
  <2>5. QED
    BY <1>2, <2>1, <2>2, <2>3, <2>4, CallGoesOn
<1>7. CASE ReadLastTimer(t) /\ Wakes(msg[t])
  <2>1. PICK a \in {"schedule", "overwrite"} : pc' = [pc EXCEPT ![t] = a]
                 /\ (a = "overwrite" => s_last_wake_timeout_info # NULL)
    BY <1>7 DEF ReadLastTimer
  <2>2. UNCHANGED <<msg, nested>> /\ pc[t] = "cancel"
        /\ last' = [last EXCEPT ![t] = s_last_wake_timeout_info]
    BY <1>7 DEF ReadLastTimer
  <2>3. a \in Labels /\ a # "idle" /\ a \notin Keeping /\ a # "remember"
    BY DEF Labels, Keeping
  <2>4. QED
    BY <1>1, <1>2, <1>7, <2>1, <2>2, <2>3, CallMoves
<1>8. CASE ReadLastTimer(t) /\ ~Wakes(msg[t])
  BY <1>3, <1>8 DEF ReadLastTimer
<1>9. CASE CancelLastTimer(t)
  <2>1. UNCHANGED <<msg, nested, last>> /\ pc[t] = "overwrite"
        /\ pc' = [pc EXCEPT ![t] = "schedule"]
    BY <1>9 DEF CancelLastTimer
  <2>2. "schedule" \in Labels \ Keeping /\ Wakes(msg[t])
    BY <2>1 DEF Labels, Keeping, Calls, CallsInOrder
  <2>3. QED
    BY <1>2, <2>1, <2>2, CallGoesOn
<1>10. CASE Schedule(t)
  <2>1. PICK p \in Infos : last' = [last EXCEPT ![t] = p]
    BY <1>10 DEF Schedule
  <2>2. UNCHANGED <<msg, nested>> /\ pc[t] = "schedule"
        /\ pc' = [pc EXCEPT ![t] = "remember"] /\ p # NULL
    BY <1>10, UnsolicitedAssumption DEF Schedule
  <2>3. "remember" \in Labels \ Keeping /\ Wakes(msg[t])
    BY <2>2 DEF Labels, Keeping, Calls, CallsInOrder
  <2>4. QED
    BY <1>1, <1>2, <2>1, <2>2, <2>3, CallMoves
<1>11. CASE RememberTimer(t) \/ ErrorExit(t)
  BY <1>3, <1>11 DEF RememberTimer, ErrorExit
<1>12. QED
  BY <1>4, <1>5, <1>6, <1>7, <1>8, <1>9, <1>10, <1>11 DEF CallStep

\* Nobody's call moves.
LEMMA CallsStay == Calls /\ UNCHANGED <<calls, script>> => Calls'
BY DEF calls, Calls, CallsInOrder, Wakes

\* A thread that is in no call begins one.
LEMMA CallBegins ==
    ASSUME Calls, NEW t \in Threads, NEW m \in Messages, pc[t] = "idle", Enter(t, m),
           UNCHANGED <<nested, last>>, script' \in [Vendors -> Seq(Messages)],
           t = Event => m.kind # "nitz"
    PROVE  Calls'
<1> DEFINE Stays(n, l) ==
              /\ n = FALSE /\ nested' = [nested EXCEPT ![t] = n]
              /\ last' = [last EXCEPT ![t] = l]
<1>1. \E n \in BOOLEAN, l \in Infos \cup {NULL} : Stays(n, l)
  <2>1. nested[t] = FALSE
    BY Same DEF Calls
  <2>2. QED
    BY <2>1, Same
<1>2. ASSUME NEW n \in BOOLEAN, NEW l \in Infos \cup {NULL}, Stays(n, l)
      PROVE  Calls'
  <2>1. /\ pc' = [pc EXCEPT ![t] = "marshal"] /\ msg' = [msg EXCEPT ![t] = m]
        /\ m # NULL /\ "marshal" \in Labels \ Keeping
    BY UnsolicitedAssumption DEF Enter, Goto, Labels, Keeping
  <2>2. QED
    BY <1>2, <2>1, CallMoves
<1>3. QED
  BY <1>1, <1>2

\* A vendor thread's next message.
LEMMA VendorKeepsCalls ==
    ASSUME Calls, NEW t \in Vendors, Vendor(t)
    PROVE  Calls'
<1>1. /\ t \in Threads /\ t # Event /\ pc[t] = "idle" /\ UNCHANGED <<nested, last>>
      /\ script \in [Vendors -> Seq(Messages)] /\ script[t] # <<>>
  BY UnsolicitedAssumption DEF Vendor, Threads, Calls, CallsInOrder
<1>2. Head(script[t]) \in Messages /\ Tail(script[t]) \in Seq(Messages)
  BY <1>1, HeadTailProperties
<1>3. script' \in [Vendors -> Seq(Messages)]
  BY <1>1, <1>2 DEF Vendor
<1>4. CASE s_registerCalled
  <2>1. Enter(t, Head(script[t]))
    BY <1>4 DEF Vendor
  <2>2. QED
    BY <1>1, <1>2, <1>3, <2>1, CallBegins
<1>5. CASE ~s_registerCalled
  <2>1. UNCHANGED <<pc, msg>>
    BY <1>5 DEF Vendor
  <2>2. QED
    BY <1>1, <1>3, <2>1 DEF Calls, CallsInOrder, Wakes
<1>6. QED
  BY <1>4, <1>5

\* The greeting of a connection.
LEMMA GreetKeepsCalls == Calls /\ Greet => Calls'
<1> SUFFICES ASSUME Calls, Greet PROVE Calls'
  OBVIOUS
<1>1. PICK m \in {Message("wake", 0), Message("radio", 0)} : Enter(Event, m)
  BY DEF Greet
<1>2. m \in Messages /\ m.kind # "nitz"
  BY MessageIsOne DEF Kinds
<1>3. /\ pc[Event] = "idle" /\ UNCHANGED <<nested, last>> /\ Event \in Threads
      /\ script' \in [Vendors -> Seq(Messages)]
  BY DEF Greet, Threads, outside, Calls, CallsInOrder
<1>4. QED
  BY <1>1, <1>2, <1>3, CallBegins

-----------------------------------------------------------------------------
(* The wake lock and its timers                                            *)

\* What TypeOK and TimersOnce say of the shared state.
Timers ==
    /\ s_registerCalled \in BOOLEAN /\ link \in {"up", "dead", "down"}
    /\ conns \in 0..MaxConns
    /\ wakeLock \in BOOLEAN
    /\ info \in [Infos -> {NULL, "armed", "cancelled"}]
    /\ \A i \in DOMAIN timers : info[timers[i]] # NULL
    /\ epc \in {"release", "forget"} <=> fired # NULL
    /\ TimersOnce

\* A timer is added last.
LEMMA AddTimer ==
    ASSUME Timers, NEW p \in Infos, info[p] = NULL, info' = [info EXCEPT ![p] = "armed"],
           timers' = Append(timers, p),
           UNCHANGED <<s_registerCalled, link, conns, wakeLock, epc, fired,
                       s_last_wake_timeout_info>>
    PROVE  /\ Timers' /\ \E i \in DOMAIN timers' : info'[timers'[i]] = "armed"
<1> USE DEF Timers, TimersOnce
<1>1. /\ Len(timers) \in Nat /\ DOMAIN timers = 1..Len(timers)
      /\ timers' \in Seq(Infos) /\ DOMAIN timers' = 1..(Len(timers) + 1)
      /\ \A i \in 1..Len(timers) : timers'[i] = timers[i] /\ timers[i] \in Infos
      /\ timers'[Len(timers) + 1] = p
  BY AppendProperties, LenProperties, ElementOfSeq
<1>2. NULL \notin {"armed", "cancelled"} /\ NULL \notin Infos
  BY UnsolicitedAssumption
<1>3. info' \in [Infos -> {NULL, "armed", "cancelled"}] /\ info'[p] = "armed"
      /\ \A q \in Infos : q # p => info'[q] = info[q]
  OBVIOUS
<1>4. \A i \in 1..Len(timers) : timers[i] # p
  BY <1>1
<1>5. \A i \in DOMAIN timers' : info'[timers'[i]] # NULL
  <2> TAKE i \in DOMAIN timers'
  <2>1. CASE i = Len(timers) + 1
    BY <1>1, <1>2, <1>3, <2>1
  <2>2. CASE i \in 1..Len(timers)
    BY <1>1, <1>3, <1>4, <2>2
  <2>3. QED
    BY <1>1, <2>1, <2>2
<1>6. \A i, j \in DOMAIN timers' : timers'[i] = timers'[j] => i = j
  <2> TAKE i, j \in DOMAIN timers'
  <2>1. CASE i = Len(timers) + 1 \/ j = Len(timers) + 1
    BY <1>1, <1>4, <2>1
  <2>2. CASE i \in 1..Len(timers) /\ j \in 1..Len(timers)
    BY <1>1, <2>2
  <2>3. QED
    BY <1>1, <2>1, <2>2
<1>7. fired # NULL => info'[fired] # NULL /\ \A i \in DOMAIN timers' : timers'[i] # fired
  <2> SUFFICES ASSUME fired # NULL
               PROVE  info'[fired] # NULL /\ \A i \in DOMAIN timers' : timers'[i] # fired
    OBVIOUS
  <2>1. fired \in Infos /\ fired # p
    OBVIOUS
  <2>2. \A i \in 1..(Len(timers) + 1) : i \in 1..Len(timers) \/ i = Len(timers) + 1
    BY <1>1
  <2>3. QED
    BY <1>1, <1>3, <2>1, <2>2
<1>8. Len(timers) + 1 \in DOMAIN timers'
  BY <1>1
<1>9. QED
  BY <1>1, <1>3, <1>5, <1>6, <1>7, <1>8

\* The earliest timer fires.
LEMMA FireTimer ==
    ASSUME Timers, FireWakeTimer
    PROVE  /\ Timers'
           /\ \A i \in DOMAIN timers : info[timers[i]] = "armed" =>
                 epc' = "release" \/ \E j \in DOMAIN timers' : timers'[j] = timers[i]
<1> USE DEF Timers, TimersOnce
<1>1. /\ epc = "idle" /\ timers # <<>> /\ fired' = Head(timers) /\ timers' = Tail(timers)
      /\ epc' = IF info[Head(timers)] = "armed" THEN "release" ELSE "forget"
      /\ UNCHANGED <<s_registerCalled, link, conns, wakeLock, info, s_last_wake_timeout_info>>
  BY DEF FireWakeTimer, outside
<1>2. /\ Len(timers) \in Nat \ {0} /\ DOMAIN timers = 1..Len(timers) /\ Head(timers) = timers[1]
      /\ Tail(timers) \in Seq(Infos) /\ DOMAIN Tail(timers) = 1..(Len(timers) - 1)
      /\ \A i \in 1..(Len(timers) - 1) : Tail(timers)[i] = timers[i + 1]
      /\ \A i \in 1..Len(timers) : timers[i] \in Infos
  BY <1>1, HeadTailProperties, LenProperties, EmptySeq, ElementOfSeq
<1>3. \A i \in 1..(Len(timers) - 1) : i + 1 \in 1..Len(timers) /\ i + 1 # 1
  BY <1>2
<1>4. 1 \in DOMAIN timers
  BY <1>2
<1>5. fired' \in Infos /\ info[fired'] # NULL /\ fired' # NULL
  BY <1>1, <1>2, <1>4, UnsolicitedAssumption
<1>6. \A i \in DOMAIN timers' : info[timers'[i]] # NULL /\ timers'[i] # fired'
  BY <1>1, <1>2, <1>3, <1>4
<1>7. \A i, j \in DOMAIN timers' : timers'[i] = timers'[j] => i = j
  <2> TAKE i, j \in DOMAIN timers'
  <2>1. timers'[i] = timers'[j] => i + 1 = j + 1
    BY <1>1, <1>2, <1>3
  <2>2. QED
    BY <1>1, <1>2, <2>1
<1>8. Timers'
  BY <1>1, <1>2, <1>5, <1>6, <1>7
<1>9. ASSUME NEW i \in DOMAIN timers, info[timers[i]] = "armed", epc' # "release"
      PROVE  \E j \in DOMAIN timers' : timers'[j] = timers[i]
  <2>1. i # 1
    BY <1>1, <1>2, <1>9
  <2>2. i - 1 \in 1..(Len(timers) - 1) /\ (i - 1) + 1 = i
    BY <1>2, <1>9, <2>1
  <2>3. QED
    BY <1>1, <1>2, <2>2
<1>10. QED
  BY <1>8, <1>9

\* Nothing but the lock and the pointer to the last timer changes.
LEMMA TimersStay ==
    ASSUME Timers, UNCHANGED <<info, timers, epc, fired>>, s_registerCalled' \in BOOLEAN,
           link' \in {"up", "dead", "down"}, conns' \in 0..MaxConns, wakeLock' \in BOOLEAN,
           s_last_wake_timeout_info' \in Infos \cup {NULL}
    PROVE  Timers'
BY DEF Timers, TimersOnce

\* Steps of RIL_onUnsolicitedResponse.
LEMMA CallStepKeepsTimers ==
    ASSUME Calls, Timers, NEW t \in Threads, CallStep(t)
    PROVE  Timers'
<1>1. /\ UNCHANGED <<s_registerCalled, link, conns, epc, fired>>
      /\ s_registerCalled' \in BOOLEAN /\ link' \in {"up", "dead", "down"} /\ conns' \in 0..MaxConns
  BY DEF CallStep, Marshal, Send, TestOldNitz, FreeOldNitz, ClearOldNitz, StoreNitz, ReadLastTimer,
         CancelLastTimer, Schedule, RememberTimer, ErrorExit, outside, Timers
<1>2. wakeLock \in BOOLEAN /\ s_last_wake_timeout_info \in Infos \cup {NULL}
  BY DEF Timers, TimersOnce
<1>3. CASE \/ Marshal(t) \/ Send(t) \/ TestOldNitz(t) \/ FreeOldNitz(t) \/ ClearOldNitz(t) \/ StoreNitz(t)
           \/ ReadLastTimer(t) \/ ErrorExit(t)
  <2>1. UNCHANGED <<info, timers, s_last_wake_timeout_info>>
    BY <1>3 DEF Marshal, Send, TestOldNitz, FreeOldNitz, ClearOldNitz, StoreNitz, ReadLastTimer, ErrorExit, wake
  <2>2. wakeLock' = wakeLock \/ wakeLock' \in BOOLEAN
    BY <1>3 DEF Marshal, Enter, Send, TestOldNitz, FreeOldNitz, ClearOldNitz, StoreNitz, ReadLastTimer,
                ErrorExit, wake
  <2>3. QED
    BY <1>1, <1>2, <2>1, <2>2, TimersStay
<1>4. CASE CancelLastTimer(t)
  <2>1. /\ last[t] \in Infos /\ UNCHANGED <<timers, wakeLock, s_last_wake_timeout_info>>
        /\ info' = IF info[last[t]] = NULL THEN info ELSE [info EXCEPT ![last[t]] = "cancelled"]
    BY <1>4 DEF CancelLastTimer, Calls, CallsInOrder
  <2>2. /\ info' \in [Infos -> {NULL, "armed", "cancelled"}]
        /\ \A p \in Infos : info[p] # NULL => info'[p] # NULL
    BY <2>1, UnsolicitedAssumption DEF Timers
  <2>3. \A i \in DOMAIN timers : timers[i] \in Infos
    BY ElementOfSeq, LenProperties DEF Timers, TimersOnce
  <2>4. QED
    BY <1>1, <2>1, <2>2, <2>3 DEF Timers, TimersOnce
<1>5. CASE Schedule(t)
  <2>1. PICK p \in Infos : /\ info[p] = NULL /\ info' = [info EXCEPT ![p] = "armed"]
                           /\ timers' = Append(timers, p)
    BY <1>5 DEF Schedule, Malloc
  <2>2. UNCHANGED <<wakeLock, s_last_wake_timeout_info>>
    BY <1>5 DEF Schedule
  <2>3. QED
    BY <1>1, <2>1, <2>2, AddTimer
<1>6. CASE RememberTimer(t)
  <2>1. s_last_wake_timeout_info' \in Infos \cup {NULL} /\ UNCHANGED <<wakeLock, info, timers>>
    BY <1>6 DEF RememberTimer, Calls, CallsInOrder
  <2>2. QED
    BY <1>1, <1>2, <2>1, TimersStay
<1>7. QED
  BY <1>3, <1>4, <1>5, <1>6 DEF CallStep

\* What the other threads hold they still hold.
LEMMA OthersAwake ==
    ASSUME Calls, NEW t \in Threads, NEW a, NEW m,
           pc' = [pc EXCEPT ![t] = a], msg' = [msg EXCEPT ![t] = m]
    PROVE  /\ \A u \in Threads \ {t} : Awake(u) => Awake(u)'
           /\ a \notin {"idle", "remember"} /\ Wakes(m) => Awake(t)'
BY DEF Awake, Wakes, Calls, CallsInOrder

\* A timer that nobody cancelled is pending, or releases the lock now.
Armed == epc = "release" \/ \E i \in DOMAIN timers : info[timers[i]] = "armed"

\* A call that wakes the phone holds the lock until a timer does.
LEMMA CallStepKeepsAccount ==
    ASSUME Calls, Timers, WakeLockAccounted, NEW t \in Threads, CallStep(t)
    PROVE  WakeLockAccounted'
<1>1. WakeLockAccounted = (wakeLock => Armed \/ \E u \in Threads : Awake(u))
      /\ WakeLockAccounted' = (wakeLock' => Armed' \/ \E u \in Threads : Awake(u)')
  BY DEF WakeLockAccounted, Armed
<1>2. UNCHANGED epc
  BY DEF CallStep, Marshal, Send, TestOldNitz, FreeOldNitz, ClearOldNitz, StoreNitz, ReadLastTimer,
         CancelLastTimer, Schedule, RememberTimer, ErrorExit
<1>3. ASSUME Return(t), UNCHANGED <<info, timers>>, Awake(t) => Armed \/ ~wakeLock', wakeLock' => wakeLock
      PROVE  WakeLockAccounted'
  <2>1. PICK a \in {"send", "idle"}, m \in Messages \cup {NULL} :
              pc' = [pc EXCEPT ![t] = a] /\ msg' = [msg EXCEPT ![t] = m]
    BY <1>3, Returns
  <2>2. \A u \in Threads \ {t} : Awake(u) => Awake(u)'
    BY <2>1, OthersAwake
  <2>3. Armed' = Armed
    BY <1>2, <1>3 DEF Armed
  <2>4. QED
    BY <1>1, <1>3, <2>2, <2>3
<1>4. ASSUME NEW a \in Labels \ {"idle", "remember"}, NEW m, Wakes(m) \/ (~Wakes(msg[t]) /\ wakeLock' = wakeLock),
             pc' = [pc EXCEPT ![t] = a], msg' = [msg EXCEPT ![t] = m], UNCHANGED <<info, timers>>,
             wakeLock' => wakeLock \/ Wakes(m)
      PROVE  WakeLockAccounted'
  <2>1. \A u \in Threads \ {t} : Awake(u) => Awake(u)'
    BY <1>4, OthersAwake
  <2>2. Wakes(m) => Awake(t)'
    BY <1>4, OthersAwake
  <2>3. Awake(t) => Wakes(msg[t])
    BY DEF Awake
  <2>4. Armed' = Armed
    BY <1>2, <1>4 DEF Armed
  <2>5. QED
    BY <1>1, <1>4, <2>1, <2>2, <2>3, <2>4
<1>5. msg = [msg EXCEPT ![t] = msg[t]]
  BY Same
<1>6. CASE Send(t) \/ TestOldNitz(t) \/ FreeOldNitz(t) \/ ClearOldNitz(t) \/ StoreNitz(t)
  <2>1. PICK a \in Labels \ {"idle", "remember"} : pc' = [pc EXCEPT ![t] = a]
    BY <1>6 DEF Send, TestOldNitz, FreeOldNitz, ClearOldNitz, StoreNitz, Goto, Labels, Keeping
  <2>2. UNCHANGED <<info, timers, wakeLock>> /\ msg' = [msg EXCEPT ![t] = msg[t]]
    BY <1>5, <1>6 DEF Send, TestOldNitz, FreeOldNitz, ClearOldNitz, StoreNitz, wake
  <2>3. QED
    BY <1>4, <2>1, <2>2
<1>7. CASE Marshal(t)
  <2>1. CASE UNCHANGED <<msg, wakeLock>>
    <3>1. PICK a \in Labels \ {"idle", "remember"} : pc' = [pc EXCEPT ![t] = a]
      BY <1>7, <2>1 DEF Marshal, Enter, Goto, Labels, Keeping
    <3>2. UNCHANGED <<info, timers, wakeLock>> /\ msg' = [msg EXCEPT ![t] = msg[t]]
      BY <1>5, <1>7, <2>1 DEF Marshal
    <3>3. QED
      BY <1>4, <3>1, <3>2
  <2>2. CASE Enter(t, Message("wake", 0))
    <3>1. /\ pc' = [pc EXCEPT ![t] = "marshal"] /\ msg' = [msg EXCEPT ![t] = Message("wake", 0)]
          /\ UNCHANGED <<info, timers>>
      BY <1>7, <2>2 DEF Marshal, Enter, Goto
    <3>2. Wakes(Message("wake", 0)) /\ "marshal" \in Labels \ {"idle", "remember"}
      BY MessageIsOne DEF Wakes, Kinds, Labels
    <3>3. QED
      BY <1>4, <3>1, <3>2
  <2>3. QED
    BY <1>7, <2>1, <2>2 DEF Marshal
<1>8. CASE ReadLastTimer(t) /\ Wakes(msg[t])
  <2>1. PICK a \in Labels \ {"idle", "remember"} : pc' = [pc EXCEPT ![t] = a]
    BY <1>8 DEF ReadLastTimer, Goto, Labels, Keeping
  <2>2. UNCHANGED <<info, timers, wakeLock>> /\ msg' = [msg EXCEPT ![t] = msg[t]]
    BY <1>5, <1>8 DEF ReadLastTimer, wake
  <2>3. QED
    BY <1>4, <2>1, <2>2
<1>9. CASE ReadLastTimer(t) /\ ~Wakes(msg[t])
  <2>1. Return(t) /\ UNCHANGED <<info, timers, wakeLock>> /\ ~Awake(t)
    BY <1>9 DEF ReadLastTimer, wake, Awake
  <2>2. QED
    BY <1>3, <2>1
<1>10. CASE CancelLastTimer(t)
  <2>1. /\ pc' = [pc EXCEPT ![t] = "schedule"] /\ msg' = [msg EXCEPT ![t] = msg[t]]
        /\ Wakes(msg[t]) /\ "schedule" \notin {"idle", "remember"}
    BY <1>5, <1>10 DEF CancelLastTimer, Goto, Calls, CallsInOrder
  <2>2. QED
    BY <1>1, <2>1, OthersAwake
<1>11. CASE Schedule(t)
  <2>1. PICK p \in Infos : /\ info[p] = NULL /\ info' = [info EXCEPT ![p] = "armed"]
                           /\ timers' = Append(timers, p)
    BY <1>11 DEF Schedule, Malloc
  <2>2. UNCHANGED <<s_registerCalled, link, conns, wakeLock, fired, s_last_wake_timeout_info>>
    BY <1>11 DEF Schedule, outside
  <2>3. Armed'
    BY <1>2, <2>1, <2>2, AddTimer DEF Armed
  <2>4. QED
    BY <1>1, <2>3
<1>12. CASE RememberTimer(t)
  <2>1. Return(t) /\ UNCHANGED <<info, timers, wakeLock>> /\ ~Awake(t)
    BY <1>12 DEF RememberTimer, Awake
  <2>2. QED
    BY <1>3, <2>1
<1>13. CASE ErrorExit(t)
  <2>1. /\ Return(t) /\ UNCHANGED <<info, timers>> /\ wakeLock' = (wakeLock /\ ~Wakes(msg[t]))
        /\ (Awake(t) => Wakes(msg[t]))
    BY <1>13 DEF ErrorExit, Awake
  <2>2. QED
    BY <1>3, <2>1
<1>14. QED
  BY <1>6, <1>7, <1>8, <1>9, <1>10, <1>11, <1>12, <1>13 DEF CallStep

\* Calls and timers are left alone.
LEMMA AccountStays ==
    ASSUME WakeLockAccounted, UNCHANGED <<pc, msg, wakeLock, info, timers>>,
           epc = "release" => epc' = "release"
    PROVE  WakeLockAccounted'
BY DEF WakeLockAccounted, Awake, Wakes

\* A call that begins is awake if it takes the lock.
LEMMA BeginKeepsAccount ==
    ASSUME Calls, WakeLockAccounted, NEW t \in Threads, NEW m \in Messages, pc[t] = "idle",
           Enter(t, m), UNCHANGED <<info, timers>>, epc = "release" => epc' = "release"
    PROVE  WakeLockAccounted'
<1>1. pc' = [pc EXCEPT ![t] = "marshal"] /\ msg' = [msg EXCEPT ![t] = m]
      /\ (wakeLock' => wakeLock \/ Wakes(m)) /\ "marshal" \notin {"idle", "remember"}
  BY DEF Enter, Goto
<1>2. /\ \A u \in Threads \ {t} : Awake(u) => Awake(u)'
      /\ Wakes(m) => Awake(t)'
  BY <1>1, OthersAwake
<1>3. ~Awake(t)
  BY DEF Awake
<1>4. QED
  BY <1>1, <1>2, <1>3 DEF WakeLockAccounted

\* Calls, timers and the lock that accounts for them, but not the NITZ time.
Woken == Calls /\ Timers /\ WakeLockAccounted

\* The event thread's callbacks.
LEMMA EventKeepsWoken == Woken /\ EventStep => Woken'
<1> SUFFICES ASSUME Woken, EventStep PROVE Woken'
  OBVIOUS
<1> USE DEF Woken
<1>1. Calls'
  <2>1. CASE Greet
    BY <2>1, GreetKeepsCalls
  <2>2. CASE ~Greet
    <3>1. UNCHANGED <<calls, script>>
      BY <2>2 DEF EventStep, FireWakeTimer, WakeTimeout, ForgetTimer, SendLastNitz, FreeLastNitz,
                  ClearLastNitz, CommandsClosed, outside
    <3>2. QED
      BY <3>1, CallsStay
  <2>3. QED
    BY <2>1, <2>2
<1>2. wakeLock \in BOOLEAN /\ s_last_wake_timeout_info \in Infos \cup {NULL}
      /\ s_registerCalled \in BOOLEAN /\ link \in {"up", "dead", "down"} /\ conns \in 0..MaxConns
      /\ epc \in {"idle", "release", "forget"} \cup Greeting
  BY DEF Timers, TimersOnce
<1>3. CASE FireWakeTimer
  <2>1. Timers'
    BY <1>3, FireTimer
  <2>2. UNCHANGED <<pc, msg, wakeLock, info>> /\ epc = "idle"
    BY <1>3 DEF FireWakeTimer, calls
  <2>3. \A i \in DOMAIN timers : info[timers[i]] = "armed" =>
           epc' = "release" \/ \E j \in DOMAIN timers' : info'[timers'[j]] = "armed"
    BY <1>3, <2>2, FireTimer
  <2>4. WakeLockAccounted'
    BY <2>2, <2>3 DEF WakeLockAccounted, Awake, Wakes
  <2>5. QED
    BY <1>1, <2>1, <2>4
<1>4. CASE WakeTimeout
  BY <1>1, <1>4 DEF WakeTimeout, outside, Timers, TimersOnce, WakeLockAccounted
<1>5. CASE ForgetTimer
  <2>1. /\ epc = "forget" /\ epc' = "idle" /\ fired' = NULL
        /\ info' = [info EXCEPT ![fired] = NULL]
        /\ s_last_wake_timeout_info' \in {NULL, s_last_wake_timeout_info}
        /\ UNCHANGED <<s_registerCalled, link, conns, pc, msg, wakeLock, timers>>
    BY <1>5 DEF ForgetTimer, outside, calls
  <2>2. fired \in Infos /\ \A i \in DOMAIN timers : timers[i] # fired /\ timers[i] \in Infos
    BY <2>1, ElementOfSeq, LenProperties DEF Timers, TimersOnce
  <2>3. /\ info' \in [Infos -> {NULL, "armed", "cancelled"}]
        /\ \A i \in DOMAIN timers : info'[timers[i]] = info[timers[i]]
    BY <2>1, <2>2 DEF Timers
  <2>4. Timers'
    BY <1>2, <2>1, <2>3 DEF Timers, TimersOnce
  <2>5. WakeLockAccounted'
    BY <2>1, <2>3 DEF WakeLockAccounted, Awake, Wakes
  <2>6. QED
    BY <1>1, <2>4, <2>5
<1>6. CASE Greet \/ SendLastNitz \/ FreeLastNitz \/ ClearLastNitz \/ CommandsClosed
  <2>1. /\ UNCHANGED <<s_registerCalled, conns, info, timers, fired, s_last_wake_timeout_info>>
        /\ epc \in {"idle"} \cup Greeting /\ epc' \in {"idle"} \cup Greeting
    BY <1>6 DEF Greet, SendLastNitz, FreeLastNitz, ClearLastNitz, CommandsClosed, outside, wake,
                Greeting
  <2>2. link' \in {"up", "dead", "down"} /\ wakeLock' \in BOOLEAN
    <3>1. CASE Greet
      BY <1>2, <3>1 DEF Greet, Enter, outside
    <3>2. CASE SendLastNitz \/ FreeLastNitz \/ ClearLastNitz \/ CommandsClosed
      BY <1>2, <3>2 DEF SendLastNitz, FreeLastNitz, ClearLastNitz, CommandsClosed, outside, wake
    <3>3. QED
      BY <1>6, <3>1, <3>2
  <2>3. epc \notin {"release", "forget"} /\ epc' \notin {"release", "forget"}
    BY <2>1 DEF Greeting
  <2>4. Timers'
    BY <1>2, <2>1, <2>2, <2>3 DEF Timers, TimersOnce
  <2>5. WakeLockAccounted'
    <3>1. CASE Greet
      <4>1. PICK m \in {Message("wake", 0), Message("radio", 0)} : Enter(Event, m)
        BY <3>1 DEF Greet
      <4>2. m \in Messages /\ Event \in Threads /\ pc[Event] = "idle"
        BY <3>1, MessageIsOne DEF Kinds, Threads, Greet
      <4>3. QED
        BY <2>1, <2>3, <4>1, <4>2, BeginKeepsAccount
    <3>2. CASE SendLastNitz \/ FreeLastNitz \/ ClearLastNitz \/ CommandsClosed
      <4>1. UNCHANGED <<pc, msg, wakeLock>>
        BY <3>2 DEF SendLastNitz, FreeLastNitz, ClearLastNitz, CommandsClosed, calls, wake
      <4>2. QED
        BY <2>1, <2>3, <4>1, AccountStays
    <3>3. QED
      BY <1>6, <3>1, <3>2
  <2>6. QED
    BY <1>1, <2>4, <2>5
<1>7. QED
  BY <1>3, <1>4, <1>5, <1>6 DEF EventStep

\* Every step keeps the calls, the timers and the account of the lock.
LEMMA NextKeepsWoken == Woken /\ [Next]_vars => Woken'
<1> SUFFICES ASSUME Woken, [Next]_vars PROVE Woken'
  OBVIOUS
<1> USE DEF Woken
<1>1. CASE RIL_register \/ FrameworkDies \/ Connect \/ UNCHANGED vars
  <2>1. /\ UNCHANGED <<calls, script, wake, fired>>
        /\ s_registerCalled' \in BOOLEAN /\ link' \in {"up", "dead", "down"}
        /\ conns' \in 0..MaxConns
    <3>1. s_registerCalled \in BOOLEAN /\ link \in {"up", "dead", "down"} /\ conns \in 0..MaxConns
      BY DEF Timers
    <3>2. CASE Connect
      BY <3>1, <3>2, UnsolicitedAssumption DEF Connect
    <3>3. CASE RIL_register \/ FrameworkDies
      BY <3>1, <3>3 DEF RIL_register, FrameworkDies
    <3>4. CASE UNCHANGED vars
      BY <3>1, <3>4 DEF vars, outside
    <3>5. QED
      BY <1>1, <3>2, <3>3, <3>4
  <2>2. epc' = epc \/ (epc = "idle" /\ epc' = "hello")
    BY <1>1 DEF RIL_register, FrameworkDies, Connect, vars
  <2>3. Calls'
    BY <2>1, CallsStay
  <2>4. Timers' /\ WakeLockAccounted'
    <3>1. UNCHANGED <<pc, msg, wakeLock, info, timers, s_last_wake_timeout_info>>
      BY <2>1 DEF wake, calls
    <3>2. WakeLockAccounted'
      BY <2>2, <3>1, AccountStays
    <3>3. epc' \in {"idle", "release", "forget"} \cup Greeting
          /\ (epc' \in {"release", "forget"}) = (epc \in {"release", "forget"})
      BY <2>2 DEF Timers, TimersOnce, Greeting
    <3>4. QED
      BY <2>1, <3>1, <3>2, <3>3 DEF Timers, TimersOnce
  <2>5. QED
    BY <2>3, <2>4
<1>2. CASE EventStep
  BY <1>2, EventKeepsWoken
<1>3. ASSUME NEW t \in Vendors, Vendor(t) PROVE Woken'
  <2>1. /\ t \in Threads /\ pc[t] = "idle"
        /\ UNCHANGED <<s_registerCalled, link, conns, info, timers, s_last_wake_timeout_info,
                       epc, fired>>
    BY <1>3 DEF Threads, Vendor
  <2>2. wakeLock' \in BOOLEAN
    BY <1>3 DEF Vendor, Enter, Timers
  <2>3. Timers'
    BY <2>1, <2>2, TimersStay DEF Timers, TimersOnce
  <2>4. WakeLockAccounted'
    <3>1. CASE s_registerCalled
      <4>1. Enter(t, Head(script[t])) /\ Head(script[t]) \in Messages
        BY <1>3, <3>1, HeadTailProperties DEF Vendor, Calls, CallsInOrder
      <4>2. QED
        BY <2>1, <4>1, BeginKeepsAccount
    <3>2. CASE ~s_registerCalled
      <4>1. UNCHANGED <<pc, msg, wakeLock>>
        BY <1>3, <3>2 DEF Vendor
      <4>2. QED
        BY <2>1, <4>1, AccountStays
    <3>3. QED
      BY <3>1, <3>2
  <2>5. QED
    BY <1>3, <2>3, <2>4, VendorKeepsCalls
<1>4. ASSUME NEW t \in Threads, CallStep(t) PROVE Woken'
  <2>1. s_last_wake_timeout_info \in Infos \cup {NULL}
    BY DEF Timers, TimersOnce
  <2>2. QED
    BY <1>4, <2>1, CallStepKeepsCalls, CallStepKeepsTimers, CallStepKeepsAccount
<1>5. QED
  BY <1>1, <1>2, <1>3, <1>4 DEF Next

-----------------------------------------------------------------------------
(* The NITZ time                                                           *)

Nitz == OneCopy /\ LatestKept

\* The event thread's own calls are never about it.
LEMMA VendorsNitz ==
    ASSUME Calls
    PROVE  /\ \A t \in Vendors : t \in Threads /\ t # Event
                 /\ InNitz(t) = (pc[t] # "idle" /\ msg[t].kind = "nitz")
           /\ Event \in Threads /\ (InNitz(Event) <=> epc \in Greeting)
           /\ \A t \in Threads : t \in Vendors \/ t = Event
           /\ \A t \in Threads : pc[t] \in Keeping => t \in Vendors /\ InNitz(t)
<1>1. /\ \A t \in Vendors : t \in Threads /\ t # Event
      /\ Event \in Threads /\ \A t \in Threads : t \in Vendors \/ t = Event
  BY UnsolicitedAssumption DEF Threads
<1>2. \A t \in Vendors : InNitz(t) = (pc[t] # "idle" /\ msg[t].kind = "nitz")
  BY <1>1 DEF InNitz
<1>3. InNitz(Event) <=> epc \in Greeting
  <2>1. pc[Event] # "idle" => msg[Event].kind # "nitz"
    BY DEF Calls, CallsInOrder
  <2>2. QED
    BY <2>1 DEF InNitz
<1>4. "idle" \notin Keeping
  BY DEF Keeping
<1>5. \A t \in Threads : pc[t] \in Keeping => pc[t] # "idle" /\ msg[t].kind = "nitz"
  BY <1>4 DEF Calls, CallsInOrder
<1>6. QED
  BY <1>1, <1>2, <1>3, <1>5 DEF Calls, CallsInOrder

\* A step that has nothing to do with it.
LEMMA NitzStays ==
    ASSUME Nitz, UNCHANGED <<nitz, toldNitz, marks>>, link' = "up" => link = "up",
           (epc' \in Greeting) = (epc \in Greeting), (epc' = "clearNitz") = (epc = "clearNitz"),
           epc' = "freeNitz" => epc = "freeNitz",
           \A u \in Threads : /\ InNitz(u)' => InNitz(u)
                              /\ pc'[u] \in Keeping => pc[u] \in Keeping
                              /\ pc[u] = "clearOld" => pc'[u] = "clearOld",
           \A u \in Vendors : /\ InNitz(u)' => InNitz(u) /\ msg'[u].number = msg[u].number
                              /\ Undecided(u) => Undecided(u)'
    PROVE  Nitz'
<1>1. UNCHANGED <<s_lastNITZTimeData, nitzBlocks, twiceFreed, toldNitz, latestNitz, nitzRaced, nitzLost>>
  BY DEF nitz, marks
<1>2. OneCopy'
  BY <1>1 DEF Nitz, OneCopy
<1>3. LatestKept'
  BY <1>1 DEF Nitz, LatestKept
<1>4. QED
  BY <1>2, <1>3 DEF Nitz

\* The others' part in it stays what it was when one call moves.
LEMMA OthersNitz ==
    ASSUME Calls, NEW t \in Threads, NEW a, NEW m, UNCHANGED epc,
           pc' = [pc EXCEPT ![t] = a], msg' = [msg EXCEPT ![t] = m]
    PROVE  /\ pc'[t] = a /\ msg'[t] = m
           /\ \A u \in Threads \ {t} : pc'[u] = pc[u] /\ msg'[u] = msg[u] /\ InNitz(u)' = InNitz(u)
                                       /\ Undecided(u)' = Undecided(u)
BY DEF InNitz, Undecided, Calls, CallsInOrder

\* A call that moves without keeping a NITZ message.
LEMMA CallNitzStays ==
    ASSUME Calls, Nitz, NEW t \in Threads, NEW a \in Labels \ Keeping, NEW m,
           pc[t] # "idle", pc[t] \notin Keeping,
           pc' = [pc EXCEPT ![t] = a], msg' = [msg EXCEPT ![t] = m],
           UNCHANGED <<nitz, toldNitz, marks, link, epc>>,
           a = "idle" \/ m = msg[t] \/ m.kind # "nitz",
           pc[t] \in {"marshal", "send"} /\ msg[t].kind = "nitz" => m = msg[t] /\ a = "send"
    PROVE  Nitz'
<1>1. /\ pc'[t] = a /\ msg'[t] = m
      /\ \A u \in Threads \ {t} : pc'[u] = pc[u] /\ msg'[u] = msg[u] /\ InNitz(u)' = InNitz(u)
                                  /\ Undecided(u)' = Undecided(u)
  BY OthersNitz
<1>2. a # "clearOld" /\ pc[t] # "clearOld"
  BY DEF Keeping
<1>3. InNitz(t)' => InNitz(t)
  BY <1>1 DEF InNitz
<1>4. t \in Vendors => /\ InNitz(t)' => msg'[t].number = msg[t].number
                       /\ Undecided(t) => Undecided(t)'
  <2> SUFFICES ASSUME t \in Vendors
               PROVE  /\ InNitz(t)' => msg'[t].number = msg[t].number
                      /\ Undecided(t) => Undecided(t)'
    OBVIOUS
  <2>1. t # Event
    BY UnsolicitedAssumption
  <2>2. InNitz(t)' = (a # "idle" /\ m.kind = "nitz") /\ InNitz(t) = (msg[t].kind = "nitz")
    BY <1>1, <2>1 DEF InNitz
  <2>3. Undecided(t) => Undecided(t)'
    BY <1>1, <2>2 DEF Undecided
  <2>4. QED
    BY <1>1, <2>2, <2>3
<1>5. \A u \in Vendors : u \in Threads
  BY DEF Threads
<1>6. QED
  BY <1>1, <1>2, <1>3, <1>4, <1>5, NitzStays

\* Steps of RIL_onUnsolicitedResponse.
LEMMA CallStepKeepsNitz ==
    ASSUME Calls, Nitz, NEW t \in Threads, CallStep(t)
    PROVE  Nitz'
<1>1. /\ msg = [msg EXCEPT ![t] = msg[t]] /\ UNCHANGED <<epc, link, marks>>
  BY Same DEF CallStep, Marshal, Send, TestOldNitz, FreeOldNitz, ClearOldNitz, StoreNitz, ReadLastTimer,
         CancelLastTimer, Schedule, RememberTimer, ErrorExit, outside
<1>2. ASSUME Return(t), pc[t] \notin {"idle", "marshal", "send"} \cup Keeping,
             UNCHANGED <<nitz, toldNitz>>
      PROVE  Nitz'
  <2>1. PICK a \in {"send", "idle"}, m \in Messages \cup {NULL} :
              /\ pc' = [pc EXCEPT ![t] = a] /\ msg' = [msg EXCEPT ![t] = m]
              /\ a = "idle" <=> m = NULL
              /\ a = "send" => m = Message("radio", 0)
    BY <1>2, Returns
  <2>2. a \in Labels \ Keeping /\ (a = "idle" \/ m.kind # "nitz")
    BY <2>1, MessageIsOne DEF Labels, Keeping, Kinds
  <2>3. QED
    BY <1>1, <1>2, <2>1, <2>2, CallNitzStays
<1>3. CASE Marshal(t)
  <2>1. pc[t] = "marshal" /\ UNCHANGED <<nitz, toldNitz>> /\ pc[t] \notin {"idle"} \cup Keeping
    BY <1>3 DEF Marshal, Keeping
  <2>2. \/ \E a \in {"error_exit", "send"} : /\ pc' = [pc EXCEPT ![t] = a]
                                             /\ msg' = [msg EXCEPT ![t] = msg[t]]
                                             /\ msg[t].kind = "nitz" => a = "send"
        \/ /\ pc' = [pc EXCEPT ![t] = "marshal"] /\ msg[t].kind = "radio"
           /\ msg' = [msg EXCEPT ![t] = Message("wake", 0)]
    BY <1>1, <1>3 DEF Marshal, Enter, Goto
  <2>3. /\ {"error_exit", "send", "marshal"} \subseteq Labels \ Keeping
        /\ Message("wake", 0).kind # "nitz"
    BY MessageIsOne DEF Labels, Keeping, Kinds
  <2>4. QED
    BY <1>1, <2>1, <2>2, <2>3, CallNitzStays
<1>4. CASE Send(t) /\ msg[t].kind # "nitz"
  <2>1. /\ pc[t] = "send" /\ UNCHANGED <<nitz, toldNitz>> /\ pc[t] \notin {"idle"} \cup Keeping
        /\ pc' = [pc EXCEPT ![t] = "cancel"] /\ msg' = [msg EXCEPT ![t] = msg[t]]
        /\ "cancel" \in Labels \ Keeping
    BY <1>1, <1>4 DEF Send, Goto, Keeping, Labels
  <2>2. QED
    BY <1>1, <1>4, <2>1, CallNitzStays
<1>5. CASE ReadLastTimer(t) /\ ~Wakes(msg[t])
  BY <1>2, <1>5 DEF ReadLastTimer, Keeping
<1>6. CASE RememberTimer(t) \/ ErrorExit(t)
  BY <1>2, <1>6 DEF RememberTimer, ErrorExit, Keeping
<1>7. CASE (ReadLastTimer(t) /\ Wakes(msg[t])) \/ CancelLastTimer(t) \/ Schedule(t)
  <2>1. /\ pc[t] \in {"cancel", "overwrite", "schedule"} /\ UNCHANGED <<nitz, toldNitz>>
        /\ msg' = [msg EXCEPT ![t] = msg[t]]
    BY <1>1, <1>7 DEF ReadLastTimer, CancelLastTimer, Schedule
  <2>2. PICK a \in {"schedule", "overwrite", "remember"} : pc' = [pc EXCEPT ![t] = a]
    BY <1>7 DEF ReadLastTimer, CancelLastTimer, Schedule, Goto
  <2>3. a \in Labels \ Keeping /\ pc[t] \notin {"idle", "marshal", "send"} \cup Keeping
    BY <2>1 DEF Labels, Keeping
  <2>4. QED
    BY <1>1, <2>1, <2>2, <2>3, CallNitzStays
<1>8. CASE (Send(t) /\ msg[t].kind = "nitz") \/ TestOldNitz(t) \/ FreeOldNitz(t) \/ ClearOldNitz(t) \/ StoreNitz(t)
  <2>1. /\ t \in Vendors /\ InNitz(t) /\ pc[t] \in {"send"} \cup Keeping
        /\ UNCHANGED msg /\ msg[t].kind = "nitz" /\ t # Event
    <3>1. pc[t] \in {"send"} \cup Keeping /\ pc[t] # "idle" /\ UNCHANGED msg
      BY <1>8 DEF Send, TestOldNitz, FreeOldNitz, ClearOldNitz, StoreNitz, Keeping
    <3>2. msg[t].kind = "nitz"
      BY <1>8, <3>1 DEF Calls, CallsInOrder, TestOldNitz, FreeOldNitz, ClearOldNitz, StoreNitz, Keeping
    <3>3. t # Event
      BY <3>1, <3>2 DEF Calls, CallsInOrder
    <3>4. QED
      BY <3>1, <3>2, <3>3, VendorsNitz DEF InNitz
  <2>2. PICK a \in {"cancel"} \cup Keeping : pc' = [pc EXCEPT ![t] = a]
    BY <1>8 DEF Send, TestOldNitz, FreeOldNitz, ClearOldNitz, StoreNitz, Goto, Keeping
  <2>3. /\ pc'[t] = a /\ a # "idle" /\ msg'[t] = msg[t]
        /\ \A u \in Threads \ {t} : pc'[u] = pc[u] /\ msg'[u] = msg[u] /\ InNitz(u)' = InNitz(u)
                                    /\ Undecided(u)' = Undecided(u)
    BY <1>1, <2>1, <2>2, OthersNitz, ZenonT(60) DEF Keeping
  <2>4. InNitz(t)' /\ Undecided(t) /\ (Undecided(t)' = (a \in Keeping))
    BY <2>1, <2>3 DEF InNitz, Undecided, Keeping
  <2>5. UNCHANGED <<link, epc, latestNitz, nitzRaced, nitzLost>>
    BY <1>1 DEF marks
  <2> SUFFICES ASSUME ~nitzRaced PROVE Nitz'
    BY <2>5 DEF Nitz, OneCopy, LatestKept
  <2>6. /\ \A u \in Threads \ {t} : ~InNitz(u) /\ pc[u] \notin Keeping /\ ~Undecided(u)
        /\ epc \notin Greeting
    <3>1. \A u \in Threads \ {t} : ~InNitz(u)
      BY <2>1 DEF Nitz, OneCopy
    <3>2. QED
      BY <2>1, <3>1, VendorsNitz DEF Undecided
  <2>7. \A u, v \in Threads : InNitz(u)' /\ InNitz(v)' => u = v
    BY <2>3, <2>6
  <2>8. \A u \in Vendors : u \in Threads /\ (InNitz(u)' => u = t)
    BY <2>3, <2>6, VendorsNitz
  <2>9. \A u \in Threads : pc'[u] \in Keeping => u = t /\ a \in Keeping
    BY <2>3, <2>6
  <2>10. epc \notin {"clearNitz", "freeNitz"} /\ ~twiceFreed
    BY <2>6 DEF Greeting, Nitz, OneCopy
  <2>11. nitzLost \/ msg[t].number = latestNitz
    BY <2>1 DEF Nitz, LatestKept
  <2>12. CASE Send(t) /\ link = "up"
    <3>1. a = "cancel" /\ toldNitz' = msg[t].number /\ UNCHANGED nitz /\ a \notin Keeping
          /\ s_lastNITZTimeData = 0
      BY <2>1, <2>2, <2>3, <2>6, <2>12 DEF Send, Goto, Nitz, OneCopy, Keeping
    <3>2. OneCopy'
      BY <2>5, <2>7, <2>9, <2>10, <3>1 DEF OneCopy, nitz
    <3>3. LatestKept'
      BY <2>3, <2>5, <2>8, <2>10, <2>11, <3>1 DEF LatestKept, nitz
    <3>4. QED
      BY <3>2, <3>3 DEF Nitz
  <2>13. CASE Send(t) /\ link # "up"
    <3>1. a = "testOld" /\ UNCHANGED <<toldNitz, nitz>> /\ a \in Keeping /\ pc[t] = "send"
      BY <2>1, <2>2, <2>3, <2>13 DEF Send, Goto, Keeping
    <3>2. OneCopy'
      <4>1. \A u \in Threads : pc[u] # "clearOld"
        BY <2>6, <3>1 DEF Keeping
      <4>2. QED
        BY <2>5, <2>7, <2>10, <2>13, <3>1, <4>1 DEF Nitz, OneCopy, nitz
    <3>3. LatestKept'
      BY <2>1, <2>3, <2>4, <2>5, <2>8, <2>10, <2>11, <3>1 DEF LatestKept, nitz
    <3>4. QED
      BY <3>2, <3>3 DEF Nitz
  <2>14. ASSUME TestOldNitz(t) \/ FreeOldNitz(t) \/ ClearOldNitz(t) \/ StoreNitz(t)
         PROVE  link # "up" /\ UNCHANGED toldNitz /\ pc[t] \in Keeping
    BY <2>14 DEF TestOldNitz, FreeOldNitz, ClearOldNitz, StoreNitz, Nitz, OneCopy, Keeping
  <2>15. CASE FreeOldNitz(t)
    <3>1. /\ a = "clearOld" /\ a \in Keeping /\ pc[t] = "freeOld"
          /\ nitzBlocks' = nitzBlocks \ {s_lastNITZTimeData}
          /\ twiceFreed' = (twiceFreed \/ s_lastNITZTimeData \notin {0} \cup nitzBlocks)
          /\ UNCHANGED s_lastNITZTimeData
      BY <2>2, <2>3, <2>15 DEF FreeOldNitz, Goto, Calls, CallsInOrder, Keeping
    <3>2. s_lastNITZTimeData \in {0} \cup nitzBlocks
      <4>1. \A u \in Threads : pc[u] # "clearOld"
        BY <2>6, <3>1 DEF Keeping
      <4>2. QED
        BY <2>10, <4>1 DEF Nitz, OneCopy
    <3>3. OneCopy'
      BY <2>3, <2>5, <2>7, <2>10, <2>14, <2>15, <3>1, <3>2 DEF OneCopy
    <3>4. LatestKept'
      BY <2>1, <2>3, <2>4, <2>5, <2>8, <2>10, <2>11, <3>1 DEF LatestKept
    <3>5. QED
      BY <3>3, <3>4 DEF Nitz
  <2>16. CASE ClearOldNitz(t)
    <3>1. s_lastNITZTimeData' = 0 /\ UNCHANGED <<twiceFreed, nitzBlocks>> /\ a = "store" /\ a \in Keeping
      BY <2>2, <2>3, <2>16 DEF ClearOldNitz, Goto, Calls, CallsInOrder, Keeping
    <3>2. OneCopy'
      BY <2>5, <2>7, <2>10, <2>14, <2>16, <3>1 DEF OneCopy
    <3>3. LatestKept'
      BY <2>1, <2>3, <2>4, <2>5, <2>8, <2>10, <2>11, <3>1 DEF LatestKept
    <3>4. QED
      BY <3>2, <3>3 DEF Nitz
  <2>17. CASE StoreNitz(t)
    <3>1. /\ s_lastNITZTimeData' = msg[t].number /\ nitzBlocks' = nitzBlocks \cup {msg[t].number}
          /\ UNCHANGED <<twiceFreed>> /\ a = "cancel" /\ a \notin Keeping
      BY <2>2, <2>3, <2>17 DEF StoreNitz, Goto, Calls, CallsInOrder, Keeping
    <3>2. OneCopy'
      BY <2>5, <2>7, <2>10, <2>14, <2>17, <3>1 DEF OneCopy
    <3>3. LatestKept'
      BY <2>3, <2>5, <2>8, <2>10, <2>11, <3>1 DEF LatestKept
    <3>4. QED
      BY <3>2, <3>3 DEF Nitz
  <2>18. CASE TestOldNitz(t)
    <3>1. a \in Keeping /\ UNCHANGED nitz /\ pc[t] = "testOld" /\ a # "clearOld"
      BY <2>2, <2>3, <2>18 DEF TestOldNitz, Goto, Keeping
    <3>2. OneCopy'
      <4>1. \A u \in Threads : pc[u] # "clearOld"
        BY <2>6, <3>1 DEF Keeping
      <4>2. QED
        BY <2>5, <2>7, <2>10, <2>14, <2>18, <3>1, <4>1 DEF Nitz, OneCopy, nitz
    <3>3. LatestKept'
      BY <2>1, <2>3, <2>4, <2>5, <2>8, <2>10, <2>11, <2>14, <2>18, <3>1 DEF LatestKept, nitz
    <3>4. QED
      BY <3>2, <3>3 DEF Nitz
  <2>19. QED
    BY <1>8, <2>12, <2>13, <2>15, <2>16, <2>17, <2>18
<1>9. QED
  BY <1>3, <1>4, <1>5, <1>6, <1>7, <1>8 DEF CallStep

\* A vendor thread's next message: a NITZ message that meets nobody becomes the latest.
LEMMA VendorKeepsNitz ==
    ASSUME Calls, Nitz, NEW t \in Vendors, Vendor(t)
    PROVE  Nitz'
<1> DEFINE m == Head(script[t])
<1>1. /\ t \in Threads /\ t # Event /\ pc[t] = "idle" /\ UNCHANGED <<nitz, toldNitz, link, epc, nitzLost>>
      /\ \A u \in Vendors : u \in Threads
  BY VendorsNitz DEF Vendor
<1> HIDE DEF m
<1>2. CASE ~s_registerCalled
  <2>1. UNCHANGED <<pc, msg, marks>>
    BY <1>1, <1>2 DEF Vendor, marks
  <2>2. \A u \in Threads : InNitz(u)' = InNitz(u) /\ Undecided(u)' = Undecided(u)
    BY <1>1, <2>1 DEF InNitz, Undecided
  <2>3. QED
    BY <1>1, <2>1, <2>2, NitzStays
<1>3. CASE s_registerCalled
  <2>1. /\ pc' = [pc EXCEPT ![t] = "marshal"] /\ msg' = [msg EXCEPT ![t] = m]
        /\ m.kind = "nitz" => latestNitz' = m.number /\ NoteNitzRace(t)
        /\ m.kind # "nitz" => UNCHANGED <<latestNitz, nitzRaced>>
    BY <1>3 DEF Vendor, Enter, Goto, m
  <2>2. /\ pc'[t] = "marshal" /\ msg'[t] = m
        /\ \A u \in Threads \ {t} : pc'[u] = pc[u] /\ msg'[u] = msg[u] /\ InNitz(u)' = InNitz(u)
                                    /\ Undecided(u)' = Undecided(u)
    BY <1>1, <2>1, OthersNitz
  <2>3. "marshal" \notin Keeping /\ "idle" \notin Keeping /\ ~InNitz(t) /\ ~Undecided(t)
    BY <1>1 DEF Keeping, InNitz, Undecided
  <2>4. CASE m.kind # "nitz"
    <3>1. ~InNitz(t)'
      BY <1>1, <2>2, <2>4 DEF InNitz
    <3>2. \A u \in Threads : /\ InNitz(u)' => InNitz(u)
                             /\ pc'[u] \in Keeping => pc[u] \in Keeping
                             /\ pc[u] = "clearOld" => pc'[u] = "clearOld"
      BY <1>1, <2>2, <2>3, <3>1
    <3>3. \A u \in Vendors : /\ InNitz(u)' => InNitz(u) /\ msg'[u].number = msg[u].number
                             /\ Undecided(u) => Undecided(u)'
      BY <1>1, <2>2, <2>3, <3>1
    <3>4. UNCHANGED marks
      BY <1>1, <2>1, <2>4 DEF marks
    <3>5. QED
      BY <1>1, <3>2, <3>3, <3>4, NitzStays
  <2>5. CASE m.kind = "nitz"
    <3> SUFFICES ASSUME ~nitzRaced' PROVE Nitz'
      BY DEF Nitz, OneCopy, LatestKept
    <3>1. /\ ~nitzRaced /\ latestNitz' = m.number
          /\ \A u \in Threads \ {t} : ~InNitz(u)
      BY <2>1, <2>5 DEF NoteNitzRace
    <3>2. InNitz(t)' /\ Undecided(t)'
      BY <2>2, <2>5 DEF InNitz, Undecided
    <3>3. UNCHANGED <<s_lastNITZTimeData, nitzBlocks, twiceFreed>>
      BY <1>1 DEF nitz
    <3>4. /\ \A u \in Threads : pc'[u] \in Keeping => pc[u] \in Keeping
          /\ \A u \in Threads : pc[u] = "clearOld" => pc'[u] = "clearOld"
      BY <1>1, <2>2, <2>3
    <3>5. OneCopy'
      BY <1>1, <2>2, <3>1, <3>3, <3>4 DEF Nitz, OneCopy
    <3>6. epc \notin Greeting
      BY <1>1, <3>1, VendorsNitz
    <3>7. epc' \notin {"freeNitz", "clearNitz"}
      BY <1>1, <3>6 DEF Greeting
    <3>8. LatestKept'
      BY <1>1, <2>2, <3>1, <3>2, <3>7 DEF LatestKept
    <3>9. QED
      BY <3>5, <3>8 DEF Nitz
  <2>6. QED
    BY <2>4, <2>5
<1>4. QED
  BY <1>2, <1>3

\* Steps that leave all calls alone.
LEMMA RestNitz ==
    ASSUME UNCHANGED <<pc, msg>>
    PROVE  \A u \in Vendors : u \in Threads /\ InNitz(u)' = InNitz(u) /\ Undecided(u)' = Undecided(u)
<1>1. \A u \in Vendors : u \in Threads /\ u # Event
  BY UnsolicitedAssumption DEF Threads
<1>2. QED
  BY <1>1 DEF InNitz, Undecided

\* The event thread's callbacks: the kept message is sent, then freed, then forgotten.
LEMMA EventKeepsNitz == Calls /\ TimersOnce /\ Nitz /\ EventStep => Nitz'
<1> SUFFICES ASSUME Calls, TimersOnce, Nitz, EventStep PROVE Nitz'
  OBVIOUS
<1>1. CASE FireWakeTimer \/ WakeTimeout \/ ForgetTimer \/ CommandsClosed
  <2>1. /\ UNCHANGED <<pc, msg, nitz, toldNitz, marks>> /\ (link' = "up" => link = "up")
        /\ epc \notin Greeting /\ epc' \notin Greeting
        /\ epc' \notin {"clearNitz", "freeNitz"} /\ epc # "clearNitz"
    BY <1>1 DEF FireWakeTimer, WakeTimeout, ForgetTimer, CommandsClosed, outside, calls, Greeting
  <2>2. \A u \in Threads : InNitz(u)' => InNitz(u)
    BY <2>1 DEF InNitz
  <2>3. QED
    BY <2>1, <2>2, RestNitz, NitzStays
<1>2. CASE Greet
  <2>1. PICK m \in {Message("wake", 0), Message("radio", 0)} : Enter(Event, m)
    BY <1>2 DEF Greet
  <2>2. m.kind # "nitz"
    BY <2>1, MessageIsOne DEF Kinds
  <2>3. /\ pc[Event] = "idle" /\ UNCHANGED <<nitz, toldNitz, marks, link>>
        /\ pc' = [pc EXCEPT ![Event] = "marshal"] /\ msg' = [msg EXCEPT ![Event] = m]
        /\ epc \in Greeting /\ epc' \in Greeting /\ epc # "clearNitz"
        /\ epc' \notin {"clearNitz", "freeNitz"}
    BY <1>2, <2>1 DEF Greet, Enter, Goto, outside, Greeting
  <2>4. \A u \in Threads \ {Event} : pc'[u] = pc[u] /\ msg'[u] = msg[u]
    BY <2>3 DEF Calls, CallsInOrder
  <2>5. \A u \in Vendors : u \in Threads /\ u # Event
    BY VendorsNitz
  <2>6. \A u \in Threads : InNitz(u)' => InNitz(u)
    BY <2>3, <2>4 DEF InNitz
  <2>7. \A u \in Vendors : InNitz(u)' = InNitz(u) /\ Undecided(u)' = Undecided(u)
    BY <2>4, <2>5 DEF InNitz, Undecided
  <2>8. pc'[Event] = "marshal" /\ "marshal" \notin Keeping /\ pc[Event] # "clearOld"
    BY <2>3, VendorsNitz DEF Keeping, Calls, CallsInOrder
  <2>9. QED
    BY <2>3, <2>4, <2>5, <2>6, <2>7, <2>8, NitzStays
<1>3. CASE SendLastNitz \/ FreeLastNitz \/ ClearLastNitz
  <2>1. /\ UNCHANGED <<pc, msg, latestNitz, nitzRaced, link>> /\ epc \in {"nitz", "freeNitz", "clearNitz"}
        /\ epc \in Greeting
    BY <1>3 DEF SendLastNitz, FreeLastNitz, ClearLastNitz, calls, marks, outside, Greeting
  <2> SUFFICES ASSUME ~nitzRaced PROVE Nitz'
    BY <2>1 DEF Nitz, OneCopy, LatestKept
  <2>2. InNitz(Event) /\ \A u \in Threads : InNitz(u) => u = Event
    BY <2>1, VendorsNitz DEF Nitz, OneCopy
  <2>3. /\ \A u \in Threads : pc[u] \notin Keeping /\ (InNitz(u)' => u = Event)
        /\ \A u \in Vendors : u \in Threads /\ ~InNitz(u)' /\ ~Undecided(u) /\ ~InNitz(u)
    <3>1. \A u \in Vendors : u \in Threads /\ ~InNitz(u) /\ ~Undecided(u)
      BY <2>2, VendorsNitz DEF Undecided
    <3>2. \A u \in Threads : pc[u] \notin Keeping
      BY <3>1, VendorsNitz
    <3>3. \A u \in Vendors : ~InNitz(u)'
      BY <2>1, <3>1, RestNitz
    <3>4. QED
      BY <3>1, <3>2, <3>3, VendorsNitz
  <2>4. \A u \in Threads : pc[u] # "clearOld"
    BY <2>3 DEF Keeping
  <2>5. /\ ~twiceFreed /\ (s_lastNITZTimeData \in {0} \cup nitzBlocks \/ epc = "clearNitz")
    BY <2>4 DEF Nitz, OneCopy
  <2>6. ~nitzLost => /\ epc \in {"freeNitz", "clearNitz"} => toldNitz = s_lastNITZTimeData
                     /\ \/ s_lastNITZTimeData = latestNitz
                        \/ s_lastNITZTimeData = 0 /\ latestNitz \in {0, toldNitz}
    BY <2>3 DEF Nitz, LatestKept
  <2>7. CASE SendLastNitz
    <3>1. /\ UNCHANGED <<s_lastNITZTimeData, nitzBlocks, twiceFreed>> /\ epc = "nitz"
          /\ \/ s_lastNITZTimeData = 0 /\ epc' = "idle" /\ UNCHANGED <<toldNitz, nitzLost>>
             \/ s_lastNITZTimeData # 0 /\ epc' = "freeNitz" /\ (nitzLost' \/ (toldNitz' = s_lastNITZTimeData /\ UNCHANGED nitzLost))
      BY <2>7 DEF SendLastNitz, nitz
    <3>2. OneCopy'
      BY <2>1, <2>3, <2>4, <2>5, <3>1 DEF OneCopy, Greeting
    <3>3. LatestKept'
      BY <2>1, <2>3, <2>6, <3>1 DEF LatestKept
    <3>4. QED
      BY <3>2, <3>3 DEF Nitz
  <2>8. CASE FreeLastNitz
    <3>1. /\ UNCHANGED <<s_lastNITZTimeData, toldNitz, nitzLost>> /\ epc = "freeNitz" /\ epc' = "clearNitz"
          /\ twiceFreed' = (twiceFreed \/ s_lastNITZTimeData \notin nitzBlocks \cup {0})
      BY <2>8 DEF FreeLastNitz, marks
    <3>2. OneCopy'
      BY <2>1, <2>3, <2>5, <3>1 DEF OneCopy, Greeting
    <3>3. LatestKept'
      BY <2>1, <2>3, <2>6, <3>1 DEF LatestKept
    <3>4. QED
      BY <3>2, <3>3 DEF Nitz
  <2>9. CASE ClearLastNitz
    <3>1. /\ UNCHANGED <<twiceFreed, toldNitz, nitzLost>> /\ epc = "clearNitz" /\ epc' = "idle"
          /\ s_lastNITZTimeData' = 0
      BY <2>9 DEF ClearLastNitz, marks
    <3>2. OneCopy'
      BY <2>1, <2>3, <2>5, <3>1 DEF OneCopy
    <3>3. LatestKept'
      BY <2>1, <2>3, <2>6, <3>1 DEF LatestKept
    <3>4. QED
      BY <3>2, <3>3 DEF Nitz
  <2>10. QED
    BY <1>3, <2>7, <2>8, <2>9
<1>4. QED
  BY <1>1, <1>2, <1>3 DEF EventStep

\* A connection: the greeting meets whoever is about to keep a message.
LEMMA ConnectKeepsNitz == Calls /\ Nitz /\ Connect => Nitz'
<1> SUFFICES ASSUME Calls, Nitz, Connect PROVE Nitz'
  OBVIOUS
<1>1. /\ UNCHANGED <<pc, msg, s_lastNITZTimeData, nitzBlocks, twiceFreed, toldNitz, latestNitz, nitzLost>>
      /\ epc = "idle" /\ epc' = "hello" /\ "hello" \in Greeting /\ NoteNitzRace(Event)
  BY DEF Connect, calls, nitz, Greeting
<1> SUFFICES ASSUME ~nitzRaced' PROVE Nitz'
  BY DEF Nitz, OneCopy, LatestKept
<1>2. ~nitzRaced /\ \A u \in Threads \ {Event} : ~InNitz(u)
  BY <1>1 DEF NoteNitzRace
<1>3. /\ \A u \in Vendors : u \in Threads /\ ~InNitz(u) /\ ~InNitz(u)' /\ ~Undecided(u)
      /\ \A u \in Threads : pc[u] \notin Keeping /\ (u \in Vendors \/ u = Event)
  <2>1. \A u \in Vendors : u \in Threads /\ ~InNitz(u) /\ ~Undecided(u)
    BY <1>2, VendorsNitz DEF Undecided
  <2>2. \A u \in Threads : pc[u] \notin Keeping /\ (u \in Vendors \/ u = Event)
    BY <2>1, VendorsNitz
  <2>3. \A u \in Vendors : ~InNitz(u)'
    BY <1>1, <2>1, RestNitz
  <2>4. QED
    BY <2>1, <2>2, <2>3
<1>4. \A u \in Threads : pc[u] # "clearOld"
  BY <1>3 DEF Keeping
<1>5. OneCopy'
  BY <1>1, <1>2, <1>3, <1>4 DEF Nitz, OneCopy
<1>6. LatestKept'
  BY <1>1, <1>2, <1>3 DEF Nitz, LatestKept
<1>7. QED
  BY <1>5, <1>6 DEF Nitz

-----------------------------------------------------------------------------
(* The inductive invariant                                                 *)

\* It holds at first: scripts are made of messages.
LEMMA InitIInv == Init => IInv
<1> SUFFICES ASSUME Init PROVE IInv
  OBVIOUS
<1>1. /\ script \in [Vendors -> Seq(Messages)] /\ 0 \in 0..MaxConns
      /\ "idle" \in Labels /\ "idle" \notin Keeping /\ Event \in Threads
  BY UnsolicitedAssumption DEF Init, Labels, Keeping, Threads
<1>2. TypeOK
  <2>1. \A i \in DOMAIN timers : info[timers[i]] # NULL
    BY DEF Init
  <2>2. /\ \A t \in Threads : pc[t] = "idle" /\ msg[t] = NULL /\ ~nested[t]
        /\ info \in [Infos -> {NULL, "armed", "cancelled"}]
    BY DEF Init
  <2>3. s_registerCalled \in BOOLEAN /\ wakeLock \in BOOLEAN /\ link = "down" /\ conns = 0
        /\ epc = "idle" /\ fired = NULL
    BY DEF Init
  <2>4. QED
    BY <1>1, <2>1, <2>2, <2>3 DEF TypeOK
<1>3. CallsInOrder
  BY <1>1 DEF Init, CallsInOrder
<1>4. TimersOnce
  BY DEF Init, TimersOnce
<1>5. WakeLockAccounted
  BY DEF Init, WakeLockAccounted
<1>6. \A t \in Threads : ~InNitz(t) /\ pc[t] = "idle"
  BY DEF Init, InNitz, Greeting
<1>7. OneCopy
  BY <1>1, <1>6 DEF Init, OneCopy
<1>8. LatestKept
  <2>1. \A t \in Vendors : ~InNitz(t)
    BY <1>6 DEF Threads
  <2>2. QED
    BY <2>1 DEF Init, LatestKept
<1>9. QED
  BY <1>2, <1>3, <1>4, <1>5, <1>7, <1>8 DEF IInv

\* Every step keeps it.
LEMMA NextIInv == IInv /\ [Next]_vars => IInv'
<1> SUFFICES ASSUME IInv, [Next]_vars PROVE Woken' /\ Nitz'
  BY DEF IInv, TypeOK, Woken, Calls, Timers, Nitz
<1>1. Woken /\ Nitz
  BY DEF IInv, TypeOK, Woken, Calls, Timers, Nitz
<1>2. Calls /\ TimersOnce /\ Nitz
  BY <1>1 DEF Woken, Timers
<1>3. Woken'
  BY <1>1, NextKeepsWoken
<1>4. CASE RIL_register \/ FrameworkDies \/ UNCHANGED vars
  <2>1. UNCHANGED <<pc, msg, nitz, toldNitz, marks, epc>> /\ (link' = "up" => link = "up")
    BY <1>4 DEF RIL_register, FrameworkDies, vars, calls, outside
  <2>2. \A u \in Threads : InNitz(u)' = InNitz(u)
    BY <2>1 DEF InNitz
  <2>3. QED
    BY <1>2, <1>3, <2>1, <2>2, RestNitz, NitzStays
<1>5. QED
  BY <1>2, <1>3, <1>4, EventKeepsNitz, ConnectKeepsNitz, VendorKeepsNitz, CallStepKeepsNitz DEF Next

\* IInv holds in every reachable state.
THEOREM Invariance == Spec => []IInv
<1>1. QED
  BY InitIInv, NextIInv, PTL DEF Spec

\* The calls, the timers and the callback keep their types: in particular no pending timer
\* points to a block that was freed.
THEOREM TypeCorrect == Spec => []TypeOK
<1>1. IInv => TypeOK
  BY DEF IInv
<1>2. QED
  BY <1>1, Invariance, PTL

\* The wake lock is never held for nothing, for any number of threads, whichever timer they
\* overwrite through a pointer to a block that malloc has handed out again.
THEOREM NeverAwakeForNothing == Spec => []WakeLockAccounted
<1>1. IInv => WakeLockAccounted
  BY DEF IInv
<1>2. QED
  BY <1>1, Invariance, PTL

\* The last NITZ time is told or kept, and a greeted framework is owed none, when nobody
\* else was at it.
THEOREM LatestNitzKept == Spec => []NitzKept
<1>1. IInv => NitzKept
  <2> SUFFICES ASSUME IInv, Quiet, ~nitzRaced, ~nitzLost
               PROVE  /\ latestNitz \in {0, toldNitz, s_lastNITZTimeData}
                      /\ link = "up" => s_lastNITZTimeData = 0
    BY DEF NitzKept
  <2>1. \A t \in Vendors : ~Undecided(t)
    BY UnsolicitedAssumption DEF Quiet, Undecided, InNitz, Threads
  <2>2. epc \notin Greeting
    BY DEF Quiet, Greeting
  <2>3. QED
    BY <2>1, <2>2 DEF IInv, OneCopy, LatestKept
<1>2. QED
  BY <1>1, Invariance, PTL

\* The kept copy is freed twice only if two threads were at it.
THEOREM FreedTwiceOnlyInRaces == Spec => []NitzFreedOnce
<1>1. IInv => NitzFreedOnce
  BY DEF IInv, OneCopy, NitzFreedOnce
<1>2. QED
  BY <1>1, Invariance, PTL

=============================================================================
