--------------------------- MODULE RilEventProofs ---------------------------
(***************************************************************************)
(* Proofs about the event loop of libril, for any number of events, slots, *)
(* timers and threads.  IInv is the inductive invariant; the theorems at   *)
(* the end are the invariants that the runs of RilEvent check.             *)
(***************************************************************************)
EXTENDS RilEvent, SequenceTheorems, FiniteSetTheorems, TLAPS

-----------------------------------------------------------------------------
(* Lemmas about the operators the model is built from                      *)

\* t is s with e inserted before position i.
Inserted(t, s, i, e, S) ==
    /\ t \in Seq(S)
    /\ Len(t) = Len(s) + 1
    /\ \A j \in 1..(Len(s) + 1) :
          t[j] = IF j < i THEN s[j] ELSE IF j = i THEN e ELSE s[j - 1]

\* InsertAt, the list insertion of ril_timer_add, element by element.
LEMMA InsertAtProperties ==
    ASSUME NEW S, NEW s \in Seq(S), NEW i \in 1..(Len(s) + 1), NEW e \in S
    PROVE  Inserted(InsertAt(s, i, e), s, i, e, S)
<1>1. Len(s) \in Nat /\ \A k \in 1..Len(s) : s[k] \in S
  BY LenProperties, ElementOfSeq
<1>2. /\ SubSeq(s, 1, i - 1) \in Seq(S)
      /\ Len(SubSeq(s, 1, i - 1)) = i - 1
      /\ \A k \in 1..(i - 1) : SubSeq(s, 1, i - 1)[k] = s[k]
  <2>1. \A k \in 1..(i - 1) : s[k] \in S
    BY <1>1
  <2>2. /\ SubSeq(s, 1, i - 1) \in Seq(S)
        /\ Len(SubSeq(s, 1, i - 1)) = IF 1 <= i - 1 THEN i - 1 - 1 + 1 ELSE 0
        /\ \A k \in 1..(i - 1 - 1 + 1) : SubSeq(s, 1, i - 1)[k] = s[1 + k - 1]
    BY <2>1, <1>1, SubSeqProperties
  <2>3. QED
    BY <2>2, <1>1
<1>3. /\ SubSeq(s, i, Len(s)) \in Seq(S)
      /\ Len(SubSeq(s, i, Len(s))) = Len(s) - i + 1
      /\ \A k \in 1..(Len(s) - i + 1) : SubSeq(s, i, Len(s))[k] = s[i + k - 1]
  <2>1. \A k \in i..Len(s) : s[k] \in S
    BY <1>1
  <2>2. QED
    BY <2>1, <1>1, SubSeqProperties
<1>4. <<e>> \in Seq(S) /\ Len(<<e>>) = 1 /\ <<e>>[1] = e
  OBVIOUS
<1> DEFINE pre == SubSeq(s, 1, i - 1) \o <<e>>
<1>5. /\ pre \in Seq(S)
      /\ Len(pre) = i
      /\ \A k \in 1..i : pre[k] = IF k < i THEN s[k] ELSE e
  <2>1. /\ pre \in Seq(S)
        /\ Len(pre) = i - 1 + 1
        /\ \A k \in 1..(i - 1 + 1) : pre[k] = IF k <= i - 1
                THEN SubSeq(s, 1, i - 1)[k] ELSE <<e>>[k - (i - 1)]
    BY <1>2, <1>4, ConcatProperties
  <2>2. QED
    BY <2>1, <1>1, <1>2, <1>4
<1> HIDE DEF pre
<1>6. /\ pre \o SubSeq(s, i, Len(s)) \in Seq(S)
      /\ Len(pre \o SubSeq(s, i, Len(s))) = i + (Len(s) - i + 1)
      /\ \A k \in 1..(i + (Len(s) - i + 1)) :
            (pre \o SubSeq(s, i, Len(s)))[k] =
                IF k <= i THEN pre[k] ELSE SubSeq(s, i, Len(s))[k - i]
  BY <1>5, <1>3, ConcatProperties
<1>7. \A k \in 1..(Len(s) + 1) :
            (pre \o SubSeq(s, i, Len(s)))[k] =
                IF k < i THEN s[k] ELSE IF k = i THEN e ELSE s[k - 1]
  <2> TAKE k \in 1..(Len(s) + 1)
  <2>1. CASE k <= i
    BY <2>1, <1>1, <1>5, <1>6
  <2>2. CASE k > i
    <3>1. k - i \in 1..(Len(s) - i + 1)
      BY <2>2, <1>1
    <3>2. SubSeq(s, i, Len(s))[k - i] = s[i + (k - i) - 1]
      BY <3>1, <1>3
    <3>3. i + (k - i) - 1 = k - 1
      BY <1>1
    <3>4. QED
      BY <2>2, <3>2, <3>3, <1>1, <1>6
  <2>3. k <= i \/ k > i
    BY <1>1
  <2>4. QED
    BY <2>1, <2>2, <2>3
<1>8. InsertAt(s, i, e) = pre \o SubSeq(s, i, Len(s))
  BY DEF InsertAt, pre
<1>9. /\ InsertAt(s, i, e) \in Seq(S)
      /\ Len(InsertAt(s, i, e)) = Len(s) + 1
      /\ \A j \in 1..(Len(s) + 1) :
            InsertAt(s, i, e)[j] = IF j < i THEN s[j]
                                   ELSE IF j = i THEN e ELSE s[j - 1]
  BY <1>6, <1>7, <1>8, <1>1
<1>10. QED
  BY ONLY <1>9 DEF Inserted

\* The elements of a sequence after an insertion.
LEMMA InsertAtRange ==
    ASSUME NEW S, NEW s \in Seq(S), NEW i \in 1..(Len(s) + 1), NEW e \in S
    PROVE  Range(InsertAt(s, i, e)) = Range(s) \cup {e}
<1> DEFINE t == InsertAt(s, i, e)
<1>1. /\ t \in Seq(S) /\ Len(t) = Len(s) + 1
      /\ \A j \in 1..(Len(s) + 1) :
            t[j] = IF j < i THEN s[j] ELSE IF j = i THEN e ELSE s[j - 1]
  <2>1. Inserted(t, s, i, e, S)
    BY InsertAtProperties, Zenon
  <2>2. QED
    BY ONLY <2>1 DEF Inserted
<1> HIDE DEF t
<1>2. DOMAIN t = 1..(Len(s) + 1) /\ DOMAIN s = 1..Len(s) /\ Len(s) \in Nat
  BY <1>1, LenProperties
<1>3. ASSUME NEW j \in 1..(Len(s) + 1) PROVE t[j] \in Range(s) \cup {e}
  <2>1. CASE j < i
    BY <2>1, <1>1, <1>2 DEF Range
  <2>2. CASE j = i
    BY <2>2, <1>1, <1>2
  <2>3. CASE j > i
    <3>1. j - 1 \in 1..Len(s) /\ t[j] = s[j - 1]
      BY <2>3, <1>1, <1>2
    <3>2. QED
      BY <3>1, <1>2 DEF Range
  <2>4. QED
    BY <2>1, <2>2, <2>3, <1>2
<1>4. ASSUME NEW j \in 1..Len(s) PROVE s[j] \in Range(t)
  <2>1. CASE j < i
    <3>1. j \in 1..(Len(s) + 1) /\ t[j] = s[j]
      BY <2>1, <1>1, <1>2
    <3>2. QED
      BY <3>1, <1>2 DEF Range
  <2>2. CASE j >= i
    <3>1. j + 1 \in 1..(Len(s) + 1) /\ t[j + 1] = s[j]
      BY <2>2, <1>1, <1>2
    <3>2. QED
      BY <3>1, <1>2 DEF Range
  <2>3. QED
    BY <2>1, <2>2, <1>2
<1>5. e \in Range(t)
  BY <1>1, <1>2 DEF Range
<1>6. QED
  BY <1>2, <1>3, <1>4, <1>5 DEF Range, t

-----------------------------------------------------------------------------
(* The watch table                                                         *)

\* ril_event_add finds a slot: the table is as long as there are events, and
\* no event sits in two slots.
LEMMA FreeSlot ==
    ASSUME TypeOK, TableCore, NEW e \in FdEvents \ added
    PROVE  \E i \in Slots : watch_table[i] = NULL
<1> SUFFICES ASSUME \A i \in Slots : watch_table[i] # NULL
             PROVE  FALSE
  OBVIOUS
<1> DEFINE T == FdEvents \ {e}
<1>1. watch_table \in [Slots -> T]
  BY DEF TypeOK, TableCore, Watched
<1>2. IsFiniteSet(Slots) /\ Cardinality(Slots) = MAX_FD_EVENTS
  BY FS_Interval, EventAssumption DEF Slots
<1>3. IsFiniteSet(T) /\ Cardinality(T) = Cardinality(FdEvents) - 1
  BY CapacityAssumption, FS_RemoveElement
<1>4. Cardinality(FdEvents) \in Nat
  BY CapacityAssumption, FS_CardinalityType
<1>5. Cardinality(T) < Cardinality(Slots)
  BY <1>2, <1>3, <1>4, CapacityAssumption, EventAssumption
<1> HIDE DEF T
<1>6. PICK x, y \in Slots : x # y /\ watch_table[x] = watch_table[y]
  BY <1>1, <1>2, <1>3, <1>5, FS_PigeonHole
<1>7. watch_table[x] \in FdEvents
  BY <1>1 DEF T
<1>8. index[watch_table[x]] = x /\ index[watch_table[x]] = y
  BY <1>6, <1>7 DEF TableCore, TableConsistent
<1>9. QED
  BY <1>6, <1>8

\* The part of TypeOK about the watch table.
TableType ==
    /\ watch_table \in [Slots -> FdEvents \cup {NULL}]
    /\ index \in [FdEvents -> 0..MAX_FD_EVENTS]
    /\ fd \in [FdEvents -> Fds \cup {NoFd}]
    /\ readFds \subseteq Fds /\ nfds \in Nat
    /\ added \subseteq FdEvents

\* ril_event_add watches one more event and keeps the table consistent.
LEMMA EventAddEffect ==
    ASSUME TypeOK, TableCore, NEW e \in FdEvents \ added, NEW f \in FreeFds,
           EventAdd(e, f)
    PROVE  TableType' /\ TableCore' /\ added' = added \cup {e}
           /\ readFds' = readFds \cup {f}
           /\ fd' = [fd EXCEPT ![e] = f]
<1>1. PICK i \in Slots :
            /\ watch_table[i] = NULL
            /\ watch_table' = [watch_table EXCEPT ![i] = e]
            /\ index' = [index EXCEPT ![e] = i]
            /\ readFds' = readFds \cup {f}
            /\ nfds' = IF f >= nfds THEN f + 1 ELSE nfds
  BY FreeSlot DEF EventAdd
<1>2. added' = added \cup {e} /\ fd' = [fd EXCEPT ![e] = f]
  BY DEF EventAdd
<1>3. f \in Fds /\ f \in Nat /\ \A a \in added : fd[a] # f
  BY EventAssumption DEF FreeFds
<1>4. TableType'
  BY <1>1, <1>2, <1>3, EventAssumption DEF TypeOK, TableType, Slots
<1>5. e # NULL /\ NULL \notin FdEvents
  BY EventAssumption
<1>6. Watched' = Watched \cup {e}
  BY <1>1, <1>5 DEF Watched, TypeOK
<1>7. \A a \in FdEvents, j \in Slots : (watch_table[j] = a <=> index[a] = j)'
  BY <1>1, <1>5 DEF TableCore, TableConsistent, TypeOK, Slots, Watched
<1>8. \A a \in Watched : fd'[a] = fd[a]
  BY <1>2 DEF TableCore, TypeOK
<1>9. readFds' = WatchedFds'
  BY <1>1, <1>2, <1>6, <1>8 DEF WatchedFds, TableCore, TableConsistent, TypeOK
<1>10. \A g \in readFds' : g < nfds'
  <2>1. \A g \in readFds : g \in Nat /\ g < nfds /\ nfds \in Nat
    BY EventAssumption DEF TypeOK, TableCore, TableConsistent
  <2>2. QED
    BY <2>1, <1>1, <1>3 DEF TypeOK
<1>11. \A a \in Watched' : fd'[a] \in Fds
  BY <1>2, <1>3, <1>6, <1>8 DEF TableCore, TypeOK
<1>12. \A a, b \in Watched' : fd'[a] = fd'[b] => a = b
  BY <1>2, <1>3, <1>6, <1>8 DEF TableCore, TypeOK
<1>13. QED
  BY <1>1, <1>2, <1>4, <1>6, <1>7, <1>9, <1>10, <1>11, <1>12
  DEF TableCore, TableConsistent

\* removeWatch, for a set of watched events, keeps the table consistent.
LEMMA RemoveWatchEffect ==
    ASSUME TypeOK, TableCore, NEW E \in SUBSET Watched, RemoveWatch(E)
    PROVE  TableType' /\ TableCore' /\ added' = added \ E
           /\ readFds' \subseteq readFds /\ fd' = fd
<1>1. /\ watch_table' = [i \in Slots |->
                IF watch_table[i] \in E THEN NULL ELSE watch_table[i]]
      /\ index' = [e \in FdEvents |-> IF e \in E THEN 0 ELSE index[e]]
      /\ readFds' = readFds \ {fd[e] : e \in E}
      /\ added' = added \ E
      /\ fd' = fd
  BY DEF RemoveWatch
<1> DEFINE left == {fd[e] : e \in Watched \ E}
<1>2. left \subseteq Fds /\ Fds \subseteq Nat
  BY EventAssumption DEF TableCore
<1> HIDE DEF left
<1>3. nfds' \in Nat /\ \A m \in left : m < nfds'
  <2>1. CASE \E e \in E : fd[e] + 1 = nfds
    <3>1. PICK n \in left \cup {0} : (\A m \in left : m <= n) /\ nfds' = n + 1
      BY <2>1 DEF RemoveWatch, left
    <3>2. n \in Nat /\ \A m \in left : m \in Nat
      BY <1>2
    <3>3. \A m \in left : m < n + 1
      BY <3>1, <3>2
    <3>4. QED
      BY <3>1, <3>2, <3>3
  <2>2. CASE ~ \E e \in E : fd[e] + 1 = nfds
    <3>1. nfds' = nfds
      BY <2>2 DEF RemoveWatch
    <3>2. left \subseteq readFds
      BY DEF left, TableCore, TableConsistent, WatchedFds
    <3>3. QED
      BY <3>1, <3>2 DEF TableCore, TableConsistent, TypeOK
  <2>3. QED
    BY <2>1, <2>2
<1>4. E \subseteq FdEvents /\ NULL \notin FdEvents
  BY EventAssumption DEF Watched
<1>5. TableType'
  <2>1. watch_table' \in [Slots -> FdEvents \cup {NULL}]
    BY <1>1 DEF TypeOK
  <2>2. index' \in [FdEvents -> 0..MAX_FD_EVENTS]
    BY <1>1, EventAssumption DEF TypeOK
  <2>3. readFds' \subseteq Fds /\ added' \subseteq FdEvents /\ fd' \in [FdEvents -> Fds \cup {NoFd}]
    BY <1>1 DEF TypeOK
  <2>4. QED
    BY <2>1, <2>2, <2>3, <1>3 DEF TableType
<1>6. Watched' = Watched \ E
  BY <1>1, <1>4 DEF Watched
<1>7. \A a \in FdEvents, j \in Slots : (watch_table[j] = a <=> index[a] = j)'
  <2>1. ASSUME NEW a \in FdEvents, NEW j \in Slots
        PROVE  watch_table'[j] = a <=> index'[a] = j
    <3>1. watch_table[j] = a <=> index[a] = j
      BY DEF TableCore, TableConsistent
    <3>2. j # 0
      BY DEF Slots
    <3>3. watch_table'[j] = IF watch_table[j] \in E THEN NULL ELSE watch_table[j]
      BY <1>1
    <3>4. index'[a] = IF a \in E THEN 0 ELSE index[a]
      BY <1>1
    <3>5. QED
      BY <3>1, <3>2, <3>3, <3>4, <1>4
  <2>2. QED
    BY <2>1
<1>8. readFds' = WatchedFds'
  BY <1>1, <1>6 DEF WatchedFds, TableCore, TableConsistent
<1>9. readFds' \subseteq left
  BY <1>1, <1>6, <1>8 DEF WatchedFds, left
<1>10. \A f \in readFds' : f < nfds'
  BY <1>3, <1>9
<1>11. QED
  BY <1>1, <1>5, <1>6, <1>7, <1>8, <1>10 DEF TableCore, TableConsistent

-----------------------------------------------------------------------------
(* The timer list                                                          *)

\* ril_timer_add puts one more timer into the list, in order.
LEMMA TimerAddEffect ==
    ASSUME TypeOK, TimersSorted, IsInjective(timer_list),
           NEW tm \in Timers \ Timed, NEW delay \in 0..MaxDelay,
           TimerAdd(tm, delay)
    PROVE  /\ timer_list' \in Seq(Timers) /\ timeout' \in [Timers -> Nat]
           /\ TimersSorted' /\ IsInjective(timer_list)'
           /\ Timed' = Timed \cup {tm}
           /\ \A x \in Timed : timeout'[x] = timeout[x]
<1> DEFINE due == now + delay
           n   == Len(timer_list)
<1>1. /\ due \in Nat /\ n \in Nat /\ DOMAIN timer_list = 1..n
      /\ timer_list \in Seq(Timers) /\ timeout \in [Timers -> Nat]
      /\ \A x \in 1..n : timer_list[x] \in Timers
  BY EventAssumption, LenProperties, ElementOfSeq DEF TypeOK
<1>2. PICK i \in 1..(n + 1) :
        /\ \A j \in 1..(i - 1) : timeout[timer_list[j]] < due
        /\ i <= n => timeout[timer_list[i]] >= due
        /\ timer_list' = InsertAt(timer_list, i, tm)
        /\ timeout' = [timeout EXCEPT ![tm] = due]
  BY DEF TimerAdd
<1> DEFINE t == InsertAt(timer_list, i, tm)
<1>3. /\ t \in Seq(Timers) /\ Len(t) = n + 1
      /\ \A j \in 1..(n + 1) :
            t[j] = IF j < i THEN timer_list[j]
                   ELSE IF j = i THEN tm ELSE timer_list[j - 1]
  <2>1. timer_list \in Seq(Timers) /\ i \in 1..(Len(timer_list) + 1) /\ tm \in Timers
    BY <1>1
  <2>2. Inserted(InsertAt(timer_list, i, tm), timer_list, i, tm, Timers)
    BY ONLY <2>1, InsertAtProperties, Zenon
  <2>3. QED
    BY ONLY <2>2 DEF Inserted, t, n
<1>4. Range(t) = Range(timer_list) \cup {tm}
  BY <1>1, InsertAtRange
<1>5. DOMAIN t = 1..(n + 1)
  BY <1>3, LenProperties
<1>6. \A x \in Timed : x \in Timers /\ x # tm /\ timeout'[x] = timeout[x]
  BY <1>1, <1>2 DEF Timed, Range
<1>7. \A x \in 1..n : timer_list[x] \in Timed
  BY <1>1 DEF Timed, Range
<1>8. timeout'[tm] = due
  BY <1>1, <1>2
<1>15. \A x, y \in 1..n : x < y => /\ timeout[timer_list[x]] <= timeout[timer_list[y]]
                                  /\ timer_list[x] # timer_list[y]
  <2>1. \A x, y \in 1..n : x < y => timeout[timer_list[x]] <= timeout[timer_list[y]]
    BY ONLY TimersSorted DEF TimersSorted, n
  <2>2. \A x, y \in DOMAIN timer_list : timer_list[x] = timer_list[y] => x = y
    BY ONLY IsInjective(timer_list) DEF IsInjective
  <2>3. \A x, y \in 1..n : x < y => x # y
    BY ONLY n \in Nat
  <2>4. DOMAIN timer_list = 1..n
    BY <1>1
  <2> HIDE DEF n
  <2>5. QED
    BY ONLY <2>1, <2>2, <2>3, <2>4
<1> HIDE DEF t, due, n
<1>9. ASSUME NEW a \in 1..(n + 1), NEW b \in 1..(n + 1), a < b
      PROVE  timeout'[t[a]] <= timeout'[t[b]] /\ t[a] # t[b]
  <2>1. CASE b < i
    <3>1. t[a] = timer_list[a] /\ t[b] = timer_list[b] /\ a \in 1..n /\ b \in 1..n
      BY <2>1, <1>1, <1>3, <1>9
    <3>2. QED
      BY <3>1, <1>1, <1>6, <1>7, <1>9 DEF TimersSorted, IsInjective, n
  <2>2. CASE b = i
    <3>1. a \in 1..(i - 1) /\ a \in 1..n /\ a < i
      BY <2>2, <1>1, <1>9
    <3>4. t[a] = timer_list[a] /\ t[b] = tm
      BY <2>2, <3>1, <1>3
    <3>2. timeout[timer_list[a]] < due /\ timeout[timer_list[a]] \in Nat
      BY <3>1, <1>1, <1>2
    <3>3. QED
      BY <3>1, <3>2, <3>4, <1>1, <1>6, <1>7, <1>8
  <2>3. CASE b > i /\ a = i
    <3>1. t[b] = timer_list[b - 1] /\ t[a] = tm /\ i \in 1..n /\ b - 1 \in 1..n /\ i <= b - 1
      BY <2>3, <1>1, <1>3, <1>9
    <3>2. timeout[timer_list[i]] >= due
      BY <3>1, <1>2
    <3>3. timeout[timer_list[i]] <= timeout[timer_list[b - 1]]
      <4>1. CASE i = b - 1
        BY <4>1, <3>1, <1>1
      <4>2. CASE i < b - 1
        BY <4>2, <3>1 DEF TimersSorted, n
      <4>3. QED
        BY <4>1, <4>2, <3>1
    <3>4. /\ timeout[timer_list[i]] \in Nat /\ timeout[timer_list[b - 1]] \in Nat
          /\ timeout'[timer_list[b - 1]] = timeout[timer_list[b - 1]]
          /\ timer_list[b - 1] # tm
      BY <3>1, <1>1, <1>6, <1>7
    <3>5. QED
      BY <3>1, <3>2, <3>3, <3>4, <1>1, <1>8
  <2>4. CASE b > i /\ a < i
    <3>1. t[b] = timer_list[b - 1] /\ t[a] = timer_list[a]
          /\ a \in 1..n /\ b - 1 \in 1..n /\ a < b - 1
      <4>1. a \in 1..n /\ b - 1 \in 1..n /\ a < b - 1 /\ ~(b < i) /\ b # i
        BY <2>4, <1>1, <1>9
      <4>2. QED
        BY <4>1, <2>4, <1>3
    <3>2. /\ timeout[timer_list[a]] <= timeout[timer_list[b - 1]]
          /\ timer_list[a] # timer_list[b - 1]
      BY <3>1, <1>15
    <3>3. QED
      BY <3>1, <3>2, <1>6, <1>7
  <2>5. CASE b > i /\ a > i
    <3>1. t[b] = timer_list[b - 1] /\ t[a] = timer_list[a - 1]
          /\ a - 1 \in 1..n /\ b - 1 \in 1..n /\ a - 1 < b - 1
      <4>1. /\ a - 1 \in 1..n /\ b - 1 \in 1..n /\ a - 1 < b - 1
            /\ ~(b < i) /\ b # i /\ ~(a < i) /\ a # i
        BY <2>5, <1>1, <1>9
      <4>2. QED
        BY <4>1, <2>5, <1>3
    <3>2. /\ timeout[timer_list[a - 1]] <= timeout[timer_list[b - 1]]
          /\ timer_list[a - 1] # timer_list[b - 1]
      BY <3>1, <1>15
    <3>3. QED
      BY <3>1, <3>2, <1>6, <1>7
  <2>6. QED
    BY <2>1, <2>2, <2>3, <2>4, <2>5, <1>1
<1>10. timer_list' = t
  BY <1>2 DEF t
<1>11. TimersSorted'
  BY <1>3, <1>9, <1>10 DEF TimersSorted
<1>12. IsInjective(t)
  <2>1. SUFFICES ASSUME NEW a \in 1..(n + 1), NEW b \in 1..(n + 1), a # b
                 PROVE  t[a] # t[b]
    BY <1>5 DEF IsInjective
  <2>2. a < b \/ b < a
    BY <1>1, <2>1
  <2>3. QED
    BY <1>9, <2>2
<1>13. timeout' \in [Timers -> Nat]
  BY <1>1, <1>2 DEF due
<1>14. QED
  BY <1>3, <1>4, <1>6, <1>10, <1>11, <1>12, <1>13 DEF Timed

\* The first k elements of a sequence, and the rest of it.
LEMMA PrefixAndSuffix ==
    ASSUME NEW S, NEW s \in Seq(S), NEW k \in 0..Len(s)
    PROVE  /\ SubSeq(s, 1, k) \in Seq(S)
           /\ Len(SubSeq(s, 1, k)) = k
           /\ \A i \in 1..k : SubSeq(s, 1, k)[i] = s[i]
           /\ SubSeq(s, k + 1, Len(s)) \in Seq(S)
           /\ Len(SubSeq(s, k + 1, Len(s))) = Len(s) - k
           /\ \A i \in 1..(Len(s) - k) : SubSeq(s, k + 1, Len(s))[i] = s[k + i]
<1>1. Len(s) \in Nat
  BY LenProperties
<1>2. SubSeq(s, 1, k) \in Seq(S)
  BY <1>1
<1>3. Len(SubSeq(s, 1, k)) = k
  BY <1>1
<1>4. \A i \in 1..k : SubSeq(s, 1, k)[i] = s[i]
  BY <1>1
<1>5. SubSeq(s, k + 1, Len(s)) \in Seq(S)
  BY <1>1
<1>6. Len(SubSeq(s, k + 1, Len(s))) = Len(s) - k
  BY <1>1
<1>7. \A i \in 1..(Len(s) - k) : SubSeq(s, k + 1, Len(s))[i] = s[k + i]
  BY <1>1
<1> QED
  BY <1>2, <1>3, <1>4, <1>5, <1>6, <1>7

\* A suffix of an injective, sorted sequence, and what splits it off.
LEMMA SplitProperties ==
    ASSUME NEW S, NEW s \in Seq(S), IsInjective(s), NEW k \in 0..Len(s)
    PROVE  /\ SubSeq(s, 1, k) \in Seq(S)
           /\ Len(SubSeq(s, 1, k)) = k
           /\ \A i \in 1..k : SubSeq(s, 1, k)[i] = s[i]
           /\ SubSeq(s, k + 1, Len(s)) \in Seq(S)
           /\ Len(SubSeq(s, k + 1, Len(s))) = Len(s) - k
           /\ \A i \in 1..(Len(s) - k) : SubSeq(s, k + 1, Len(s))[i] = s[k + i]
           /\ IsInjective(SubSeq(s, 1, k)) /\ IsInjective(SubSeq(s, k + 1, Len(s)))
           /\ Range(SubSeq(s, 1, k)) \cup Range(SubSeq(s, k + 1, Len(s))) = Range(s)
           /\ Range(SubSeq(s, 1, k)) \cap Range(SubSeq(s, k + 1, Len(s))) = {}
<1> DEFINE p == SubSeq(s, 1, k)
           q == SubSeq(s, k + 1, Len(s))
           n == Len(s)
<1>1. n \in Nat /\ k \in 0..n /\ DOMAIN s = 1..n /\ \A i \in 1..n : s[i] \in S
  BY LenProperties, ElementOfSeq
<1>2. p \in Seq(S) /\ Len(p) = k /\ \A i \in 1..k : p[i] = s[i]
  BY PrefixAndSuffix
<1>3. q \in Seq(S) /\ Len(q) = n - k /\ \A i \in 1..(n - k) : q[i] = s[k + i]
  BY PrefixAndSuffix
<1>4. DOMAIN p = 1..k /\ DOMAIN q = 1..(n - k)
  BY <1>2, <1>3, LenProperties
<1> HIDE DEF p, q, n
<1>5. IsInjective(p) /\ IsInjective(q)
  <2>1. IsInjective(p)
    BY <1>1, <1>2, <1>4 DEF IsInjective
  <2>2. ASSUME NEW a \in 1..(n - k), NEW b \in 1..(n - k), q[a] = q[b]
        PROVE  a = b
    <3>1. s[k + a] = s[k + b] /\ k + a \in 1..n /\ k + b \in 1..n
      BY <2>2, <1>1, <1>3
    <3>2. k + a = k + b
      BY <3>1, <1>1 DEF IsInjective
    <3>3. QED
      BY <3>2, <1>1
  <2>3. QED
    BY <2>1, <2>2, <1>4 DEF IsInjective
<1>6. Range(p) \cup Range(q) = Range(s)
  <2>1. ASSUME NEW i \in 1..n PROVE s[i] \in Range(p) \cup Range(q)
    <3>1. CASE i <= k
      BY <3>1, <1>1, <1>2, <1>4 DEF Range
    <3>2. CASE i > k
      <4>1. i - k \in 1..(n - k) /\ q[i - k] = s[i]
        BY <3>2, <1>1, <1>3
      <4>2. QED
        BY <4>1, <1>4 DEF Range
    <3>3. QED
      BY <3>1, <3>2, <1>1
  <2>2. ASSUME NEW i \in 1..(n - k) PROVE q[i] \in Range(s)
    <3>1. k + i \in 1..n /\ q[i] = s[k + i]
      BY <1>1, <1>3
    <3>2. QED
      BY <3>1, <1>1 DEF Range
  <2>3. ASSUME NEW i \in 1..k PROVE p[i] \in Range(s)
    <3>1. i \in 1..n /\ p[i] = s[i]
      BY <1>1, <1>2
    <3>2. QED
      BY <3>1, <1>1 DEF Range
  <2>4. QED
    BY <2>1, <2>2, <2>3, <1>1, <1>4 DEF Range
<1>7. Range(p) \cap Range(q) = {}
  <2>1. ASSUME NEW i \in 1..k, NEW j \in 1..(n - k) PROVE p[i] # q[j]
    <3>1. i \in 1..n /\ k + j \in 1..n /\ i # k + j
      BY <1>1
    <3>2. p[i] = s[i] /\ q[j] = s[k + j]
      BY <1>2, <1>3
    <3>3. QED
      BY <3>1, <3>2, <1>1 DEF IsInjective
  <2>2. QED
    BY <2>1, <1>4 DEF Range
<1>8. QED
  BY <1>2, <1>3, <1>5, <1>6, <1>7 DEF p, q, n

\* Appending a sequence without common elements keeps the elements distinct.
LEMMA ConcatInjective ==
    ASSUME NEW S, NEW s \in Seq(S), NEW t \in Seq(S), IsInjective(s),
           IsInjective(t), Range(s) \cap Range(t) = {}
    PROVE  IsInjective(s \o t)
<1> DEFINE u == s \o t
           m == Len(s)
           n == Len(t)
<1>1. /\ m \in Nat /\ n \in Nat /\ DOMAIN s = 1..m /\ DOMAIN t = 1..n
      /\ u \in Seq(S) /\ Len(u) = m + n
      /\ \A i \in 1..(m + n) : u[i] = IF i <= m THEN s[i] ELSE t[i - m]
  BY LenProperties, ConcatProperties
<1>2. DOMAIN u = 1..(m + n)
  BY <1>1, LenProperties
<1> HIDE DEF u, m, n
<1>3. ASSUME NEW a \in 1..(m + n), NEW b \in 1..(m + n), u[a] = u[b]
      PROVE  a = b
  <2>1. CASE a <= m /\ b <= m
    <3>1. a \in 1..m /\ b \in 1..m /\ s[a] = s[b]
      BY <2>1, <1>1, <1>3
    <3>2. QED
      BY <3>1, <1>1 DEF IsInjective
  <2>2. CASE a > m /\ b > m
    <3>1. a - m \in 1..n /\ b - m \in 1..n /\ t[a - m] = t[b - m]
      BY <2>2, <1>1, <1>3
    <3>2. a - m = b - m
      BY <3>1, <1>1 DEF IsInjective
    <3>3. QED
      BY <3>2, <1>1
  <2>3. CASE a <= m /\ b > m
    <3>1. a \in 1..m /\ b - m \in 1..n /\ s[a] = t[b - m]
      BY <2>3, <1>1, <1>3
    <3>2. QED
      BY <3>1, <1>1 DEF Range
  <2>4. CASE a > m /\ b <= m
    <3>1. b \in 1..m /\ a - m \in 1..n /\ s[b] = t[a - m]
      BY <2>4, <1>1, <1>3
    <3>2. QED
      BY <3>1, <1>1 DEF Range
  <2>5. QED
    BY <2>1, <2>2, <2>3, <2>4, <1>1
<1>4. QED
  BY <1>2, <1>3 DEF IsInjective, u

\* Dropping the head of a sequence without repetitions removes that element.
LEMMA TailInjective ==
    ASSUME NEW S, NEW s \in Seq(S), IsInjective(s), s # <<>>
    PROVE  /\ Head(s) \in S /\ Tail(s) \in Seq(S) /\ IsInjective(Tail(s))
           /\ Head(s) \in Range(s)
           /\ Range(Tail(s)) = Range(s) \ {Head(s)}
<1> DEFINE n == Len(s)
           t == Tail(s)
<1>1. /\ Head(s) \in S /\ t \in Seq(S) /\ Len(t) = n - 1
      /\ \A i \in 1..(n - 1) : t[i] = s[i + 1]
      /\ n \in Nat /\ n >= 1 /\ DOMAIN s = 1..n /\ DOMAIN t = 1..(n - 1)
      /\ Head(s) = s[1]
  BY HeadTailProperties, LenProperties, EmptySeq
<1> HIDE DEF n, t
<1>2. IsInjective(t)
  <2>1. ASSUME NEW a \in 1..(n - 1), NEW b \in 1..(n - 1), t[a] = t[b] PROVE a = b
    <3>1. a + 1 \in 1..n /\ b + 1 \in 1..n /\ s[a + 1] = s[b + 1]
      BY <2>1, <1>1
    <3>2. a + 1 = b + 1
      BY <3>1, <1>1 DEF IsInjective
    <3>3. QED
      BY <3>2, <1>1
  <2>2. QED
    BY <2>1, <1>1 DEF IsInjective
<1>3. ASSUME NEW i \in 1..(n - 1) PROVE t[i] \in Range(s) \ {s[1]}
  <2>1. i + 1 \in 1..n /\ t[i] = s[i + 1] /\ i + 1 # 1 /\ 1 \in 1..n
    BY <1>1
  <2>2. s[i + 1] # s[1]
    BY <2>1, <1>1 DEF IsInjective
  <2>3. QED
    BY <2>1, <2>2, <1>1 DEF Range
<1>4. ASSUME NEW i \in 1..n, s[i] # s[1] PROVE s[i] \in Range(t)
  <2>1. i - 1 \in 1..(n - 1) /\ t[i - 1] = s[i]
    BY <1>1, <1>4
  <2>2. QED
    BY <2>1, <1>1 DEF Range
<1>5. Head(s) \in Range(s)
  BY <1>1 DEF Range
<1>6. Range(t) = Range(s) \ {s[1]}
  <2>1. Range(t) \subseteq Range(s) \ {s[1]}
    BY <1>1, <1>3 DEF Range
  <2>2. Range(s) \ {s[1]} \subseteq Range(t)
    BY <1>1, <1>4 DEF Range
  <2>3. QED
    BY ONLY <2>1, <2>2
<1>7. QED
  BY <1>1, <1>2, <1>5, <1>6 DEF t

-----------------------------------------------------------------------------
(* processTimeouts and processReadReadies                                  *)

\* The expired timers move over; the others stay sorted.
LEMMA ProcessTimeoutsEffect ==
    ASSUME IInv, ProcessTimeouts
    PROVE  /\ timer_list' \in Seq(Timers) /\ pending_list' \in Seq(Events)
           /\ IsInjective(timer_list)' /\ IsInjective(pending_list)'
           /\ Timed' \cap Pending' = {}
           /\ Timed' \cup Pending' = Timed
           /\ TimersSorted'
<1>1. PICK k \in 0..Len(timer_list) :
          /\ pending_list' = pending_list \o SubSeq(timer_list, 1, k)
          /\ timer_list' = SubSeq(timer_list, k + 1, Len(timer_list))
  BY DEF ProcessTimeouts
<1>2. timer_list \in Seq(Timers) /\ IsInjective(timer_list) /\ Len(timer_list) \in Nat
  BY LenProperties DEF IInv, TypeOK, LinkedOnce
<1>3. pending_list = <<>>
  BY DEF IInv, PendingPhase, ProcessTimeouts
<1> DEFINE p == SubSeq(timer_list, 1, k)
           q == SubSeq(timer_list, k + 1, Len(timer_list))
           n == Len(timer_list)
<1>4. /\ p \in Seq(Timers) /\ q \in Seq(Timers) /\ Len(q) = n - k
      /\ \A i \in 1..(n - k) : q[i] = timer_list[k + i]
      /\ IsInjective(p) /\ IsInjective(q)
      /\ Range(p) \cup Range(q) = Range(timer_list)
      /\ Range(p) \cap Range(q) = {}
  BY <1>2, SplitProperties
<1>5. pending_list' = p /\ timer_list' = q
  BY <1>1, <1>3, <1>4, ConcatEmptySeq
<1>6. p \in Seq(Events)
  BY <1>4, SeqMonotonic DEF Events
<1>7. timeout' = timeout
  BY DEF ProcessTimeouts
<1> HIDE DEF p, q, n
<1>8. TimersSorted'
  <2>1. ASSUME NEW a \in 1..(n - k), NEW b \in 1..(n - k), a < b
        PROVE  timeout[q[a]] <= timeout[q[b]]
    <3>1. k + a \in 1..n /\ k + b \in 1..n /\ k + a < k + b /\ n = Len(timer_list)
      BY <2>1, <1>2 DEF n
    <3>2. timeout[timer_list[k + a]] <= timeout[timer_list[k + b]]
      BY <3>1 DEF IInv, TimersSorted
    <3>3. QED
      BY <3>2, <1>4
  <2>2. QED
    BY <2>1, <1>4, <1>5, <1>7 DEF TimersSorted
<1>9. QED
  BY <1>4, <1>5, <1>6, <1>8 DEF Timed, Pending

\* What processReadReadies appends: watched events, each once.
LEMMA ProcessReadReadiesEffect ==
    ASSUME IInv, ProcessReadReadies
    PROVE  /\ pending_list' \in Seq(Events) /\ IsInjective(pending_list)'
           /\ Pending' \subseteq Pending \cup {e \in Watched : fd[e] \in rfds}
<1> DEFINE hits == {i \in Slots : watch_table[i] # NULL /\ fd[watch_table[i]] \in rfds}
           c    == Cardinality(hits)
<1>1. PICK m \in InSlotOrder(hits) :
        pending_list' = pending_list \o [k \in 1..c |-> watch_table[m[k]]]
  BY DEF ProcessReadReadies
<1> DEFINE h == [k \in 1..c |-> watch_table[m[k]]]
           W == {e \in Watched : fd[e] \in rfds}
<1>2. c \in Nat
  <2>1. IsFiniteSet(Slots)
    BY FS_Interval, EventAssumption DEF Slots
  <2>2. IsFiniteSet(hits)
    BY <2>1, FS_Subset
  <2>3. QED
    BY <2>2, FS_CardinalityType
<1>3. /\ m \in [1..c -> hits]
      /\ \A j, k \in 1..c : j < k => m[j] < m[k]
  BY DEF InSlotOrder
<1>4. \A i \in hits : watch_table[i] \in W /\ i \in Nat
  BY EventAssumption DEF IInv, TypeOK, Watched, Slots
<1>5. \A i, j \in hits : watch_table[i] = watch_table[j] => i = j
  <2>1. ASSUME NEW i \in hits, NEW j \in hits, watch_table[i] = watch_table[j]
        PROVE  i = j
    <3>1. watch_table[i] \in FdEvents /\ i \in Slots /\ j \in Slots
      BY <1>4 DEF Watched
    <3>2. index[watch_table[i]] = i /\ index[watch_table[i]] = j
      BY <3>1, <2>1 DEF IInv, TableCore, TableConsistent
    <3>3. QED
      BY <3>2
  <2>2. QED
    BY <2>1
<1> HIDE DEF hits, c
<1>6. h \in [1..c -> W]
  BY <1>3, <1>4
<1>7. W \subseteq FdEvents /\ W \subseteq Events
  BY DEF Watched, Events
<1>8. h \in Seq(Events) /\ DOMAIN h = 1..c
  BY <1>2, <1>6, <1>7, SeqDef
<1>9. IsInjective(h)
  <2>1. ASSUME NEW a \in 1..c, NEW b \in 1..c, h[a] = h[b] PROVE a = b
    <3>1. m[a] \in hits /\ m[b] \in hits /\ m[a] \in Nat /\ m[b] \in Nat
      BY <1>3, <1>4
    <3>2. m[a] = m[b]
      BY <2>1, <3>1, <1>5
    <3>3. ~(a < b) /\ ~(b < a)
      BY <3>1, <3>2, <1>3
    <3>4. QED
      BY <3>3, <1>2
  <2>2. QED
    BY <2>1, <1>8 DEF IsInjective
<1>10. Range(h) \subseteq W
  BY <1>6, <1>8 DEF Range
<1>11. pending_list \in Seq(Events) /\ IsInjective(pending_list)
       /\ Range(pending_list) \subseteq Timers
  BY DEF IInv, TypeOK, LinkedOnce, PendingPhase, ProcessReadReadies, Pending
<1> HIDE DEF h, W
<1>12. Range(pending_list) \cap Range(h) = {}
  BY <1>7, <1>10, <1>11, EventAssumption
<1>13. pending_list' = pending_list \o h
  BY <1>1 DEF h
<1>14. IsInjective(pending_list \o h) /\ pending_list \o h \in Seq(Events)
  BY <1>8, <1>9, <1>11, <1>12, ConcatInjective, ConcatProperties
<1>15. Range(pending_list \o h) = Range(pending_list) \cup Range(h)
  BY <1>8, <1>11, RangeConcatenation
<1>16. QED
  BY <1>10, <1>13, <1>14, <1>15 DEF Pending, W

-----------------------------------------------------------------------------
(* Each conjunct of IInv is preserved                                      *)

\* Every action leaves the state well typed.
LEMMA TypeStep == IInv /\ [Next]_vars => TypeOK'
<1> SUFFICES ASSUME IInv, [Next]_vars
             PROVE  TypeOK'
  OBVIOUS
<1>0. TypeOK /\ TableCore /\ LinkedOnce /\ TimersSorted
  BY DEF IInv
<1>1. CASE CreatePipe \/ SelectInterrupted \/ FireDone
  BY <1>0, <1>1 DEF CreatePipe, SelectInterrupted, FireDone, TypeOK, table, timers, env
<1>2. CASE RegisterWakeup
  <2>1. PICK f \in FreeFds : EventAdd(Wakeup, f)
    BY <1>2 DEF RegisterWakeup
  <2>2. Wakeup \in FdEvents \ added
    BY <1>2, EventAssumption DEF RegisterWakeup, IInv, WakeupWatched
  <2>3. TableType'
    BY <1>0, <2>1, <2>2, EventAddEffect
  <2>4. QED
    BY <1>0, <1>2, <2>3 DEF RegisterWakeup, TypeOK, TableType, timers, env
<1>3. CASE CopyFds
  BY <1>0, <1>3 DEF CopyFds, TypeOK, table, timers, env
<1>4. CASE CalcNextTimeout
  <2>1. ptv' \in Nat \cup {NoTimeout}
    <3>1. timer_list # <<>> => Head(timer_list) \in Timers
      BY <1>0, HeadTailProperties DEF TypeOK
    <3>2. QED
      BY <1>0, <1>4, <3>1 DEF CalcNextTimeout, TypeOK
  <2>2. QED
    BY <1>0, <1>4, <2>1 DEF CalcNextTimeout, TypeOK, table, timers, env
<1>5. CASE SelectReturn
  BY <1>0, <1>5 DEF SelectReturn, Ready, TypeOK, table, timers, env
<1>6. CASE ProcessTimeouts
  <2>1. timer_list' \in Seq(Timers) /\ pending_list' \in Seq(Events)
    BY <1>6, ProcessTimeoutsEffect
  <2>2. QED
    BY <1>0, <1>6, <2>1 DEF ProcessTimeouts, TypeOK, table, env
<1>7. CASE ProcessReadReadies
  <2>1. pending_list' \in Seq(Events)
    BY <1>7, ProcessReadReadiesEffect
  <2>2. TableType'
    BY <1>0, <1>7, RemoveWatchEffect DEF ProcessReadReadies
  <2>3. QED
    BY <1>0, <1>7, <2>1, <2>2 DEF ProcessReadReadies, TypeOK, TableType, timers, env
<1>8. CASE FirePending
  <2>1. Head(pending_list) \in Events /\ Tail(pending_list) \in Seq(Events)
    BY <1>0, <1>8, HeadTailProperties DEF FirePending, TypeOK
  <2>2. QED
    BY <1>0, <1>8, <2>1 DEF FirePending, TypeOK, table, timers, env
<1>9. CASE WakeupCallback
  BY <1>0, <1>9 DEF WakeupCallback, TypeOK, table, timers, env
<1>10. ASSUME NEW e \in FdEvents, NEW f \in FreeFds, CallbackEventAdd(e, f)
       PROVE  TypeOK'
  <2>1. TableType'
    BY <1>0, <1>10, EventAddEffect DEF CallbackEventAdd
  <2>2. QED
    BY <1>0, <1>10, <2>1 DEF CallbackEventAdd, TypeOK, TableType, timers, loop, env
<1>11. CASE CallbackEventDel
  <2>1. TableType'
    BY <1>0, <1>11, RemoveWatchEffect DEF CallbackEventDel
  <2>2. QED
    BY <1>0, <1>11, <2>1 DEF CallbackEventDel, TypeOK, TableType, timers, loop
<1>12. ASSUME NEW tm \in Timers, NEW d \in 0..MaxDelay, CallbackTimerAdd(tm, d)
       PROVE  TypeOK'
  <2>1. timer_list' \in Seq(Timers) /\ timeout' \in [Timers -> Nat]
    BY <1>0, <1>12, TimerAddEffect DEF CallbackTimerAdd, Idle, LinkedOnce
  <2>2. QED
    BY <1>0, <1>12, <2>1 DEF CallbackTimerAdd, TypeOK, table, loop, env
<1>13. CASE CallbackReturn
  <2>1. timeout' \in [Timers -> Nat] /\ readable' \subseteq Fds
    BY <1>0, <1>13 DEF CallbackReturn, TypeOK
  <2>2. QED
    BY <1>0, <1>13, <2>1 DEF CallbackReturn, TypeOK, table
<1>14. ASSUME NEW t \in Threads, NEW e \in FdEvents, NEW f \in FreeFds,
              ThreadEventAdd(t, e, f)
       PROVE  TypeOK'
  <2>1. TableType'
    BY <1>0, <1>14, EventAddEffect DEF ThreadEventAdd
  <2>2. QED
    BY <1>0, <1>14, <2>1 DEF ThreadEventAdd, TypeOK, TableType, timers, loop, env
<1>15. ASSUME NEW t \in Threads, NEW tm \in Timers, NEW d \in 0..MaxDelay,
              ThreadTimerAdd(t, tm, d)
       PROVE  TypeOK'
  <2>1. timer_list' \in Seq(Timers) /\ timeout' \in [Timers -> Nat]
    BY <1>0, <1>15, TimerAddEffect DEF ThreadTimerAdd, Idle, LinkedOnce
  <2>2. QED
    BY <1>0, <1>15, <2>1 DEF ThreadTimerAdd, TypeOK, table, loop, env
<1>16. ASSUME NEW t \in Threads, TriggerEvLoop(t)
       PROVE  TypeOK'
  BY <1>0, <1>16 DEF TriggerEvLoop, TypeOK, table, timers, loop, env
<1>17. ASSUME NEW e \in FdEvents, InputArrives(e)
       PROVE  TypeOK'
  BY <1>0, <1>17 DEF InputArrives, TypeOK, TableCore, table, timers, loop
<1>18. CASE Tick
  BY <1>0, <1>18 DEF Tick, TypeOK, table, timers, loop
<1>19. CASE UNCHANGED vars
  BY <1>0, <1>19 DEF vars, TypeOK, table, timers, loop, env
<1>20. QED
  BY <1>1, <1>2, <1>3, <1>4, <1>5, <1>6, <1>7, <1>8, <1>9, <1>10, <1>11, <1>12,
     <1>13, <1>14, <1>15, <1>16, <1>17, <1>18, <1>19 DEF Next, LoopStep

\* The actions that change the watch table keep it consistent; the pipe is
\* registered once and stays.
LEMMA TableStep == IInv /\ [Next]_vars => TableCore' /\ WakeupWatched'
<1> SUFFICES ASSUME IInv, [Next]_vars
             PROVE  TableCore' /\ WakeupWatched'
  OBVIOUS
<1>0. TypeOK /\ TableCore /\ WakeupWatched /\ Wakeup \in FdEvents
  BY EventAssumption DEF IInv
<1>1. ASSUME UNCHANGED table
      PROVE  TableCore'
  BY <1>0, <1>1 DEF table, TableCore, TableConsistent, Watched, WatchedFds
<1>2. CASE RegisterWakeup
  <2>1. PICK f \in FreeFds : EventAdd(Wakeup, f)
    BY <1>2 DEF RegisterWakeup
  <2>2. Wakeup \in FdEvents \ added
    BY <1>0, <1>2 DEF RegisterWakeup, WakeupWatched
  <2>3. TableCore' /\ added' = added \cup {Wakeup}
    BY <1>0, <2>1, <2>2, EventAddEffect
  <2>4. QED
    BY <1>2, <2>3 DEF RegisterWakeup, WakeupWatched
<1>3. CASE ProcessReadReadies
  <2>1. PICK E \in SUBSET Watched : E \cap Persistent = {} /\ RemoveWatch(E)
    BY <1>3 DEF ProcessReadReadies
  <2>2. TableCore' /\ added' = added \ E
    BY <1>0, <2>1, RemoveWatchEffect
  <2>3. QED
    BY <1>0, <1>3, <2>1, <2>2, EventAssumption DEF ProcessReadReadies, WakeupWatched
<1>4. CASE CallbackEventDel
  <2>1. TableCore' /\ added' = added \ {running} /\ running # Wakeup
    BY <1>0, <1>4, RemoveWatchEffect DEF CallbackEventDel
  <2>2. QED
    BY <1>0, <1>4, <2>1 DEF CallbackEventDel, WakeupWatched, loop
<1>5. ASSUME NEW e \in FdEvents, NEW f \in FreeFds, CallbackEventAdd(e, f)
      PROVE  TableCore' /\ WakeupWatched'
  <2>1. TableCore' /\ added' = added \cup {e} /\ e # Wakeup
    BY <1>0, <1>5, EventAddEffect DEF CallbackEventAdd
  <2>2. QED
    BY <1>0, <1>5, <2>1 DEF CallbackEventAdd, WakeupWatched, loop
<1>6. ASSUME NEW t \in Threads, NEW e \in FdEvents, NEW f \in FreeFds,
             ThreadEventAdd(t, e, f)
      PROVE  TableCore' /\ WakeupWatched'
  <2>1. TableCore' /\ added' = added \cup {e} /\ e # Wakeup
    BY <1>0, <1>6, EventAddEffect DEF ThreadEventAdd
  <2>2. QED
    BY <1>0, <1>6, <2>1 DEF ThreadEventAdd, WakeupWatched, loop
<1>7. CASE \/ CreatePipe \/ CopyFds \/ CalcNextTimeout \/ SelectReturn
           \/ SelectInterrupted \/ ProcessTimeouts \/ FirePending \/ FireDone
  <2>1. UNCHANGED table /\ (pc' \in {"pipe", "register"} <=> pc \in {"pipe", "register"})
    BY <1>7 DEF CreatePipe, CopyFds, CalcNextTimeout, SelectReturn,
                SelectInterrupted, ProcessTimeouts, FirePending, FireDone
  <2>2. QED
    BY <1>0, <1>1, <2>1 DEF WakeupWatched, table
<1>8. CASE WakeupCallback \/ CallbackReturn
  <2>1. UNCHANGED table /\ (pc' \in {"pipe", "register"} <=> pc \in {"pipe", "register"})
    BY <1>8 DEF WakeupCallback, CallbackReturn
  <2>2. QED
    BY <1>0, <1>1, <2>1 DEF WakeupWatched, table
<1>9. ASSUME \/ \E tm \in Timers, d \in 0..MaxDelay : CallbackTimerAdd(tm, d)
             \/ \E t \in Threads, tm \in Timers, d \in 0..MaxDelay : ThreadTimerAdd(t, tm, d)
             \/ \E t \in Threads : TriggerEvLoop(t)
             \/ \E e \in FdEvents : InputArrives(e)
             \/ Tick
             \/ UNCHANGED vars
      PROVE  TableCore' /\ WakeupWatched'
  <2>1. UNCHANGED table /\ UNCHANGED pc
    BY <1>9 DEF CallbackTimerAdd, ThreadTimerAdd, TriggerEvLoop, InputArrives,
                Tick, vars, loop
  <2>2. QED
    BY <1>0, <1>1, <2>1 DEF WakeupWatched, table
<1>10. QED
  BY <1>2, <1>3, <1>4, <1>5, <1>6, <1>7, <1>8, <1>9 DEF Next, LoopStep

\* An event is linked at most once, the timers stay sorted, and the pending
\* list is drained in each round.
LEMMA ListStep ==
    IInv /\ [Next]_vars => LinkedOnce' /\ TimersSorted' /\ PendingPhase'
<1> SUFFICES ASSUME IInv, [Next]_vars
             PROVE  LinkedOnce' /\ TimersSorted' /\ PendingPhase'
  OBVIOUS
<1>0. /\ TypeOK /\ TableCore /\ LinkedOnce /\ TimersSorted /\ PendingPhase
      /\ TableCore'
  BY TableStep DEF IInv
<1>1. ASSUME UNCHANGED timers PROVE TimersSorted' /\ Timed' = Timed
  BY <1>0, <1>1 DEF timers, TimersSorted, Timed
<1>2. ASSUME UNCHANGED <<timers, pending_list, running, added>>
      PROVE  LinkedOnce'
  BY <1>0, <1>2 DEF LinkedOnce, timers, Timed, Pending, TableCore
<1>3. CASE CreatePipe \/ CopyFds \/ CalcNextTimeout \/ SelectReturn \/ SelectInterrupted
  <2>1. /\ UNCHANGED <<timers, pending_list, running, added>>
        /\ {pc, pc'} \cap {"readies", "fire", "callback"} = {}
    BY <1>3 DEF CreatePipe, CopyFds, CalcNextTimeout, SelectReturn,
                SelectInterrupted, table
  <2>2. QED
    BY <1>0, <1>1, <1>2, <2>1 DEF PendingPhase
<1>4. CASE RegisterWakeup
  <2>1. /\ UNCHANGED <<timers, pending_list, running>> /\ pending_list = <<>>
        /\ pc = "register" /\ pc' = "copy"
    BY <1>0, <1>4 DEF RegisterWakeup, PendingPhase
  <2>2. Pending = {}
    BY <2>1 DEF Pending, Range
  <2>3. QED
    BY <1>0, <1>1, <2>1, <2>2 DEF LinkedOnce, PendingPhase, timers, Timed, Pending
<1>5. CASE ProcessTimeouts
  <2>1. /\ running = NULL /\ running' = NULL /\ Pending' \subseteq Timed
        /\ pc' = "readies" /\ UNCHANGED added
    BY <1>0, <1>5, ProcessTimeoutsEffect DEF ProcessTimeouts, PendingPhase, table
  <2>2. Timed \subseteq Timers
    BY <1>0, RangeOfSeq DEF TypeOK, Timed
  <2>3. Pending' \cap Watched' = {}
    BY <2>1, <2>2, EventAssumption DEF Watched
  <2>4. NULL \notin Timers
    BY EventAssumption
  <2>5. QED
    BY <1>5, <2>1, <2>2, <2>3, <2>4, ProcessTimeoutsEffect DEF LinkedOnce, PendingPhase
<1>6. CASE ProcessReadReadies
  <2>1. /\ IsInjective(pending_list)'
        /\ Pending' \subseteq Pending \cup {e \in Watched : fd[e] \in rfds}
    BY <1>6, ProcessReadReadiesEffect
  <2>2. /\ pc = "readies" /\ pc' = "fire" /\ UNCHANGED <<timers, running>>
        /\ RemoveWatch({e \in Watched \ Persistent : fd[e] \in rfds})
    BY <1>6 DEF ProcessReadReadies
  <2>3. running = NULL /\ Pending \subseteq Timers
    BY <1>0, <2>2 DEF PendingPhase
  <2>4. Watched' = Watched \ {e \in Watched \ Persistent : fd[e] \in rfds}
    BY <1>0, <2>2 DEF RemoveWatch, TableCore
  <2>5. Timed \subseteq Timers /\ Watched \subseteq FdEvents
    BY <1>0, RangeOfSeq DEF TypeOK, Timed, Watched
  <2>6. (Pending' \ Persistent) \cap Watched' = {}
    BY <2>1, <2>3, <2>4, <2>5, EventAssumption
  <2>7. Timed \cap Pending' = {} /\ NULL \notin Timed \cup Pending'
    BY <1>0, <2>1, <2>3, <2>5, EventAssumption DEF LinkedOnce
  <2>8. QED
    BY <1>0, <1>1, <2>1, <2>2, <2>3, <2>6, <2>7 DEF LinkedOnce, PendingPhase, timers
<1>7. CASE FirePending
  <2>1. /\ pending_list # <<>> /\ running' = Head(pending_list)
        /\ pending_list' = Tail(pending_list) /\ pc' = "callback"
        /\ UNCHANGED <<timers, added>>
    BY <1>7 DEF FirePending, table
  <2>2. /\ IsInjective(pending_list)' /\ running' \in Pending
        /\ Pending' = Pending \ {running'}
    BY <1>0, <2>1, TailInjective DEF TypeOK, LinkedOnce, Pending
  <2>3. QED
    BY <1>0, <1>1, <2>1, <2>2 DEF LinkedOnce, PendingPhase, timers, TableCore
<1>8. CASE FireDone
  <2>1. UNCHANGED <<timers, pending_list, running, added>>
        /\ pc = "fire" /\ pc' = "copy" /\ pending_list = <<>>
    BY <1>8 DEF FireDone, table
  <2>2. QED
    BY <1>0, <1>1, <1>2, <2>1 DEF PendingPhase
<1>9. CASE WakeupCallback \/ CallbackReturn
  <2>1. /\ pc = "callback" /\ pc' = "fire" /\ running' = NULL
        /\ UNCHANGED <<timer_list, pending_list, added>>
        /\ \A tm \in Timers : tm # running => timeout'[tm] = timeout[tm]
    BY <1>9 DEF WakeupCallback, CallbackReturn, table, timers
  <2>2. \A i \in 1..Len(timer_list) :
            timer_list[i] \in Timers /\ timeout'[timer_list[i]] = timeout[timer_list[i]]
    <3>1. ASSUME NEW i \in 1..Len(timer_list)
          PROVE  timer_list[i] \in Timers /\ timer_list[i] # running
      BY <1>0, ElementOfSeq, LenProperties DEF TypeOK, LinkedOnce, Timed, Range
    <3>2. QED
      BY <2>1, <3>1
  <2>3. TimersSorted'
    BY <1>0, <2>1, <2>2 DEF TimersSorted
  <2>4. NULL \notin Timed \cup Pending
    BY <1>0, RangeOfSeq, EventAssumption DEF TypeOK, Timed, Pending, Events
  <2>5. QED
    BY <1>0, <2>1, <2>3, <2>4 DEF LinkedOnce, PendingPhase, Timed, Pending, TableCore
<1>10. ASSUME NEW e \in FdEvents \ added, e \notin Pending, NEW f \in FreeFds,
              EventAdd(e, f),
              UNCHANGED <<timers, pending_list, pc, running>>
       PROVE  LinkedOnce' /\ TimersSorted' /\ PendingPhase'
  <2>1. added' = added \cup {e}
    BY <1>10 DEF EventAdd
  <2>2. QED
    BY <1>0, <1>1, <1>10, <2>1 DEF LinkedOnce, PendingPhase, timers, Timed, Pending,
                                   TableCore
<1>11. ASSUME NEW e \in FdEvents, NEW f \in FreeFds, CallbackEventAdd(e, f)
       PROVE  LinkedOnce' /\ TimersSorted' /\ PendingPhase'
  BY <1>10, <1>11 DEF CallbackEventAdd, loop
<1>12. ASSUME NEW t \in Threads, NEW e \in FdEvents, NEW f \in FreeFds,
              ThreadEventAdd(t, e, f)
       PROVE  LinkedOnce' /\ TimersSorted' /\ PendingPhase'
  BY <1>10, <1>12 DEF ThreadEventAdd, Idle, loop
<1>13. CASE CallbackEventDel
  <2>1. /\ added' = added \ {running}
        /\ UNCHANGED <<timers, pending_list, pc, running>>
    BY <1>13 DEF CallbackEventDel, RemoveWatch, loop
  <2>2. QED
    BY <1>0, <1>1, <2>1 DEF LinkedOnce, PendingPhase, timers, Timed, Pending, TableCore
<1>14. ASSUME NEW tm \in Timers, NEW d \in 0..MaxDelay, Idle(tm), TimerAdd(tm, d),
              UNCHANGED <<pending_list, pc, running, added>>
       PROVE  LinkedOnce' /\ TimersSorted' /\ PendingPhase'
  <2>1. TimersSorted' /\ IsInjective(timer_list)' /\ Timed' = Timed \cup {tm}
    BY <1>0, <1>14, TimerAddEffect DEF Idle, LinkedOnce
  <2>2. QED
    BY <1>0, <1>14, <2>1 DEF LinkedOnce, PendingPhase, Pending, Idle, TableCore
<1>15. ASSUME NEW tm \in Timers, NEW d \in 0..MaxDelay, CallbackTimerAdd(tm, d)
       PROVE  LinkedOnce' /\ TimersSorted' /\ PendingPhase'
  BY <1>14, <1>15 DEF CallbackTimerAdd, loop, table
<1>16. ASSUME NEW t \in Threads, NEW tm \in Timers, NEW d \in 0..MaxDelay,
              ThreadTimerAdd(t, tm, d)
       PROVE  LinkedOnce' /\ TimersSorted' /\ PendingPhase'
  BY <1>14, <1>16 DEF ThreadTimerAdd, loop, table
<1>17. ASSUME \/ \E t \in Threads : TriggerEvLoop(t)
              \/ \E e \in FdEvents : InputArrives(e)
              \/ Tick
              \/ UNCHANGED vars
       PROVE  LinkedOnce' /\ TimersSorted' /\ PendingPhase'
  <2>1. UNCHANGED <<timers, pending_list, running, added, pc>>
    BY <1>17 DEF TriggerEvLoop, InputArrives, Tick, vars, loop, table
  <2>2. QED
    BY <1>0, <1>1, <1>2, <2>1 DEF PendingPhase, Pending
<1>18. QED
  BY <1>3, <1>4, <1>5, <1>6, <1>7, <1>8, <1>9, <1>11, <1>12, <1>13, <1>15, <1>16,
     <1>17 DEF Next, LoopStep

\* No step puts the event thread to sleep on outdated arguments.
LEMMA WakeStep == IInv /\ [Next]_vars => NoLostWakeup'
<1> SUFFICES ASSUME IInv, [Next]_vars
             PROVE  NoLostWakeup'
  OBVIOUS
<1>0. /\ TypeOK /\ TableCore /\ WakeupWatched /\ LinkedOnce /\ TimersSorted
      /\ NoLostWakeup
  BY DEF IInv
<1>1. CASE pc' \notin {"calc", "select"}
  BY <1>1 DEF NoLostWakeup
<1>2. CASE CopyFds
  <2>1. Wakeup \in Watched
    BY <1>0, <1>2 DEF CopyFds, WakeupWatched, TableCore
  <2>2. fd[Wakeup] \in readFds
    BY <1>0, <2>1 DEF TableCore, TableConsistent, WatchedFds
  <2>3. QED
    BY <1>2, <2>2 DEF CopyFds, NoLostWakeup, table
<1>3. CASE CalcNextTimeout
  <2>1. /\ pc = "calc" /\ pc' = "select"
        /\ UNCHANGED <<fd, readFds, rfds, timer_list, timeout, now, pipe, thread>>
    BY <1>3 DEF CalcNextTimeout, table, timers, env
  <2>2. ASSUME NEW tm \in Timed PROVE SelectCovers(tm)'
    <3>1. PICK i \in 1..Len(timer_list) : tm = timer_list[i]
      BY <1>0, LenProperties DEF Timed, Range, TypeOK
    <3>2. timer_list # <<>> /\ Head(timer_list) = timer_list[1] /\ 1 \in 1..Len(timer_list)
      BY <1>0, <3>1, LenProperties, EmptySeq DEF TypeOK
    <3>3. /\ timer_list[1] \in Timers /\ timer_list[i] \in Timers
          /\ timeout[timer_list[1]] \in Nat /\ timeout[timer_list[i]] \in Nat
          /\ now \in Nat
      BY <1>0, <3>1, <3>2, ElementOfSeq DEF TypeOK
    <3>4. timeout[timer_list[1]] <= timeout[timer_list[i]]
      <4>1. CASE i = 1
        BY <4>1, <3>3
      <4>2. CASE i # 1
        BY <4>2, <1>0, <3>1, <3>2 DEF TimersSorted
      <4>3. QED
        BY <4>1, <4>2
    <3>5. ptv' = IF timeout[timer_list[1]] > now THEN timeout[timer_list[1]] ELSE now
      BY <1>3, <3>2 DEF CalcNextTimeout
    <3>6. QED
      BY <2>1, <3>1, <3>3, <3>4, <3>5 DEF SelectCovers, NoTimeout
  <2>3. fd[Wakeup] \in rfds /\ (readFds \subseteq rfds \/ WakeComing)
    BY <1>0, <2>1 DEF NoLostWakeup
  <2>4. Timed' = Timed /\ WakeComing' = WakeComing
    BY <2>1 DEF Timed, WakeComing
  <2>5. QED
    BY <2>1, <2>2, <2>3, <2>4 DEF NoLostWakeup
<1>4. ASSUME NEW t \in Threads, NEW e \in FdEvents, NEW f \in FreeFds,
             ThreadEventAdd(t, e, f)
      PROVE  NoLostWakeup'
  <2>1. /\ thread'[t] = "trigger" /\ e # Wakeup /\ UNCHANGED <<pc, rfds>>
        /\ fd' = [fd EXCEPT ![e] = f]
    BY <1>0, <1>4 DEF ThreadEventAdd, EventAdd, TypeOK, loop
  <2>2. WakeComing' /\ fd'[Wakeup] = fd[Wakeup]
    BY <1>0, <2>1, EventAssumption DEF WakeComing, TypeOK
  <2>3. QED
    BY <1>0, <2>1, <2>2 DEF NoLostWakeup
<1>5. ASSUME NEW t \in Threads, NEW tm \in Timers, NEW d \in 0..MaxDelay,
             ThreadTimerAdd(t, tm, d)
      PROVE  NoLostWakeup'
  <2>1. thread'[t] = "trigger" /\ UNCHANGED <<pc, rfds, fd>>
    BY <1>0, <1>5 DEF ThreadTimerAdd, TypeOK, loop, table
  <2>2. WakeComing'
    BY <2>1 DEF WakeComing
  <2>3. QED
    BY <1>0, <2>1, <2>2 DEF NoLostWakeup
<1>6. ASSUME NEW t \in Threads, TriggerEvLoop(t)
      PROVE  NoLostWakeup'
  <2>1. /\ UNCHANGED <<pc, rfds, fd, readFds, timer_list, timeout, ptv, now>>
        /\ pc # "pipe" => pipe'
    BY <1>6 DEF TriggerEvLoop, loop, table, timers, env
  <2>2. pc \in {"calc", "select"} => WakeComing'
    BY <2>1 DEF WakeComing
  <2>3. QED
    BY <1>0, <2>1, <2>2 DEF NoLostWakeup
<1>7. CASE Tick
  <2>1. /\ now' = now + 1
        /\ UNCHANGED <<pc, rfds, fd, readFds, timer_list, timeout, ptv, pipe, thread>>
    BY <1>7 DEF Tick, loop, table, timers
  <2>2. ASSUME NEW tm \in Timed, SelectCovers(tm) PROVE SelectCovers(tm)'
    BY <1>0, <2>1, <2>2 DEF SelectCovers, TypeOK, NoTimeout
  <2>3. Timed' = Timed /\ WakeComing' = WakeComing
    BY <2>1 DEF Timed, WakeComing
  <2>4. QED
    BY <1>0, <2>1, <2>2, <2>3 DEF NoLostWakeup
<1>8. ASSUME (\E e \in FdEvents : InputArrives(e)) \/ UNCHANGED vars
      PROVE  NoLostWakeup'
  <2>1. UNCHANGED <<pc, rfds, fd, readFds, timer_list, timeout, ptv, now, pipe, thread>>
    BY <1>8 DEF InputArrives, vars, loop, table, timers, env
  <2>2. QED
    BY <1>0, <2>1 DEF NoLostWakeup, SelectCovers, WakeComing, Timed
<1>9. \/ pc' \notin {"calc", "select"}
      \/ CopyFds \/ CalcNextTimeout \/ Tick \/ UNCHANGED vars
      \/ \E t \in Threads : TriggerEvLoop(t)
      \/ \E t \in Threads, e \in FdEvents, f \in FreeFds : ThreadEventAdd(t, e, f)
      \/ \E t \in Threads, tm \in Timers, d \in 0..MaxDelay : ThreadTimerAdd(t, tm, d)
      \/ \E e \in FdEvents : InputArrives(e)
  BY DEF Next, LoopStep, CreatePipe, RegisterWakeup, SelectReturn, SelectInterrupted,
         ProcessTimeouts, ProcessReadReadies, FirePending, FireDone, WakeupCallback,
         CallbackReturn, CallbackEventAdd, CallbackEventDel, CallbackTimerAdd, loop
<1>10. QED
  BY <1>1, <1>2, <1>3, <1>4, <1>5, <1>6, <1>7, <1>8, <1>9

\* The invariant holds initially.
LEMMA InitIInv == Init => IInv
<1> SUFFICES ASSUME Init
             PROVE  IInv
  OBVIOUS
<1>1. TypeOK
  <2>1. <<>> \in Seq(Timers) /\ <<>> \in Seq(Events)
    BY EmptySeq
  <2>2. watch_table \in [Slots -> FdEvents \cup {NULL}]
        /\ index \in [FdEvents -> 0..MAX_FD_EVENTS]
        /\ fd \in [FdEvents -> Fds \cup {NoFd}]
    BY EventAssumption DEF Init
  <2>3. QED
    BY <2>1, <2>2 DEF Init, TypeOK
<1>2. Watched = {} /\ Timed = {} /\ Pending = {}
  BY EventAssumption DEF Init, Watched, Timed, Pending, Range
<1>3. TableCore /\ WakeupWatched
  <2>1. \A e \in FdEvents, i \in Slots : watch_table[i] = e <=> index[e] = i
    BY EventAssumption DEF Init, Slots
  <2>2. QED
    BY <1>2, <2>1 DEF Init, TableCore, TableConsistent, WatchedFds, WakeupWatched
<1>4. LinkedOnce /\ TimersSorted /\ PendingPhase
  BY <1>2 DEF Init, LinkedOnce, TimersSorted, PendingPhase, IsInjective
<1>5. NoLostWakeup
  BY DEF Init, NoLostWakeup
<1>6. QED
  BY <1>1, <1>3, <1>4, <1>5 DEF IInv

\* The inductive invariant: type correctness, the watch table, the lists and
\* the wake-up hold together in every reachable state.
THEOREM Invariance == Spec => []IInv
<1>1. IInv /\ [Next]_vars => IInv'
  BY TypeStep, TableStep, ListStep, WakeStep DEF IInv
<1>2. QED
  BY InitIInv, <1>1, PTL DEF Spec

\* Type correctness of the event loop.
THEOREM TypeCorrect == Spec => []TypeOK
<1>1. IInv => TypeOK
  BY DEF IInv
<1>2. QED
  BY Invariance, <1>1, PTL

\* ril_event_add and removeWatch keep table, back pointers, readFds and nfds in step.
THEOREM TableIsConsistent == Spec => []TableConsistent
<1>1. IInv => TableConsistent
  BY DEF IInv, TableCore
<1>2. QED
  BY Invariance, <1>1, PTL

\* With as many slots as events, ril_event_add never drops one.
THEOREM NoAddIsLost == Spec => []NoLostAdd
<1>1. IInv => NoLostAdd
  BY DEF IInv, TableCore, NoLostAdd
<1>2. QED
  BY Invariance, <1>1, PTL

\* The intrusive list pointers of an event serve one list at a time.
THEOREM EventsAreLinkedOnce == Spec => []LinkedOnce
<1>1. IInv => LinkedOnce
  BY DEF IInv
<1>2. QED
  BY Invariance, <1>1, PTL

\* The event thread never sleeps on outdated select arguments unless a byte is
\* in the wake-up pipe or about to be written.
THEOREM NoWakeupIsLost == Spec => []NoLostWakeup
<1>1. IInv => NoLostWakeup
  BY DEF IInv
<1>2. QED
  BY Invariance, <1>1, PTL

-----------------------------------------------------------------------------
(* The order of callbacks                                                  *)

\* processReadReadies appends no timer.
LEMMA ReadiesAppendNoTimer ==
    ASSUME IInv, ProcessReadReadies
    PROVE  \E h \in Seq(FdEvents) : pending_list' = pending_list \o h
<1> DEFINE hits == {i \in Slots : watch_table[i] # NULL /\ fd[watch_table[i]] \in rfds}
           c    == Cardinality(hits)
<1>1. PICK m \in InSlotOrder(hits) :
        pending_list' = pending_list \o [k \in 1..c |-> watch_table[m[k]]]
  BY DEF ProcessReadReadies
<1>2. c \in Nat
  <2>1. IsFiniteSet(Slots)
    BY FS_Interval, EventAssumption DEF Slots
  <2>2. QED
    BY <2>1, FS_Subset, FS_CardinalityType
<1>3. \A i \in hits : watch_table[i] \in FdEvents
  BY DEF IInv, TypeOK
<1>4. \A k \in 1..c : m[k] \in hits
  BY DEF InSlotOrder
<1> HIDE DEF hits, c
<1>5. [k \in 1..c |-> watch_table[m[k]]] \in Seq(FdEvents)
  BY <1>2, <1>3, <1>4, SeqDef
<1>6. QED
  BY <1>1, <1>5

\* Every step keeps the pending timers in order.
LEMMA DueStep == IInv /\ DueInOrder /\ [Next]_vars => DueInOrder'
<1> SUFFICES ASSUME IInv, DueInOrder, [Next]_vars PROVE DueInOrder'
  OBVIOUS
<1>1. /\ TypeOK /\ LinkedOnce /\ TimersSorted /\ PendingPhase /\ TypeOK'
      /\ now \in Nat /\ timeout \in [Timers -> Nat] /\ Timed \subseteq Timers
      /\ pending_list \in Seq(Events) /\ Len(pending_list) \in Nat
      /\ DOMAIN pending_list = 1..Len(pending_list)
      /\ \A i \in 1..Len(pending_list) : pending_list[i] \in Pending
  BY TypeStep, RangeOfSeq, LenProperties DEF IInv, TypeOK, Timed, Pending, Range
<1>2. ASSUME UNCHANGED <<timer_list, pending_list>>, now' \in Nat, now' >= now,
             \A tm \in Timed \cup (Pending \cap Timers) : timeout'[tm] = timeout[tm]
      PROVE  DueInOrder'
  <2>1. Timed' = Timed /\ Pending' = Pending
    BY <1>2 DEF Timed, Pending
  <2>2. \A tm \in Pending \cap Timers :
           timeout'[tm] < now' /\ \A o \in Timed : timeout'[tm] <= timeout'[o]
    BY <1>1, <1>2 DEF DueInOrder
  <2>3. QED
    BY <1>1, <1>2, <2>1, <2>2 DEF DueInOrder
<1>3. ASSUME pending_list' = <<>> PROVE DueInOrder'
  BY <1>3 DEF DueInOrder, Pending, Range
<1>4. CASE ProcessTimeouts
  <2>1. PICK k \in 0..Len(timer_list) :
          /\ \A j \in 1..k : now > timeout[timer_list[j]]
          /\ pending_list' = pending_list \o SubSeq(timer_list, 1, k)
          /\ timer_list' = SubSeq(timer_list, k + 1, Len(timer_list))
    BY <1>4 DEF ProcessTimeouts
  <2> DEFINE p == SubSeq(timer_list, 1, k)
             q == SubSeq(timer_list, k + 1, Len(timer_list))
             n == Len(timer_list)
  <2>2. timer_list \in Seq(Timers) /\ IsInjective(timer_list) /\ n \in Nat
    BY <1>1, LenProperties DEF TypeOK, LinkedOnce
  <2>3. /\ p \in Seq(Timers) /\ Len(p) = k /\ \A i \in 1..k : p[i] = timer_list[i]
        /\ q \in Seq(Timers) /\ Len(q) = n - k /\ \A i \in 1..(n - k) : q[i] = timer_list[k + i]
    BY <2>2, SplitProperties
  <2>4. pending_list' = p /\ timer_list' = q /\ UNCHANGED <<timeout, now>>
    BY <1>1, <1>4, <2>1, <2>3, ConcatEmptySeq DEF PendingPhase, ProcessTimeouts, env
  <2> HIDE DEF p, q, n
  <2>5. DOMAIN p = 1..k /\ DOMAIN q = 1..(n - k)
    BY <2>3, LenProperties
  <2>6. \A i, j \in 1..n : i < j => timeout[timer_list[i]] <= timeout[timer_list[j]]
    BY <1>1 DEF TimersSorted, n
  <2>7. k \in 0..n
    BY DEF n
  <2>8. ASSUME NEW i \in 1..k, NEW j \in 1..(n - k) PROVE timeout[p[i]] <= timeout[q[j]]
    <3>1. i \in 1..n /\ k + j \in 1..n /\ i < k + j
      BY <2>2, <2>7, <2>8
    <3>2. QED
      BY <2>3, <2>6, <3>1
  <2>9. \A tm \in Range(p) : timeout[tm] < now /\ \A o \in Range(q) : timeout[tm] <= timeout[o]
    <3>1. \A i \in 1..k : timeout[p[i]] < now
      <4> TAKE i \in 1..k
      <4>1. i \in 1..n /\ timer_list[i] \in Timers
        BY <2>2, <2>7, ElementOfSeq DEF n
      <4>2. QED
        BY <1>1, <2>1, <2>3, <4>1
    <3>2. QED
      BY <2>5, <2>8, <3>1 DEF Range
  <2>10. \A i, j \in 1..k : i < j => timeout[p[i]] <= timeout[p[j]]
    <3>1. \A i \in 1..k : i \in 1..n
      BY <2>2, <2>7
    <3>2. QED
      BY <2>3, <2>6, <3>1
  <2>11. QED
    BY <2>3, <2>4, <2>9, <2>10 DEF DueInOrder, Timed, Pending
<1>5. CASE ProcessReadReadies
  <2>1. PICK h \in Seq(FdEvents) : pending_list' = pending_list \o h
    BY <1>5, ReadiesAppendNoTimer
  <2>2. UNCHANGED <<timer_list, timeout, now>>
    BY <1>5 DEF ProcessReadReadies, timers, env
  <2> DEFINE m == Len(pending_list)
             n == Len(h)
  <2>3. /\ m \in Nat /\ n \in Nat /\ Len(pending_list') = m + n
        /\ \A i \in 1..(m + n) : pending_list'[i] = IF i <= m THEN pending_list[i] ELSE h[i - m]
        /\ \A i \in 1..n : h[i] \in FdEvents
        /\ DOMAIN pending_list' = 1..(m + n)
    <3>1. h \in Seq(Events)
      BY SeqMonotonic DEF Events
    <3>2. pending_list' \in Seq(Events) /\ Len(pending_list') = m + n
          /\ \A i \in 1..(m + n) : pending_list'[i] = IF i <= m THEN pending_list[i] ELSE h[i - m]
      BY <1>1, <2>1, <3>1, ConcatProperties
    <3>3. QED
      BY <3>2, LenProperties, ElementOfSeq
  <2> HIDE DEF m, n
  <2>4. \A i \in 1..(m + n) : pending_list'[i] \in Timers =>
           i \in 1..m /\ pending_list'[i] = pending_list[i]
    <3> TAKE i \in 1..(m + n)
    <3>1. CASE i <= m
      BY <2>3, <3>1
    <3>2. CASE i > m
      <4>1. i - m \in 1..n
        BY <2>3, <3>2
      <4>2. QED
        BY <2>3, <3>2, <4>1, EventAssumption
    <3>3. QED
      BY <2>3, <3>1, <3>2
  <2>5. Pending' \cap Timers \subseteq Pending
    BY <1>1, <2>3, <2>4 DEF Pending, Range, m
  <2>6. \A i, j \in 1..(m + n) :
           i < j /\ pending_list'[i] \in Timers /\ pending_list'[j] \in Timers
              => timeout[pending_list'[i]] <= timeout[pending_list'[j]]
    BY <2>4 DEF DueInOrder, m
  <2>7. QED
    BY <2>2, <2>3, <2>5, <2>6 DEF DueInOrder, Timed
<1>6. CASE FirePending
  <2>1. /\ pending_list # <<>> /\ pending_list' = Tail(pending_list)
        /\ UNCHANGED <<timer_list, timeout, now>>
    BY <1>6 DEF FirePending, timers, env
  <2> DEFINE n == Len(pending_list)
  <2>2. /\ Len(pending_list') = n - 1 /\ n \in Nat \ {0}
        /\ \A i \in 1..(n - 1) : pending_list'[i] = pending_list[i + 1]
    BY <1>1, <2>1, HeadTailProperties, EmptySeq
  <2>3. Pending' \subseteq Pending
    BY <1>1, <2>1, TailInjective DEF LinkedOnce, Pending
  <2> HIDE DEF n
  <2>4. \A i, j \in 1..(n - 1) : i < j => i + 1 \in 1..n /\ j + 1 \in 1..n /\ i + 1 < j + 1
    BY <2>2
  <2>5. \A i, j \in 1..(n - 1) :
           i < j /\ pending_list'[i] \in Timers /\ pending_list'[j] \in Timers
              => timeout[pending_list'[i]] <= timeout[pending_list'[j]]
    BY <2>2, <2>4 DEF DueInOrder, n
  <2>6. QED
    BY <2>1, <2>2, <2>3, <2>5 DEF DueInOrder, Timed
<1>7. ASSUME NEW tm \in Timers, NEW d \in 0..MaxDelay, Idle(tm), TimerAdd(tm, d),
             UNCHANGED <<pending_list, now>>
      PROVE  DueInOrder'
  <2>1. /\ Timed' = Timed \cup {tm} /\ \A x \in Timed : timeout'[x] = timeout[x]
    BY <1>1, <1>7, TimerAddEffect DEF LinkedOnce, Idle
  <2>2. timeout' = [timeout EXCEPT ![tm] = now + d] /\ now + d >= now /\ now + d \in Nat
    BY <1>1, <1>7, EventAssumption DEF TimerAdd
  <2>3. tm \notin Pending /\ Pending' = Pending
    BY <1>7 DEF Idle, Pending
  <2>4. \A x \in Pending \cap Timers : timeout'[x] = timeout[x]
    BY <1>1, <2>2, <2>3
  <2>5. timeout'[tm] = now + d
    BY <1>1, <2>2
  <2>6. \A x \in Pending \cap Timers : timeout[x] < now /\ timeout[x] <= now + d
    BY <1>1, <2>2 DEF DueInOrder
  <2>7. \A x \in Pending \cap Timers :
           timeout'[x] < now /\ \A o \in Timed' : timeout'[x] <= timeout'[o]
    BY <2>1, <2>4, <2>5, <2>6 DEF DueInOrder
  <2>8. QED
    BY <1>1, <1>7, <2>3, <2>4, <2>7 DEF DueInOrder
<1>8. CASE WakeupCallback \/ CallbackReturn
  <2>1. UNCHANGED <<timer_list, pending_list, now>>
        /\ \A tm \in Timers : tm # running => timeout'[tm] = timeout[tm]
    BY <1>8 DEF WakeupCallback, CallbackReturn, timers, env
  <2>2. \A tm \in Timed \cup (Pending \cap Timers) : timeout'[tm] = timeout[tm]
    BY <1>1, <2>1 DEF LinkedOnce
  <2>3. QED
    BY <1>1, <1>2, <2>1, <2>2
<1>9. CASE \/ CreatePipe \/ RegisterWakeup \/ CopyFds \/ CalcNextTimeout \/ SelectReturn
           \/ SelectInterrupted \/ FireDone \/ CallbackEventDel
           \/ \E e \in FdEvents, f \in FreeFds : CallbackEventAdd(e, f)
  <2>1. UNCHANGED <<timer_list, timeout, pending_list, now>>
    BY <1>9 DEF CreatePipe, RegisterWakeup, CopyFds, CalcNextTimeout, SelectReturn,
                SelectInterrupted, FireDone, CallbackEventDel, CallbackEventAdd, timers, env
  <2>2. QED
    BY <1>1, <1>2, <2>1
<1>10. ASSUME \/ \E t \in Threads : TriggerEvLoop(t)
              \/ \E t \in Threads, e \in FdEvents, f \in FreeFds : ThreadEventAdd(t, e, f)
              \/ \E e \in FdEvents : InputArrives(e)
              \/ Tick
              \/ UNCHANGED vars
       PROVE  DueInOrder'
  <2>1. UNCHANGED <<timer_list, timeout, pending_list>> /\ now' \in {now, now + 1}
    BY <1>10 DEF TriggerEvLoop, ThreadEventAdd, InputArrives, Tick, vars, timers, env
  <2>2. now' \in Nat /\ now' >= now
    BY <1>1, <2>1
  <2>3. QED
    BY <1>2, <2>1, <2>2
<1>11. ASSUME NEW tm \in Timers, NEW d \in 0..MaxDelay,
              CallbackTimerAdd(tm, d) \/ \E t \in Threads : ThreadTimerAdd(t, tm, d)
       PROVE  DueInOrder'
  BY <1>7, <1>11 DEF CallbackTimerAdd, ThreadTimerAdd, env
<1>12. QED
  BY <1>4, <1>5, <1>6, <1>8, <1>9, <1>10, <1>11 DEF Next, LoopStep

\* A callback that starts is the earliest timer's, and that one is due.
LEMMA FireStep ==
    ASSUME IInv, DueInOrder, [Next]_vars,
           NEW tm \in Timers, running' = tm, running # tm
    PROVE  timeout[tm] < now /\ \A o \in (Timed \cup Pending) \cap Timers : timeout[tm] <= timeout[o]
<1>1. tm # NULL
  BY EventAssumption
<1>2. FirePending
  BY <1>1 DEF Next, LoopStep, CreatePipe, RegisterWakeup, CopyFds, CalcNextTimeout, SelectReturn,
         SelectInterrupted, ProcessTimeouts, ProcessReadReadies, FireDone, WakeupCallback,
         CallbackEventDel, CallbackReturn, CallbackEventAdd, CallbackTimerAdd, ThreadEventAdd,
         ThreadTimerAdd, TriggerEvLoop, InputArrives, Tick, vars, loop
<1>3. /\ pending_list \in Seq(Events) /\ pending_list # <<>> /\ tm = Head(pending_list)
      /\ timeout \in [Timers -> Nat]
  BY <1>2 DEF FirePending, IInv, TypeOK
<1>4. /\ Len(pending_list) \in Nat \ {0} /\ DOMAIN pending_list = 1..Len(pending_list)
      /\ tm = pending_list[1]
  BY <1>3, HeadTailProperties, LenProperties, EmptySeq
<1>5. tm \in Pending
  BY <1>4 DEF Pending, Range
<1>6. ASSUME NEW o \in Pending \cap Timers PROVE timeout[tm] <= timeout[o]
  <2>1. PICK j \in 1..Len(pending_list) : o = pending_list[j]
    BY <1>4, <1>6 DEF Pending, Range
  <2>2. CASE j = 1
    BY <1>3, <1>4, <2>1, <2>2
  <2>3. CASE j # 1
    <3>1. 1 \in 1..Len(pending_list) /\ 1 < j
      BY <1>4, <2>3
    <3>2. QED
      BY <1>4, <1>6, <2>1, <3>1 DEF DueInOrder
  <2>4. QED
    BY <2>2, <2>3
<1>7. QED
  BY <1>5, <1>6 DEF DueInOrder

\* A timer's callback starts strictly after its time-out and in the order of the
\* time-outs, however many timers the callbacks and the other threads add.
THEOREM TimersFireInOrder == Spec => FireInDeadlineOrder
<1>1. Init => DueInOrder
  BY DEF Init, DueInOrder, Pending, Range
<1>2. Spec => [](IInv /\ DueInOrder)
  <2>1. IInv /\ DueInOrder /\ [Next]_vars => (IInv /\ DueInOrder)'
    BY DueStep, TypeStep, TableStep, ListStep, WakeStep DEF IInv
  <2>2. QED
    BY <1>1, <2>1, InitIInv, PTL DEF Spec
<1>3. IInv /\ DueInOrder /\ [Next]_vars =>
         [\A tm \in Timers : running' = tm /\ running # tm =>
             /\ timeout[tm] < now
             /\ \A o \in (Timed \cup Pending) \cap Timers : timeout[tm] <= timeout[o]]_vars
  BY FireStep
<1>4. QED
  BY <1>2, <1>3, PTL DEF Spec, FireInDeadlineOrder

=============================================================================
