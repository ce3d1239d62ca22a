---------------------------- MODULE RilParcelProofs ----------------------------
(***************************************************************************)
(* Proofs about parcels of any length: what reading them in structures,    *)
(* arrays and rows hands over, that it is what was written, and that a     *)
(* parcel cut short hands over what the whole one does, or less.           *)
(***************************************************************************)
EXTENDS RilDispatch, RilResponse, SequenceTheorems, WellFoundedInduction, TLAPS

-----------------------------------------------------------------------------
(* Induction.  The library's induction theorems are about an operator P,   *)
(* this one about a set, which the provers can instantiate.                *)

\* A set of numbers that has 0 and with each number the next has them all.
LEMMA SetInduction ==
    ASSUME NEW T, T \subseteq Nat, 0 \in T, \A n \in T : n + 1 \in T
    PROVE  T = Nat
<1> DEFINE rest == Nat \ T
           less == OpToRel(<, Nat)
<1> SUFFICES ASSUME rest # {} PROVE FALSE
  OBVIOUS
<1>1. IsWellFoundedOn(less, Nat)
  BY NatLessThanWellFounded
<1>2. \A k, m \in Nat : k < m => <<k, m>> \in less
  BY DEF OpToRel
<1> HIDE DEF less
<1>3. PICK m \in rest : \A k \in rest : <<k, m>> \notin less
  <2> HIDE DEF rest
  <2>1. rest \subseteq Nat
    BY DEF rest
  <2> QED
    BY <1>1, <2>1, WFMin
<1>4. m \in Nat /\ m # 0 /\ m \notin T
  OBVIOUS
<1> DEFINE k == m - 1
<1>5. k \in Nat /\ k < m /\ (k \in T => m \in T)
  BY <1>4
<1> HIDE DEF k
<1>6. k \notin T /\ k \in rest
  BY <1>4, <1>5
<1> QED
  BY <1>2, <1>3, <1>4, <1>5, <1>6, Zenon

\* The same up to a bound.
LEMMA BoundedInduction ==
    ASSUME NEW n \in Nat, NEW T, 0 \in T, \A i \in 0..(n - 1) : i \in T => i + 1 \in T
    PROVE  0..n \subseteq T
<1> DEFINE U == {i \in Nat : i \in T \/ i > n}
<1>1. 0 \in U /\ U \subseteq Nat
  OBVIOUS
<1>2. ASSUME NEW i \in U PROVE i + 1 \in U
  <2>1. CASE i >= n
    BY <2>1
  <2>2. CASE i < n
    BY <2>2
  <2> QED
    BY <2>1, <2>2
<1> HIDE DEF U
<1>3. U = Nat
  BY <1>1, <1>2, SetInduction
<1> QED
  BY <1>3 DEF U

-----------------------------------------------------------------------------
(* One read                                                                *)

\* A parcel is a record of these fields.
IsParcel(p) ==
    /\ DOMAIN p = {"words", "pos", "ok", "args", "cut"}
    /\ p = [field \in DOMAIN p |-> p[field]]

At(p, pos, ok, args, cut) ==
    [words |-> p.words, pos |-> pos, ok |-> ok, args |-> args, cut |-> cut]

LEMMA Fields ==
    ASSUME NEW p, NEW pos, NEW ok, NEW args, NEW cut
    PROVE  LET q == At(p, pos, ok, args, cut) IN
           /\ IsParcel(q) /\ q.words = p.words /\ q.pos = pos /\ q.ok = ok
           /\ q.args = args /\ q.cut = cut
  BY DEF At, IsParcel

LEMMA Itself ==
    ASSUME NEW p, IsParcel(p)
    PROVE  p = At(p, p.pos, p.ok, p.args, p.cut)
  BY DEF At, IsParcel

\* What the updates of the model make of a parcel.
LEMMA Updates ==
    ASSUME NEW p, IsParcel(p), NEW pos, NEW ok, NEW args, NEW cut, NEW f
    PROVE  /\ Store(p, f, args) = At(p, p.pos, p.ok, Put(p.args, f, args), p.cut)
           /\ [p EXCEPT !.args = args] = At(p, p.pos, p.ok, args, p.cut)
           /\ [p EXCEPT !.pos = pos] = At(p, pos, p.ok, p.args, p.cut)
           /\ [p EXCEPT !.ok = ok] = At(p, p.pos, ok, p.args, p.cut)
           /\ [p EXCEPT !.cut = cut] = At(p, p.pos, p.ok, p.args, cut)
           /\ [p EXCEPT !.pos = pos, !.ok = ok] = At(p, pos, ok, p.args, p.cut)
<1>1. DOMAIN p = {"words", "pos", "ok", "args", "cut"}
  BY DEF IsParcel
<1>2. Store(p, f, args) = At(p, p.pos, p.ok, Put(p.args, f, args), p.cut)
  BY <1>1 DEF Store, At
<1>3. [p EXCEPT !.args = args] = At(p, p.pos, p.ok, args, p.cut)
  BY <1>1 DEF At
<1>4. [p EXCEPT !.pos = pos] = At(p, pos, p.ok, p.args, p.cut)
  BY <1>1 DEF At
<1>5. [p EXCEPT !.ok = ok] = At(p, p.pos, ok, p.args, p.cut)
  BY <1>1 DEF At
<1>6. [p EXCEPT !.cut = cut] = At(p, p.pos, p.ok, p.args, cut)
  BY <1>1 DEF At
<1>7. [p EXCEPT !.pos = pos, !.ok = ok] = At(p, pos, ok, p.args, p.cut)
  <2>1. [p EXCEPT !.pos = pos, !.ok = ok] =
            [i \in {"words", "pos", "ok", "args", "cut"} |->
                IF i = "ok" THEN ok ELSE IF i = "pos" THEN pos ELSE p[i]]
    BY <1>1
  <2> QED
    BY <2>1 DEF At
<1> QED
  BY <1>2, <1>3, <1>4, <1>5, <1>6, <1>7, Zenon

LEMMA StoreAt ==
    ASSUME NEW p, NEW pos, NEW ok, NEW args, NEW cut, NEW f, NEW v
    PROVE  Store(At(p, pos, ok, args, cut), f, v) = At(p, pos, ok, Put(args, f, v), cut)
  BY DEF At, Store

LEMMA IntIs ==
    ASSUME NEW p, IsParcel(p), NEW f
    PROVE  readInt32(p, f) =
               IF dataAvail(p) > 0
               THEN At(p, p.pos + 1, TRUE, Put(p.args, f, p.words[p.pos + 1]), p.cut)
               ELSE At(p, p.pos, FALSE, Put(p.args, f, Unread), p.cut)
<1> DEFINE good == TRUE  bad == FALSE  v == p.words[p.pos + 1]  next == p.pos + 1
<1>1. readInt32(p, f) = IF dataAvail(p) > 0
                        THEN Store([p EXCEPT !.pos = next, !.ok = good], f, v)
                        ELSE Store([p EXCEPT !.ok = bad], f, Unread)
  BY Zenon DEF readInt32
<1> HIDE DEF good, bad, v, next
<1>2. /\ [p EXCEPT !.pos = next, !.ok = good] = At(p, next, good, p.args, p.cut)
      /\ [p EXCEPT !.ok = bad] = At(p, p.pos, bad, p.args, p.cut)
  BY Updates
<1>3. /\ Store(At(p, next, good, p.args, p.cut), f, v)
             = At(p, next, good, Put(p.args, f, v), p.cut)
      /\ Store(At(p, p.pos, bad, p.args, p.cut), f, Unread)
             = At(p, p.pos, bad, Put(p.args, f, Unread), p.cut)
  BY StoreAt
<1> QED
  BY <1>1, <1>2, <1>3, Zenon DEF good, bad, v, next

LEMMA ByteIs ==
    ASSUME NEW p, IsParcel(p), NEW f
    PROVE  readByte(p, f) =
               IF dataAvail(p) > 0
               THEN At(p, p.pos + 1, TRUE, Put(p.args, f, p.words[p.pos + 1] % 256), p.cut)
               ELSE At(p, p.pos, FALSE, Put(p.args, f, Unread), p.cut)
<1> DEFINE q == readInt32(p, f)
           v == p.words[p.pos + 1]
<1>1. CASE dataAvail(p) > 0
  <2>1. q = At(p, p.pos + 1, TRUE, Put(p.args, f, v), p.cut)
    BY <1>1, IntIs, Zenon
  <2>2. q.ok = TRUE /\ q.args[f] = v
    BY <2>1 DEF At, Put
  <2>3. readByte(p, f) = Store(q, f, v % 256)
    BY <2>2 DEF readByte
  <2>4. \A u : Put(Put(p.args, f, v), f, u) = Put(p.args, f, u)
    BY DEF Put
  <2> HIDE DEF v
  <2> DEFINE u == v % 256  good == TRUE
  <2>6. readByte(p, f) = Store(At(p, p.pos + 1, good, Put(p.args, f, v), p.cut), f, u)
    BY <2>1, <2>3, Zenon
  <2> HIDE DEF u, good
  <2>5. Store(At(p, p.pos + 1, good, Put(p.args, f, v), p.cut), f, u)
            = At(p, p.pos + 1, good, Put(Put(p.args, f, v), f, u), p.cut)
    BY StoreAt
  <2>7. readByte(p, f) = At(p, p.pos + 1, good, Put(p.args, f, u), p.cut)
    BY <2>4, <2>5, <2>6
  <2> QED
    BY <1>1, <2>7, Zenon DEF u, v, good
<1>2. CASE ~(dataAvail(p) > 0)
  <2>1. q = At(p, p.pos, FALSE, Put(p.args, f, Unread), p.cut)
    BY <1>2, IntIs, Zenon
  <2>2. q.ok = FALSE
    BY <2>1 DEF At
  <2> QED
    BY <1>2, <2>1, <2>2 DEF readByte
<1> QED
  BY <1>1, <1>2

LEMMA BlockIs ==
    ASSUME NEW p, IsParcel(p), NEW f, NEW len
    PROVE  readInplace(p, f, len) =
               IF len \in 0..dataAvail(p)
               THEN At(p, p.pos + len, p.ok,
                       Put(p.args, f, SubSeq(p.words, p.pos + 1, p.pos + len)), p.cut)
               ELSE At(p, p.pos, p.ok, Put(p.args, f, NULL), p.cut)
<1> DEFINE next == p.pos + len  v == SubSeq(p.words, p.pos + 1, p.pos + len)
<1>1. readInplace(p, f, len) = IF len \in 0..dataAvail(p)
                               THEN Store([p EXCEPT !.pos = next], f, v)
                               ELSE Store(p, f, NULL)
  BY Zenon DEF readInplace
<1> HIDE DEF next, v
<1>2. /\ [p EXCEPT !.pos = next] = At(p, next, p.ok, p.args, p.cut)
      /\ Store(p, f, NULL) = At(p, p.pos, p.ok, Put(p.args, f, NULL), p.cut)
  BY Updates, ZenonT(60)
<1>3. Store(At(p, next, p.ok, p.args, p.cut), f, v)
          = At(p, next, p.ok, Put(p.args, f, v), p.cut)
  BY StoreAt
<1> QED
  BY <1>1, <1>2, <1>3, Zenon DEF next, v

\* What is put twice is put the second time.
LEMMA PutTwice ==
    ASSUME NEW args, NEW f, NEW u, NEW v
    PROVE  Put(Put(args, f, u), f, v) = Put(args, f, v)
  BY DEF Put

\* A parcel in which something was read, with a position in it; once a number was
\* missing there is nothing left.
Sound(p) ==
    /\ IsParcel(p)
    /\ p.words \in Seq(Int) /\ p.pos \in 0..Len(p.words)
    /\ p.ok \in BOOLEAN /\ p.cut \in BOOLEAN
    /\ p.ok = FALSE => p.pos = Len(p.words)

\* A string is missing, NULL, there, or cut.
LEMMA StringIs ==
    ASSUME NEW p, Sound(p), NEW f
    PROVE  LET len == p.words[p.pos + 1]
               is(pos, v, cut) ==
                   strdupReadString(p, f) = At(p, pos, p.ok, Put(p.args, f, v), cut)
           IN  /\ p.pos = Len(p.words) => is(p.pos, NULL, p.cut)
               /\ p.pos < Len(p.words) =>
                      /\ len < 0 => is(p.pos + 1, NULL, p.cut)
                      /\ len >= 0 /\ p.pos + 1 + len <= Len(p.words) =>
                             is(p.pos + 1 + len, SubSeq(p.words, p.pos + 2, p.pos + 1 + len), p.cut)
                      /\ p.pos + 1 + len > Len(p.words) => is(p.pos + 1, NULL, TRUE)
<1> DEFINE len == p.words[p.pos + 1]
           first == readInt32(p, f)
           second == [first EXCEPT !.ok = p.ok]
           third == readInplace(second, f, first.args[f])
           read == strdupReadString(p, f)
<1>1. /\ IsParcel(p) /\ p.pos \in Nat /\ Len(p.words) \in Nat /\ p.pos <= Len(p.words)
      /\ p.cut \in BOOLEAN
  BY DEF Sound
<1>2. read = IF first.args[f] = Unread \/ first.args[f] < 0 THEN Store(second, f, NULL)
             ELSE [third EXCEPT !.cut = @ \/ first.args[f] > dataAvail(second)]
  BY Zenon DEF strdupReadString
<1>3. \A u : Put(p.args, f, u)[f] = u
  BY DEF Put
<1>4. CASE p.pos = Len(p.words)
  <2>1. ~(dataAvail(p) > 0)
    BY <1>1, <1>4 DEF dataAvail
  <2>2. first = At(p, p.pos, FALSE, Put(p.args, f, Unread), p.cut)
    BY <1>1, <2>1, IntIs, Zenon
  <2>3. first.args[f] = Unread /\ second = At(p, p.pos, p.ok, Put(p.args, f, Unread), p.cut)
    BY <1>3, <2>2 DEF At
  <2>4. read = Store(second, f, NULL)
    BY <1>2, <2>3, Zenon
  <2>5. read = At(p, p.pos, p.ok, Put(Put(p.args, f, Unread), f, NULL), p.cut)
    BY <2>3, <2>4, StoreAt
  <2>6. read = At(p, p.pos, p.ok, Put(p.args, f, NULL), p.cut)
    <3>1. Put(Put(p.args, f, Unread), f, NULL) = Put(p.args, f, NULL)
      BY PutTwice
    <3> QED
      BY <2>5, <3>1, Zenon
  <2>7. ~(p.pos < Len(p.words))
    BY <1>1, <1>4
  <2> QED
    BY <2>6, <2>7, Zenon
<1>5. CASE p.pos < Len(p.words)
  <2>1. dataAvail(p) > 0
    BY <1>1, <1>5 DEF dataAvail
  <2>2. first = At(p, p.pos + 1, TRUE, Put(p.args, f, len), p.cut)
    BY <1>1, <2>1, IntIs, Zenon
  <2>3. len \in Int /\ len # Unread
    <3>1. p.pos + 1 \in 1..Len(p.words) /\ p.words \in Seq(Int)
      BY <1>1, <1>5 DEF Sound
    <3> QED
      BY <3>1, ElementOfSeq, ParcelAssumption
  <2> DEFINE next == p.pos + 1
  <2> HIDE DEF len
  <2>4. first.args[f] = len /\ second = At(p, next, p.ok, Put(p.args, f, len), p.cut)
    BY <1>3, <2>2 DEF At
  <2> HIDE DEF first, second, next
  <2>5. /\ IsParcel(second) /\ second.words = p.words /\ second.pos = next
        /\ second.ok = p.ok /\ second.args = Put(p.args, f, len) /\ second.cut = p.cut
    BY <2>4 DEF At, IsParcel
  <2>6. /\ \A v : Put(Put(p.args, f, len), f, v) = Put(p.args, f, v)
        /\ \A n, ok, args, cut : At(second, n, ok, args, cut) = At(p, n, ok, args, cut)
    BY <2>5, PutTwice DEF At
  <2>7. dataAvail(second) = Len(p.words) - next
    BY <2>5 DEF dataAvail
  <2>8. ASSUME len < 0
        PROVE  read = At(p, next, p.ok, Put(p.args, f, NULL), p.cut)
    <3>1. read = Store(second, f, NULL)
      BY <1>2, <2>4, <2>8, Zenon
    <3>2. Store(second, f, NULL)
              = At(p, next, p.ok, Put(Put(p.args, f, len), f, NULL), p.cut)
      BY <2>4, StoreAt
    <3> QED
      BY <2>6, <3>1, <3>2
  <2>9. ASSUME len >= 0
        PROVE  read = [third EXCEPT !.cut = @ \/ len > dataAvail(second)]
    <3>1. ~(len < 0)
      BY <2>3, <2>9
    <3> QED
      BY <1>2, <2>3, <2>4, <3>1, Zenon
  <2>10. ASSUME len >= 0, next + len <= Len(p.words)
         PROVE  read = At(p, next + len, p.ok,
                          Put(p.args, f, SubSeq(p.words, next + 1, next + len)), p.cut)
    <3>1. len \in 0..dataAvail(second) /\ ~(len > dataAvail(second))
      BY <1>1, <2>3, <2>7, <2>10 DEF next
    <3> DEFINE v == SubSeq(second.words, second.pos + 1, second.pos + len)
               w == SubSeq(p.words, next + 1, next + len)
    <3>2. third = At(second, second.pos + len, second.ok, Put(second.args, f, v), second.cut)
      BY <2>4, <2>5, <3>1, BlockIs, ZenonT(60)
    <3>3. v = w /\ second.pos + len = next + len
      BY <2>5
    <3> HIDE DEF v, w
    <3>4. third = At(p, next + len, p.ok, Put(p.args, f, w), p.cut)
      BY <2>5, <2>6, <3>2, <3>3
    <3> HIDE DEF third
    <3>5. IsParcel(third) /\ third.cut = p.cut
      BY <3>4, Fields
    <3>6. (third.cut \/ len > dataAvail(second)) = p.cut
      BY <1>1, <3>1, <3>5
    <3>7. [third EXCEPT !.cut = @ \/ len > dataAvail(second)] = [third EXCEPT !.cut = p.cut]
      BY <3>6, Zenon
    <3>8. [third EXCEPT !.cut = p.cut] = At(p, next + len, p.ok, Put(p.args, f, w), p.cut)
      BY <3>4 DEF At
    <3> QED
      BY <2>9, <2>10, <3>7, <3>8, Zenon DEF w
  <2>11. ASSUME next + len > Len(p.words)
         PROVE  read = At(p, next, p.ok, Put(p.args, f, NULL), TRUE)
    <3>1. len \notin 0..dataAvail(second) /\ len > dataAvail(second) /\ len >= 0
      BY <1>1, <1>5, <2>3, <2>7, <2>11 DEF next
    <3>2. third = At(second, second.pos, second.ok, Put(second.args, f, NULL), second.cut)
      BY <2>4, <2>5, <3>1, BlockIs, Zenon
    <3>4. third = At(p, next, p.ok, Put(p.args, f, NULL), p.cut)
      BY <2>5, <2>6, <3>2
    <3> HIDE DEF third
    <3> DEFINE yes == TRUE
    <3>6. [third EXCEPT !.cut = @ \/ len > dataAvail(second)] = [third EXCEPT !.cut = yes]
      BY <3>1, Zenon
    <3> HIDE DEF yes
    <3>8. [third EXCEPT !.cut = yes] = At(p, next, p.ok, Put(p.args, f, NULL), yes)
      BY <3>4 DEF At
    <3> QED
      BY <2>9, <3>1, <3>6, <3>8, Zenon DEF yes
  <2>12. next + 1 = p.pos + 2 /\ next + len = p.pos + 1 + len /\ next = p.pos + 1
    BY <1>1, <2>3 DEF next
  <2>13. p.pos # Len(p.words)
    BY <1>1, <1>5
  <2> HIDE DEF read
  <2>14. /\ len < 0 => read = At(p, p.pos + 1, p.ok, Put(p.args, f, NULL), p.cut)
         /\ len >= 0 /\ p.pos + 1 + len <= Len(p.words) =>
                read = At(p, p.pos + 1 + len, p.ok,
                          Put(p.args, f, SubSeq(p.words, p.pos + 2, p.pos + 1 + len)), p.cut)
         /\ p.pos + 1 + len > Len(p.words) =>
                read = At(p, p.pos + 1, p.ok, Put(p.args, f, NULL), TRUE)
    BY <2>8, <2>10, <2>11, <2>12
  <2> QED
    BY <2>13, <2>14, Zenon DEF len, read
<1> QED
  BY <1>1, <1>4, <1>5

\* What a read that did not fail may put down.
Values(kind) == IF kind = "str" THEN Texts ELSE Int
Kinds == {"int", "byte", "str"}

\* From p to q something was read as f: if no number was missing at the end, none was
\* before, and f is a value of S.
Took(p, q, f, S) ==
    /\ Sound(q) /\ q.words = p.words
    /\ q.ok = TRUE => p.ok = TRUE
    /\ \E v : q.args = Put(p.args, f, v) /\ (q.ok = TRUE => v \in S)

LEMMA TookAt ==
    ASSUME NEW p, Sound(p), NEW pos \in p.pos..Len(p.words), NEW ok \in BOOLEAN,
           ok = TRUE => p.ok = TRUE, ok = FALSE => pos = Len(p.words),
           NEW f, NEW v, NEW S, ok = TRUE => v \in S, NEW cut \in BOOLEAN
    PROVE  Took(p, At(p, pos, ok, Put(p.args, f, v), cut), f, S)
<1> DEFINE q == At(p, pos, ok, Put(p.args, f, v), cut)
<1>1. /\ IsParcel(q) /\ q.words = p.words /\ q.pos = pos /\ q.ok = ok
      /\ q.args = Put(p.args, f, v) /\ q.cut = cut
  BY DEF At, IsParcel
<1> HIDE DEF q
<1>2. pos \in 0..Len(p.words) /\ p.words \in Seq(Int)
  BY DEF Sound
<1>3. Sound(q)
  BY <1>1, <1>2 DEF Sound
<1>4. Took(p, q, f, S)
  BY <1>1, <1>3 DEF Took
<1> QED
  BY <1>4 DEF q

LEMMA TookKeeping ==
    ASSUME NEW p, Sound(p), NEW pos \in p.pos..Len(p.words), p.pos < Len(p.words) \/ pos = p.pos,
           NEW f, NEW S, NEW v \in S, NEW cut \in BOOLEAN
    PROVE  Took(p, At(p, pos, p.ok, Put(p.args, f, v), cut), f, S)
<1>1. p.pos \in 0..Len(p.words) /\ p.ok \in BOOLEAN /\ (p.ok = FALSE => p.pos = Len(p.words))
  BY DEF Sound
<1>2. p.ok = FALSE => pos = Len(p.words)
  BY <1>1
<1> DEFINE ok == p.ok
<1>3. ok \in BOOLEAN /\ (ok = TRUE => p.ok = TRUE) /\ (ok = FALSE => pos = Len(p.words))
  BY <1>1, <1>2
<1> HIDE DEF ok
<1>4. Took(p, At(p, pos, ok, Put(p.args, f, v), cut), f, S)
  BY <1>3, TookAt
<1> QED
  BY <1>4 DEF ok

\* One read, of any kind.
LEMMA OneRead ==
    ASSUME NEW p, Sound(p), NEW f, NEW kind \in Kinds
    PROVE  Took(p, Read(p, <<f, kind>>), f, Values(kind))
<1> DEFINE end == Len(p.words)
           w == p.words[p.pos + 1]
<1>1. /\ IsParcel(p) /\ p.words \in Seq(Int) /\ p.pos \in Nat /\ end \in Nat /\ p.pos <= end
      /\ p.ok \in BOOLEAN /\ p.cut \in BOOLEAN /\ (p.ok = FALSE => p.pos = end)
  BY DEF Sound
<1>2. p.pos < end => w \in Int /\ dataAvail(p) > 0 /\ p.pos + 1 \in p.pos..end /\ p.ok = TRUE
  <2>1. p.pos < end => p.pos + 1 \in 1..end
    BY <1>1
  <2> QED
    BY <1>1, <2>1, ElementOfSeq DEF dataAvail
<1>3. p.pos = end => ~(dataAvail(p) > 0) /\ p.pos \in p.pos..end
  BY <1>1 DEF dataAvail
<1>4. p.pos < end \/ p.pos = end
  BY <1>1
<1> DEFINE good == TRUE  bad == FALSE
<1>5. good \in BOOLEAN /\ bad \in BOOLEAN /\ good = TRUE /\ bad = FALSE /\ good # FALSE /\ bad # TRUE
  OBVIOUS
<1>6. ASSUME NEW v, p.pos < end => v \in Int,
             NEW q, q = IF dataAvail(p) > 0 THEN At(p, p.pos + 1, good, Put(p.args, f, v), p.cut)
                        ELSE At(p, p.pos, bad, Put(p.args, f, Unread), p.cut)
      PROVE  Took(p, q, f, Int)
  <2> HIDE DEF good, bad, w
  <2>1. CASE p.pos < end
    <3>1. q = At(p, p.pos + 1, good, Put(p.args, f, v), p.cut)
      BY <1>2, <1>6, <2>1, Zenon
    <3> QED
      BY <1>1, <1>2, <1>5, <1>6, <2>1, <3>1, TookAt, ZenonT(60)
  <2>2. CASE p.pos = end
    <3>1. q = At(p, p.pos, bad, Put(p.args, f, Unread), p.cut)
      BY <1>3, <1>6, <2>2, Zenon
    <3> QED
      BY <1>1, <1>3, <1>5, <2>2, <3>1, TookAt
  <2> QED
    BY <1>4, <2>1, <2>2
<1>7. CASE kind = "int"
  <2>1. Read(p, <<f, kind>>) = readInt32(p, f)
    BY <1>7 DEF Read
  <2>2. Read(p, <<f, kind>>) = IF dataAvail(p) > 0
                               THEN At(p, p.pos + 1, good, Put(p.args, f, w), p.cut)
                               ELSE At(p, p.pos, bad, Put(p.args, f, Unread), p.cut)
    BY <1>1, <2>1, IntIs, Zenon
  <2>3. Took(p, Read(p, <<f, kind>>), f, Int)
    BY <1>2, <1>6, <2>2, Zenon
  <2> QED
    BY <1>7, <2>3 DEF Values
<1>8. CASE kind = "byte"
  <2>1. Read(p, <<f, kind>>) = readByte(p, f)
    BY <1>8 DEF Read
  <2> DEFINE b == w % 256
  <2>2. Read(p, <<f, kind>>) = IF dataAvail(p) > 0
                               THEN At(p, p.pos + 1, good, Put(p.args, f, b), p.cut)
                               ELSE At(p, p.pos, bad, Put(p.args, f, Unread), p.cut)
    BY <1>1, <2>1, ByteIs, ZenonT(60)
  <2>3. p.pos < end => b \in Int
    BY <1>2
  <2>4. Took(p, Read(p, <<f, kind>>), f, Int)
    BY <1>6, <2>2, <2>3, Zenon
  <2> QED
    BY <1>8, <2>4 DEF Values
<1>9. CASE kind = "str"
  <2> DEFINE q == Read(p, <<f, kind>>)
             there == p.pos + 1 + w
             v == SubSeq(p.words, p.pos + 2, p.pos + 1 + w)
             is(pos, u, cut) == q = At(p, pos, p.ok, Put(p.args, f, u), cut)
  <2>1. q = strdupReadString(p, f)
    BY <1>9 DEF Read
  <2>2. /\ p.pos = end => is(p.pos, NULL, p.cut)
        /\ p.pos < end => /\ w < 0 => is(p.pos + 1, NULL, p.cut)
                          /\ w >= 0 /\ there <= end => is(there, v, p.cut)
                          /\ there > end => is(p.pos + 1, NULL, good)
    BY <2>1, StringIs, Zenon
  <2> HIDE DEF q, good, bad
  <2>3. ASSUME p.pos = end PROVE Took(p, q, f, Texts)
    <3>1. q = At(p, p.pos, p.ok, Put(p.args, f, NULL), p.cut) /\ NULL \in Texts
      BY <2>2, <2>3 DEF Texts
    <3> QED
      BY <1>1, <1>3, <2>3, <3>1, TookKeeping
  <2>4. ASSUME p.pos < end /\ w < 0 PROVE Took(p, q, f, Texts)
    <3>1. q = At(p, p.pos + 1, p.ok, Put(p.args, f, NULL), p.cut) /\ NULL \in Texts
      BY <2>2, <2>4 DEF Texts
    <3> QED
      BY <1>1, <1>2, <2>4, <3>1, TookKeeping
  <2>5. ASSUME p.pos < end /\ w >= 0 /\ there <= end PROVE Took(p, q, f, Texts)
    <3>1. there \in p.pos..end
      BY <1>1, <1>2, <2>5, SMTT(60)
    <3>2. v \in Texts
      <4>1. \A i \in p.pos + 2..p.pos + 1 + w : i \in 1..end
        BY <1>1, <1>2, <2>5, SMTT(60)
      <4>2. \A i \in p.pos + 2..p.pos + 1 + w : p.words[i] \in Int
        BY <1>1, <4>1, ElementOfSeq
      <4>3. p.pos + 2 \in Int /\ p.pos + 1 + w \in Int
        BY <1>1, <1>2, <2>5, SMTT(60)
      <4>4. v \in Seq(Int)
        BY <4>2, <4>3, SubSeqProperties
      <4> QED
        BY <4>4 DEF Texts
    <3>3. q = At(p, there, p.ok, Put(p.args, f, v), p.cut)
      BY <2>2, <2>5
    <3> HIDE DEF v, there, w
    <3> QED
      BY <1>1, <2>5, <3>1, <3>2, <3>3, TookKeeping
  <2>6. ASSUME p.pos < end /\ there > end PROVE Took(p, q, f, Texts)
    <3>1. q = At(p, p.pos + 1, p.ok, Put(p.args, f, NULL), good) /\ NULL \in Texts
      BY <2>2, <2>6 DEF Texts
    <3> QED
      BY <1>2, <1>5, <2>6, <3>1, TookKeeping
  <2>7. \/ p.pos = end \/ (p.pos < end /\ w < 0)
        \/ (p.pos < end /\ w >= 0 /\ there <= end) \/ (p.pos < end /\ there > end)
    BY <1>1, <1>2
  <2>8. Took(p, q, f, Texts)
    BY <2>3, <2>4, <2>5, <2>6, <2>7
  <2> QED
    BY <1>9, <2>8 DEF Values, q
<1> QED
  BY <1>7, <1>8, <1>9 DEF Kinds

\* A string leaves the status as it was.
LEMMA TextKeeps ==
    ASSUME NEW p, Sound(p), NEW f
    PROVE  Read(p, <<f, "str">>).ok = p.ok
<1> DEFINE q == Read(p, <<f, "str">>)
<1>1. q = strdupReadString(p, f)
  BY DEF Read
<1>2. p.pos \in Nat /\ Len(p.words) \in Nat /\ p.pos <= Len(p.words) /\ p.words \in Seq(Int)
  BY DEF Sound
<1>3. p.pos < Len(p.words) => p.words[p.pos + 1] \in Int
  <2>1. p.pos < Len(p.words) => p.pos + 1 \in 1..Len(p.words)
    BY <1>2
  <2> QED
    BY <1>2, <2>1, ElementOfSeq
<1> DEFINE w == p.words[p.pos + 1]
<1>4. \/ p.pos = Len(p.words) \/ (p.pos < Len(p.words) /\ w < 0)
      \/ (p.pos < Len(p.words) /\ w >= 0 /\ p.pos + 1 + w <= Len(p.words))
      \/ (p.pos < Len(p.words) /\ p.pos + 1 + w > Len(p.words))
  BY <1>2, <1>3
<1>5. \E pos, v, cut : q = At(p, pos, p.ok, Put(p.args, f, v), cut)
  BY <1>1, <1>4, StringIs, ZenonT(60)
<1> QED
  BY <1>5 DEF At

-----------------------------------------------------------------------------
(* Structures.  A recursive function is, to the provers, any function that *)
(* satisfies its equation; that there is one is proved by induction.       *)

\* A sequence of names with kinds.
IsLayout(layout) ==
    /\ Len(layout) \in Nat /\ DOMAIN layout = 1..Len(layout)
    /\ layout \in Seq({layout[i] : i \in 1..Len(layout)})
    /\ \A i \in 1..Len(layout) :
          layout[i] = <<layout[i][1], layout[i][2]>> /\ layout[i][2] \in Kinds

\* r goes through the layout's first n fields.
Run(r, p, layout, n) == r = [i \in 0..n |-> IF i = 0 THEN p ELSE Read(r[i - 1], layout[i])]

LEMMA RunExists ==
    ASSUME NEW p, NEW layout, NEW n \in Nat
    PROVE  \E r : Run(r, p, layout, n)
<1> DEFINE T == {k \in Nat : \E r : Run(r, p, layout, k)}
<1>1. 0 \in T
  <2>1. Run([i \in 0..0 |-> p], p, layout, 0)
    BY DEF Run
  <2> QED
    BY <2>1
<1>2. ASSUME NEW k \in T PROVE k + 1 \in T
  <2>1. PICK r : Run(r, p, layout, k)
    BY <1>2
  <2>2. k \in Nat
    OBVIOUS
  <2> DEFINE t == [i \in 0..(k + 1) |-> IF i = 0 THEN p ELSE Read(r[i - 1], layout[i])]
  <2>3. \A i \in 0..k : t[i] = r[i]
    BY <2>1, <2>2 DEF Run
  <2>4. Run(t, p, layout, k + 1)
    <3>1. \A i \in 0..(k + 1) : i # 0 => i - 1 \in 0..k
      BY <2>2
    <3>2. \A i \in 0..(k + 1) : i # 0 => r[i - 1] = t[i - 1]
      BY <2>3, <3>1
    <3> QED
      BY <2>2, <3>2 DEF Run
  <2> QED
    BY <2>2, <2>4
<1> HIDE DEF T
<1>3. T = Nat
  <2>1. T \subseteq Nat
    BY DEF T
  <2> QED
    BY <1>1, <1>2, <2>1, SetInduction
<1> QED
  BY <1>3 DEF T

\* ReadStruct reads field after field.
LEMMA StructRun ==
    ASSUME NEW p, NEW layout, Len(layout) \in Nat
    PROVE  \E r : /\ r[0] = p /\ ReadStruct(p, layout) = r[Len(layout)]
                  /\ \A i \in 1..Len(layout) : r[i] = Read(r[i - 1], layout[i])
<1> DEFINE r == CHOOSE r : Run(r, p, layout, Len(layout))
<1>1. Run(r, p, layout, Len(layout))
  BY RunExists, Zenon
<1>2. ReadStruct(p, layout) = r[Len(layout)]
  BY DEF ReadStruct, Run
<1> HIDE DEF r
<1>3. r[0] = p /\ \A i \in 1..Len(layout) : r[i] = Read(r[i - 1], layout[i])
  BY <1>1 DEF Run
<1> QED
  BY <1>2, <1>3

\* What a field holds: of a structure in a list, and of what a dispatch function
\* hands over.
TypeOf(T, f) ==
    IF T = "row" THEN Int
    ELSE IF f \in {"ints", "digits", "subdigits", "aBearerData"} THEN Seq(Int)
    ELSE IF f = "rows" THEN Rows(GsmBrLayout) \cup Rows(CdmaBrLayout)
    ELSE Int \cup Texts \cup Seq(Texts)

\* If no number was missing, every field has its type.
Typed(p, T) == p.ok = TRUE => \A f \in DOMAIN p.args : p.args[f] \in TypeOf(T, f)

\* A layout whose fields have the types of T.
Fits(layout, T) ==
    IsLayout(layout) /\ \A i \in 1..Len(layout) : Values(layout[i][2]) \subseteq TypeOf(T, layout[i][1])

IsMap(args) == args = [x \in DOMAIN args |-> args[x]]

\* One more field of the right type.
LEMMA TookTyped ==
    ASSUME NEW p, NEW q, NEW f, NEW S, NEW T, Took(p, q, f, S), S \subseteq TypeOf(T, f), Typed(p, T)
    PROVE  Typed(q, T) /\ DOMAIN q.args = DOMAIN p.args \cup {f} /\ IsMap(q.args)
<1>1. PICK v : q.args = Put(p.args, f, v) /\ (q.ok = TRUE => v \in S)
  BY DEF Took
<1>2. DOMAIN q.args = DOMAIN p.args \cup {f} /\ IsMap(q.args)
  BY <1>1 DEF Put, IsMap
<1>3. ASSUME q.ok = TRUE, NEW g \in DOMAIN q.args PROVE q.args[g] \in TypeOf(T, g)
  <2>1. p.ok = TRUE
    BY <1>3 DEF Took
  <2>2. CASE g = f
    BY <1>1, <1>3, <2>2 DEF Put
  <2>3. CASE g # f
    <3>1. q.args[g] = p.args[g] /\ g \in DOMAIN p.args
      BY <1>1, <1>2, <1>3, <2>3 DEF Put
    <3> QED
      BY <2>1, <3>1 DEF Typed
  <2> QED
    BY <2>2, <2>3
<1> QED
  BY <1>2, <1>3 DEF Typed

\* A structure is read from p to q: soundly, with every field, and the right types;
\* strings leave the status as it was.
WellRead(p, q, layout, T) ==
    /\ Sound(q) /\ q.words = p.words /\ (q.ok = TRUE => p.ok = TRUE) /\ Typed(q, T)
    /\ DOMAIN q.args = DOMAIN p.args \cup {layout[i][1] : i \in 1..Len(layout)}
    /\ IsMap(p.args) => IsMap(q.args)
    /\ (\A i \in 1..Len(layout) : layout[i][2] = "str") => q.ok = p.ok

\* So is it read, whatever is missing of it.
LEMMA StructTyped ==
    ASSUME NEW p, Sound(p), NEW layout, NEW T, Typed(p, T), Fits(layout, T)
    PROVE  WellRead(p, ReadStruct(p, layout), layout, T)
<1> DEFINE n == Len(layout)
<1>1. n \in Nat
  BY DEF Fits, IsLayout
<1>2. PICK r : /\ r[0] = p /\ ReadStruct(p, layout) = r[n]
               /\ \A i \in 1..n : r[i] = Read(r[i - 1], layout[i])
  BY <1>1, StructRun
<1> DEFINE names(i) == {layout[j][1] : j \in 1..i}
           good(i) == /\ Sound(r[i]) /\ r[i].words = p.words /\ (r[i].ok = TRUE => p.ok = TRUE)
                      /\ Typed(r[i], T) /\ DOMAIN r[i].args = DOMAIN p.args \cup names(i)
                      /\ (IsMap(p.args) => IsMap(r[i].args))
                      /\ ((\A j \in 1..n : layout[j][2] = "str") => r[i].ok = p.ok)
           U == {i \in 0..n : good(i)}
<1>3. 0 \in U
  BY <1>1, <1>2
<1>4. ASSUME NEW i \in 0..(n - 1), good(i) PROVE good(i + 1)
  <2> DEFINE f == layout[i + 1][1]  kind == layout[i + 1][2]
  <2>1. i + 1 \in 1..n /\ (i + 1) - 1 = i
    BY <1>1
  <2>2. layout[i + 1] = <<f, kind>> /\ kind \in Kinds
    BY <2>1 DEF Fits, IsLayout
  <2>3. r[i + 1] = Read(r[i], <<f, kind>>) /\ Values(kind) \subseteq TypeOf(T, f)
    BY <1>2, <2>1, <2>2 DEF Fits
  <2>4. names(i + 1) = names(i) \cup {f}
    BY <1>1, <2>1
  <2>7. (\A j \in 1..n : layout[j][2] = "str") => r[i + 1].ok = p.ok
    BY <1>4, <2>1, <2>3, TextKeeps
  <2> HIDE DEF f, kind, names
  <2>5. Took(r[i], r[i + 1], f, Values(kind))
    BY <1>4, <2>2, <2>3, OneRead
  <2>6. /\ Typed(r[i + 1], T) /\ DOMAIN r[i + 1].args = DOMAIN r[i].args \cup {f}
        /\ IsMap(r[i + 1].args)
    BY <1>4, <2>3, <2>5, TookTyped
  <2> QED
    BY <1>4, <2>4, <2>5, <2>6, <2>7 DEF Took
<1> HIDE DEF good
<1>5. 0..n \subseteq U
  <2>1. \A i \in 0..(n - 1) : i \in U => i + 1 \in U
    BY <1>1, <1>4
  <2> HIDE DEF U, n
  <2> QED
    BY <1>1, <1>3, <2>1, BoundedInduction
<1>6. good(n)
  BY <1>1, <1>5
<1> QED
  BY <1>2, <1>6 DEF good, WellRead

-----------------------------------------------------------------------------
(* Arrays, and structures in a row.  All that Repeat does is one of these. *)

One(q, how) ==
    CASE how[1] = "item" -> Read(q, <<"v", how[2]>>)
      [] how[1] = "row"  -> ReadStruct(q, how[2])
      [] how[1] = "call" -> ReadJavaCall(q)

OneMore(q, f, how) ==
    LET r == One([q EXCEPT !.args = <<>>], how)
    IN  Store([r EXCEPT !.args = q.args], f, Append(q.args[f], r.args))

Chain(r, p, f, how, n) ==
    r = [i \in 0..n |-> IF i = 0 THEN Store(p, f, <<>>) ELSE OneMore(r[i - 1], f, how)]

LEMMA ChainExists ==
    ASSUME NEW p, NEW f, NEW how, NEW n \in Nat
    PROVE  \E r : Chain(r, p, f, how, n)
<1> DEFINE T == {k \in Nat : \E r : Chain(r, p, f, how, k)}
<1>1. 0 \in T
  <2>1. Chain([i \in 0..0 |-> Store(p, f, <<>>)], p, f, how, 0)
    BY DEF Chain
  <2> QED
    BY <2>1
<1>2. ASSUME NEW k \in T PROVE k + 1 \in T
  <2>1. PICK r : Chain(r, p, f, how, k)
    BY <1>2
  <2>2. k \in Nat
    OBVIOUS
  <2> DEFINE t == [i \in 0..(k + 1) |->
                      IF i = 0 THEN Store(p, f, <<>>) ELSE OneMore(r[i - 1], f, how)]
  <2>3. \A i \in 0..k : t[i] = r[i]
    BY <2>1, <2>2 DEF Chain
  <2>4. Chain(t, p, f, how, k + 1)
    <3>1. \A i \in 0..(k + 1) : i # 0 => i - 1 \in 0..k
      BY <2>2
    <3>2. \A i \in 0..(k + 1) : i # 0 => r[i - 1] = t[i - 1]
      BY <2>3, <3>1
    <3> QED
      BY <2>2, <3>2 DEF Chain
  <2> QED
    BY <2>2, <2>4
<1> HIDE DEF T
<1>3. T = Nat
  <2>1. T \subseteq Nat
    BY DEF T
  <2> QED
    BY <1>1, <1>2, <2>1, SetInduction
<1> QED
  BY <1>3 DEF T

LEMMA TimesNat == ASSUME NEW n PROVE Times(n) \in Nat
  BY DEF Times

\* r is a way from p to q.
Links(r, p, f, how, n, q) ==
    /\ r[0] = Store(p, f, <<>>) /\ q = r[n]
    /\ \A i \in 1..n : r[i] = OneMore(r[i - 1], f, how)

LEMMA ChainLinks ==
    ASSUME NEW n \in Nat, NEW r, NEW p, NEW f, NEW how, Chain(r, p, f, how, n)
    PROVE  Links(r, p, f, how, n, r[n])
  BY DEF Chain, Links

LEMMA RowsLinks ==
    ASSUME NEW p, NEW f, NEW n, NEW layout
    PROVE  \E r : Links(r, p, f, <<"row", layout>>, Times(n), ReadRows(p, f, n, layout))
<1> DEFINE how == <<"row", layout>>
           r == CHOOSE r : Chain(r, p, f, how, Times(n))
<1>1. \A q : ReadStruct(q, layout) = One(q, how)
  BY DEF One
<1>2. Chain(r, p, f, how, Times(n))
  BY TimesNat, ChainExists, Zenon
<1>3. ReadRows(p, f, n, layout) = r[Times(n)]
  BY <1>1, ZenonT(60) DEF ReadRows, Repeat, Chain, OneMore
<1> QED
  BY <1>2, <1>3, TimesNat, ChainLinks

LEMMA CallsLinks ==
    ASSUME NEW p, NEW f, NEW n
    PROVE  \E r : Links(r, p, f, <<"call", 0>>, Times(n), Repeat(p, f, n, ReadJavaCall))
<1> DEFINE how == <<"call", 0>>
           r == CHOOSE r : Chain(r, p, f, how, Times(n))
<1>1. \A q : ReadJavaCall(q) = One(q, how)
  BY DEF One
<1>2. Chain(r, p, f, how, Times(n))
  BY TimesNat, ChainExists, Zenon
<1>3. Repeat(p, f, n, ReadJavaCall) = r[Times(n)]
  BY <1>1, ZenonT(60) DEF Repeat, Chain, OneMore
<1> QED
  BY <1>2, <1>3, TimesNat, ChainLinks

\* An array is its structures' only fields.
Items(q, f) == [i \in DOMAIN q.args[f] |-> q.args[f][i]["v"]]

LEMMA ArrayLinks ==
    ASSUME NEW p, NEW f, NEW n, NEW kind
    PROVE  \E r, q : /\ Links(r, p, f, <<"item", kind>>, Times(n), q)
                     /\ ReadArray(p, f, n, kind) = Store(q, f, Items(q, f))
<1> DEFINE how == <<"item", kind>>
           r == CHOOSE r : Chain(r, p, f, how, Times(n))
<1>1. \A q : Read(q, <<"v", kind>>) = One(q, how)
  BY DEF One
<1>2. Chain(r, p, f, how, Times(n))
  BY TimesNat, ChainExists, Zenon
<1>3. Repeat(p, f, n, LAMBDA q : Read(q, <<"v", kind>>)) = r[Times(n)]
  BY <1>1, ZenonT(60) DEF Repeat, Chain, OneMore
<1> HIDE DEF r
<1>4. ReadArray(p, f, n, kind) = Store(r[Times(n)], f, Items(r[Times(n)], f))
  BY <1>3, Zenon DEF ReadArray, Items
<1>5. Links(r, p, f, how, Times(n), r[Times(n)])
  BY <1>2, TimesNat, ChainLinks
<1> QED
  BY <1>4, <1>5, Zenon

\* What is repeated reads soundly, and a value of S unless a number is missing.
Reads(how, S) ==
    \A u : Sound(u) /\ u.args = <<>> =>
        /\ Sound(One(u, how)) /\ One(u, how).words = u.words
        /\ One(u, how).ok = TRUE => u.ok = TRUE /\ One(u, how).args \in S

\* It leaves the status as it was.
Keeps(how) == \A u : Sound(u) => One(u, how).ok = u.ok

\* All of it is then a sequence of such values.
LEMMA LinksTook ==
    ASSUME NEW p, Sound(p), NEW f, NEW how, NEW n \in Nat, NEW r, NEW q, NEW S,
           Links(r, p, f, how, n, q), Reads(how, S)
    PROVE  /\ Took(p, q, f, Seq(S))
           /\ Keeps(how) => q.ok = p.ok
<1> DEFINE good(i) == Took(p, r[i], f, Seq(S)) /\ (Keeps(how) => r[i].ok = p.ok)
           U == {i \in 0..n : good(i)}
<1>1. 0 \in U
  <2> DEFINE none == <<>>  SS == Seq(S)
  <2>1. none \in SS
    OBVIOUS
  <2> HIDE DEF none, SS
  <2>2. p.pos \in p.pos..Len(p.words) /\ p.cut \in BOOLEAN /\ IsParcel(p)
    BY DEF Sound
  <2>3. Took(p, At(p, p.pos, p.ok, Put(p.args, f, none), p.cut), f, SS)
    BY <2>1, <2>2, TookKeeping
  <2>4. Store(p, f, none) = At(p, p.pos, p.ok, Put(p.args, f, none), p.cut)
    BY <2>2, Updates, ZenonT(60)
  <2>5. At(p, p.pos, p.ok, Put(p.args, f, none), p.cut).ok = p.ok
    BY DEF At
  <2> QED
    BY <2>3, <2>4, <2>5 DEF Links, none, SS
<1>2. ASSUME NEW i \in 0..(n - 1), good(i) PROVE good(i + 1)
  <2> DEFINE u == [r[i] EXCEPT !.args = <<>>]
             v == One(u, how)
             w == [v EXCEPT !.args = r[i].args]
             list == Append(r[i].args[f], v.args)
  <2>1. r[i + 1] = Store(w, f, list)
    <3>1. i + 1 \in 1..n /\ (i + 1) - 1 = i
      OBVIOUS
    <3>2. r[i + 1] = OneMore(r[i], f, how)
      BY <3>1 DEF Links
    <3> QED
      BY <3>2, Zenon DEF OneMore
  <2>2. Sound(r[i]) /\ r[i].words = p.words /\ (r[i].ok = TRUE => p.ok = TRUE)
    BY <1>2 DEF Took
  <2>3. PICK s : r[i].args = Put(p.args, f, s) /\ (r[i].ok = TRUE => s \in Seq(S))
    BY <1>2 DEF Took
  <2>4. r[i].args[f] = s
    BY <2>3 DEF Put
  <2>5. /\ Sound(u) /\ u.args = <<>> /\ u.words = p.words /\ u.ok = r[i].ok
    <3>1. IsParcel(r[i])
      BY <2>2 DEF Sound
    <3>2. u = At(r[i], r[i].pos, r[i].ok, <<>>, r[i].cut)
      BY <3>1, Updates
    <3> HIDE DEF u
    <3>3. /\ IsParcel(u) /\ u.words = r[i].words /\ u.pos = r[i].pos /\ u.ok = r[i].ok
          /\ u.args = <<>> /\ u.cut = r[i].cut
      BY <3>2, Fields
    <3> QED
      BY <2>2, <3>3 DEF Sound
  <2>12. Keeps(how) => v.ok = u.ok
    BY <2>5 DEF Keeps
  <2> HIDE DEF u
  <2>6. /\ Sound(v) /\ v.words = p.words /\ (v.ok = TRUE => r[i].ok = TRUE)
        /\ v.ok = TRUE => v.args \in S
    BY <2>5 DEF Reads
  <2> HIDE DEF v
  <2>7. v.ok = TRUE => list \in Seq(S)
    BY <2>3, <2>4, <2>6
  <2> HIDE DEF list
  <2> DEFINE args == Put(r[i].args, f, list)
  <2>8. r[i + 1] = At(v, v.pos, v.ok, args, v.cut)
    <3>1. IsParcel(v)
      BY <2>6 DEF Sound
    <3>2. w = At(v, v.pos, v.ok, r[i].args, v.cut)
      BY <3>1, Updates
    <3> QED
      BY <2>1, <3>2, StoreAt
  <2>9. args = Put(p.args, f, list)
    BY <2>3, PutTwice
  <2> HIDE DEF args
  <2>10. /\ IsParcel(r[i + 1]) /\ r[i + 1].words = v.words /\ r[i + 1].pos = v.pos
         /\ r[i + 1].ok = v.ok /\ r[i + 1].args = args /\ r[i + 1].cut = v.cut
    BY <2>8, Fields
  <2>11. Sound(r[i + 1])
    BY <2>6, <2>10 DEF Sound
  <2> QED
    BY <1>2, <2>2, <2>5, <2>6, <2>7, <2>9, <2>10, <2>11, <2>12 DEF Took
<1> HIDE DEF good
<1>3. \A i \in 0..(n - 1) : i \in U => i + 1 \in U
  BY <1>2
<1> HIDE DEF U
<1>4. 0..n \subseteq U
  BY <1>1, <1>3, BoundedInduction
<1>5. good(n)
  BY <1>4 DEF U
<1> QED
  BY <1>5 DEF good, Links

\* A list of structures of numbers.
LEMMA RowsTook ==
    ASSUME NEW p, Sound(p), NEW f, NEW n, NEW layout, IsLayout(layout),
           \A i \in 1..Len(layout) : layout[i][2] # "str"
    PROVE  Took(p, ReadRows(p, f, n, layout), f, Rows(layout))
<1> DEFINE how == <<"row", layout>>
           names == {layout[i][1] : i \in 1..Len(layout)}
           T == "row"
<1>1. Rows(layout) = Seq([names -> Int])
  BY DEF Rows, Names, IsLayout
<1>2. PICK r : Links(r, p, f, how, Times(n), ReadRows(p, f, n, layout))
  BY RowsLinks
<1>3. Fits(layout, T)
  BY DEF Fits, IsLayout, TypeOf, Values
<1>4. ASSUME NEW u, Sound(u), u.args = <<>>
      PROVE  /\ Sound(One(u, how)) /\ One(u, how).words = u.words
             /\ One(u, how).ok = TRUE => u.ok = TRUE /\ One(u, how).args \in [names -> Int]
  <2> DEFINE v == ReadStruct(u, layout)
  <2>1. One(u, how) = v
    BY DEF One
  <2>2. Typed(u, T) /\ IsMap(u.args) /\ DOMAIN u.args = {}
    BY <1>4 DEF Typed, IsMap
  <2> HIDE DEF T
  <2>3. /\ Sound(v) /\ v.words = u.words /\ (v.ok = TRUE => u.ok = TRUE) /\ Typed(v, T)
        /\ DOMAIN v.args = names /\ IsMap(v.args)
    <3>2. WellRead(u, v, layout, T)
      BY <1>3, <1>4, <2>2, StructTyped
    <3> QED
      BY <2>2, <3>2 DEF WellRead
  <2> HIDE DEF v
  <2>4. v.ok = TRUE => v.args \in [names -> Int]
    <3>1. \A g \in names : TypeOf(T, g) = Int
      BY DEF T, TypeOf
    <3> QED
      BY <2>3, <3>1 DEF Typed, IsMap
  <2> QED
    BY <2>1, <2>3, <2>4
<1> DEFINE S == [names -> Int]  times == Times(n)
<1> HIDE DEF names, how
<1>5. times \in Nat
  BY TimesNat
<1>6. Reads(how, S)
  BY <1>4 DEF Reads
<1> HIDE DEF S, times
<1>7. Took(p, ReadRows(p, f, n, layout), f, Seq(S))
  BY <1>2, <1>5, <1>6, LinksTook, Zenon DEF times
<1> QED
  BY <1>1, <1>7 DEF S

\* An array of values of one kind.
LEMMA ArrayTook ==
    ASSUME NEW p, Sound(p), NEW f, NEW n, NEW kind \in Kinds
    PROVE  LET q == ReadArray(p, f, n, kind) IN
           Took(p, q, f, Seq(Values(kind))) /\ (kind = "str" => q.ok = p.ok)
<1> DEFINE how == <<"item", kind>>
           S == [{"v"} -> Values(kind)]
<1>1. PICK r, q : /\ Links(r, p, f, how, Times(n), q)
                  /\ ReadArray(p, f, n, kind) = Store(q, f, Items(q, f))
  BY ArrayLinks, Zenon
<1>2. ASSUME NEW u, Sound(u)
      PROVE  /\ Took(u, One(u, how), "v", Values(kind))
             /\ kind = "str" => One(u, how).ok = u.ok
  <2>1. One(u, how) = Read(u, <<"v", kind>>)
    BY DEF One
  <2> QED
    BY <1>2, <2>1, OneRead, TextKeeps
<1>3. ASSUME NEW u, Sound(u), u.args = <<>>
      PROVE  /\ Sound(One(u, how)) /\ One(u, how).words = u.words
             /\ One(u, how).ok = TRUE => u.ok = TRUE /\ One(u, how).args \in S
  <2>1. Took(u, One(u, how), "v", Values(kind))
    BY <1>2, <1>3
  <2>2. PICK v : /\ One(u, how).args = Put(u.args, "v", v)
                 /\ One(u, how).ok = TRUE => v \in Values(kind)
    BY <2>1 DEF Took
  <2>3. Put(<<>>, "v", v) = [x \in {"v"} |-> v]
    BY DEF Put
  <2> HIDE DEF how
  <2>4. One(u, how).args = [x \in {"v"} |-> v]
    BY <1>3, <2>2, <2>3
  <2>5. One(u, how).ok = TRUE => One(u, how).args \in S
    BY <2>2, <2>4
  <2> QED
    BY <2>1, <2>5 DEF Took
<1> HIDE DEF S, how
<1>4. Took(p, q, f, Seq(S)) /\ (kind = "str" => q.ok = p.ok)
  <2> DEFINE times == Times(n)
  <2>1. times \in Nat
    BY TimesNat
  <2>2. Links(r, p, f, how, times, q)
    BY <1>1
  <2> HIDE DEF times
  <2>3. Reads(how, S) /\ (kind = "str" => Keeps(how))
    BY <1>2, <1>3 DEF Reads, Keeps
  <2>4. Took(p, q, f, Seq(S)) /\ (Keeps(how) => q.ok = p.ok)
    BY <2>1, <2>2, <2>3, LinksTook
  <2> QED
    BY <2>3, <2>4
<1> DEFINE items == Items(q, f)
<1>5. PICK s : q.args = Put(p.args, f, s) /\ (q.ok = TRUE => s \in Seq(S))
  BY <1>4 DEF Took
<1>6. q.args[f] = s
  BY <1>5 DEF Put
<1>7. q.ok = TRUE => items \in Seq(Values(kind))
  <2> SUFFICES ASSUME q.ok = TRUE PROVE items \in Seq(Values(kind))
    OBVIOUS
  <2>1. s \in Seq(S)
    BY <1>5
  <2>2. Len(s) \in Nat /\ DOMAIN s = 1..Len(s) /\ \A i \in 1..Len(s) : s[i] \in S
    BY <2>1, LenProperties, ElementOfSeq
  <2>3. items = [i \in 1..Len(s) |-> s[i]["v"]]
    BY <1>6, <2>2 DEF Items
  <2>4. \A i \in 1..Len(s) : s[i]["v"] \in Values(kind)
    BY <2>2 DEF S
  <2> QED
    BY <2>2, <2>3, <2>4
<1> HIDE DEF items
<1>8. /\ Sound(q) /\ q.words = p.words /\ (q.ok = TRUE => p.ok = TRUE) /\ IsParcel(q)
  BY <1>4 DEF Took, Sound
<1>9. Store(q, f, items) = At(q, q.pos, q.ok, Put(q.args, f, items), q.cut)
  BY <1>8, Updates, ZenonT(60)
<1>10. Put(q.args, f, items) = Put(p.args, f, items)
  BY <1>5, PutTwice
<1> DEFINE t == Store(q, f, items)
<1>11. /\ IsParcel(t) /\ t.words = q.words /\ t.pos = q.pos /\ t.ok = q.ok
       /\ t.args = Put(p.args, f, items) /\ t.cut = q.cut
  BY <1>9, <1>10, Fields
<1> HIDE DEF t
<1>12. Took(p, t, f, Seq(Values(kind)))
  BY <1>7, <1>8, <1>11 DEF Took, Sound
<1> QED
  BY <1>1, <1>4, <1>11, <1>12 DEF t, items

-----------------------------------------------------------------------------
(* What the dispatch functions hand over.  A parcel in which no number is  *)
(* missing at the end has arguments of these types, none of them Unread.   *)

LEMMA TypesOf ==
    /\ \A f \in {"ints", "digits", "subdigits", "aBearerData"} : TypeOf("args", f) = Seq(Int)
    /\ TypeOf("args", "rows") = Rows(GsmBrLayout) \cup Rows(CdmaBrLayout)
    /\ \A f : f \notin {"ints", "digits", "subdigits", "aBearerData", "rows"} =>
           /\ Int \subseteq TypeOf("args", f)
           /\ Texts \subseteq TypeOf("args", f)
           /\ Seq(Texts) \subseteq TypeOf("args", f)
  BY DEF TypeOf

Fine(p) == Sound(p) /\ Typed(p, "args")

\* From p to q: a number missing in p is missed in q.
Grew(p, q) == Fine(q) /\ q.words = p.words /\ (q.ok = TRUE => p.ok = TRUE)

LEMMA FineTook ==
    ASSUME NEW p, Fine(p), NEW q, NEW f, NEW S, Took(p, q, f, S), S \subseteq TypeOf("args", f)
    PROVE  Grew(p, q)
  BY TookTyped DEF Fine, Grew, Took

LEMMA GrewTwice ==
    ASSUME NEW p, NEW q, NEW r, Grew(p, q), Grew(q, r)
    PROVE  Grew(p, r)
  BY DEF Grew

LEMMA FineInt ==
    ASSUME NEW p, Fine(p), NEW f, Int \subseteq TypeOf("args", f)
    PROVE  Grew(p, readInt32(p, f))
<1>1. Took(p, Read(p, <<f, "int">>), f, Values("int"))
  BY OneRead DEF Fine, Kinds
<1> QED
  BY <1>1, FineTook DEF Read, Values

LEMMA FineString ==
    ASSUME NEW p, Fine(p), NEW f, Texts \subseteq TypeOf("args", f)
    PROVE  Grew(p, strdupReadString(p, f)) /\ strdupReadString(p, f).ok = p.ok
<1>1. Took(p, Read(p, <<f, "str">>), f, Values("str")) /\ Read(p, <<f, "str">>).ok = p.ok
  BY OneRead, TextKeeps DEF Fine, Kinds
<1> QED
  BY <1>1, FineTook DEF Read, Values

LEMMA FineStruct ==
    ASSUME NEW p, Fine(p), NEW layout, Fits(layout, "args")
    PROVE  Grew(p, ReadStruct(p, layout))
  BY StructTyped DEF Fine, Grew, WellRead

LEMMA FineArray ==
    ASSUME NEW p, Fine(p), NEW f, NEW n, NEW kind \in Kinds,
           Seq(Values(kind)) \subseteq TypeOf("args", f)
    PROVE  LET q == ReadArray(p, f, n, kind) IN
           Grew(p, q) /\ (kind = "str" => q.ok = p.ok)
  BY ArrayTook, FineTook DEF Fine

LEMMA FineRows ==
    ASSUME NEW p, Fine(p), NEW n, NEW layout \in {GsmBrLayout, CdmaBrLayout}, IsLayout(layout),
           \A i \in 1..Len(layout) : layout[i][2] # "str"
    PROVE  Grew(p, ReadRows(p, "rows", n, layout))
<1>1. Took(p, ReadRows(p, "rows", n, layout), "rows", Rows(layout))
  BY RowsTook DEF Fine
<1>2. Rows(layout) \subseteq TypeOf("args", "rows")
  BY TypesOf
<1> QED
  BY <1>1, <1>2, FineTook

LEMMA FineStore ==
    ASSUME NEW p, Fine(p), NEW f, NEW v \in TypeOf("args", f)
    PROVE  Grew(p, Store(p, f, v)) /\ Store(p, f, v).ok = p.ok
<1>1. IsParcel(p)
  BY DEF Fine, Sound
<1>2. Store(p, f, v) = At(p, p.pos, p.ok, Put(p.args, f, v), p.cut)
  BY <1>1, Updates, ZenonT(60)
<1> DEFINE q == Store(p, f, v)
<1>3. /\ IsParcel(q) /\ q.words = p.words /\ q.pos = p.pos /\ q.ok = p.ok
      /\ q.args = Put(p.args, f, v) /\ q.cut = p.cut
  BY <1>2, Fields
<1> HIDE DEF q
<1>4. Took(p, q, f, {v})
  BY <1>3 DEF Fine, Sound, Took
<1>5. Grew(p, q)
  BY <1>4, FineTook
<1> QED
  BY <1>3, <1>5 DEF q

\* A block that is read is there, or NULL.
LEMMA FineBlock ==
    ASSUME NEW p, Fine(p), NEW f, NEW len, Texts \subseteq TypeOf("args", f), p.ok = TRUE
    PROVE  Grew(p, readInplace(p, f, len)) /\ readInplace(p, f, len).ok = p.ok
<1> DEFINE q == readInplace(p, f, len)
           v == SubSeq(p.words, p.pos + 1, p.pos + len)
<1>1. IsParcel(p) /\ p.pos \in Nat /\ p.pos <= Len(p.words) /\ p.words \in Seq(Int) /\ p.cut \in BOOLEAN
  BY DEF Fine, Sound
<1>2. q = IF len \in 0..dataAvail(p)
          THEN At(p, p.pos + len, p.ok, Put(p.args, f, v), p.cut)
          ELSE At(p, p.pos, p.ok, Put(p.args, f, NULL), p.cut)
  BY <1>1, BlockIs, Zenon
<1> HIDE DEF q
<1>3. CASE len \in 0..dataAvail(p)
  <2>1. len \in Nat /\ p.pos + len \in 0..Len(p.words)
    BY <1>1, <1>3 DEF dataAvail
  <2>2. v \in Texts
    <3>1. \A i \in p.pos + 1..p.pos + len : i \in 1..Len(p.words)
      BY <1>1, <2>1
    <3>2. \A i \in p.pos + 1..p.pos + len : p.words[i] \in Int
      BY <1>1, <3>1, ElementOfSeq
    <3>3. p.pos + 1 \in Int /\ p.pos + len \in Int
      BY <1>1, <2>1
    <3> QED
      BY <3>2, <3>3, SubSeqProperties DEF Texts
  <2> HIDE DEF v
  <2> DEFINE pos == p.pos + len
  <2>3. q = At(p, pos, p.ok, Put(p.args, f, v), p.cut)
    BY <1>2, <1>3
  <2> HIDE DEF pos
  <2>4. /\ IsParcel(q) /\ q.words = p.words /\ q.pos = pos /\ q.ok = p.ok
        /\ q.args = Put(p.args, f, v) /\ q.cut = p.cut
    BY <2>3, Fields
  <2>5. Took(p, q, f, Texts)
    BY <1>1, <2>1, <2>2, <2>4 DEF Took, Sound, pos
  <2> QED
    BY <2>4, <2>5, FineTook DEF q
<1>4. CASE len \notin 0..dataAvail(p)
  <2>1. q = At(p, p.pos, p.ok, Put(p.args, f, NULL), p.cut)
    BY <1>2, <1>4
  <2>2. /\ IsParcel(q) /\ q.words = p.words /\ q.pos = p.pos /\ q.ok = p.ok
        /\ q.args = Put(p.args, f, NULL) /\ q.cut = p.cut
    BY <2>1, Fields
  <2>3. Took(p, q, f, Texts)
    <3>1. NULL \in Texts
      BY DEF Texts
    <3>2. Sound(p) /\ p.pos \in p.pos..Len(p.words) /\ p.cut \in BOOLEAN
      BY <1>1 DEF Fine
    <3> QED
      BY <2>1, <3>1, <3>2, TookKeeping
  <2> QED
    BY <2>2, <2>3, FineTook DEF q
<1> QED
  BY <1>3, <1>4

LEMMA OwnElements ==
    ASSUME NEW n \in Nat, NEW s, s = [i \in 1..n |-> s[i]]
    PROVE  s \in Seq({s[i] : i \in 1..Len(s)}) /\ Len(s) = n /\ DOMAIN s = 1..Len(s)
<1> DEFINE S == {s[i] : i \in 1..n}
<1>1. \A i \in 1..n : s[i] \in S
  OBVIOUS
<1> HIDE DEF S
<1>2. s \in Seq(S)
  BY <1>1
<1>3. DOMAIN s = 1..n
  OBVIOUS
<1>4. Len(s) = n
  BY <1>2, <1>3, LenProperties
<1> QED
  BY <1>2, <1>3, <1>4, Zenon DEF S

\* The names of what is not a number or a string.
Lists == {"ints", "digits", "subdigits", "aBearerData", "rows"}

LEMMA NumbersFit ==
    ASSUME NEW S, NEW names \in Seq(S)
    PROVE  /\ IsLayout(Ints(names)) /\ IsLayout(Bytes(names))
           /\ \A i \in 1..Len(Ints(names)) : Ints(names)[i][2] # "str"
           /\ \A i \in 1..Len(Bytes(names)) : Bytes(names)[i][2] # "str"
           /\ S \cap Lists = {} => Fits(Ints(names), "args") /\ Fits(Bytes(names), "args")
<1>1. Len(names) \in Nat /\ DOMAIN names = 1..Len(names) /\ \A i \in 1..Len(names) : names[i] \in S
  BY LenProperties, ElementOfSeq
<1> DEFINE a == Ints(names)  b == Bytes(names)
<1>2. /\ a = [i \in 1..Len(names) |-> a[i]]
      /\ \A i \in 1..Len(names) : a[i] = <<names[i], "int">>
  BY <1>1 DEF Ints
<1>3. /\ b = [i \in 1..Len(names) |-> b[i]]
      /\ \A i \in 1..Len(names) : b[i] = <<names[i], "byte">>
  BY <1>1 DEF Bytes
<1>9. /\ a \in Seq({a[i] : i \in 1..Len(a)}) /\ Len(a) = Len(names) /\ DOMAIN a = 1..Len(a)
      /\ b \in Seq({b[i] : i \in 1..Len(b)}) /\ Len(b) = Len(names) /\ DOMAIN b = 1..Len(b)
  BY <1>1, <1>2, <1>3, OwnElements
<1> HIDE DEF a, b
<1>10. ASSUME NEW f, NEW kind \in Kinds
       PROVE  <<f, kind>> = <<<<f, kind>>[1], <<f, kind>>[2]>> /\ <<f, kind>>[2] = kind /\ <<f, kind>>[1] = f
  OBVIOUS
<1>4. IsLayout(a)
  <2>1. \A i \in 1..Len(a) : a[i] = <<a[i][1], a[i][2]>> /\ a[i][2] \in Kinds
    BY <1>2, <1>9, <1>10, SMTT(60) DEF Kinds
  <2> QED
    BY <1>1, <1>9, <2>1 DEF IsLayout
<1>5. IsLayout(b)
  <2>1. \A i \in 1..Len(b) : b[i] = <<b[i][1], b[i][2]>> /\ b[i][2] \in Kinds
    BY <1>3, <1>9, <1>10, SMTT(60) DEF Kinds
  <2> QED
    BY <1>1, <1>9, <2>1 DEF IsLayout
<1>6. S \cap Lists = {} => \A i \in 1..Len(names) : Int \subseteq TypeOf("args", names[i])
  BY <1>1, TypesOf DEF Lists
<1>7. Values("int") = Int /\ Values("byte") = Int
  BY DEF Values
<1>8. S \cap Lists = {} => Fits(a, "args") /\ Fits(b, "args")
  <2> SUFFICES ASSUME S \cap Lists = {} PROVE Fits(a, "args") /\ Fits(b, "args")
    OBVIOUS
  <2>1. \A i \in 1..Len(a) : Values(a[i][2]) \subseteq TypeOf("args", a[i][1])
    <3>1. \A i \in 1..Len(a) : a[i][1] = names[i] /\ a[i][2] = "int"
      BY <1>2, <1>9, SMTT(60)
    <3> QED
      BY <1>6, <1>7, <1>9, <3>1
  <2>2. \A i \in 1..Len(b) : Values(b[i][2]) \subseteq TypeOf("args", b[i][1])
    <3>1. \A i \in 1..Len(b) : b[i][1] = names[i] /\ b[i][2] = "byte"
      BY <1>3, <1>9, SMTT(60)
    <3> QED
      BY <1>6, <1>7, <1>9, <3>1
  <2> QED
    BY <1>4, <1>5, <2>1, <2>2 DEF Fits
<1> QED
  BY <1>2, <1>3, <1>4, <1>5, <1>8, <1>9 DEF a, b

LEMMA StringFits ==
    ASSUME NEW f, f \notin Lists
    PROVE  Fits(Str(f), "args")
<1>4. Str(f) = [i \in 1..1 |-> Str(f)[i]] /\ Str(f)[1] = <<f, "str">>
  BY DEF Str
<1>1. /\ Len(Str(f)) = 1 /\ DOMAIN Str(f) = 1..1 /\ Str(f)[1] = <<f, "str">>
      /\ Str(f) \in Seq({Str(f)[i] : i \in 1..Len(Str(f))})
  BY <1>4, OwnElements
<1>2. IsLayout(Str(f))
  BY <1>1 DEF IsLayout, Kinds
<1>3. Values("str") \subseteq TypeOf("args", f)
  BY TypesOf DEF Values, Lists
<1> QED
  BY <1>1, <1>2, <1>3 DEF Fits

\* Layouts one after the other.
LEMMA JoinedLayout ==
    ASSUME NEW a, NEW b, IsLayout(a), IsLayout(b)
    PROVE  /\ IsLayout(a \o b) /\ Len(a \o b) = Len(a) + Len(b)
           /\ \A i \in 1..Len(a) : (a \o b)[i] = a[i]
           /\ \A i \in 1..Len(b) : (a \o b)[Len(a) + i] = b[i]
<1> DEFINE A == {a[i] : i \in 1..Len(a)}  B == {b[i] : i \in 1..Len(b)}
           S == A \cup B
           c == a \o b
           C == {c[i] : i \in 1..Len(c)}
<1>1. a \in Seq(A) /\ b \in Seq(B) /\ Len(a) \in Nat /\ Len(b) \in Nat
  BY DEF IsLayout
<1>2. a \in Seq(S) /\ b \in Seq(S)
  <2>1. A \subseteq S /\ B \subseteq S
    OBVIOUS
  <2> HIDE DEF A, B, S
  <2> QED
    BY <1>1, <2>1
<1> HIDE DEF S
<1>3. /\ c \in Seq(S) /\ Len(c) = Len(a) + Len(b)
      /\ \A i \in 1..Len(a) + Len(b) : c[i] = IF i <= Len(a) THEN a[i] ELSE b[i - Len(a)]
  BY <1>2, ConcatProperties
<1> HIDE DEF c
<1>4. \A i \in 1..Len(a) : c[i] = a[i]
  BY <1>1, <1>3
<1>5. \A i \in 1..Len(b) : c[Len(a) + i] = b[i]
  <2> TAKE i \in 1..Len(b)
  <2>1. Len(a) + i \in 1..Len(a) + Len(b) /\ ~(Len(a) + i <= Len(a)) /\ Len(a) + i - Len(a) = i
    BY <1>1
  <2> QED
    BY <1>3, <2>1
<1>6. Len(c) \in Nat /\ DOMAIN c = 1..Len(c)
  BY <1>1, <1>3, LenProperties
<1>7. c \in Seq(C)
  <2>1. \A i \in 1..Len(c) : c[i] \in C
    OBVIOUS
  <2>2. c = [i \in 1..Len(c) |-> c[i]]
    BY <1>3, <1>6
  <2> HIDE DEF C
  <2> QED
    BY <1>6, <2>1, <2>2
<1>8. ASSUME NEW i \in 1..Len(c) PROVE c[i] = <<c[i][1], c[i][2]>> /\ c[i][2] \in Kinds
  <2>1. CASE i <= Len(a)
    BY <1>1, <1>4, <2>1 DEF IsLayout
  <2>2. CASE i > Len(a)
    <3>1. i - Len(a) \in 1..Len(b) /\ Len(a) + (i - Len(a)) = i
      BY <1>1, <1>3, <2>2
    <3>2. c[i] = b[i - Len(a)]
      BY <1>5, <3>1
    <3> QED
      BY <3>1, <3>2 DEF IsLayout
  <2> QED
    BY <1>1, <2>1, <2>2
<1> QED
  BY <1>3, <1>4, <1>5, <1>6, <1>7, <1>8 DEF IsLayout, c

\* Both of which fit.
LEMMA JoinedFits ==
    ASSUME NEW a, NEW b, NEW T, Fits(a, T), Fits(b, T)
    PROVE  Fits(a \o b, T)
<1> DEFINE c == a \o b
<1>3. IsLayout(a) /\ IsLayout(b)
  BY DEF Fits
<1>4. Len(a) \in Nat /\ Len(b) \in Nat
  BY <1>3 DEF IsLayout
<1>1. /\ IsLayout(c) /\ Len(c) = Len(a) + Len(b)
      /\ \A i \in 1..Len(a) : c[i] = a[i]
      /\ \A i \in 1..Len(b) : c[Len(a) + i] = b[i]
  BY <1>3, JoinedLayout
<1> HIDE DEF c
<1>5. /\ \A i \in 1..Len(a) : Values(a[i][2]) \subseteq TypeOf(T, a[i][1])
      /\ \A i \in 1..Len(b) : Values(b[i][2]) \subseteq TypeOf(T, b[i][1])
  BY DEF Fits
<1>2. ASSUME NEW i \in 1..Len(c) PROVE Values(c[i][2]) \subseteq TypeOf(T, c[i][1])
  <2>1. CASE i <= Len(a)
    BY <1>1, <1>4, <1>5, <2>1, SMTT(60)
  <2>2. CASE i > Len(a)
    <3>1. i - Len(a) \in 1..Len(b) /\ Len(a) + (i - Len(a)) = i
      BY <1>1, <1>4, <2>2
    <3>2. c[i] = b[i - Len(a)]
      BY <1>1, <3>1
    <3> QED
      BY <1>5, <3>1, <3>2
  <2> QED
    BY <1>1, <1>4, <2>1, <2>2
<1> QED
  BY <1>1, <1>2 DEF Fits, c

-----------------------------------------------------------------------------
(* Dispatch function by dispatch function                                  *)

\* What is handed over lacks no number and has arguments of their types.
Handed(out) == out.valid = TRUE => Fine(out.p) /\ out.p.ok = TRUE

LEMMA Handing ==
    /\ \A q : Fine(q) /\ q.ok = TRUE => Handed(onRequest(q))
    /\ \A q : Handed(invalidCommandBlock(q))
    /\ \A q, r : Fine(q) /\ Fine(r) /\ (q.ok = TRUE => r.ok = TRUE) => Handed(OnRequestIf(q.ok, r))
<1>1. ASSUME NEW q, Fine(q), q.ok = TRUE PROVE Handed(onRequest(q))
  BY <1>1 DEF Handed, onRequest
<1>2. ASSUME NEW q PROVE Handed(invalidCommandBlock(q))
  BY DEF Handed, invalidCommandBlock
<1>3. ASSUME NEW q, NEW r, Fine(q), Fine(r), q.ok = TRUE => r.ok = TRUE
      PROVE  Handed(OnRequestIf(q.ok, r))
  <2>1. q.ok = TRUE \/ q.ok = FALSE
    BY <1>3 DEF Fine, Sound
  <2> QED
    BY <1>1, <1>2, <1>3, <2>1 DEF OnRequestIf
<1> QED
  BY <1>1, <1>2, <1>3, Zenon

\* A parcel nobody has read yet.
LEMMA FreshParcel ==
    ASSUME NEW words \in Seq(Int)
    PROVE  LET p == Parcel(words) IN Fine(p) /\ p.ok = TRUE /\ p.pos = 0 /\ p.words = words /\ p.cut = FALSE
<1> DEFINE p == Parcel(words)
<1>1. /\ IsParcel(p) /\ p.words = words /\ p.pos = 0 /\ p.ok = TRUE /\ p.args = <<>> /\ p.cut = FALSE
  BY DEF Parcel, IsParcel
<1>2. Len(words) \in Nat
  BY LenProperties
<1> HIDE DEF p
<1>3. Sound(p)
  <2>1. p.pos \in 0..Len(p.words)
    BY <1>1, <1>2
  <2>2. p.ok \in BOOLEAN /\ p.cut \in BOOLEAN /\ p.ok # FALSE
    BY <1>1, Zenon
  <2> QED
    BY <1>1, <2>1, <2>2 DEF Sound
<1>4. DOMAIN p.args = {}
  BY <1>1
<1> QED
  BY <1>1, <1>3, <1>4 DEF Fine, Typed, p

LEMMA VoidHanded == ASSUME NEW p, Fine(p), p.ok = TRUE PROVE Handed(dispatchVoid(p))
  BY Handing DEF dispatchVoid

LEMMA StringHanded == ASSUME NEW p, Fine(p), p.ok = TRUE PROVE Handed(dispatchString(p))
<1>1. Texts \subseteq TypeOf("args", "string")
  BY TypesOf
<1>2. LET q == strdupReadString(p, "string") IN Fine(q) /\ q.ok = TRUE
  BY <1>1, FineString DEF Grew
<1> QED
  BY <1>2, Handing DEF dispatchString

LEMMA StringsHanded == ASSUME NEW p, Fine(p), p.ok = TRUE PROVE Handed(dispatchStrings(p))
<1> DEFINE c == readInt32(p, "count")
<1>1. /\ Int \subseteq TypeOf("args", "count") /\ Seq(Texts) \subseteq TypeOf("args", "strings")
      /\ NULL \in TypeOf("args", "strings")
  BY TypesOf DEF Texts
<1>2. Fine(c)
  BY <1>1, FineInt DEF Grew
<1>3. c.ok = TRUE \/ c.ok = FALSE
  BY <1>2 DEF Fine, Sound
<1> DEFINE n == c.args["count"]
           none == Store(c, "strings", NULL)
           some == ReadArray(c, "strings", n, "str")
<1>4. dispatchStrings(p) = IF ~c.ok THEN invalidCommandBlock(c)
                           ELSE IF n = -1 THEN onRequest(none) ELSE onRequest(some)
  BY Zenon DEF dispatchStrings
<1> HIDE DEF n
<1> HIDE DEF c
<1>5. Fine(none) /\ none.ok = c.ok
  <2> HIDE DEF none
  <2>1. NULL \in TypeOf("args", "strings")
    BY <1>1
  <2>2. Grew(c, Store(c, "strings", NULL)) /\ Store(c, "strings", NULL).ok = c.ok
    BY <1>2, <2>1, FineStore
  <2>3. Grew(c, none) /\ none.ok = c.ok
    BY <2>2 DEF none
  <2> QED
    BY <2>3 DEF Grew
<1>6. Fine(some) /\ some.ok = c.ok
  <2>1. Seq(Values("str")) \subseteq TypeOf("args", "strings") /\ "str" \in Kinds
    BY <1>1 DEF Values, Kinds
  <2> QED
    <3>1. Grew(c, some) /\ ("str" = "str" => some.ok = c.ok)
      BY <1>2, <2>1, FineArray
    <3> QED
      BY <3>1 DEF Grew
<1> HIDE DEF none, some
<1> QED
  BY <1>3, <1>4, <1>5, <1>6, Handing

LEMMA IntsHanded == ASSUME NEW p, Fine(p), p.ok = TRUE PROVE Handed(dispatchInts(p))
<1> DEFINE c == readInt32(p, "count")
           r == ReadArray(c, "ints", c.args["count"], "int")
<1>1. Int \subseteq TypeOf("args", "count") /\ Seq(Values("int")) \subseteq TypeOf("args", "ints")
      /\ "int" \in Kinds
  BY TypesOf DEF Values, Kinds
<1>2. Fine(c)
  BY <1>1, FineInt DEF Grew
<1>3. dispatchInts(p) = IF ~c.ok \/ c.args["count"] = 0 THEN invalidCommandBlock(c)
                        ELSE OnRequestIf(r.ok, r)
  BY Zenon DEF dispatchInts
<1> HIDE DEF c
<1>4. Fine(r)
  BY <1>1, <1>2, FineArray DEF Grew
<1> HIDE DEF r
<1> QED
  BY <1>3, <1>4, Handing

LEMMA SmsWriteHanded == ASSUME NEW p, Fine(p), p.ok = TRUE PROVE Handed(dispatchSmsWrite(p))
<1> DEFINE s == readInt32(p, "status")
           r == strdupReadString(s, "pdu")
           t == strdupReadString(r, "smsc")
<1>1. /\ Int \subseteq TypeOf("args", "status") /\ Texts \subseteq TypeOf("args", "pdu")
      /\ Texts \subseteq TypeOf("args", "smsc")
  BY TypesOf
<1>2. Fine(s)
  BY <1>1, FineInt DEF Grew
<1>3. dispatchSmsWrite(p) = IF ~s.ok \/ r.args["pdu"] = NULL THEN invalidCommandBlock(r)
                            ELSE onRequest(t)
  BY Zenon DEF dispatchSmsWrite
<1>4. s.ok = TRUE \/ s.ok = FALSE
  BY <1>2 DEF Fine, Sound
<1> HIDE DEF s
<1>5. Fine(r) /\ r.ok = s.ok
  BY <1>1, <1>2, FineString DEF Grew
<1> HIDE DEF r
<1>6. Fine(t) /\ t.ok = r.ok
  BY <1>1, <1>5, FineString DEF Grew
<1> HIDE DEF t
<1> QED
  BY <1>3, <1>4, <1>5, <1>6, Handing

LEMMA RawHanded == ASSUME NEW p, Fine(p), p.ok = TRUE PROVE Handed(dispatchRaw(p))
<1> DEFINE r == readInt32(p, "len")
           len == IF r.args["len"] = -1 THEN 0 ELSE r.args["len"]
           s == Store(r, "len", len)
           t == readInplace(s, "data", len)
<1>1. Int \subseteq TypeOf("args", "len") /\ Texts \subseteq TypeOf("args", "data")
  BY TypesOf
<1>2. Fine(r)
  BY <1>1, FineInt DEF Grew
<1>3. dispatchRaw(p) = IF ~r.ok THEN invalidCommandBlock(r) ELSE onRequest(t)
  BY Zenon DEF dispatchRaw
<1>4. r.ok = TRUE \/ r.ok = FALSE
  BY <1>2 DEF Fine, Sound
<1>5. r.ok = TRUE => r.args["len"] \in TypeOf("args", "len")
  <2>1. IsParcel(p)
    BY DEF Fine, Sound
  <2>2. \E pos, ok, v, cut : r = At(p, pos, ok, Put(p.args, "len", v), cut)
    BY <2>1, IntIs, Zenon
  <2>3. "len" \in DOMAIN r.args
    BY <2>2 DEF At, Put
  <2> QED
    BY <1>2, <2>3 DEF Fine, Typed
<1>6. r.ok = TRUE => len \in TypeOf("args", "len")
  <2>1. 0 \in TypeOf("args", "len")
    BY <1>1
  <2> QED
    BY <1>5, <2>1
<1> HIDE DEF r, len
<1>7. r.ok = TRUE => Fine(s) /\ s.ok = TRUE
  <2> SUFFICES ASSUME r.ok = TRUE PROVE Fine(s) /\ s.ok = TRUE
    OBVIOUS
  <2>1. Grew(r, s) /\ s.ok = r.ok
    BY <1>2, <1>6, FineStore
  <2> QED
    BY <2>1 DEF Grew
<1> HIDE DEF s
<1>8. r.ok = TRUE => Fine(t) /\ t.ok = TRUE
  <2> SUFFICES ASSUME r.ok = TRUE PROVE Fine(t) /\ t.ok = TRUE
    OBVIOUS
  <2>1. Grew(s, t) /\ t.ok = s.ok
    BY <1>1, <1>7, FineBlock
  <2> QED
    BY <1>7, <2>1 DEF Grew
<1> HIDE DEF t
<1> QED
  BY <1>3, <1>4, <1>8, Handing

LEMMA DialHanded ==
    ASSUME NEW p, Fine(p), p.ok = TRUE, NEW v PROVE Handed(dispatchDial(p, v))
<1> DEFINE first   == strdupReadString(p, "address")
           dial    == readInt32(first, "clir")
           present == readInt32(dial, "uusPresent")
           layout  == Ints(<<"uusType", "uusDcs", "len">>)
           uus     == ReadStruct(present, layout)
           len     == uus.args["len"]
           zero    == Store(uus, "len", 0)
           none    == Store(zero, "uusData", NULL)
           some    == readInplace(uus, "uusData", len)
           all     == IF len = -1 THEN none ELSE some
<1>1. /\ Texts \subseteq TypeOf("args", "address") /\ Int \subseteq TypeOf("args", "clir")
      /\ Int \subseteq TypeOf("args", "uusPresent") /\ Texts \subseteq TypeOf("args", "uusData")
      /\ 0 \in TypeOf("args", "len") /\ NULL \in TypeOf("args", "uusData")
  <2>1. /\ Texts \subseteq TypeOf("args", "address") /\ Int \subseteq TypeOf("args", "clir")
        /\ Int \subseteq TypeOf("args", "uusPresent") /\ Texts \subseteq TypeOf("args", "uusData")
        /\ Int \subseteq TypeOf("args", "len")
    BY TypesOf
  <2> QED
    BY <2>1 DEF Texts
<1>2. dispatchDial(p, v) =
          IF ~dial.ok \/ dial.args["address"] = NULL THEN invalidCommandBlock(dial)
          ELSE IF v < 3 THEN onRequest(dial)
          ELSE IF ~present.ok THEN invalidCommandBlock(present)
          ELSE IF present.args["uusPresent"] = 0 THEN onRequest(present)
          ELSE OnRequestIf(uus.ok, all)
  BY Zenon DEF dispatchDial
<1>3. Fits(layout, "args")
  <2> DEFINE S == {"uusType", "uusDcs", "len"}
  <2>1. <<"uusType", "uusDcs", "len">> \in Seq(S) /\ S \cap Lists = {}
    BY DEF Lists
  <2> QED
    BY <2>1, NumbersFit
<1> HIDE DEF layout
<1>4. Fine(first)
  BY <1>1, FineString DEF Grew
<1> HIDE DEF first
<1>5. Fine(dial)
  BY <1>1, <1>4, FineInt DEF Grew
<1> HIDE DEF dial
<1>6. Fine(present)
  BY <1>1, <1>5, FineInt DEF Grew
<1> HIDE DEF present
<1>7. Fine(uus)
  BY <1>3, <1>6, FineStruct DEF Grew
<1> HIDE DEF uus, len
<1>8. Fine(zero) /\ zero.ok = uus.ok
  <2> HIDE DEF zero
  <2>1. Grew(uus, zero) /\ zero.ok = uus.ok
    BY <1>1, <1>7, FineStore DEF zero
  <2> QED
    BY <1>7, <2>1 DEF Grew
<1> HIDE DEF zero
<1>9. Fine(none) /\ none.ok = uus.ok
  <2> HIDE DEF none
  <2>1. Grew(zero, none) /\ none.ok = zero.ok
    BY <1>1, <1>8, FineStore DEF none
  <2> QED
    BY <1>8, <2>1 DEF Grew
<1>10. uus.ok = TRUE => Fine(some) /\ some.ok = TRUE
  <2> SUFFICES ASSUME uus.ok = TRUE PROVE Fine(some) /\ some.ok = TRUE
    OBVIOUS
  <2>1. Grew(uus, some) /\ some.ok = uus.ok
    BY <1>1, <1>7, FineBlock
  <2> QED
    BY <2>1 DEF Grew
<1> HIDE DEF none, some
<1>11. uus.ok = TRUE => Fine(all) /\ all.ok = TRUE
  BY <1>9, <1>10
<1> HIDE DEF all
<1>12. /\ dial.ok \in BOOLEAN /\ present.ok \in BOOLEAN /\ uus.ok \in BOOLEAN
  BY <1>5, <1>6, <1>7 DEF Fine, Sound
<1>13. Handed(OnRequestIf(uus.ok, all))
  BY <1>11, <1>12, Handing DEF OnRequestIf
<1> QED
  BY <1>2, <1>5, <1>6, <1>12, <1>13, Handing

LEMMA SIM_IOHanded ==
    ASSUME NEW p, Fine(p), p.ok = TRUE, NEW v PROVE Handed(dispatchSIM_IO(p, v))
<1> DEFINE front  == Ints(<<"command", "fileid">>)
           middle == Str("path")
           back   == Ints(<<"p1", "p2", "p3">>)
           texts  == Str("data") \o Str("pin2") \o Str("aidPtr")
           io     == ReadStruct(p, front \o middle \o back)
           all    == ReadStruct(io, texts)
           none   == Store(all, "aidPtr", NULL)
           given  == IF v < 6 THEN none ELSE all
<1>1. dispatchSIM_IO(p, v) = OnRequestIf(io.ok, given)
  BY Zenon DEF dispatchSIM_IO
<1>2. Fits(front, "args") /\ Fits(middle, "args") /\ Fits(back, "args")
  <2>1. <<"command", "fileid">> \in Seq({"command", "fileid"}) /\ {"command", "fileid"} \cap Lists = {}
    BY DEF Lists
  <2>2. <<"p1", "p2", "p3">> \in Seq({"p1", "p2", "p3"}) /\ {"p1", "p2", "p3"} \cap Lists = {}
    BY DEF Lists
  <2>3. "path" \notin Lists
    BY DEF Lists
  <2> QED
    BY <2>1, <2>2, <2>3, NumbersFit, StringFits
<1>3. Fits(texts, "args")
  <2>1. "data" \notin Lists /\ "pin2" \notin Lists /\ "aidPtr" \notin Lists
    BY DEF Lists
  <2>2. Fits(Str("data"), "args") /\ Fits(Str("pin2"), "args") /\ Fits(Str("aidPtr"), "args")
    BY <2>1, StringFits
  <2> QED
    BY <2>2, JoinedFits
<1> HIDE DEF front, middle, back, texts
<1>4. Fine(io)
  <2>1. Fits(front \o middle \o back, "args")
    BY <1>2, JoinedFits
  <2> QED
    BY <2>1, FineStruct DEF Grew
<1> HIDE DEF io
<1>5. Fine(all)
  BY <1>3, <1>4, FineStruct DEF Grew
<1>6. all.ok = io.ok
  <2>1. \A i \in 1..Len(texts) : texts[i][2] = "str"
    BY DEF texts, Str
  <2> QED
    BY <1>3, <1>4, <2>1, StructTyped DEF Fine, WellRead
<1> HIDE DEF all
<1>7. Fine(none) /\ none.ok = all.ok
  <2> HIDE DEF none
  <2>1. NULL \in TypeOf("args", "aidPtr")
    <3>1. Texts \subseteq TypeOf("args", "aidPtr")
      BY TypesOf
    <3> QED
      BY <3>1 DEF Texts
  <2>2. Grew(all, none) /\ none.ok = all.ok
    BY <1>5, <2>1, FineStore DEF none
  <2> QED
    BY <2>2 DEF Grew
<1> HIDE DEF none
<1>8. Fine(given) /\ given.ok = io.ok
  BY <1>5, <1>6, <1>7
<1> HIDE DEF given
<1> QED
  BY <1>1, <1>4, <1>8, Handing

LEMMA CallForwardHanded ==
    ASSUME NEW p, Fine(p), p.ok = TRUE PROVE Handed(dispatchCallForward(p))
<1> DEFINE front  == Ints(<<"status", "reason", "serviceClass", "toa">>)
           middle == Str("number")
           back   == Ints(<<"timeSeconds">>)
           cff    == ReadStruct(p, front \o middle \o back)
           none   == Store(cff, "number", NULL)
           given  == IF cff.args["number"] = <<0>> THEN none ELSE cff
<1>1. dispatchCallForward(p) = OnRequestIf(cff.ok, given)
  BY Zenon DEF dispatchCallForward
<1>2. Fits(front, "args") /\ Fits(middle, "args") /\ Fits(back, "args")
  <2> DEFINE S == {"status", "reason", "serviceClass", "toa"}
  <2>1. <<"status", "reason", "serviceClass", "toa">> \in Seq(S) /\ S \cap Lists = {}
    BY DEF Lists
  <2>2. <<"timeSeconds">> \in Seq({"timeSeconds"}) /\ {"timeSeconds"} \cap Lists = {}
    BY DEF Lists
  <2>3. "number" \notin Lists
    BY DEF Lists
  <2> HIDE DEF S
  <2> QED
    BY <2>1, <2>2, <2>3, NumbersFit, StringFits
<1> HIDE DEF front, middle, back
<1>3. Fine(cff)
  <2>1. Fits(front \o middle \o back, "args")
    BY <1>2, JoinedFits
  <2> QED
    BY <2>1, FineStruct DEF Grew
<1> HIDE DEF cff
<1>4. Fine(none) /\ none.ok = cff.ok
  <2> HIDE DEF none
  <2>1. NULL \in TypeOf("args", "number")
    <3>1. Texts \subseteq TypeOf("args", "number")
      BY TypesOf
    <3> QED
      BY <3>1 DEF Texts
  <2>2. Grew(cff, none) /\ none.ok = cff.ok
    BY <1>3, <2>1, FineStore DEF none
  <2> QED
    BY <2>2 DEF Grew
<1> HIDE DEF none
<1>5. Fine(given) /\ given.ok = cff.ok
  BY <1>3, <1>4
<1> HIDE DEF given
<1> QED
  BY <1>1, <1>3, <1>5, Handing

LEMMA CdmaSmsAckHanded ==
    ASSUME NEW p, Fine(p), p.ok = TRUE PROVE Handed(dispatchCdmaSmsAck(p))
<1> DEFINE S == {"uErrorClass", "uSMSCauseCode"}
           layout == Ints(<<"uErrorClass", "uSMSCauseCode">>)
           r == ReadStruct(p, layout)
<1>1. <<"uErrorClass", "uSMSCauseCode">> \in Seq(S) /\ S \cap Lists = {}
  BY DEF Lists
<1>2. Fits(layout, "args")
  BY <1>1, NumbersFit
<1> HIDE DEF layout
<1>3. Fine(r)
  BY <1>2, FineStruct DEF Grew
<1>4. dispatchCdmaSmsAck(p) = OnRequestIf(r.ok, r)
  BY Zenon DEF dispatchCdmaSmsAck, layout
<1> HIDE DEF r
<1> QED
  BY <1>3, <1>4, Handing

\* The two lists of structures.
LEMMA BrLayouts ==
    \A layout \in {GsmBrLayout, CdmaBrLayout} :
        IsLayout(layout) /\ \A i \in 1..Len(layout) : layout[i][2] # "str"
<1> DEFINE g == <<"fromServiceId", "toServiceId", "fromCodeScheme", "toCodeScheme">>
           c == <<"service_category", "language">>
           s == <<"selected">>
<1>1. /\ g \in Seq({"fromServiceId", "toServiceId", "fromCodeScheme", "toCodeScheme"})
      /\ c \in Seq({"service_category", "language"})
      /\ s \in Seq({"selected"})
  OBVIOUS
<1>2. GsmBrLayout = Ints(g) \o Bytes(s) /\ CdmaBrLayout = Ints(c) \o Bytes(s)
  BY DEF GsmBrLayout, CdmaBrLayout
<1> HIDE DEF g, c, s
<1>3. ASSUME NEW a, NEW b, IsLayout(a), IsLayout(b),
             \A i \in 1..Len(a) : a[i][2] # "str", \A i \in 1..Len(b) : b[i][2] # "str"
      PROVE  IsLayout(a \o b) /\ \A i \in 1..Len(a \o b) : (a \o b)[i][2] # "str"
  <2> DEFINE d == a \o b
  <2>1. /\ IsLayout(d) /\ Len(d) = Len(a) + Len(b)
        /\ \A i \in 1..Len(a) : d[i] = a[i]
        /\ \A i \in 1..Len(b) : d[Len(a) + i] = b[i]
    BY <1>3, JoinedLayout
  <2>2. Len(a) \in Nat /\ Len(b) \in Nat
    BY <1>3 DEF IsLayout
  <2> HIDE DEF d
  <2>3. ASSUME NEW i \in 1..Len(d), i > Len(a) PROVE d[i][2] # "str"
    <3>1. i - Len(a) \in 1..Len(b) /\ Len(a) + (i - Len(a)) = i
      BY <2>1, <2>2, <2>3
    <3>2. d[i] = b[i - Len(a)]
      BY <2>1, <3>1
    <3> QED
      BY <1>3, <3>1, <3>2
  <2>4. ASSUME NEW i \in 1..Len(d), ~(i > Len(a)) PROVE d[i][2] # "str"
    <3>1. i \in 1..Len(a)
      BY <2>1, <2>2, <2>4
    <3> QED
      BY <1>3, <2>1, <3>1
  <2> QED
    BY <2>1, <2>3, <2>4 DEF d
<1>4. /\ IsLayout(Ints(g)) /\ IsLayout(Ints(c)) /\ IsLayout(Bytes(s))
      /\ \A i \in 1..Len(Ints(g)) : Ints(g)[i][2] # "str"
      /\ \A i \in 1..Len(Ints(c)) : Ints(c)[i][2] # "str"
      /\ \A i \in 1..Len(Bytes(s)) : Bytes(s)[i][2] # "str"
  BY <1>1, NumbersFit
<1> QED
  BY <1>2, <1>3, <1>4, Zenon

LEMMA RowsHanded ==
    ASSUME NEW p, Fine(p), p.ok = TRUE, NEW layout \in {GsmBrLayout, CdmaBrLayout}
    PROVE  Handed(DispatchRows(p, layout))
<1> DEFINE n == readInt32(p, "num")
           r == ReadRows(n, "rows", n.args["num"], layout)
<1>1. DispatchRows(p, layout) = IF ~n.ok THEN invalidCommandBlock(n) ELSE OnRequestIf(r.ok, r)
  BY Zenon DEF DispatchRows
<1>2. Int \subseteq TypeOf("args", "num")
  BY TypesOf
<1>3. Fine(n)
  BY <1>2, FineInt DEF Grew
<1> HIDE DEF n
<1>4. Fine(r)
  BY <1>3, BrLayouts, FineRows DEF Grew
<1> HIDE DEF r
<1> QED
  BY <1>1, <1>4, Handing

\* The message, as both CDMA commands read it.
LEMMA CdmaLayouts == Fits(CdmaHead, "args") /\ Fits(CdmaSubaddress, "args")
<1> DEFINE a == <<"uTeleserviceID">>
           b == <<"bIsServicePresent">>
           c == <<"uServicecategory", "digit_mode", "number_mode", "number_type", "number_plan">>
           d == <<"number_of_digits">>
           e == <<"subaddressType">>
           g == <<"odd", "sub_digits">>
<1>1. /\ a \in Seq({"uTeleserviceID"}) /\ {"uTeleserviceID"} \cap Lists = {}
      /\ b \in Seq({"bIsServicePresent"}) /\ {"bIsServicePresent"} \cap Lists = {}
  BY DEF Lists
<1>2. /\ c \in Seq({"uServicecategory", "digit_mode", "number_mode", "number_type", "number_plan"})
      /\ {"uServicecategory", "digit_mode", "number_mode", "number_type", "number_plan"} \cap Lists = {}
  BY DEF Lists
<1>3. /\ d \in Seq({"number_of_digits"}) /\ {"number_of_digits"} \cap Lists = {}
      /\ e \in Seq({"subaddressType"}) /\ {"subaddressType"} \cap Lists = {}
      /\ g \in Seq({"odd", "sub_digits"}) /\ {"odd", "sub_digits"} \cap Lists = {}
  BY DEF Lists
<1>4. /\ CdmaHead = Ints(a) \o Bytes(b) \o Ints(c) \o Bytes(d)
      /\ CdmaSubaddress = Ints(e) \o Bytes(g)
  BY DEF CdmaHead, CdmaSubaddress
<1> HIDE DEF a, b, c, d, e, g
<1>5. /\ Fits(Ints(a), "args") /\ Fits(Bytes(b), "args") /\ Fits(Ints(c), "args")
      /\ Fits(Bytes(d), "args") /\ Fits(Ints(e), "args") /\ Fits(Bytes(g), "args")
  BY <1>1, <1>2, <1>3, NumbersFit
<1> QED
  BY <1>4, <1>5, JoinedFits

LEMMA FineDigits ==
    ASSUME NEW p, Fine(p), NEW f \in {"digits", "subdigits", "aBearerData"}, NEW n
    PROVE  Fine(ReadArray(p, f, n, "byte"))
<1>1. Seq(Values("byte")) \subseteq TypeOf("args", f) /\ "byte" \in Kinds
  BY TypesOf DEF Values, Kinds
<1> QED
  BY <1>1, FineArray DEF Grew

LEMMA CdmaSmsHanded ==
    ASSUME NEW p, Fine(p), p.ok = TRUE PROVE Handed(dispatchCdmaSms(p))
<1> DEFINE head == ReadStruct(p, CdmaHead)
           digits == ReadCounted(head, "digits", "number_of_digits", AddressMax)
           sub == ReadStruct(digits, CdmaSubaddress)
           subs == ReadCounted(sub, "subdigits", "sub_digits", SubaddressMax)
           len == readInt32(subs, "uBearerDataLen")
           r == ReadCounted(len, "aBearerData", "uBearerDataLen", BearerMax)
<1>1. dispatchCdmaSms(p) = OnRequestIf(r.ok, r)
  BY Zenon DEF dispatchCdmaSms, ReadCdmaSms
<1>2. Fine(head)
  BY CdmaLayouts, FineStruct DEF Grew
<1> HIDE DEF head
<1>3. Fine(digits)
  BY <1>2, FineDigits DEF ReadCounted
<1> HIDE DEF digits
<1>4. Fine(sub)
  BY <1>3, CdmaLayouts, FineStruct DEF Grew
<1> HIDE DEF sub
<1>5. Fine(subs)
  BY <1>4, FineDigits DEF ReadCounted
<1> HIDE DEF subs
<1>6. Fine(len)
  <2>1. Int \subseteq TypeOf("args", "uBearerDataLen")
    BY TypesOf
  <2> QED
    BY <1>5, <2>1, FineInt DEF Grew
<1> HIDE DEF len
<1>7. Fine(r)
  BY <1>6, FineDigits DEF ReadCounted
<1> HIDE DEF r
<1> QED
  BY <1>1, <1>7, Handing

LEMMA WriteArgsHanded ==
    ASSUME NEW p, Fine(p), p.ok = TRUE PROVE Handed(dispatchRilCdmaSmsWriteArgs(p))
<1> DEFINE status == Ints(<<"status">>)
           head == ReadStruct(p, status \o CdmaHead)
           digits == ReadArray(head, "digits", AddressMax, "byte")
           sub == ReadStruct(digits, CdmaSubaddress)
           subs == ReadArray(sub, "subdigits", SubaddressMax, "byte")
           len == readInt32(subs, "uBearerDataLen")
           r == ReadArray(len, "aBearerData", BearerMax, "byte")
<1>1. dispatchRilCdmaSmsWriteArgs(p) = OnRequestIf(r.ok, r)
  BY Zenon DEF dispatchRilCdmaSmsWriteArgs
<1>2. Fits(status, "args")
  <2>1. <<"status">> \in Seq({"status"}) /\ {"status"} \cap Lists = {}
    BY DEF Lists
  <2> QED
    BY <2>1, NumbersFit
<1> HIDE DEF status
<1>3. Fine(head)
  <2>1. Fits(status \o CdmaHead, "args")
    BY <1>2, CdmaLayouts, JoinedFits
  <2> QED
    BY <2>1, FineStruct DEF Grew
<1> HIDE DEF head
<1>4. Fine(digits)
  BY <1>3, FineDigits
<1> HIDE DEF digits
<1>5. Fine(sub)
  BY <1>4, CdmaLayouts, FineStruct DEF Grew
<1> HIDE DEF sub
<1>6. Fine(subs)
  BY <1>5, FineDigits
<1> HIDE DEF subs
<1>7. Fine(len)
  <2>1. Int \subseteq TypeOf("args", "uBearerDataLen")
    BY TypesOf
  <2> QED
    BY <1>6, <2>1, FineInt DEF Grew
<1> HIDE DEF len
<1>8. Fine(r)
  BY <1>7, FineDigits
<1> HIDE DEF r
<1> QED
  BY <1>1, <1>8, Handing

-----------------------------------------------------------------------------
(* Writing: sequences put one after the other                              *)

Flat(r, seqs, n) == r = [i \in 1..n |-> IF i = 1 THEN seqs[i] ELSE r[i - 1] \o seqs[i]]

LEMMA FlatExists ==
    ASSUME NEW seqs, NEW n \in Nat
    PROVE  \E r : Flat(r, seqs, n)
<1> DEFINE T == {k \in Nat : \E r : Flat(r, seqs, k)}
<1>1. 0 \in T
  <2>1. Flat([i \in 1..0 |-> seqs], seqs, 0)
    BY DEF Flat
  <2> QED
    BY <2>1
<1>2. ASSUME NEW k \in T PROVE k + 1 \in T
  <2>1. PICK r : Flat(r, seqs, k)
    BY <1>2
  <2>2. k \in Nat
    OBVIOUS
  <2> DEFINE t == [i \in 1..(k + 1) |-> IF i = 1 THEN seqs[i] ELSE r[i - 1] \o seqs[i]]
  <2>3. ASSUME NEW i \in 1..k PROVE t[i] = r[i]
    <3>1. i \in 1..(k + 1)
      BY <2>2
    <3>2. r[i] = IF i = 1 THEN seqs[i] ELSE r[i - 1] \o seqs[i]
      BY <2>1 DEF Flat
    <3>3. t[i] = IF i = 1 THEN seqs[i] ELSE r[i - 1] \o seqs[i]
      BY <3>1, Zenon
    <3> QED
      BY <3>2, <3>3
  <2>4. Flat(t, seqs, k + 1)
    <3>1. \A i \in 1..(k + 1) : i # 1 => i - 1 \in 1..k
      BY <2>2
    <3>2. \A i \in 1..(k + 1) : i # 1 => r[i - 1] = t[i - 1]
      BY <2>3, <3>1
    <3> QED
      BY <2>2, <3>2 DEF Flat
  <2> QED
    BY <2>2, <2>4
<1> HIDE DEF T
<1>3. T = Nat
  <2>1. T \subseteq Nat
    BY DEF T
  <2> QED
    BY <1>1, <1>2, <2>1, SetInduction
<1> QED
  BY <1>3 DEF T

\* The beginnings of the sequence that FlattenSeq makes.
Beginnings(b, seqs, S) ==
    /\ b \in [0..Len(seqs) -> Seq(S)] /\ b[0] = <<>> /\ b[Len(seqs)] = FlattenSeq(seqs)
    /\ \A i \in 1..Len(seqs) : b[i] = b[i - 1] \o seqs[i]

LEMMA FlattenBegins ==
    ASSUME NEW S, NEW seqs \in Seq(Seq(S))
    PROVE  \E b : Beginnings(b, seqs, S)
<1> DEFINE n == Len(seqs)
<1>1. n \in Nat /\ \A i \in 1..n : seqs[i] \in Seq(S)
  BY LenProperties, ElementOfSeq
<1>2. CASE n = 0
  <2>1. seqs = <<>> /\ FlattenSeq(seqs) = seqs
    BY <1>2, EmptySeq DEF FlattenSeq
  <2> DEFINE none == <<>>  b == [i \in 0..0 |-> none]
  <2>2. none \in Seq(S)
    OBVIOUS
  <2> HIDE DEF none
  <2>3. b \in [0..n -> Seq(S)] /\ b[0] = none /\ b[n] = none
    BY <1>2, <2>2
  <2>4. Beginnings(b, seqs, S)
    BY <1>2, <2>1, <2>3 DEF Beginnings, none
  <2> QED
    BY <2>4
<1>3. CASE n # 0
  <2> DEFINE r == CHOOSE r : Flat(r, seqs, n)
  <2>1. Flat(r, seqs, n)
    BY <1>1, FlatExists, Zenon
  <2>2. FlattenSeq(seqs) = r[n]
    BY <1>3 DEF FlattenSeq, Flat
  <2> HIDE DEF r
  <2> DEFINE none == <<>>  b == [i \in 0..n |-> IF i = 0 THEN none ELSE r[i]]
             T == {i \in 0..n : b[i] \in Seq(S)}
  <2>3. none \in Seq(S) /\ \A s \in Seq(S) : s = none \o s
    <3>1. \A s \in Seq(S) : <<>> \o s = s
      BY ConcatEmptySeq
    <3> QED
      BY <3>1
  <2> HIDE DEF none
  <2>4. /\ b[0] = none /\ b[n] = FlattenSeq(seqs) /\ DOMAIN b = 0..n
        /\ b = [i \in 0..n |-> b[i]]
    BY <1>1, <1>3, <2>2
  <2>5. ASSUME NEW i \in 1..n PROVE b[i] = b[i - 1] \o seqs[i]
    <3>1. CASE i = 1
      <4>1. b[i] = seqs[i] /\ b[i - 1] = none
        BY <1>1, <2>1, <3>1 DEF Flat
      <4> QED
        BY <1>1, <2>3, <4>1, ZenonT(60)
    <3>2. CASE i # 1
      <4>1. i - 1 \in 0..n /\ i - 1 # 0 /\ i # 0
        BY <1>1, <3>2
      <4>2. b[i] = r[i] /\ b[i - 1] = r[i - 1]
        BY <4>1
      <4> QED
        BY <2>1, <3>2, <4>2, ZenonT(60) DEF Flat
    <3> QED
      BY <3>1, <3>2
  <2> HIDE DEF b
  <2>6. 0 \in T
    BY <1>1, <2>3, <2>4
  <2>7. ASSUME NEW i \in 0..(n - 1), i \in T PROVE i + 1 \in T
    <3>1. i + 1 \in 1..n /\ (i + 1) - 1 = i
      BY <1>1
    <3>2. b[i + 1] = b[i] \o seqs[i + 1]
      BY <2>5, <3>1
    <3>3. b[i] \in Seq(S) /\ seqs[i + 1] \in Seq(S)
      BY <1>1, <2>7, <3>1
    <3>4. b[i + 1] \in Seq(S)
      BY <3>2, <3>3, ConcatProperties
    <3>5. i + 1 \in 0..n
      BY <1>1
    <3> QED
      BY <3>4, <3>5
  <2> HIDE DEF T
  <2>8. 0..n \subseteq T
    BY <1>1, <2>6, <2>7, BoundedInduction
  <2>9. \A i \in 0..n : b[i] \in Seq(S)
    BY <2>8 DEF T
  <2>10. b \in [0..n -> Seq(S)]
    BY <2>4, <2>9
  <2> HIDE DEF n
  <2>11. Beginnings(b, seqs, S)
    BY <2>4, <2>5, <2>10 DEF Beginnings, none, n
  <2> QED
    BY <2>11
<1> QED
  BY <1>2, <1>3

LEMMA FlattenType ==
    ASSUME NEW S, NEW seqs \in Seq(Seq(S))
    PROVE  FlattenSeq(seqs) \in Seq(S)
<1>1. PICK b : Beginnings(b, seqs, S)
  BY FlattenBegins
<1>2. Len(seqs) \in 0..Len(seqs)
  BY LenProperties
<1> QED
  BY <1>1, <1>2 DEF Beginnings

\* A sequence written element by element: words.
LEMMA ArrayWritten ==
    ASSUME NEW kind \in Kinds, NEW S, NEW s \in Seq(S),
           \A x \in S : Write(kind, x) \in Seq(Int)
    PROVE  WriteArray(s, kind) \in Seq(Int)
<1> DEFINE seqs == [i \in DOMAIN s |-> Write(kind, s[i])]
<1>1. Len(s) \in Nat /\ DOMAIN s = 1..Len(s) /\ \A i \in 1..Len(s) : s[i] \in S
  BY LenProperties, ElementOfSeq
<1>2. \A i \in 1..Len(s) : Write(kind, s[i]) \in Seq(Int)
  BY <1>1
<1>3. seqs \in [1..Len(s) -> Seq(Int)]
  BY <1>1, <1>2
<1>4. seqs \in Seq(Seq(Int))
  BY <1>1, <1>3, SeqDef
<1>5. WriteArray(s, kind) = FlattenSeq(seqs)
  BY DEF WriteArray
<1> HIDE DEF seqs
<1> QED
  BY <1>4, <1>5, FlattenType

\* A value of each kind is written in words.
LEMMA ValueWritten ==
    ASSUME NEW kind \in Kinds, NEW v \in Values(kind)
    PROVE  Write(kind, v) \in Seq(Int) /\ Write(kind, v) # <<>>
<1>1. CASE kind = "int"
  BY <1>1 DEF Values, Write
<1>2. CASE kind = "byte"
  BY <1>2 DEF Values, Write
<1>3. CASE kind = "str"
  <2>1. Write(kind, v) = IF v = NULL THEN <<-1>> ELSE <<Len(v)>> \o v
    BY <1>3 DEF Write, writeStringToParcel
  <2>2. CASE v = NULL
    BY <2>1, <2>2
  <2>3. CASE v # NULL
    <3>1. v \in Seq(Int) /\ Len(v) \in Nat
      BY <1>3, <2>3, LenProperties DEF Values, Texts
    <3>2. <<Len(v)>> \o v \in Seq(Int) /\ <<Len(v)>> \o v # <<>>
      BY <3>1
    <3> QED
      BY <2>1, <2>3, <3>2
  <2> QED
    BY <2>2, <2>3
<1> QED
  BY <1>1, <1>2, <1>3 DEF Kinds

\* One that was put together of what was cut.
LEMMA CutParcel ==
    ASSUME NEW words \in Seq(Int), NEW cut \in BOOLEAN
    PROVE  LET p == [Parcel(words) EXCEPT !.cut = cut] IN
           Fine(p) /\ p.ok = TRUE /\ p.pos = 0 /\ p.words = words /\ p.cut = cut
<1> DEFINE p == Parcel(words)
           q == [p EXCEPT !.cut = cut]
<1>1. Fine(p) /\ p.ok = TRUE /\ p.pos = 0 /\ p.words = words /\ IsParcel(p)
  BY FreshParcel DEF Fine, Sound
<1> HIDE DEF p
<1>2. q = At(p, p.pos, p.ok, p.args, cut)
  BY <1>1, Updates, ZenonT(60)
<1> HIDE DEF q
<1>3. /\ IsParcel(q) /\ q.words = words /\ q.pos = p.pos /\ q.ok = p.ok /\ q.args = p.args
      /\ q.cut = cut
  BY <1>1, <1>2, Fields
<1> QED
  BY <1>1, <1>3 DEF Fine, Sound, Typed, p, q

LEMMA DataCallHanded ==
    ASSUME NEW p, Fine(p), p.ok = TRUE, NEW v PROVE Handed(dispatchDataCall(p, v))
<1> DEFINE c == readInt32(p, "count")
           read == ReadArray(c, "strings", 6, "str")
           six == read.args["strings"]
           filled == ReplaceAll(six, NULL, <<0>>)
           words == <<6>> \o WriteArray(filled, "str")
           cut == read.cut
<1>1. Handed(dispatchStrings(p))
  BY StringsHanded
<1>2. \/ dispatchDataCall(p, v) = dispatchStrings(p)
      \/ c.ok /\ dispatchDataCall(p, v) = dispatchStrings([Parcel(words) EXCEPT !.cut = cut])
  BY Zenon DEF dispatchDataCall
<1>3. ASSUME c.ok PROVE words \in Seq(Int) /\ cut \in BOOLEAN
  <2>1. Fine(c)
    <3>1. Int \subseteq TypeOf("args", "count")
      BY TypesOf
    <3> QED
      BY <3>1, FineInt DEF Grew
  <2>2. c.ok = TRUE /\ Sound(c)
    BY <1>3, <2>1 DEF Fine, Sound
  <2> HIDE DEF c
  <2>3. Took(c, read, "strings", Seq(Values("str"))) /\ read.ok = c.ok
    <3>1. "str" \in Kinds
      BY DEF Kinds
    <3>2. Took(c, read, "strings", Seq(Values("str"))) /\ ("str" = "str" => read.ok = c.ok)
      BY <2>2, <3>1, ArrayTook
    <3> QED
      BY <3>2
  <2>0. cut \in BOOLEAN
    BY <2>3 DEF Took, Sound
  <2> HIDE DEF read
  <2>4. six \in Seq(Texts)
    <3>1. PICK u : read.args = Put(c.args, "strings", u) /\ (read.ok = TRUE => u \in Seq(Values("str")))
      BY <2>3 DEF Took
    <3> QED
      BY <2>2, <2>3, <3>1 DEF Put, Values
  <2> HIDE DEF six
  <2>5. Len(six) \in Nat /\ \A i \in 1..Len(six) : six[i] \in Texts
    BY <2>4, LenProperties, ElementOfSeq
  <2> DEFINE empty == <<0>>
  <2>6. empty \in Texts
    BY DEF Texts
  <2>7. filled = [i \in 1..Len(six) |-> IF six[i] = NULL THEN empty ELSE six[i]]
    BY DEF ReplaceAll
  <2> HIDE DEF empty, filled
  <2>8. filled \in [1..Len(six) -> Texts]
    BY <2>5, <2>6, <2>7
  <2>9. filled \in Seq(Texts)
    BY <2>5, <2>8, SeqDef
  <2>10. WriteArray(filled, "str") \in Seq(Int)
    <3>1. "str" \in Kinds /\ Values("str") = Texts
      BY DEF Kinds, Values
    <3>2. \A x \in Texts : Write("str", x) \in Seq(Int)
      BY <3>1, ValueWritten
    <3> QED
      BY <2>9, <3>1, <3>2, ArrayWritten
  <2> HIDE DEF words, cut
  <2>11. words \in Seq(Int)
    BY <2>10, ConcatProperties DEF words
  <2> QED
    BY <2>0, <2>11
<1> HIDE DEF words, cut
<1>4. ASSUME words \in Seq(Int), cut \in BOOLEAN
      PROVE  Handed(dispatchStrings([Parcel(words) EXCEPT !.cut = cut]))
  <2> DEFINE q == [Parcel(words) EXCEPT !.cut = cut]
  <2>1. Fine(q) /\ q.ok = TRUE
    BY <1>4, CutParcel
  <2> HIDE DEF q
  <2>2. Handed(dispatchStrings(q))
    BY <2>1, StringsHanded
  <2> QED
    BY <2>2 DEF q
<1> QED
  BY <1>1, <1>2, <1>3, <1>4, Zenon

-----------------------------------------------------------------------------
(* What is written is read back.                                           *)

\* The next words of p are w; no number was missing so far.
Ahead(p, w) ==
    /\ Sound(p) /\ p.ok = TRUE
    /\ w \in Seq(Int) /\ p.pos + Len(w) <= Len(p.words)
    /\ \A i \in 1..Len(w) : p.words[p.pos + i] = w[i]

\* p, n words further, with other arguments.
Past(p, n, args) == At(p, p.pos + n, p.ok, args, p.cut)

LEMMA PastFields ==
    ASSUME NEW p, NEW n, NEW args
    PROVE  LET q == Past(p, n, args) IN
           /\ IsParcel(q) /\ q.words = p.words /\ q.pos = p.pos + n /\ q.ok = p.ok
           /\ q.args = args /\ q.cut = p.cut
  BY DEF Past, At, IsParcel

\* A parcel is nothing further than itself, and there with other arguments.
LEMMA PastNothing ==
    ASSUME NEW p, Sound(p), NEW args, NEW f, NEW v
    PROVE  /\ [p EXCEPT !.args = args] = Past(p, 0, args)
           /\ Store(p, f, v) = Past(p, 0, Put(p.args, f, v))
           /\ p = Past(p, 0, p.args)
<1>1. IsParcel(p) /\ p.pos + 0 = p.pos
  BY DEF Sound
<1>2. [p EXCEPT !.args = args] = At(p, p.pos, p.ok, args, p.cut)
  BY <1>1, Updates
<1>3. Store(p, f, v) = At(p, p.pos, p.ok, Put(p.args, f, v), p.cut)
  BY <1>1, Updates, ZenonT(60)
<1>4. p = At(p, p.pos, p.ok, p.args, p.cut)
  BY <1>1, Itself
<1> QED
  BY <1>1, <1>2, <1>3, <1>4, Zenon DEF Past

LEMMA PastTwice ==
    ASSUME NEW p, p.pos \in Nat, NEW m \in Nat, NEW n \in Nat, NEW a, NEW b
    PROVE  Past(Past(p, m, a), n, b) = Past(p, m + n, b)
<1> DEFINE q == Past(p, m, a)
<1>1. q.words = p.words /\ q.pos = p.pos + m /\ q.ok = p.ok /\ q.cut = p.cut
  BY PastFields
<1> HIDE DEF q
<1>2. q.pos + n = p.pos + (m + n)
  BY <1>1
<1> QED
  BY <1>1, <1>2 DEF Past, At, q

\* Only words and position count.
LEMMA AheadAnyArgs ==
    ASSUME NEW p, NEW w, Ahead(p, w), NEW args
    PROVE  Ahead(Past(p, 0, args), w)
<1> DEFINE q == Past(p, 0, args)
<1>1. p.pos + 0 = p.pos
  BY DEF Ahead, Sound
<1>2. IsParcel(q) /\ q.words = p.words /\ q.pos = p.pos /\ q.ok = p.ok /\ q.cut = p.cut
  BY <1>1, PastFields
<1> HIDE DEF q
<1>3. Ahead(q, w)
  BY <1>2 DEF Ahead, Sound
<1> QED
  BY <1>3 DEF q

\* What is ahead in two parts is ahead one part after the other.
LEMMA AheadParts ==
    ASSUME NEW p, NEW u \in Seq(Int), NEW v \in Seq(Int), Ahead(p, u \o v), NEW args
    PROVE  Ahead(p, u) /\ Ahead(Past(p, Len(u), args), v)
<1> DEFINE w == u \o v
           q == Past(p, Len(u), args)
<1>1. Len(u) \in Nat /\ Len(v) \in Nat
  BY LenProperties
<1>2. /\ w \in Seq(Int) /\ Len(w) = Len(u) + Len(v)
      /\ \A i \in 1..Len(u) + Len(v) : w[i] = IF i <= Len(u) THEN u[i] ELSE v[i - Len(u)]
  BY ConcatProperties
<1>3. Ahead(p, w)
  OBVIOUS
<1> HIDE DEF w
<1>4. p.pos \in Nat /\ Len(p.words) \in Nat
  BY <1>3 DEF Ahead, Sound
<1>5. Ahead(p, u)
  <2>1. \A i \in 1..Len(u) : i \in 1..Len(w) /\ w[i] = u[i]
    BY <1>1, <1>2, SMTT(60)
  <2> QED
    BY <1>1, <1>2, <1>3, <1>4, <2>1 DEF Ahead
<1>6. /\ IsParcel(q) /\ q.words = p.words /\ q.pos = p.pos + Len(u) /\ q.ok = p.ok /\ q.cut = p.cut
  BY PastFields
<1> HIDE DEF q
<1>7. ASSUME NEW i \in 1..Len(v) PROVE q.words[q.pos + i] = v[i]
  <2> DEFINE j == Len(u) + i
  <2>0. /\ j \in 1..Len(w) /\ j \in 1..Len(u) + Len(v) /\ ~(j <= Len(u)) /\ j - Len(u) = i
        /\ q.pos + i = p.pos + j
    BY <1>1, <1>2, <1>4, <1>6, SMTT(60)
  <2> HIDE DEF j
  <2>1. w[j] = v[i]
    BY <1>2, <2>0
  <2> QED
    BY <1>3, <1>6, <2>0, <2>1 DEF Ahead
<1>8. Ahead(q, v)
  <2>1. q.pos + Len(v) <= Len(q.words) /\ q.pos \in 0..Len(q.words)
    BY <1>1, <1>2, <1>3, <1>4, <1>6 DEF Ahead
  <2> QED
    BY <1>3, <1>6, <1>7, <2>1 DEF Ahead, Sound
<1> QED
  BY <1>5, <1>8 DEF q

\* All the words of a new parcel are ahead.
LEMMA AheadFresh ==
    ASSUME NEW w \in Seq(Int), NEW cut \in BOOLEAN
    PROVE  /\ Ahead(Parcel(w), w) /\ Parcel(w).args = <<>>
           /\ Ahead([Parcel(w) EXCEPT !.cut = cut], w)
           /\ [Parcel(w) EXCEPT !.cut = cut].args = <<>>
<1>1. Len(w) \in Nat
  BY LenProperties
<1>2. ASSUME NEW p, Fine(p), p.ok = TRUE, p.pos = 0, p.words = w
      PROVE  Ahead(p, w)
  BY <1>1, <1>2 DEF Ahead, Fine
<1>3. Ahead(Parcel(w), w) /\ Parcel(w).args = <<>>
  BY <1>2, FreshParcel DEF Parcel
<1>4. Ahead([Parcel(w) EXCEPT !.cut = cut], w)
  BY <1>2, CutParcel
<1>5. [Parcel(w) EXCEPT !.cut = cut].args = <<>>
  BY DEF Parcel
<1> QED
  BY <1>3, <1>4, <1>5

LEMMA ExactIsValue ==
    ASSUME NEW kind, NEW v \in Exact(kind)
    PROVE  v \in Values(kind)
<1>1. CASE kind = "str"
  BY <1>1 DEF Exact, Values
<1>2. CASE kind # "str"
  <2>1. v \in Int
    BY <1>2 DEF Exact
  <2> QED
    BY <1>2, <2>1 DEF Values
<1> QED
  BY <1>1, <1>2

\* A number, a byte or a string, or its absence, of any length and anywhere in a parcel,
\* is read as it was written, and the reader then stands behind it.
THEOREM ValueReadsBack ==
    ASSUME NEW p, NEW f, NEW kind \in Kinds, NEW v \in Exact(kind), Ahead(p, Write(kind, v))
    PROVE  Read(p, <<f, kind>>) = Past(p, Len(Write(kind, v)), Put(p.args, f, v))
<1> DEFINE w == Write(kind, v)
<1>1. /\ Sound(p) /\ IsParcel(p) /\ p.ok = TRUE /\ p.pos \in Nat /\ p.words \in Seq(Int)
      /\ Len(p.words) \in Nat
  BY DEF Ahead, Sound
<1>2. Ahead(p, w)
  OBVIOUS
<1>3. CASE kind \in {"int", "byte"}
  <2> DEFINE x == p.words[p.pos + 1]  good == TRUE
  <2>1. w = <<v>> /\ Len(w) = 1 /\ w[1] = v /\ (kind = "byte" => v % 256 = v)
    BY <1>3 DEF Write, Exact
  <2> HIDE DEF w
  <2>2. dataAvail(p) > 0 /\ x = v
    BY <1>1, <1>2, <2>1, SMTT(60) DEF Ahead, dataAvail
  <2>3. kind = "int" => Read(p, <<f, kind>>) = At(p, p.pos + 1, good, Put(p.args, f, x), p.cut)
    <3>1. kind = "int" => Read(p, <<f, kind>>) = readInt32(p, f)
      BY DEF Read
    <3> QED
      BY <1>1, <2>2, <3>1, IntIs, Zenon
  <2>4. kind = "byte" =>
            Read(p, <<f, kind>>) = At(p, p.pos + 1, good, Put(p.args, f, x % 256), p.cut)
    <3>1. kind = "byte" => Read(p, <<f, kind>>) = readByte(p, f)
      BY DEF Read
    <3> QED
      BY <1>1, <2>2, <3>1, ByteIs, ZenonT(60)
  <2>5. p.ok = good
    BY <1>1
  <2> HIDE DEF good, x
  <2>6. Read(p, <<f, kind>>) = At(p, p.pos + 1, p.ok, Put(p.args, f, v), p.cut)
    BY <1>3, <2>1, <2>2, <2>3, <2>4, <2>5
  <2> QED
    BY <2>1, <2>6 DEF Past, w
<1>4. CASE kind = "str"
  <2>1. Read(p, <<f, kind>>) = strdupReadString(p, f)
    BY <1>4 DEF Read
  <2>2. w = IF v = NULL THEN <<-1>> ELSE <<Len(v)>> \o v
    BY <1>4 DEF Write, writeStringToParcel
  <2>3. CASE v = NULL
    <3>1. w = <<-1>> /\ Len(w) = 1 /\ w[1] = -1
      BY <2>2, <2>3
    <3> HIDE DEF w
    <3> DEFINE len == p.words[p.pos + 1]
    <3>2. p.pos < Len(p.words) /\ len < 0
      BY <1>1, <1>2, <3>1 DEF Ahead
    <3>3. strdupReadString(p, f) = At(p, p.pos + 1, p.ok, Put(p.args, f, NULL), p.cut)
      BY <1>1, <3>2, StringIs, Zenon
    <3> QED
      BY <2>1, <2>3, <3>1, <3>3 DEF Past, w
  <2>4. CASE v # NULL
    <3> DEFINE n == Len(v)
    <3>1. v \in Seq(Int) /\ n \in Nat
      BY <1>4, <2>4, LenProperties DEF Exact, Texts
    <3>2. /\ Len(w) = 1 + n /\ w[1] = n /\ \A i \in 1..n : w[1 + i] = v[i]
      BY <2>2, <2>4, <3>1
    <3>0. n = Len(v)
      OBVIOUS
    <3> HIDE DEF w, n
    <3> DEFINE len == p.words[p.pos + 1]
    <3>3. p.pos < Len(p.words) /\ len = n /\ p.pos + 1 + n <= Len(p.words)
      <4>1. 1 \in 1..Len(w)
        BY <3>1, <3>2
      <4>2. len = w[1] /\ p.pos + Len(w) <= Len(p.words)
        BY <1>2, <4>1 DEF Ahead
      <4> QED
        BY <1>1, <3>1, <3>2, <4>2, SMTT(60)
    <3> HIDE DEF len
    <3> DEFINE s == SubSeq(p.words, p.pos + 2, p.pos + 1 + n)
    <3>4. s = v
      <4> DEFINE from == p.pos + 2  to == p.pos + 1 + n  end == Len(p.words)  at == p.pos
      <4>0. at \in Nat /\ end \in Nat /\ at + 1 + n <= end
        BY <1>1, <3>3
      <4> HIDE DEF end, at
      <4>1. /\ from = at + 2 /\ to = at + 1 + n
        BY DEF at
      <4> HIDE DEF from, to
      <4>2. /\ from \in Int /\ to \in Int /\ \A i \in from..to : i \in 1..end
            /\ to - from + 1 = n /\ (IF from <= to THEN to - from + 1 ELSE 0) = n
        BY <3>1, <4>0, <4>1
      <4>3. \A i \in from..to : p.words[i] \in Int
        BY <1>1, <4>2, ElementOfSeq DEF end
      <4>4. /\ SubSeq(p.words, from, to) \in Seq(Int) /\ Len(SubSeq(p.words, from, to)) = n
            /\ \A i \in 1..n : SubSeq(p.words, from, to)[i] = p.words[from + i - 1]
        BY <4>2, <4>3, SubSeqProperties
      <4>5. ASSUME NEW i \in 1..n PROVE p.words[from + i - 1] = v[i]
        <5>1. 1 + i \in 1..Len(w) /\ from + i - 1 = at + (1 + i)
          BY <3>1, <3>2, <4>0, <4>1
        <5>2. p.words[at + (1 + i)] = w[1 + i]
          BY <1>2, <5>1 DEF Ahead, at
        <5> QED
          BY <3>2, <5>1, <5>2
      <4>6. SubSeq(p.words, from, to) = v
        BY <3>0, <3>1, <4>4, <4>5, SeqEqual
      <4> QED
        BY <4>6 DEF from, to
    <3>5. strdupReadString(p, f) = At(p, p.pos + 1 + len, p.ok,
                                      Put(p.args, f, SubSeq(p.words, p.pos + 2, p.pos + 1 + len)), p.cut)
      <4>1. p.pos < Len(p.words) /\ len >= 0 /\ p.pos + 1 + len <= Len(p.words)
        BY <3>1, <3>3
      <4> QED
        BY <1>1, <4>1, StringIs, Zenon DEF len
    <3>6. strdupReadString(p, f) = At(p, p.pos + 1 + n, p.ok, Put(p.args, f, s), p.cut)
      BY <3>3, <3>5
    <3>7. p.pos + 1 + n = p.pos + Len(w)
      <4>1. \A k, m, l \in Nat : l = 1 + m => k + 1 + m = k + l
        OBVIOUS
      <4>2. p.pos \in Nat /\ n \in Nat /\ Len(w) = 1 + n /\ 1 + n \in Nat
        BY <1>1, <3>1, <3>2
      <4> QED
        BY <4>1, <4>2
    <3> HIDE DEF s
    <3> QED
      BY <2>1, <3>4, <3>6, <3>7 DEF Past, w
  <2> QED
    BY <2>3, <2>4
<1> QED
  BY <1>3, <1>4 DEF Kinds

\* w stands in all, behind before.
StandsBehind(all, before, w, S) == \E rest \in Seq(S) : all = before \o (w \o rest)

\* Each of the sequences that are put together stands between two others.
LEMMA BeginningsSplit ==
    ASSUME NEW S, NEW seqs \in Seq(Seq(S)), NEW b, Beginnings(b, seqs, S), NEW i \in 1..Len(seqs)
    PROVE  StandsBehind(FlattenSeq(seqs), b[i - 1], seqs[i], S)
<1> DEFINE n == Len(seqs)  all == FlattenSeq(seqs)
           begins(k) == \E rest \in Seq(S) : all = b[k] \o rest
           T == {k \in 0..n : begins(n - k)}
<1>1. /\ n \in Nat /\ (\A k \in 1..n : seqs[k] \in Seq(S)) /\ b[n] = all
      /\ (\A k \in 0..n : b[k] \in Seq(S)) /\ \A k \in 1..n : b[k] = b[k - 1] \o seqs[k]
  BY LenProperties, ElementOfSeq DEF Beginnings
<1> HIDE DEF n, all
<1>2. begins(n)
  <2> DEFINE none == <<>>
  <2>1. none \in Seq(S) /\ all = b[n] \o none
    <3>1. n \in 0..n
      BY <1>1
    <3> QED
      BY <1>1, <3>1, ConcatEmptySeq
  <2> HIDE DEF none
  <2> QED
    BY <2>1
<1>3. ASSUME NEW k \in 1..n, NEW rest \in Seq(S), all = b[k] \o rest
      PROVE  all = b[k - 1] \o (seqs[k] \o rest) /\ seqs[k] \o rest \in Seq(S)
  <2>1. k \in 0..n /\ k - 1 \in 0..n
    BY <1>1
  <2>2. b[k - 1] \in Seq(S) /\ seqs[k] \in Seq(S) /\ b[k] = b[k - 1] \o seqs[k]
    BY <1>1, <2>1
  <2>3. seqs[k] \o rest \in Seq(S)
    BY <2>2, ConcatProperties
  <2>4. (b[k - 1] \o seqs[k]) \o rest = b[k - 1] \o (seqs[k] \o rest)
    <3> DEFINE s == b[k - 1]  t == seqs[k]
    <3>1. s \in Seq(S) /\ t \in Seq(S)
      BY <2>2
    <3> HIDE DEF s, t
    <3>2. (s \o t) \o rest = s \o (t \o rest)
      BY <3>1, SMTT(60)
    <3> QED
      BY <3>2 DEF s, t
  <2> QED
    BY <1>3, <2>2, <2>3, <2>4
<1>4. ASSUME NEW k \in 1..n, begins(k) PROVE begins(k - 1)
  BY <1>3, <1>4
<1> HIDE DEF begins
<1>5. 0 \in T
  BY <1>1, <1>2
<1>6. ASSUME NEW k \in 0..(n - 1), k \in T PROVE k + 1 \in T
  <2>1. n - k \in 1..n /\ (n - k) - 1 = n - (k + 1) /\ k + 1 \in 0..n
    BY <1>1
  <2>2. begins(n - k)
    BY <1>6
  <2>3. begins(n - (k + 1))
    BY <1>4, <2>1, <2>2
  <2> QED
    BY <2>1, <2>3
<1> HIDE DEF T
<1>7. 0..n \subseteq T
  BY <1>1, <1>5, <1>6, BoundedInduction
<1>8. begins(i)
  <2>1. i \in 1..n
    BY DEF n
  <2>2. n - i \in 0..n /\ n - (n - i) = i
    BY <1>1, <2>1
  <2> QED
    BY <1>7, <2>2 DEF T
<1> QED
  BY <1>3, <1>8 DEF begins, n, all, StandsBehind

\* Where they are ahead, each of them is in its turn.
LEMMA AheadBeginnings ==
    ASSUME NEW seqs \in Seq(Seq(Int)), NEW b, Beginnings(b, seqs, Int), NEW i \in 1..Len(seqs),
           NEW p, Ahead(p, FlattenSeq(seqs)), NEW args
    PROVE  Ahead(Past(p, Len(b[i - 1]), args), seqs[i])
<1>1. PICK rest \in Seq(Int) : FlattenSeq(seqs) = b[i - 1] \o (seqs[i] \o rest)
  <2>1. StandsBehind(FlattenSeq(seqs), b[i - 1], seqs[i], Int)
    BY BeginningsSplit
  <2> QED
    BY <2>1, Zenon DEF StandsBehind
<1>2. i - 1 \in 0..Len(seqs) /\ seqs[i] \in Seq(Int)
  <2>1. Len(seqs) \in Nat
    BY LenProperties
  <2> QED
    BY <2>1, ElementOfSeq
<1>3. b[i - 1] \in Seq(Int) /\ seqs[i] \o rest \in Seq(Int)
  BY <1>2, ConcatProperties DEF Beginnings
<1> DEFINE q == Past(p, Len(b[i - 1]), args)
<1>4. Ahead(q, seqs[i] \o rest)
  BY <1>1, <1>3, AheadParts
<1> HIDE DEF q
<1>5. Ahead(q, seqs[i])
  BY <1>2, <1>4, AheadParts
<1> QED
  BY <1>5 DEF q

\* What args are with the fields of d.
Over(args, names, d) == [x \in DOMAIN args \cup names |-> IF x \in names THEN d[x] ELSE args[x]]

LEMMA OverMore ==
    ASSUME NEW args, NEW names, NEW d, NEW f
    PROVE  Put(Over(args, names, d), f, d[f]) = Over(args, names \cup {f}, d)
  BY DEF Put, Over

LEMMA OverNone ==
    ASSUME NEW args, IsMap(args), NEW d
    PROVE  Over(args, {}, d) = args
  BY DEF Over, IsMap

\* d has a value that is read back exactly for every field.
Holds(d, layout) == IsLayout(layout) /\ HasFields(d, layout)

LEMMA StructWritten ==
    ASSUME NEW layout, NEW d, Holds(d, layout)
    PROVE  /\ WriteStruct(d, layout) \in Seq(Int)
           /\ \E seqs \in Seq(Seq(Int)) :
                  /\ WriteStruct(d, layout) = FlattenSeq(seqs) /\ Len(seqs) = Len(layout)
                  /\ \A i \in 1..Len(layout) : seqs[i] = Write(layout[i][2], d[layout[i][1]])
<1> DEFINE n == Len(layout)
           seqs == [i \in DOMAIN layout |-> Write(layout[i][2], d[layout[i][1]])]
<1>1. n \in Nat /\ DOMAIN layout = 1..n
  BY DEF Holds, IsLayout
<1>2. ASSUME NEW i \in 1..n PROVE Write(layout[i][2], d[layout[i][1]]) \in Seq(Int)
  <2>1. layout[i][2] \in Kinds /\ d[layout[i][1]] \in Exact(layout[i][2])
    BY DEF Holds, HasFields, IsLayout
  <2>2. d[layout[i][1]] \in Values(layout[i][2])
    BY <2>1, ExactIsValue
  <2> QED
    BY <2>1, <2>2, ValueWritten
<1>3. WriteStruct(d, layout) = FlattenSeq(seqs)
  BY DEF WriteStruct
<1>4. /\ seqs \in [1..n -> Seq(Int)]
      /\ \A i \in 1..n : seqs[i] = Write(layout[i][2], d[layout[i][1]])
  BY <1>1, <1>2
<1> HIDE DEF seqs
<1>5. seqs \in Seq(Seq(Int)) /\ Len(seqs) = n
  BY <1>1, <1>4, SeqDef
<1>6. FlattenSeq(seqs) \in Seq(Int)
  BY <1>5, FlattenType
<1> QED
  BY <1>3, <1>4, <1>5, <1>6

\* A structure of any layout is read back field by field: every field gets the value
\* that was written of it, and nothing else of the parcel changes.
THEOREM StructReadsBack ==
    ASSUME NEW p, NEW layout, NEW d, Holds(d, layout), Ahead(p, WriteStruct(d, layout)),
           IsMap(p.args)
    PROVE  ReadStruct(p, layout)
               = Past(p, Len(WriteStruct(d, layout)), Over(p.args, Names(layout), d))
<1> DEFINE n == Len(layout)
<1>1. n \in Nat
  BY DEF Holds, IsLayout
<1>2. PICK r : /\ r[0] = p /\ ReadStruct(p, layout) = r[n]
               /\ \A i \in 1..n : r[i] = Read(r[i - 1], layout[i])
  BY <1>1, StructRun
<1>3. PICK seqs \in Seq(Seq(Int)) :
          /\ WriteStruct(d, layout) = FlattenSeq(seqs) /\ Len(seqs) = n
          /\ \A i \in 1..n : seqs[i] = Write(layout[i][2], d[layout[i][1]])
  BY StructWritten
<1>4. PICK b : Beginnings(b, seqs, Int)
  BY FlattenBegins
<1>5. p.pos \in Nat /\ Sound(p)
  BY DEF Ahead, Sound
<1> DEFINE names(i) == {layout[j][1] : j \in 1..i}
           args(i) == Over(p.args, names(i), d)
           good(i) == r[i] = Past(p, Len(b[i]), args(i))
           U == {i \in 0..n : good(i)}
<1>6. good(0)
  <2>1. names(0) = {}
    OBVIOUS
  <2>2. args(0) = p.args
    BY <2>1, OverNone
  <2>3. Len(b[0]) = 0
    BY <1>4 DEF Beginnings
  <2>4. p = Past(p, 0, p.args)
    BY <1>5, PastNothing
  <2> HIDE DEF args
  <2> QED
    BY <1>2, <2>2, <2>3, <2>4
<1>7. ASSUME NEW i \in 0..(n - 1), good(i) PROVE good(i + 1)
  <2> DEFINE k == i + 1  f == layout[k][1]  kind == layout[k][2]  v == d[f]  w == seqs[k]
             q == Past(p, Len(b[i]), args(i))
  <2>1. k \in 1..n /\ k - 1 = i /\ k \in 0..n /\ i \in 0..n
    BY <1>1
  <2>2. /\ layout[k] = <<f, kind>> /\ kind \in Kinds /\ v \in Exact(kind) /\ w = Write(kind, v)
    BY <1>3, <2>1 DEF Holds, HasFields, IsLayout
  <2>3. /\ b[i] \in Seq(Int) /\ b[k] = b[i] \o w /\ Len(b[i]) \in Nat /\ Len(w) \in Nat
        /\ Len(b[k]) = Len(b[i]) + Len(w)
    <3>1. b[i] \in Seq(Int) /\ b[k] = b[k - 1] \o seqs[k]
      BY <1>3, <1>4, <2>1 DEF Beginnings
    <3>2. seqs[k] \in Seq(Int)
      BY <1>3, <2>1, ElementOfSeq
    <3>3. b[k] = b[i] \o w
      BY <2>1, <3>1
    <3> HIDE DEF k, w
    <3>4. b[i] \in Seq(Int) /\ w \in Seq(Int)
      BY <3>1, <3>2 DEF w
    <3> QED
      BY <3>3, <3>4, ConcatProperties, LenProperties
  <2>4. names(k) = names(i) \cup {f}
    BY <1>1, <2>1
  <2>5. r[k] = Read(r[i], <<f, kind>>)
    <3>1. r[k] = Read(r[k - 1], layout[k])
      BY <1>2, <2>1
    <3> QED
      BY <2>1, <2>2, <3>1
  <2>6. Ahead(q, w)
    <3>1. Ahead(Past(p, Len(b[k - 1]), args(i)), seqs[k])
      BY <1>3, <1>4, <2>1, AheadBeginnings
    <3> QED
      BY <2>1, <3>1
  <2>7. q.args = args(i)
    BY PastFields
  <2>8. Put(args(i), f, v) = args(k)
    <3> HIDE DEF f
    <3>1. Put(Over(p.args, names(i), d), f, d[f]) = Over(p.args, names(i) \cup {f}, d)
      BY OverMore
    <3> QED
      BY <2>4, <3>1
  <2> HIDE DEF f, kind, v, w, names, args, q
  <2>9. Read(q, <<f, kind>>) = Past(q, Len(Write(kind, v)), Put(q.args, f, v))
    BY <2>2, <2>6, ValueReadsBack
  <2>10. Read(q, <<f, kind>>) = Past(q, Len(w), args(k))
    BY <2>2, <2>7, <2>8, <2>9
  <2>11. Past(q, Len(w), args(k)) = Past(p, Len(b[k]), args(k))
    BY <1>5, <2>3, PastTwice DEF q
  <2> QED
    BY <1>7, <2>5, <2>10, <2>11 DEF q
<1> HIDE DEF good
<1>8. 0..n \subseteq U
  <2>1. 0 \in U
    BY <1>1, <1>6
  <2>2. \A i \in 0..(n - 1) : i \in U => i + 1 \in U
    BY <1>1, <1>7
  <2> HIDE DEF U, n
  <2> QED
    BY <1>1, <2>1, <2>2, BoundedInduction
<1>9. good(n)
  BY <1>1, <1>8
<1>10. b[n] = FlattenSeq(seqs) /\ names(n) = Names(layout)
  BY <1>3, <1>4 DEF Beginnings, Names
<1> QED
  BY <1>2, <1>3, <1>9, <1>10, Zenon DEF good

LEMMA PastArgs ==
    ASSUME NEW p, NEW n, NEW a, NEW b
    PROVE  [Past(p, n, a) EXCEPT !.args = b] = Past(p, n, b)
  BY DEF Past, At

LEMMA PastStore ==
    ASSUME NEW p, NEW n, NEW a, NEW f, NEW v
    PROVE  Store(Past(p, n, a), f, v) = Past(p, n, Put(a, f, v))
  BY StoreAt DEF Past

\* v is what one of the repeated reads makes of the words w.
ReadsBack(how, w, v) ==
    \A u : Ahead(u, w) /\ u.args = <<>> => One(u, how) = Past(u, Len(w), v)

\* What is written one behind the other is read back as a sequence.
LEMMA LinksBack ==
    ASSUME NEW p, NEW f, NEW how, NEW seqs \in Seq(Seq(Int)), NEW S, NEW items \in Seq(S),
           Len(items) = Len(seqs), \A i \in 1..Len(seqs) : ReadsBack(how, seqs[i], items[i]),
           NEW r, NEW q, Links(r, p, f, how, Len(seqs), q), Ahead(p, FlattenSeq(seqs))
    PROVE  q = Past(p, Len(FlattenSeq(seqs)), Put(p.args, f, items))
<1> DEFINE n == Len(seqs)
           some(i) == [j \in 1..i |-> items[j]]
           args(i) == Put(p.args, f, some(i))
<1>1. /\ n \in Nat /\ Len(items) = n /\ items = [j \in 1..n |-> items[j]]
      /\ \A i \in 1..n : items[i] \in S
  BY LenProperties, ElementOfSeq
<1>2. PICK b : Beginnings(b, seqs, Int)
  BY FlattenBegins
<1>3. p.pos \in Nat /\ Sound(p)
  BY DEF Ahead, Sound
<1> DEFINE good(i) == r[i] = Past(p, Len(b[i]), args(i))
           U == {i \in 0..n : good(i)}
<1>4. good(0)
  <2>1. some(0) = <<>>
    OBVIOUS
  <2>2. Len(b[0]) = 0
    BY <1>2 DEF Beginnings
  <2> DEFINE none == <<>>
  <2>3. r[0] = Store(p, f, none)
    BY DEF Links
  <2>4. some(0) = none
    BY <2>1
  <2> HIDE DEF none, some
  <2>5. Store(p, f, none) = Past(p, 0, Put(p.args, f, none))
    BY <1>3, PastNothing
  <2> QED
    BY <2>2, <2>3, <2>4, <2>5
<1>5. ASSUME NEW i \in 0..(n - 1), good(i) PROVE good(i + 1)
  <2> DEFINE k == i + 1  w == seqs[k]  v == items[k]  none == <<>>
             u == [r[i] EXCEPT !.args = none]
  <2>1. k \in 1..n /\ k - 1 = i /\ k \in 0..n /\ i \in 0..n
    BY <1>1
  <2>2. /\ b[i] \in Seq(Int) /\ b[k] = b[i] \o w /\ Len(b[i]) \in Nat /\ Len(w) \in Nat
        /\ Len(b[k]) = Len(b[i]) + Len(w)
    <3>1. b[i] \in Seq(Int) /\ b[k] = b[k - 1] \o seqs[k]
      BY <1>2, <2>1 DEF Beginnings
    <3>2. seqs[k] \in Seq(Int)
      BY <2>1, ElementOfSeq
    <3>3. b[k] = b[i] \o w
      BY <2>1, <3>1
    <3> HIDE DEF k, w
    <3>4. b[i] \in Seq(Int) /\ w \in Seq(Int)
      BY <3>1, <3>2 DEF w
    <3> QED
      BY <3>3, <3>4, ConcatProperties, LenProperties
  <2>3. r[k] = OneMore(r[k - 1], f, how)
    BY <2>1 DEF Links
  <2>4. r[k] = Store([One(u, how) EXCEPT !.args = r[i].args], f, Append(r[i].args[f], One(u, how).args))
    BY <2>1, <2>3 DEF OneMore
  <2>5. Append(some(i), v) = some(k)
    <3>0. ASSUME NEW m \in 0..n PROVE some(m) \in Seq(S) /\ Len(some(m)) = m
      <4>1. m \in Nat /\ \A j \in 1..m : items[j] \in S
        BY <1>1
      <4> QED
        BY <4>1
    <3>1. some(i) \in Seq(S) /\ Len(some(i)) = i /\ v \in S
      BY <1>1, <2>1, <3>0
    <3>2. some(k) \in Seq(S) /\ Len(some(k)) = k
      BY <2>1, <3>0
    <3>3. ASSUME NEW j \in 1..k PROVE Append(some(i), v)[j] = some(k)[j]
      BY <2>1, <3>1
    <3> DEFINE s == some(i)  t == some(k)  more == Append(s, v)
    <3>4. more \in Seq(S) /\ Len(more) = k /\ \A j \in 1..k : more[j] = t[j]
      BY <3>1, <3>3, AppendProperties
    <3>5. t \in Seq(S) /\ Len(t) = k
      BY <3>2
    <3> HIDE DEF s, t, more
    <3>6. more = t
      BY <3>4, <3>5, SeqEqual
    <3> QED
      BY <3>6 DEF s, t, more
  <2>6. r[i] = Past(p, Len(b[i]), args(i))
    BY <1>5
  <2>7. r[i].args = args(i)
    BY <2>6, PastFields
  <2>8. r[i].args[f] = some(i)
    BY <2>7 DEF Put
  <2>9. \A x : Put(args(i), f, x) = Put(p.args, f, x)
    BY PutTwice
  <2> HIDE DEF some, args, k, w, v, none
  <2>10. u = Past(p, Len(b[i]), none)
    <3>1. [Past(p, Len(b[i]), args(i)) EXCEPT !.args = none] = Past(p, Len(b[i]), none)
      BY PastArgs, SMTT(60)
    <3> QED
      BY <2>6, <3>1, Zenon
  <2> HIDE DEF u
  <2>11. Ahead(u, w) /\ u.args = none
    <3>1. Ahead(Past(p, Len(b[k - 1]), none), seqs[k])
      BY <1>2, <2>1, AheadBeginnings
    <3> QED
      BY <2>1, <2>10, <3>1, PastFields DEF w
  <2>12. One(u, how) = Past(u, Len(w), v)
    <3>1. ReadsBack(how, w, v)
      BY <2>1 DEF w, v
    <3> QED
      BY <2>11, <3>1 DEF ReadsBack, none
  <2>13. One(u, how) = Past(p, Len(b[k]), v)
    BY <1>3, <2>2, <2>10, <2>12, PastTwice
  <2>14. One(u, how).args = v
    BY <2>13, PastFields
  <2>15. [One(u, how) EXCEPT !.args = args(i)] = Past(p, Len(b[k]), args(i))
    <3>1. [One(u, how) EXCEPT !.args = args(i)]
          = [Past(p, Len(b[k]), v) EXCEPT !.args = args(i)]
      BY <2>13, Zenon
    <3>2. [Past(p, Len(b[k]), v) EXCEPT !.args = args(i)] = Past(p, Len(b[k]), args(i))
      <4> DEFINE m == Len(b[k])  a == args(i)
      <4> HIDE DEF m, a
      <4>1. [Past(p, m, v) EXCEPT !.args = a] = Past(p, m, a)
        BY PastArgs
      <4> QED
        BY <4>1 DEF m, a
    <3> QED
      BY <3>1, <3>2, Zenon
  <2>16. r[k] = Store(Past(p, Len(b[k]), args(i)), f, some(k))
    BY <2>4, <2>5, <2>7, <2>8, <2>14, <2>15
  <2>17. r[k] = Past(p, Len(b[k]), Put(args(i), f, some(k)))
    BY <2>16, PastStore
  <2> QED
    BY <2>9, <2>17 DEF k, args
<1> HIDE DEF good
<1>6. 0..n \subseteq U
  <2>1. 0 \in U
    BY <1>1, <1>4
  <2>2. \A i \in 0..(n - 1) : i \in U => i + 1 \in U
    BY <1>1, <1>5
  <2> HIDE DEF U, n
  <2> QED
    BY <1>1, <2>1, <2>2, BoundedInduction
<1>7. good(n)
  BY <1>1, <1>6
<1>8. b[n] = FlattenSeq(seqs) /\ some(n) = items /\ q = r[n]
  BY <1>1, <1>2 DEF Beginnings, Links
<1> QED
  BY <1>7, <1>8, Zenon DEF good

\* An array of any length is read back, and what stood in front of it is kept.
THEOREM ArrayReadsBack ==
    ASSUME NEW p, NEW f, NEW kind \in Kinds, NEW s \in Seq(Exact(kind)), Ahead(p, WriteArray(s, kind))
    PROVE  /\ ReadArray(p, f, Len(s), kind) = Past(p, Len(WriteArray(s, kind)), Put(p.args, f, s))
           /\ WriteArray(s, kind) \in Seq(Int)
<1> DEFINE n == Len(s)
           how == <<"item", kind>>
           seqs == [i \in DOMAIN s |-> Write(kind, s[i])]
           item(i) == [x \in {"v"} |-> s[i]]
           items == [i \in 1..n |-> item(i)]
           S == {item(i) : i \in 1..n}
           w == WriteArray(s, kind)
<1>1. n \in Nat /\ DOMAIN s = 1..n /\ \A i \in 1..n : s[i] \in Exact(kind)
  BY LenProperties, ElementOfSeq
<1>2. w = FlattenSeq(seqs)
  BY DEF WriteArray
<1>3. \A i \in 1..n : Write(kind, s[i]) \in Seq(Int)
  BY <1>1, ExactIsValue, ValueWritten
<1>4. /\ seqs \in [1..n -> Seq(Int)]
      /\ \A i \in 1..n : seqs[i] = Write(kind, s[i])
  BY <1>1, <1>3
<1> HIDE DEF seqs
<1>5. seqs \in Seq(Seq(Int)) /\ Len(seqs) = n
  BY <1>1, <1>4, SeqDef
<1>6. w \in Seq(Int) /\ Ahead(p, FlattenSeq(seqs))
  BY <1>2, <1>5, FlattenType
<1>7. items \in Seq(S) /\ Len(items) = n /\ \A i \in 1..n : items[i] = item(i)
  BY <1>1
<1>8. ASSUME NEW i \in 1..n PROVE ReadsBack(how, seqs[i], items[i])
  <2>1. items[i] = Put(<<>>, "v", s[i])
    BY DEF Put
  <2> SUFFICES ASSUME NEW u, Ahead(u, Write(kind, s[i])), u.args = <<>>
               PROVE  One(u, how) = Past(u, Len(Write(kind, s[i])), items[i])
    BY <1>4, Zenon DEF ReadsBack
  <2>2. One(u, how) = Read(u, <<"v", kind>>)
    BY DEF One
  <2>3. Read(u, <<"v", kind>>) = Past(u, Len(Write(kind, s[i])), Put(u.args, "v", s[i]))
    BY <1>1, ValueReadsBack
  <2> HIDE DEF items, how
  <2> QED
    BY <2>1, <2>2, <2>3
<1> HIDE DEF items, how, S
<1>9. PICK r, q : /\ Links(r, p, f, how, Times(n), q)
                  /\ ReadArray(p, f, n, kind) = Store(q, f, Items(q, f))
  BY ArrayLinks, Zenon DEF how
<1>10. Times(n) = Len(seqs)
  BY <1>1, <1>5 DEF Times
<1>11. q = Past(p, Len(FlattenSeq(seqs)), Put(p.args, f, items))
  <2>1. /\ Len(items) = Len(seqs) /\ \A i \in 1..Len(seqs) : ReadsBack(how, seqs[i], items[i])
        /\ Links(r, p, f, how, Len(seqs), q)
    BY <1>5, <1>7, <1>8, <1>9, <1>10
  <2> QED
    BY <1>5, <1>6, <1>7, <2>1, LinksBack
<1>12. q.args = Put(p.args, f, items)
  BY <1>11, PastFields
<1>13. q.args[f] = items
  BY <1>12 DEF Put
<1>14. Items(q, f) = s
  <2>1. DOMAIN items = 1..n /\ \A i \in 1..n : items[i]["v"] = s[i]
    BY <1>1, <1>7, LenProperties
  <2>2. Items(q, f) = [i \in 1..n |-> s[i]]
    BY <1>13, <2>1 DEF Items
  <2> QED
    BY <1>1, <2>2, LenProperties
<1>15. Store(q, f, s) = Past(p, Len(w), Put(Put(p.args, f, items), f, s))
  BY <1>2, <1>11, PastStore
<1>16. Put(Put(p.args, f, items), f, s) = Put(p.args, f, s)
  BY PutTwice
<1> QED
  BY <1>6, <1>9, <1>14, <1>15, <1>16

\* As many structures in a row as there are, of any one layout, are read back.
THEOREM RowsReadBack ==
    ASSUME NEW p, NEW f, NEW layout, NEW S, NEW s \in Seq(S),
           \A d \in S : Holds(d, layout) /\ DOMAIN d = Names(layout) /\ IsMap(d),
           Ahead(p, WriteRows(s, layout))
    PROVE  /\ ReadRows(p, f, Len(s), layout) = Past(p, Len(WriteRows(s, layout)), Put(p.args, f, s))
           /\ WriteRows(s, layout) \in Seq(Int)
<1> DEFINE n == Len(s)
           how == <<"row", layout>>
           seqs == [i \in DOMAIN s |-> WriteStruct(s[i], layout)]
           w == WriteRows(s, layout)
<1>1. n \in Nat /\ DOMAIN s = 1..n /\ \A i \in 1..n : s[i] \in S
  BY LenProperties, ElementOfSeq
<1>2. w = FlattenSeq(seqs)
  BY DEF WriteRows
<1>3. \A i \in 1..n : WriteStruct(s[i], layout) \in Seq(Int)
  BY <1>1, StructWritten
<1>4. /\ seqs \in [1..n -> Seq(Int)]
      /\ \A i \in 1..n : seqs[i] = WriteStruct(s[i], layout)
  BY <1>1, <1>3
<1> HIDE DEF seqs
<1>5. seqs \in Seq(Seq(Int)) /\ Len(seqs) = n
  BY <1>1, <1>4, SeqDef
<1>6. w \in Seq(Int) /\ Ahead(p, FlattenSeq(seqs))
  BY <1>2, <1>5, FlattenType
<1>7. ASSUME NEW i \in 1..n PROVE ReadsBack(how, seqs[i], s[i])
  <2> DEFINE d == s[i]
  <2>1. Holds(d, layout) /\ DOMAIN d = Names(layout) /\ IsMap(d)
    BY <1>1
  <2>2. IsMap(<<>>) /\ Over(<<>>, Names(layout), d) = d
    <3>1. DOMAIN <<>> = {} /\ <<>> = [x \in {} |-> 0]
      OBVIOUS
    <3>2. IsMap(<<>>)
      BY <3>1 DEF IsMap
    <3> HIDE DEF d
    <3>3. Over(<<>>, Names(layout), d) = [x \in Names(layout) |-> d[x]]
      BY <3>1 DEF Over
    <3> QED
      BY <2>1, <3>2, <3>3 DEF IsMap
  <2> HIDE DEF d
  <2> SUFFICES ASSUME NEW u, Ahead(u, WriteStruct(d, layout)), u.args = <<>>
               PROVE  One(u, how) = Past(u, Len(WriteStruct(d, layout)), d)
    BY <1>4, Zenon DEF ReadsBack, d
  <2>3. One(u, how) = ReadStruct(u, layout)
    BY DEF One
  <2>4. IsMap(u.args)
    BY <2>2
  <2>5. ReadStruct(u, layout) = Past(u, Len(WriteStruct(d, layout)), Over(u.args, Names(layout), d))
    BY <2>1, <2>4, StructReadsBack
  <2> QED
    BY <2>2, <2>3, <2>5
<1>8. PICK r : Links(r, p, f, how, Times(n), ReadRows(p, f, n, layout))
  BY RowsLinks
<1>9. Times(n) = Len(seqs)
  BY <1>1, <1>5 DEF Times
<1> HIDE DEF how
<1>10. ReadRows(p, f, n, layout) = Past(p, Len(FlattenSeq(seqs)), Put(p.args, f, s))
  <2>1. /\ Len(s) = Len(seqs) /\ \A i \in 1..Len(seqs) : ReadsBack(how, seqs[i], s[i])
        /\ Links(r, p, f, how, Len(seqs), ReadRows(p, f, n, layout))
    BY <1>5, <1>7, <1>8, <1>9
  <2> DEFINE q == ReadRows(p, f, n, layout)
  <2> HIDE DEF q
  <2>2. q = Past(p, Len(FlattenSeq(seqs)), Put(p.args, f, s))
    BY <1>5, <1>6, <2>1, LinksBack DEF q
  <2> QED
    BY <2>2 DEF q
<1> QED
  BY <1>2, <1>6, <1>10


\* Two lists of sequences put together are one put together behind the other.
LEMMA FlattenConcat ==
    ASSUME NEW S, NEW s \in Seq(Seq(S)), NEW t \in Seq(Seq(S))
    PROVE  FlattenSeq(s \o t) = FlattenSeq(s) \o FlattenSeq(t)
<1> DEFINE m == Len(s)  n == Len(t)  all == s \o t
<1>1. /\ m \in Nat /\ n \in Nat
      /\ (\A i \in 1..m : s[i] \in Seq(S)) /\ (\A i \in 1..n : t[i] \in Seq(S))
  BY LenProperties, ElementOfSeq
<1>2. all \in Seq(Seq(S)) /\ Len(all) = m + n
  BY ConcatProperties
<1>3. (\A i \in 1..m : all[i] = s[i]) /\ (\A i \in 1..n : all[m + i] = t[i])
  <2>1. \A i \in 1..(m + n) : all[i] = IF i <= m THEN s[i] ELSE t[i - m]
    BY ConcatProperties
  <2>2. \A i \in 1..m : i \in 1..(m + n) /\ i <= m
    BY <1>1
  <2>3. \A i \in 1..n : m + i \in 1..(m + n) /\ ~(m + i <= m) /\ (m + i) - m = i
    BY <1>1
  <2> HIDE DEF all, m, n
  <2> QED
    BY <2>1, <2>2, <2>3
<1>4. PICK a : Beginnings(a, s, S)
  BY FlattenBegins
<1>5. PICK b : Beginnings(b, t, S)
  BY FlattenBegins
<1> HIDE DEF all
<1>6. PICK c : Beginnings(c, all, S)
  BY <1>2, FlattenBegins
<1> HIDE DEF m, n
<1>7. /\ (\A i \in 0..m : a[i] \in Seq(S)) /\ a[0] = <<>> /\ a[m] = FlattenSeq(s)
      /\ \A i \in 1..m : a[i] = a[i - 1] \o s[i]
  BY <1>4, Zenon DEF Beginnings, m
<1>8. /\ (\A i \in 0..n : b[i] \in Seq(S)) /\ b[0] = <<>> /\ b[n] = FlattenSeq(t)
      /\ \A i \in 1..n : b[i] = b[i - 1] \o t[i]
  BY <1>5, Zenon DEF Beginnings, n
<1>9. /\ c[0] = <<>> /\ c[m + n] = FlattenSeq(all)
      /\ \A i \in 1..(m + n) : c[i] = c[i - 1] \o all[i]
  BY <1>2, <1>6, Zenon DEF Beginnings
<1> DEFINE T == {i \in 0..m : c[i] = a[i]}
<1>10. 0..m \subseteq T
  <2>1. 0 \in T
    BY <1>1, <1>7, <1>9
  <2>2. ASSUME NEW i \in 0..(m - 1), i \in T PROVE i + 1 \in T
    <3>1. i + 1 \in 1..m /\ i + 1 \in 1..(m + n) /\ (i + 1) - 1 = i /\ i + 1 \in 0..m
      BY <1>1
    <3>2. c[i + 1] = c[i] \o s[i + 1] /\ a[i + 1] = a[i] \o s[i + 1]
      BY <1>3, <1>7, <1>9, <3>1
    <3> QED
      BY <2>2, <3>1, <3>2
  <2> HIDE DEF T
  <2> QED
    BY <1>1, <2>1, <2>2, BoundedInduction
<1>11. c[m] = a[m]
  BY <1>1, <1>10
<1> DEFINE U == {i \in 0..n : c[m + i] = a[m] \o b[i]}
<1>12. 0..n \subseteq U
  <2>1. 0 \in U
    <3>1. a[m] \in Seq(S) /\ m + 0 = m /\ 0 \in 0..n
      BY <1>1, <1>7
    <3>2. a[m] \o <<>> = a[m]
      BY <3>1, ConcatEmptySeq
    <3> QED
      BY <1>8, <1>11, <3>1, <3>2
  <2>2. ASSUME NEW i \in 0..(n - 1), i \in U PROVE i + 1 \in U
    <3>1. /\ i + 1 \in 1..n /\ m + (i + 1) \in 1..(m + n) /\ (m + (i + 1)) - 1 = m + i
          /\ i + 1 \in 0..n /\ (i + 1) - 1 = i /\ i \in 0..n /\ m \in 0..m
      BY <1>1
    <3> DEFINE x == a[m]  y == b[i]  z == t[i + 1]
    <3>2. c[m + (i + 1)] = c[m + i] \o z /\ b[i + 1] = y \o z
      <4>1. c[m + (i + 1)] = c[m + i] \o all[m + (i + 1)]
        BY <1>9, <3>1
      <4>2. all[m + (i + 1)] = z
        BY <1>3, <3>1
      <4>3. b[i + 1] = y \o z
        BY <1>8, <3>1
      <4> QED
        BY <4>1, <4>2, <4>3
    <3>3. x \in Seq(S) /\ y \in Seq(S) /\ z \in Seq(S)
      BY <1>1, <1>7, <1>8, <3>1
    <3>4. c[m + i] = x \o y
      BY <2>2
    <3> HIDE DEF x, y, z
    <3>5. (x \o y) \o z = x \o (y \o z)
      BY <3>3, SMTT(60)
    <3>6. c[m + (i + 1)] = x \o b[i + 1]
      BY <3>2, <3>4, <3>5, Zenon
    <3> QED
      BY <3>1, <3>6 DEF x
  <2> HIDE DEF U
  <2> QED
    BY <1>1, <2>1, <2>2, BoundedInduction
<1>13. c[m + n] = a[m] \o b[n]
  <2>1. n \in U
    <3> HIDE DEF U
    <3> QED
      BY <1>1, <1>12
  <2> QED
    BY <2>1
<1> QED
  BY <1>7, <1>8, <1>9, <1>13, Zenon DEF all


\* A structure of two layouts is written as the one behind the other, and has the
\* fields of both.
LEMMA StructParts ==
    ASSUME NEW a, NEW b, NEW d, IsLayout(a), IsLayout(b)
    PROVE  /\ HasFields(d, a \o b) <=> HasFields(d, a) /\ HasFields(d, b)
           /\ Names(a \o b) = Names(a) \cup Names(b)
           /\ Holds(d, a) /\ Holds(d, b) =>
                  WriteStruct(d, a \o b) = WriteStruct(d, a) \o WriteStruct(d, b)
<1> DEFINE c == a \o b  m == Len(a)  n == Len(b)
<1>1. /\ IsLayout(c) /\ Len(c) = m + n
      /\ (\A i \in 1..m : c[i] = a[i]) /\ \A i \in 1..n : c[m + i] = b[i]
  BY JoinedLayout
<1>2. m \in Nat /\ n \in Nat /\ DOMAIN a = 1..m /\ DOMAIN b = 1..n /\ DOMAIN c = 1..(m + n)
  BY <1>1 DEF IsLayout
<1> HIDE DEF c, m, n
<1>3. \A i \in 1..(m + n) : i \in 1..m \/ (i - m \in 1..n /\ m + (i - m) = i)
  BY <1>2
<1>4. (\A i \in 1..m : i \in 1..(m + n)) /\ \A i \in 1..n : m + i \in 1..(m + n)
  BY <1>2
<1>5. HasFields(d, c) <=> HasFields(d, a) /\ HasFields(d, b)
  <2>1. ASSUME HasFields(d, c) PROVE HasFields(d, a) /\ HasFields(d, b)
    BY <1>1, <1>4, <2>1 DEF HasFields, m, n
  <2>2. ASSUME HasFields(d, a), HasFields(d, b) PROVE HasFields(d, c)
    <3> SUFFICES ASSUME NEW i \in 1..(m + n)
                 PROVE  c[i][1] \in DOMAIN d /\ d[c[i][1]] \in Exact(c[i][2])
      BY <1>1 DEF HasFields
    <3>1. CASE i \in 1..m
      BY <1>1, <2>2, <3>1 DEF HasFields, m
    <3>2. CASE i \notin 1..m
      <4>1. c[i] = b[i - m] /\ i - m \in 1..n
        BY <1>1, <1>3, <3>2
      <4> QED
        BY <2>2, <4>1 DEF HasFields, n
    <3> QED
      BY <1>3, <3>1, <3>2
  <2> QED
    BY <2>1, <2>2
<1>6. Names(c) = Names(a) \cup Names(b)
  <2>1. Names(c) = {c[i][1] : i \in 1..(m + n)}
    BY <1>1 DEF Names
  <2>2. ASSUME NEW i \in 1..(m + n) PROVE c[i][1] \in Names(a) \cup Names(b)
    <3>1. CASE i \in 1..m
      BY <1>1, <3>1 DEF Names, m
    <3>2. CASE i \notin 1..m
      <4>1. c[i] = b[i - m] /\ i - m \in 1..n
        BY <1>1, <1>3, <3>2
      <4> QED
        BY <4>1 DEF Names, n
    <3> QED
      BY <1>3, <3>1, <3>2
  <2>3. ASSUME NEW x \in Names(a) PROVE x \in Names(c)
    BY <1>1, <1>4, <2>1, <2>3 DEF Names, m
  <2>4. ASSUME NEW x \in Names(b) PROVE x \in Names(c)
    BY <1>1, <1>4, <2>1, <2>4 DEF Names, n
  <2> QED
    BY <2>1, <2>2, <2>3, <2>4
<1>7. ASSUME Holds(d, a), Holds(d, b)
      PROVE  WriteStruct(d, c) = WriteStruct(d, a) \o WriteStruct(d, b)
  <2> DEFINE s == [i \in DOMAIN a |-> Write(a[i][2], d[a[i][1]])]
             t == [i \in DOMAIN b |-> Write(b[i][2], d[b[i][1]])]
             u == [i \in DOMAIN c |-> Write(c[i][2], d[c[i][1]])]
  <2>1. ASSUME NEW kind \in Kinds, NEW v \in Exact(kind) PROVE Write(kind, v) \in Seq(Int)
    BY ExactIsValue, ValueWritten
  <2>2. s \in [1..m -> Seq(Int)] /\ t \in [1..n -> Seq(Int)]
    <3>1. \A i \in 1..m : a[i][2] \in Kinds /\ d[a[i][1]] \in Exact(a[i][2])
      BY <1>7 DEF Holds, HasFields, IsLayout, m
    <3>2. \A i \in 1..n : b[i][2] \in Kinds /\ d[b[i][1]] \in Exact(b[i][2])
      BY <1>7 DEF Holds, HasFields, IsLayout, n
    <3>3. \A i \in 1..m : Write(a[i][2], d[a[i][1]]) \in Seq(Int)
      BY <2>1, <3>1
    <3>4. \A i \in 1..n : Write(b[i][2], d[b[i][1]]) \in Seq(Int)
      BY <2>1, <3>2
    <3> QED
      BY <1>2, <3>3, <3>4
  <2>3. \A i \in 1..(m + n) : u[i] = IF i <= m THEN s[i] ELSE t[i - m]
    <3> TAKE i \in 1..(m + n)
    <3>1. CASE i \in 1..m
      <4>1. i <= m /\ c[i] = a[i] /\ s[i] = Write(a[i][2], d[a[i][1]])
        BY <1>1, <1>2, <3>1
      <4>2. u[i] = Write(c[i][2], d[c[i][1]])
        BY <1>2
      <4> QED
        BY <4>1, <4>2
    <3>2. CASE i \notin 1..m
      <4>1. ~(i <= m) /\ i - m \in 1..n /\ c[i] = b[i - m]
        BY <1>1, <1>2, <1>3, <3>2
      <4>2. t[i - m] = Write(b[i - m][2], d[b[i - m][1]])
        BY <1>2, <4>1
      <4>3. u[i] = Write(c[i][2], d[c[i][1]])
        BY <1>2
      <4> QED
        BY <4>1, <4>2, <4>3
    <3> QED
      BY <3>1, <3>2
  <2>4. u = [i \in 1..(m + n) |-> u[i]]
    BY <1>2
  <2>5. /\ WriteStruct(d, a) = FlattenSeq(s) /\ WriteStruct(d, b) = FlattenSeq(t)
        /\ WriteStruct(d, c) = FlattenSeq(u)
    BY DEF WriteStruct
  <2> HIDE DEF s, t, u
  <2>6. s \in Seq(Seq(Int)) /\ t \in Seq(Seq(Int)) /\ Len(s) = m /\ Len(t) = n
    BY <1>2, <2>2, SeqDef
  <2>7. u = s \o t
    <3> DEFINE both == s \o t
    <3>1. both \in Seq(Seq(Int)) /\ Len(both) = m + n
      BY <2>6, ConcatProperties
    <3>2. \A i \in 1..(m + n) : both[i] = IF i <= m THEN s[i] ELSE t[i - m]
      BY <2>6, ConcatProperties
    <3> HIDE DEF both
    <3>3. both = [i \in 1..(m + n) |-> both[i]]
      BY <3>1, LenProperties
    <3>4. both = u
      BY <2>3, <2>4, <3>2, <3>3
    <3> QED
      BY <3>4 DEF both
  <2> QED
    BY <2>5, <2>6, <2>7, FlattenConcat, SMTT(60)
<1> QED
  BY <1>5, <1>6, <1>7, Zenon DEF c

\* Numbers by name are written as a list of them.
LEMMA NumbersWritten ==
    ASSUME NEW S, NEW names \in Seq(S), NEW d
    PROVE  /\ WriteStruct(d, Ints(names)) = WriteArray([i \in 1..Len(names) |-> d[names[i]]], "int")
           /\ Names(Ints(names)) = {names[i] : i \in 1..Len(names)}
           /\ HasFields(d, Ints(names)) <=>
                  \A i \in 1..Len(names) : names[i] \in DOMAIN d /\ d[names[i]] \in Int
<1> DEFINE a == Ints(names)
           s == [i \in 1..Len(names) |-> d[names[i]]]
<1>1. Len(names) \in Nat /\ DOMAIN names = 1..Len(names)
  BY LenProperties
<1>2. DOMAIN a = 1..Len(names) /\ \A i \in 1..Len(names) : a[i][1] = names[i] /\ a[i][2] = "int"
  BY <1>1 DEF Ints
<1>3. Len(a) = Len(names)
  <2>1. DOMAIN a = 1..Len(a)
    BY NumbersFit DEF IsLayout
  <2>2. Len(a) \in Nat
    BY NumbersFit DEF IsLayout
  <2> HIDE DEF a
  <2> QED
    BY <1>1, <1>2, <2>1, <2>2
<1> HIDE DEF a
<1>4. [i \in DOMAIN a |-> Write(a[i][2], d[a[i][1]])] = [i \in DOMAIN s |-> Write("int", s[i])]
  BY <1>2
<1>5. WriteStruct(d, a) = WriteArray(s, "int")
  BY <1>4, Zenon DEF WriteStruct, WriteArray
<1>6. Names(a) = {names[i] : i \in 1..Len(names)}
  BY <1>2, <1>3 DEF Names
<1>7. HasFields(d, a) <=> \A i \in 1..Len(names) : names[i] \in DOMAIN d /\ d[names[i]] \in Int
  BY <1>2, <1>3 DEF HasFields, Exact
<1> QED
  BY <1>5, <1>6, <1>7 DEF a


\* A number in front is read, and what is behind it is ahead then.
LEMMA IntBack ==
    ASSUME NEW p, NEW f, NEW v \in Int, NEW w \in Seq(Int), Ahead(p, <<v>> \o w)
    PROVE  /\ readInt32(p, f) = Past(p, 1, Put(p.args, f, v))
           /\ Ahead(Past(p, 1, Put(p.args, f, v)), w)
<1> DEFINE one == <<v>>
<1>1. one \in Seq(Int) /\ Len(one) = 1 /\ Write("int", v) = one
  BY DEF Write
<1>2. "int" \in Kinds /\ v \in Exact("int")
  BY DEF Kinds, Exact
<1>3. Read(p, <<f, "int">>) = readInt32(p, f)
  BY DEF Read
<1> HIDE DEF one
<1>4. Ahead(p, one \o w)
  BY DEF one
<1>5. Ahead(p, one) /\ Ahead(Past(p, 1, Put(p.args, f, v)), w)
  BY <1>1, <1>4, AheadParts
<1>6. Read(p, <<f, "int">>) = Past(p, 1, Put(p.args, f, v))
  BY <1>1, <1>2, <1>5, ValueReadsBack
<1> QED
  BY <1>3, <1>5, <1>6

\* What dispatchStrings makes of the strings s behind their number.
StringsBack(words, s) ==
    LET back == dispatchStrings(Parcel(words)) IN
    /\ back.valid = TRUE /\ dataAvail(back.p) = 0
    /\ back.p.args["count"] = Len(s) /\ back.p.args["strings"] = s

\* Strings behind their number are read back, and nothing is left.
LEMMA StringsReadBack ==
    ASSUME NEW s \in Seq(Texts)
    PROVE  StringsBack(<<Len(s)>> \o WriteArray(s, "str"), s)
<1> DEFINE n == Len(s)
           w == WriteArray(s, "str")
           words == <<n>> \o w
           p == Parcel(words)
           c == readInt32(p, "count")
           q == ReadArray(c, "strings", n, "str")
<1>1. n \in Nat /\ n # -1
  BY LenProperties
<1>2. "str" \in Kinds /\ Exact("str") = Texts /\ Values("str") = Texts
  BY DEF Kinds, Exact, Values
<1>3. w \in Seq(Int)
  <2>1. \A v \in Texts : Write("str", v) \in Seq(Int)
    BY <1>2, ValueWritten
  <2> QED
    BY <1>2, <2>1, ArrayWritten
<1> HIDE DEF n, w
<1>4. words \in Seq(Int) /\ Len(words) = 1 + Len(w) /\ Len(w) \in Nat
  BY <1>1, <1>3
<1>5. Ahead(p, words) /\ p.args = <<>>
  BY <1>4, AheadFresh
<1>9. p.words = words /\ p.pos = 0 /\ p.ok = TRUE
  BY DEF Parcel
<1> HIDE DEF p
<1> DEFINE args == Put(<<>>, "count", n)
<1>6. c = Past(p, 1, args) /\ Ahead(Past(p, 1, args), w)
  BY <1>1, <1>3, <1>5, IntBack
<1>7. c.ok = TRUE /\ c.args = args /\ c.args["count"] = n /\ c.words = words /\ c.pos = 1
  <2>1. c.ok = p.ok /\ c.args = args /\ c.words = p.words /\ c.pos = p.pos + 1
    BY <1>6, PastFields
  <2>2. args["count"] = n
    BY DEF Put
  <2> QED
    BY <1>9, <2>1, <2>2
<1> HIDE DEF c, args
<1>8. q = Past(c, Len(w), Put(args, "strings", s))
  <2>1. Ahead(c, WriteArray(s, "str"))
    BY <1>6 DEF w
  <2>2. ReadArray(c, "strings", Len(s), "str") = Past(c, Len(WriteArray(s, "str")), Put(c.args, "strings", s))
    BY <1>2, <2>1, ArrayReadsBack
  <2> QED
    BY <1>7, <2>2 DEF n, w
<1>10. q.args = Put(args, "strings", s) /\ q.words = words /\ q.pos = 1 + Len(w)
  BY <1>7, <1>8, PastFields
<1>11. q.args["strings"] = s /\ q.args["count"] = n
  BY <1>10 DEF Put, args
<1>12. dataAvail(q) = 0
  BY <1>4, <1>10 DEF dataAvail
<1>13. dispatchStrings(p) = onRequest(q)
  <2>1. dispatchStrings(p) = IF ~c.ok THEN invalidCommandBlock(c)
                             ELSE IF c.args["count"] = -1 THEN onRequest(Store(c, "strings", NULL))
                             ELSE onRequest(ReadArray(c, "strings", c.args["count"], "str"))
    BY Zenon DEF dispatchStrings, c
  <2> QED
    BY <1>1, <1>7, <2>1
<1>14. onRequest(q).valid = TRUE /\ onRequest(q).p = q
  BY DEF onRequest
<1> HIDE DEF q, words
<1>15. StringsBack(words, s)
  BY <1>11, <1>12, <1>13, <1>14 DEF StringsBack, p, n
<1> QED
  BY <1>15 DEF words, n, w


\* A block in front is read whole, and what is behind it is ahead then.
LEMMA BlockBack ==
    ASSUME NEW p, NEW f, NEW s \in Seq(Int), NEW w \in Seq(Int), Ahead(p, s \o w)
    PROVE  /\ readInplace(p, f, Len(s)) = Past(p, Len(s), Put(p.args, f, s))
           /\ Ahead(Past(p, Len(s), Put(p.args, f, s)), w)
<1> DEFINE n == Len(s)
           block == SubSeq(p.words, p.pos + 1, p.pos + n)
<1>1. n \in Nat
  BY LenProperties
<1>2. Ahead(p, s) /\ Ahead(Past(p, Len(s), Put(p.args, f, s)), w)
  BY AheadParts
<1>3. /\ IsParcel(p) /\ p.words \in Seq(Int) /\ p.pos \in Nat /\ Len(p.words) \in Nat
      /\ p.pos + n <= Len(p.words) /\ \A i \in 1..n : p.words[p.pos + i] = s[i]
  BY <1>2 DEF Ahead, Sound
<1>4. n \in 0..dataAvail(p)
  BY <1>1, <1>3 DEF dataAvail
<1>5. readInplace(p, f, n) = At(p, p.pos + n, p.ok, Put(p.args, f, block), p.cut)
  BY <1>3, <1>4, BlockIs, Zenon
<1>6. block = s
  <2> DEFINE x == p.words  k == p.pos
  <2> HIDE DEF x, k, n
  <2>1. x \in Seq(Int) /\ k \in Nat /\ k + n <= Len(x) /\ Len(x) \in Nat /\ \A i \in 1..n : x[k + i] = s[i]
    BY <1>3 DEF x, k
  <2> DEFINE y == SubSeq(x, k + 1, k + n)
  <2>2. y \in Seq(Int) /\ Len(y) = n /\ \A i \in 1..n : y[i] = x[k + i]
    <3> DEFINE a == k + 1  b == k + n
    <3>1. /\ a \in Int /\ b \in Int /\ (\A i \in a..b : i \in 1..Len(x)) /\ b - a + 1 = n
          /\ (a <= b \/ n = 0) /\ \A i \in 1..n : a + i - 1 = k + i
      BY <1>1, <2>1, SMTT(60)
    <3>2. \A i \in a..b : x[i] \in Int
      BY <2>1, <3>1, ElementOfSeq
    <3> HIDE DEF a, b
    <3>3. /\ SubSeq(x, a, b) \in Seq(Int)
          /\ Len(SubSeq(x, a, b)) = IF a <= b THEN b - a + 1 ELSE 0
          /\ \A i \in 1..(b - a + 1) : SubSeq(x, a, b)[i] = x[a + i - 1]
      BY <3>1, <3>2, SubSeqProperties
    <3>4. y = SubSeq(x, a, b)
      BY DEF a, b
    <3> HIDE DEF y
    <3> QED
      BY <3>1, <3>3, <3>4
  <2>3. s \in Seq(Int) /\ Len(s) = n
    BY DEF n
  <2> HIDE DEF y
  <2>4. y = s
    BY <2>1, <2>2, <2>3, SeqEqual
  <2> QED
    BY <2>4 DEF y, x, k
<1> HIDE DEF block
<1> QED
  BY <1>2, <1>5, <1>6 DEF Past

\* dispatchRaw takes from a parcel exactly the bytes that responseRaw puts into one,
\* nothing for no data.
LEMMA RawReadsBack ==
    ASSUME NEW r, FitsList(r), r.data = NULL \/ r.data \in Seq(Int)
    PROVE  LET back == dispatchRaw(Parcel(responseRaw(r).words)) IN
           back.valid = TRUE /\ back.p.args["data"] = Elements(r)
<1> DEFINE s == Elements(r)
           told == IF r.data = NULL THEN -1 ELSE Len(s)
           words == <<told>> \o s
           p == Parcel(words)
           c == readInt32(p, "len")
           len == IF c.args["len"] = -1 THEN 0 ELSE c.args["len"]
           q == Store(c, "len", len)
           all == readInplace(q, "data", len)
<1>1. s \in Seq(Int) /\ Len(s) \in Nat /\ told \in Int /\ told \in {-1, Len(s)} /\ (told = -1 => Len(s) = 0)
  BY LenProperties DEF Elements
<1>2. responseRaw(r).words = words
  <2>1. responseRaw(r).words = IF r.data = NULL THEN <<-1>> ELSE <<Len(r.data)>> \o r.data
    BY DEF responseRaw, DoneIf, Done
  <2>2. <<-1>> \o <<>> = <<-1>>
    OBVIOUS
  <2> QED
    BY <2>1, <2>2 DEF Elements
<1> HIDE DEF s, told
<1>3. words \in Seq(Int)
  BY <1>1
<1>4. Ahead(p, words) /\ p.args = <<>> /\ p.ok = TRUE
  <2>1. Ahead(p, words) /\ p.args = <<>>
    BY <1>3, AheadFresh
  <2> QED
    BY <2>1 DEF Ahead
<1>5. dispatchRaw(p) = IF ~c.ok THEN invalidCommandBlock(c) ELSE onRequest(all)
  BY Zenon DEF dispatchRaw
<1> DEFINE args == Put(p.args, "len", told)
<1> HIDE DEF p
<1>6. c = Past(p, 1, args) /\ Ahead(Past(p, 1, args), s)
  BY <1>1, <1>4, IntBack
<1>7. c.ok = TRUE /\ c.args["len"] = told /\ c.args = args /\ Ahead(c, s)
  <2>1. c.ok = p.ok /\ c.args = args
    BY <1>6, PastFields
  <2> QED
    BY <1>4, <1>6, <2>1 DEF Put
<1>8. len = Len(s)
  BY <1>1, <1>7
<1> HIDE DEF c, args, len
<1>9. Ahead(q, s)
  <2>1. q = Past(c, 0, Put(c.args, "len", len))
    BY <1>7, PastNothing DEF Ahead
  <2> HIDE DEF q
  <2> QED
    BY <1>7, <2>1, AheadAnyArgs
<1> HIDE DEF q
<1>10. all = Past(q, Len(s), Put(q.args, "data", s))
  <2> DEFINE none == <<>>
  <2>1. none \in Seq(Int) /\ s \o none = s
    BY <1>1, ConcatEmptySeq
  <2> HIDE DEF none
  <2>2. Ahead(q, s \o none)
    BY <1>9, <2>1
  <2> QED
    BY <1>1, <1>8, <2>1, <2>2, BlockBack
<1>11. all.args["data"] = s
  <2>1. all.args = Put(q.args, "data", s)
    BY <1>10, PastFields
  <2> QED
    BY <2>1 DEF Put
<1> HIDE DEF all
<1>12. dispatchRaw(p).valid = TRUE /\ dispatchRaw(p).p = all
  BY <1>5, <1>7 DEF onRequest
<1> QED
  BY <1>2, <1>11, <1>12 DEF p, s


\* Of a byte it makes no difference whether it is written as one or as a number.
LEMMA BytesAsNumbers ==
    ASSUME NEW a, NEW b, IsLayout(a), IsLayout(b), Len(a) = Len(b),
           \A i \in 1..Len(b) : /\ a[i][1] = b[i][1]
                                /\ a[i][2] = b[i][2] \/ (a[i][2] = "int" /\ b[i][2] = "byte"),
           NEW d, HasFields(d, b)
    PROVE  WriteStruct(d, a) = WriteStruct(d, b)
<1>1. DOMAIN a = 1..Len(b) /\ DOMAIN b = 1..Len(b)
  BY DEF IsLayout
<1>2. ASSUME NEW v \in 0..255 PROVE Write("byte", v) = Write("int", v)
  <2>1. v % 256 = v
    BY SMTT(60)
  <2>2. Write("byte", v) = <<v % 256>> /\ Write("int", v) = <<v>>
    BY DEF Write
  <2> QED
    BY <2>1, <2>2
<1>3. ASSUME NEW i \in 1..Len(b) PROVE Write(a[i][2], d[a[i][1]]) = Write(b[i][2], d[b[i][1]])
  <2>1. CASE a[i][2] = b[i][2]
    BY <2>1
  <2>2. CASE a[i][2] = "int" /\ b[i][2] = "byte"
    <3>1. d[b[i][1]] \in 0..255
      BY <2>2 DEF HasFields, Exact
    <3> QED
      BY <1>2, <2>2, <3>1
  <2> QED
    BY <2>1, <2>2
<1>4. [i \in DOMAIN a |-> Write(a[i][2], d[a[i][1]])] = [i \in DOMAIN b |-> Write(b[i][2], d[b[i][1]])]
  BY <1>1, <1>3
<1> QED
  BY <1>4, Zenon DEF WriteStruct

\* Structures behind their number are read back by DispatchRows.
LEMMA ListReadsBack ==
    ASSUME NEW layout, IsLayout(layout), NEW s, IsStructs(s, layout)
    PROVE  LET back == DispatchRows(Parcel(<<Len(s)>> \o WriteRows(s, layout)), layout) IN
           back.valid = TRUE /\ back.p.args["rows"] = s
<1> DEFINE n == Len(s)
           w == WriteRows(s, layout)
           words == <<n>> \o w
           p == Parcel(words)
           c == readInt32(p, "num")
           q == ReadRows(c, "rows", c.args["num"], layout)
<1>1. s \in Seq(Range(s)) /\ \A d \in Range(s) : IsStruct(d, layout)
  BY DEF IsStructs, Range
<1>2. ASSUME NEW d \in Range(s)
      PROVE  Holds(d, layout) /\ DOMAIN d = Names(layout) /\ IsMap(d)
  <2>1. d = [f \in Names(layout) |-> d[f]] /\ HasFields(d, layout)
    BY <1>1 DEF IsStruct
  <2>2. DOMAIN d = Names(layout)
    BY <2>1
  <2>3. IsMap(d)
    BY <2>1, <2>2 DEF IsMap
  <2> QED
    BY <2>1, <2>2, <2>3 DEF Holds
<1> DEFINE S == Range(s)
<1> HIDE DEF S
<1>3. s \in Seq(S) /\ \A d \in S : Holds(d, layout) /\ DOMAIN d = Names(layout) /\ IsMap(d)
  BY <1>1, <1>2 DEF S
<1>4. n \in Nat
  BY <1>1, LenProperties
<1>5. w \in Seq(Int)
  <2> DEFINE seqs == [i \in DOMAIN s |-> WriteStruct(s[i], layout)]
  <2>1. DOMAIN s = 1..n /\ \A i \in 1..n : s[i] \in S
    BY <1>3, LenProperties, ElementOfSeq
  <2>2. \A i \in 1..n : WriteStruct(s[i], layout) \in Seq(Int)
    BY <1>3, <2>1, StructWritten
  <2>3. seqs \in Seq(Seq(Int))
    BY <1>4, <2>1, <2>2, SeqDef
  <2>4. w = FlattenSeq(seqs)
    BY DEF WriteRows
  <2> HIDE DEF seqs
  <2> QED
    BY <2>3, <2>4, FlattenType
<1> HIDE DEF n, w
<1>6. words \in Seq(Int)
  BY <1>4, <1>5
<1>7. Ahead(p, words) /\ p.args = <<>> /\ p.ok = TRUE
  <2>1. Ahead(p, words) /\ p.args = <<>>
    BY <1>6, AheadFresh
  <2> QED
    BY <2>1 DEF Ahead
<1>8. DispatchRows(p, layout) = IF ~c.ok THEN invalidCommandBlock(c) ELSE OnRequestIf(q.ok, q)
  BY Zenon DEF DispatchRows
<1> DEFINE args == Put(p.args, "num", n)
<1> HIDE DEF p
<1>9. c = Past(p, 1, args) /\ Ahead(Past(p, 1, args), w)
  BY <1>4, <1>5, <1>7, IntBack
<1>10. c.ok = TRUE /\ c.args["num"] = n /\ Ahead(c, w)
  <2>1. c.ok = p.ok /\ c.args = args
    BY <1>9, PastFields
  <2> QED
    BY <1>7, <1>9, <2>1 DEF Put
<1> HIDE DEF c
<1>11. q = Past(c, Len(w), Put(c.args, "rows", s))
  BY <1>3, <1>10, RowsReadBack DEF n, w
<1>12. q.ok = TRUE /\ q.args["rows"] = s
  <2>1. q.ok = c.ok /\ q.args = Put(c.args, "rows", s)
    BY <1>11, PastFields
  <2> QED
    BY <1>10, <2>1 DEF Put
<1> HIDE DEF q
<1>13. DispatchRows(p, layout).valid = TRUE /\ DispatchRows(p, layout).p = q
  BY <1>8, <1>10, <1>12 DEF OnRequestIf, onRequest
<1> QED
  BY <1>12, <1>13 DEF p, n, w


\* The fields of the configurations: one list of numbers, as the response functions
\* have it, and one that says which are bytes, as the dispatch functions do.
LEMMA BrWritten ==
    /\ \A s : IsStructs(s, GsmBrLayout) =>
           WriteRows(s, Ints(<<"fromServiceId", "toServiceId", "fromCodeScheme", "toCodeScheme",
                               "selected">>)) = WriteRows(s, GsmBrLayout)
    /\ \A s : IsStructs(s, CdmaBrLayout) =>
           WriteRows(s, Ints(<<"service_category", "language", "selected">>))
               = WriteRows(s, CdmaBrLayout)
<1> DEFINE g == <<"fromServiceId", "toServiceId", "fromCodeScheme", "toCodeScheme">>
           c == <<"service_category", "language">>
           s == <<"selected">>
           gs == <<"fromServiceId", "toServiceId", "fromCodeScheme", "toCodeScheme", "selected">>
           cs == <<"service_category", "language", "selected">>
           like(a, b) ==
               /\ IsLayout(a) /\ IsLayout(b) /\ Len(a) = Len(b)
               /\ \A i \in 1..Len(b) : /\ a[i][1] = b[i][1]
                                       /\ a[i][2] = b[i][2] \/ (a[i][2] = "int" /\ b[i][2] = "byte")
<1>1. ASSUME NEW a, NEW b, like(a, b), NEW t, IsStructs(t, b)
      PROVE  WriteRows(t, a) = WriteRows(t, b)
  <2>1. \A i \in DOMAIN t : HasFields(t[i], b)
    BY <1>1 DEF IsStructs, IsStruct
  <2>2. \A i \in DOMAIN t : WriteStruct(t[i], a) = WriteStruct(t[i], b)
    BY <1>1, <2>1, BytesAsNumbers
  <2>3. [i \in DOMAIN t |-> WriteStruct(t[i], a)] = [i \in DOMAIN t |-> WriteStruct(t[i], b)]
    BY <2>2
  <2> QED
    BY <2>3, Zenon DEF WriteRows
<1>2. /\ g \in Seq({"fromServiceId", "toServiceId", "fromCodeScheme", "toCodeScheme"})
      /\ gs \in Seq({"fromServiceId", "toServiceId", "fromCodeScheme", "toCodeScheme", "selected"})
      /\ c \in Seq({"service_category", "language"})
      /\ cs \in Seq({"service_category", "language", "selected"})
      /\ s \in Seq({"selected"})
      /\ Len(g) = 4 /\ Len(gs) = 5 /\ Len(c) = 2 /\ Len(cs) = 3 /\ Len(s) = 1
      /\ (\A i \in 1..4 : gs[i] = g[i]) /\ gs[5] = s[1]
      /\ (\A i \in 1..2 : cs[i] = c[i]) /\ cs[3] = s[1]
  OBVIOUS
<1>3. GsmBrLayout = Ints(g) \o Bytes(s) /\ CdmaBrLayout = Ints(c) \o Bytes(s)
  BY DEF GsmBrLayout, CdmaBrLayout
<1> HIDE DEF g, c, s, gs, cs
<1>4. ASSUME NEW S, NEW T, NEW x \in Seq(S), NEW xs \in Seq(T), Len(xs) = Len(x) + 1, Len(s) = 1,
             \A i \in 1..Len(x) : xs[i] = x[i], xs[Len(x) + 1] = s[1]
      PROVE  like(Ints(xs), Ints(x) \o Bytes(s))
  <2> DEFINE n == Len(x)  a == Ints(xs)  b == Ints(x) \o Bytes(s)
  <2>1. n \in Nat /\ DOMAIN x = 1..n /\ DOMAIN xs = 1..(n + 1) /\ DOMAIN s = 1..1
    BY <1>2, <1>4, LenProperties
  <2>2. /\ IsLayout(a) /\ IsLayout(Ints(x)) /\ IsLayout(Bytes(s))
    BY <1>2, NumbersFit
  <2>3. /\ DOMAIN a = 1..(n + 1) /\ DOMAIN Ints(x) = 1..n /\ DOMAIN Bytes(s) = 1..1
    BY <2>1 DEF Ints, Bytes
  <2>4. Len(a) = n + 1 /\ Len(Ints(x)) = n /\ Len(Bytes(s)) = 1
    <3>1. DOMAIN a = 1..Len(a) /\ DOMAIN Ints(x) = 1..Len(Ints(x)) /\ DOMAIN Bytes(s) = 1..Len(Bytes(s))
          /\ Len(a) \in Nat /\ Len(Ints(x)) \in Nat /\ Len(Bytes(s)) \in Nat
      BY <2>2 DEF IsLayout
    <3> HIDE DEF a, n
    <3> QED
      BY <2>1, <2>3, <3>1
  <2>5. /\ IsLayout(b) /\ Len(b) = n + 1 /\ (\A i \in 1..n : b[i] = Ints(x)[i])
        /\ b[n + 1] = Bytes(s)[1]
    <3> DEFINE y == Ints(x)  z == Bytes(s)
    <3> HIDE DEF y, z
    <3>1. /\ IsLayout(y \o z) /\ Len(y \o z) = Len(y) + Len(z)
          /\ (\A i \in 1..Len(y) : (y \o z)[i] = y[i])
          /\ \A i \in 1..Len(z) : (y \o z)[Len(y) + i] = z[i]
      BY <2>2, JoinedLayout DEF y, z
    <3>2. Len(y) = n /\ Len(z) = 1 /\ b = y \o z
      BY <2>4 DEF y, z
    <3> HIDE DEF b
    <3> QED
      BY <3>1, <3>2 DEF y, z
  <2>6. /\ \A i \in 1..(n + 1) : a[i] = <<xs[i], "int">>
        /\ \A i \in 1..n : Ints(x)[i] = <<x[i], "int">>
        /\ Bytes(s)[1] = <<s[1], "byte">>
    BY <2>1 DEF Ints, Bytes
  <2> HIDE DEF a, b, n
  <2>7. ASSUME NEW i \in 1..(n + 1)
        PROVE  a[i][1] = b[i][1] /\ (a[i][2] = b[i][2] \/ (a[i][2] = "int" /\ b[i][2] = "byte"))
    <3>1. CASE i \in 1..n
      <4>1. a[i] = b[i]
        BY <1>4, <2>5, <2>6, <3>1 DEF n
      <4> QED
        BY <4>1
    <3>2. CASE i = n + 1
      <4>1. a[i] = <<s[1], "int">> /\ b[i] = <<s[1], "byte">>
        BY <1>4, <2>5, <2>6, <3>2 DEF n
      <4> QED
        BY <4>1
    <3> QED
      BY <2>1, <3>1, <3>2
  <2> QED
    BY <2>2, <2>4, <2>5, <2>7 DEF a, b
<1>5. like(Ints(gs), GsmBrLayout) /\ like(Ints(cs), CdmaBrLayout)
  <2> HIDE DEF like
  <2> DEFINE S == {"fromServiceId", "toServiceId", "fromCodeScheme", "toCodeScheme"}
             T == {"fromServiceId", "toServiceId", "fromCodeScheme", "toCodeScheme", "selected"}
             U == {"service_category", "language"}
             V == {"service_category", "language", "selected"}
  <2>3. g \in Seq(S) /\ gs \in Seq(T) /\ c \in Seq(U) /\ cs \in Seq(V)
    BY <1>2
  <2> HIDE DEF S, T, U, V
  <2>4. /\ Len(gs) = Len(g) + 1 /\ Len(s) = 1 /\ (\A i \in 1..Len(g) : gs[i] = g[i])
        /\ gs[Len(g) + 1] = s[1]
    BY <1>2
  <2>5. /\ Len(cs) = Len(c) + 1 /\ (\A i \in 1..Len(c) : cs[i] = c[i]) /\ cs[Len(c) + 1] = s[1]
    BY <1>2
  <2>1. like(Ints(gs), Ints(g) \o Bytes(s))
    BY <1>4, <2>3, <2>4, Zenon
  <2>2. like(Ints(cs), Ints(c) \o Bytes(s))
    BY <1>4, <2>3, <2>4, <2>5, Zenon
  <2> QED
    BY <1>3, <2>1, <2>2
<1> QED
  <2> HIDE DEF like
  <2>1. \A t : IsStructs(t, GsmBrLayout) => WriteRows(t, Ints(gs)) = WriteRows(t, GsmBrLayout)
    BY <1>1, <1>5
  <2>2. \A t : IsStructs(t, CdmaBrLayout) => WriteRows(t, Ints(cs)) = WriteRows(t, CdmaBrLayout)
    BY <1>1, <1>5
  <2> QED
    BY <2>1, <2>2 DEF gs, cs


LEMMA Regroup ==
    ASSUME NEW S, NEW s \in Seq(S), NEW t \in Seq(S), NEW u \in Seq(S)
    PROVE  (s \o t) \o u = s \o (t \o u) /\ s \o t \in Seq(S) /\ Len(s \o t) = Len(s) + Len(t)
<1>1. (s \o t) \o u = s \o (t \o u)
  OBVIOUS
<1>2. s \o t \in Seq(S) /\ Len(s \o t) = Len(s) + Len(t)
  BY ConcatProperties
<1> QED
  BY <1>1, <1>2

\* How much is left behind what was read.
LEMMA LeftBehind ==
    ASSUME NEW p, NEW u \in Seq(Int), NEW v \in Seq(Int), Ahead(p, u \o v),
           dataAvail(p) = Len(u \o v), NEW args
    PROVE  dataAvail(Past(p, Len(u), args)) = Len(v)
<1>1. Len(u \o v) = Len(u) + Len(v) /\ Len(u) \in Nat /\ Len(v) \in Nat
  BY Regroup, LenProperties
<1>2. p.pos \in Nat /\ Len(p.words) \in Nat
  BY DEF Ahead, Sound
<1> DEFINE q == Past(p, Len(u), args)
<1>3. q.words = p.words /\ q.pos = p.pos + Len(u)
  BY PastFields
<1> HIDE DEF q
<1>4. dataAvail(q) = Len(v)
  BY <1>1, <1>2, <1>3, SMTT(60) DEF dataAvail
<1> QED
  BY <1>4 DEF q

\* A structure in front is read back.
LEMMA StructAhead ==
    ASSUME NEW p, NEW layout, NEW d, Holds(d, layout), NEW w \in Seq(Int),
           Ahead(p, WriteStruct(d, layout) \o w), IsMap(p.args)
    PROVE  LET q == Past(p, Len(WriteStruct(d, layout)), Over(p.args, Names(layout), d)) IN
           ReadStruct(p, layout) = q /\ Ahead(q, w)
<1>1. WriteStruct(d, layout) \in Seq(Int)
  BY StructWritten
<1> DEFINE u == WriteStruct(d, layout)
<1> HIDE DEF u
<1>2. Ahead(p, u) /\ Ahead(Past(p, Len(u), Over(p.args, Names(layout), d)), w)
  BY <1>1, AheadParts DEF u
<1> QED
  BY <1>2, StructReadsBack DEF u

\* An array in front is read back.
LEMMA ArrayAhead ==
    ASSUME NEW p, NEW f, NEW kind \in Kinds, NEW s \in Seq(Exact(kind)), NEW w \in Seq(Int),
           Ahead(p, WriteArray(s, kind) \o w)
    PROVE  LET q == Past(p, Len(WriteArray(s, kind)), Put(p.args, f, s)) IN
           ReadArray(p, f, Len(s), kind) = q /\ Ahead(q, w)
<1> DEFINE u == WriteArray(s, kind)
<1>1. u \in Seq(Int)
  <2>1. \A v \in Exact(kind) : Write(kind, v) \in Seq(Int)
    BY ExactIsValue, ValueWritten
  <2> QED
    BY <2>1, ArrayWritten
<1> HIDE DEF u
<1>2. Ahead(p, u) /\ Ahead(Past(p, Len(u), Put(p.args, f, s)), w)
  BY <1>1, AheadParts DEF u
<1> QED
  BY <1>2, ArrayReadsBack DEF u

LEMMA NoneOfThem ==
    ASSUME NEW p, NEW f, NEW n \in Int, NEW m, m = Times(n), NEW kind
    PROVE  ReadArray(p, f, n, kind) = ReadArray(p, f, m, kind)
<1>1. Times(m) = m
  BY DEF Times
<1> QED
  BY <1>1 DEF ReadArray, Repeat

LEMMA BytesOf ==
    ASSUME NEW max \in Nat, NEW a \in [1..max -> 0..255]
    PROVE  a \in Seq(0..255) /\ Len(a) = max
<1> DEFINE S == 0..255
<1>1. a \in [1..max -> S]
  OBVIOUS
<1> HIDE DEF S
<1>2. a \in Seq(S)
  BY <1>1, SeqDef
<1>3. Len(a) \in Nat /\ DOMAIN a = 1..Len(a)
  BY <1>2, LenProperties
<1>4. DOMAIN a = 1..max
  BY <1>1
<1>5. Len(a) = max
  BY <1>3, <1>4
<1> QED
  BY <1>2, <1>5 DEF S

\* As many bytes of an array as are announced and fit.
Part(a, n, max) == SubSeq(a, 1, IF n < max THEN n ELSE max)

CountedRead(p, f, count, max, part, w) ==
    LET q == Past(p, Len(WriteArray(part, "byte")), Put(p.args, f, part)) IN
    /\ ReadCounted(p, f, count, max) = q /\ Ahead(q, w)
    /\ WriteArray(part, "byte") \in Seq(Int)

LEMMA CountedBack ==
    ASSUME NEW p, NEW f, NEW count, NEW max \in Nat, p.args[count] \in Int,
           NEW a \in [1..max -> 0..255], NEW w \in Seq(Int),
           NEW part, part = Part(a, p.args[count], max),
           Ahead(p, WriteArray(part, "byte") \o w)
    PROVE  CountedRead(p, f, count, max, part, w)
<1> DEFINE n == IF p.args[count] < max THEN p.args[count] ELSE max
<1>1. n \in Int /\ n <= max /\ p.args[count] # Unread
  BY ParcelAssumption
<1>2. ReadCounted(p, f, count, max) = ReadArray(p, f, n, "byte")
  BY <1>1, Zenon DEF ReadCounted, Limit
<1> HIDE DEF n
<1>3. a \in Seq(0..255) /\ Len(a) = max
  BY BytesOf
<1>4. part \in Seq(0..255) /\ Len(part) = Times(n)
  <2>1. \A i \in 1..n : i \in 1..max /\ a[i] \in 0..255
    BY <1>1, SMTT(60)
  <2>2. part = SubSeq(a, 1, n)
    BY DEF n, Part
  <2>3. /\ SubSeq(a, 1, n) \in Seq(0..255)
        /\ Len(SubSeq(a, 1, n)) = IF 1 <= n THEN n - 1 + 1 ELSE 0
    BY <1>1, <2>1, SubSeqProperties, SMTT(60)
  <2> QED
    BY <1>1, <2>2, <2>3 DEF Times
<1>5. ReadArray(p, f, n, "byte") = ReadArray(p, f, Len(part), "byte")
  BY <1>1, <1>4, NoneOfThem
<1>6. "byte" \in Kinds /\ part \in Seq(Exact("byte")) /\ Values("byte") = Int
  BY <1>4 DEF Kinds, Exact, Values
<1>7. WriteArray(part, "byte") \in Seq(Int)
  <2>1. \A v \in Exact("byte") : Write("byte", v) \in Seq(Int)
    BY <1>6, ExactIsValue, ValueWritten
  <2> QED
    BY <1>6, <2>1, ArrayWritten
<1> QED
  BY <1>2, <1>5, <1>6, <1>7, ArrayAhead DEF CountedRead


\* Exactly w is left of p, and args was read.
Left(p, w, args) == Ahead(p, w) /\ dataAvail(p) = Len(w) /\ p.args = args

LEMMA StructLeft ==
    ASSUME NEW p, NEW layout, NEW d, Holds(d, layout), NEW w \in Seq(Int), NEW args, IsMap(args),
           Left(p, WriteStruct(d, layout) \o w, args)
    PROVE  Left(ReadStruct(p, layout), w, Over(args, Names(layout), d))
<1> DEFINE u == WriteStruct(d, layout)
           q == Past(p, Len(u), Over(args, Names(layout), d))
<1>1. u \in Seq(Int)
  BY StructWritten
<1>2. Ahead(p, u \o w) /\ dataAvail(p) = Len(u \o w) /\ p.args = args
  BY DEF Left
<1>3. ReadStruct(p, layout) = q /\ Ahead(q, w)
  BY <1>2, StructAhead
<1> HIDE DEF u
<1>4. dataAvail(q) = Len(w) /\ q.args = Over(args, Names(layout), d)
  BY <1>1, <1>2, LeftBehind, PastFields
<1> QED
  BY <1>3, <1>4 DEF Left

LEMMA CountedLeft ==
    ASSUME NEW p, NEW f, NEW count, NEW max \in Nat, NEW args, args[count] \in Int,
           NEW a \in [1..max -> 0..255], NEW w \in Seq(Int),
           NEW part, part = Part(a, args[count], max),
           Left(p, WriteArray(part, "byte") \o w, args)
    PROVE  Left(ReadCounted(p, f, count, max), w, Put(args, f, part))
<1> DEFINE u == WriteArray(part, "byte")
           q == Past(p, Len(u), Put(args, f, part))
<1>2. Ahead(p, u \o w) /\ dataAvail(p) = Len(u \o w) /\ p.args = args
  BY DEF Left
<1>3. ReadCounted(p, f, count, max) = q /\ Ahead(q, w) /\ u \in Seq(Int)
  <2>1. p.args[count] \in Int
    BY <1>2
  <2>2. part = Part(a, p.args[count], max)
    BY <1>2
  <2>3. Ahead(p, WriteArray(part, "byte") \o w)
    BY <1>2
  <2>4. CountedRead(p, f, count, max, part, w)
    BY <2>1, <2>2, <2>3, CountedBack
  <2> QED
    BY <1>2, <2>4 DEF CountedRead
<1> HIDE DEF u
<1>4. dataAvail(q) = Len(w) /\ q.args = Put(args, f, part)
  BY <1>2, <1>3, LeftBehind, PastFields
<1> QED
  BY <1>3, <1>4 DEF Left

\* A structure of one number is that number.
LEMMA OneField ==
    ASSUME NEW p, NEW f
    PROVE  ReadStruct(p, Ints(<<f>>)) = readInt32(p, f)
<1> DEFINE layout == Ints(<<f>>)
<1>1. Len(layout) = 1 /\ layout[1] = <<f, "int">>
  BY DEF Ints
<1> HIDE DEF layout
<1>2. PICK r : /\ r[0] = p /\ ReadStruct(p, layout) = r[Len(layout)]
               /\ \A i \in 1..Len(layout) : r[i] = Read(r[i - 1], layout[i])
  <2>1. Len(layout) \in Nat
    BY <1>1
  <2> QED
    BY <2>1, StructRun
<1>3. r[1] = Read(p, <<f, "int">>)
  BY <1>1, <1>2
<1> QED
  BY <1>1, <1>2, <1>3 DEF Read, layout

\* One sequence, laid end to end, is itself.
LEMMA FlattenOne ==
    ASSUME NEW S, NEW s \in Seq(S)
    PROVE  FlattenSeq(<<s>>) = s
<1> DEFINE seqs == <<s>>
<1>1. seqs \in Seq(Seq(S)) /\ Len(seqs) = 1 /\ seqs[1] = s
  OBVIOUS
<1> HIDE DEF seqs
<1>2. PICK b : Beginnings(b, seqs, S)
  BY <1>1, FlattenBegins
<1>3. b[1] = <<>> \o s /\ FlattenSeq(seqs) = b[1]
  <2>1. \A i \in 1..1 : b[i] = b[i - 1] \o seqs[i]
    BY <1>1, <1>2 DEF Beginnings
  <2>2. b[1] = b[0] \o seqs[1]
    <3>1. 1 \in 1..1 /\ 1 - 1 = 0
      OBVIOUS
    <3>2. b[1] = b[1 - 1] \o seqs[1]
      BY <2>1, <3>1, Zenon
    <3> QED
      BY <3>1, <3>2
  <2> QED
    BY <1>1, <1>2, <2>2 DEF Beginnings
<1>4. <<>> \o s = s
  OBVIOUS
<1> QED
  BY <1>3, <1>4 DEF seqs

\* The names of a message's fields.
LEMMA FieldNames ==
    ASSUME NEW S, NEW names \in Seq(S)
    PROVE  Names(Ints(names)) = {names[i] : i \in DOMAIN names}
           /\ Names(Bytes(names)) = {names[i] : i \in DOMAIN names}
<1>1. Len(names) \in Nat /\ DOMAIN names = 1..Len(names)
  BY LenProperties
<1> DEFINE a == Ints(names)  b == Bytes(names)
<1>2. /\ DOMAIN a = 1..Len(names) /\ (\A i \in 1..Len(names) : a[i][1] = names[i])
      /\ DOMAIN b = 1..Len(names) /\ (\A i \in 1..Len(names) : b[i][1] = names[i])
  BY <1>1 DEF Ints, Bytes
<1>3. /\ DOMAIN a = 1..Len(a) /\ Len(a) \in Nat
      /\ DOMAIN b = 1..Len(b) /\ Len(b) \in Nat
  BY NumbersFit DEF IsLayout
<1> HIDE DEF a, b
<1>4. Len(a) = Len(names) /\ Len(b) = Len(names)
  BY <1>1, <1>2, <1>3
<1>5. Names(a) = {names[i] : i \in DOMAIN names} /\ Names(b) = {names[i] : i \in DOMAIN names}
  BY <1>1, <1>2, <1>4, SMTT(60) DEF Names
<1> QED
  BY <1>5 DEF a, b


LEMMA MessageNames ==
    /\ IsLayout(CdmaHead) /\ IsLayout(CdmaSubaddress) /\ IsLayout(Ints(<<"uBearerDataLen">>))
    /\ Names(CdmaHead) = {"uTeleserviceID", "bIsServicePresent", "uServicecategory", "digit_mode",
                          "number_mode", "number_type", "number_plan", "number_of_digits"}
    /\ Names(CdmaSubaddress) = {"subaddressType", "odd", "sub_digits"}
    /\ Names(Ints(<<"uBearerDataLen">>)) = {"uBearerDataLen"}
<1> DEFINE a == <<"uTeleserviceID">>
           b == <<"bIsServicePresent">>
           c == <<"uServicecategory", "digit_mode", "number_mode", "number_type", "number_plan">>
           d == <<"number_of_digits">>
           e == <<"subaddressType">>
           g == <<"odd", "sub_digits">>
           h == <<"uBearerDataLen">>
           of(names) == {names[i] : i \in DOMAIN names}
           C == {"uServicecategory", "digit_mode", "number_mode", "number_type", "number_plan"}
           G == {"odd", "sub_digits"}
<1>1. a \in Seq(of(a)) /\ of(a) = {"uTeleserviceID"} /\ b \in Seq(of(b)) /\ of(b) = {"bIsServicePresent"}
  OBVIOUS
<1>2. c \in Seq(of(c)) /\ of(c) = C
  OBVIOUS
<1>3. d \in Seq(of(d)) /\ of(d) = {"number_of_digits"} /\ e \in Seq(of(e)) /\ of(e) = {"subaddressType"}
  OBVIOUS
<1>4. g \in Seq(of(g)) /\ of(g) = G /\ h \in Seq(of(h)) /\ of(h) = {"uBearerDataLen"}
  OBVIOUS
<1>5. /\ CdmaHead = Ints(a) \o Bytes(b) \o Ints(c) \o Bytes(d)
      /\ CdmaSubaddress = Ints(e) \o Bytes(g)
  BY DEF CdmaHead, CdmaSubaddress
<1> HIDE DEF a, b, c, d, e, g, h
<1>6. ASSUME NEW names, names \in Seq(of(names))
      PROVE  /\ IsLayout(Ints(names)) /\ IsLayout(Bytes(names))
             /\ Names(Ints(names)) = of(names) /\ Names(Bytes(names)) = of(names)
  BY <1>6, NumbersFit, FieldNames
<1> HIDE DEF of, C, G
<1>7. ASSUME NEW x, NEW y, IsLayout(x), IsLayout(y)
      PROVE  IsLayout(x \o y) /\ Names(x \o y) = Names(x) \cup Names(y)
  BY <1>7, JoinedLayout, StructParts
<1>8. /\ IsLayout(Ints(a)) /\ Names(Ints(a)) = {"uTeleserviceID"}
      /\ IsLayout(Bytes(b)) /\ Names(Bytes(b)) = {"bIsServicePresent"}
      /\ IsLayout(Ints(c)) /\ Names(Ints(c)) = C
      /\ IsLayout(Bytes(d)) /\ Names(Bytes(d)) = {"number_of_digits"}
  BY <1>1, <1>2, <1>3, <1>6
<1>9. /\ IsLayout(Ints(e)) /\ Names(Ints(e)) = {"subaddressType"}
      /\ IsLayout(Bytes(g)) /\ Names(Bytes(g)) = G
      /\ IsLayout(Ints(h)) /\ Names(Ints(h)) = {"uBearerDataLen"}
  BY <1>3, <1>4, <1>6
<1>10. IsLayout(Ints(a) \o Bytes(b)) /\ IsLayout(Ints(a) \o Bytes(b) \o Ints(c))
       /\ IsLayout(CdmaHead) /\ IsLayout(CdmaSubaddress)
  BY <1>5, <1>7, <1>8, <1>9
<1>11. /\ Names(CdmaHead) = (({"uTeleserviceID"} \cup {"bIsServicePresent"}) \cup C) \cup {"number_of_digits"}
       /\ Names(CdmaSubaddress) = {"subaddressType"} \cup G
  BY <1>5, <1>7, <1>8, <1>9, <1>10, SMTT(60)
<1> QED
  BY <1>9, <1>10, <1>11 DEF C, G, h

\* Six parts of a message, read from the front.
SixParts(all, a, b, c, d, e, g) ==
    LET v5 == g \o <<>>  v4 == e \o v5  v3 == d \o v4  v2 == c \o v3  v1 == b \o v2 IN
    /\ all = a \o v1 /\ {all, v1, v2, v3, v4, v5} \subseteq Seq(Int)

SameWords(u, v) == u = v

LEMMA Shift ==
    ASSUME NEW x \in Seq(Int), NEW y \in Seq(Int), NEW z \in Seq(Int),
           NEW xy, xy = x \o y, NEW yz, yz = y \o z
    PROVE  SameWords(xy \o z, x \o yz)
  BY Regroup, SMTT(60) DEF SameWords

LEMMA RegroupSix ==
    ASSUME NEW a \in Seq(Int), NEW b \in Seq(Int), NEW c \in Seq(Int),
           NEW d \in Seq(Int), NEW e \in Seq(Int), NEW g \in Seq(Int)
    PROVE  SixParts(a \o b \o c \o d \o e \o g, a, b, c, d, e, g)
<1> DEFINE v5 == g \o <<>>  v4 == e \o v5  v3 == d \o v4  v2 == c \o v3  v1 == b \o v2
           ab == a \o b  abc == ab \o c  abcd == abc \o d  abcde == abcd \o e
<1>1. v5 = g
  OBVIOUS
<1>2. /\ v4 = e \o v5 /\ v3 = d \o v4 /\ v2 = c \o v3 /\ v1 = b \o v2
      /\ ab = a \o b /\ abc = ab \o c /\ abcd = abc \o d /\ abcde = abcd \o e
  OBVIOUS
<1> HIDE DEF v5, v4, v3, v2, v1, ab, abc, abcd, abcde
<1>3. v4 \in Seq(Int)
  BY <1>1, <1>2, Regroup
<1>4. v3 \in Seq(Int)
  BY <1>2, <1>3, Regroup
<1>5. v2 \in Seq(Int)
  BY <1>2, <1>4, Regroup
<1>6. v1 \in Seq(Int) /\ ab \in Seq(Int)
  BY <1>2, <1>5, Regroup
<1>7. abc \in Seq(Int)
  BY <1>2, <1>6, Regroup
<1>8. abcd \in Seq(Int)
  BY <1>2, <1>7, Regroup
<1>9. abcde \in Seq(Int)
  BY <1>2, <1>8, Regroup
<1>10. SameWords(abcde \o v5, abcd \o v4)
  BY <1>1, <1>2, <1>8, Shift
<1>11. SameWords(abcd \o v4, abc \o v3)
  BY <1>2, <1>3, <1>7, Shift
<1>12. SameWords(abc \o v3, ab \o v2)
  BY <1>2, <1>4, <1>6, Shift
<1>13. SameWords(ab \o v2, a \o v1)
  BY <1>2, <1>5, Shift
<1>14. abcde \o g = a \o v1 /\ abcde \o g \in Seq(Int)
  <2>1. abcde \o g \in Seq(Int)
    BY <1>9, Regroup
  <2> QED
    BY <1>1, <1>10, <1>11, <1>12, <1>13, <2>1, Zenon DEF SameWords
<1>15. {abcde \o g, v1, v2, v3, v4, v5} \subseteq Seq(Int)
  BY <1>1, <1>3, <1>4, <1>5, <1>6, <1>14
<1> QED
  BY <1>14, <1>15, Zenon DEF SixParts, v5, v4, v3, v2, v1, ab, abc, abcd, abcde

\* A message as ril.h declares it.
Message(d) ==
    LET layout == CdmaHead \o CdmaSubaddress \o Ints(<<"uBearerDataLen">>) IN
    /\ DOMAIN d = Names(layout) \cup {"digits", "subdigits", "aBearerData"}
    /\ HasFields(d, layout) /\ d["digits"] \in [1..AddressMax -> 0..255]
    /\ d["subdigits"] \in [1..SubaddressMax -> 0..255]
    /\ d["aBearerData"] \in [1..BearerMax -> 0..255]

\* The digits of it that are told.
First(d, f, count, max) == Part(d[f], d[count], max)

\* What was read after each of its parts.
ArgsOf(d, i) ==
    LET head == Over(<<>>, Names(CdmaHead), d)
        digits == Put(head, "digits", First(d, "digits", "number_of_digits", AddressMax))
        sub == Over(digits, Names(CdmaSubaddress), d)
        subdigits == Put(sub, "subdigits", First(d, "subdigits", "sub_digits", SubaddressMax))
        len == Over(subdigits, Names(Ints(<<"uBearerDataLen">>)), d)
        all == Put(len, "aBearerData", First(d, "aBearerData", "uBearerDataLen", BearerMax))
    IN  CASE i = 0 -> <<>> [] i = 1 -> head [] i = 2 -> digits [] i = 3 -> sub
          [] i = 4 -> subdigits [] i = 5 -> len [] i = 6 -> all

LEMMA MessageArgs ==
    ASSUME NEW d
    PROVE  /\ IsMap(ArgsOf(d, 0)) /\ IsMap(ArgsOf(d, 2)) /\ IsMap(ArgsOf(d, 4))
           /\ ArgsOf(d, 1) = Over(ArgsOf(d, 0), Names(CdmaHead), d)
           /\ ArgsOf(d, 2) = Put(ArgsOf(d, 1), "digits", First(d, "digits", "number_of_digits", AddressMax))
           /\ ArgsOf(d, 3) = Over(ArgsOf(d, 2), Names(CdmaSubaddress), d)
           /\ ArgsOf(d, 4) = Put(ArgsOf(d, 3), "subdigits", First(d, "subdigits", "sub_digits", SubaddressMax))
           /\ ArgsOf(d, 5) = Over(ArgsOf(d, 4), Names(Ints(<<"uBearerDataLen">>)), d)
           /\ ArgsOf(d, 6) = Put(ArgsOf(d, 5), "aBearerData", First(d, "aBearerData", "uBearerDataLen", BearerMax))
           /\ ArgsOf(d, 1)["number_of_digits"] = d["number_of_digits"]
           /\ ArgsOf(d, 3)["sub_digits"] = d["sub_digits"]
           /\ ArgsOf(d, 5)["uBearerDataLen"] = d["uBearerDataLen"]
<1> DEFINE h == Names(CdmaHead)  s == Names(CdmaSubaddress)  n == Names(Ints(<<"uBearerDataLen">>))
           D == First(d, "digits", "number_of_digits", AddressMax)
           S == First(d, "subdigits", "sub_digits", SubaddressMax)
           B == First(d, "aBearerData", "uBearerDataLen", BearerMax)
<1>1. "number_of_digits" \in h /\ "sub_digits" \in s /\ "uBearerDataLen" \in n
  BY MessageNames
<1> HIDE DEF h, s, n, D, S, B
<1>2. /\ ArgsOf(d, 0) = <<>> /\ ArgsOf(d, 1) = Over(ArgsOf(d, 0), h, d)
      /\ ArgsOf(d, 2) = Put(ArgsOf(d, 1), "digits", D) /\ ArgsOf(d, 3) = Over(ArgsOf(d, 2), s, d)
      /\ ArgsOf(d, 4) = Put(ArgsOf(d, 3), "subdigits", S) /\ ArgsOf(d, 5) = Over(ArgsOf(d, 4), n, d)
      /\ ArgsOf(d, 6) = Put(ArgsOf(d, 5), "aBearerData", B)
  BY DEF ArgsOf, h, s, n, D, S, B
<1>3. ASSUME NEW args, NEW f, NEW v PROVE IsMap(Put(args, f, v))
  BY DEF IsMap, Put
<1>4. ASSUME NEW args, NEW names, NEW f \in names PROVE Over(args, names, d)[f] = d[f]
  BY DEF Over
<1>5. IsMap(<<>>)
  BY DEF IsMap
<1>6. IsMap(ArgsOf(d, 0)) /\ IsMap(ArgsOf(d, 2)) /\ IsMap(ArgsOf(d, 4))
  BY <1>2, <1>3, <1>5
<1>7. /\ ArgsOf(d, 1)["number_of_digits"] = d["number_of_digits"]
      /\ ArgsOf(d, 3)["sub_digits"] = d["sub_digits"]
      /\ ArgsOf(d, 5)["uBearerDataLen"] = d["uBearerDataLen"]
  BY <1>1, <1>2, <1>4
<1> QED
  BY <1>2, <1>6, <1>7, Zenon DEF h, s, n, D, S, B

LEMMA MessageFound ==
    ASSUME NEW d, Message(d), NEW f \in DOMAIN d
    PROVE  ArgsOf(d, 6)[f] =
               CASE f = "digits"      -> First(d, f, "number_of_digits", AddressMax)
                 [] f = "subdigits"   -> First(d, f, "sub_digits", SubaddressMax)
                 [] f = "aBearerData" -> First(d, f, "uBearerDataLen", BearerMax)
                 [] OTHER             -> d[f]
<1> DEFINE h == CdmaHead  s == CdmaSubaddress  n == Ints(<<"uBearerDataLen">>)
           H == Names(h)  S == Names(s)  N == Names(n)
<1>1. IsLayout(h) /\ IsLayout(s) /\ IsLayout(n)
  BY MessageNames
<1>2. /\ H = {"uTeleserviceID", "bIsServicePresent", "uServicecategory", "digit_mode",
              "number_mode", "number_type", "number_plan", "number_of_digits"}
      /\ S = {"subaddressType", "odd", "sub_digits"} /\ N = {"uBearerDataLen"}
  BY MessageNames
<1>3. DOMAIN d = Names(h \o s \o n) \cup {"digits", "subdigits", "aBearerData"}
  BY DEF Message
<1> HIDE DEF h, s, n
<1>4. Names(h \o s \o n) = H \cup S \cup N
  <2>1. IsLayout(h \o s) /\ Names(h \o s) = H \cup S
    BY <1>1, JoinedLayout, StructParts
  <2> DEFINE x == h \o s
  <2> HIDE DEF x
  <2>2. Names(x \o n) = Names(x) \cup N
    BY <1>1, <2>1, StructParts DEF x
  <2> QED
    BY <2>1, <2>2 DEF x
<1> DEFINE D == First(d, "digits", "number_of_digits", AddressMax)
           T == First(d, "subdigits", "sub_digits", SubaddressMax)
           B == First(d, "aBearerData", "uBearerDataLen", BearerMax)
<1>5. /\ ArgsOf(d, 1) = Over(ArgsOf(d, 0), H, d)
      /\ ArgsOf(d, 2) = Put(ArgsOf(d, 1), "digits", D) /\ ArgsOf(d, 3) = Over(ArgsOf(d, 2), S, d)
      /\ ArgsOf(d, 4) = Put(ArgsOf(d, 3), "subdigits", T) /\ ArgsOf(d, 5) = Over(ArgsOf(d, 4), N, d)
      /\ ArgsOf(d, 6) = Put(ArgsOf(d, 5), "aBearerData", B)
  BY MessageArgs, Zenon DEF h, s, n
<1> HIDE DEF D, T, B, H, S, N
<1>6. CASE f = "digits"
  <2>1. ArgsOf(d, 2)["digits"] = D
    BY <1>5 DEF Put
  <2>2. ArgsOf(d, 6)["digits"] = ArgsOf(d, 2)["digits"]
    BY <1>2, <1>5 DEF Put, Over
  <2> QED
    BY <1>6, <2>1, <2>2 DEF D
<1>7. CASE f = "subdigits"
  <2>1. ArgsOf(d, 4)["subdigits"] = T
    BY <1>5 DEF Put
  <2>2. ArgsOf(d, 6)["subdigits"] = ArgsOf(d, 4)["subdigits"]
    BY <1>2, <1>5 DEF Put, Over
  <2> QED
    BY <1>7, <2>1, <2>2 DEF T
<1>8. CASE f = "aBearerData"
  <2>1. ArgsOf(d, 6)["aBearerData"] = B
    BY <1>5 DEF Put
  <2> QED
    BY <1>8, <2>1 DEF B
<1>9. CASE f \in H \cup S \cup N
  <2>1. f \notin {"digits", "subdigits", "aBearerData"}
    BY <1>2, <1>9
  <2>2. f \in DOMAIN ArgsOf(d, 5) /\ ArgsOf(d, 5)[f] = d[f]
    BY <1>5, <1>9, <2>1 DEF Put, Over
  <2>3. ArgsOf(d, 6)[f] = d[f]
    BY <1>5, <2>1, <2>2 DEF Put
  <2> QED
    BY <2>1, <2>3
<1> QED
  BY <1>3, <1>4, <1>6, <1>7, <1>8, <1>9


LEMMA MessageNumbers ==
    \A layout \in {CdmaHead, CdmaSubaddress, Ints(<<"uBearerDataLen">>)} :
        \A i \in 1..Len(layout) : layout[i][2] # "str"
<1> DEFINE a == <<"uTeleserviceID">>
           b == <<"bIsServicePresent">>
           c == <<"uServicecategory", "digit_mode", "number_mode", "number_type", "number_plan">>
           d == <<"number_of_digits">>
           e == <<"subaddressType">>
           g == <<"odd", "sub_digits">>
           h == <<"uBearerDataLen">>
           of(names) == {names[i] : i \in DOMAIN names}
           numbers(x) == IsLayout(x) /\ \A i \in 1..Len(x) : x[i][2] # "str"
<1>1. a \in Seq(of(a)) /\ b \in Seq(of(b)) /\ c \in Seq(of(c)) /\ d \in Seq(of(d))
  OBVIOUS
<1>2. e \in Seq(of(e)) /\ g \in Seq(of(g)) /\ h \in Seq(of(h))
  OBVIOUS
<1>3. /\ CdmaHead = Ints(a) \o Bytes(b) \o Ints(c) \o Bytes(d)
      /\ CdmaSubaddress = Ints(e) \o Bytes(g)
  BY DEF CdmaHead, CdmaSubaddress
<1> HIDE DEF a, b, c, d, e, g, h
<1>4. ASSUME NEW names, names \in Seq(of(names))
      PROVE  numbers(Ints(names)) /\ numbers(Bytes(names))
  BY <1>4, NumbersFit
<1>5. ASSUME NEW x, NEW y, numbers(x), numbers(y) PROVE numbers(x \o y)
  <2> DEFINE z == x \o y  m == Len(x)  n == Len(y)
  <2>1. /\ IsLayout(z) /\ Len(z) = m + n /\ (\A i \in 1..m : z[i] = x[i])
        /\ \A i \in 1..n : z[m + i] = y[i]
    BY <1>5, JoinedLayout
  <2>2. m \in Nat /\ n \in Nat /\ (\A i \in 1..m : x[i][2] # "str") /\ \A i \in 1..n : y[i][2] # "str"
    BY <1>5 DEF IsLayout
  <2> HIDE DEF z, m, n
  <2>3. ASSUME NEW i \in 1..(m + n) PROVE z[i][2] # "str"
    <3>1. CASE i \in 1..m
      BY <2>1, <2>2, <3>1
    <3>2. CASE i \notin 1..m
      <4>1. i - m \in 1..n /\ m + (i - m) = i
        BY <2>2, <3>2
      <4> QED
        BY <2>1, <2>2, <4>1
    <3> QED
      BY <3>1, <3>2
  <2> QED
    BY <2>1, <2>3 DEF z
<1> HIDE DEF of
<1>6. /\ numbers(Ints(a)) /\ numbers(Bytes(b)) /\ numbers(Ints(c)) /\ numbers(Bytes(d))
      /\ numbers(Ints(e)) /\ numbers(Bytes(g)) /\ numbers(Ints(h))
  <2> HIDE DEF numbers
  <2> QED
    BY <1>1, <1>2, <1>4
<1>7. numbers(CdmaHead) /\ numbers(CdmaSubaddress)
  <2> HIDE DEF numbers
  <2>1. numbers(Ints(a) \o Bytes(b))
    BY <1>5, <1>6
  <2>2. numbers(Ints(a) \o Bytes(b) \o Ints(c))
    BY <1>5, <1>6, <2>1
  <2> QED
    BY <1>3, <1>5, <1>6, <2>2
<1> QED
  BY <1>6, <1>7 DEF h

LEMMA PartWritten ==
    ASSUME NEW max \in Nat, NEW a \in [1..max -> 0..255], NEW n \in Int
    PROVE  WriteArray(Part(a, n, max), "byte") \in Seq(Int)
<1> DEFINE m == IF n < max THEN n ELSE max
           part == SubSeq(a, 1, m)
<1>1. m \in Int /\ m <= max
  OBVIOUS
<1> HIDE DEF m
<1>2. a \in Seq(0..255) /\ Len(a) = max
  BY BytesOf
<1>3. part \in Seq(0..255)
  <2>1. \A i \in 1..m : i \in 1..max /\ a[i] \in 0..255
    BY <1>1
  <2> QED
    BY <1>1, <2>1, SubSeqProperties, SMTT(60)
<1> HIDE DEF part
<1>4. "byte" \in Kinds /\ part \in Seq(Exact("byte"))
  BY <1>3 DEF Kinds, Exact
<1>5. \A v \in Exact("byte") : Write("byte", v) \in Seq(Int)
  BY <1>4, ExactIsValue, ValueWritten
<1>6. WriteArray(part, "byte") \in Seq(Int)
  BY <1>4, <1>5, ArrayWritten
<1> QED
  BY <1>6 DEF part, m, Part


\* The message that comes back.
SameMessage(d, back) ==
    /\ back.valid = TRUE /\ dataAvail(back.p) = 0
    /\ \A f \in DOMAIN d : back.p.args[f] = ArgsOf(d, 6)[f]

LEMMA CdmaSmsReadsBack ==
    ASSUME NEW r, FitsStruct(r), Message(r.data)
    PROVE  SameMessage(r.data, dispatchCdmaSms(Parcel(responseCdmaSms(r).words)))
<1> DEFINE d == r.data  n == Ints(<<"uBearerDataLen">>)
           D == First(d, "digits", "number_of_digits", AddressMax)
           S == First(d, "subdigits", "sub_digits", SubaddressMax)
           B == First(d, "aBearerData", "uBearerDataLen", BearerMax)
           wh == WriteStruct(d, CdmaHead)  wd == WriteArray(D, "byte")
           ws == WriteStruct(d, CdmaSubaddress)  wt == WriteArray(S, "byte")
           wn == WriteStruct(d, n)  wb == WriteArray(B, "byte")
<1>1. responseCdmaSms(r).words = wh \o wd \o ws \o wt \o wn \o wb
  BY SMTT(60) DEF responseCdmaSms, Done, CdmaHead, CdmaSubaddress, First, Part
<1>2. Holds(d, CdmaHead) /\ Holds(d, CdmaSubaddress) /\ Holds(d, n)
  <2>1. IsLayout(CdmaHead) /\ IsLayout(CdmaSubaddress) /\ IsLayout(n)
    BY MessageNames
  <2>2. HasFields(d, CdmaHead \o CdmaSubaddress \o n)
    BY DEF Message
  <2> DEFINE x == CdmaHead \o CdmaSubaddress
  <2> HIDE DEF n
  <2>3. IsLayout(x) /\ (HasFields(d, x) <=> HasFields(d, CdmaHead) /\ HasFields(d, CdmaSubaddress))
    BY <2>1, JoinedLayout, StructParts
  <2> HIDE DEF x
  <2>4. HasFields(d, x \o n) <=> HasFields(d, x) /\ HasFields(d, n)
    BY <2>1, <2>3, StructParts
  <2> QED
    BY <2>1, <2>2, <2>3, <2>4 DEF Holds, x
<1>3. /\ d["number_of_digits"] \in Int /\ d["sub_digits"] \in Int /\ d["uBearerDataLen"] \in Int
      /\ {AddressMax, SubaddressMax, BearerMax} \subseteq Nat
  <2>1. ASSUME NEW layout, Holds(d, layout), \A i \in 1..Len(layout) : layout[i][2] # "str",
               NEW f \in Names(layout)
        PROVE  d[f] \in Int
    <3>1. PICK i \in 1..Len(layout) : f = layout[i][1]
      BY DEF Names
    <3>2. d[f] \in Exact(layout[i][2]) /\ layout[i][2] # "str"
      BY <2>1, <3>1 DEF Holds, HasFields
    <3>3. d[f] \in Values(layout[i][2])
      BY <3>2, ExactIsValue
    <3> QED
      BY <3>2, <3>3 DEF Values
  <2>2. /\ "number_of_digits" \in Names(CdmaHead) /\ "sub_digits" \in Names(CdmaSubaddress)
        /\ "uBearerDataLen" \in Names(n)
    BY MessageNames
  <2>3. \A layout \in {CdmaHead, CdmaSubaddress, n} : \A i \in 1..Len(layout) : layout[i][2] # "str"
    BY MessageNumbers, SMTT(60)
  <2> HIDE DEF d, n
  <2> QED
    BY <1>2, <2>1, <2>2, <2>3, ParcelAssumption
<1>4. /\ d["digits"] \in [1..AddressMax -> 0..255] /\ d["subdigits"] \in [1..SubaddressMax -> 0..255]
      /\ d["aBearerData"] \in [1..BearerMax -> 0..255]
  BY DEF Message
<1>5. wh \in Seq(Int) /\ ws \in Seq(Int) /\ wn \in Seq(Int)
  BY <1>2, StructWritten
<1> HIDE DEF d, n
<1>6. wd \in Seq(Int) /\ wt \in Seq(Int) /\ wb \in Seq(Int)
  <2>1. /\ D = Part(d["digits"], d["number_of_digits"], AddressMax)
        /\ S = Part(d["subdigits"], d["sub_digits"], SubaddressMax)
        /\ B = Part(d["aBearerData"], d["uBearerDataLen"], BearerMax)
    BY DEF First
  <2> HIDE DEF D, S, B
  <2> QED
    BY <1>3, <1>4, <2>1, PartWritten
<1> DEFINE words == wh \o wd \o ws \o wt \o wn \o wb
           p == Parcel(words)
           v5 == wb \o <<>>  v4 == wn \o v5  v3 == wt \o v4  v2 == ws \o v3  v1 == wd \o v2
<1> HIDE DEF wh, wd, ws, wt, wn, wb
<1>7. /\ words = wh \o v1 /\ words \in Seq(Int) /\ v1 \in Seq(Int) /\ v2 \in Seq(Int)
      /\ v3 \in Seq(Int) /\ v4 \in Seq(Int) /\ v5 \in Seq(Int)
  <2>1. SixParts(words, wh, wd, ws, wt, wn, wb)
    BY <1>5, <1>6, RegroupSix
  <2>2. words = wh \o v1 /\ {words, v1, v2, v3, v4, v5} \subseteq Seq(Int)
    BY <2>1, Zenon DEF SixParts
  <2> HIDE DEF words, v1, v2, v3, v4, v5
  <2> QED
    BY <2>2
<1> HIDE DEF words
<1>8. Left(p, wh \o v1, ArgsOf(d, 0))
  <2>1. Ahead(p, words) /\ p.args = <<>>
    BY <1>7, AheadFresh, Zenon
  <2>2. dataAvail(p) = Len(words)
    BY <1>7, LenProperties DEF dataAvail, Parcel
  <2>3. ArgsOf(d, 0) = <<>>
    BY DEF ArgsOf
  <2> HIDE DEF p
  <2> QED
    BY <1>7, <2>1, <2>2, <2>3 DEF Left
<1> HIDE DEF p
<1> DEFINE p1 == ReadStruct(p, CdmaHead)
           p2 == ReadCounted(p1, "digits", "number_of_digits", AddressMax)
           p3 == ReadStruct(p2, CdmaSubaddress)
           p4 == ReadCounted(p3, "subdigits", "sub_digits", SubaddressMax)
           p5 == ReadStruct(p4, n)
           p6 == ReadCounted(p5, "aBearerData", "uBearerDataLen", BearerMax)
<1>9. ReadCdmaSms(p) = p6
  <2>1. ReadStruct(p4, n) = readInt32(p4, "uBearerDataLen")
    BY OneField DEF n
  <2> QED
    BY <2>1, Zenon DEF ReadCdmaSms
<1> HIDE DEF p1, p2, p3, p4, p5, p6
<1>10. Left(p1, v1, ArgsOf(d, 1))
  <2>1. ArgsOf(d, 1) = Over(ArgsOf(d, 0), Names(CdmaHead), d) /\ IsMap(ArgsOf(d, 0))
    BY MessageArgs
  <2> HIDE DEF v1
  <2> QED
    BY <1>2, <1>7, <1>8, <2>1, StructLeft, Zenon DEF wh, p1
<1>11. Left(p2, v2, ArgsOf(d, 2))
  <2>1. ArgsOf(d, 2) = Put(ArgsOf(d, 1), "digits", D) /\ ArgsOf(d, 1)["number_of_digits"] = d["number_of_digits"]
    BY MessageArgs, Zenon
  <2>2. Left(p1, WriteArray(D, "byte") \o v2, ArgsOf(d, 1))
    BY <1>10 DEF wd
  <2>3. D = Part(d["digits"], ArgsOf(d, 1)["number_of_digits"], AddressMax)
    BY <2>1 DEF First
  <2>4. AddressMax \in Nat /\ ArgsOf(d, 1)["number_of_digits"] \in Int
    BY <1>3, <2>1
  <2> HIDE DEF v2, D
  <2> QED
    BY <1>4, <1>7, <2>1, <2>2, <2>3, <2>4, CountedLeft, ZenonT(60) DEF p2
<1>12. Left(p3, v3, ArgsOf(d, 3))
  <2>1. ArgsOf(d, 3) = Over(ArgsOf(d, 2), Names(CdmaSubaddress), d) /\ IsMap(ArgsOf(d, 2))
    BY MessageArgs
  <2> HIDE DEF v3
  <2> QED
    BY <1>2, <1>7, <1>11, <2>1, StructLeft, Zenon DEF ws, p3, v2
<1>13. Left(p4, v4, ArgsOf(d, 4))
  <2>1. ArgsOf(d, 4) = Put(ArgsOf(d, 3), "subdigits", S) /\ ArgsOf(d, 3)["sub_digits"] = d["sub_digits"]
    BY MessageArgs, Zenon
  <2>2. Left(p3, WriteArray(S, "byte") \o v4, ArgsOf(d, 3))
    BY <1>12 DEF wt
  <2>3. S = Part(d["subdigits"], ArgsOf(d, 3)["sub_digits"], SubaddressMax)
    BY <2>1 DEF First
  <2>4. SubaddressMax \in Nat /\ ArgsOf(d, 3)["sub_digits"] \in Int
    BY <1>3, <2>1
  <2> HIDE DEF v4, S
  <2> QED
    BY <1>4, <1>7, <2>1, <2>2, <2>3, <2>4, CountedLeft, ZenonT(60) DEF p4
<1>14. Left(p5, v5, ArgsOf(d, 5))
  <2>1. ArgsOf(d, 5) = Over(ArgsOf(d, 4), Names(n), d) /\ IsMap(ArgsOf(d, 4))
    BY MessageArgs, Zenon DEF n
  <2> HIDE DEF v5
  <2> QED
    BY <1>2, <1>7, <1>13, <2>1, StructLeft, Zenon DEF wn, p5, v4
<1>15. Left(p6, <<>>, ArgsOf(d, 6))
  <2>1. ArgsOf(d, 6) = Put(ArgsOf(d, 5), "aBearerData", B) /\ ArgsOf(d, 5)["uBearerDataLen"] = d["uBearerDataLen"]
    BY MessageArgs, Zenon
  <2> DEFINE none == <<>>
  <2>0. none \in Seq(Int)
    OBVIOUS
  <2>2. Left(p5, WriteArray(B, "byte") \o none, ArgsOf(d, 5))
    BY <1>14 DEF wb
  <2>3. B = Part(d["aBearerData"], ArgsOf(d, 5)["uBearerDataLen"], BearerMax)
    BY <2>1 DEF First
  <2>4. BearerMax \in Nat /\ ArgsOf(d, 5)["uBearerDataLen"] \in Int
    BY <1>3, <2>1
  <2> HIDE DEF B, none
  <2>5. Left(p6, none, ArgsOf(d, 6))
    BY <1>4, <2>0, <2>1, <2>2, <2>3, <2>4, CountedLeft, ZenonT(60) DEF p6
  <2> QED
    BY <2>5 DEF none
<1>16. p6.ok = TRUE /\ dataAvail(p6) = 0 /\ p6.args = ArgsOf(d, 6)
  BY <1>15 DEF Left, Ahead
<1>17. dispatchCdmaSms(p).valid = TRUE /\ dispatchCdmaSms(p).p = p6
  BY <1>9, <1>16 DEF dispatchCdmaSms, OnRequestIf, onRequest
<1> QED
  BY <1>1, <1>16, <1>17, SMTT(60) DEF SameMessage, p, words, d


ForwardLayout ==
    Ints(<<"status", "reason", "serviceClass", "toa">>) \o Str("number") \o Ints(<<"timeSeconds">>)

\* The call forwarding that comes back.
SameForward(d, back) ==
    /\ back.valid = TRUE
    /\ \A f \in DOMAIN d :
          back.p.args[f] = IF f = "number" /\ d[f] = <<0>> THEN NULL ELSE d[f]

LEMMA CallForwardReadsBack ==
    ASSUME NEW r, FitsList(r), NEW d, IsStruct(d, ForwardLayout), Elements(r) = <<d>>
    PROVE  SameForward(d, dispatchCallForward(Parcel(Tail(responseCallForwards(r).words))))
<1> DEFINE w == WriteStruct(d, ForwardLayout)
           p == Parcel(w)
           cff == ReadStruct(p, ForwardLayout)
           none == Store(cff, "number", NULL)
           given == IF cff.args["number"] = <<0>> THEN none ELSE cff
<1>1. IsLayout(ForwardLayout)
  <2> DEFINE front  == Ints(<<"status", "reason", "serviceClass", "toa">>)
             middle == Str("number")
             back   == Ints(<<"timeSeconds">>)
  <2>1. Fits(front, "args") /\ Fits(middle, "args") /\ Fits(back, "args")
    <3> DEFINE S == {"status", "reason", "serviceClass", "toa"}
    <3>1. <<"status", "reason", "serviceClass", "toa">> \in Seq(S) /\ S \cap Lists = {}
      BY DEF Lists
    <3>2. <<"timeSeconds">> \in Seq({"timeSeconds"}) /\ {"timeSeconds"} \cap Lists = {}
      BY DEF Lists
    <3>3. "number" \notin Lists
      BY DEF Lists
    <3> HIDE DEF S
    <3> QED
      BY <3>1, <3>2, <3>3, NumbersFit, StringFits
  <2> HIDE DEF front, middle, back
  <2>2. Fits(front \o middle \o back, "args")
    BY <2>1, JoinedFits
  <2> QED
    BY <2>2 DEF Fits, ForwardLayout, front, middle, back
<1>2. Holds(d, ForwardLayout) /\ DOMAIN d = Names(ForwardLayout)
  BY <1>1 DEF Holds, IsStruct
<1>3. w \in Seq(Int)
  BY <1>2, StructWritten
<1>4. Tail(responseCallForwards(r).words) = w
  <2>1. responseCallForwards(r).words = <<Len(Elements(r))>> \o WriteRows(Elements(r), ForwardLayout)
    BY DEF responseCallForwards, CountedRows, Done, ForwardLayout
  <2> DEFINE s == <<d>>  one == <<1>>
  <2>2. WriteRows(s, ForwardLayout) = FlattenSeq(<<w>>)
    <3>1. [i \in DOMAIN s |-> WriteStruct(s[i], ForwardLayout)] = <<w>>
      <4> HIDE DEF w
      <4>1. DOMAIN s = {1} /\ s[1] = d
        OBVIOUS
      <4>2. [i \in {1} |-> w] = <<w>>
        OBVIOUS
      <4> QED
        BY <4>1, <4>2 DEF w
    <3> QED
      BY <3>1, Zenon DEF WriteRows
  <2>3. FlattenSeq(<<w>>) = w
    BY <1>3, FlattenOne
  <2>4. Len(s) = 1
    OBVIOUS
  <2> HIDE DEF w, s
  <2>5. responseCallForwards(r).words = one \o w
    BY <2>1, <2>2, <2>3, <2>4 DEF s
  <2>6. Tail(one \o w) = w
    BY <1>3
  <2> QED
    BY <2>5, <2>6
<1>5. cff = Past(p, Len(w), Over(<<>>, Names(ForwardLayout), d)) /\ p.ok = TRUE
  <2>1. Ahead(p, w) /\ p.args = <<>>
    BY <1>3, AheadFresh, Zenon
  <2>2. IsMap(<<>>)
    BY DEF IsMap
  <2> HIDE DEF p
  <2> QED
    BY <1>2, <2>1, <2>2, StructReadsBack DEF Ahead
<1> HIDE DEF w, p
<1>6. IsParcel(cff) /\ cff.ok = TRUE /\ cff.args = Over(<<>>, Names(ForwardLayout), d)
  BY <1>5, PastFields
<1>7. \A f \in DOMAIN d : f \in DOMAIN cff.args /\ cff.args[f] = d[f]
  BY <1>2, <1>6 DEF Over
<1>8. dispatchCallForward(p) = OnRequestIf(cff.ok, given)
  BY Zenon DEF dispatchCallForward, ForwardLayout
<1> HIDE DEF cff
<1>9. none.args = Put(cff.args, "number", NULL)
  <2> DEFINE args == Over(<<>>, Names(ForwardLayout), d)
  <2> HIDE DEF args
  <2>1. none = Past(p, Len(w), Put(args, "number", NULL))
    BY <1>5, PastStore DEF cff, args
  <2> HIDE DEF none
  <2> QED
    BY <1>6, <2>1, PastFields DEF args
<1>10. none.args["number"] = NULL /\ \A f \in DOMAIN d : f # "number" => none.args[f] = d[f]
  BY <1>7, <1>9 DEF Put
<1> HIDE DEF none
<1>11. ASSUME NEW f \in DOMAIN d
       PROVE  given.args[f] = IF f = "number" /\ d[f] = <<0>> THEN NULL ELSE d[f]
  <2>1. CASE f = "number"
    BY <1>7, <1>10, <2>1
  <2>2. CASE f # "number"
    BY <1>7, <1>10, <2>2
  <2> QED
    BY <2>1, <2>2
<1> HIDE DEF given
<1>12. dispatchCallForward(p).valid = TRUE /\ dispatchCallForward(p).p = given
  BY <1>6, <1>8 DEF OnRequestIf, onRequest
<1> QED
  BY <1>4, <1>11, <1>12 DEF SameForward, p

\* The configurations that come back.
SameRows(s, back) == back.valid = TRUE /\ back.p.args["rows"] = s

LEMMA BrReadBack ==
    ASSUME NEW r, DOMAIN r = {"data", "size"}
    PROVE  /\ IsStructs(Elements(r), GsmBrLayout) =>
                  SameRows(Elements(r), dispatchGsmBrSmsCnf(Parcel(responseGsmBrSmsCnf(r).words)))
           /\ IsStructs(Elements(r), CdmaBrLayout) =>
                  SameRows(Elements(r), dispatchCdmaBrSmsCnf(Parcel(responseCdmaBrSmsCnf(r).words)))
<1> DEFINE t == [r EXCEPT !.size = "ok"]  s == Elements(r)
           gsm == Ints(<<"fromServiceId", "toServiceId", "fromCodeScheme", "toCodeScheme", "selected">>)
           cdma == Ints(<<"service_category", "language", "selected">>)
<1>1. t.size = "ok" /\ Elements(t) = s
  BY DEF Elements
<1>2. /\ responseGsmBrSmsCnf(r) = CountedRows(t, gsm)
      /\ responseCdmaBrSmsCnf(r) = CountedRows(t, cdma)
  BY DEF responseGsmBrSmsCnf, responseCdmaBrSmsCnf
<1> HIDE DEF t, s, gsm, cdma
<1>3. /\ responseGsmBrSmsCnf(r).words = <<Len(s)>> \o WriteRows(s, gsm)
      /\ responseCdmaBrSmsCnf(r).words = <<Len(s)>> \o WriteRows(s, cdma)
  BY <1>1, <1>2 DEF CountedRows, FitsList, Done
<1>4. IsLayout(GsmBrLayout) /\ IsLayout(CdmaBrLayout)
  BY BrLayouts
<1>5. ASSUME IsStructs(s, GsmBrLayout)
      PROVE  SameRows(s, dispatchGsmBrSmsCnf(Parcel(responseGsmBrSmsCnf(r).words)))
  <2>1. WriteRows(s, gsm) = WriteRows(s, GsmBrLayout)
    BY <1>5, BrWritten DEF gsm
  <2>2. SameRows(s, DispatchRows(Parcel(<<Len(s)>> \o WriteRows(s, GsmBrLayout)), GsmBrLayout))
    BY <1>4, <1>5, ListReadsBack DEF SameRows
  <2> QED
    BY <1>3, <2>1, <2>2 DEF dispatchGsmBrSmsCnf
<1>6. ASSUME IsStructs(s, CdmaBrLayout)
      PROVE  SameRows(s, dispatchCdmaBrSmsCnf(Parcel(responseCdmaBrSmsCnf(r).words)))
  <2>1. WriteRows(s, cdma) = WriteRows(s, CdmaBrLayout)
    BY <1>6, BrWritten DEF cdma
  <2>2. SameRows(s, DispatchRows(Parcel(<<Len(s)>> \o WriteRows(s, CdmaBrLayout)), CdmaBrLayout))
    BY <1>4, <1>6, ListReadsBack DEF SameRows
  <2> QED
    BY <1>3, <2>1, <2>2 DEF dispatchCdmaBrSmsCnf
<1> QED
  BY <1>5, <1>6 DEF s


-----------------------------------------------------------------------------
(* Calls, as StuttgartRIL reads them.                                      *)

LEMMA CallNames == IsLayout(CallLayout) /\ "uusInfo" \notin Names(CallLayout)
<1> DEFINE a == <<"state", "index", "toa", "isMpty", "isMT", "als", "isVoice", "isVoicePrivacy">>
           b == <<"numberPresentation">>
           c == <<"namePresentation">>
           of(names) == {names[i] : i \in DOMAIN names}
           good(x) == IsLayout(x) /\ "uusInfo" \notin Names(x)
<1>1. /\ a \in Seq(of(a)) /\ "uusInfo" \notin of(a)
  OBVIOUS
<1>2. /\ b \in Seq(of(b)) /\ "uusInfo" \notin of(b)
      /\ c \in Seq(of(c)) /\ "uusInfo" \notin of(c)
  OBVIOUS
<1>3. CallLayout = Ints(a) \o Str("number") \o Ints(b) \o Str("name") \o Ints(c)
  BY DEF CallLayout
<1> HIDE DEF a, b, c
<1>4. ASSUME NEW names, names \in Seq(of(names)), "uusInfo" \notin of(names)
      PROVE  good(Ints(names))
  BY <1>4, NumbersFit, FieldNames
<1>5. ASSUME NEW name, name # "uusInfo" PROVE good(Str(name))
  <2> DEFINE x == Str(name)
  <2>1. Len(x) = 1 /\ DOMAIN x = 1..1 /\ x[1] = <<name, "str">>
    BY DEF Str
  <2>2. x \in Seq({x[i] : i \in 1..Len(x)})
    BY DEF Str
  <2> HIDE DEF x
  <2>3. IsLayout(x)
    BY <2>1, <2>2 DEF IsLayout, Kinds
  <2>4. "uusInfo" \notin Names(x)
    BY <1>5, <2>1 DEF Names
  <2> QED
    BY <2>3, <2>4 DEF x
<1>6. ASSUME NEW x, NEW y, good(x), good(y) PROVE good(x \o y)
  BY <1>6, JoinedLayout, StructParts
<1> HIDE DEF of
<1>7. /\ good(Ints(a)) /\ good(Str("number")) /\ good(Ints(b)) /\ good(Str("name"))
      /\ good(Ints(c))
  <2> HIDE DEF good
  <2> QED
    BY <1>1, <1>2, <1>4, <1>5
<1>8. good(CallLayout)
  <2> HIDE DEF good
  <2> DEFINE v == Ints(a) \o Str("number")  w == v \o Ints(b)  x == w \o Str("name")
  <2>1. good(v)
    BY <1>6, <1>7
  <2>2. good(w)
    BY <1>6, <1>7, <2>1
  <2>3. good(x)
    BY <1>6, <1>7, <2>2
  <2> QED
    BY <1>3, <1>6, <1>7, <2>3
<1> QED
  BY <1>8

\* The three numbers in front of the user-to-user data.
LEMMA ThreeFields ==
    ASSUME NEW p, NEW f, NEW g, NEW h
    PROVE  ReadStruct(p, Ints(<<f, g, h>>)) = readInt32(readInt32(readInt32(p, f), g), h)
<1> DEFINE layout == Ints(<<f, g, h>>)
<1>1. Len(layout) = 3 /\ layout[1] = <<f, "int">> /\ layout[2] = <<g, "int">> /\ layout[3] = <<h, "int">>
  BY DEF Ints
<1> HIDE DEF layout
<1>2. PICK r : /\ r[0] = p /\ ReadStruct(p, layout) = r[Len(layout)]
               /\ \A i \in 1..Len(layout) : r[i] = Read(r[i - 1], layout[i])
  <2>1. Len(layout) \in Nat
    BY <1>1
  <2> QED
    BY <2>1, StructRun
<1>3. r[1] = Read(r[0], layout[1]) /\ r[2] = Read(r[1], layout[2]) /\ r[3] = Read(r[2], layout[3])
  BY <1>1, <1>2
<1>4. \A q, name : Read(q, <<name, "int">>) = readInt32(q, name)
  BY DEF Read
<1>5. r[1] = readInt32(p, f)
  BY <1>1, <1>2, <1>3, <1>4
<1>6. r[2] = readInt32(r[1], g)
  BY <1>1, <1>3, <1>4
<1>7. r[3] = readInt32(r[2], h)
  BY <1>1, <1>3, <1>4
<1>8. ReadStruct(p, layout) = r[3]
  BY <1>1, <1>2
<1> QED
  BY <1>5, <1>6, <1>7, <1>8, Zenon DEF layout

\* What a vendor RIL may tell of user-to-user data, and what is told of it.
IsUus(uus) == uus = NULL \/ uus \in [uusType : Int, uusDcs : Int, uusData : Texts]
ToldUus(uus, version) ==
    IF uus = NULL \/ version < 3 THEN NULL ELSE IF uus["uusData"] = NULL THEN NULL ELSE uus

\* A number, and what is behind it.
Begins(all, v, w) == all = <<v>> \o w

LEMMA IntPast ==
    ASSUME NEW p, NEW f, NEW v \in Int, NEW w \in Seq(Int), NEW all, Begins(all, v, w),
           Ahead(p, all)
    PROVE  LET q == Past(p, 1, Put(p.args, f, v)) IN
           readInt32(p, f) = q /\ Ahead(q, w) /\ q.args = Put(p.args, f, v)
  BY IntBack, PastFields DEF Begins

LEMMA FourInFront ==
    ASSUME NEW a \in Int, NEW b \in Int, NEW c \in Int, NEW d \in Int, NEW s \in Seq(Int)
    PROVE  SameWords(<<a, b, c, d>> \o s, <<a>> \o (<<b>> \o (<<c>> \o (<<d>> \o s))))
<1> DEFINE A == <<a>>  B == <<b>>  C == <<c>>  D == <<d>>
           BCD == <<b, c, d>>  CD == <<c, d>>  all == <<a, b, c, d>>
           ds == D \o s  cds == CD \o s  bcds == BCD \o s
<1>1. A \in Seq(Int) /\ B \in Seq(Int) /\ C \in Seq(Int) /\ D \in Seq(Int)
  OBVIOUS
<1>2. BCD \in Seq(Int) /\ CD \in Seq(Int)
  OBVIOUS
<1>3. CD = C \o D
  <2> DEFINE both == C \o D
  <2>1. /\ Len(C) = 1 /\ C[1] = c /\ Len(D) = 1 /\ D[1] = d
        /\ Len(CD) = 2 /\ CD[1] = c /\ CD[2] = d
    OBVIOUS
  <2> HIDE DEF C, D, CD
  <2>2. both \in Seq(Int) /\ Len(both) = 2 /\ both[1] = c /\ both[2] = d
    <3>1. both \in Seq(Int) /\ Len(both) = Len(C) + Len(D)
      BY <1>1, ConcatProperties
    <3>2. \A i \in 1..Len(C) + Len(D) : both[i] = IF i <= Len(C) THEN C[i] ELSE D[i - Len(C)]
      BY <1>1, ConcatProperties
    <3> HIDE DEF both
    <3>3. \A i \in 1..2 : both[i] = IF i <= 1 THEN C[i] ELSE D[i - 1]
      BY <2>1, <3>2
    <3>4. both[1] = C[1] /\ both[2] = D[1]
      BY <3>3
    <3> QED
      BY <2>1, <3>1, <3>4
  <2> HIDE DEF both
  <2>3. \A i \in 1..2 : CD[i] = both[i]
    BY <2>1, <2>2
  <2>4. both = CD
    BY <1>2, <2>1, <2>2, <2>3, SeqEqual
  <2> QED
    BY <2>4 DEF both
<1>4. BCD = B \o CD
  OBVIOUS
<1>5. all = A \o BCD
  OBVIOUS
<1>6. ds = D \o s /\ cds = CD \o s /\ bcds = BCD \o s
  OBVIOUS
<1> HIDE DEF A, B, C, D, BCD, CD, all, ds, cds, bcds
<1>7. SameWords(CD \o s, C \o ds)
  BY <1>1, <1>3, <1>6, Shift
<1>8. SameWords(BCD \o s, B \o cds)
  BY <1>1, <1>2, <1>4, <1>6, Shift
<1>9. SameWords(all \o s, A \o bcds)
  BY <1>1, <1>2, <1>5, <1>6, Shift
<1>10. all \o s = A \o (B \o (C \o (D \o s)))
  BY <1>6, <1>7, <1>8, <1>9, Zenon DEF SameWords
<1> QED
  BY <1>10, Zenon DEF SameWords, A, B, C, D, all

LEMMA UusReadsBack ==
    ASSUME NEW uus, IsUus(uus), NEW version, NEW p, Ahead(p, WriteUus(uus, version))
    PROVE  /\ WriteUus(uus, version) \in Seq(Int)
           /\ \E args : /\ ReadJavaUus(p) = Past(p, Len(WriteUus(uus, version)), args)
                        /\ args["uusInfo"] = ToldUus(uus, version)
<1> DEFINE layout == Ints(<<"uusType", "uusDcs", "len">>)
           present == readInt32(p, "present")
           fresh == [present EXCEPT !.args = <<>>]
           read == ReadStruct(fresh, layout)
           all == readInplace(read, "uusData", read.args["len"])
           w == WriteUus(uus, version)
           names == {"uusType", "uusDcs", "uusData"}
           info == [f \in names |-> all.args[f]]
<1>1. ReadJavaUus(p) = IF present.args["present"] # 1 THEN Store(present, "uusInfo", NULL)
                       ELSE Store(all, "uusInfo", info)
  BY Zenon DEF ReadJavaUus
<1>2. p.pos \in Nat
  BY DEF Ahead, Sound
<1>3. CASE ToldUus(uus, version) = NULL
  <2> DEFINE none == <<>>  zero == <<0>>
  <2>1. w = zero
    <3>1. CASE uus = NULL \/ version < 3
      BY <3>1 DEF WriteUus
    <3>2. CASE ~(uus = NULL \/ version < 3) /\ uus["uusData"] = NULL
      BY <3>2 DEF WriteUus
    <3>3. CASE ~(uus = NULL \/ version < 3) /\ uus["uusData"] # NULL
      BY <1>3, <3>3 DEF ToldUus
    <3> QED
      BY <3>1, <3>2, <3>3
  <2>2. Begins(zero, 0, none) /\ none \in Seq(Int) /\ Len(zero) = 1 /\ zero \in Seq(Int)
    BY DEF Begins
  <2> HIDE DEF none, w, zero
  <2>3. present = Past(p, 1, Put(p.args, "present", 0)) /\ present.args = Put(p.args, "present", 0)
    BY <2>1, <2>2, IntPast DEF w
  <2>4. present.args["present"] = 0
    BY <2>3 DEF Put
  <2> DEFINE a == Put(Put(p.args, "present", 0), "uusInfo", NULL)
  <2>5. Store(present, "uusInfo", NULL) = Past(p, 1, a)
    BY <2>3, PastStore
  <2>6. a["uusInfo"] = NULL
    BY DEF Put
  <2> HIDE DEF a, present, all, info
  <2> QED
    BY <1>1, <1>3, <2>1, <2>2, <2>4, <2>5, <2>6 DEF w
<1>4. CASE ToldUus(uus, version) # NULL
  <2> DEFINE t == uus["uusType"]  dcs == uus["uusDcs"]  data == uus["uusData"]  n == Len(data)
  <2>1. /\ ~(uus = NULL \/ version < 3) /\ data # NULL /\ ToldUus(uus, version) = uus
    BY <1>4, Zenon DEF ToldUus
  <2>2. /\ uus \in [uusType : Int, uusDcs : Int, uusData : Texts]
        /\ w = <<1, t, dcs, n>> \o data
    BY <2>1 DEF WriteUus, IsUus
  <2>3. t \in Int /\ dcs \in Int /\ data \in Seq(Int) /\ n \in Nat /\ n \in Int
    <3>1. t \in Int /\ dcs \in Int /\ data \in Texts
      BY <2>2
    <3> HIDE DEF t, dcs, data, n
    <3>2. data \in Seq(Int)
      BY <2>1, <3>1 DEF Texts
    <3> QED
      BY <3>1, <3>2, LenProperties DEF n
  <2>4. uus = [uusType |-> t, uusDcs |-> dcs, uusData |-> data]
    BY <2>2
  <2> HIDE DEF t, dcs, data, n
  <2> DEFINE none == <<>>
             w4 == data \o none  w3 == <<n>> \o data  w2 == <<dcs>> \o w3  w1 == <<t>> \o w2
  <2>5. w4 = data /\ none \in Seq(Int)
    BY <2>3
  <2>6. w3 \in Seq(Int) /\ Len(w3) = n + 1 /\ Begins(w3, n, data)
    BY <2>3 DEF n, Begins
  <2> HIDE DEF w3
  <2>7. w2 \in Seq(Int) /\ Len(w2) = n + 2 /\ Begins(w2, dcs, w3)
    BY <2>3, <2>6 DEF Begins
  <2> HIDE DEF w2
  <2>8. w1 \in Seq(Int) /\ Len(w1) = n + 3 /\ Begins(w1, t, w2)
    BY <2>3, <2>7 DEF Begins
  <2> HIDE DEF w1, none
  <2>9. Begins(w, 1, w1) /\ w \in Seq(Int) /\ Len(w) = n + 4
    <3>1. <<1, t, dcs, n>> \o data = <<1>> \o (<<t>> \o (<<dcs>> \o (<<n>> \o data)))
      <4>1. SameWords(<<1, t, dcs, n>> \o data, <<1>> \o (<<t>> \o (<<dcs>> \o (<<n>> \o data))))
        BY <2>3, FourInFront
      <4> QED
        BY <4>1, Zenon DEF SameWords
    <3>2. w = <<1>> \o w1
      BY <2>2, <3>1, Zenon DEF w1, w2, w3
    <3> HIDE DEF w
    <3>3. w \in Seq(Int) /\ Len(w) = n + 4
      BY <2>3, <2>8, <3>2
    <3> QED
      BY <3>2, <3>3 DEF Begins
  <2> HIDE DEF w
  <2> DEFINE a1 == Put(p.args, "present", 1)
             a2 == Put(<<>>, "uusType", t)  a3 == Put(a2, "uusDcs", dcs)  a4 == Put(a3, "len", n)
             a5 == Put(a4, "uusData", data)
             p1 == readInt32(fresh, "uusType")  p2 == readInt32(p1, "uusDcs")
             p3 == readInt32(p2, "len")
  <2>10. present = Past(p, 1, a1) /\ Ahead(present, w1) /\ present.args = a1
    <3>1. 1 \in Int /\ Ahead(p, w)
      BY DEF w
    <3> QED
      BY <2>8, <2>9, <3>1, IntPast
  <2>11. present.args["present"] = 1
    BY <2>10 DEF Put
  <2>12. fresh = Past(p, 1, <<>>) /\ Ahead(fresh, w1) /\ fresh.args = <<>>
    <3>1. fresh = Past(p, 1, <<>>)
      BY <2>10, PastArgs
    <3>2. fresh.args = <<>>
      BY <3>1, PastFields
    <3>3. Sound(present)
      BY <2>10 DEF Ahead
    <3>4. fresh = Past(present, 0, <<>>)
      BY <3>3, PastNothing
    <3>5. Ahead(Past(present, 0, <<>>), w1)
      BY <2>10, AheadAnyArgs
    <3> QED
      BY <3>1, <3>2, <3>4, <3>5
  <2> HIDE DEF present, fresh
  <2>13. p1 = Past(fresh, 1, a2) /\ Ahead(p1, w2) /\ p1.args = a2
    BY <2>3, <2>7, <2>8, <2>12, IntPast
  <2> HIDE DEF p1, a2
  <2>14. p2 = Past(p1, 1, a3) /\ Ahead(p2, w3) /\ p2.args = a3
    BY <2>3, <2>6, <2>7, <2>13, IntPast
  <2> HIDE DEF p2, a3
  <2>15. p3 = Past(p2, 1, a4) /\ Ahead(p3, data) /\ p3.args = a4
    BY <2>3, <2>6, <2>14, IntPast
  <2> HIDE DEF p3, a4
  <2>16. read = p3
    <3>1. read = readInt32(readInt32(readInt32(fresh, "uusType"), "uusDcs"), "len")
      BY ThreeFields
    <3> QED
      BY <3>1, Zenon DEF p1, p2, p3
  <2>17. read.args["len"] = n
    BY <2>15, <2>16 DEF a4, Put
  <2>18. all = Past(p3, n, a5)
    <3>1. Ahead(p3, data \o none)
      BY <2>5, <2>15
    <3>2. readInplace(p3, "uusData", Len(data)) = Past(p3, Len(data), Put(p3.args, "uusData", data))
      BY <2>3, <2>5, <3>1, BlockBack
    <3> HIDE DEF read
    <3> QED
      BY <2>15, <2>16, <2>17, <3>2 DEF n
  <2> HIDE DEF read, a5
  <2>19. all = Past(p, n + 4, a5)
    <3> DEFINE m == n + 1
    <3>1. fresh.pos \in Nat /\ p1.pos \in Nat /\ p2.pos \in Nat
      BY <2>12, <2>13, <2>14 DEF Ahead, Sound
    <3>2. all = Past(p2, 1 + n, a5)
      BY <2>3, <2>15, <2>18, <3>1, PastTwice
    <3>3. all = Past(p1, 1 + (1 + n), a5)
      <4> DEFINE k == 1 + n
      <4>1. k \in Nat
        BY <2>3
      <4> HIDE DEF k
      <4>2. all = Past(p1, 1 + k, a5)
        BY <2>14, <3>1, <3>2, <4>1, PastTwice DEF k
      <4> QED
        BY <4>2 DEF k
    <3>4. all = Past(fresh, 1 + (1 + (1 + n)), a5)
      <4> DEFINE k == 1 + (1 + n)
      <4>1. k \in Nat
        BY <2>3
      <4> HIDE DEF k
      <4>2. all = Past(fresh, 1 + k, a5)
        BY <2>13, <3>1, <3>3, <4>1, PastTwice DEF k
      <4> QED
        BY <4>2 DEF k
    <3>5. all = Past(p, 1 + (1 + (1 + (1 + n))), a5)
      <4> DEFINE k == 1 + (1 + (1 + n))
      <4>1. k \in Nat
        BY <2>3
      <4> HIDE DEF k
      <4>2. all = Past(p, 1 + k, a5)
        BY <1>2, <2>12, <3>4, <4>1, PastTwice DEF k
      <4> QED
        BY <4>2 DEF k
    <3>6. 1 + (1 + (1 + (1 + n))) = n + 4
      BY <2>3
    <3> QED
      BY <3>5, <3>6
  <2> HIDE DEF all
  <2>20. all.args = a5
    BY <2>19, PastFields
  <2>21. a5["uusType"] = t /\ a5["uusDcs"] = dcs /\ a5["uusData"] = data
    BY DEF a2, a3, a4, a5, Put
  <2>22. info = uus
    <3>1. info = [uusType |-> t, uusDcs |-> dcs, uusData |-> data]
      BY <2>20, <2>21
    <3> HIDE DEF info
    <3> QED
      BY <2>4, <3>1
  <2> DEFINE a == Put(a5, "uusInfo", uus)
  <2>23. ReadJavaUus(p) = Past(p, n + 4, a)
    <3> HIDE DEF info
    <3>1. ReadJavaUus(p) = Store(all, "uusInfo", uus)
      BY <1>1, <2>11, <2>22
    <3> QED
      BY <2>19, <3>1, PastStore
  <2>24. a["uusInfo"] = uus
    BY DEF Put
  <2> HIDE DEF a
  <2> QED
    BY <2>1, <2>9, <2>23, <2>24 DEF w
<1> QED
  BY <1>3, <1>4


LEMMA UusWritten ==
    ASSUME NEW uus, IsUus(uus), NEW version
    PROVE  WriteUus(uus, version) \in Seq(Int)
<1>1. CASE uus = NULL \/ version < 3
  BY <1>1 DEF WriteUus
<1>2. CASE ~(uus = NULL \/ version < 3) /\ uus["uusData"] = NULL
  BY <1>2 DEF WriteUus
<1>3. CASE ~(uus = NULL \/ version < 3) /\ uus["uusData"] # NULL
  <2> DEFINE data == uus["uusData"]
             head == <<1, uus["uusType"], uus["uusDcs"], Len(data)>>
  <2>1. WriteUus(uus, version) = head \o data
    BY <1>3 DEF WriteUus
  <2>2. uus["uusType"] \in Int /\ uus["uusDcs"] \in Int /\ data \in Texts
    BY <1>3 DEF IsUus
  <2>3. data \in Seq(Int) /\ Len(data) \in Int
    <3>1. data \in Seq(Int)
      BY <1>3, <2>2 DEF Texts
    <3> HIDE DEF data
    <3> QED
      BY <3>1, LenProperties
  <2> HIDE DEF data
  <2>4. head \in Seq(Int)
    BY <2>2, <2>3
  <2> HIDE DEF head
  <2> QED
    BY <2>1, <2>3, <2>4, Regroup
<1> QED
  BY <1>1, <1>2, <1>3


\* A call as ril.h declares it, what is written of it, and what is read.
IsCall(c) ==
    /\ DOMAIN c = Names(CallLayout) \cup {"uusInfo"} /\ HasFields(c, CallLayout)
    /\ IsUus(c["uusInfo"])
CallWords(c, version) == WriteStruct(c, CallLayout) \o WriteUus(c["uusInfo"], version)
JavaCallOf(c, version) ==
    Put(Over(<<>>, Names(CallLayout), c), "uusInfo", ToldUus(c["uusInfo"], version))

LEMMA CallReadsBack ==
    ASSUME NEW c, IsCall(c), NEW version, NEW how, how = <<"call", 0>>
    PROVE  /\ CallWords(c, version) \in Seq(Int)
           /\ ReadsBack(how, CallWords(c, version), JavaCallOf(c, version))
<1> DEFINE uus == c["uusInfo"]
           wc == WriteStruct(c, CallLayout)
           wu == WriteUus(uus, version)
           w  == CallWords(c, version)
           A  == Over(<<>>, Names(CallLayout), c)
           U  == ToldUus(uus, version)
           v  == JavaCallOf(c, version)
<1>1. Holds(c, CallLayout)
  BY CallNames DEF IsCall, Holds
<1>2. wc \in Seq(Int)
  BY <1>1, StructWritten
<1>3. ASSUME NEW p, Ahead(p, wu)
      PROVE  /\ wu \in Seq(Int)
             /\ \E args : ReadJavaUus(p) = Past(p, Len(wu), args) /\ args["uusInfo"] = U
  <2>1. IsUus(uus)
    BY DEF IsCall
  <2> HIDE DEF uus
  <2> QED
    BY <1>3, <2>1, UusReadsBack
<1>4. wu \in Seq(Int)
  <2>1. IsUus(uus)
    BY DEF IsCall
  <2> HIDE DEF uus
  <2> QED
    BY <2>1, UusWritten
<1>5. w = wc \o wu /\ v = Put(A, "uusInfo", U)
  BY DEF CallWords, JavaCallOf
<1> HIDE DEF uus, wc, wu, w, A, U, v
<1>6. w \in Seq(Int) /\ Len(w) = Len(wc) + Len(wu) /\ Len(wc) \in Nat /\ Len(wu) \in Nat
  BY <1>2, <1>4, <1>5, Regroup, LenProperties
<1>7. ASSUME NEW u, Ahead(u, w), u.args = <<>>
      PROVE  One(u, how) = Past(u, Len(w), v)
  <2> DEFINE call == ReadStruct(u, JavaCall)
             read == ReadJavaUus(call)
             back == [read EXCEPT !.args = call.args]
  <2>1. One(u, how) = Store(back, "uusInfo", read.args["uusInfo"])
    <3>1. One(u, how) = ReadJavaCall(u)
      BY DEF One
    <3> QED
      BY <3>1, Zenon DEF ReadJavaCall
  <2>2. /\ call = Past(u, Len(wc), A) /\ Ahead(call, wu) /\ call.args = A
    <3>1. JavaCall = CallLayout
      BY DEF JavaCall, CallLayout
    <3>2. IsMap(<<>>)
      BY DEF IsMap
    <3>3. Ahead(u, wc \o wu) /\ IsMap(u.args)
      BY <1>5, <1>7, <3>2
    <3>4. ReadStruct(u, CallLayout) = Past(u, Len(wc), Over(u.args, Names(CallLayout), c))
          /\ Ahead(Past(u, Len(wc), Over(u.args, Names(CallLayout), c)), wu)
      BY <1>1, <1>4, <3>3, StructAhead DEF wc
    <3> QED
      BY <1>7, <3>1, <3>4, PastFields DEF A
  <2> HIDE DEF call
  <2>3. PICK args : read = Past(call, Len(wu), args) /\ args["uusInfo"] = U
    BY <1>3, <2>2
  <2> HIDE DEF read
  <2>4. read.args["uusInfo"] = U
    BY <2>3, PastFields
  <2>5. back = Past(call, Len(wu), A)
    BY <2>2, <2>3, PastArgs
  <2> HIDE DEF back
  <2>6. One(u, how) = Past(call, Len(wu), v)
    BY <1>5, <2>1, <2>4, <2>5, PastStore
  <2>7. u.pos \in Nat
    BY <1>7 DEF Ahead, Sound
  <2>8. Past(call, Len(wu), v) = Past(u, Len(w), v)
    BY <1>6, <2>2, <2>7, PastTwice
  <2> QED
    BY <2>6, <2>8
<1>8. ReadsBack(how, w, v)
  BY <1>7, Zenon DEF ReadsBack
<1> QED
  BY <1>6, <1>8 DEF w, v

\* The calls that StuttgartRIL has of those the vendor RIL told of.
SameCalls(calls, version, r) ==
    /\ dataAvail(r) = 0 /\ Len(r.args["calls"]) = Len(calls)
    /\ \A i \in DOMAIN calls : r.args["calls"][i] = JavaCallOf(calls[i], version)

LEMMA ListedCallsReadBack ==
    ASSUME NEW r, FitsList(r), NEW version,
           Elements(r) \in Seq(Range(Elements(r))), \A i \in DOMAIN Elements(r) : IsCall(Elements(r)[i])
    PROVE  SameCalls(Elements(r), version, JavaCallList(responseCallList(r, version).words))
<1> DEFINE calls == Elements(r)
           n == Len(calls)
           how == <<"call", 0>>
           seqs == [i \in DOMAIN calls |-> CallWords(calls[i], version)]
           item(i) == JavaCallOf(calls[i], version)
           items == [i \in 1..n |-> item(i)]
           S == {item(i) : i \in 1..n}
           all == FlattenSeq(seqs)
           words == <<n>> \o all
           p == Parcel(words)
           c == readInt32(p, "num")
           back == Repeat(c, "calls", c.args["num"], ReadJavaCall)
<1>1. n \in Nat /\ DOMAIN calls = 1..n
  BY LenProperties
<1>2. responseCallList(r, version).words = words
  BY DEF responseCallList, DoneIf, Done, CallWords
<1>3. \A i \in 1..n : IsCall(calls[i])
  BY <1>1
<1>4. \A i \in 1..n : /\ CallWords(calls[i], version) \in Seq(Int)
                      /\ ReadsBack(how, CallWords(calls[i], version), item(i))
  <2> HIDE DEF calls, n
  <2> QED
    BY <1>3, CallReadsBack
<1>5. /\ seqs \in [1..n -> Seq(Int)]
      /\ \A i \in 1..n : seqs[i] = CallWords(calls[i], version)
  BY <1>1, <1>4
<1> HIDE DEF seqs
<1>6. seqs \in Seq(Seq(Int)) /\ Len(seqs) = n
  <2> HIDE DEF n, calls
  <2>1. seqs \in Seq(Seq(Int))
    BY <1>1, <1>5, SeqDef
  <2>2. Len(seqs) \in Nat /\ DOMAIN seqs = 1..Len(seqs)
    BY <2>1, LenProperties
  <2> QED
    BY <1>1, <1>5, <2>1, <2>2
<1>7. all \in Seq(Int)
  BY <1>6, FlattenType
<1>8. items \in Seq(S) /\ Len(items) = n /\ \A i \in 1..n : items[i] = item(i)
  BY <1>1
<1>9. JavaCallList(words) = back
  BY Zenon DEF JavaCallList
<1> HIDE DEF n, calls, item, items, S, how
<1>10. words \in Seq(Int) /\ Len(words) = 1 + Len(all) /\ Len(all) \in Nat
  <2> HIDE DEF all
  <2> QED
    BY <1>1, <1>7
<1>11. Ahead(p, words) /\ p.args = <<>>
  <2> HIDE DEF words
  <2> QED
    BY <1>10, AheadFresh, Zenon
<1>12. dataAvail(p) = Len(words)
  BY <1>10 DEF dataAvail, Parcel
<1> DEFINE a == Put(<<>>, "num", n)
<1>13. c = Past(p, 1, a) /\ Ahead(c, all) /\ c.args = a
  <2>1. Begins(words, n, all)
    BY DEF Begins
  <2> HIDE DEF words, all, p
  <2>2. n \in Int
    BY <1>1
  <2> QED
    BY <1>7, <1>11, <2>1, <2>2, IntPast
<1>14. c.args["num"] = n
  BY <1>13 DEF Put
<1>15. dataAvail(c) = Len(all)
  <2>1. p.pos \in Nat /\ p.words = words
    BY <1>11 DEF Ahead, Sound, Parcel
  <2>2. c.words = p.words /\ c.pos = p.pos + 1
    BY <1>13, PastFields
  <2> HIDE DEF c, words, all
  <2> QED
    BY <1>10, <1>12, <2>1, <2>2, SMTT(60) DEF dataAvail
<1> HIDE DEF c, p, words
<1>16. back = Past(c, Len(all), Put(c.args, "calls", items))
  <2>1. Times(n) = Len(seqs)
    BY <1>1, <1>6 DEF Times
  <2> DEFINE q == Repeat(c, "calls", n, ReadJavaCall)
  <2>2. PICK x : Links(x, c, "calls", how, Times(n), q)
    BY CallsLinks DEF how
  <2>3. /\ Len(items) = Len(seqs) /\ Links(x, c, "calls", how, Len(seqs), q)
        /\ \A i \in 1..Len(seqs) : ReadsBack(how, seqs[i], items[i])
    BY <1>4, <1>5, <1>6, <1>8, <2>1, <2>2
  <2>4. back = q
    BY <1>14
  <2> HIDE DEF q, back
  <2>5. q = Past(c, Len(FlattenSeq(seqs)), Put(c.args, "calls", items))
    BY <1>6, <1>8, <1>13, <2>3, LinksBack
  <2> QED
    BY <2>4, <2>5
<1> HIDE DEF back
<1>17. dataAvail(back) = 0
  <2>1. c.pos \in Nat /\ Len(c.words) \in Nat
    BY <1>13 DEF Ahead, Sound
  <2>2. back.words = c.words /\ back.pos = c.pos + Len(all)
    BY <1>16, PastFields
  <2> HIDE DEF all
  <2> QED
    BY <1>10, <1>15, <2>1, <2>2, SMTT(60) DEF dataAvail
<1>18. back.args["calls"] = items
  <2>1. back.args = Put(c.args, "calls", items)
    BY <1>16, PastFields
  <2> QED
    BY <2>1 DEF Put
<1>19. SameCalls(calls, version, back)
  BY <1>1, <1>8, <1>17, <1>18 DEF SameCalls, n, item
<1> QED
  BY <1>2, <1>9, <1>19 DEF calls


LEMMA CallFound ==
    ASSUME NEW c, IsCall(c), NEW version, NEW f \in DOMAIN c
    PROVE  JavaCallOf(c, version)[f] =
               IF f # "uusInfo" \/ c[f] = NULL THEN c[f]
               ELSE IF version < 3 \/ c[f]["uusData"] = NULL THEN NULL ELSE c[f]
<1> DEFINE A == Over(<<>>, Names(CallLayout), c)  U == ToldUus(c["uusInfo"], version)
<1>1. JavaCallOf(c, version) = Put(A, "uusInfo", U)
  BY DEF JavaCallOf
<1>2. CASE f = "uusInfo"
  <2>1. JavaCallOf(c, version)[f] = U
    BY <1>1, <1>2 DEF Put
  <2> QED
    BY <1>2, <2>1 DEF ToldUus
<1>3. CASE f # "uusInfo"
  <2>1. f \in Names(CallLayout)
    BY <1>3 DEF IsCall
  <2>2. f \in DOMAIN A /\ A[f] = c[f]
    BY <2>1 DEF Over
  <2> HIDE DEF A, U
  <2>3. JavaCallOf(c, version)[f] = c[f]
    BY <1>1, <1>3, <2>2 DEF Put
  <2> QED
    BY <1>3, <2>3
<1> QED
  BY <1>2, <1>3

-----------------------------------------------------------------------------
(* A parcel and a beginning of it, read in step.                           *)

\* What p reads is a beginning of what q reads.
Shorter(p, q) ==
    /\ Sound(p) /\ Sound(q) /\ Len(p.words) <= Len(q.words)
    /\ \A i \in 1..Len(p.words) : p.words[i] = q.words[i]

\* A number was missing, or a string cut.
Lost(p) == p.ok = FALSE \/ p.cut = TRUE

\* They stand at the same word, or p at its end, where only strings can be missing.
InStep(p, q) == p.pos <= q.pos /\ (p.pos = q.pos \/ p.pos = Len(p.words))

\* The same was read, but for fields of S, which may be missing in a.
SameBut(a, b, S) ==
    /\ DOMAIN a = DOMAIN b
    /\ \A f \in DOMAIN a : a[f] = b[f] \/ (f \in S /\ a[f] = NULL)

\* What was read of p, if nothing was lost, q has read too.
Agree(p, q, S) == Lost(p) \/ (q.ok = TRUE /\ SameBut(p.args, q.args, S))

\* p and q are read in step, q behind no more than p has.
Follows(p, q, S) == Shorter(p, q) /\ (Lost(p) \/ InStep(p, q)) /\ Agree(p, q, S)

\* The same field more in both.
LEMMA SameMore ==
    ASSUME NEW a, NEW b, NEW S, SameBut(a, b, S), NEW f, NEW u, NEW v, u = v \/ (f \in S /\ u = NULL)
    PROVE  SameBut(Put(a, f, u), Put(b, f, v), S)
<1>1. DOMAIN Put(a, f, u) = DOMAIN a \cup {f} /\ DOMAIN Put(b, f, v) = DOMAIN b \cup {f}
  BY DEF Put
<1>2. ASSUME NEW g \in DOMAIN a \cup {f}
      PROVE  \/ Put(a, f, u)[g] = Put(b, f, v)[g]
             \/ g \in S /\ Put(a, f, u)[g] = NULL
  <2>1. CASE g = f
    BY <2>1 DEF Put
  <2>2. CASE g # f
    <3>1. g \in DOMAIN a /\ g \in DOMAIN b
      BY <1>2, <2>2 DEF SameBut
    <3>2. Put(a, f, u)[g] = a[g] /\ Put(b, f, v)[g] = b[g]
      BY <2>2, <3>1 DEF Put
    <3> QED
      BY <3>1, <3>2 DEF SameBut
  <2> QED
    BY <2>1, <2>2
<1> QED
  BY <1>1, <1>2 DEF SameBut

\* From p to r: nothing that was lost is found again.
Onward(p, r) == Sound(r) /\ r.words = p.words /\ p.pos <= r.pos /\ (Lost(p) => Lost(r))

\* Two readings one after the other lose no less than the first.
LEMMA OnwardTwice ==
    ASSUME NEW p, NEW q, NEW r, p.pos \in Nat, Onward(p, q), Onward(q, r)
    PROVE  Onward(p, r)
<1>1. q.pos \in Nat /\ r.pos \in Nat
  BY DEF Onward, Sound
<1> QED
  BY <1>1 DEF Onward

\* What one read does to a parcel whose end it has not reached, and at its end.
LEMMA OneOnward ==
    ASSUME NEW p, Sound(p), NEW f, NEW kind \in Kinds
    PROVE  LET r == Read(p, <<f, kind>>) IN
           /\ Onward(p, r)
           /\ kind = "str" => r.ok = p.ok
           /\ kind # "str" /\ p.pos = Len(p.words) => r.ok = FALSE
<1> DEFINE r == Read(p, <<f, kind>>)
           end == Len(p.words)
           w == p.words[p.pos + 1]
<1>1. /\ IsParcel(p) /\ p.words \in Seq(Int) /\ p.pos \in Nat /\ end \in Nat /\ p.pos <= end
      /\ p.ok \in BOOLEAN /\ p.cut \in BOOLEAN /\ (p.ok = FALSE => p.pos = end)
  BY DEF Sound
<1>2. Sound(r) /\ r.words = p.words /\ (r.ok = TRUE => p.ok = TRUE)
  BY OneRead DEF Took
<1>3. p.pos < end => w \in Int
  <2>1. p.pos < end => p.pos + 1 \in 1..end
    BY <1>1
  <2> QED
    BY <1>1, <2>1, ElementOfSeq
<1>4. CASE kind # "str"
  <2>1. \E pos, ok, v : /\ r = At(p, pos, ok, Put(p.args, f, v), p.cut) /\ p.pos <= pos
                        /\ p.pos = end => ok = FALSE
    <3> DEFINE good == TRUE  bad == FALSE  next == p.pos + 1  x == w % 256
    <3>0. p.pos = end => ~(dataAvail(p) > 0)
      BY <1>1 DEF dataAvail
    <3>1. p.pos <= next /\ p.pos <= p.pos
      BY <1>1
    <3>2. \/ kind = "int" /\ r = readInt32(p, f)
          \/ kind = "byte" /\ r = readByte(p, f)
      BY <1>4 DEF Read, Kinds
    <3>3. \/ dataAvail(p) > 0 /\ r = At(p, next, good, Put(p.args, f, w), p.cut)
          \/ dataAvail(p) > 0 /\ r = At(p, next, good, Put(p.args, f, x), p.cut)
          \/ r = At(p, p.pos, bad, Put(p.args, f, Unread), p.cut)
      BY <1>1, <3>2, IntIs, ByteIs, ZenonT(60)
    <3>4. bad = FALSE
      OBVIOUS
    <3> HIDE DEF good, bad, next, x, w, r
    <3> QED
      BY <3>0, <3>1, <3>3, <3>4, Zenon
  <2>2. PICK pos, ok, v : /\ r = At(p, pos, ok, Put(p.args, f, v), p.cut) /\ p.pos <= pos
                          /\ p.pos = end => ok = FALSE
    BY <2>1
  <2> HIDE DEF r
  <2>3. r.pos = pos /\ r.ok = ok /\ r.cut = p.cut
    BY <2>2, Fields
  <2>4. r.ok \in BOOLEAN
    BY <1>2 DEF Sound
  <2>5. Lost(p) => Lost(r)
    BY <1>1, <1>2, <2>3, <2>4 DEF Lost
  <2> QED
    BY <1>2, <1>4, <2>2, <2>3, <2>5 DEF Onward, r
<1>5. CASE kind = "str"
  <2>1. r = strdupReadString(p, f)
    BY <1>5 DEF Read
  <2>2. \E pos, v, cut : /\ r = At(p, pos, p.ok, Put(p.args, f, v), cut) /\ p.pos <= pos
                         /\ (p.cut = TRUE => cut = TRUE)
    <3>1. \/ p.pos = end \/ (p.pos < end /\ w < 0)
          \/ (p.pos < end /\ w >= 0 /\ p.pos + 1 + w <= end)
          \/ (p.pos < end /\ p.pos + 1 + w > end)
      BY <1>1, <1>3
    <3> DEFINE next == p.pos + 1  after == p.pos + 1 + w  yes == TRUE
               v == SubSeq(p.words, p.pos + 2, p.pos + 1 + w)
    <3>2. \/ r = At(p, p.pos, p.ok, Put(p.args, f, NULL), p.cut)
          \/ r = At(p, next, p.ok, Put(p.args, f, NULL), p.cut)
          \/ w >= 0 /\ p.pos < end /\ r = At(p, after, p.ok, Put(p.args, f, v), p.cut)
          \/ r = At(p, next, p.ok, Put(p.args, f, NULL), yes)
      BY <2>1, <3>1, StringIs, ZenonT(60)
    <3>3. p.pos <= next /\ p.pos <= p.pos /\ (w >= 0 /\ p.pos < end => p.pos <= after) /\ yes = TRUE
      BY <1>1, <1>3
    <3> HIDE DEF next, after, yes, v, w, r
    <3> QED
      BY <3>2, <3>3, Zenon
  <2>3. PICK pos, v, cut : /\ r = At(p, pos, p.ok, Put(p.args, f, v), cut) /\ p.pos <= pos
                           /\ (p.cut = TRUE => cut = TRUE)
    BY <2>2
  <2> HIDE DEF r
  <2>4. r.pos = pos /\ r.ok = p.ok /\ r.cut = cut
    BY <2>3, Fields
  <2> QED
    BY <1>2, <1>5, <2>3, <2>4 DEF Onward, Lost, r
<1> QED
  BY <1>4, <1>5

\* A block that is there in the shorter one is there in the other.
LEMMA SameBlock ==
    ASSUME NEW p, NEW q, Shorter(p, q), NEW i \in Nat, NEW j \in Nat, j <= Len(p.words)
    PROVE  SubSeq(p.words, i + 1, j) = SubSeq(q.words, i + 1, j)
<1>1. /\ p.words \in Seq(Int) /\ q.words \in Seq(Int) /\ Len(p.words) \in Nat /\ Len(q.words) \in Nat
      /\ Len(p.words) <= Len(q.words)
  BY LenProperties DEF Shorter, Sound
<1>2. \A k \in i + 1..j : k \in 1..Len(p.words) /\ k \in 1..Len(q.words)
  BY <1>1
<1>3. \A k \in i + 1..j : p.words[k] = q.words[k]
  BY <1>2 DEF Shorter
<1> DEFINE a == SubSeq(p.words, i + 1, j)  b == SubSeq(q.words, i + 1, j)
           n == IF i + 1 <= j THEN j - (i + 1) + 1 ELSE 0
<1>4. i + 1 \in Int /\ j \in Int
  OBVIOUS
<1>5. \A k \in i + 1..j : p.words[k] \in Int /\ q.words[k] \in Int
  BY <1>1, <1>2, ElementOfSeq
<1>6. a \in Seq(Int) /\ Len(a) = n /\ \A k \in 1..n : a[k] = p.words[i + 1 + k - 1]
  BY <1>1, <1>4, <1>5, SubSeqProperties
<1>7. b \in Seq(Int) /\ Len(b) = n /\ \A k \in 1..n : b[k] = q.words[i + 1 + k - 1]
  BY <1>1, <1>4, <1>5, SubSeqProperties
<1>8. n \in Nat /\ \A k \in 1..n : i + 1 + k - 1 \in i + 1..j
  OBVIOUS
<1> HIDE DEF a, b, n
<1>9. \A k \in 1..Len(a) : a[k] = b[k]
  BY <1>3, <1>6, <1>7, <1>8
<1>10. a = b
  BY <1>6, <1>7, <1>9, SeqEqual
<1> QED
  BY <1>10 DEF a, b

\* One field is read of both.
LEMMA OneFollows ==
    ASSUME NEW p, NEW q, NEW S, Follows(p, q, S), NEW f, NEW kind \in Kinds, kind = "str" => f \in S
    PROVE  Follows(Read(p, <<f, kind>>), Read(q, <<f, kind>>), S)
<1> DEFINE r == Read(p, <<f, kind>>)  t == Read(q, <<f, kind>>)
           w == p.words[p.pos + 1]  x == q.words[q.pos + 1]
           end == Len(p.words)
<1>1. Sound(p) /\ Sound(q) /\ Shorter(p, q)
  BY DEF Follows, Shorter
<1>2. Onward(p, r) /\ Onward(q, t)
  BY <1>1, OneOnward
<1>3. Shorter(r, t)
  BY <1>1, <1>2 DEF Shorter, Onward
<1>4. CASE Lost(p)
  BY <1>2, <1>3, <1>4 DEF Follows, Agree, Onward
<1>5. CASE ~Lost(p)
  <2>1. p.ok = TRUE /\ q.ok = TRUE /\ InStep(p, q) /\ SameBut(p.args, q.args, S)
    BY <1>1, <1>5 DEF Follows, Agree, Lost, Sound
  <2>2. /\ IsParcel(p) /\ p.words \in Seq(Int) /\ p.pos \in Nat /\ end \in Nat /\ p.pos <= end
        /\ IsParcel(q) /\ q.words \in Seq(Int) /\ q.pos \in Nat /\ Len(q.words) \in Nat
        /\ q.pos <= Len(q.words) /\ end <= Len(q.words) /\ p.pos <= q.pos
    BY <1>1, <2>1, LenProperties DEF Sound, Shorter, InStep
  <2>3. CASE p.pos = end /\ kind # "str"
    <3>1. r.ok = FALSE
      BY <1>1, <2>3, OneOnward
    <3> QED
      BY <1>3, <3>1 DEF Follows, Agree, Lost
  <2>4. CASE p.pos = end /\ kind = "str"
    <3>1. r = strdupReadString(p, f)
      BY <2>4 DEF Read
    <3>2. r = At(p, p.pos, p.ok, Put(p.args, f, NULL), p.cut)
      BY <1>1, <2>4, <3>1, StringIs, Zenon
    <3> HIDE DEF r
    <3>3. r.pos = p.pos /\ r.words = p.words /\ r.args = Put(p.args, f, NULL)
      BY <3>2, Fields
    <3>4. Took(q, t, f, Values(kind)) /\ t.ok = q.ok
      BY <1>1, <2>4, OneRead, OneOnward
    <3>5. PICK v : t.args = Put(q.args, f, v)
      BY <3>4 DEF Took
    <3>6. SameBut(r.args, t.args, S)
      BY <2>1, <2>4, <3>3, <3>5, SameMore
    <3>7. InStep(r, t)
      BY <1>2, <2>2, <2>4, <3>3 DEF InStep, Onward, Sound
    <3> QED
      BY <1>3, <2>1, <3>4, <3>6, <3>7 DEF Follows, Agree, r
  <2>5. CASE p.pos < end
    <3>1. q.pos = p.pos /\ q.pos < Len(q.words) /\ p.pos + 1 \in 1..end
      BY <2>1, <2>2, <2>5 DEF InStep
    <3>2. x = w /\ w \in Int
      BY <1>1, <2>2, <3>1, ElementOfSeq, SMTT(60) DEF Shorter
    <3>3. dataAvail(p) > 0 /\ dataAvail(q) > 0
      BY <2>2, <2>5, <3>1 DEF dataAvail
    <3>4. \E pos, v, cut, also :
              /\ r = At(p, pos, p.ok, Put(p.args, f, v), cut)
              /\ cut = TRUE \/ t = At(q, pos, q.ok, Put(q.args, f, v), also)
      <4> DEFINE next == p.pos + 1  after == p.pos + 1 + w  good == TRUE
      <4>1. CASE kind = "int"
        <5>1. r = readInt32(p, f) /\ t = readInt32(q, f)
          BY <4>1 DEF Read
        <5>2. r = At(p, p.pos + 1, good, Put(p.args, f, w), p.cut)
          BY <2>2, <3>3, <5>1, IntIs, Zenon
        <5>3. t = At(q, q.pos + 1, good, Put(q.args, f, x), q.cut)
          BY <2>2, <3>3, <5>1, IntIs, Zenon
        <5> HIDE DEF w, x, r, t
        <5> QED
          BY <2>1, <3>1, <3>2, <5>2, <5>3, Zenon DEF good
      <4>2. CASE kind = "byte"
        <5> DEFINE v == w % 256
        <5>1. r = readByte(p, f) /\ t = readByte(q, f)
          BY <4>2 DEF Read
        <5>2. r = At(p, p.pos + 1, good, Put(p.args, f, v), p.cut)
          BY <2>2, <3>3, <5>1, ByteIs, Zenon
        <5>3. t = At(q, q.pos + 1, good, Put(q.args, f, x % 256), q.cut)
          BY <2>2, <3>3, <5>1, ByteIs, Zenon
        <5>4. x % 256 = v
          BY <3>2
        <5> HIDE DEF x, r, t, w, v
        <5>5. t = At(q, q.pos + 1, good, Put(q.args, f, v), q.cut)
          BY <5>3, <5>4
        <5>6. p.ok = good /\ q.ok = good
          BY <2>1 DEF good
        <5> HIDE DEF good
        <5>7. r = At(p, p.pos + 1, p.ok, Put(p.args, f, v), p.cut)
          BY <5>2, <5>6
        <5>8. t = At(q, p.pos + 1, q.ok, Put(q.args, f, v), q.cut)
          BY <3>1, <5>5, <5>6
        <5> QED
          BY <5>7, <5>8, Zenon
      <4>3. CASE kind = "str"
        <5>1. r = strdupReadString(p, f) /\ t = strdupReadString(q, f)
          BY <4>3 DEF Read
        <5>2. CASE w < 0
          <6>1. r = At(p, p.pos + 1, p.ok, Put(p.args, f, NULL), p.cut)
            BY <1>1, <2>5, <5>1, <5>2, StringIs, Zenon
          <6>2. x < 0
            BY <3>2, <5>2
          <6>3. t = At(q, q.pos + 1, q.ok, Put(q.args, f, NULL), q.cut)
            BY <1>1, <3>1, <5>1, <6>2, StringIs, Zenon
          <6> HIDE DEF r, t
          <6> QED
            BY <3>1, <6>1, <6>3, Zenon
        <5>3. CASE p.pos + 1 + w > end
          <6>1. r = At(p, p.pos + 1, p.ok, Put(p.args, f, NULL), good)
            BY <1>1, <2>5, <5>1, <5>3, StringIs, Zenon
          <6> HIDE DEF r
          <6> QED
            BY <6>1, Zenon DEF good
        <5>4. CASE w >= 0 /\ p.pos + 1 + w <= end
          <6> DEFINE u == SubSeq(p.words, p.pos + 2, after)  v == SubSeq(q.words, q.pos + 2, after)
          <6>1. r = At(p, after, p.ok, Put(p.args, f, u), p.cut)
            BY <1>1, <2>5, <5>1, <5>4, StringIs, Zenon
          <6>2. x >= 0 /\ q.pos + 1 + x <= Len(q.words) /\ q.pos + 1 + x = after
            <7> HIDE DEF w, x, end
            <7> QED
              BY <2>2, <3>1, <3>2, <5>4
          <6>3. t = At(q, q.pos + 1 + x, q.ok, Put(q.args, f, SubSeq(q.words, q.pos + 2, q.pos + 1 + x)), q.cut)
            BY <1>1, <3>1, <5>1, <6>2, StringIs, Zenon
          <6>4. u = v
            <7>1. p.pos + 2 = next + 1 /\ q.pos + 2 = next + 1
              BY <2>2, <3>1
            <7>2. next \in Nat /\ after \in Nat /\ after <= end
              <8> HIDE DEF w, end
              <8> QED
                BY SMTT(60), <2>2, <3>2, <5>4
            <7>3. u = SubSeq(p.words, next + 1, after) /\ v = SubSeq(q.words, next + 1, after)
              BY <7>1
            <7> HIDE DEF next, after, u, v
            <7> QED
              BY <1>1, <7>2, <7>3, SameBlock, ZenonT(60)
          <6> HIDE DEF after, r, t, x, w
          <6>5. t = At(q, after, q.ok, Put(q.args, f, v), q.cut)
            BY <6>2, <6>3
          <6> HIDE DEF u, v
          <6> QED
            BY <6>1, <6>4, <6>5, Zenon
        <5>5. w < 0 \/ p.pos + 1 + w > end \/ (w >= 0 /\ p.pos + 1 + w <= end)
          <6> HIDE DEF w, end
          <6> QED
            BY <2>2, <3>2
        <5> QED
          BY <5>2, <5>3, <5>4, <5>5
      <4> QED
        BY <4>1, <4>2, <4>3 DEF Kinds
    <3>5. PICK pos, v, cut, also :
              /\ r = At(p, pos, p.ok, Put(p.args, f, v), cut)
              /\ cut = TRUE \/ t = At(q, pos, q.ok, Put(q.args, f, v), also)
      BY <3>4, Zenon
    <3> HIDE DEF r, t
    <3>6. r.pos = pos /\ r.ok = p.ok /\ r.args = Put(p.args, f, v) /\ r.cut = cut
      BY <3>5, Fields
    <3>7. CASE cut = TRUE
      BY <1>3, <3>6, <3>7 DEF Follows, Agree, Lost, r, t
    <3>8. CASE t = At(q, pos, q.ok, Put(q.args, f, v), also)
      <4>1. t.pos = pos /\ t.ok = q.ok /\ t.args = Put(q.args, f, v)
        BY <3>8, Fields
      <4>2. SameBut(r.args, t.args, S)
        BY <2>1, <3>6, <4>1, SameMore
      <4>3. InStep(r, t)
        <5>1. r.pos \in Nat
          BY <1>2 DEF Onward, Sound
        <5> QED
          BY <3>6, <4>1, <5>1 DEF InStep
      <4> QED
        BY <1>3, <2>1, <4>1, <4>2, <4>3 DEF Follows, Agree, r, t
    <3> QED
      BY <3>5, <3>7, <3>8
  <2> QED
    BY <2>2, <2>3, <2>4, <2>5
<1> QED
  BY <1>4, <1>5

\* Only strings that S names can be missing.
Misses(layout, S) ==
    IsLayout(layout) /\ \A i \in 1..Len(layout) : layout[i][2] = "str" => layout[i][1] \in S

\* A structure is read onward.
LEMMA StructOnward ==
    ASSUME NEW p, Sound(p), NEW layout, IsLayout(layout)
    PROVE  Onward(p, ReadStruct(p, layout))
<1> DEFINE n == Len(layout)
<1>1. n \in Nat
  BY DEF IsLayout
<1>2. PICK r : /\ r[0] = p /\ ReadStruct(p, layout) = r[n]
               /\ \A i \in 1..n : r[i] = Read(r[i - 1], layout[i])
  BY <1>1, StructRun
<1> DEFINE good(i) == Onward(p, r[i])
           U == {i \in 0..n : good(i)}
<1>3. 0 \in U
  BY <1>1, <1>2 DEF Onward, Sound
<1>4. ASSUME NEW i \in 0..(n - 1), good(i) PROVE good(i + 1)
  <2> DEFINE f == layout[i + 1][1]  kind == layout[i + 1][2]
  <2>1. i + 1 \in 1..n /\ (i + 1) - 1 = i
    BY <1>1
  <2>2. layout[i + 1] = <<f, kind>> /\ kind \in Kinds
    BY <2>1 DEF IsLayout
  <2>3. r[i + 1] = Read(r[i], <<f, kind>>)
    BY <1>2, <2>1, <2>2
  <2> HIDE DEF f, kind
  <2>4. Sound(r[i])
    BY <1>4 DEF Onward
  <2>5. Onward(r[i], r[i + 1])
    BY <2>2, <2>3, <2>4, OneOnward
  <2>6. p.pos \in Nat
    BY DEF Sound
  <2> QED
    BY <1>4, <2>5, <2>6, OnwardTwice
<1> HIDE DEF good
<1>5. 0..n \subseteq U
  <2>1. \A i \in 0..(n - 1) : i \in U => i + 1 \in U
    BY <1>1, <1>4
  <2> HIDE DEF U, n
  <2> QED
    BY <1>1, <1>3, <2>1, BoundedInduction
<1> QED
  BY <1>1, <1>2, <1>5 DEF good

\* A structure is read of both.
LEMMA StructFollows ==
    ASSUME NEW p, NEW q, NEW S, Follows(p, q, S), NEW layout, Misses(layout, S)
    PROVE  Follows(ReadStruct(p, layout), ReadStruct(q, layout), S)
<1> DEFINE n == Len(layout)
<1>1. n \in Nat
  BY DEF Misses, IsLayout
<1>2. PICK r : /\ r[0] = p /\ ReadStruct(p, layout) = r[n]
               /\ \A i \in 1..n : r[i] = Read(r[i - 1], layout[i])
  BY <1>1, StructRun
<1>3. PICK t : /\ t[0] = q /\ ReadStruct(q, layout) = t[n]
               /\ \A i \in 1..n : t[i] = Read(t[i - 1], layout[i])
  BY <1>1, StructRun
<1> DEFINE good(i) == Follows(r[i], t[i], S)
           U == {i \in 0..n : good(i)}
<1>4. 0 \in U
  BY <1>1, <1>2, <1>3
<1>5. ASSUME NEW i \in 0..(n - 1), good(i) PROVE good(i + 1)
  <2> DEFINE f == layout[i + 1][1]  kind == layout[i + 1][2]
  <2>1. i + 1 \in 1..n /\ (i + 1) - 1 = i
    BY <1>1
  <2>2. layout[i + 1] = <<f, kind>> /\ kind \in Kinds /\ (kind = "str" => f \in S)
    BY <2>1 DEF Misses, IsLayout
  <2>3. r[i + 1] = Read(r[i], <<f, kind>>) /\ t[i + 1] = Read(t[i], <<f, kind>>)
    BY <1>2, <1>3, <2>1, <2>2
  <2> HIDE DEF f, kind
  <2> QED
    BY <1>5, <2>2, <2>3, OneFollows
<1> HIDE DEF good
<1>6. 0..n \subseteq U
  <2>1. \A i \in 0..(n - 1) : i \in U => i + 1 \in U
    BY <1>1, <1>5
  <2> HIDE DEF U, n
  <2> QED
    BY <1>1, <1>4, <2>1, BoundedInduction
<1> QED
  BY <1>1, <1>2, <1>3, <1>6 DEF good

\* A parcel with other arguments is where it was.
LEMMA WithArgs ==
    ASSUME NEW p, IsParcel(p), NEW args
    PROVE  LET u == [p EXCEPT !.args = args] IN
           /\ IsParcel(u) /\ u.words = p.words /\ u.pos = p.pos /\ u.ok = p.ok
           /\ u.args = args /\ u.cut = p.cut
<1>1. [p EXCEPT !.args = args] = At(p, p.pos, p.ok, args, p.cut)
  BY Updates
<1> QED
  BY <1>1, Fields

\* Whatever was read of them.
Abreast(p, q) == Shorter(p, q) /\ (Lost(p) \/ (InStep(p, q) /\ q.ok = TRUE))

\* Parcels read in step are abreast, whatever was read.
LEMMA FollowsLevel == ASSUME NEW p, NEW q, NEW S, Follows(p, q, S) PROVE Abreast(p, q)
  BY DEF Follows, Agree, Abreast

\* Two parcels abreast with no arguments agree on them.
LEMMA EmptyFollows ==
    ASSUME NEW p, NEW q, NEW T, Abreast(p, q)
    PROVE  Follows([p EXCEPT !.args = <<>>], [q EXCEPT !.args = <<>>], T)
<1> DEFINE u == [p EXCEPT !.args = <<>>]  v == [q EXCEPT !.args = <<>>]
<1>1. Sound(p) /\ Sound(q) /\ IsParcel(p) /\ IsParcel(q)
  BY DEF Abreast, Shorter, Sound
<1>2. /\ IsParcel(u) /\ u.words = p.words /\ u.pos = p.pos /\ u.ok = p.ok
      /\ u.args = <<>> /\ u.cut = p.cut
  BY <1>1, WithArgs
<1>3. /\ IsParcel(v) /\ v.words = q.words /\ v.pos = q.pos /\ v.ok = q.ok
      /\ v.args = <<>> /\ v.cut = q.cut
  BY <1>1, WithArgs
<1> HIDE DEF u, v
<1>4. Sound(u) /\ Sound(v) /\ (Lost(u) <=> Lost(p))
  BY <1>1, <1>2, <1>3 DEF Sound, Lost
<1>5. Shorter(u, v)
  BY <1>2, <1>3, <1>4 DEF Abreast, Shorter
<1>6. InStep(p, q) => InStep(u, v)
  BY <1>2, <1>3 DEF InStep
<1>7. Agree(u, v, T)
  BY <1>2, <1>3, <1>4 DEF Abreast, Agree, SameBut
<1> QED
  BY <1>4, <1>5, <1>6, <1>7 DEF Follows, Abreast, u, v

\* What is repeated finds nothing again, and follows but for the fields of T.
Loses(how) == \A u : Sound(u) => Onward(u, One(u, how))
\* One more of both takes them on in step.
Steps(how, T) ==
    \A u, v : Follows(u, v, T) /\ u.args = <<>> /\ v.args = <<>> =>
        Follows(One(u, how), One(v, how), T)

\* What one more does, where v is what was read.
IsOneMore(p, r, f, v) ==
    /\ IsParcel(r) /\ r.words = v.words /\ r.pos = v.pos /\ r.ok = v.ok /\ r.cut = v.cut
    /\ r.args = Put(p.args, f, Append(p.args[f], v.args))

\* One more of what is repeated is read onward.
LEMMA OneMoreOnward ==
    ASSUME NEW p, Sound(p), NEW f, NEW how, Loses(how)
    PROVE  LET u == [p EXCEPT !.args = <<>>]  r == OneMore(p, f, how) IN
           IsOneMore(p, r, f, One(u, how)) /\ Onward(u, One(u, how)) /\ Onward(p, r)
<1> DEFINE u == [p EXCEPT !.args = <<>>]
           v == One(u, how)
           w == [v EXCEPT !.args = p.args]
           r == OneMore(p, f, how)
           list == Append(p.args[f], v.args)
<1>1. r = Store(w, f, list)
  BY Zenon DEF OneMore
<1>2. IsParcel(p)
  BY DEF Sound
<1>3. /\ IsParcel(u) /\ u.words = p.words /\ u.pos = p.pos /\ u.ok = p.ok
      /\ u.args = <<>> /\ u.cut = p.cut
  BY <1>2, WithArgs
<1> HIDE DEF u
<1>4. Sound(u) /\ (Lost(p) => Lost(u))
  BY <1>3 DEF Sound, Lost
<1>5. Onward(u, v)
  BY <1>4 DEF Loses
<1> HIDE DEF v
<1>6. Sound(v) /\ IsParcel(v)
  BY <1>5 DEF Onward, Sound
<1>7. w = At(v, v.pos, v.ok, p.args, v.cut)
  BY <1>6, Updates
<1> HIDE DEF w, list, r
<1>8. r = At(v, v.pos, v.ok, Put(p.args, f, list), v.cut)
  BY <1>1, <1>7, StoreAt
<1>9. IsOneMore(p, r, f, v)
  BY <1>8, Fields DEF IsOneMore, list
<1>10. Sound(r) /\ (Lost(v) => Lost(r))
  BY <1>6, <1>9 DEF Sound, IsOneMore, Lost
<1>11. Onward(p, r)
  BY <1>3, <1>4, <1>5, <1>9, <1>10 DEF Onward, IsOneMore
<1> QED
  BY <1>5, <1>9, <1>11, Zenon DEF u, v, r

\* To store an argument loses nothing and finds nothing.
LEMMA StoreOnward ==
    ASSUME NEW p, Sound(p), NEW f, NEW v
    PROVE  LET r == Store(p, f, v) IN
           /\ IsParcel(r) /\ r.words = p.words /\ r.pos = p.pos /\ r.ok = p.ok
           /\ r.args = Put(p.args, f, v) /\ r.cut = p.cut
           /\ Onward(p, r)
<1> DEFINE r == Store(p, f, v)
<1>1. IsParcel(p) /\ p.pos <= p.pos
  BY DEF Sound
<1>2. r = At(p, p.pos, p.ok, Put(p.args, f, v), p.cut)
  BY <1>1, Updates, ZenonT(60)
<1>3. /\ IsParcel(r) /\ r.words = p.words /\ r.pos = p.pos /\ r.ok = p.ok
      /\ r.args = Put(p.args, f, v) /\ r.cut = p.cut
  BY <1>2, Fields
<1> HIDE DEF r
<1>4. Onward(p, r)
  BY <1>1, <1>3 DEF Onward, Lost, Sound
<1> QED
  BY <1>3, <1>4 DEF r

\* However many are read, they are read onward.
LEMMA LinksOnward ==
    ASSUME NEW p, Sound(p), NEW f, NEW how, NEW n \in Nat, NEW r, NEW q,
           Links(r, p, f, how, n, q), Loses(how)
    PROVE  Onward(p, q) /\ \A i \in 0..n : Onward(p, r[i])
<1> DEFINE good(i) == Onward(p, r[i])
           U == {i \in 0..n : good(i)}
<1>1. 0 \in U
  <2>1. r[0] = Store(p, f, <<>>)
    BY DEF Links
  <2> QED
    BY <2>1, StoreOnward
<1>2. ASSUME NEW i \in 0..(n - 1), good(i) PROVE good(i + 1)
  <2>1. i + 1 \in 1..n /\ (i + 1) - 1 = i
    OBVIOUS
  <2>2. r[i + 1] = OneMore(r[i], f, how)
    BY <2>1 DEF Links
  <2>3. Sound(r[i])
    BY <1>2 DEF Onward
  <2>4. Onward(r[i], r[i + 1])
    BY <2>2, <2>3, OneMoreOnward
  <2>5. p.pos \in Nat
    BY DEF Sound
  <2> QED
    BY <1>2, <2>4, <2>5, OnwardTwice
<1> HIDE DEF good
<1>3. \A i \in 0..(n - 1) : i \in U => i + 1 \in U
  BY <1>2
<1> HIDE DEF U
<1>4. 0..n \subseteq U
  BY <1>1, <1>3, BoundedInduction
<1> QED
  BY <1>4 DEF U, good, Links

\* Lists of values of V, but for fields of T the same.
SameLists(a, b, n, V, T) ==
    /\ a \in Seq(V) /\ b \in Seq(V) /\ Len(a) = n /\ Len(b) = n
    /\ \A i \in 1..Len(a) : SameBut(a[i], b[i], T)

\* Lists that are the same are so with one more that is the same.
LEMMA ListsAppend ==
    ASSUME NEW a, NEW b, NEW n, NEW V, NEW T, SameLists(a, b, n, V, T), NEW x \in V, NEW y \in V, SameBut(x, y, T)
    PROVE  SameLists(Append(a, x), Append(b, y), n + 1, V, T)
<1> DEFINE c == Append(a, x)  d == Append(b, y)
<1>1. a \in Seq(V) /\ b \in Seq(V) /\ Len(a) = n /\ Len(b) = n /\ n \in Nat
  BY LenProperties DEF SameLists
<1>2. c \in Seq(V) /\ Len(c) = Len(a) + 1 /\ c[Len(a) + 1] = x /\ \A i \in 1..Len(a) : c[i] = a[i]
  BY <1>1, AppendProperties
<1>3. d \in Seq(V) /\ Len(d) = Len(b) + 1 /\ d[Len(b) + 1] = y /\ \A i \in 1..Len(b) : d[i] = b[i]
  BY <1>1, AppendProperties
<1> HIDE DEF c, d
<1>4. ASSUME NEW i \in 1..Len(c) PROVE SameBut(c[i], d[i], T)
  <2>1. CASE i = Len(a) + 1
    BY <1>1, <1>2, <1>3, <2>1
  <2>2. CASE i # Len(a) + 1
    <3>1. i \in 1..Len(a) /\ i \in 1..Len(b)
      BY <1>1, <1>2, <2>2
    <3> QED
      BY <1>2, <1>3, <3>1 DEF SameLists
  <2> QED
    BY <2>1, <2>2
<1> QED
  BY <1>1, <1>2, <1>3, <1>4 DEF SameLists, c, d

\* From p to a and from q to b lists were read as f.
BothListed(p, q, a, b, f, n, V, T) ==
    /\ Shorter(a, b)
    /\ Lost(a) \/ /\ InStep(a, b) /\ b.ok = TRUE
                  /\ \E x, y : /\ a.args = Put(p.args, f, x) /\ b.args = Put(q.args, f, y)
                               /\ SameLists(x, y, n, V, T)

\* One more of both keeps the lists the same.
LEMMA OneListed ==
    ASSUME NEW p, NEW q, NEW a, NEW b, NEW f, NEW n, NEW V, NEW T,
           BothListed(p, q, a, b, f, n, V, T),
           NEW how, Reads(how, V), Loses(how), Steps(how, T)
    PROVE  BothListed(p, q, OneMore(a, f, how), OneMore(b, f, how), f, n + 1, V, T)
<1> DEFINE c == OneMore(a, f, how)  d == OneMore(b, f, how)
           t == [a EXCEPT !.args = <<>>]  u == [b EXCEPT !.args = <<>>]
           v == One(t, how)  w == One(u, how)
<1>1. Sound(a) /\ Sound(b)
  BY DEF BothListed, Shorter
<1>2. /\ IsOneMore(a, c, f, v) /\ Onward(t, v) /\ Onward(a, c)
      /\ IsOneMore(b, d, f, w) /\ Onward(u, w) /\ Onward(b, d)
  BY <1>1, OneMoreOnward
<1>3. IsParcel(a) /\ IsParcel(b)
  BY <1>1 DEF Sound
<1>4. t.args = <<>> /\ u.args = <<>> /\ Abreast(a, b) => Follows(t, u, T)
  BY EmptyFollows
<1>5. t.args = <<>> /\ u.args = <<>> /\ Sound(t) /\ Sound(u)
  <2>1. /\ IsParcel(t) /\ t.words = a.words /\ t.pos = a.pos /\ t.ok = a.ok
        /\ t.args = <<>> /\ t.cut = a.cut
    BY <1>3, WithArgs
  <2>2. /\ IsParcel(u) /\ u.words = b.words /\ u.pos = b.pos /\ u.ok = b.ok
        /\ u.args = <<>> /\ u.cut = b.cut
    BY <1>3, WithArgs
  <2> HIDE DEF t, u
  <2> QED
    BY <1>1, <2>1, <2>2 DEF Sound
<1> SUFFICES BothListed(p, q, c, d, f, n + 1, V, T)
  OBVIOUS
<1> HIDE DEF c, d, t, u, v, w
<1>6. Shorter(c, d)
  BY <1>2 DEF BothListed, Shorter, Onward
<1>7. CASE Lost(a)
  BY <1>2, <1>6, <1>7 DEF BothListed, Onward
<1>8. CASE Lost(c)
  BY <1>6, <1>8 DEF BothListed
<1>9. CASE ~Lost(a) /\ ~Lost(c)
  <2>1. PICK x, y : /\ a.args = Put(p.args, f, x) /\ b.args = Put(q.args, f, y)
                    /\ SameLists(x, y, n, V, T)
    BY <1>9 DEF BothListed
  <2>2. a.args[f] = x /\ b.args[f] = y
    BY <2>1 DEF Put
  <2>3. Abreast(a, b)
    BY <1>9 DEF BothListed, Abreast
  <2>4. Follows(v, w, T)
    BY <1>4, <1>5, <2>3 DEF Steps, v, w
  <2>5. ~Lost(v)
    BY <1>2, <1>9 DEF IsOneMore, Lost
  <2>6. v.ok = TRUE /\ w.ok = TRUE /\ InStep(v, w) /\ SameBut(v.args, w.args, T)
    BY <1>2, <2>4, <2>5 DEF Follows, Agree, Lost, Onward, Sound
  <2>7. v.args \in V /\ w.args \in V
    BY <1>5, <2>6 DEF Reads, v, w
  <2>8. InStep(c, d) /\ d.ok = TRUE
    BY <1>2, <2>6 DEF InStep, IsOneMore
  <2> DEFINE l == Append(x, v.args)  m == Append(y, w.args)
  <2>9. SameLists(l, m, n + 1, V, T)
    BY <2>1, <2>6, <2>7, ListsAppend
  <2>10. c.args = Put(a.args, f, l) /\ d.args = Put(b.args, f, m)
    BY <1>2, <2>2 DEF IsOneMore
  <2> HIDE DEF l, m
  <2>11. c.args = Put(p.args, f, l) /\ d.args = Put(q.args, f, m)
    BY <2>1, <2>10, PutTwice
  <2> QED
    BY <1>6, <2>8, <2>9, <2>11 DEF BothListed
<1> QED
  BY <1>7, <1>8, <1>9

\* As many of both, from none: the lists are the same.
LEMMA LinksListed ==
    ASSUME NEW p, NEW q, Abreast(p, q), NEW f, NEW how, NEW n \in Nat, NEW r, NEW a, NEW t, NEW b,
           Links(r, p, f, how, n, a), Links(t, q, f, how, n, b),
           NEW V, NEW T, Reads(how, V), Loses(how), Steps(how, T)
    PROVE  BothListed(p, q, a, b, f, n, V, T)
<1> DEFINE good(i) == BothListed(p, q, r[i], t[i], f, i, V, T)
           U == {i \in 0..n : good(i)}
<1>1. 0 \in U
  <2> DEFINE none == <<>>  c == Store(p, f, none)  d == Store(q, f, none)
  <2>1. r[0] = c /\ t[0] = d
    BY DEF Links
  <2>2. Sound(p) /\ Sound(q)
    BY DEF Abreast, Shorter
  <2>3. SameLists(none, none, 0, V, T)
    BY DEF SameLists
  <2> HIDE DEF none
  <2>4. /\ IsParcel(c) /\ c.words = p.words /\ c.pos = p.pos /\ c.ok = p.ok
        /\ c.args = Put(p.args, f, none) /\ c.cut = p.cut /\ Onward(p, c)
    BY <2>2, StoreOnward
  <2>5. /\ IsParcel(d) /\ d.words = q.words /\ d.pos = q.pos /\ d.ok = q.ok
        /\ d.args = Put(q.args, f, none) /\ d.cut = q.cut /\ Onward(q, d)
    BY <2>2, StoreOnward
  <2> HIDE DEF c, d
  <2>6. Shorter(c, d)
    BY <2>4, <2>5 DEF Abreast, Shorter, Onward
  <2>7. Lost(c) \/ (InStep(c, d) /\ d.ok = TRUE)
    BY <2>4, <2>5 DEF Abreast, Lost, InStep
  <2>8. good(0)
    BY <2>1, <2>3, <2>4, <2>5, <2>6, <2>7 DEF BothListed
  <2> QED
    BY <2>8
<1>2. ASSUME NEW i \in 0..(n - 1), good(i) PROVE good(i + 1)
  <2>1. i + 1 \in 1..n /\ (i + 1) - 1 = i
    OBVIOUS
  <2>2. r[i + 1] = OneMore(r[i], f, how) /\ t[i + 1] = OneMore(t[i], f, how)
    BY <2>1 DEF Links
  <2> QED
    BY <1>2, <2>2, OneListed
<1> HIDE DEF good
<1>3. \A i \in 0..(n - 1) : i \in U => i + 1 \in U
  BY <1>2
<1> HIDE DEF U
<1>4. 0..n \subseteq U
  BY <1>1, <1>3, BoundedInduction
<1> QED
  BY <1>4 DEF U, good, Links

\* One value of an array, and one structure of numbers in a list.
LEMMA ItemSteps ==
    ASSUME NEW kind \in Kinds, NEW T, kind = "str" => "v" \in T
    PROVE  LET how == <<"item", kind>> IN
           Reads(how, [{"v"} -> Values(kind)]) /\ Loses(how) /\ Steps(how, T)
<1> DEFINE how == <<"item", kind>>
           S == [{"v"} -> Values(kind)]
<1>1. \A u : One(u, how) = Read(u, <<"v", kind>>)
  BY DEF One
<1> HIDE DEF how
<1>2. ASSUME NEW u, Sound(u), u.args = <<>>
      PROVE  /\ Sound(One(u, how)) /\ One(u, how).words = u.words
             /\ One(u, how).ok = TRUE => u.ok = TRUE /\ One(u, how).args \in S
  <2>1. Took(u, One(u, how), "v", Values(kind))
    BY <1>1, <1>2, OneRead
  <2>2. PICK v : /\ One(u, how).args = Put(u.args, "v", v)
                 /\ One(u, how).ok = TRUE => v \in Values(kind)
    BY <2>1 DEF Took
  <2>3. Put(<<>>, "v", v) = [x \in {"v"} |-> v]
    BY DEF Put
  <2>4. One(u, how).args = [x \in {"v"} |-> v]
    BY <1>2, <2>2, <2>3
  <2>5. One(u, how).ok = TRUE => One(u, how).args \in S
    BY <2>2, <2>4
  <2> QED
    BY <2>1, <2>5 DEF Took
<1>3. Loses(how)
  BY <1>1, OneOnward DEF Loses
<1>4. Steps(how, T)
  BY <1>1, OneFollows DEF Steps
<1> QED
  BY <1>2, <1>3, <1>4 DEF Reads, how

\* One structure of numbers, read of both, takes them on in step.
LEMMA RowSteps ==
    ASSUME NEW layout, IsLayout(layout), \A i \in 1..Len(layout) : layout[i][2] # "str"
    PROVE  LET how == <<"row", layout>> IN
           Reads(how, [Names(layout) -> Int]) /\ Loses(how) /\ Steps(how, {})
<1> DEFINE how == <<"row", layout>>
           names == Names(layout)
           T == "row"
<1>1. \A u : One(u, how) = ReadStruct(u, layout)
  BY DEF One
<1>2. Fits(layout, T) /\ Misses(layout, {})
  BY DEF Fits, Misses, IsLayout, TypeOf, Values
<1>3. names = {layout[i][1] : i \in 1..Len(layout)}
  BY DEF Names
<1> HIDE DEF how, names
<1>4. ASSUME NEW u, Sound(u), u.args = <<>>
      PROVE  /\ Sound(One(u, how)) /\ One(u, how).words = u.words
             /\ One(u, how).ok = TRUE => u.ok = TRUE /\ One(u, how).args \in [names -> Int]
  <2> DEFINE v == ReadStruct(u, layout)
  <2>1. One(u, how) = v
    BY <1>1
  <2>2. Typed(u, T) /\ IsMap(u.args) /\ DOMAIN u.args = {}
    BY <1>4 DEF Typed, IsMap
  <2>3. \A g \in names : TypeOf(T, g) = Int
    BY DEF TypeOf
  <2> HIDE DEF T
  <2>4. WellRead(u, v, layout, T)
    BY <1>2, <1>4, <2>2, StructTyped
  <2> HIDE DEF v
  <2>5. /\ Sound(v) /\ v.words = u.words /\ (v.ok = TRUE => u.ok = TRUE) /\ Typed(v, T)
        /\ DOMAIN v.args = names /\ IsMap(v.args)
    BY <1>3, <2>2, <2>4 DEF WellRead
  <2>6. v.ok = TRUE => v.args \in [names -> Int]
    BY <2>3, <2>5 DEF Typed, IsMap
  <2> QED
    BY <2>1, <2>5, <2>6
<1>5. Loses(how)
  BY <1>1, StructOnward DEF Loses
<1>6. Steps(how, {})
  BY <1>1, <1>2, StructFollows DEF Steps
<1> QED
  BY <1>4, <1>5, <1>6 DEF Reads, how, names

\* The values of the structures.
ItemsOf(s) == [i \in DOMAIN s |-> s[i]["v"]]

\* An array is read of both.
BothArrays(p, q, c, d, f, n, V, T) ==
    /\ Shorter(c, d) /\ (Lost(p) => Lost(c))
    /\ Lost(c) \/ /\ InStep(c, d) /\ d.ok = TRUE
                  /\ \E x, y : /\ c.args = Put(p.args, f, ItemsOf(x))
                               /\ d.args = Put(q.args, f, ItemsOf(y))
                               /\ SameLists(x, y, n, V, T)

\* Arrays of one length, read of both, differ only where values are missing.
LEMMA ArrayBoth ==
    ASSUME NEW p, NEW q, Abreast(p, q), NEW n, NEW m, Lost(p) \/ n = m, NEW f,
           NEW kind \in Kinds, NEW T, kind = "str" => "v" \in T
    PROVE  BothArrays(p, q, ReadArray(p, f, n, kind), ReadArray(q, f, m, kind),
                      f, Times(n), [{"v"} -> Values(kind)], T)
<1> DEFINE how == <<"item", kind>>
           V == [{"v"} -> Values(kind)]
           c == ReadArray(p, f, n, kind)  d == ReadArray(q, f, m, kind)
           j == Times(n)  k == Times(m)
<1>1. PICK r, a : Links(r, p, f, how, j, a) /\ c = Store(a, f, Items(a, f))
  BY ArrayLinks, Zenon
<1>2. PICK t, b : Links(t, q, f, how, k, b) /\ d = Store(b, f, Items(b, f))
  BY ArrayLinks, Zenon
<1>3. Reads(how, V) /\ Loses(how) /\ Steps(how, T)
  BY ItemSteps, Zenon
<1>4. j \in Nat /\ k \in Nat /\ (Lost(p) \/ j = k)
  BY TimesNat
<1> SUFFICES BothArrays(p, q, c, d, f, j, V, T)
  OBVIOUS
<1> HIDE DEF how, V, c, d, j, k
<1>5. Sound(p) /\ Sound(q) /\ p.pos \in Nat /\ q.pos \in Nat
  BY DEF Abreast, Shorter, Sound
<1>6. Onward(p, a) /\ Onward(q, b)
  BY <1>1, <1>2, <1>3, <1>4, <1>5, LinksOnward
<1>7. Sound(a) /\ Sound(b)
  BY <1>6 DEF Onward
<1> DEFINE u == Items(a, f)  v == Items(b, f)
<1>8. c = Store(a, f, u) /\ d = Store(b, f, v)
  BY <1>1, <1>2
<1> HIDE DEF u, v
<1>9. /\ IsParcel(c) /\ c.words = a.words /\ c.pos = a.pos /\ c.ok = a.ok
      /\ c.args = Put(a.args, f, u) /\ c.cut = a.cut /\ Onward(a, c)
  BY <1>7, <1>8, StoreOnward
<1>10. /\ IsParcel(d) /\ d.words = b.words /\ d.pos = b.pos /\ d.ok = b.ok
       /\ d.args = Put(b.args, f, v) /\ d.cut = b.cut /\ Onward(b, d)
  BY <1>7, <1>8, StoreOnward
<1>11. Onward(p, c) /\ Onward(q, d)
  BY <1>5, <1>6, <1>9, <1>10, OnwardTwice
<1>12. Shorter(c, d)
  BY <1>11 DEF Abreast, Shorter, Onward
<1>13. CASE Lost(p) \/ Lost(a)
  <2>1. Lost(c)
    BY <1>9, <1>11, <1>13 DEF Onward
  <2> QED
    BY <1>12, <2>1 DEF BothArrays
<1>14. CASE ~Lost(p) /\ ~Lost(a)
  <2>1. BothListed(p, q, a, b, f, j, V, T)
    <3>1. Links(t, q, f, how, j, b)
      BY <1>2, <1>4, <1>14
    <3> QED
      BY <1>1, <1>3, <1>4, <3>1, LinksListed
  <2>2. PICK x, y : /\ a.args = Put(p.args, f, x) /\ b.args = Put(q.args, f, y)
                    /\ SameLists(x, y, j, V, T)
    BY <1>14, <2>1 DEF BothListed
  <2>3. InStep(a, b) /\ b.ok = TRUE
    BY <1>14, <2>1 DEF BothListed
  <2>4. a.args[f] = x /\ b.args[f] = y
    BY <2>2 DEF Put
  <2>5. u = ItemsOf(x) /\ v = ItemsOf(y)
    BY <2>4 DEF ItemsOf, Items, u, v
  <2>6. c.args = Put(p.args, f, u) /\ d.args = Put(q.args, f, v)
    BY <1>9, <1>10, <2>2, PutTwice
  <2>7. InStep(c, d) /\ d.ok = TRUE
    BY <1>9, <1>10, <2>3 DEF InStep
  <2>8. c.args = Put(p.args, f, ItemsOf(x)) /\ d.args = Put(q.args, f, ItemsOf(y))
    BY <2>5, <2>6
  <2> QED
    BY <1>12, <1>14, <2>2, <2>7, <2>8 DEF BothArrays
<1> QED
  BY <1>13, <1>14

\* Of numbers and bytes it is the same.
LEMMA ArrayFollows ==
    ASSUME NEW p, NEW q, NEW S, Follows(p, q, S), NEW n, NEW m, Lost(p) \/ n = m, NEW f,
           NEW kind \in Kinds, kind # "str"
    PROVE  Follows(ReadArray(p, f, n, kind), ReadArray(q, f, m, kind), S)
<1> DEFINE c == ReadArray(p, f, n, kind)  d == ReadArray(q, f, m, kind)
           V == [{"v"} -> Values(kind)]
<1> SUFFICES Follows(c, d, S)
  OBVIOUS
<1>1. BothArrays(p, q, c, d, f, Times(n), V, {})
  BY FollowsLevel, ArrayBoth
<1> HIDE DEF c, d
<1>2. Shorter(c, d)
  BY <1>1 DEF BothArrays
<1>3. CASE Lost(c)
  BY <1>2, <1>3 DEF Follows, Agree
<1>4. CASE ~Lost(c)
  <2>1. PICK x, y : /\ c.args = Put(p.args, f, ItemsOf(x)) /\ d.args = Put(q.args, f, ItemsOf(y))
                    /\ SameLists(x, y, Times(n), V, {})
    BY <1>1, <1>4 DEF BothArrays
  <2>2. /\ x \in Seq(V) /\ y \in Seq(V) /\ Len(x) = Len(y) /\ Len(x) \in Nat
        /\ DOMAIN x = 1..Len(x) /\ DOMAIN y = 1..Len(y)
    BY <2>1, LenProperties DEF SameLists
  <2>3. \A i \in 1..Len(x) : x[i] \in V /\ y[i] \in V
    BY <2>2, ElementOfSeq
  <2>4. \A i \in 1..Len(x) : x[i]["v"] = y[i]["v"]
    BY <2>1, <2>3 DEF SameLists, SameBut
  <2>5. ItemsOf(x) = ItemsOf(y)
    BY <2>2, <2>4 DEF ItemsOf
  <2>6. InStep(c, d) /\ d.ok = TRUE
    BY <1>1, <1>4 DEF BothArrays
  <2>7. SameBut(p.args, q.args, S)
    BY <1>1, <1>4 DEF BothArrays, Follows, Agree
  <2>8. SameBut(c.args, d.args, S)
    BY <2>1, <2>5, <2>7, SameMore
  <2> QED
    BY <1>2, <2>6, <2>8 DEF Follows, Agree
<1> QED
  BY <1>3, <1>4

\* Of strings some may be missing.
SomeTexts(u, v, n) ==
    /\ u \in Seq(Texts) /\ v \in Seq(Texts) /\ Len(u) = n /\ Len(v) = n
    /\ \A i \in 1..Len(u) : u[i] \in {NULL, v[i]}

\* An array of strings was read of both.
BothTexts(p, q, c, d, f, n) ==
    /\ Lost(p) => Lost(c)
    /\ Lost(c) \/ \E u, v : /\ c.args = Put(p.args, f, u) /\ d.args = Put(q.args, f, v)
                            /\ SomeTexts(u, v, n)

\* Arrays of strings are the same, but for those the shorter one lacks.
LEMMA TextsFollow ==
    ASSUME NEW p, NEW q, NEW S, Follows(p, q, S), NEW n, NEW m, Lost(p) \/ n = m, NEW f
    PROVE  BothTexts(p, q, ReadArray(p, f, n, "str"), ReadArray(q, f, m, "str"), f, Times(n))
<1> DEFINE kind == "str"
           c == ReadArray(p, f, n, kind)  d == ReadArray(q, f, m, kind)
           V == [{"v"} -> Values(kind)]
<1>1. BothArrays(p, q, c, d, f, Times(n), V, {"v"})
  BY FollowsLevel, ArrayBoth DEF Kinds
<1> HIDE DEF c, d
<1>2. Lost(p) => Lost(c)
  BY <1>1 DEF BothArrays
<1>3. CASE ~Lost(c)
  <2>1. PICK x, y : /\ c.args = Put(p.args, f, ItemsOf(x)) /\ d.args = Put(q.args, f, ItemsOf(y))
                    /\ SameLists(x, y, Times(n), V, {"v"})
    BY <1>1, <1>3 DEF BothArrays
  <2> DEFINE u == ItemsOf(x)  v == ItemsOf(y)
  <2>2. /\ x \in Seq(V) /\ y \in Seq(V) /\ Len(x) = Len(y) /\ Len(x) \in Nat
        /\ DOMAIN x = 1..Len(x) /\ DOMAIN y = 1..Len(y)
    BY <2>1, LenProperties DEF SameLists
  <2>3. \A i \in 1..Len(x) : x[i] \in V /\ y[i] \in V
    BY <2>2, ElementOfSeq
  <2>4. V = [{"v"} -> Texts]
    BY DEF Values
  <2>5. \A i \in 1..Len(x) : x[i]["v"] \in Texts /\ y[i]["v"] \in Texts
    BY <2>3, <2>4
  <2>6. \A i \in 1..Len(x) : x[i]["v"] \in {NULL, y[i]["v"]}
    BY <2>1, <2>3 DEF SameLists, SameBut
  <2>7. u = [i \in 1..Len(x) |-> x[i]["v"]] /\ v = [i \in 1..Len(x) |-> y[i]["v"]]
    BY <2>2 DEF ItemsOf
  <2> HIDE DEF u, v
  <2>8. u \in Seq(Texts) /\ v \in Seq(Texts) /\ Len(u) = Times(n) /\ Len(v) = Times(n)
    <3>1. Len(x) = Times(n)
      BY <2>1 DEF SameLists
    <3>2. u \in Seq(Texts) /\ v \in Seq(Texts) /\ Len(u) = Len(x) /\ Len(v) = Len(x)
      BY <2>2, <2>5, <2>7
    <3> QED
      BY <3>1, <3>2
  <2>9. SomeTexts(u, v, Times(n))
    BY <2>6, <2>7, <2>8 DEF SomeTexts
  <2>10. BothTexts(p, q, c, d, f, Times(n))
    BY <1>2, <2>1, <2>9 DEF u, v, BothTexts
  <2> QED
    BY <2>10 DEF c, d
<1>4. CASE Lost(c)
  <2>1. BothTexts(p, q, c, d, f, Times(n))
    BY <1>2, <1>4 DEF BothTexts
  <2> QED
    BY <2>1 DEF c, d
<1> QED
  BY <1>3, <1>4

\* Lists of structures of numbers.
LEMMA RowsFollow ==
    ASSUME NEW p, NEW q, NEW S, Follows(p, q, S), NEW n, NEW m, Lost(p) \/ n = m, NEW f,
           NEW layout, IsLayout(layout), \A i \in 1..Len(layout) : layout[i][2] # "str"
    PROVE  Follows(ReadRows(p, f, n, layout), ReadRows(q, f, m, layout), S)
<1> DEFINE how == <<"row", layout>>  V == [Names(layout) -> Int]
           c == ReadRows(p, f, n, layout)  d == ReadRows(q, f, m, layout)
           j == Times(n)  k == Times(m)
<1>1. PICK r : Links(r, p, f, how, j, c)
  BY RowsLinks
<1>2. PICK t : Links(t, q, f, how, k, d)
  BY RowsLinks
<1>3. Reads(how, V) /\ Loses(how) /\ Steps(how, {})
  BY RowSteps
<1>4. j \in Nat /\ k \in Nat /\ (Lost(p) \/ j = k)
  BY TimesNat
<1> SUFFICES Follows(c, d, S)
  OBVIOUS
<1> HIDE DEF how, c, d, j, k
<1>5. Sound(p) /\ Sound(q)
  BY DEF Follows, Shorter
<1>6. Onward(p, c) /\ Onward(q, d)
  BY <1>1, <1>2, <1>3, <1>4, <1>5, LinksOnward
<1>7. Shorter(c, d)
  BY <1>6 DEF Follows, Shorter, Onward
<1>8. CASE Lost(c)
  BY <1>7, <1>8 DEF Follows, Agree
<1>9. CASE ~Lost(c)
  <2>1. ~Lost(p)
    BY <1>6, <1>9 DEF Onward
  <2>2. Abreast(p, q) /\ Links(t, q, f, how, j, d)
    BY <1>2, <1>4, <2>1, FollowsLevel
  <2> HIDE DEF V
  <2>3. BothListed(p, q, c, d, f, j, V, {})
    BY <1>1, <1>3, <1>4, <2>2, LinksListed
  <2>4. PICK x, y : /\ c.args = Put(p.args, f, x) /\ d.args = Put(q.args, f, y)
                    /\ SameLists(x, y, j, V, {})
    BY <1>9, <2>3 DEF BothListed
  <2>5. x \in Seq(V) /\ y \in Seq(V) /\ Len(x) = Len(y)
    BY <2>4 DEF SameLists
  <2>6. \A i \in 1..Len(x) : x[i] \in V /\ y[i] \in V
    BY <2>5, ElementOfSeq
  <2>7. \A i \in 1..Len(x) : x[i] = y[i]
    BY <2>4, <2>6 DEF SameLists, SameBut, V
  <2>8. x = y
    BY <2>5, <2>7, SeqEqual
  <2>9. SameBut(p.args, q.args, S)
    BY <2>1 DEF Follows, Agree
  <2>10. SameBut(c.args, d.args, S)
    BY <2>4, <2>8, <2>9, SameMore
  <2>11. InStep(c, d) /\ d.ok = TRUE
    BY <1>9, <2>3 DEF BothListed
  <2> QED
    BY <1>7, <2>10, <2>11 DEF Follows, Agree
<1> QED
  BY <1>8, <1>9

-----------------------------------------------------------------------------
(* What is handed over of a parcel cut short.                              *)

\* The strings and blocks that may be missing of it.
Missable == {"string", "pdu", "smsc", "address", "path", "data", "pin2", "aidPtr", "number", "uusData"}

\* p and q are read in step; p may miss strings and blocks.
Along(p, q) == Follows(p, q, Missable)

\* From p and q to c and d.
From(p, q, c, d) == Along(c, d) /\ (Lost(p) => Lost(c))

\* What is handed over is what is handed over of the whole.
Honest(out, whole) ==
    out.valid = TRUE =>
        Agree(out.p, whole.p, Missable) /\ (Lost(out.p) \/ whole.valid = TRUE)

\* A number is read of both.
LEMMA IntAlong ==
    ASSUME NEW p, NEW q, Along(p, q), NEW f
    PROVE  From(p, q, readInt32(p, f), readInt32(q, f)) /\ f \in DOMAIN readInt32(p, f).args
<1> DEFINE c == readInt32(p, f)  d == readInt32(q, f)
<1>1. "int" \in Kinds /\ c = Read(p, <<f, "int">>) /\ d = Read(q, <<f, "int">>)
  BY DEF Kinds, Read
<1>2. Sound(p)
  BY DEF Along, Follows, Shorter
<1> HIDE DEF c, d
<1>3. Onward(p, c) /\ Took(p, c, f, Values("int"))
  BY <1>1, <1>2, OneOnward, OneRead
<1>4. Along(c, d)
  BY <1>1, OneFollows DEF Along
<1>5. f \in DOMAIN c.args
  BY <1>3 DEF Took, Put
<1> QED
  BY <1>3, <1>4, <1>5 DEF From, Onward, c, d

\* A string is read of both.
LEMMA StringAlong ==
    ASSUME NEW p, NEW q, Along(p, q), NEW f \in Missable
    PROVE  /\ From(p, q, strdupReadString(p, f), strdupReadString(q, f))
           /\ f \in DOMAIN strdupReadString(p, f).args
<1> DEFINE c == strdupReadString(p, f)  d == strdupReadString(q, f)
<1>1. "str" \in Kinds /\ c = Read(p, <<f, "str">>) /\ d = Read(q, <<f, "str">>)
  BY DEF Kinds, Read
<1>2. Sound(p)
  BY DEF Along, Follows, Shorter
<1> HIDE DEF c, d
<1>3. Onward(p, c) /\ Took(p, c, f, Values("str"))
  BY <1>1, <1>2, OneOnward, OneRead
<1>4. Along(c, d)
  BY <1>1, OneFollows DEF Along
<1>5. f \in DOMAIN c.args
  BY <1>3 DEF Took, Put
<1> QED
  BY <1>3, <1>4, <1>5 DEF From, Onward, c, d

\* A structure is read of both, which misses no more than strings.
LEMMA StructAlong ==
    ASSUME NEW p, NEW q, Along(p, q), NEW layout, Misses(layout, Missable)
    PROVE  From(p, q, ReadStruct(p, layout), ReadStruct(q, layout))
<1>1. Sound(p) /\ IsLayout(layout)
  BY DEF Along, Follows, Shorter, Misses
<1>2. Onward(p, ReadStruct(p, layout))
  BY <1>1, StructOnward
<1>3. Along(ReadStruct(p, layout), ReadStruct(q, layout))
  BY StructFollows DEF Along
<1> QED
  BY <1>2, <1>3 DEF From, Onward

\* An array of numbers is read of both, if they agree how long it is.
LEMMA ArrayAlong ==
    ASSUME NEW p, NEW q, Along(p, q), NEW n, NEW m, Lost(p) \/ n = m, NEW f,
           NEW kind \in Kinds, kind # "str"
    PROVE  From(p, q, ReadArray(p, f, n, kind), ReadArray(q, f, m, kind))
<1> DEFINE c == ReadArray(p, f, n, kind)  d == ReadArray(q, f, m, kind)
<1>1. Along(c, d)
  BY ArrayFollows DEF Along
<1>2. Abreast(p, q)
  BY FollowsLevel DEF Along
<1>3. BothArrays(p, q, c, d, f, Times(n), [{"v"} -> Values(kind)], {})
  BY <1>2, ArrayBoth
<1> QED
  BY <1>1, <1>3 DEF From, BothArrays

\* The same argument is stored in both.
LEMMA StoreAlong ==
    ASSUME NEW p, NEW q, Along(p, q), NEW f, NEW u, NEW v, Lost(p) \/ u = v
    PROVE  From(p, q, Store(p, f, u), Store(q, f, v))
<1> DEFINE c == Store(p, f, u)  d == Store(q, f, v)
<1>1. Sound(p) /\ Sound(q)
  BY DEF Along, Follows, Shorter
<1>2. /\ IsParcel(c) /\ c.words = p.words /\ c.pos = p.pos /\ c.ok = p.ok
      /\ c.args = Put(p.args, f, u) /\ c.cut = p.cut /\ Onward(p, c)
  BY <1>1, StoreOnward
<1>3. /\ IsParcel(d) /\ d.words = q.words /\ d.pos = q.pos /\ d.ok = q.ok
      /\ d.args = Put(q.args, f, v) /\ d.cut = q.cut /\ Onward(q, d)
  BY <1>1, StoreOnward
<1> SUFFICES From(p, q, c, d)
  OBVIOUS
<1> HIDE DEF c, d
<1>4. Shorter(c, d)
  BY <1>2, <1>3 DEF Along, Follows, Shorter, Onward
<1>5. Lost(p) <=> Lost(c)
  BY <1>2 DEF Lost
<1>6. CASE Lost(p)
  BY <1>4, <1>5, <1>6 DEF From, Along, Follows, Agree
<1>7. CASE ~Lost(p)
  <2>1. InStep(p, q) /\ q.ok = TRUE /\ SameBut(p.args, q.args, Missable) /\ u = v
    BY <1>7 DEF Along, Follows, Agree
  <2>2. InStep(c, d)
    BY <1>2, <1>3, <2>1 DEF InStep
  <2>3. SameBut(c.args, d.args, Missable)
    BY <1>2, <1>3, <2>1, SameMore
  <2> QED
    BY <1>3, <1>4, <1>5, <2>1, <2>2, <2>3 DEF From, Along, Follows, Agree
<1> QED
  BY <1>6, <1>7

\* What p has read, q has.
LEMMA KnownSame ==
    ASSUME NEW p, NEW q, Along(p, q), ~Lost(p), NEW f \in DOMAIN p.args
    PROVE  /\ p.ok = TRUE /\ q.ok = TRUE
           /\ p.args[f] = q.args[f] \/ (f \in Missable /\ p.args[f] = NULL)
<1>1. Sound(p)
  BY DEF Along, Follows, Shorter
<1> QED
  BY <1>1 DEF Along, Follows, Agree, SameBut, Lost, Sound

\* Parcels in step are sound, and agree on what was read.
LEMMA AlongOk ==
    ASSUME NEW p, NEW q, Along(p, q)
    PROVE  /\ Sound(p) /\ Sound(q) /\ p.ok \in BOOLEAN /\ q.ok \in BOOLEAN
           /\ Lost(p) \/ (p.ok = TRUE /\ q.ok = TRUE)
           /\ Agree(p, q, Missable)
<1>1. Sound(p) /\ Sound(q)
  BY DEF Along, Follows, Shorter
<1> QED
  BY <1>1 DEF Along, Follows, Agree, Lost, Sound

\* A block of the same length is there in both, or missing.
LEMMA BlockAlong ==
    ASSUME NEW p, NEW q, Along(p, q), NEW n, NEW m, Lost(p) \/ n = m, NEW f \in Missable
    PROVE  /\ Agree(readInplace(p, f, n), readInplace(q, f, m), Missable)
           /\ Lost(p) => Lost(readInplace(p, f, n))
<1> DEFINE c == readInplace(p, f, n)  d == readInplace(q, f, m)
           u == SubSeq(p.words, p.pos + 1, p.pos + n)
           v == SubSeq(q.words, q.pos + 1, q.pos + m)
<1>1. Sound(p) /\ Sound(q) /\ IsParcel(p) /\ IsParcel(q) /\ Shorter(p, q)
  BY DEF Along, Follows, Shorter, Sound
<1>2. \E pos, s : /\ c = At(p, pos, p.ok, Put(p.args, f, s), p.cut)
                  /\ (n \in 0..dataAvail(p) /\ s = u) \/ s = NULL
  BY <1>1, BlockIs, Zenon
<1>3. \E pos, s : /\ d = At(q, pos, q.ok, Put(q.args, f, s), q.cut)
                  /\ m \in 0..dataAvail(q) => s = v
  BY <1>1, BlockIs, Zenon
<1> SUFFICES Agree(c, d, Missable) /\ (Lost(p) => Lost(c))
  OBVIOUS
<1> HIDE DEF c, d, u, v
<1>4. PICK i, s : /\ c = At(p, i, p.ok, Put(p.args, f, s), p.cut)
                  /\ (n \in 0..dataAvail(p) /\ s = u) \/ s = NULL
  BY <1>2
<1>5. PICK j, t : /\ d = At(q, j, q.ok, Put(q.args, f, t), q.cut)
                  /\ m \in 0..dataAvail(q) => t = v
  BY <1>3
<1>6. c.ok = p.ok /\ c.cut = p.cut /\ c.args = Put(p.args, f, s)
  BY <1>4, Fields
<1>7. d.ok = q.ok /\ d.args = Put(q.args, f, t)
  BY <1>5, Fields
<1>8. Lost(p) <=> Lost(c)
  BY <1>6 DEF Lost
<1>9. CASE ~Lost(p)
  <2>1. InStep(p, q) /\ q.ok = TRUE /\ SameBut(p.args, q.args, Missable) /\ n = m
    BY <1>9 DEF Along, Follows, Agree
  <2>2. /\ p.words \in Seq(Int) /\ q.words \in Seq(Int) /\ p.pos \in Nat /\ q.pos \in Nat
        /\ Len(p.words) \in Nat /\ Len(q.words) \in Nat
        /\ p.pos <= Len(p.words) /\ q.pos <= Len(q.words) /\ Len(p.words) <= Len(q.words)
    BY <1>1, LenProperties DEF Sound, Shorter
  <2>3. ASSUME n \in 0..dataAvail(p) PROVE s = t \/ s = NULL
    <3>1. n \in Nat /\ p.pos + n <= Len(p.words)
      BY <2>2, <2>3 DEF dataAvail
    <3>2. CASE p.pos = q.pos
      <4>1. m \in 0..dataAvail(q)
        BY <2>1, <2>2, <3>1, <3>2 DEF dataAvail
      <4> DEFINE i2 == p.pos  j2 == p.pos + n
      <4>2. i2 \in Nat /\ j2 \in Nat /\ j2 <= Len(p.words)
        BY <2>2, <3>1
      <4>5. u = SubSeq(p.words, i2 + 1, j2)
        BY DEF u
      <4> HIDE DEF i2, j2
      <4>6. u = SubSeq(q.words, i2 + 1, j2)
        BY <1>1, <4>2, <4>5, SameBlock, ZenonT(60)
      <4>3. u = SubSeq(q.words, p.pos + 1, p.pos + n)
        BY <4>6 DEF i2, j2
      <4>4. u = v
        BY <2>1, <3>2, <4>3 DEF v
      <4> QED
        BY <1>4, <1>5, <4>1, <4>4
    <3>3. CASE p.pos = Len(p.words)
      <4>1. n = 0 /\ m \in 0..dataAvail(q)
        BY <2>1, <2>2, <3>1, <3>3 DEF dataAvail
      <4>2. u = <<>> /\ v = <<>>
        BY <2>1, <2>2, <4>1 DEF u, v
      <4> QED
        BY <1>4, <1>5, <4>1, <4>2
    <3> QED
      BY <2>1, <3>2, <3>3 DEF InStep
  <2>4. SameBut(c.args, d.args, Missable)
    BY <1>4, <1>6, <1>7, <2>1, <2>3, SameMore
  <2> QED
    BY <1>7, <1>8, <1>9, <2>1, <2>4 DEF Agree
<1> QED
  BY <1>8, <1>9 DEF Agree

\* The ways in which a dispatch function ends are honest: to hand over, to refuse,
\* and either if a condition holds on which the two agree.
LEMMA HonestWays ==
    /\ \A c, d : Agree(c, d, Missable) => Honest(onRequest(c), onRequest(d))
    /\ \A c, w : Honest(invalidCommandBlock(c), w)
    /\ \A c, w : Lost(c) => Honest(onRequest(c), w)
    /\ \A test, c, w : Lost(c) => Honest(OnRequestIf(test, c), w)
    /\ \A c, d, e, g : Along(c, d) /\ Agree(e, g, Missable) /\ (Lost(c) => Lost(e)) =>
           Honest(OnRequestIf(c.ok, e), OnRequestIf(d.ok, g))
<1>1. \A c, d : Agree(c, d, Missable) => Honest(onRequest(c), onRequest(d))
  BY DEF Honest, onRequest
<1>2. \A c, w : Honest(invalidCommandBlock(c), w)
  BY DEF Honest, invalidCommandBlock
<1>3. \A c, w : Lost(c) => Honest(onRequest(c), w)
  BY DEF Honest, onRequest, Agree
<1>4. \A test, c, w : Lost(c) => Honest(OnRequestIf(test, c), w)
  BY <1>2, <1>3, Zenon DEF OnRequestIf
<1>5. ASSUME NEW c, NEW d, NEW e, NEW g, Along(c, d), Agree(e, g, Missable), Lost(c) => Lost(e)
      PROVE  Honest(OnRequestIf(c.ok, e), OnRequestIf(d.ok, g))
  <2>1. CASE Lost(c)
    BY <1>4, <1>5, <2>1
  <2>2. CASE ~Lost(c)
    <3>1. c.ok = TRUE /\ d.ok = TRUE
      BY <1>5, <2>2, AlongOk
    <3>2. OnRequestIf(c.ok, e) = onRequest(e) /\ OnRequestIf(d.ok, g) = onRequest(g)
      BY <3>1 DEF OnRequestIf
    <3> QED
      BY <1>1, <1>5, <3>2
  <2> QED
    BY <2>1, <2>2
<1> QED
  BY <1>1, <1>2, <1>3, <1>4, <1>5, Zenon

\* One string.
LEMMA StringHonest ==
    ASSUME NEW p, NEW q, Along(p, q) PROVE Honest(dispatchString(p), dispatchString(q))
<1>1. "string" \in Missable
  BY DEF Missable
<1>2. Along(strdupReadString(p, "string"), strdupReadString(q, "string"))
  BY <1>1, StringAlong DEF From
<1> QED
  BY <1>2, AlongOk, HonestWays DEF dispatchString

\* Numbers behind their number.
LEMMA IntsHonest ==
    ASSUME NEW p, NEW q, Along(p, q) PROVE Honest(dispatchInts(p), dispatchInts(q))
<1> DEFINE c == readInt32(p, "count")  d == readInt32(q, "count")
           n == c.args["count"]  m == d.args["count"]
           r == ReadArray(c, "ints", n, "int")  t == ReadArray(d, "ints", m, "int")
<1>1. /\ dispatchInts(p) = IF ~c.ok \/ n = 0 THEN invalidCommandBlock(c) ELSE OnRequestIf(r.ok, r)
      /\ dispatchInts(q) = IF ~d.ok \/ m = 0 THEN invalidCommandBlock(d) ELSE OnRequestIf(t.ok, t)
  BY Zenon DEF dispatchInts
<1>2. Along(c, d) /\ "count" \in DOMAIN c.args
  BY IntAlong DEF From
<1>3. "count" \notin Missable
  BY DEF Missable
<1> HIDE DEF c, d
<1>4. Lost(c) \/ (d.ok = TRUE /\ n = m)
  BY <1>2, <1>3, KnownSame
<1> HIDE DEF n, m
<1>5. From(c, d, r, t)
  <2> DEFINE kind == "int"
  <2>1. kind \in Kinds /\ kind # "str"
    BY DEF Kinds
  <2>2. From(c, d, ReadArray(c, "ints", n, kind), ReadArray(d, "ints", m, kind))
    BY <1>2, <1>4, <2>1, ArrayAlong
  <2> QED
    BY <2>2
<1> HIDE DEF r, t
<1>6. Along(r, t) /\ (Lost(c) => Lost(r)) /\ Agree(r, t, Missable)
  BY <1>5, AlongOk DEF From
<1>7. CASE Lost(c)
  BY <1>1, <1>6, <1>7, HonestWays
<1>8. CASE ~Lost(c)
  BY <1>1, <1>4, <1>6, <1>8, HonestWays
<1> QED
  BY <1>7, <1>8

\* A message to store.
LEMMA SmsWriteHonest ==
    ASSUME NEW p, NEW q, Along(p, q) PROVE Honest(dispatchSmsWrite(p), dispatchSmsWrite(q))
<1> DEFINE a == readInt32(p, "status")  b == readInt32(q, "status")
           c == strdupReadString(a, "pdu")  d == strdupReadString(b, "pdu")
           u == c.args["pdu"]  v == d.args["pdu"]
           r == strdupReadString(c, "smsc")  t == strdupReadString(d, "smsc")
<1>1. /\ dispatchSmsWrite(p) = IF ~a.ok \/ u = NULL THEN invalidCommandBlock(c) ELSE onRequest(r)
      /\ dispatchSmsWrite(q) = IF ~b.ok \/ v = NULL THEN invalidCommandBlock(d) ELSE onRequest(t)
  BY Zenon DEF dispatchSmsWrite
<1>2. Along(a, b)
  BY IntAlong DEF From
<1>3. "pdu" \in Missable /\ "smsc" \in Missable
  BY DEF Missable
<1> HIDE DEF a, b
<1>4. Along(c, d) /\ (Lost(a) => Lost(c)) /\ "pdu" \in DOMAIN c.args
  BY <1>2, <1>3, StringAlong DEF From
<1> HIDE DEF c, d
<1>5. Lost(c) \/ u = v \/ u = NULL
  BY <1>4, KnownSame
<1>6. Lost(a) \/ b.ok = TRUE
  BY <1>2, AlongOk
<1> HIDE DEF u, v
<1>7. Along(r, t) /\ (Lost(c) => Lost(r))
  BY <1>3, <1>4, StringAlong DEF From
<1> HIDE DEF r, t
<1>8. Agree(r, t, Missable)
  BY <1>7, AlongOk
<1>9. CASE Lost(r)
  BY <1>1, <1>9, HonestWays
<1>10. CASE ~Lost(r)
  BY <1>1, <1>4, <1>5, <1>6, <1>7, <1>8, <1>10, HonestWays
<1> QED
  BY <1>9, <1>10

\* A block of bytes.
LEMMA RawHonest ==
    ASSUME NEW p, NEW q, Along(p, q) PROVE Honest(dispatchRaw(p), dispatchRaw(q))
<1> DEFINE a == readInt32(p, "len")  b == readInt32(q, "len")
           n == IF a.args["len"] = -1 THEN 0 ELSE a.args["len"]
           m == IF b.args["len"] = -1 THEN 0 ELSE b.args["len"]
           c == Store(a, "len", n)  d == Store(b, "len", m)
           r == readInplace(c, "data", n)  t == readInplace(d, "data", m)
<1>1. /\ dispatchRaw(p) = IF ~a.ok THEN invalidCommandBlock(a) ELSE onRequest(r)
      /\ dispatchRaw(q) = IF ~b.ok THEN invalidCommandBlock(b) ELSE onRequest(t)
  BY Zenon DEF dispatchRaw
<1>2. Along(a, b) /\ "len" \in DOMAIN a.args
  BY IntAlong DEF From
<1>3. "len" \notin Missable /\ "data" \in Missable
  BY DEF Missable
<1> HIDE DEF a, b
<1>4. Lost(a) \/ (b.ok = TRUE /\ n = m)
  BY <1>2, <1>3, KnownSame
<1> HIDE DEF n, m
<1>5. Along(c, d) /\ (Lost(a) => Lost(c))
  BY <1>2, <1>4, StoreAlong DEF From
<1> HIDE DEF c, d
<1>6. Agree(r, t, Missable) /\ (Lost(c) => Lost(r))
  BY <1>3, <1>4, <1>5, BlockAlong
<1> HIDE DEF r, t
<1>7. CASE Lost(r)
  BY <1>1, <1>7, HonestWays
<1>8. CASE ~Lost(r)
  BY <1>1, <1>4, <1>5, <1>6, <1>8, HonestWays
<1> QED
  BY <1>7, <1>8

\* Numbers are there or the read fails.
LEMMA NumbersMiss ==
    ASSUME NEW S, NEW names \in Seq(S)
    PROVE  Misses(Ints(names), Missable) /\ Misses(Bytes(names), Missable)
  BY NumbersFit DEF Misses

\* A string that may be missing.
LEMMA StringMisses ==
    ASSUME NEW f \in Missable
    PROVE  Misses(Str(f), Missable)
<1>1. f \notin Lists
  BY DEF Missable, Lists
<1>2. IsLayout(Str(f))
  BY <1>1, StringFits DEF Fits
<1> QED
  BY <1>2 DEF Misses, Str

\* Layouts that miss only such strings, one behind the other.
LEMMA JoinedMisses ==
    ASSUME NEW a, NEW b, Misses(a, Missable), Misses(b, Missable)
    PROVE  Misses(a \o b, Missable)
<1> DEFINE c == a \o b
<1>1. IsLayout(a) /\ IsLayout(b)
  BY DEF Misses
<1>4. /\ IsLayout(c) /\ Len(c) = Len(a) + Len(b)
      /\ \A i \in 1..Len(a) : c[i] = a[i]
      /\ \A i \in 1..Len(b) : c[Len(a) + i] = b[i]
  BY <1>1, JoinedLayout
<1> HIDE DEF c
<1>5. Len(a) \in Nat /\ Len(b) \in Nat
  BY <1>1 DEF IsLayout
<1>2. /\ IsLayout(c) /\ Len(c) = Len(a) + Len(b) /\ Len(a) \in Nat /\ Len(b) \in Nat
      /\ \A i \in 1..Len(a) : c[i] = a[i]
      /\ \A i \in 1..Len(b) : c[Len(a) + i] = b[i]
  BY <1>4, <1>5
<1>3. ASSUME NEW i \in 1..Len(c), c[i][2] = "str" PROVE c[i][1] \in Missable
  <2>1. CASE i <= Len(a)
    <3>1. i \in 1..Len(a) /\ c[i] = a[i]
      BY <1>2, <2>1
    <3> QED
      BY <1>3, <3>1 DEF Misses
  <2>2. CASE i > Len(a)
    <3> DEFINE j == i - Len(a)
    <3>1. j \in 1..Len(b) /\ Len(a) + j = i
      BY <1>2, <2>2
    <3> HIDE DEF j
    <3>2. c[i] = b[j]
      BY <1>2, <3>1
    <3> QED
      BY <1>3, <3>1, <3>2 DEF Misses
  <2> QED
    BY <1>2, <2>1, <2>2
<1> QED
  BY <1>2, <1>3 DEF Misses, c

\* A number to dial, whose last fields only a newer RIL reads.
LEMMA DialHonest ==
    ASSUME NEW p, NEW q, Along(p, q), Fine(p), NEW v
    PROVE  Honest(dispatchDial(p, v), dispatchDial(q, v))
<1> DEFINE layout == Ints(<<"uusType", "uusDcs", "len">>)
           a1 == strdupReadString(p, "address")  a2 == strdupReadString(q, "address")
           b1 == readInt32(a1, "clir")           b2 == readInt32(a2, "clir")
           c1 == readInt32(b1, "uusPresent")     c2 == readInt32(b2, "uusPresent")
           u1 == ReadStruct(c1, layout)          u2 == ReadStruct(c2, layout)
           n1 == u1.args["len"]                  n2 == u2.args["len"]
           x1 == b1.args["address"]              x2 == b2.args["address"]
           y1 == c1.args["uusPresent"]           y2 == c2.args["uusPresent"]
           z1 == Store(u1, "len", 0)             z2 == Store(u2, "len", 0)
           e1 == Store(z1, "uusData", NULL)      e2 == Store(z2, "uusData", NULL)
           r1 == readInplace(u1, "uusData", n1)  r2 == readInplace(u2, "uusData", n2)
           all1 == IF n1 = -1 THEN e1 ELSE r1    all2 == IF n2 = -1 THEN e2 ELSE r2
<1>1. /\ dispatchDial(p, v) =
             IF ~b1.ok \/ x1 = NULL THEN invalidCommandBlock(b1)
             ELSE IF v < 3 THEN onRequest(b1)
             ELSE IF ~c1.ok THEN invalidCommandBlock(c1)
             ELSE IF y1 = 0 THEN onRequest(c1)
             ELSE OnRequestIf(u1.ok, all1)
      /\ dispatchDial(q, v) =
             IF ~b2.ok \/ x2 = NULL THEN invalidCommandBlock(b2)
             ELSE IF v < 3 THEN onRequest(b2)
             ELSE IF ~c2.ok THEN invalidCommandBlock(c2)
             ELSE IF y2 = 0 THEN onRequest(c2)
             ELSE OnRequestIf(u2.ok, all2)
  BY Zenon DEF dispatchDial
<1>2. /\ "address" \in Missable /\ "uusData" \in Missable
      /\ "len" \notin Missable /\ "uusPresent" \notin Missable
  BY DEF Missable
<1>3. Misses(layout, Missable) /\ Fits(layout, "args") /\ "len" \in Names(layout)
  <2> DEFINE S == {"uusType", "uusDcs", "len"}
  <2>1. <<"uusType", "uusDcs", "len">> \in Seq(S) /\ S \cap Lists = {}
    BY DEF Lists
  <2>2. Len(layout) = 3 /\ layout[3][1] = "len"
    BY DEF Ints
  <2> HIDE DEF layout
  <2>3. "len" \in Names(layout)
    BY <2>2 DEF Names
  <2>4. layout = Ints(<<"uusType", "uusDcs", "len">>)
    BY DEF layout
  <2> QED
    BY <2>1, <2>3, <2>4, NumbersMiss, NumbersFit
<1> HIDE DEF layout
<1>4. Along(a1, a2) /\ "address" \in DOMAIN a1.args /\ Sound(a1)
  BY <1>2, StringAlong, AlongOk DEF From
<1>5. Fine(a1)
  BY <1>2, TypesOf, FineString DEF Grew
<1> HIDE DEF a1, a2
<1>6. From(a1, a2, b1, b2) /\ Along(b1, b2) /\ "address" \in DOMAIN b1.args
  <2>1. "int" \in Kinds /\ b1 = Read(a1, <<"clir", "int">>)
    BY DEF Kinds, Read
  <2>2. From(a1, a2, b1, b2)
    BY <1>4, IntAlong
  <2> HIDE DEF b1, b2
  <2>3. Took(a1, b1, "clir", Values("int"))
    BY <1>4, <2>1, OneRead
  <2>4. "address" \in DOMAIN b1.args
    BY <1>4, <2>3 DEF Took, Put
  <2> QED
    BY <2>2, <2>4 DEF From
<1>7. Fine(b1)
  BY <1>5, TypesOf, FineInt DEF Grew
<1> HIDE DEF b1, b2
<1>8. Lost(b1) \/ (b2.ok = TRUE /\ (x1 = x2 \/ x1 = NULL))
  BY <1>6, KnownSame
<1> HIDE DEF x1, x2
<1>9. Along(c1, c2) /\ (Lost(b1) => Lost(c1)) /\ "uusPresent" \in DOMAIN c1.args
  BY <1>6, IntAlong DEF From
<1>10. Fine(c1)
  BY <1>7, TypesOf, FineInt DEF Grew
<1> HIDE DEF c1, c2
<1>11. Lost(c1) \/ (c2.ok = TRUE /\ y1 = y2)
  BY <1>2, <1>9, KnownSame
<1> HIDE DEF y1, y2
<1>12. Along(u1, u2) /\ (Lost(c1) => Lost(u1))
  BY <1>3, <1>9, StructAlong DEF From
<1>13. "len" \in DOMAIN u1.args
  <2>1. WellRead(c1, u1, layout, "args")
    BY <1>3, <1>10, StructTyped DEF Fine
  <2> QED
    BY <1>3, <2>1 DEF WellRead, Names
<1> HIDE DEF u1, u2
<1>14. Lost(u1) \/ n1 = n2
  BY <1>2, <1>12, <1>13, KnownSame
<1> HIDE DEF n1, n2
<1>15. Along(z1, z2) /\ (Lost(u1) => Lost(z1))
  BY <1>12, StoreAlong DEF From
<1> HIDE DEF z1, z2
<1>16. Along(e1, e2) /\ (Lost(u1) => Lost(e1)) /\ Agree(e1, e2, Missable)
  <2>1. Along(e1, e2) /\ (Lost(z1) => Lost(e1))
    BY <1>15, StoreAlong DEF From
  <2> QED
    BY <1>15, <2>1, AlongOk
<1> HIDE DEF e1, e2
<1>17. Agree(r1, r2, Missable) /\ (Lost(u1) => Lost(r1))
  BY <1>2, <1>12, <1>14, BlockAlong
<1> HIDE DEF r1, r2
<1>18. (Lost(u1) => Lost(all1)) /\ Agree(all1, all2, Missable)
  <2>1. Lost(u1) => Lost(all1)
    BY <1>16, <1>17
  <2>2. CASE Lost(u1)
    BY <2>1, <2>2 DEF Agree
  <2>3. CASE ~Lost(u1)
    BY <1>14, <1>16, <1>17, <2>3
  <2> QED
    BY <2>1, <2>2, <2>3
<1> HIDE DEF all1, all2
<1>19. Agree(b1, b2, Missable) /\ Agree(c1, c2, Missable)
  BY <1>6, <1>9, AlongOk
<1>20. Honest(OnRequestIf(u1.ok, all1), OnRequestIf(u2.ok, all2))
  BY <1>12, <1>18, HonestWays
<1>21. CASE Lost(b1)
  BY <1>1, <1>9, <1>12, <1>18, <1>21, HonestWays
<1>22. CASE ~Lost(b1) /\ Lost(c1)
  <2>1. b1.ok = TRUE
    BY <1>6, <1>22, AlongOk
  <2> QED
    BY <1>1, <1>8, <1>12, <1>18, <1>19, <1>22, HonestWays
<1>23. CASE ~Lost(b1) /\ ~Lost(c1)
  BY <1>1, <1>8, <1>11, <1>19, <1>20, <1>23, HonestWays
<1> QED
  BY <1>21, <1>22, <1>23

\* Access to a file of the SIM.
LEMMA SIM_IOHonest ==
    ASSUME NEW p, NEW q, Along(p, q), NEW v
    PROVE  Honest(dispatchSIM_IO(p, v), dispatchSIM_IO(q, v))
<1> DEFINE front  == Ints(<<"command", "fileid">>)
           middle == Str("path")
           back   == Ints(<<"p1", "p2", "p3">>)
           texts  == Str("data") \o Str("pin2") \o Str("aidPtr")
           layout == front \o middle \o back
           a == ReadStruct(p, layout)       b == ReadStruct(q, layout)
           c == ReadStruct(a, texts)        d == ReadStruct(b, texts)
           e == Store(c, "aidPtr", NULL)    g == Store(d, "aidPtr", NULL)
           r == IF v < 6 THEN e ELSE c      t == IF v < 6 THEN g ELSE d
<1>1. /\ dispatchSIM_IO(p, v) = OnRequestIf(a.ok, r)
      /\ dispatchSIM_IO(q, v) = OnRequestIf(b.ok, t)
  BY Zenon DEF dispatchSIM_IO
<1>2. Misses(front, Missable) /\ Misses(middle, Missable) /\ Misses(back, Missable)
  <2>1. <<"command", "fileid">> \in Seq({"command", "fileid"}) /\ <<"p1", "p2", "p3">> \in Seq({"p1", "p2", "p3"})
    OBVIOUS
  <2>2. "path" \in Missable
    BY DEF Missable
  <2> QED
    BY <2>1, <2>2, NumbersMiss, StringMisses
<1>3. Misses(texts, Missable)
  <2>1. "data" \in Missable /\ "pin2" \in Missable /\ "aidPtr" \in Missable
    BY DEF Missable
  <2>2. Misses(Str("data"), Missable) /\ Misses(Str("pin2"), Missable) /\ Misses(Str("aidPtr"), Missable)
    BY <2>1, StringMisses
  <2> QED
    BY <2>2, JoinedMisses
<1> HIDE DEF front, middle, back, texts
<1>4. Misses(layout, Missable)
  BY <1>2, JoinedMisses
<1> HIDE DEF layout
<1>5. Along(a, b)
  BY <1>4, StructAlong DEF From
<1> HIDE DEF a, b
<1>6. Along(c, d) /\ (Lost(a) => Lost(c))
  BY <1>3, <1>5, StructAlong DEF From
<1> HIDE DEF c, d
<1>7. Along(e, g) /\ (Lost(a) => Lost(e))
  BY <1>6, StoreAlong DEF From
<1> HIDE DEF e, g
<1>8. Along(r, t) /\ (Lost(a) => Lost(r))
  BY <1>6, <1>7
<1> HIDE DEF r, t
<1>9. Agree(r, t, Missable)
  BY <1>8, AlongOk
<1> QED
  BY <1>1, <1>5, <1>8, <1>9, HonestWays

\* A rule of call forwarding.
LEMMA CallForwardHonest ==
    ASSUME NEW p, NEW q, Along(p, q), Fine(p)
    PROVE  Honest(dispatchCallForward(p), dispatchCallForward(q))
<1> DEFINE front  == Ints(<<"status", "reason", "serviceClass", "toa">>)
           middle == Str("number")
           back   == Ints(<<"timeSeconds">>)
           layout == front \o middle \o back
           a == ReadStruct(p, layout)       b == ReadStruct(q, layout)
           x == a.args["number"]            y == b.args["number"]
           c == Store(a, "number", NULL)    d == Store(b, "number", NULL)
           r == IF x = <<0>> THEN c ELSE a  t == IF y = <<0>> THEN d ELSE b
<1>1. /\ dispatchCallForward(p) = OnRequestIf(a.ok, r)
      /\ dispatchCallForward(q) = OnRequestIf(b.ok, t)
  BY Zenon DEF dispatchCallForward
<1>2. /\ Misses(front, Missable) /\ Misses(middle, Missable) /\ Misses(back, Missable)
      /\ Fits(front, "args") /\ Fits(middle, "args") /\ Fits(back, "args")
  <2> DEFINE S == {"status", "reason", "serviceClass", "toa"}
  <2>1. <<"status", "reason", "serviceClass", "toa">> \in Seq(S) /\ S \cap Lists = {}
    BY DEF Lists
  <2>2. <<"timeSeconds">> \in Seq({"timeSeconds"}) /\ {"timeSeconds"} \cap Lists = {}
    BY DEF Lists
  <2>3. "number" \notin Lists /\ "number" \in Missable
    BY DEF Lists, Missable
  <2> HIDE DEF S
  <2> QED
    BY <2>1, <2>2, <2>3, NumbersFit, StringFits, NumbersMiss, StringMisses
<1>3. middle[1][1] = "number" /\ Len(middle) = 1
  BY DEF Str
<1> HIDE DEF front, middle, back
<1>4. /\ Misses(layout, Missable) /\ Fits(layout, "args")
  BY <1>2, JoinedMisses, JoinedFits
<1>5. \E i \in 1..Len(layout) : layout[i][1] = "number"
  <2> DEFINE two == front \o middle
  <2>1. IsLayout(front) /\ IsLayout(middle) /\ IsLayout(back)
    BY <1>2 DEF Misses
  <2>2. Len(front) \in Nat /\ Len(middle) \in Nat /\ Len(back) \in Nat
    BY <2>1 DEF IsLayout
  <2>3. /\ IsLayout(two) /\ Len(two) = Len(front) + Len(middle)
        /\ \A i \in 1..Len(middle) : two[Len(front) + i] = middle[i]
    BY <2>1, JoinedLayout
  <2> HIDE DEF two
  <2>4. layout = two \o back
    BY DEF two
  <2> HIDE DEF layout
  <2>5. Len(layout) = Len(two) + Len(back) /\ \A i \in 1..Len(two) : layout[i] = two[i]
    BY <2>1, <2>3, <2>4, JoinedLayout
  <2> DEFINE i == Len(front) + 1
  <2>6. i \in 1..Len(two) /\ i \in 1..Len(layout) /\ 1 \in 1..Len(middle)
    BY <1>3, <2>2, <2>3, <2>5
  <2>7. layout[i] = middle[1]
    BY <2>3, <2>5, <2>6
  <2> HIDE DEF i
  <2> QED
    BY <1>3, <2>6, <2>7
<1> HIDE DEF layout
<1>6. Along(a, b)
  BY <1>4, StructAlong DEF From
<1>7. "number" \in DOMAIN a.args
  <2>1. WellRead(p, a, layout, "args")
    BY <1>4, StructTyped DEF Fine
  <2> QED
    BY <1>5, <2>1 DEF WellRead
<1> HIDE DEF a, b
<1>8. Along(c, d) /\ (Lost(a) => Lost(c))
  BY <1>6, StoreAlong DEF From
<1>13. Sound(a) /\ Sound(b)
  BY <1>6, AlongOk
<1>9. /\ IsParcel(c) /\ c.words = a.words /\ c.pos = a.pos /\ c.ok = a.ok
      /\ c.args = Put(a.args, "number", NULL) /\ c.cut = a.cut
  BY <1>13, StoreOnward
<1>10. /\ IsParcel(d) /\ d.words = b.words /\ d.pos = b.pos /\ d.ok = b.ok
       /\ d.args = Put(b.args, "number", NULL) /\ d.cut = b.cut
  BY <1>13, StoreOnward
<1> HIDE DEF c, d
<1>11. Lost(a) => Lost(r)
  BY <1>8
<1>12. Agree(r, t, Missable)
  <2>1. CASE Lost(a)
    BY <1>11, <2>1 DEF Agree
  <2>2. CASE ~Lost(a)
    <3>1. b.ok = TRUE /\ (x = y \/ x = NULL) /\ SameBut(a.args, b.args, Missable)
      BY <1>6, <1>7, <2>2, KnownSame, ZenonT(60) DEF Along, Follows, Agree
    <3>2. CASE x = y
      <4>1. Agree(a, b, Missable) /\ Agree(c, d, Missable)
        BY <1>6, <1>8, AlongOk
      <4> QED
        BY <3>2, <4>1
    <3>3. CASE x # y
      <4>1. x # <<0>>
        <5>1. x = NULL /\ <<0>> \in Seq(Int)
          BY <3>1, <3>3
        <5> QED
          BY <5>1, ParcelAssumption
      <4>2. r = a
        BY <4>1
      <4>3. CASE t = b
        BY <1>6, <4>2, <4>3, AlongOk
      <4>4. CASE t = d
        <5>1. SameBut(a.args, Put(b.args, "number", NULL), Missable)
          <6>1. ASSUME NEW f \in DOMAIN a.args
                PROVE  \/ a.args[f] = Put(b.args, "number", NULL)[f]
                       \/ f \in Missable /\ a.args[f] = NULL
            <7>1. f \in DOMAIN b.args
              BY <3>1 DEF SameBut
            <7>2. Put(b.args, "number", NULL)[f] = IF f = "number" THEN NULL ELSE b.args[f]
              BY <7>1 DEF Put
            <7> QED
              BY <3>1, <3>3, <7>2 DEF SameBut
          <6>2. DOMAIN Put(b.args, "number", NULL) = DOMAIN a.args
            BY <1>7, <3>1 DEF SameBut, Put
          <6> QED
            BY <6>1, <6>2 DEF SameBut
        <5> QED
          BY <1>10, <3>1, <4>2, <4>4, <5>1 DEF Agree
      <4> QED
        BY <4>3, <4>4
    <3> QED
      BY <3>2, <3>3
  <2> QED
    BY <2>1, <2>2
<1> HIDE DEF r, t
<1> QED
  BY <1>1, <1>6, <1>11, <1>12, HonestWays

\* The acknowledgement of a CDMA message.
LEMMA CdmaSmsAckHonest ==
    ASSUME NEW p, NEW q, Along(p, q) PROVE Honest(dispatchCdmaSmsAck(p), dispatchCdmaSmsAck(q))
<1> DEFINE S == {"uErrorClass", "uSMSCauseCode"}
           layout == Ints(<<"uErrorClass", "uSMSCauseCode">>)
           c == ReadStruct(p, layout)  d == ReadStruct(q, layout)
<1>1. <<"uErrorClass", "uSMSCauseCode">> \in Seq(S)
  OBVIOUS
<1>2. Misses(layout, Missable)
  BY <1>1, NumbersMiss
<1>3. /\ dispatchCdmaSmsAck(p) = OnRequestIf(c.ok, c)
      /\ dispatchCdmaSmsAck(q) = OnRequestIf(d.ok, d)
  BY Zenon DEF dispatchCdmaSmsAck
<1> HIDE DEF layout
<1>4. Along(c, d)
  BY <1>2, StructAlong DEF From
<1> HIDE DEF c, d
<1> QED
  BY <1>3, <1>4, AlongOk, HonestWays, ZenonT(60)

\* The broadcast configurations, in rows.
LEMMA RowsHonest ==
    ASSUME NEW p, NEW q, Along(p, q), NEW layout \in {GsmBrLayout, CdmaBrLayout}
    PROVE  Honest(DispatchRows(p, layout), DispatchRows(q, layout))
<1> DEFINE a == readInt32(p, "num")  b == readInt32(q, "num")
           n == a.args["num"]  m == b.args["num"]
           c == ReadRows(a, "rows", n, layout)  d == ReadRows(b, "rows", m, layout)
<1>1. /\ DispatchRows(p, layout) = IF ~a.ok THEN invalidCommandBlock(a) ELSE OnRequestIf(c.ok, c)
      /\ DispatchRows(q, layout) = IF ~b.ok THEN invalidCommandBlock(b) ELSE OnRequestIf(d.ok, d)
  BY Zenon DEF DispatchRows
<1>2. Along(a, b) /\ "num" \in DOMAIN a.args
  BY IntAlong DEF From
<1>3. "num" \notin Missable
  BY DEF Missable
<1> HIDE DEF a, b
<1>4. Lost(a) \/ (b.ok = TRUE /\ n = m)
  BY <1>2, <1>3, KnownSame
<1> HIDE DEF n, m
<1>5. IsLayout(layout) /\ \A i \in 1..Len(layout) : layout[i][2] # "str"
  BY BrLayouts
<1>6. Along(c, d)
  BY <1>2, <1>4, <1>5, RowsFollow DEF Along
<1>7. Lost(a) => Lost(c)
  <2> DEFINE how == <<"row", layout>>  k == Times(n)
  <2>1. PICK r : Links(r, a, "rows", how, k, c)
    BY RowsLinks
  <2>2. Loses(how) /\ k \in Nat /\ Sound(a)
    BY <1>2, <1>5, RowSteps, TimesNat, AlongOk
  <2> HIDE DEF how, k, c
  <2> QED
    BY <2>1, <2>2, LinksOnward DEF Onward
<1> HIDE DEF c, d
<1>8. Agree(c, d, Missable)
  BY <1>6, AlongOk
<1>9. CASE Lost(a)
  BY <1>1, <1>7, <1>9, HonestWays
<1>10. CASE ~Lost(a)
  BY <1>1, <1>4, <1>6, <1>8, <1>10, HonestWays
<1> QED
  BY <1>9, <1>10

\* As many bytes of both as were announced.
LEMMA CountedAlong ==
    ASSUME NEW p, NEW q, Along(p, q), NEW f, NEW count \in DOMAIN p.args, count \notin Missable, NEW max
    PROVE  From(p, q, ReadCounted(p, f, count, max), ReadCounted(q, f, count, max))
<1> DEFINE n == Limit(p.args[count], max)  m == Limit(q.args[count], max)
           kind == "byte"
<1>1. Lost(p) \/ n = m
  BY KnownSame
<1> HIDE DEF n, m
<1>2. kind \in Kinds /\ kind # "str"
  BY DEF Kinds
<1>3. ReadCounted(p, f, count, max) = ReadArray(p, f, n, kind)
      /\ ReadCounted(q, f, count, max) = ReadArray(q, f, m, kind)
  BY Zenon DEF ReadCounted, n, m
<1> HIDE DEF kind
<1> QED
  BY <1>1, <1>2, <1>3, ArrayAlong

\* The head of a CDMA message and its subaddress are numbers.
LEMMA HeadMisses == Misses(CdmaHead, Missable) /\ Misses(CdmaSubaddress, Missable)
<1> DEFINE a == <<"uTeleserviceID">>
           b == <<"bIsServicePresent">>
           c == <<"uServicecategory", "digit_mode", "number_mode", "number_type", "number_plan">>
           d == <<"number_of_digits">>
           e == <<"subaddressType">>
           g == <<"odd", "sub_digits">>
<1>1. /\ \E S : a \in Seq(S)
      /\ \E S : b \in Seq(S)
      /\ \E S : c \in Seq(S)
      /\ \E S : d \in Seq(S)
      /\ \E S : e \in Seq(S)
      /\ \E S : g \in Seq(S)
  <2>1. /\ a \in Seq({"uTeleserviceID"}) /\ b \in Seq({"bIsServicePresent"})
        /\ d \in Seq({"number_of_digits"}) /\ e \in Seq({"subaddressType"})
        /\ g \in Seq({"odd", "sub_digits"})
    OBVIOUS
  <2>2. c \in Seq({"uServicecategory", "digit_mode", "number_mode", "number_type", "number_plan"})
    OBVIOUS
  <2> HIDE DEF a, b, c, d, e, g
  <2> QED
    BY <2>1, <2>2
<1>2. /\ CdmaHead = Ints(a) \o Bytes(b) \o Ints(c) \o Bytes(d)
      /\ CdmaSubaddress = Ints(e) \o Bytes(g)
  BY DEF CdmaHead, CdmaSubaddress
<1> HIDE DEF a, b, c, d, e, g
<1>3. /\ Misses(Ints(a), Missable) /\ Misses(Bytes(b), Missable) /\ Misses(Ints(c), Missable)
      /\ Misses(Bytes(d), Missable) /\ Misses(Ints(e), Missable) /\ Misses(Bytes(g), Missable)
  BY <1>1, NumbersMiss
<1> QED
  BY <1>2, <1>3, JoinedMisses

\* A CDMA message, with its three counted arrays.
LEMMA CdmaSmsHonest ==
    ASSUME NEW p, NEW q, Along(p, q), Fine(p) PROVE Honest(dispatchCdmaSms(p), dispatchCdmaSms(q))
<1> DEFINE a1 == ReadStruct(p, CdmaHead)
           a2 == ReadStruct(q, CdmaHead)
           b1 == ReadCounted(a1, "digits", "number_of_digits", AddressMax)
           b2 == ReadCounted(a2, "digits", "number_of_digits", AddressMax)
           c1 == ReadStruct(b1, CdmaSubaddress)
           c2 == ReadStruct(b2, CdmaSubaddress)
           d1 == ReadCounted(c1, "subdigits", "sub_digits", SubaddressMax)
           d2 == ReadCounted(c2, "subdigits", "sub_digits", SubaddressMax)
           e1 == readInt32(d1, "uBearerDataLen")
           e2 == readInt32(d2, "uBearerDataLen")
           r1 == ReadCounted(e1, "aBearerData", "uBearerDataLen", BearerMax)
           r2 == ReadCounted(e2, "aBearerData", "uBearerDataLen", BearerMax)
<1>1. /\ dispatchCdmaSms(p) = OnRequestIf(r1.ok, r1)
      /\ dispatchCdmaSms(q) = OnRequestIf(r2.ok, r2)
  BY Zenon DEF dispatchCdmaSms, ReadCdmaSms
<1>2. /\ "number_of_digits" \in Names(CdmaHead) /\ "number_of_digits" \notin Missable
      /\ "sub_digits" \in Names(CdmaSubaddress) /\ "sub_digits" \notin Missable
      /\ "uBearerDataLen" \notin Missable
  BY MessageNames DEF Missable
<1>3. Along(a1, a2) /\ Fine(a1) /\ "number_of_digits" \in DOMAIN a1.args
  <2>1. WellRead(p, a1, CdmaHead, "args")
    BY CdmaLayouts, StructTyped DEF Fine
  <2> QED
    BY <1>2, <2>1, HeadMisses, StructAlong DEF From, WellRead, Names, Fine
<1> HIDE DEF a1, a2
<1>4. Along(b1, b2)
  BY <1>2, <1>3, CountedAlong DEF From
<1>5. Fine(b1)
  BY <1>3, FineDigits DEF ReadCounted
<1> HIDE DEF b1, b2
<1>6. Along(c1, c2) /\ Fine(c1) /\ "sub_digits" \in DOMAIN c1.args
  <2>1. WellRead(b1, c1, CdmaSubaddress, "args")
    BY <1>5, CdmaLayouts, StructTyped DEF Fine
  <2> QED
    BY <1>2, <1>4, <2>1, HeadMisses, StructAlong DEF From, WellRead, Names, Fine
<1> HIDE DEF c1, c2
<1>7. Along(d1, d2)
  BY <1>2, <1>6, CountedAlong DEF From
<1> HIDE DEF d1, d2
<1>8. Along(e1, e2) /\ "uBearerDataLen" \in DOMAIN e1.args
  BY <1>7, IntAlong DEF From
<1> HIDE DEF e1, e2
<1>9. Along(r1, r2)
  BY <1>2, <1>8, CountedAlong DEF From
<1> HIDE DEF r1, r2
<1> QED
  BY <1>1, <1>9, AlongOk, HonestWays, ZenonT(60)

\* A CDMA message to store.
LEMMA WriteArgsHonest ==
    ASSUME NEW p, NEW q, Along(p, q)
    PROVE  Honest(dispatchRilCdmaSmsWriteArgs(p), dispatchRilCdmaSmsWriteArgs(q))
<1> DEFINE status == Ints(<<"status">>)
           layout == status \o CdmaHead
           kind == "byte"
           a1 == ReadStruct(p, layout)
           a2 == ReadStruct(q, layout)
           b1 == ReadArray(a1, "digits", AddressMax, kind)
           b2 == ReadArray(a2, "digits", AddressMax, kind)
           c1 == ReadStruct(b1, CdmaSubaddress)
           c2 == ReadStruct(b2, CdmaSubaddress)
           d1 == ReadArray(c1, "subdigits", SubaddressMax, kind)
           d2 == ReadArray(c2, "subdigits", SubaddressMax, kind)
           e1 == readInt32(d1, "uBearerDataLen")
           e2 == readInt32(d2, "uBearerDataLen")
           r1 == ReadArray(e1, "aBearerData", BearerMax, kind)
           r2 == ReadArray(e2, "aBearerData", BearerMax, kind)
<1>1. /\ dispatchRilCdmaSmsWriteArgs(p) = OnRequestIf(r1.ok, r1)
      /\ dispatchRilCdmaSmsWriteArgs(q) = OnRequestIf(r2.ok, r2)
  BY Zenon DEF dispatchRilCdmaSmsWriteArgs
<1>2. Misses(status, Missable) /\ kind \in Kinds /\ kind # "str"
  <2>1. <<"status">> \in Seq({"status"})
    OBVIOUS
  <2> QED
    BY <2>1, NumbersMiss DEF Kinds
<1> HIDE DEF status, kind
<1>3. Misses(layout, Missable)
  BY <1>2, HeadMisses, JoinedMisses
<1> HIDE DEF layout
<1>4. Along(a1, a2)
  BY <1>3, StructAlong DEF From
<1> HIDE DEF a1, a2
<1>5. Along(b1, b2)
  BY <1>2, <1>4, ArrayAlong DEF From
<1> HIDE DEF b1, b2
<1>6. Along(c1, c2)
  BY <1>5, HeadMisses, StructAlong DEF From
<1> HIDE DEF c1, c2
<1>7. Along(d1, d2)
  BY <1>2, <1>6, ArrayAlong DEF From
<1> HIDE DEF d1, d2
<1>8. Along(e1, e2)
  BY <1>7, IntAlong DEF From
<1> HIDE DEF e1, e2
<1>9. Along(r1, r2)
  BY <1>2, <1>8, ArrayAlong DEF From
<1> HIDE DEF r1, r2
<1> QED
  BY <1>1, <1>9, AlongOk, HonestWays

\* What the strings s behind their number are read as, from a parcel that was or was not cut.
LEMMA StringsFound ==
    ASSUME NEW s \in Seq(Texts), NEW p, Ahead(p, <<Len(s)>> \o WriteArray(s, "str")), p.args = <<>>
    PROVE  LET out == dispatchStrings(p) IN
           /\ out.valid = TRUE
           /\ out.p.args = Put(Put(<<>>, "count", Len(s)), "strings", s)
           /\ out.p.words = p.words /\ out.p.cut = p.cut
           /\ out.p.pos = p.pos + 1 + Len(WriteArray(s, "str"))
<1> DEFINE n == Len(s)
           w == WriteArray(s, "str")
           c == readInt32(p, "count")
           q == ReadArray(c, "strings", n, "str")
<1>1. n \in Nat /\ n # -1
  BY LenProperties
<1>2. "str" \in Kinds /\ Exact("str") = Texts /\ Values("str") = Texts
  BY DEF Kinds, Exact, Values
<1>3. w \in Seq(Int) /\ Len(w) \in Nat
  <2>1. \A v \in Texts : Write("str", v) \in Seq(Int)
    BY <1>2, ValueWritten
  <2>2. w \in Seq(Int)
    BY <1>2, <2>1, ArrayWritten
  <2> QED
    BY <2>2, LenProperties
<1>12. Ahead(p, <<n>> \o w)
  OBVIOUS
<1> HIDE DEF n, w
<1>4. p.ok = TRUE
  BY <1>12 DEF Ahead
<1> DEFINE args == Put(<<>>, "count", n)
<1>5. c = Past(p, 1, args) /\ Ahead(Past(p, 1, args), w)
  <2>1. n \in Int
    BY <1>1
  <2> QED
    BY <1>3, <1>12, <2>1, IntBack
<1>6. c.ok = p.ok /\ c.args = args /\ c.words = p.words /\ c.pos = p.pos + 1 /\ c.cut = p.cut
  BY <1>5, PastFields
<1>7. c.args["count"] = n
  <2>1. args["count"] = n
    BY DEF Put
  <2> QED
    BY <1>6, <2>1
<1> HIDE DEF args
<1>8. q = Past(c, Len(w), Put(args, "strings", s))
  <2>1. Ahead(c, WriteArray(s, "str"))
    BY <1>5 DEF w
  <2> HIDE DEF c
  <2>2. ReadArray(c, "strings", Len(s), "str") = Past(c, Len(WriteArray(s, "str")), Put(c.args, "strings", s))
    BY <1>2, <2>1, ArrayReadsBack
  <2> QED
    BY <1>6, <2>2 DEF n, w
<1>9. dispatchStrings(p) = onRequest(q)
  <2>1. dispatchStrings(p) = IF ~c.ok THEN invalidCommandBlock(c)
                             ELSE IF c.args["count"] = -1 THEN onRequest(Store(c, "strings", NULL))
                             ELSE onRequest(ReadArray(c, "strings", c.args["count"], "str"))
    BY Zenon DEF dispatchStrings
  <2> HIDE DEF c
  <2> QED
    BY <1>1, <1>4, <1>6, <1>7, <2>1
<1> HIDE DEF c
<1>10. q.args = Put(args, "strings", s) /\ q.words = c.words /\ q.pos = c.pos + Len(w) /\ q.cut = c.cut
  BY <1>8, PastFields
<1>11. onRequest(q).valid = TRUE /\ onRequest(q).p = q
  BY DEF onRequest
<1> HIDE DEF q
<1> QED
  BY <1>6, <1>9, <1>10, <1>11 DEF args, n, w

\* The arguments of a cut parcel are those of the whole one, but for strings and blocks
\* that are missing, and strings of an array that are missing or empty.
AsWhole(args, all) ==
    \A f \in DOMAIN args :
        IF f = "strings" /\ args[f] # NULL
        THEN \A i \in DOMAIN args[f] : args[f][i] \in {NULL, <<0>>, all[f][i]}
        ELSE args[f] \in {NULL, all[f]}

\* What is handed over of a parcel no string of which was cut, is handed over of
\* the whole.
CutHonest(out, whole) ==
    out.valid = TRUE /\ out.p.cut # TRUE => whole.valid = TRUE /\ AsWhole(out.p.args, whole.p.args)

\* If something was lost of what was handed over, a string of it was cut.
LEMMA LostIsCut ==
    ASSUME NEW out, NEW whole, Handed(out), out.valid = TRUE => Lost(out.p)
    PROVE  CutHonest(out, whole)
<1>1. out.valid = TRUE => out.p.ok = TRUE /\ Lost(out.p)
  BY DEF Handed
<1> QED
  BY <1>1 DEF CutHonest, Lost

\* A dispatch function that is honest is so of a cut parcel.
LEMMA HonestWhole ==
    ASSUME NEW out, NEW whole, Handed(out), Honest(out, whole)
    PROVE  CutHonest(out, whole)
<1>1. CASE out.valid = TRUE => Lost(out.p)
  BY <1>1, LostIsCut
<1>2. CASE out.valid = TRUE /\ ~Lost(out.p)
  <2>1. whole.valid = TRUE /\ SameBut(out.p.args, whole.p.args, Missable)
    BY <1>2 DEF Honest, Agree
  <2>2. AsWhole(out.p.args, whole.p.args)
    BY <2>1 DEF AsWhole, SameBut
  <2> QED
    BY <2>1, <2>2 DEF CutHonest
<1> QED
  BY <1>1, <1>2

\* The strings of a cut parcel, any of which may be missing.
LEMMA StringsCut ==
    ASSUME NEW p, NEW q, Along(p, q), Fine(p), p.ok = TRUE
    PROVE  CutHonest(dispatchStrings(p), dispatchStrings(q))
<1> DEFINE c == readInt32(p, "count")          d == readInt32(q, "count")
           n == c.args["count"]                m == d.args["count"]
           e == Store(c, "strings", NULL)      g == Store(d, "strings", NULL)
           r == ReadArray(c, "strings", n, "str")  t == ReadArray(d, "strings", m, "str")
           out == dispatchStrings(p)           whole == dispatchStrings(q)
<1>1. /\ out = IF ~c.ok THEN invalidCommandBlock(c)
               ELSE IF n = -1 THEN onRequest(e) ELSE onRequest(r)
      /\ whole = IF ~d.ok THEN invalidCommandBlock(d)
                 ELSE IF m = -1 THEN onRequest(g) ELSE onRequest(t)
  BY Zenon DEF dispatchStrings
<1>2. Handed(out)
  BY StringsHanded
<1>3. Along(c, d) /\ "count" \in DOMAIN c.args
  BY IntAlong DEF From
<1>4. "count" \notin Missable /\ "strings" \notin Missable
  BY DEF Missable
<1> SUFFICES CutHonest(out, whole)
  OBVIOUS
<1> HIDE DEF out, whole, c, d
<1>5. Lost(c) \/ (d.ok = TRUE /\ n = m)
  BY <1>3, <1>4, KnownSame
<1> HIDE DEF n, m
<1>6. Along(e, g) /\ (Lost(c) => Lost(e))
  BY <1>3, StoreAlong DEF From
<1> HIDE DEF e, g
<1>7. /\ Lost(c) => Lost(r)
      /\ Lost(r) \/ \E u, v : /\ r.args = Put(c.args, "strings", u) /\ t.args = Put(d.args, "strings", v)
                              /\ SomeTexts(u, v, Times(n))
  <2>1. Follows(c, d, Missable) /\ (Lost(c) \/ n = m)
    BY <1>3, <1>5 DEF Along
  <2>2. BothTexts(c, d, r, t, "strings", Times(n))
    BY <2>1, TextsFollow
  <2> HIDE DEF r, t
  <2> QED
    BY <2>2 DEF BothTexts
<1> HIDE DEF r, t
<1>8. /\ \A x : onRequest(x).valid = TRUE /\ onRequest(x).p = x
      /\ \A x : invalidCommandBlock(x).valid # TRUE
  BY DEF onRequest, invalidCommandBlock
<1>9. CASE out = invalidCommandBlock(c)
  BY <1>8, <1>9 DEF CutHonest
<1>10. CASE n = -1 /\ out = onRequest(e)
  <2>1. CASE Lost(c)
    BY <1>2, <1>6, <1>8, <1>10, <2>1, LostIsCut
  <2>2. CASE ~Lost(c)
    <3>1. whole = onRequest(g)
      BY <1>1, <1>5, <1>10, <2>2
    <3>2. Honest(out, whole)
      BY <1>6, <1>10, <3>1, AlongOk, HonestWays
    <3> QED
      BY <1>2, <3>2, HonestWhole
  <2> QED
    BY <2>1, <2>2
<1>11. CASE n # -1 /\ out = onRequest(r)
  <2>1. CASE Lost(r)
    BY <1>2, <1>8, <1>11, <2>1, LostIsCut
  <2>2. CASE ~Lost(r)
    <3>1. whole = onRequest(t) /\ ~Lost(c)
      BY <1>1, <1>5, <1>7, <1>11, <2>2
    <3>2. PICK u, v : /\ r.args = Put(c.args, "strings", u) /\ t.args = Put(d.args, "strings", v)
                      /\ SomeTexts(u, v, Times(n))
      BY <1>7, <2>2
    <3>3. SameBut(c.args, d.args, Missable)
      BY <1>3, <3>1 DEF Along, Follows, Agree
    <3>4. AsWhole(r.args, t.args)
      <4>1. ASSUME NEW f \in DOMAIN r.args, f # "strings" PROVE r.args[f] \in {NULL, t.args[f]}
        <5>1. f \in DOMAIN c.args /\ f \in DOMAIN d.args
          BY <3>2, <3>3, <4>1 DEF Put, SameBut
        <5>2. r.args[f] = c.args[f] /\ t.args[f] = d.args[f]
          BY <3>2, <4>1, <5>1 DEF Put
        <5> QED
          BY <3>3, <5>1, <5>2 DEF SameBut
      <4>2. r.args["strings"] = u /\ t.args["strings"] = v
        BY <3>2 DEF Put
      <4>3. DOMAIN u = 1..Len(u)
        BY <3>2, LenProperties DEF SomeTexts
      <4>4. \A i \in DOMAIN u : u[i] \in {NULL, v[i]}
        BY <3>2, <4>3 DEF SomeTexts
      <4>5. u # NULL
        BY <3>2, ParcelAssumption DEF SomeTexts
      <4> QED
        BY <4>1, <4>2, <4>4, <4>5 DEF AsWhole
    <3> QED
      BY <1>8, <1>11, <3>1, <3>4 DEF CutHonest
  <2> QED
    BY <2>1, <2>2
<1> QED
  BY <1>1, <1>9, <1>10, <1>11

\* A copy of six strings, the missing ones of which are empty.
Copy(s) == <<6>> \o WriteArray(ReplaceAll(s, NULL, <<0>>), "str")

\* Such a copy is read as the strings it was made of.
LEMMA CopyFound ==
    ASSUME NEW s \in Seq(Texts), Len(s) = 6, NEW cut \in BOOLEAN
    PROVE  LET out == dispatchStrings([Parcel(Copy(s)) EXCEPT !.cut = cut]) IN
           /\ out.valid = TRUE /\ out.p.cut = cut
           /\ out.p.args = Put(Put(<<>>, "count", 6), "strings",
                               [i \in 1..6 |-> IF s[i] = NULL THEN <<0>> ELSE s[i]])
<1> DEFINE t == ReplaceAll(s, NULL, <<0>>)
           empty == <<0>>
           u == [i \in 1..6 |-> IF s[i] = NULL THEN empty ELSE s[i]]
           w == WriteArray(t, "str")
           words == <<6>> \o w
           p == [Parcel(words) EXCEPT !.cut = cut]
           out == dispatchStrings(p)
<1>1. DOMAIN s = 1..6 /\ \A i \in 1..6 : s[i] \in Texts
  BY LenProperties, ElementOfSeq
<1>2. empty \in Texts
  BY DEF Texts
<1>3. t = u
  BY <1>1 DEF ReplaceAll
<1> HIDE DEF empty
<1>4. u \in [1..6 -> Texts]
  BY <1>1, <1>2
<1>5. u \in Seq(Texts) /\ Len(u) = 6
  BY <1>4, SeqDef
<1> HIDE DEF t
<1>6. t \in Seq(Texts) /\ Len(t) = 6
  BY <1>3, <1>5
<1>7. w \in Seq(Int)
  <2>1. "str" \in Kinds /\ Values("str") = Texts
    BY DEF Kinds, Values
  <2>2. \A x \in Texts : Write("str", x) \in Seq(Int)
    BY <2>1, ValueWritten
  <2> QED
    BY <1>6, <2>1, <2>2, ArrayWritten
<1>8. words = <<Len(t)>> \o WriteArray(t, "str")
  BY <1>6
<1> HIDE DEF w
<1>9. words \in Seq(Int)
  BY <1>7, ConcatProperties
<1> HIDE DEF words
<1>10. Ahead(p, words) /\ p.args = <<>>
  BY <1>9, AheadFresh
<1>11. p.cut = cut
  BY <1>9, CutParcel
<1> HIDE DEF p
<1>12. out.valid = TRUE /\ out.p.args = Put(Put(<<>>, "count", Len(t)), "strings", t) /\ out.p.cut = p.cut
  BY <1>6, <1>8, <1>10, StringsFound
<1>13. Copy(s) = words
  BY DEF Copy, words, w, t
<1>14. dispatchStrings([Parcel(Copy(s)) EXCEPT !.cut = cut]) = out
  BY <1>13 DEF p
<1> HIDE DEF out, u
<1>15. out.p.args = Put(Put(<<>>, "count", 6), "strings", u)
  BY <1>3, <1>6, <1>12
<1> QED
  BY <1>11, <1>12, <1>14, <1>15 DEF u, empty

\* What was lost before the strings are read is lost behind them.
LEMMA StringsLost ==
    ASSUME NEW p, Sound(p), Lost(p)
    PROVE  Lost(dispatchStrings(p).p)
<1> DEFINE c == readInt32(p, "count")
           n == c.args["count"]
           e == Store(c, "strings", NULL)
           r == ReadArray(c, "strings", n, "str")
           out == dispatchStrings(p)
<1>1. out = IF ~c.ok THEN invalidCommandBlock(c)
            ELSE IF n = -1 THEN onRequest(e) ELSE onRequest(r)
  BY Zenon DEF dispatchStrings
<1>2. Along(p, p)
  <2>1. Len(p.words) \in Nat
    BY LenProperties DEF Sound
  <2> QED
    BY <2>1 DEF Along, Follows, Shorter, Agree
<1>3. Along(c, c) /\ Lost(c)
  BY <1>2, IntAlong DEF From
<1> SUFFICES Lost(out.p)
  OBVIOUS
<1> HIDE DEF out, c, n
<1>4. Lost(e)
  BY <1>3, StoreAlong DEF From
<1> HIDE DEF e
<1>5. Lost(r)
  <2>1. Follows(c, c, Missable)
    BY <1>3 DEF Along
  <2>2. BothTexts(c, c, r, r, "strings", Times(n))
    BY <2>1, TextsFollow
  <2> QED
    BY <1>3, <2>2 DEF BothTexts
<1> HIDE DEF r
<1>6. /\ \A x : onRequest(x).p = x
      /\ \A x : invalidCommandBlock(x).p = x
  BY DEF onRequest, invalidCommandBlock
<1> QED
  BY <1>1, <1>3, <1>4, <1>5, <1>6

\* A copy of strings is words.
LEMMA CopyWritten ==
    ASSUME NEW s \in Seq(Texts)
    PROVE  Copy(s) \in Seq(Int)
<1> DEFINE t == ReplaceAll(s, NULL, <<0>>)
           empty == <<0>>
           w == WriteArray(t, "str")
<1>1. Len(s) \in Nat /\ DOMAIN s = 1..Len(s) /\ \A i \in 1..Len(s) : s[i] \in Texts
  BY LenProperties, ElementOfSeq
<1>2. empty \in Texts
  BY DEF Texts
<1>3. t = [i \in 1..Len(s) |-> IF s[i] = NULL THEN empty ELSE s[i]]
  BY <1>1 DEF ReplaceAll
<1> HIDE DEF empty, t
<1>4. t \in [1..Len(s) -> Texts]
  BY <1>1, <1>2, <1>3
<1>5. t \in Seq(Texts)
  BY <1>1, <1>4, SeqDef
<1>6. w \in Seq(Int)
  <2>1. "str" \in Kinds /\ Values("str") = Texts
    BY DEF Kinds, Values
  <2>2. \A x \in Texts : Write("str", x) \in Seq(Int)
    BY <2>1, ValueWritten
  <2> QED
    BY <1>5, <2>1, <2>2, ArrayWritten
<1>7. Copy(s) = <<6>> \o w
  BY DEF Copy, t
<1> HIDE DEF w
<1> QED
  BY <1>6, <1>7, ConcatProperties

\* The strings of a data call, copied for a newer RIL, of a parcel that was cut.
LEMMA DataCallCut ==
    ASSUME NEW p, NEW q, Along(p, q), Fine(p), p.ok = TRUE, p.cut # TRUE, NEW v
    PROVE  CutHonest(dispatchDataCall(p, v), dispatchDataCall(q, v))
<1> DEFINE c == readInt32(p, "count")          d == readInt32(q, "count")
           n == c.args["count"]                m == d.args["count"]
           x == ReadArray(c, "strings", 6, "str")  y == ReadArray(d, "strings", 6, "str")
           s == x.args["strings"]              t == y.args["strings"]
           a == [Parcel(Copy(s)) EXCEPT !.cut = x.cut]
           b == [Parcel(Copy(t)) EXCEPT !.cut = y.cut]
           out == dispatchDataCall(p, v)       whole == dispatchDataCall(q, v)
<1>1. /\ out = IF v < 4 /\ c.ok /\ n > 6 THEN dispatchStrings(a) ELSE dispatchStrings(p)
      /\ whole = IF v < 4 /\ d.ok /\ m > 6 THEN dispatchStrings(b) ELSE dispatchStrings(q)
  BY Zenon DEF dispatchDataCall, Copy
<1>2. Handed(out)
  BY DataCallHanded
<1>3. CutHonest(dispatchStrings(p), dispatchStrings(q))
  BY StringsCut
<1>4. ~c.ok => dispatchStrings(p) = invalidCommandBlock(c)
  BY Zenon DEF dispatchStrings
<1>5. c.cut = p.cut
  <2>1. IsParcel(p)
    BY DEF Fine, Sound
  <2>2. \E pos, ok, u : c = At(p, pos, ok, Put(p.args, "count", u), p.cut)
    BY <2>1, IntIs, Zenon
  <2> HIDE DEF c
  <2> QED
    BY <2>2, Fields
<1>6. Along(c, d) /\ "count" \in DOMAIN c.args
  BY IntAlong DEF From
<1>7. "count" \notin Missable
  BY DEF Missable
<1> SUFFICES CutHonest(out, whole)
  OBVIOUS
<1> HIDE DEF out, whole, c, d
<1>8. c.ok = TRUE \/ c.ok = FALSE
  BY <1>6, AlongOk
<1>9. CASE c.ok = FALSE
  BY <1>1, <1>4, <1>9 DEF CutHonest, invalidCommandBlock
<1>10. CASE c.ok = TRUE
  <2>1. ~Lost(c) /\ Sound(c) /\ Sound(d)
    BY <1>5, <1>6, <1>10, AlongOk DEF Lost
  <2>2. d.ok = TRUE /\ n = m
    BY <1>6, <1>7, <2>1, KnownSame
  <2> HIDE DEF n, m
  <2>3. CASE ~(v < 4 /\ n > 6)
    BY <1>1, <1>3, <2>2, <2>3
  <2>4. CASE v < 4 /\ n > 6
    <3>1. out = dispatchStrings(a) /\ whole = dispatchStrings(b)
      BY <1>1, <1>10, <2>2, <2>4
    <3>2. Took(c, x, "strings", Seq(Texts)) /\ x.ok = TRUE
      <4>1. "str" \in Kinds /\ Values("str") = Texts
        BY DEF Kinds, Values
      <4>2. Took(c, x, "strings", Seq(Values("str"))) /\ ("str" = "str" => x.ok = c.ok)
        BY <2>1, <4>1, ArrayTook
      <4> QED
        BY <1>10, <4>1, <4>2
    <3>3. Took(d, y, "strings", Seq(Texts)) /\ y.ok = TRUE
      <4>1. "str" \in Kinds /\ Values("str") = Texts
        BY DEF Kinds, Values
      <4>2. Took(d, y, "strings", Seq(Values("str"))) /\ ("str" = "str" => y.ok = d.ok)
        BY <2>1, <4>1, ArrayTook
      <4> QED
        BY <2>2, <4>1, <4>2
    <3>4. s \in Seq(Texts) /\ x.cut \in BOOLEAN
      BY <3>2 DEF Took, Put, Sound
    <3>5. t \in Seq(Texts) /\ y.cut \in BOOLEAN
      BY <3>3 DEF Took, Put, Sound
    <3>6. Lost(x) \/ \E u, w : /\ x.args = Put(c.args, "strings", u) /\ y.args = Put(d.args, "strings", w)
                               /\ SomeTexts(u, w, Times(6))
      <4>1. Follows(c, d, Missable)
        BY <1>6 DEF Along
      <4>2. BothTexts(c, d, x, y, "strings", Times(6))
        BY <4>1, TextsFollow
      <4> HIDE DEF x, y
      <4> QED
        BY <4>2 DEF BothTexts
    <3> HIDE DEF x, y
    <3>7. CASE x.cut = TRUE
      <4>1. Copy(s) \in Seq(Int)
        BY <3>4, CopyWritten
      <4>2. Fine(a) /\ a.cut = x.cut
        BY <3>4, <4>1, CutParcel
      <4> HIDE DEF a, b
      <4>3. Lost(dispatchStrings(a).p)
        BY <3>7, <4>2, StringsLost DEF Fine, Lost
      <4> QED
        BY <1>2, <3>1, <4>3, LostIsCut
    <3>8. CASE x.cut = FALSE
      <4>1. ~Lost(x)
        BY <3>2, <3>8 DEF Lost
      <4>2. PICK u, w : /\ x.args = Put(c.args, "strings", u) /\ y.args = Put(d.args, "strings", w)
                        /\ SomeTexts(u, w, Times(6))
        BY <3>6, <4>1
      <4>3. s = u /\ t = w /\ Times(6) = 6
        BY <4>2 DEF Put, Times
      <4>4. Len(s) = 6 /\ Len(t) = 6 /\ \A i \in 1..6 : s[i] \in {NULL, t[i]}
        BY <4>2, <4>3 DEF SomeTexts
      <4> HIDE DEF s, t
      <4> DEFINE fs == [i \in 1..6 |-> IF s[i] = NULL THEN <<0>> ELSE s[i]]
                 ft == [i \in 1..6 |-> IF t[i] = NULL THEN <<0>> ELSE t[i]]
                 A == Put(Put(<<>>, "count", 6), "strings", fs)
                 B == Put(Put(<<>>, "count", 6), "strings", ft)
      <4>5. out.p.args = A
        BY <3>1, <3>4, <4>4, CopyFound
      <4>6. whole.valid = TRUE /\ whole.p.args = B
        BY <3>1, <3>5, <4>4, CopyFound
      <4>7. AsWhole(A, B)
        <5>1. DOMAIN A = {"count", "strings"} /\ A["count"] = 6 /\ A["strings"] = fs
          BY DEF Put
        <5>2. B["count"] = 6 /\ B["strings"] = ft
          BY DEF Put
        <5>3. DOMAIN fs = 1..6 /\ \A i \in 1..6 : fs[i] \in {NULL, <<0>>, ft[i]}
          BY <4>4
        <5> HIDE DEF A, B, ft
        <5>4. A["strings"] # NULL => \A i \in DOMAIN fs : fs[i] \in {NULL, <<0>>, ft[i]}
          BY <5>3
        <5>5. A["strings"] = NULL => A["strings"] \in {NULL, B["strings"]}
          OBVIOUS
        <5> HIDE DEF fs
        <5> QED
          BY <5>1, <5>2, <5>4, <5>5 DEF AsWhole
      <4> QED
        BY <4>5, <4>6, <4>7 DEF CutHonest
    <3> QED
      BY <3>4, <3>7, <3>8
  <2> QED
    BY <2>3, <2>4
<1> QED
  BY <1>8, <1>9, <1>10

=============================================================================
