------------------------------ MODULE RilParcel ------------------------------
(***************************************************************************)
(* Parcels as libs/libril/ril.cpp uses them: a sequence of 32-bit words,   *)
(* read from a position that a failed read leaves where it is.  A byte     *)
(* takes a word.  A string is NULL or the words of its characters, the     *)
(* first of them 0 when it is empty, after its length; lengths are counted *)
(* in words.                                                               *)
(*                                                                         *)
(* A structure is a function from its fields' names to their values, a     *)
(* layout a sequence of <<name, kind>>.                                    *)
(***************************************************************************)
EXTENDS Integers, SequencesExt

CONSTANTS
    NULL,
    Unread,     \* what a variable holds whose read failed: never a number
    \* RIL_CDMA_SMS_ADDRESS_MAX, _SUBADDRESS_MAX and _BEARER_DATA_MAX of ril.h
    AddressMax, SubaddressMax, BearerMax

Texts == Seq(Int) \cup {NULL}     \* what a string may be

\* NULL is nothing that is there, and Unread nothing that is read.
ASSUME ParcelAssumption ==
    /\ {AddressMax, SubaddressMax, BearerMax} \subseteq Nat
    /\ NULL \notin Int \cup Seq(Int) \cup Seq(Texts)
    /\ Unread \notin Int \cup Texts \cup Seq(Texts)

Ints(names)  == [i \in DOMAIN names |-> <<names[i], "int">>]
Bytes(names) == [i \in DOMAIN names |-> <<names[i], "byte">>]
Str(name)    == <<<<name, "str">>>>

\* The fields of a structure; the values that are read as they were written.
Names(layout) == {layout[i][1] : i \in 1..Len(layout)}
Exact(kind)   == IF kind = "str" THEN Texts ELSE IF kind = "byte" THEN 0..255 ELSE Int

HasFields(d, layout) ==
    \A i \in 1..Len(layout) :
        layout[i][1] \in DOMAIN d /\ d[layout[i][1]] \in Exact(layout[i][2])
IsStruct(d, layout)  == d = [f \in Names(layout) |-> d[f]] /\ HasFields(d, layout)
IsStructs(s, layout) == s \in Seq(Range(s)) /\ \A i \in DOMAIN s : IsStruct(s[i], layout)

-----------------------------------------------------------------------------
(* Reading.  args holds what was read, cut says whether a string had a     *)
(* length but too few characters.                                          *)

Parcel(words) == [words |-> words, pos |-> 0, ok |-> TRUE, args |-> <<>>, cut |-> FALSE]

dataAvail(p) == Len(p.words) - p.pos

Put(args, f, v) == [x \in DOMAIN args \cup {f} |-> IF x = f THEN v ELSE args[x]]

Store(p, f, v) == [p EXCEPT !.args = Put(@, f, v)]

\* p.readInt32(&t), p.read(&ut, sizeof(ut))
readInt32(p, f) ==
    IF dataAvail(p) > 0
    THEN Store([p EXCEPT !.pos = @ + 1, !.ok = TRUE], f, p.words[p.pos + 1])
    ELSE Store([p EXCEPT !.ok = FALSE], f, Unread)

readByte(p, f) ==
    LET q == readInt32(p, f) IN IF q.ok THEN Store(q, f, q.args[f] % 256) ELSE q

\* p.readInplace(len): NULL when there is less.
readInplace(p, f, len) ==
    IF len \in 0..dataAvail(p)
    THEN Store([p EXCEPT !.pos = @ + len], f, SubSeq(p.words, p.pos + 1, p.pos + len))
    ELSE Store(p, f, NULL)

\* Its status is dropped: a string that is not there is NULL.
strdupReadString(p, f) ==
    LET string(q, len) ==
            IF len = Unread \/ len < 0 THEN Store(q, f, NULL)
            ELSE [readInplace(q, f, len) EXCEPT !.cut = @ \/ len > dataAvail(q)]
        at(q) == string([q EXCEPT !.ok = p.ok], q.args[f])
    IN  at(readInt32(p, f))

Read(p, field) ==
    CASE field[2] = "int"  -> readInt32(p, field[1])
      [] field[2] = "byte" -> readByte(p, field[1])
      [] field[2] = "str"  -> strdupReadString(p, field[1])

ReadStruct(p, layout) ==
    LET read[i \in 0..Len(layout)] ==
            IF i = 0 THEN p ELSE Read(read[i - 1], layout[i])
    IN  read[Len(layout)]

\* None when n is negative or was not read.  The code would allocate an array of
\* that negative length first, which is undefined and not modelled: the framework's
\* counts are lengths, and its -1 for no array is looked for by who expects it.
Times(n) == IF n \in Nat THEN n ELSE 0

\* n structures in a row, or n values of one kind.
Repeat(p, f, n, one(_)) ==
    LET next(q) == LET r == one([q EXCEPT !.args = <<>>])
                   IN  Store([r EXCEPT !.args = q.args], f, Append(q.args[f], r.args))
        done[i \in 0..Times(n)] == IF i = 0 THEN Store(p, f, <<>>) ELSE next(done[i - 1])
    IN  done[Times(n)]
ReadRows(p, f, n, layout) == Repeat(p, f, n, LAMBDA q : ReadStruct(q, layout))
ReadArray(p, f, n, kind) ==
    LET r == Repeat(p, f, n, LAMBDA q : Read(q, <<"v", kind>>))
    IN  Store(r, f, [i \in DOMAIN r.args[f] |-> r.args[f][i]["v"]])

-----------------------------------------------------------------------------
(* Writing                                                                 *)

writeStringToParcel(s) == IF s = NULL THEN <<-1>> ELSE <<Len(s)>> \o s

Write(kind, v) ==
    CASE kind = "int" -> <<v>> [] kind = "byte" -> <<v % 256>>
      [] kind = "str" -> writeStringToParcel(v)

WriteStruct(d, layout) ==
    FlattenSeq([i \in DOMAIN layout |-> Write(layout[i][2], d[layout[i][1]])])
WriteArray(s, kind) == FlattenSeq([i \in DOMAIN s |-> Write(kind, s[i])])
WriteRows(s, layout) == FlattenSeq([i \in DOMAIN s |-> WriteStruct(s[i], layout)])

=============================================================================
