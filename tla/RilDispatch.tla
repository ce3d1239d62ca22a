----------------------------- MODULE RilDispatch -----------------------------
(***************************************************************************)
(* The dispatch functions of libs/libril/ril.cpp: what each reads from a   *)
(* request's parcel, which status it checks, and what it hands to the      *)
(* vendor RIL's onRequest.                                                 *)
(*                                                                         *)
(* A dispatch function maps the parcel to [valid, p]: whether onRequest is *)
(* called, with p.args, or invalidCommandBlock.                            *)
(***************************************************************************)
EXTENDS RilParcel

onRequest(p)           == [valid |-> TRUE, p |-> p]
invalidCommandBlock(p) == [valid |-> FALSE, p |-> p]
OnRequestIf(test, p)   == IF test THEN onRequest(p) ELSE invalidCommandBlock(p)

Limit(n, max) == IF n = Unread THEN n ELSE IF n < max THEN n ELSE max

dispatchVoid(p) == onRequest(p)

dispatchString(p) == onRequest(strdupReadString(p, "string"))

\* No string is checked.  -1 is a null array, 0 a non-null pointer.
dispatchStrings(p) ==
    LET c == readInt32(p, "count") n == c.args["count"] IN
    IF ~c.ok THEN invalidCommandBlock(c)
    ELSE IF n = -1 THEN onRequest(Store(c, "strings", NULL))
    ELSE onRequest(ReadArray(c, "strings", n, "str"))

\* Fault: the status of the integers is not looked at.
dispatchIntsUnchecked(p) ==
    LET c == readInt32(p, "count") IN
    IF ~c.ok \/ c.args["count"] = 0 THEN invalidCommandBlock(c)
    ELSE onRequest(ReadArray(c, "ints", c.args["count"], "int"))

dispatchInts(p) ==
    LET c == readInt32(p, "count")
        r == ReadArray(c, "ints", c.args["count"], "int")
    IN  IF ~c.ok \/ c.args["count"] = 0 THEN invalidCommandBlock(c)
        ELSE OnRequestIf(r.ok, r)

dispatchSmsWrite(p) ==
    LET s == readInt32(p, "status")
        r == strdupReadString(s, "pdu")
    IN  IF ~s.ok \/ r.args["pdu"] = NULL THEN invalidCommandBlock(r)
        ELSE onRequest(strdupReadString(r, "smsc"))

\* Older vendor RILs are not told of user-to-user signalling.
dispatchDial(p, version) ==
    LET dial    == readInt32(strdupReadString(p, "address"), "clir")
        present == readInt32(dial, "uusPresent")
        uus     == ReadStruct(present, Ints(<<"uusType", "uusDcs", "len">>))
        len     == uus.args["len"]
        all     == IF len = -1 THEN Store(Store(uus, "len", 0), "uusData", NULL)
                   ELSE readInplace(uus, "uusData", len)
    IN  IF ~dial.ok \/ dial.args["address"] = NULL THEN invalidCommandBlock(dial)
        ELSE IF version < 3 THEN onRequest(dial)
        ELSE IF ~present.ok THEN invalidCommandBlock(present)
        ELSE IF present.args["uusPresent"] = 0 THEN onRequest(present)
        ELSE OnRequestIf(uus.ok, all)

\* The status of p3 stands for all: the numbers before it failed if it did.
dispatchSIM_IO(p, version) ==
    LET io == ReadStruct(p, Ints(<<"command", "fileid">>) \o Str("path")
                            \o Ints(<<"p1", "p2", "p3">>))
        all == ReadStruct(io, Str("data") \o Str("pin2") \o Str("aidPtr"))
    IN  OnRequestIf(io.ok, IF version < 6 THEN Store(all, "aidPtr", NULL) ELSE all)

\* Fault: the status is looked at before the last number is read.
CallForwardCheckedEarly(p) ==
    LET four == ReadStruct(p, Ints(<<"status", "reason", "serviceClass", "toa">>))
        cff  == ReadStruct(four, Str("number") \o Ints(<<"timeSeconds">>))
    IN  OnRequestIf(four.ok, cff)

\* An empty number becomes NULL.
dispatchCallForward(p) ==
    LET cff == ReadStruct(p, Ints(<<"status", "reason", "serviceClass", "toa">>)
                             \o Str("number") \o Ints(<<"timeSeconds">>))
    IN  OnRequestIf(cff.ok, IF cff.args["number"] = <<0>> THEN Store(cff, "number", NULL)
                            ELSE cff)

\* Also data for a null array, whose length is -1, comes from readInplace.
dispatchRaw(p) ==
    LET r == readInt32(p, "len")
        len == IF r.args["len"] = -1 THEN 0 ELSE r.args["len"]
    IN  IF ~r.ok THEN invalidCommandBlock(r)
        ELSE onRequest(readInplace(Store(r, "len", len), "data", len))

CdmaHead ==
    Ints(<<"uTeleserviceID">>) \o Bytes(<<"bIsServicePresent">>)
    \o Ints(<<"uServicecategory", "digit_mode", "number_mode", "number_type", "number_plan">>)
    \o Bytes(<<"number_of_digits">>)
CdmaSubaddress == Ints(<<"subaddressType">>) \o Bytes(<<"odd", "sub_digits">>)

\* As many bytes as were announced and fit.
ReadCounted(p, f, count, max) == ReadArray(p, f, Limit(p.args[count], max), "byte")

\* Fault: an address may fill its array and one digit more.
ReadCdmaSmsOffByOne(p) ==
    LET digits(q) == ReadCounted(q, "digits", "number_of_digits", AddressMax + 1)
        subs(q)   == ReadCounted(q, "subdigits", "sub_digits", SubaddressMax)
        bearer(q) == ReadCounted(q, "aBearerData", "uBearerDataLen", BearerMax)
    IN  bearer(readInt32(subs(ReadStruct(digits(ReadStruct(p, CdmaHead)), CdmaSubaddress)),
                         "uBearerDataLen"))

\* The message of dispatchCdmaSms.
ReadCdmaSms(p) ==
    LET digits(q) == ReadCounted(q, "digits", "number_of_digits", AddressMax)
        subs(q)   == ReadCounted(q, "subdigits", "sub_digits", SubaddressMax)
        bearer(q) == ReadCounted(q, "aBearerData", "uBearerDataLen", BearerMax)
    IN  bearer(readInt32(subs(ReadStruct(digits(ReadStruct(p, CdmaHead)), CdmaSubaddress)),
                         "uBearerDataLen"))

dispatchCdmaSms(p) == LET r == ReadCdmaSms(p) IN OnRequestIf(r.ok, r)

dispatchCdmaSmsAck(p) ==
    LET r == ReadStruct(p, Ints(<<"uErrorClass", "uSMSCauseCode">>)) IN OnRequestIf(r.ok, r)

\* The structures of the broadcast configurations, and lists of them.
GsmBrLayout ==
    Ints(<<"fromServiceId", "toServiceId", "fromCodeScheme", "toCodeScheme">>)
    \o Bytes(<<"selected">>)
CdmaBrLayout == Ints(<<"service_category", "language">>) \o Bytes(<<"selected">>)

Rows(layout) == Seq([Names(layout) -> Int])

\* A list that was read is none that was not.
ASSUME DispatchAssumption == Unread \notin Rows(GsmBrLayout) \cup Rows(CdmaBrLayout)

\* n structures; the status is that of the last word read.
DispatchRows(p, layout) ==
    LET n == readInt32(p, "num")
        r == ReadRows(n, "rows", n.args["num"], layout)
    IN  IF ~n.ok THEN invalidCommandBlock(n) ELSE OnRequestIf(r.ok, r)

dispatchGsmBrSmsCnf(p)  == DispatchRows(p, GsmBrLayout)
dispatchCdmaBrSmsCnf(p) == DispatchRows(p, CdmaBrLayout)

\* Unlike dispatchCdmaSms, it reads every array to its end.
dispatchRilCdmaSmsWriteArgs(p) ==
    LET digits(q) == ReadArray(q, "digits", AddressMax, "byte")
        subs(q)   == ReadArray(q, "subdigits", SubaddressMax, "byte")
        r == ReadArray(readInt32(subs(ReadStruct(digits(ReadStruct(p,
                 Ints(<<"status">>) \o CdmaHead)), CdmaSubaddress)), "uBearerDataLen"),
                 "aBearerData", BearerMax, "byte")
    IN  OnRequestIf(r.ok, r)

\* A vendor RIL before version 4 gets six of the strings, in a parcel of their
\* own, to which readString16 copies a NULL as an empty string; cut as the first was.
dispatchDataCall(p, version) ==
    LET c    == readInt32(p, "count")
        six  == ReadArray(c, "strings", 6, "str")
        copy == <<6>> \o WriteArray(ReplaceAll(six.args["strings"], NULL, <<0>>), "str")
    IN  IF version < 4 /\ c.ok /\ c.args["count"] > 6
        THEN dispatchStrings([Parcel(copy) EXCEPT !.cut = six.cut])
        ELSE dispatchStrings(p)

=============================================================================
