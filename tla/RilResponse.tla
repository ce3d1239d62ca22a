----------------------------- MODULE RilResponse -----------------------------
(***************************************************************************)
(* The response functions of libs/libril/ril.cpp: what each writes of the  *)
(* vendor RIL's data, and which data it refuses; and what the framework's  *)
(* StuttgartRIL.java reads of two of the replies.                          *)
(*                                                                         *)
(* The vendor's response is [data, size]: data is NULL, a structure or a   *)
(* sequence, size says whether responselen fits it: "ok", "bad", or the    *)
(* version of the structure it is the size of.  A response function maps   *)
(* it to [ret, words]: also a function that fails may have written some.   *)
(***************************************************************************)
EXTENDS RilParcel

CONSTANTS
    \* RIL_CDMA_MAX_NUMBER_OF_INFO_RECS, CDMA_ALPHA_INFO_BUFFER_LENGTH and
    \* CDMA_NUMBER_INFO_BUFFER_LENGTH
    InfoRecsMax, AlphaMax, NumberMax

ASSUME ResponseAssumption ==
    {InfoRecsMax, AlphaMax, NumberMax} \subseteq Nat

OK == "0"
Done(words)    == [ret |-> OK, words |-> words]
Refused(words) == [ret |-> "RIL_ERRNO_INVALID_RESPONSE", words |-> words]
DoneIf(test, words) == IF test THEN Done(words) ELSE Refused(<<>>)

\* A list: no elements where there is no data.
Elements(r) == IF r.data = NULL THEN <<>> ELSE r.data
FitsList(r) == r.size # "bad"
\* A structure must be there.
FitsStruct(r) == r.data # NULL /\ r.size # "bad"

CountedRows(r, layout) ==
    IF FitsList(r) THEN Done(<<Len(Elements(r))>> \o WriteRows(Elements(r), layout))
    ELSE Refused(<<>>)

\* One structure.
Struct(r, layout) ==
    IF FitsStruct(r) THEN Done(WriteStruct(r.data, layout)) ELSE Refused(<<>>)

responseVoid(r) == Done(<<>>)

responseInts(r) == DoneIf(FitsList(r), <<Len(Elements(r))>> \o Elements(r))

\* NETWORK_MODE_GLOBAL becomes NETWORK_MODE_WCDMA_PREF.
responseIntsGetPreferredNetworkType(r) ==
    LET s == Elements(r) IN
    responseInts([r EXCEPT !.data = IF s # <<>> /\ s[1] = 7 THEN [s EXCEPT ![1] = 0] ELSE s])

responseStrings(r) ==
    DoneIf(FitsList(r), <<Len(Elements(r))>> \o WriteArray(Elements(r), "str"))

responseStringsWithVersion(r, version) ==
    LET s == responseStrings(r) IN [s EXCEPT !.words = <<version>> \o @]

\* Fault: the fourth string is dropped, not the fifth.
NetworksDropFourth(r) ==
    LET s == Elements(r) IN
    DoneIf(FitsList(r), <<(Len(s) \div 5) * 4>> \o
        WriteArray([i \in 1..((Len(s) \div 5) * 4) |->
                       s[((i - 1) \div 4) * 5 + (<<1, 2, 3, 5>>)[((i - 1) % 4) + 1]]], "str"))

\* The modem sends five strings for a network, the framework expects four: each
\* fifth is dropped as it is met.
responseStringsNetworks(r) ==
    LET s == Elements(r)
        next(a, str) == IF a.j = 4 THEN [a EXCEPT !.j = 0]
                        ELSE [j |-> a.j + 1, out |-> Append(a.out, str)]
        kept[i \in 0..Len(s)] ==
            IF i = 0 THEN [j |-> 0, out |-> <<>>] ELSE next(kept[i - 1], s[i])
    IN  DoneIf(FitsList(r), <<(Len(s) \div 5) * 4>> \o WriteArray(kept[Len(s)].out, "str"))

responseString(r) == Done(writeStringToParcel(r.data))

CallLayout ==
    Ints(<<"state", "index", "toa", "isMpty", "isMT", "als", "isVoice", "isVoicePrivacy">>)
    \o Str("number") \o Ints(<<"numberPresentation">>)
    \o Str("name") \o Ints(<<"namePresentation">>)

\* Fault: the length of the user-to-user data is left out.
UusWithoutLength(uus, version) ==
    IF version < 3 \/ uus = NULL THEN <<0>>
    ELSE IF uus["uusData"] = NULL THEN <<0>>
    ELSE <<1, uus["uusType"], uus["uusDcs"]>> \o uus["uusData"]

WriteUus(uus, version) ==
    IF version < 3 \/ uus = NULL THEN <<0>>
    ELSE IF uus["uusData"] = NULL THEN <<0>>
    ELSE <<1, uus["uusType"], uus["uusDcs"], Len(uus["uusData"])>> \o uus["uusData"]

responseCallList(r, version) ==
    LET calls == Elements(r) IN
    DoneIf(FitsList(r), <<Len(calls)>> \o FlattenSeq([i \in DOMAIN calls |->
               WriteStruct(calls[i], CallLayout) \o WriteUus(calls[i]["uusInfo"], version)]))

responseSMS(r) == Struct(r, Ints(<<"messageRef">>) \o Str("ackPDU") \o Ints(<<"errorCode">>))

\* The APN of version 4 is not sent.
responseDataCallListV4(r) ==
    CountedRows(r, Ints(<<"cid", "active">>) \o Str("type") \o Str("address"))

\* The version is written before anything is checked.
responseDataCallList(r, version) ==
    LET list == IF version < 5 THEN responseDataCallListV4(r) ELSE
                CountedRows(r, Ints(<<"status", "suggestedRetryTime", "cid", "active">>)
                               \o Str("type") \o Str("ifname") \o Str("addresses")
                               \o Str("dnses") \o Str("gateways"))
    IN  [list EXCEPT !.words = <<version>> \o @]

responseSetupDataCall(r, version) ==
    IF version < 5 THEN responseStringsWithVersion(r, version)
    ELSE responseDataCallList(r, version)

responseRaw(r) ==
    DoneIf(FitsList(r), IF r.data = NULL THEN <<-1>> ELSE <<Len(r.data)>> \o r.data)

responseSIM_IO(r) == Struct(r, Ints(<<"sw1", "sw2">>) \o Str("simResponse"))

responseCallForwards(r) ==
    CountedRows(r, Ints(<<"status", "reason", "serviceClass", "toa">>)
                   \o Str("number") \o Ints(<<"timeSeconds">>))

responseSsn(r) ==
    Struct(r, Ints(<<"notificationType", "code", "index", "type">>) \o Str("number"))

responseCellList(r) == CountedRows(r, Ints(<<"rssi">>) \o Str("cid"))

SignalInfoLayout == Ints(<<"isPresent", "signalType", "alertPitch", "signal">>)

\* What follows a record's name: its text, if it has one, must fit its buffer.
\* RIL_CDMA_T53_RELEASE_INFO_REC is refused, as a name that is not known is.
NumberLayout == Str("text") \o Ints(<<"number_type", "number_plan", "pi", "si">>)
InfoRecLayout(name) ==
    CASE name = "display"  -> Str("text")
      [] name = "number"   -> NumberLayout
      [] name = "signal"   -> SignalInfoLayout
      [] name = "redirecting" -> NumberLayout \o Ints(<<"redirectingReason">>)
      [] name = "lineControl" -> Ints(<<"lineCtrlPolarityIncluded", "lineCtrlToggle",
                                        "lineCtrlReverse", "lineCtrlPowerDenial">>)
      [] name = "clir"     -> Ints(<<"cause">>)
      [] name = "audio"    -> Ints(<<"upLink", "downLink">>)
      [] OTHER -> <<>>

InfoRecFits(rec) ==
    /\ InfoRecLayout(rec["name"]) # <<>>
    /\ "text" \in DOMAIN rec =>
           Len(rec["text"]) <= IF rec["name"] = "display" THEN AlphaMax ELSE NumberMax

\* Records are written until one does not fit.
responseCdmaInformationRecords(r) ==
    LET recs == SubSeq(r.data, 1, IF Len(r.data) < InfoRecsMax THEN Len(r.data) ELSE InfoRecsMax)
        one(rec) == <<rec["name"]>> \o WriteStruct(rec, InfoRecLayout(rec["name"]))
        next(a, rec) ==
            IF a.ret # OK THEN a
            ELSE IF InfoRecFits(rec) THEN Done(a.words \o one(rec))
            ELSE Refused(a.words \o <<rec["name"]>>)
    IN  IF ~FitsStruct(r) THEN Refused(<<>>) ELSE FoldLeft(next, Done(<<Len(recs)>>), recs)

\* Fault: the level is not cut to its low byte.
UnmaskedLevel(raw) ==
    IF raw > 31 /\ raw # 99 THEN 31 ELSE raw

\* & 0xFF leaves nothing below 0, so the branch for that is dead.
Level(raw) ==
    LET low == raw % 256 IN IF low > 31 /\ low # 99 THEN 31 ELSE low

\* Versions 5 and 6 of the structure; a negative rsrp of an older vendor RIL has
\* its sign changed.
responseRilSignalStrength(r, version) ==
    LET d == r.data
        levels == [d EXCEPT !["gsmSignalStrength"] = Level(@), !["cdmaDbm"] = Level(@),
                            !["evdoDbm"] = Level(@),
                            !["rsrp"] = IF version <= 6 /\ @ < 0 THEN -@ ELSE @]
        old == Ints(<<"gsmSignalStrength", "bitErrorRate", "cdmaDbm", "cdmaEcio", "evdoDbm",
                      "evdoEcio", "evdoSnr">>)
        lte == Ints(<<"lteSignalStrength", "rsrp", "rsrq", "rssnr", "cqi">>)
    IN  IF r.data = NULL \/ r.size \notin {"v5", "v6"} THEN Refused(<<>>)
        ELSE Done(WriteStruct(levels, IF r.size = "v6" THEN old \o lte ELSE old))

responseCdmaSignalInfoRecord(r) == Struct(r, SignalInfoLayout)

responseCallRing(r) == IF r.data = NULL THEN responseVoid(r) ELSE responseCdmaSignalInfoRecord(r)

\* Before version 6 there is no number type and plan.
responseCdmaCallWaiting(r) ==
    Done(WriteStruct(r.data, Str("number") \o Ints(<<"numberPresentation">>) \o Str("name")
                             \o SignalInfoLayout)
         \o IF r.size = "v6" THEN WriteStruct(r.data, Ints(<<"number_type", "number_plan">>))
            ELSE <<0, 0>>)

\* Version 7 has an application identifier.
responseSimRefresh(r, version) ==
    Done(WriteStruct(IF version = 7 THEN r.data ELSE ("aid" :> NULL) @@ r.data,
                     Ints(<<"result", "ef_id">>) \o Str("aid")))

AppLayout ==
    Ints(<<"app_type", "app_state", "perso_substate">>) \o Str("aid") \o Str("app_label")
    \o Ints(<<"pin1_replaced", "pin1", "pin2">>)

\* Version 5 has no IMS application, whose index is then -1.
responseSimStatus(r) ==
    LET head(d) == WriteStruct(d, Ints(<<"card_state", "universal_pin_state", "gsm_umts_index",
                                         "cdma_index", "ims_index">>))
        apps(d) == <<Len(d["applications"])>> \o WriteRows(d["applications"], AppLayout)
    IN  IF r.data = NULL THEN Refused(<<>>)
        ELSE CASE r.size = "v6" -> Done(head(r.data) \o apps(r.data))
               [] r.size = "v5" -> Done(head(("ims_index" :> -1) @@ r.data) \o apps(r.data))
               [] OTHER -> Refused(<<>>)

\* Neither checks anything.
responseGsmBrSmsCnf(r) ==
    CountedRows([r EXCEPT !.size = "ok"],
        Ints(<<"fromServiceId", "toServiceId", "fromCodeScheme", "toCodeScheme", "selected">>))

responseCdmaBrSmsCnf(r) ==
    CountedRows([r EXCEPT !.size = "ok"], Ints(<<"service_category", "language", "selected">>))

\* The counts are written as they are, the digits as far as there are any.
responseCdmaSms(r) ==
    LET d == r.data
        some(f, count, max) ==
            WriteArray(SubSeq(d[f], 1, IF d[count] < max THEN d[count] ELSE max), "byte")
    IN  IF ~FitsStruct(r) THEN Refused(<<>>)
        ELSE Done(WriteStruct(d, Ints(<<"uTeleserviceID">>) \o Bytes(<<"bIsServicePresent">>)
                      \o Ints(<<"uServicecategory", "digit_mode", "number_mode", "number_type",
                                "number_plan">>) \o Bytes(<<"number_of_digits">>))
                  \o some("digits", "number_of_digits", AddressMax)
                  \o WriteStruct(d, Ints(<<"subaddressType">>) \o Bytes(<<"odd", "sub_digits">>))
                  \o some("subdigits", "sub_digits", SubaddressMax)
                  \o WriteStruct(d, Ints(<<"uBearerDataLen">>))
                  \o some("aBearerData", "uBearerDataLen", BearerMax))

-----------------------------------------------------------------------------
(* StuttgartRIL.java.  Java's readInt gives 0 and readString null where    *)
(* there is nothing left.                                                  *)

JavaCall ==
    Ints(<<"state", "index", "toa", "isMpty", "isMT", "als", "isVoice", "isVoicePrivacy">>)
    \o Str("number") \o Ints(<<"numberPresentation">>)
    \o Str("name") \o Ints(<<"namePresentation">>)

ReadJavaUus(p) ==
    LET present == readInt32(p, "present")
        uus == ReadStruct([present EXCEPT !.args = <<>>], Ints(<<"uusType", "uusDcs", "len">>))
        all == readInplace(uus, "uusData", uus.args["len"])
    IN  IF present.args["present"] # 1 THEN Store(present, "uusInfo", NULL)
        ELSE Store(all, "uusInfo", [f \in {"uusType", "uusDcs", "uusData"} |-> all.args[f]])

\* One call: its fields, and the user-to-user information behind them.
ReadJavaCall(p) ==
    LET call == ReadStruct(p, JavaCall)
        uus  == ReadJavaUus(call)
    IN  Store([uus EXCEPT !.args = call.args], "uusInfo", uus.args["uusInfo"])

JavaCallList(words) ==
    LET n == readInt32(Parcel(words), "num") IN
    Repeat(n, "calls", n.args["num"], ReadJavaCall)

\* An old RIL's seven numbers; the five for LTE are never read.
JavaSignalStrength(words) ==
    LET r == ReadArray(Parcel(words), "response", 7, "int")
    IN  r.args["response"] \o [i \in 1..5 |-> -1]

=============================================================================
