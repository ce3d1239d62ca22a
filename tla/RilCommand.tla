----------------------------- MODULE RilCommand -----------------------------
(***************************************************************************)
(* A request of the framework through libs/libril/ril.cpp, as data: its    *)
(* parcel is taken apart by the command's dispatch function, the vendor    *)
(* RIL's answer is put into a reply by its response function.  RilRequests *)
(* has the same life cycle with its threads and locks and without data.    *)
(*                                                                         *)
(* Parcels may be cut short anywhere, which the dispatch functions look    *)
(* for; the vendor RIL keeps to ril.h but for sizes and counts, which the  *)
(* response functions look at.                                             *)
(***************************************************************************)
EXTENDS RilDispatch, RilResponse

CONSTANTS
    Versions,       \* s_callbacks.version
    Payloads,       \* dispatch function -> parcels the framework sends
    Responses       \* response function -> what a vendor RIL answers or announces

VARIABLES
    version, radio,     \* of the vendor RIL: its version, what onStateRequest returns
    command,            \* an entry of s_commands, or NULL
    sent, received,     \* the parcel, and what arrived of it
    handed,             \* what the dispatch function did, or NULL
    pending,            \* the request is in s_pendingRequests
    calls,              \* how often the vendor completed it
    given,              \* the response or data of the vendor RIL, or NULL
    replies             \* what is sent to the framework

vars == <<version, radio, command, sent, received, handed, pending, calls, given, replies>>

Entry(d, r) == [dispatch |-> d, response |-> r]

\* s_commands, with one entry for all commands that have the same functions.
s_commands ==
    {Entry("Void", r) : r \in {"SimStatus", "CallList", "Void", "Ints", "SignalStrength",
        "Strings", "String", "StringsNetworks", "DataCallList", "PreferredNetworkType",
        "CellList", "GsmBrSmsCnf", "CdmaBrSmsCnf"}}
    \cup {Entry("Strings", r) : r \in {"Ints", "String", "SMS", "Void", "Strings"}}
    \cup {Entry("String", r) : r \in {"Void", "String", "SIM_IO"}}
    \cup {Entry(d, "Void") : d \in {"Dial", "Ints", "CallForward", "CdmaSmsAck", "GsmBrSmsCnf",
        "CdmaBrSmsCnf"}}
    \cup {Entry(d, "Ints") : d \in {"Ints", "SmsWrite", "RilCdmaSmsWriteArgs",
        "CdmaSubscriptionSource", "VoiceRadioTech"}}
    \cup {Entry("DataCall", "SetupDataCall"), Entry("SIM_IO", "SIM_IO"), Entry("Raw", "Raw"),
          Entry("CallForward", "CallForwards"), Entry("CdmaSms", "SMS")}

\* The response functions of s_unsolResponses.
s_unsolResponses ==
    {"Void", "String", "Ints", "Strings", "SignalStrength", "DataCallList", "Ssn", "SimRefresh",
     "CallRing", "CdmaSms", "Raw", "CdmaCallWaiting", "CdmaInformationRecords"}

\* NULL is no command and no request that was found invalid; parcels are words.
ASSUME CommandAssumption ==
    /\ NULL \notin {Entry("unsolicited", f) : f \in s_unsolResponses}
    /\ NULL \notin [valid : {FALSE}, p : [words : Seq(Int), pos : {0}, ok : {TRUE},
                                        args : {<<>>}, cut : {FALSE}]]
    /\ Payloads \in [{c.dispatch : c \in s_commands} -> SUBSET Seq(Int)]

\* The data of a response as ril.h declares it, where a property looks inside.
Declared(f, r) ==
    LET d == r.data
        bytes(name, max) == d[name] \in [1..max -> 0..255]
        call(c) ==
            /\ DOMAIN c = Names(CallLayout) \cup {"uusInfo"} /\ HasFields(c, CallLayout)
            /\ c["uusInfo"] = NULL
               \/ c["uusInfo"] \in [uusType : Int, uusDcs : Int, uusData : Texts]
        message(layout) ==
            /\ DOMAIN d = Names(layout) \cup {"digits", "subdigits", "aBearerData"}
            /\ HasFields(d, layout) /\ bytes("digits", AddressMax)
            /\ bytes("subdigits", SubaddressMax) /\ bytes("aBearerData", BearerMax)
        signal(old, lte) ==
            /\ d = [name \in DOMAIN d |-> d[name]] /\ HasFields(d, old)
            /\ r.size = "v6" => HasFields(d, lte)
    IN  CASE f \in {"Strings", "StringsNetworks"} -> d \in Seq(Texts)
          [] f = "Raw"          -> d \in Seq(Int)
          [] f = "GsmBrSmsCnf"  -> IsStructs(d, GsmBrLayout)
          [] f = "CdmaBrSmsCnf" -> IsStructs(d, CdmaBrLayout)
          [] f = "CallForwards" ->
                 IsStructs(d, Ints(<<"status", "reason", "serviceClass", "toa">>)
                              \o Str("number") \o Ints(<<"timeSeconds">>))
          [] f = "CallList"     -> d \in Seq(Range(d)) /\ \A i \in DOMAIN d : call(d[i])
          [] f = "CdmaSms"      -> message(CdmaHead \o CdmaSubaddress \o Ints(<<"uBearerDataLen">>))
          [] f = "SignalStrength" ->
                 signal(Ints(<<"gsmSignalStrength", "bitErrorRate", "cdmaDbm", "cdmaEcio",
                               "evdoDbm", "evdoEcio", "evdoSnr">>),
                        Ints(<<"lteSignalStrength", "rsrp", "rsrq", "rssnr", "cqi">>))
          [] OTHER -> TRUE

\* The vendor RIL keeps to ril.h, but for sizes and counts.
ASSUME ResponsesAssumption ==
    \A f \in {c.response : c \in s_commands} \cup s_unsolResponses : \A r \in Responses[f] :
        DOMAIN r = {"data", "size"} /\ (r.data = NULL \/ Declared(f, r))

dispatchFunction(d, p) ==
    CASE d = "Void"         -> dispatchVoid(p)
      [] d = "String"       -> dispatchString(p)
      [] d = "Strings"      -> dispatchStrings(p)
      [] d = "Ints"         -> dispatchInts(p)
      [] d = "SmsWrite"     -> dispatchSmsWrite(p)
      [] d = "Dial"         -> dispatchDial(p, version)
      [] d = "SIM_IO"       -> dispatchSIM_IO(p, version)
      [] d = "CallForward"  -> dispatchCallForward(p)
      [] d = "Raw"          -> dispatchRaw(p)
      [] d = "CdmaSms"      -> dispatchCdmaSms(p)
      [] d = "CdmaSmsAck"   -> dispatchCdmaSmsAck(p)
      [] d = "GsmBrSmsCnf"  -> dispatchGsmBrSmsCnf(p)
      [] d = "CdmaBrSmsCnf" -> dispatchCdmaBrSmsCnf(p)
      [] d = "RilCdmaSmsWriteArgs" -> dispatchRilCdmaSmsWriteArgs(p)
      [] d = "DataCall"     -> dispatchDataCall(p, version)

responseFunction(f, r) ==
    CASE f = "Void"            -> responseVoid(r)
      [] f = "Ints"            -> responseInts(r)
      [] f = "PreferredNetworkType" -> responseIntsGetPreferredNetworkType(r)
      [] f = "Strings"         -> responseStrings(r)
      [] f = "StringsNetworks" -> responseStringsNetworks(r)
      [] f = "String"          -> responseString(r)
      [] f = "CallList"        -> responseCallList(r, version)
      [] f = "SMS"             -> responseSMS(r)
      [] f = "DataCallList"    -> responseDataCallList(r, version)
      [] f = "SetupDataCall"   -> responseSetupDataCall(r, version)
      [] f = "Raw"             -> responseRaw(r)
      [] f = "SIM_IO"          -> responseSIM_IO(r)
      [] f = "CallForwards"    -> responseCallForwards(r)
      [] f = "Ssn"             -> responseSsn(r)
      [] f = "CellList"        -> responseCellList(r)
      [] f = "CdmaInformationRecords" -> responseCdmaInformationRecords(r)
      [] f = "SignalStrength"  -> responseRilSignalStrength(r, version)
      [] f = "CallRing"        -> responseCallRing(r)
      [] f = "CdmaCallWaiting" -> responseCdmaCallWaiting(r)
      [] f = "SimRefresh"      -> responseSimRefresh(r, version)
      [] f = "SimStatus"       -> responseSimStatus(r)
      [] f = "GsmBrSmsCnf"     -> responseGsmBrSmsCnf(r)
      [] f = "CdmaBrSmsCnf"    -> responseCdmaBrSmsCnf(r)
      [] f = "CdmaSms"         -> responseCdmaSms(r)

-----------------------------------------------------------------------------

Init ==
    /\ version \in Versions /\ radio \in {"ON", "OFF", "SIM_READY"}
    /\ command = NULL
    /\ sent = <<>> /\ received = <<>>
    /\ handed = NULL
    /\ pending = FALSE /\ calls = 0
    /\ given = NULL
    /\ replies = <<>>

\* A request arrives: the command's number, the token, and the payload; supported
\* is 1 for a number in the table.
Arrive(c, supported, payload, n) ==
    /\ command = NULL /\ replies = <<>>
    /\ radio = "ON" \/ c.dispatch \in {"VoiceRadioTech", "CdmaSubscriptionSource"}
    /\ command' = c
    /\ sent' = <<supported, 0>> \o payload
    /\ n \in 0..Len(sent') /\ received' = SubSeq(sent', 1, n)
    /\ UNCHANGED <<version, radio, handed, pending, calls, given, replies>>

checkAndDequeueRequestInfo(listed) == listed

\* Fault: the error is not written over when the response is refused.
ReplyKeepsError(e, f, r) ==
    LET out == IF r = NULL THEN Done(<<>>) ELSE responseFunction(f, r)
    IN  [error |-> e, words |-> out.words]

\* The reply: what was written of a refused response stays behind the error,
\* which replaces the vendor's.
Reply(e, f, r) ==
    LET out == IF r = NULL THEN Done(<<>>) ELSE responseFunction(f, r)
    IN  [error |-> IF out.ret = OK THEN e ELSE out.ret, words |-> out.words]

\* One call of RIL_onRequestComplete: only a request that is listed is answered,
\* and it is not listed any more.
Complete(done, reply) ==
    IF checkAndDequeueRequestInfo(done.listed)
    THEN [listed |-> FALSE, out |-> Append(done.out, reply)] ELSE done

\* dispatchVoiceRadioTech and dispatchCdmaSubscriptionSource answer for a vendor
\* RIL that does not know radio state ON; twice when the radio is off.
RadioAnswers(done, f) ==
    LET first == IF radio = "OFF" THEN Complete(done, Reply("RADIO_NOT_AVAILABLE", f, NULL))
                 ELSE done
    IN  Complete(first, IF radio = "SIM_READY"
                        THEN Reply("SUCCESS", f, [data |-> <<1>>, size |-> "ok"])
                        ELSE Reply("GENERIC_FAILURE", f, NULL))

\* A block without header or with an unknown number is dropped, and no request
\* made; one the dispatch function finds invalid stays pending.
processCommandBuffer ==
    /\ command # NULL /\ handed = NULL
    /\ LET asks == command.dispatch \in {"VoiceRadioTech", "CdmaSubscriptionSource"}
           p    == Parcel(SubSeq(received, 3, Len(received)))
       IN  IF Len(received) < 2 \/ sent[1] # 1
           THEN handed' = invalidCommandBlock(Parcel(received)) /\ UNCHANGED <<pending, replies>>
           ELSE IF asks /\ radio # "ON"
           THEN LET done == RadioAnswers([listed |-> TRUE, out |-> <<>>], command.response) IN
                /\ handed' = invalidCommandBlock(p)
                /\ pending' = done.listed /\ replies' = done.out
           ELSE /\ handed' = IF asks THEN dispatchVoid(p) ELSE dispatchFunction(command.dispatch, p)
                /\ pending' = TRUE /\ UNCHANGED replies
    /\ UNCHANGED <<version, radio, command, sent, received, calls, given>>

\* The vendor RIL may complete a request it was handed more than once.
RIL_onRequestComplete(e, r) ==
    /\ handed # NULL /\ calls < 2
    /\ handed.valid
    /\ calls' = calls + 1
    /\ LET done == Complete([listed |-> pending, out |-> replies], Reply(e, command.response, r)) IN
       /\ pending' = done.listed
       /\ replies' = done.out
    /\ given' = IF pending THEN r ELSE given
    /\ UNCHANGED <<version, radio, command, sent, received, handed>>

\* A message is sent only if its data is not refused.
RIL_onUnsolicitedResponse(f, r) ==
    /\ command = NULL /\ replies = <<>>
    /\ command' = Entry("unsolicited", f)
    /\ LET reply == Reply("unsolicited", f, r) IN
       replies' = IF reply.error = "unsolicited" THEN <<reply>> ELSE <<>>
    /\ handed' = invalidCommandBlock(Parcel(<<>>))
    /\ given' = r
    /\ UNCHANGED <<version, radio, sent, received, pending, calls>>

\* What a request is completed with: a response function sees no NULL, as it is not
\* called for one.  From version 5 on SETUP_DATA_CALL is answered with a data call.
ResponsesTo(f) ==
    LET answers == Responses[IF f = "SetupDataCall" /\ version >= 5 THEN "DataCallList" ELSE f]
    IN  {NULL} \cup {r \in answers : r.data # NULL}

Next ==
    \/ \E c \in s_commands : \E supported \in {0, 1} : \E words \in Payloads[c.dispatch] :
          \E n \in 0..(Len(words) + 2) : Arrive(c, supported, words, n)
    \/ processCommandBuffer
    \/ /\ command # NULL
       /\ \E r \in ResponsesTo(command.response) : \E e \in {"SUCCESS", "GENERIC_FAILURE"} :
             RIL_onRequestComplete(e, r)
    \/ \E f \in s_unsolResponses : \E r \in Responses[f] : RIL_onUnsolicitedResponse(f, r)

Spec == Init /\ [][Next]_vars

-----------------------------------------------------------------------------
(* Properties                                                              *)

Asked == IF handed = NULL THEN FALSE ELSE handed.valid
Args  == handed.p.args

\* However short a parcel is cut, the vendor RIL is never handed a number that
\* was not in it, though most dispatch functions look at one status only.
NoNumberMadeUp ==
    Asked => /\ \A f \in DOMAIN Args : Args[f] # Unread
             /\ \A f \in {"ints", "digits", "subdigits", "aBearerData"} \cap DOMAIN Args :
                    \A i \in DOMAIN Args[f] : Args[f][i] # Unread
             /\ "rows" \in DOMAIN Args =>
                    \A i \in DOMAIN Args["rows"] : \A f \in DOMAIN Args["rows"][i] :
                        Args["rows"][i][f] # Unread

\* What it is handed of a parcel cut short is what the whole one says, but for
\* strings and blocks, which are then missing (or empty, where they were copied
\* for an older version); unless the cut is inside a string, whose characters are
\* then read as the numbers behind it.
CutRequestHonest ==
    LET honest(whole) ==
            /\ whole.valid
            /\ \A f \in DOMAIN Args :
                  IF f = "strings" /\ Args[f] # NULL
                  THEN \A i \in DOMAIN Args[f] : Args[f][i] \in {NULL, <<0>>, whole.p.args[f][i]}
                  ELSE Args[f] \in {NULL, whole.p.args[f]}
    IN  Asked /\ command.dispatch \notin {"VoiceRadioTech", "CdmaSubscriptionSource"} =>
            \/ handed.p.cut
            \/ honest(dispatchFunction(command.dispatch, Parcel(SubSeq(sent, 3, Len(sent)))))

Told     == replies # <<>> /\ given # NULL /\ replies[1].error \in {"SUCCESS", "unsolicited"}
Words    == replies[1].words
ToldBy(f) == command # NULL /\ Told /\ command.response = f

\* A list or message that the framework is told is in the format in which it sends
\* such a list or message: what the response function writes, the dispatch
\* function reads back; but an empty number comes back as NULL, a null array as an
\* empty one, and digits that do not fit not at all.
SameFormat ==
    LET d == given.data
        p == Parcel(Words)
        some(f, count, max) == SubSeq(d[f], 1, IF d[count] < max THEN d[count] ELSE max)
        cdmaSms(back) ==
            /\ back.valid /\ dataAvail(back.p) = 0
            /\ \A f \in DOMAIN d :
                  back.p.args[f] =
                      CASE f = "digits"      -> some(f, "number_of_digits", AddressMax)
                        [] f = "subdigits"   -> some(f, "sub_digits", SubaddressMax)
                        [] f = "aBearerData" -> some(f, "uBearerDataLen", BearerMax)
                        [] OTHER             -> d[f]
        forward(back) ==
            /\ back.valid
            /\ \A f \in DOMAIN d[1] :
                  back.p.args[f] = IF f = "number" /\ d[1][f] = <<0>> THEN NULL ELSE d[1][f]
        list(back, f) == back.valid /\ back.p.args[f] = Elements(given)
    IN
    /\ ToldBy("CdmaSms")      => cdmaSms(dispatchCdmaSms(p))
    /\ ToldBy("GsmBrSmsCnf")  => list(dispatchGsmBrSmsCnf(p), "rows")
    /\ ToldBy("CdmaBrSmsCnf") => list(dispatchCdmaBrSmsCnf(p), "rows")
    /\ ToldBy("Strings")      => list(dispatchStrings(p), "strings")
    /\ ToldBy("Raw")          => list(dispatchRaw(p), "data")
    /\ ToldBy("CallForwards") /\ Len(Elements(given)) = 1 =>
          forward(dispatchCallForward(Parcel(Tail(Words))))

\* StuttgartRIL reads the calls the vendor RIL listed, each with its own number,
\* name and user-to-user data, and nothing is left of the reply; a vendor RIL
\* before version 3 has no such data to tell of.
CallsReadBack ==
    ToldBy("CallList") =>
        LET r == JavaCallList(Words) IN
        /\ dataAvail(r) = 0
        /\ Len(r.args["calls"]) = Len(Elements(given))
        /\ \A i \in DOMAIN Elements(given) :
              LET call == Elements(given)[i]  java == r.args["calls"][i] IN
              \A f \in DOMAIN call :
                  java[f] = IF f # "uusInfo" \/ call[f] = NULL THEN call[f]
                            ELSE IF version < 3 \/ call[f]["uusData"] = NULL THEN NULL ELSE call[f]

\* Whatever the modem reports, StuttgartRIL gets its twelve numbers, the levels
\* among them in the range it can show, the error rate in its place.
SignalReadable ==
    ToldBy("SignalStrength") =>
        LET r == JavaSignalStrength(Words) IN
        /\ Len(r) = 12 /\ \A i \in 1..12 : r[i] # Unread
        /\ \A i \in {1, 3, 5} : r[i] \in (0..31) \cup {99}
        /\ r[2] = given.data["bitErrorRate"]

\* A network is told as the first four of the five strings the modem sends, and
\* there are as many strings as announced, if the modem sent whole networks.
NetworksGrouped ==
    ToldBy("StringsNetworks") /\ Len(Elements(given)) % 5 = 0 =>
        LET r == dispatchStrings(Parcel(Words)).p  s == Elements(given) IN
        /\ r.args["count"] = (Len(s) \div 5) * 4 /\ dataAvail(r) = 0
        /\ \A i \in 1..(Len(s) \div 5) : \A j \in 1..4 :
              r.args["strings"][(i - 1) * 4 + j] = s[(i - 1) * 5 + j]

\* A response the daemon refused is never told as a success, and carries at most
\* the version word; one it took keeps the vendor RIL's error.
RefusedReplyMarked ==
    LET marked(ret) == IF ret = OK THEN replies[1].error \in {"SUCCESS", "GENERIC_FAILURE"}
                       ELSE replies[1].error = ret /\ Len(Words) <= 1
    IN  replies # <<>> /\ given # NULL /\ command.dispatch # "unsolicited" =>
            marked(responseFunction(command.response, given).ret)

-----------------------------------------------------------------------------
(* The inductive invariant                                                 *)

\* There is no second reply.
OneReply == replies = <<>> \/ replies = <<replies[1]>>

\* No reply before the request was looked at, one at most after it, and none while
\* it is pending; one that the vendor RIL completed is not pending.
Life ==
    /\ command = NULL => handed = NULL /\ ~pending
    /\ handed = NULL => replies = <<>> /\ given = NULL /\ calls = 0
    /\ pending => replies = <<>>
    /\ calls = 0 \/ (handed # NULL /\ ~pending)
    /\ handed # NULL /\ handed.valid => pending \/ replies # <<>>
    /\ pending \in BOOLEAN

\* What the vendor RIL answered is what the reply was made of; a message that was
\* not asked for is no request, and is not sent if its data was refused.
Answer ==
    handed # NULL /\ given # NULL =>
        \/ /\ command.dispatch = "unsolicited" /\ ~handed.valid
           /\ given \in Responses[command.response]
           /\ replies \in {<<>>, <<Reply("unsolicited", command.response, given)>>}
        \/ /\ command \in s_commands
           /\ given \in ResponsesTo(command.response)
           /\ \E e \in {"SUCCESS", "GENERIC_FAILURE"} :
                 replies = <<Reply(e, command.response, given)>>

\* What the vendor RIL is handed is what the command's dispatch function makes of
\* the parcel, behind the command's number and the token.
Made ==
    LET p == Parcel(SubSeq(received, 3, Len(received))) IN
    IF command.dispatch \in {"VoiceRadioTech", "CdmaSubscriptionSource"}
    THEN dispatchVoid(p) ELSE dispatchFunction(command.dispatch, p)

Taken == Asked => handed = Made

\* What arrived is a beginning of what was sent.
Beginning == sent \in Seq(Int) /\ \E n \in 0..Len(sent) : received = SubSeq(sent, 1, n)

IInv ==
    /\ Beginning /\ calls \in 0..2
    /\ command \in s_commands \cup {NULL} \cup {Entry("unsolicited", f) : f \in s_unsolResponses}
    /\ command # NULL /\ command \notin s_commands => handed # NULL /\ ~handed.valid /\ ~pending
    /\ OneReply /\ Life /\ Answer /\ Taken

=============================================================================
