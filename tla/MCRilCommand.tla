---------------------------- MODULE MCRilCommand ----------------------------
(***************************************************************************)
(* Small instances of RilCommand.  Every field of a structure has a value  *)
(* of its own, so that no two can be confused; arrays hold two elements,   *)
(* and counts say less, as much, and more than that.                       *)
(***************************************************************************)
EXTENDS RilCommand

\* A structure of a layout: numbers counted from k on, every string one word.
Sample(layout, k) ==
    LET at(f) == CHOOSE i \in DOMAIN layout : layout[i][1] = f IN
    [f \in {layout[i][1] : i \in DOMAIN layout} |->
        IF layout[at(f)][2] = "str" THEN <<k + at(f)>> ELSE k + at(f)]

MessageHead == Ints(<<"uTeleserviceID">>) \o Bytes(<<"bIsServicePresent">>)
            \o Ints(<<"uServicecategory", "digit_mode", "number_mode", "number_type",
                      "number_plan">>)
MessageTail == Ints(<<"subaddressType">>) \o Bytes(<<"odd">>)

\* A CDMA message that announces a, s and b digits of two there are.
CdmaMessage(a, s, b) ==
    Sample(MessageHead, 10) @@ Sample(MessageTail, 20)
    @@ [f \in {"digits", "subdigits", "aBearerData"} |-> <<31, 32>>]
    @@ ("number_of_digits" :> a) @@ ("sub_digits" :> s) @@ ("uBearerDataLen" :> b)

CdmaWords(a, s, b) ==
    responseCdmaSms([data |-> CdmaMessage(a, s, b), size |-> "ok"]).words

Text == <<41>>          \* one word of characters
Long == <<51, 52, 53, 54, 55>>

MCPayloads ==
    [d \in {c.dispatch : c \in s_commands} |->
       CASE d \in {"Void", "VoiceRadioTech", "CdmaSubscriptionSource"} -> {<<>>}
         [] d = "String" -> {<<1>> \o Text, <<-1>>, <<1, 0>>}
         [] d = "Strings" -> {<<-1>>, <<0>>, <<3, 1>> \o Text \o <<-1, 1>> \o Text}
         [] d = "Ints" -> {<<0>>, <<1, 61>>, <<3, 61, 62, 63>>}
         [] d = "SmsWrite" -> {<<61, 1>> \o Text \o <<1>> \o Text, <<61, -1, -1>>, <<61, 1>> \o Text \o <<-1>>}
         [] d = "Dial" -> {<<1>> \o Text \o <<61, 0>>, <<1>> \o Text \o <<61, 1, 62, 63, -1>>,
                           <<1>> \o Text \o <<61, 1, 62, 63, 2, 64, 65>>, <<-1, 61, 0>>}
         [] d = "SIM_IO" -> {<<61, 62, 1>> \o Text \o <<63, 64, 65, -1, 1>> \o Text \o <<1>> \o Text,
                             <<61, 62, 5>> \o Long \o <<63, 64, 65, -1, -1, -1>>}
         [] d = "CallForward" -> {<<61, 62, 63, 64, 1>> \o Text \o <<65>>, <<61, 62, 63, 64, 1, 0, 65>>}
         [] d = "Raw" -> {<<-1>>, <<0>>, <<2, 61, 62>>}
         [] d = "CdmaSms" -> {CdmaWords(a, s, b) : a, s, b \in {0, 2, 3}}
         [] d = "CdmaSmsAck" -> {<<61, 62>>}
         [] d = "GsmBrSmsCnf" -> {<<0>>, <<2>> \o [i \in 1..10 |-> 60 + i]}
         [] d = "CdmaBrSmsCnf" -> {<<0>>, <<2>> \o [i \in 1..6 |-> 60 + i]}
         [] d = "RilCdmaSmsWriteArgs" -> {<<60>> \o CdmaWords(2, 2, 2), <<60>> \o CdmaWords(0, 2, 1)}
         [] d = "DataCall" -> {<<6>> \o [i \in 1..6 |-> -1], <<7>> \o [i \in 1..14 |-> IF i % 2 = 1 THEN 1 ELSE 60 + i],
                               <<7>> \o <<3, 1, 62, 63>> \o [i \in 1..6 |-> -1]}]

Ok(data)   == [data |-> data, size |-> "ok"]
Bad(data)  == [data |-> data, size |-> "bad"]
Nothing    == Ok(NULL)
List(layout) == {Nothing, Ok(<<>>), Ok(<<Sample(layout, 10)>>),
                 Ok(<<Sample(layout, 10), Sample(layout, 30)>>), Bad(<<Sample(layout, 10)>>)}

Call(k, uus) == ("uusInfo" :> uus) @@ Sample(CallLayout, k)
Uus(data)    == ("uusType" :> 71) @@ ("uusDcs" :> 72) @@ ("uusData" :> data)

Signal(gsm, cdma, evdo, rsrp) ==
    ("gsmSignalStrength" :> gsm) @@ ("cdmaDbm" :> cdma) @@ ("evdoDbm" :> evdo) @@ ("rsrp" :> rsrp)
    @@ Sample(Ints(<<"bitErrorRate", "cdmaEcio", "evdoEcio", "evdoSnr", "lteSignalStrength",
                     "rsrq", "rssnr", "cqi">>), 40)

Records == {"display", "number", "signal", "redirecting", "lineControl", "clir", "audio",
            "release"}
Record(n) == ("name" :> n) @@ Sample(InfoRecLayout(n), 10)
TooLong(n) == ("name" :> n) @@ ("text" :> <<1, 2, 3>>) @@ Sample(InfoRecLayout(n), 10)

DataCall ==
    Ints(<<"status", "suggestedRetryTime", "cid", "active">>) \o Str("type") \o Str("address")
    \o Str("ifname") \o Str("addresses") \o Str("dnses") \o Str("gateways")

CallForward == Ints(<<"status", "reason", "serviceClass", "toa">>) \o Str("number")
               \o Ints(<<"timeSeconds">>)

Card(k) == ("applications" :> <<Sample(AppLayout, 50), Sample(AppLayout, 60)>>)
           @@ Sample(Ints(<<"card_state", "universal_pin_state", "gsm_umts_index", "cdma_index",
                            "ims_index">>), k)

Strings(n) == Ok([i \in 1..n |-> IF i = 3 THEN NULL ELSE <<80 + i>>])

MCResponses ==
    [f \in {c.response : c \in s_commands} \cup s_unsolResponses |->
       CASE f = "Void" -> {Nothing}
         [] f \in {"Ints", "PreferredNetworkType"} ->
                {Nothing, Ok(<<7>>), Ok(<<61, 7>>), Bad(<<61>>)}
         [] f \in {"Strings", "StringsNetworks"} ->
                {Strings(n) : n \in {0, 4, 5, 10}} \cup {Nothing, Bad(<<Text>>)}
         [] f = "SetupDataCall" -> {Strings(3), Bad(<<Text>>)}
         [] f = "String" -> {Nothing, Ok(Text), Ok(<<0>>)}
         [] f = "CallList" ->
                {Nothing, Ok(<<>>), Bad(<<>>), Ok(<<Call(10, NULL)>>),
                 Ok(<<Call(10, Uus(<<73, 74>>)), Call(30, Uus(NULL))>>),
                 Ok(<<Call(10, Uus(<<>>)), Call(30, NULL)>>)}
         [] f = "SMS" -> {Bad(Sample(Ints(<<"messageRef", "errorCode">>) \o Str("ackPDU"), 10)),
                          Ok(Sample(Ints(<<"messageRef", "errorCode">>) \o Str("ackPDU"), 10))}
         [] f = "DataCallList" -> List(DataCall)
         [] f = "Raw" -> {Nothing, Ok(<<>>), Ok(<<61, 62>>), Bad(NULL)}
         [] f = "SIM_IO" -> {Ok(Sample(Ints(<<"sw1", "sw2">>) \o Str("simResponse"), 10)), Bad(<<>>)}
         [] f = "CallForwards" ->
                List(CallForward) \cup {Ok(<<("number" :> <<0>>) @@ Sample(CallForward, 10)>>)}
         [] f = "Ssn" -> {Nothing, Ok(Sample(Ints(<<"notificationType", "code", "index", "type">>)
                                             \o Str("number"), 10))}
         [] f = "CellList" -> List(Ints(<<"rssi">>) \o Str("cid"))
         [] f = "CdmaInformationRecords" ->
                {Bad(<<>>)} \cup {Ok(<<Record(a), Record(b)>>) : a, b \in Records}
                \cup {Ok(<<Record("audio"), TooLong(n)>>) : n \in {"display", "number", "redirecting"}}
                \cup {Ok(<<Record("clir"), Record("clir"), Record("release")>>)}
         [] f = "SignalStrength" ->
                {[data |-> Signal(g, c, c, -90), size |-> s] :
                    g \in {0, 31, 32, 99, -1, 1023}, c \in {75, 5}, s \in {"bad", "v5", "v6"}}
                \cup {Nothing}
         [] f = "CallRing" -> {Nothing, Ok(Sample(SignalInfoLayout, 10)), Bad(Sample(SignalInfoLayout, 10))}
         [] f = "CdmaCallWaiting" ->
                {[data |-> Sample(Str("number") \o Ints(<<"numberPresentation">>) \o Str("name")
                                  \o SignalInfoLayout \o Ints(<<"number_type", "number_plan">>), 10),
                  size |-> s] : s \in {"v5", "v6"}}
         [] f = "SimRefresh" -> {Ok(Sample(Ints(<<"result", "ef_id">>) \o Str("aid"), 10))}
         [] f = "SimStatus" -> {[data |-> Card(10), size |-> s] : s \in {"v5", "v6", "bad"}}
         [] f = "GsmBrSmsCnf" ->
                List(Ints(<<"fromServiceId", "toServiceId", "fromCodeScheme", "toCodeScheme",
                            "selected">>))
         [] f = "CdmaBrSmsCnf" -> List(Ints(<<"service_category", "language", "selected">>))
         [] f = "CdmaSms" -> {Bad(CdmaMessage(0, 0, 0))} \cup
                {Ok(CdmaMessage(a, s, b)) : a, s, b \in {0, 1, 2, 3}}]

=============================================================================
