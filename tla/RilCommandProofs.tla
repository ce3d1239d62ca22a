--------------------------- MODULE RilCommandProofs ---------------------------
(***************************************************************************)
(* Proofs about RilCommand: a response the daemon refuses is never told as *)
(* a success, no dispatch function hands over a number that was not read   *)
(* or takes a cut request for another, and what the response functions     *)
(* write is read back by the dispatch functions and by StuttgartRIL.       *)
(***************************************************************************)
EXTENDS RilCommand, RilParcelProofs

-----------------------------------------------------------------------------
(* The response functions                                                  *)

\* Nothing of a refused response is written but, at most, the version word.
Short(out) == out.ret # OK => Len(out.words) <= 1

\* The shapes a response function's result has.
LEMMA Shapes ==
    /\ \A words : Short(Done(words))
    /\ Short(Refused(<<>>))
    /\ \A test, words : Short(DoneIf(test, words))
    /\ \A r, layout : Short(CountedRows(r, layout)) /\ Short(Struct(r, layout))
<1>1. \A words : Short(Done(words))
  BY DEF Short, Done
<1>2. Short(Refused(<<>>))
  BY DEF Short, Refused
<1>3. \A test, words : Short(DoneIf(test, words))
  BY <1>1, <1>2 DEF DoneIf
<1>4. \A r, layout : Short(CountedRows(r, layout)) /\ Short(Struct(r, layout))
  BY <1>1, <1>2 DEF CountedRows, Struct
<1> QED
  BY <1>1, <1>2, <1>3, <1>4

\* With the version in front, what was refused has one word.
LEMMA VersionInFront ==
    ASSUME NEW out, NEW v,
           \/ \E words : out = Done(words)
           \/ out = Refused(<<>>)
    PROVE  Short([out EXCEPT !.words = <<v>> \o @])
<1>1. CASE \E words : out = Done(words)
  BY <1>1 DEF Short, Done
<1>2. CASE out = Refused(<<>>)
  <2>1. Len(<<v>> \o <<>>) = 1
    OBVIOUS
  <2>2. QED
    BY <1>2, <2>1 DEF Short, Refused
<1> QED
  BY <1>1, <1>2

\* The table of response functions, looked up.
LEMMA LookedUp ==
    ASSUME NEW r
    PROVE  /\ responseFunction("Void", r) = responseVoid(r)
           /\ responseFunction("String", r) = responseString(r)
           /\ responseFunction("Ints", r) = responseInts(r)
           /\ responseFunction("PreferredNetworkType", r) = responseIntsGetPreferredNetworkType(r)
           /\ responseFunction("Strings", r) = responseStrings(r)
           /\ responseFunction("StringsNetworks", r) = responseStringsNetworks(r)
           /\ responseFunction("CallList", r) = responseCallList(r, version)
           /\ responseFunction("Raw", r) = responseRaw(r)
           /\ responseFunction("SMS", r) = responseSMS(r)
           /\ responseFunction("SIM_IO", r) = responseSIM_IO(r)
           /\ responseFunction("CallForwards", r) = responseCallForwards(r)
           /\ responseFunction("CellList", r) = responseCellList(r)
           /\ responseFunction("GsmBrSmsCnf", r) = responseGsmBrSmsCnf(r)
           /\ responseFunction("CdmaBrSmsCnf", r) = responseCdmaBrSmsCnf(r)
           /\ responseFunction("SignalStrength", r) = responseRilSignalStrength(r, version)
           /\ responseFunction("SimStatus", r) = responseSimStatus(r)
           /\ responseFunction("DataCallList", r) = responseDataCallList(r, version)
           /\ responseFunction("SetupDataCall", r) = responseSetupDataCall(r, version)
BY DEF responseFunction

\* What a solicited response function refuses, it writes at most the version of.
LEMMA RefusedIsShort ==
    ASSUME NEW c \in s_commands, NEW r
    PROVE  Short(responseFunction(c.response, r))
<1> DEFINE f == c.response
<1>1. f \in {"SimStatus", "CallList", "Void", "Ints", "SignalStrength", "Strings", "String",
             "StringsNetworks", "DataCallList", "PreferredNetworkType", "CellList",
             "GsmBrSmsCnf", "CdmaBrSmsCnf", "SMS", "SIM_IO", "SetupDataCall", "Raw",
             "CallForwards"}
  BY DEF s_commands, Entry
<1> SUFFICES Short(responseFunction(f, r))
  OBVIOUS
<1> HIDE DEF f
<1>2. CASE f \in {"Void", "String"}
  BY <1>2, Shapes, LookedUp DEF responseVoid, responseString
<1>3. CASE f = "Ints"
  BY <1>3, Shapes, LookedUp DEF responseInts
<1>4. CASE f = "PreferredNetworkType"
  <2>1. \A q : Short(responseInts(q))
    BY Shapes DEF responseInts
  <2>2. Short(responseIntsGetPreferredNetworkType(r))
    BY <2>1 DEF responseIntsGetPreferredNetworkType
  <2>3. QED
    BY <1>4, <2>2, LookedUp
<1>5. CASE f = "Strings"
  BY <1>5, Shapes, LookedUp DEF responseStrings
<1>6. CASE f = "StringsNetworks"
  BY <1>6, Shapes, LookedUp DEF responseStringsNetworks
<1>7. CASE f = "CallList"
  BY <1>7, Shapes, LookedUp DEF responseCallList
<1>8. CASE f = "Raw"
  BY <1>8, Shapes, LookedUp, ZenonT(60) DEF responseRaw
<1>9. CASE f = "SMS"
  BY <1>9, Shapes, LookedUp DEF responseSMS
<1>10. CASE f = "SIM_IO"
  BY <1>10, Shapes, LookedUp DEF responseSIM_IO
<1>11. CASE f = "CallForwards"
  BY <1>11, Shapes, LookedUp DEF responseCallForwards
<1>12. CASE f = "CellList"
  BY <1>12, Shapes, LookedUp DEF responseCellList
<1>13. CASE f = "GsmBrSmsCnf"
  <2>1. Short(responseGsmBrSmsCnf(r))
    BY Shapes DEF responseGsmBrSmsCnf
  <2>2. QED
    BY <1>13, <2>1, LookedUp
<1>14. CASE f = "CdmaBrSmsCnf"
  <2>1. Short(responseCdmaBrSmsCnf(r))
    BY Shapes DEF responseCdmaBrSmsCnf
  <2>2. QED
    BY <1>14, <2>1, LookedUp
<1>15. CASE f = "SignalStrength"
  BY <1>15, Shapes, LookedUp DEF responseRilSignalStrength
<1>16. CASE f = "SimStatus"
  BY <1>16, Shapes, LookedUp DEF responseSimStatus
<1>17. \A v : Short(responseDataCallList(r, v))
  <2> TAKE v
  <2>1. ASSUME NEW layout
        PROVE  \/ \E words : CountedRows(r, layout) = Done(words)
               \/ CountedRows(r, layout) = Refused(<<>>)
    BY DEF CountedRows
  <2>2. \/ \E words : responseDataCallListV4(r) = Done(words)
        \/ responseDataCallListV4(r) = Refused(<<>>)
    BY <2>1 DEF responseDataCallListV4
  <2>3. QED
    BY <2>1, <2>2, VersionInFront DEF responseDataCallList
<1>18. \A v : Short(responseStringsWithVersion(r, v))
  <2>1. \/ \E words : responseStrings(r) = Done(words)
        \/ responseStrings(r) = Refused(<<>>)
    BY DEF responseStrings, DoneIf
  <2>2. QED
    BY <2>1, VersionInFront DEF responseStringsWithVersion
<1>19. CASE f = "DataCallList"
  BY <1>19, <1>17, LookedUp
<1>20. CASE f = "SetupDataCall"
  BY <1>20, <1>17, <1>18, LookedUp DEF responseSetupDataCall
<1> QED
  BY <1>1, <1>2, <1>3, <1>4, <1>5, <1>6, <1>7, <1>8, <1>9, <1>10, <1>11, <1>12, <1>13, <1>14,
     <1>15, <1>16, <1>19, <1>20

-----------------------------------------------------------------------------
(* The steps                                                               *)

\* One reply is one reply.
LEMMA Single == \A reply : <<reply>> # <<>> /\ <<reply>>[1] = reply /\ Len(<<reply>>) = 1
  OBVIOUS

\* A reply stays what it is while the vendor RIL's version does, and so does what
\* the vendor RIL may answer.
LEMMA ReplyStays ==
    ASSUME UNCHANGED <<version, command>>, NEW r, given' = r, NEW e
    PROVE  /\ Reply(e, command.response, given)' = Reply(e, command.response, r)
           /\ ResponsesTo(command.response)' = ResponsesTo(command.response)
<1>1. Reply(e, command.response, given)' = Reply(e, command.response, r)
  BY DEF Reply, responseFunction
<1>2. ResponsesTo(command.response)' = ResponsesTo(command.response)
  BY Zenon DEF ResponsesTo
<1> QED
  BY <1>1, <1>2

\* What a dispatch function makes of a request stays the same.
LEMMA MadeStays ==
    ASSUME UNCHANGED <<version, command, received>>
    PROVE  Made' = Made
  BY DEF Made, dispatchFunction

\* What arrived are words.
LEMMA BeginningWords ==
    ASSUME Beginning
    PROVE  /\ received \in Seq(Int) /\ SubSeq(received, 3, Len(received)) \in Seq(Int)
           /\ Len(received) \in Nat
<1>1. PICK n \in 0..Len(sent) : received = SubSeq(sent, 1, n)
  BY DEF Beginning
<1>2. received \in Seq(Int)
  BY <1>1 DEF Beginning
<1> QED
  BY <1>2

\* A call of RIL_onRequestComplete answers a request that is listed, and no other.
LEMMA CompleteOnce ==
    ASSUME NEW reply
    PROVE  /\ Complete([listed |-> TRUE, out |-> <<>>], reply) = [listed |-> FALSE, out |-> <<reply>>]
           /\ \A out : Complete([listed |-> FALSE, out |-> out], reply) = [listed |-> FALSE, out |-> out]
<1>1. Append(<<>>, reply) = <<reply>>
  OBVIOUS
<1> QED
  BY <1>1 DEF Complete, checkAndDequeueRequestInfo

\* The second answer of a radio that is off goes nowhere.
LEMMA RadioAnswersOnce ==
    ASSUME NEW f
    PROVE  \E reply : RadioAnswers([listed |-> TRUE, out |-> <<>>], f)
                        = [listed |-> FALSE, out |-> <<reply>>]
<1> DEFINE none   == [listed |-> TRUE, out |-> <<>>]
           off    == Reply("RADIO_NOT_AVAILABLE", f, NULL)
           answer == IF radio = "SIM_READY"
                     THEN Reply("SUCCESS", f, [data |-> <<1>>, size |-> "ok"])
                     ELSE Reply("GENERIC_FAILURE", f, NULL)
<1>1. RadioAnswers(none, f) = Complete(IF radio = "OFF" THEN Complete(none, off) ELSE none, answer)
  BY Zenon DEF RadioAnswers
<1> HIDE DEF off, answer
<1>2. Complete(none, off) = [listed |-> FALSE, out |-> <<off>>]
  BY CompleteOnce
<1>3. Complete([listed |-> FALSE, out |-> <<off>>], answer) = [listed |-> FALSE, out |-> <<off>>]
  BY CompleteOnce
<1>4. Complete(none, answer) = [listed |-> FALSE, out |-> <<answer>>]
  BY CompleteOnce
<1> HIDE DEF none
<1>5. \/ RadioAnswers(none, f) = [listed |-> FALSE, out |-> <<off>>]
      \/ RadioAnswers(none, f) = [listed |-> FALSE, out |-> <<answer>>]
  BY <1>1, <1>2, <1>3, <1>4, Zenon
<1> QED
  BY <1>5 DEF none

\* What was found invalid is not NULL, and not valid.
LEMMA InvalidIsThere ==
    ASSUME NEW words \in Seq(Int)
    PROVE  invalidCommandBlock(Parcel(words)) # NULL /\ ~invalidCommandBlock(Parcel(words)).valid
<1>1. invalidCommandBlock(Parcel(words)) \in
          [valid : {FALSE}, p : [words : Seq(Int), pos : {0}, ok : {TRUE}, args : {<<>>}, cut : {FALSE}]]
  BY DEF invalidCommandBlock, Parcel
<1> QED
  BY <1>1, CommandAssumption DEF invalidCommandBlock

\* Init establishes the invariant.
LEMMA InitIInv == Init => IInv
<1> SUFFICES ASSUME Init PROVE IInv
  OBVIOUS
<1>1. Beginning
  <2>1. <<>> \in Seq(Int) /\ Len(<<>>) = 0 /\ <<>> = SubSeq(<<>>, 1, 0)
    OBVIOUS
  <2> QED
    BY <2>1 DEF Init, Beginning
<1>2. Life
  BY Zenon DEF Init, Life
<1> QED
  BY <1>1, <1>2 DEF Init, IInv, OneReply, Answer, Taken, Asked

\* A request that arrives is not yet answered.
LEMMA ArriveStep ==
    ASSUME IInv, NEW c \in s_commands, NEW supported \in {0, 1},
           NEW words \in Payloads[c.dispatch], NEW n \in 0..(Len(words) + 2),
           Arrive(c, supported, words, n)
    PROVE  IInv'
<1>1. Beginning'
  <2>1. words \in Seq(Int)
    BY CommandAssumption
  <2>2. sent' \in Seq(Int)
    BY <2>1 DEF Arrive
  <2>3. received' = SubSeq(sent', 1, n) /\ n \in 0..Len(sent')
    BY DEF Arrive
  <2> QED
    BY <2>2, <2>3 DEF Beginning
<1>2. /\ handed = NULL /\ replies = <<>> /\ given = NULL /\ calls = 0 /\ ~pending
      /\ UNCHANGED <<handed, replies, given, calls, pending>> /\ command' = c
  BY DEF IInv, Life, Arrive
<1>3. Life'
  BY <1>2 DEF IInv, Life
<1>4. Answer'
  BY <1>2 DEF Answer
<1>5. OneReply' /\ Taken'
  BY <1>2 DEF OneReply, Taken, Asked
<1> QED
  BY <1>1, <1>2, <1>3, <1>4, <1>5 DEF IInv

\* A request is looked at once: it becomes pending, is answered by the daemon, or is
\* dropped.
LEMMA ProcessStep == IInv /\ processCommandBuffer => IInv'
<1> SUFFICES ASSUME IInv, processCommandBuffer PROVE IInv'
  OBVIOUS
<1> DEFINE asks == command.dispatch \in {"VoiceRadioTech", "CdmaSubscriptionSource"}
           p    == Parcel(SubSeq(received, 3, Len(received)))
<1>1. /\ command # NULL /\ command \in s_commands /\ handed = NULL
      /\ replies = <<>> /\ given = NULL /\ calls = 0
      /\ UNCHANGED <<command, received, calls, given>>
  BY DEF IInv, Life, processCommandBuffer
<1>2. /\ SubSeq(received, 3, Len(received)) \in Seq(Int) /\ received \in Seq(Int)
      /\ Beginning' /\ UNCHANGED version
  BY BeginningWords DEF IInv, Beginning, processCommandBuffer
<1>3. \/ handed' # NULL /\ ~handed'.valid /\ UNCHANGED <<pending, replies>>
      \/ /\ handed' # NULL /\ ~handed'.valid
         /\ pending' = FALSE /\ \E reply : replies' = <<reply>>
      \/ pending' = TRUE /\ replies' = replies /\ handed' = Made
  <2>1. CASE Len(received) < 2 \/ sent[1] # 1
    BY <2>1, <1>2, InvalidIsThere DEF processCommandBuffer
  <2>2. CASE ~(Len(received) < 2 \/ sent[1] # 1) /\ asks /\ radio # "ON"
    <3>1. PICK reply : RadioAnswers([listed |-> TRUE, out |-> <<>>], command.response)
                       = [listed |-> FALSE, out |-> <<reply>>]
      BY RadioAnswersOnce
    <3>2. handed' = invalidCommandBlock(p) /\ pending' = FALSE /\ replies' = <<reply>>
      BY <2>2, <3>1 DEF processCommandBuffer
    <3> QED
      BY <3>2, <1>2, InvalidIsThere
  <2>3. CASE ~(Len(received) < 2 \/ sent[1] # 1) /\ ~(asks /\ radio # "ON")
    <3>1. handed' = IF asks THEN dispatchVoid(p) ELSE dispatchFunction(command.dispatch, p)
      BY <2>3, Zenon DEF processCommandBuffer
    <3>2. handed' = Made
      BY <3>1, Zenon DEF Made
    <3> QED
      BY <2>3, <3>2 DEF processCommandBuffer
  <2> QED
    BY <2>1, <2>2, <2>3
<1>4. Life'
  BY <1>1, <1>3, Single DEF IInv, Life
<1>5. Answer'
  BY <1>1 DEF Answer
<1>6. OneReply'
  BY <1>1, <1>3, Single DEF OneReply
<1>7. Taken'
  <2>1. Made' = Made
    BY <1>1, <1>2, MadeStays
  <2> QED
    BY <1>3, <2>1 DEF Taken, Asked
<1> QED
  BY <1>1, <1>2, <1>4, <1>5, <1>6, <1>7 DEF IInv

\* A completion answers a request that is pending, with what the vendor RIL gave.
LEMMA CompletionStep ==
    ASSUME IInv, NEW e \in {"SUCCESS", "GENERIC_FAILURE"}, NEW r \in ResponsesTo(command.response),
           RIL_onRequestComplete(e, r)
    PROVE  IInv'
<1>1. /\ handed # NULL /\ handed.valid /\ command \in s_commands
      /\ UNCHANGED <<version, command, sent, received, handed>>
      /\ calls \in 0..1 /\ calls' = calls + 1
  BY DEF IInv, Life, RIL_onRequestComplete
<1>4. Taken' /\ Beginning'
  <2>1. Made' = Made
    BY <1>1, MadeStays
  <2> QED
    BY <1>1, <2>1 DEF IInv, Taken, Asked, Beginning
<1>2. CASE pending
  <2>1. pending = TRUE /\ replies = <<>>
    BY <1>2 DEF IInv, Life
  <2>2. /\ pending' = FALSE /\ replies' = <<Reply(e, command.response, r)>> /\ given' = r
    <3> DEFINE reply == Reply(e, command.response, r)
    <3>1. Complete([listed |-> pending, out |-> replies], reply) = [listed |-> FALSE, out |-> <<reply>>]
      BY <2>1, CompleteOnce, Zenon
    <3>2. given' = r
      BY <1>2 DEF RIL_onRequestComplete
    <3>3. /\ pending' = Complete([listed |-> pending, out |-> replies], reply).listed
          /\ replies' = Complete([listed |-> pending, out |-> replies], reply).out
      BY Zenon DEF RIL_onRequestComplete
    <3> HIDE DEF reply
    <3>4. pending' = FALSE /\ replies' = <<reply>>
      BY <3>1, <3>3
    <3> QED
      BY <3>2, <3>4 DEF reply
  <2>3. Life'
    BY <1>1, <2>2, Single, Zenon DEF IInv, Life
  <2>4. Answer'
    BY <1>1, <2>2, ReplyStays DEF Answer
  <2>5. OneReply'
    BY <2>2, Single DEF OneReply
  <2> QED
    BY <1>1, <1>4, <2>2, <2>3, <2>4, <2>5 DEF IInv
<1>3. CASE ~pending
  <2>1. pending = FALSE
    BY <1>3 DEF IInv, Life
  <2>2. UNCHANGED <<pending, replies, given>>
    <3> DEFINE reply == Reply(e, command.response, r)
    <3>1. Complete([listed |-> pending, out |-> replies], reply) = [listed |-> FALSE, out |-> replies]
      BY <2>1, CompleteOnce, Zenon
    <3>2. given' = given
      BY <1>3 DEF RIL_onRequestComplete
    <3>3. /\ pending' = Complete([listed |-> pending, out |-> replies], reply).listed
          /\ replies' = Complete([listed |-> pending, out |-> replies], reply).out
      BY Zenon DEF RIL_onRequestComplete
    <3> HIDE DEF reply
    <3>4. pending' = FALSE /\ replies' = replies
      BY <3>1, <3>3
    <3> QED
      BY <2>1, <3>2, <3>4
  <2>3. Life'
    BY <1>1, <2>1, <2>2 DEF IInv, Life
  <2>4. Answer'
    <3>1. /\ \A x : Reply(x, command.response, given)' = Reply(x, command.response, given)
          /\ ResponsesTo(command.response)' = ResponsesTo(command.response)
      BY <1>1, <2>2, ReplyStays
    <3> QED
      BY <1>1, <2>2, <3>1 DEF IInv, Answer
  <2>5. OneReply'
    BY <2>2 DEF IInv, OneReply
  <2> QED
    BY <1>1, <1>4, <2>1, <2>2, <2>3, <2>4, <2>5 DEF IInv
<1> QED
  BY <1>2, <1>3

\* A message nobody asked for is no answer to a request.
LEMMA UnsolicitedStep ==
    ASSUME IInv, NEW f \in s_unsolResponses, NEW r \in Responses[f], RIL_onUnsolicitedResponse(f, r)
    PROVE  IInv'
<1>1. /\ command' = Entry("unsolicited", f) /\ given' = r
      /\ handed' = invalidCommandBlock(Parcel(<<>>))
      /\ calls = 0 /\ pending = FALSE /\ UNCHANGED <<version, sent, received, pending, calls>>
      /\ replies' = <<>> \/ replies' = <<Reply("unsolicited", f, r)>>
  BY DEF IInv, Life, RIL_onUnsolicitedResponse
<1>2. handed' # NULL /\ ~handed'.valid
  <2>1. <<>> \in Seq(Int)
    OBVIOUS
  <2> QED
    BY <1>1, <2>1, InvalidIsThere
<1>3. command' # NULL /\ command'.dispatch = "unsolicited" /\ command'.response = f
  BY <1>1, CommandAssumption DEF Entry
<1>4. Life'
  BY <1>1, <1>2, <1>3, Zenon DEF Life
<1>5. Answer'
  <2>1. Reply("unsolicited", command.response, given)' = Reply("unsolicited", f, r)
    <3>1. version' = version /\ given' = r /\ command'.response = f
      BY <1>1, <1>3
    <3> QED
      BY <3>1 DEF Reply, responseFunction
  <2>3. replies' \in {<<>>, <<Reply("unsolicited", command.response, given)>>}'
    BY <1>1, <2>1
  <2> QED
    BY <1>1, <1>2, <1>3, <2>3 DEF Answer
<1>6. OneReply'
  BY <1>1, Single DEF OneReply
<1>7. Taken' /\ Beginning'
  BY <1>1, <1>2 DEF IInv, Taken, Asked, Beginning
<1> QED
  BY <1>1, <1>2, <1>3, <1>4, <1>5, <1>6, <1>7 DEF IInv

\* The invariant holds in every state.
THEOREM Invariance == Spec => []IInv
<1>1. Init => IInv
  BY InitIInv
<1>2. IInv /\ [Next]_vars => IInv'
  <2> SUFFICES ASSUME IInv, [Next]_vars PROVE IInv'
    OBVIOUS
  <2>1. CASE \E c \in s_commands : \E supported \in {0, 1} : \E words \in Payloads[c.dispatch] :
                \E n \in 0..(Len(words) + 2) : Arrive(c, supported, words, n)
    BY <2>1, ArriveStep
  <2>2. CASE processCommandBuffer
    BY <2>2, ProcessStep
  <2>3. CASE \E r \in ResponsesTo(command.response) : \E e \in {"SUCCESS", "GENERIC_FAILURE"} :
                RIL_onRequestComplete(e, r)
    BY <2>3, CompletionStep
  <2>4. CASE \E f \in s_unsolResponses : \E r \in Responses[f] : RIL_onUnsolicitedResponse(f, r)
    BY <2>4, UnsolicitedStep
  <2>5. CASE UNCHANGED vars
    <3>1. /\ \A x : Reply(x, command.response, given)' = Reply(x, command.response, given)
          /\ ResponsesTo(command.response)' = ResponsesTo(command.response)
      BY <2>5, ReplyStays DEF vars
    <3>2. Answer'
      BY <2>5, <3>1 DEF vars, IInv, Answer
    <3>3. Life' /\ OneReply' /\ Beginning'
      BY <2>5 DEF vars, IInv, Life, OneReply, Beginning
    <3>4. Taken'
      BY <2>5, MadeStays DEF vars, IInv, Taken, Asked
    <3> QED
      BY <2>5, <3>2, <3>3, <3>4 DEF vars, IInv
  <2> QED
    BY <2>1, <2>2, <2>3, <2>4, <2>5 DEF Next
<1> QED
  BY <1>1, <1>2, PTL DEF Spec

-----------------------------------------------------------------------------
(* What follows                                                            *)

\* A response that the daemon refuses is told as refused and carries the version
\* at most; one that it takes keeps the vendor RIL's error.
THEOREM RefusedIsMarked == Spec => []RefusedReplyMarked
<1>1. IInv => RefusedReplyMarked
  <2> SUFFICES ASSUME IInv, replies # <<>>, given # NULL, command.dispatch # "unsolicited"
               PROVE  LET ret == responseFunction(command.response, given).ret IN
                      IF ret = OK THEN replies[1].error \in {"SUCCESS", "GENERIC_FAILURE"}
                      ELSE replies[1].error = ret /\ Len(Words) <= 1
    BY DEF RefusedReplyMarked
  <2> DEFINE out == responseFunction(command.response, given)
  <2>1. PICK e \in {"SUCCESS", "GENERIC_FAILURE"} :
            command \in s_commands /\ replies = <<Reply(e, command.response, given)>>
    BY DEF IInv, Life, Answer
  <2>2. Short(out)
    BY <2>1, RefusedIsShort
  <2>3. replies[1] = [error |-> IF out.ret = OK THEN e ELSE out.ret, words |-> out.words]
    BY <2>1 DEF Reply
  <2> HIDE DEF out
  <2>4. /\ replies[1].error = IF out.ret = OK THEN e ELSE out.ret
        /\ Words = out.words
    BY <2>3 DEF Words
  <2> QED
    BY <2>2, <2>4 DEF Short, out
<1> QED
  BY <1>1, Invariance, PTL

\* Whatever number the modem reports, what is written of it is a level that
\* the framework can show.
LEMMA LevelInRange ==
    ASSUME NEW raw \in Int
    PROVE  Level(raw) \in (0..31) \cup {99}
  BY DEF Level

-----------------------------------------------------------------------------
(* What the vendor RIL is handed                                           *)

\* The table of dispatch functions, looked up.
LEMMA DispatchesLookedUp ==
    ASSUME NEW p
    PROVE  /\ dispatchFunction("Void", p) = dispatchVoid(p)
           /\ dispatchFunction("String", p) = dispatchString(p)
           /\ dispatchFunction("Strings", p) = dispatchStrings(p)
           /\ dispatchFunction("Ints", p) = dispatchInts(p)
           /\ dispatchFunction("SmsWrite", p) = dispatchSmsWrite(p)
           /\ dispatchFunction("Dial", p) = dispatchDial(p, version)
           /\ dispatchFunction("SIM_IO", p) = dispatchSIM_IO(p, version)
           /\ dispatchFunction("CallForward", p) = dispatchCallForward(p)
           /\ dispatchFunction("Raw", p) = dispatchRaw(p)
           /\ dispatchFunction("CdmaSms", p) = dispatchCdmaSms(p)
           /\ dispatchFunction("CdmaSmsAck", p) = dispatchCdmaSmsAck(p)
           /\ dispatchFunction("GsmBrSmsCnf", p) = DispatchRows(p, GsmBrLayout)
           /\ dispatchFunction("CdmaBrSmsCnf", p) = DispatchRows(p, CdmaBrLayout)
           /\ dispatchFunction("RilCdmaSmsWriteArgs", p) = dispatchRilCdmaSmsWriteArgs(p)
           /\ dispatchFunction("DataCall", p) = dispatchDataCall(p, version)
BY DEF dispatchFunction, dispatchGsmBrSmsCnf, dispatchCdmaBrSmsCnf

Dispatches ==
    {"Void", "String", "Strings", "Ints", "SmsWrite", "Dial", "SIM_IO", "CallForward", "Raw",
     "CdmaSms", "CdmaSmsAck", "GsmBrSmsCnf", "CdmaBrSmsCnf", "RilCdmaSmsWriteArgs", "DataCall"}

\* Each dispatch function hands over what it could read.
LEMMA AllHanded ==
    ASSUME NEW d \in Dispatches, NEW p, Fine(p), p.ok = TRUE
    PROVE  Handed(dispatchFunction(d, p))
<1>1. CASE d = "Void"
  BY <1>1, VoidHanded, DispatchesLookedUp
<1>2. CASE d = "String"
  BY <1>2, StringHanded, DispatchesLookedUp
<1>3. CASE d = "Strings"
  BY <1>3, StringsHanded, DispatchesLookedUp
<1>4. CASE d = "Ints"
  BY <1>4, IntsHanded, DispatchesLookedUp
<1>5. CASE d = "SmsWrite"
  BY <1>5, SmsWriteHanded, DispatchesLookedUp
<1>6. CASE d = "Dial"
  BY <1>6, DialHanded, DispatchesLookedUp
<1>7. CASE d = "SIM_IO"
  BY <1>7, SIM_IOHanded, DispatchesLookedUp
<1>8. CASE d = "CallForward"
  BY <1>8, CallForwardHanded, DispatchesLookedUp
<1>9. CASE d = "Raw"
  BY <1>9, RawHanded, DispatchesLookedUp
<1>10. CASE d = "CdmaSms"
  BY <1>10, CdmaSmsHanded, DispatchesLookedUp
<1>11. CASE d = "CdmaSmsAck"
  BY <1>11, CdmaSmsAckHanded, DispatchesLookedUp
<1>12. CASE d = "GsmBrSmsCnf"
  BY <1>12, RowsHanded, DispatchesLookedUp
<1>13. CASE d = "CdmaBrSmsCnf"
  BY <1>13, RowsHanded, DispatchesLookedUp
<1>14. CASE d = "RilCdmaSmsWriteArgs"
  BY <1>14, WriteArgsHanded, DispatchesLookedUp
<1>15. CASE d = "DataCall"
  BY <1>15, DataCallHanded, DispatchesLookedUp
<1> QED
  BY <1>1, <1>2, <1>3, <1>4, <1>5, <1>6, <1>7, <1>8, <1>9, <1>10, <1>11, <1>12, <1>13, <1>14,
     <1>15 DEF Dispatches

\* What was handed over was read of the parcel, and no number of it was missing.
LEMMA AskedFine ==
    ASSUME IInv, Asked
    PROVE  Fine(handed.p) /\ handed.p.ok = TRUE
<1> DEFINE p == Parcel(SubSeq(received, 3, Len(received)))
           asks == command.dispatch \in {"VoiceRadioTech", "CdmaSubscriptionSource"}
<1>1. handed # NULL /\ handed.valid /\ handed = Made
  BY DEF Asked, IInv, Taken
<1>2. command \in s_commands
  BY <1>1 DEF IInv, Life
<1>3. asks \/ command.dispatch \in Dispatches
  BY <1>2 DEF s_commands, Entry, Dispatches
<1>4. Fine(p) /\ p.ok = TRUE
  BY BeginningWords, FreshParcel DEF IInv
<1>5. Made = IF asks THEN dispatchVoid(p) ELSE dispatchFunction(command.dispatch, p)
  BY Zenon DEF Made
<1> HIDE DEF asks, p
<1>6. Handed(Made)
  <2>1. CASE asks
    BY <1>4, <1>5, <2>1, VoidHanded
  <2>2. CASE ~asks
    BY <1>3, <1>4, <1>5, <2>2, AllHanded
  <2> QED
    BY <2>1, <2>2
<1> QED
  BY <1>1, <1>6 DEF Handed

\* What was read is never the mark of a failed read: not in a field, not in a list.
LEMMA NothingUnread ==
    /\ \A f : Unread \notin TypeOf("args", f)
    /\ \A f \in {"ints", "digits", "subdigits", "aBearerData"} : \A s \in TypeOf("args", f) :
           \A i \in DOMAIN s : s[i] # Unread
    /\ \A s \in TypeOf("args", "rows") : \A i \in DOMAIN s : \A f \in DOMAIN s[i] : s[i][f] # Unread
<1>1. Unread \notin Int \cup Texts \cup Seq(Texts) \cup Seq(Int)
  BY ParcelAssumption DEF Texts
<1>2. Unread \notin Rows(GsmBrLayout) \cup Rows(CdmaBrLayout)
  BY DispatchAssumption
<1>3. \A f : Unread \notin TypeOf("args", f)
  BY <1>1, <1>2 DEF TypeOf
<1>4. ASSUME NEW f \in {"ints", "digits", "subdigits", "aBearerData"}, NEW s \in TypeOf("args", f),
             NEW i \in DOMAIN s
      PROVE  s[i] # Unread
  <2>1. s \in Seq(Int)
    BY TypesOf
  <2>2. s[i] \in Int
    BY <2>1, ElementOfSeq, LenProperties
  <2> QED
    BY <1>1, <2>2
<1>5. ASSUME NEW s \in TypeOf("args", "rows"), NEW i \in DOMAIN s, NEW f \in DOMAIN s[i]
      PROVE  s[i][f] # Unread
  <2>1. PICK layout \in {GsmBrLayout, CdmaBrLayout} : s \in Rows(layout)
    BY TypesOf
  <2> DEFINE names == Names(layout)
  <2>2. s \in Seq([names -> Int])
    BY <2>1 DEF Rows
  <2> HIDE DEF names
  <2>3. s[i] \in [names -> Int]
    BY <2>2, ElementOfSeq, LenProperties
  <2> QED
    BY <1>1, <2>3
<1> QED
  BY <1>3, <1>4, <1>5

\* However short a parcel arrives, and whatever is in it, no dispatch function hands
\* the vendor RIL a number that it could not read.
THEOREM NumbersAreRead == Spec => []NoNumberMadeUp
<1>1. IInv => NoNumberMadeUp
  <2> SUFFICES ASSUME IInv, Asked PROVE NoNumberMadeUp
    BY DEF NoNumberMadeUp
  <2>1. \A f \in DOMAIN Args : Args[f] \in TypeOf("args", f)
    BY AskedFine DEF Fine, Typed, Args
  <2>2. \A f \in DOMAIN Args : Args[f] # Unread
    BY <2>1, NothingUnread
  <2>3. \A f \in {"ints", "digits", "subdigits", "aBearerData"} \cap DOMAIN Args :
            \A i \in DOMAIN Args[f] : Args[f][i] # Unread
    BY <2>1, NothingUnread
  <2>4. "rows" \in DOMAIN Args =>
            \A i \in DOMAIN Args["rows"] : \A f \in DOMAIN Args["rows"][i] :
                Args["rows"][i][f] # Unread
    BY <2>1, NothingUnread
  <2> QED
    BY <2>2, <2>3, <2>4 DEF NoNumberMadeUp
<1> QED
  BY <1>1, Invariance, PTL

\* The parcel of a cut request and that of the whole one, before they are read.
LEMMA FreshAlong ==
    ASSUME Beginning
    PROVE  Along(Parcel(SubSeq(received, 3, Len(received))), Parcel(SubSeq(sent, 3, Len(sent))))
<1> DEFINE short == SubSeq(received, 3, Len(received))
           long  == SubSeq(sent, 3, Len(sent))
           p     == Parcel(short)
           q     == Parcel(long)
<1>1. PICK n \in 0..Len(sent) : received = SubSeq(sent, 1, n)
  BY DEF Beginning
<1>2. sent \in Seq(Int) /\ Len(sent) \in Nat /\ n \in Nat /\ n <= Len(sent)
  BY <1>1, LenProperties DEF Beginning
<1>3. received \in Seq(Int) /\ Len(received) = n /\ \A i \in 1..n : received[i] = sent[i]
  BY <1>1, <1>2
<1>4. short \in Seq(Int) /\ long \in Seq(Int)
  BY <1>2, <1>3
<1>5. /\ Len(short) = (IF 3 <= n THEN n - 2 ELSE 0)
      /\ Len(long) = (IF 3 <= Len(sent) THEN Len(sent) - 2 ELSE 0)
  BY <1>2, <1>3
<1>6. ASSUME NEW i \in 1..Len(short) PROVE short[i] = long[i]
  <2>1. 3 <= n /\ i \in 1..(n - 2) /\ i + 2 \in 1..n
    BY <1>2, <1>5, <1>6
  <2>2. short[i] = received[i + 2] /\ long[i] = sent[i + 2]
    BY <1>2, <1>3, <2>1
  <2> QED
    BY <1>3, <2>1, <2>2
<1>7. Len(short) <= Len(long)
  BY <1>2, <1>5
<1>8. /\ Fine(p) /\ p.ok = TRUE /\ p.pos = 0 /\ p.words = short
      /\ Fine(q) /\ q.ok = TRUE /\ q.pos = 0 /\ q.words = long
  BY <1>4, FreshParcel
<1>9. p.args = q.args
  BY DEF Parcel
<1> SUFFICES Along(p, q)
  OBVIOUS
<1> HIDE DEF short, long, p, q
<1>10. Shorter(p, q)
  BY <1>6, <1>7, <1>8 DEF Shorter, Fine
<1>11. InStep(p, q)
  BY <1>8 DEF InStep
<1>12. Agree(p, q, Missable)
  BY <1>8, <1>9 DEF Agree, SameBut
<1> QED
  BY <1>10, <1>11, <1>12 DEF Along, Follows

\* Each dispatch function hands over of a cut parcel what it does of the whole, unless
\* a string was cut.
LEMMA AllCut ==
    ASSUME NEW d \in Dispatches, NEW p, NEW q, Along(p, q), Fine(p), p.ok = TRUE, p.cut # TRUE
    PROVE  CutHonest(dispatchFunction(d, p), dispatchFunction(d, q))
<1> DEFINE out == dispatchFunction(d, p)
           whole == dispatchFunction(d, q)
<1>1. CASE d = "Strings"
  <2>1. CutHonest(dispatchStrings(p), dispatchStrings(q))
    BY StringsCut
  <2> QED
    BY <1>1, <2>1, DispatchesLookedUp
<1>2. CASE d = "DataCall"
  <2>1. CutHonest(dispatchDataCall(p, version), dispatchDataCall(q, version))
    BY DataCallCut
  <2> QED
    BY <1>2, <2>1, DispatchesLookedUp
<1>3. CASE d \notin {"Strings", "DataCall"}
  <2> SUFFICES Honest(out, whole)
    BY AllHanded, HonestWhole
  <2>1. CASE d = "Void"
    <3>1. Honest(dispatchVoid(p), dispatchVoid(q))
      BY AlongOk, HonestWays DEF dispatchVoid
    <3> QED
      BY <2>1, <3>1, DispatchesLookedUp
  <2>2. CASE d = "String"
    BY <2>2, StringHonest, DispatchesLookedUp
  <2>3. CASE d = "Ints"
    BY <2>3, IntsHonest, DispatchesLookedUp
  <2>4. CASE d = "SmsWrite"
    BY <2>4, SmsWriteHonest, DispatchesLookedUp
  <2>5. CASE d = "Dial"
    BY <2>5, DialHonest, DispatchesLookedUp
  <2>6. CASE d = "SIM_IO"
    BY <2>6, SIM_IOHonest, DispatchesLookedUp
  <2>7. CASE d = "CallForward"
    BY <2>7, CallForwardHonest, DispatchesLookedUp
  <2>8. CASE d = "Raw"
    BY <2>8, RawHonest, DispatchesLookedUp
  <2>9. CASE d = "CdmaSms"
    BY <2>9, CdmaSmsHonest, DispatchesLookedUp
  <2>10. CASE d = "CdmaSmsAck"
    BY <2>10, CdmaSmsAckHonest, DispatchesLookedUp
  <2>11. CASE d = "GsmBrSmsCnf"
    BY <2>11, RowsHonest, DispatchesLookedUp
  <2>12. CASE d = "CdmaBrSmsCnf"
    BY <2>12, RowsHonest, DispatchesLookedUp
  <2>13. CASE d = "RilCdmaSmsWriteArgs"
    BY <2>13, WriteArgsHonest, DispatchesLookedUp
  <2> QED
    BY <1>3, <2>1, <2>2, <2>3, <2>4, <2>5, <2>6, <2>7, <2>8, <2>9, <2>10, <2>11, <2>12, <2>13
       DEF Dispatches
<1> QED
  BY <1>1, <1>2, <1>3

\* A request cut short anywhere, but in a string, asks for what the whole one asks for:
\* only strings and blocks that did not arrive are missing.
THEOREM CutRequestsAreHonest == Spec => []CutRequestHonest
<1>1. IInv => CutRequestHonest
  <2> DEFINE p == Parcel(SubSeq(received, 3, Len(received)))
             q == Parcel(SubSeq(sent, 3, Len(sent)))
             asks == command.dispatch \in {"VoiceRadioTech", "CdmaSubscriptionSource"}
             whole == dispatchFunction(command.dispatch, q)
  <2> SUFFICES ASSUME IInv, Asked, ~asks PROVE CutRequestHonest
    BY DEF CutRequestHonest
  <2>1. handed # NULL /\ handed.valid /\ handed = Made
    BY DEF Asked, IInv, Taken
  <2>2. command \in s_commands
    BY <2>1 DEF IInv, Life
  <2>3. command.dispatch \in Dispatches
    BY <2>2 DEF s_commands, Entry, Dispatches
  <2>4. Fine(p) /\ p.ok = TRUE /\ p.cut # TRUE
    BY BeginningWords, FreshParcel DEF IInv
  <2>5. Along(p, q)
    BY FreshAlong DEF IInv
  <2>6. handed = dispatchFunction(command.dispatch, p)
    BY <2>1, Zenon DEF Made
  <2>7. handed.p.cut \in BOOLEAN
    BY AskedFine DEF Fine, Sound, IsParcel
  <2>8. handed.valid = TRUE
    <3>1. Handed(handed)
      BY <2>3, <2>4, <2>6, AllHanded
    <3> QED
      BY <2>1, <3>1 DEF Handed
  <2> HIDE DEF p, q, asks
  <2>9. CutHonest(handed, whole)
    BY <2>3, <2>4, <2>5, <2>6, AllCut
  <2> HIDE DEF whole
  <2>10. CASE handed.p.cut = TRUE
    BY <2>10 DEF CutRequestHonest
  <2>11. CASE handed.p.cut # TRUE
    <3>1. whole.valid = TRUE /\ AsWhole(Args, whole.p.args)
      BY <2>8, <2>9, <2>11 DEF CutHonest, Args
    <3> QED
      BY <3>1 DEF CutRequestHonest, AsWhole, whole, q
  <2> QED
    BY <2>10, <2>11
<1> QED
  BY <1>1, Invariance, PTL

-----------------------------------------------------------------------------
(* What the framework reads of a reply                                     *)

\* What the framework is told was made of what the vendor RIL gave, which is what
\* ril.h declares, and was not refused.
LEMMA Answered ==
    ASSUME IInv, NEW f, f # "SetupDataCall", ToldBy(f)
    PROVE  /\ Words = responseFunction(f, given).words
           /\ responseFunction(f, given).ret # "RIL_ERRNO_INVALID_RESPONSE"
           /\ DOMAIN given = {"data", "size"}
           /\ given.data = NULL \/ Declared(f, given)
<1>1. /\ command # NULL /\ handed # NULL /\ given # NULL /\ command.response = f
      /\ replies # <<>> /\ replies[1].error \in {"SUCCESS", "unsolicited"}
  BY DEF ToldBy, Told, IInv, Life
<1>2. f \in {c.response : c \in s_commands} \cup s_unsolResponses
  BY <1>1 DEF IInv, Entry
<1>3. PICK e : /\ replies = <<Reply(e, f, given)>> /\ given \in Responses[f]
  <2>1. CASE command.dispatch = "unsolicited" /\ given \in Responses[f]
             /\ replies \in {<<>>, <<Reply("unsolicited", f, given)>>}
    BY <1>1, <2>1
  <2>2. CASE /\ given \in ResponsesTo(f)
             /\ \E e \in {"SUCCESS", "GENERIC_FAILURE"} : replies = <<Reply(e, f, given)>>
    <3>1. given \in Responses[f]
      BY <1>1, <2>2 DEF ResponsesTo
    <3> QED
      BY <2>2, <3>1
  <2> QED
    BY <1>1, <2>1, <2>2 DEF IInv, Answer
<1> DEFINE out == responseFunction(f, given)
<1>4. replies[1] = [error |-> IF out.ret = OK THEN e ELSE out.ret, words |-> out.words]
  BY <1>1, <1>3, Single DEF Reply
<1> HIDE DEF out
<1>5. Words = out.words /\ out.ret # "RIL_ERRNO_INVALID_RESPONSE"
  BY <1>1, <1>4 DEF Words, OK
<1>6. DOMAIN given = {"data", "size"} /\ (given.data = NULL \/ Declared(f, given))
  BY <1>2, <1>3, ResponsesAssumption
<1> QED
  BY <1>5, <1>6 DEF out

\* StuttgartRIL's twelve numbers: seven that were written, and five of its own.
LEMMA SignalBack ==
    ASSUME NEW s \in Seq(Int), Len(s) = 7, NEW rest \in Seq(Int)
    PROVE  /\ WriteArray(s, "int") \in Seq(Int)
           /\ JavaSignalStrength(WriteArray(s, "int") \o rest) = s \o [i \in 1..5 |-> -1]
<1> DEFINE w == WriteArray(s, "int")
           p == Parcel(w \o rest)
           r == ReadArray(p, "response", 7, "int")
<1>1. "int" \in Kinds /\ Exact("int") = Int /\ Values("int") = Int
  BY DEF Kinds, Exact, Values
<1>2. w \in Seq(Int)
  <2>1. \A v \in Int : Write("int", v) \in Seq(Int)
    BY <1>1, ValueWritten
  <2> QED
    BY <1>1, <2>1, ArrayWritten DEF w
<1> HIDE DEF w
<1>3. w \o rest \in Seq(Int) /\ Ahead(p, w \o rest) /\ p.args = <<>>
  BY <1>2, ConcatProperties, AheadFresh
<1> HIDE DEF p
<1>4. Ahead(p, w)
  BY <1>2, <1>3, AheadParts
<1>5. ReadArray(p, "response", Len(s), "int") = Past(p, Len(w), Put(p.args, "response", s))
  BY <1>1, <1>4, ArrayReadsBack DEF w
<1>6. r.args["response"] = s
  BY <1>5, PastFields DEF Put
<1> QED
  BY <1>2, <1>6 DEF JavaSignalStrength, p, w

\* The names of the levels, and of what LTE adds.
Levels == <<"gsmSignalStrength", "bitErrorRate", "cdmaDbm", "cdmaEcio", "evdoDbm", "evdoEcio",
            "evdoSnr">>
LteLevels == <<"lteSignalStrength", "rsrp", "rsrq", "rssnr", "cqi">>

\* Whatever numbers the modem reports, in either version of the structure, the twelve
\* that StuttgartRIL reads are numbers, and the levels among them in range.
THEOREM SignalIsReadable == Spec => []SignalReadable
<1>1. IInv => SignalReadable
  <2> SUFFICES ASSUME IInv, ToldBy("SignalStrength") PROVE SignalReadable
    BY DEF SignalReadable
  <2> DEFINE d == given.data
             out == responseRilSignalStrength(given, version)
             levels == [d EXCEPT !["gsmSignalStrength"] = Level(@), !["cdmaDbm"] = Level(@),
                                 !["evdoDbm"] = Level(@),
                                 !["rsrp"] = IF version <= 6 /\ @ < 0 THEN -@ ELSE @]
             s == [i \in 1..Len(Levels) |-> levels[Levels[i]]]
             old == WriteArray(s, "int")
  <2>1. /\ Words = out.words /\ out.ret # "RIL_ERRNO_INVALID_RESPONSE"
        /\ d = NULL \/ Declared("SignalStrength", given)
    BY Answered, LookedUp
  <2>2. /\ d # NULL /\ given.size \in {"v5", "v6"}
        /\ out = Done(WriteStruct(levels, IF given.size = "v6" THEN Ints(Levels) \o Ints(LteLevels)
                                          ELSE Ints(Levels)))
    <3>1. out = IF d = NULL \/ given.size \notin {"v5", "v6"} THEN Refused(<<>>)
                ELSE Done(WriteStruct(levels, IF given.size = "v6"
                                              THEN Ints(Levels) \o Ints(LteLevels)
                                              ELSE Ints(Levels)))
      BY Zenon DEF responseRilSignalStrength, Levels, LteLevels
    <3>2. Refused(<<>>).ret = "RIL_ERRNO_INVALID_RESPONSE"
      BY DEF Refused
    <3> HIDE DEF levels
    <3> QED
      BY <2>1, <3>1, <3>2
  <2>3. /\ d = [name \in DOMAIN d |-> d[name]] /\ HasFields(d, Ints(Levels))
        /\ given.size = "v6" => HasFields(d, Ints(LteLevels))
    BY <2>1, <2>2 DEF Declared, Levels, LteLevels
  <2>4. /\ Levels \in Seq(Range(Levels)) /\ Len(Levels) = 7
        /\ LteLevels \in Seq(Range(LteLevels)) /\ Len(LteLevels) = 5
    BY DEF Levels, LteLevels, Range
  <2>5. /\ \A i \in 1..7 : Levels[i] \in DOMAIN d /\ d[Levels[i]] \in Int
        /\ given.size = "v6" => \A i \in 1..5 : LteLevels[i] \in DOMAIN d /\ d[LteLevels[i]] \in Int
    BY <2>3, <2>4, NumbersWritten
  <2>6. /\ DOMAIN levels = DOMAIN d
        /\ \A name \in DOMAIN d :
              levels[name] = IF name \in {"gsmSignalStrength", "cdmaDbm", "evdoDbm"}
                             THEN Level(d[name])
                             ELSE IF name = "rsrp" /\ version <= 6 /\ d[name] < 0 THEN -d[name]
                             ELSE d[name]
    BY <2>3
  <2> HIDE DEF levels
  <2>7. \A name \in DOMAIN d : d[name] \in Int => levels[name] \in Int
    BY <2>6, LevelInRange
  <2>8. /\ \A i \in 1..7 : levels[Levels[i]] \in Int
        /\ given.size = "v6" => \A i \in 1..5 : levels[LteLevels[i]] \in Int
    BY <2>5, <2>7
  <2>9. s \in Seq(Int) /\ Len(s) = 7
    BY <2>4, <2>8
  <2>10. PICK rest \in Seq(Int) : out.words = old \o rest
    <3>1. WriteStruct(levels, Ints(Levels)) = old
      BY <2>4, NumbersWritten
    <3>2. Holds(levels, Ints(Levels)) /\ old \in Seq(Int)
      <4>1. HasFields(levels, Ints(Levels)) /\ IsLayout(Ints(Levels))
        BY <2>4, <2>5, <2>6, <2>8, NumbersWritten, NumbersFit
      <4> QED
        BY <3>1, <4>1, StructWritten DEF Holds
    <3> HIDE DEF old
    <3>3. CASE given.size = "v6"
      <4> DEFINE lte == WriteStruct(levels, Ints(LteLevels))
      <4>1. Holds(levels, Ints(LteLevels))
        BY <2>4, <2>5, <2>6, <2>8, <3>3, NumbersWritten, NumbersFit DEF Holds
      <4>2. WriteStruct(levels, Ints(Levels) \o Ints(LteLevels)) = old \o lte
        BY <3>1, <3>2, <4>1, StructParts DEF Holds
      <4>3. lte \in Seq(Int)
        BY <4>1, StructWritten
      <4> QED
        BY <2>2, <3>3, <4>2, <4>3, SMTT(60) DEF Done
    <3>4. CASE given.size # "v6"
      <4> DEFINE none == <<>>
      <4>1. none \in Seq(Int) /\ old \o none = old
        BY <3>2, ConcatEmptySeq
      <4>2. out.words = old
        BY <2>2, <3>1, <3>4 DEF Done
      <4> QED
        BY <4>1, <4>2
    <3> QED
      BY <3>3, <3>4
  <2> DEFINE r == JavaSignalStrength(Words)
             five == [i \in 1..5 |-> -1]
  <2>11. r = s \o five
    BY <2>1, <2>9, <2>10, SignalBack
  <2>12. /\ five \in Seq(Int) /\ Len(five) = 5
    OBVIOUS
  <2> HIDE DEF r, five
  <2>13. r \in Seq(Int) /\ Len(r) = 12 /\ \A i \in 1..7 : r[i] = s[i]
    <3> HIDE DEF s
    <3> DEFINE both == s \o five
    <3>1. /\ both \in Seq(Int) /\ Len(both) = Len(s) + Len(five)
          /\ \A i \in 1..(Len(s) + Len(five)) :
                both[i] = IF i <= Len(s) THEN s[i] ELSE five[i - Len(s)]
      BY <2>9, <2>12, ConcatProperties
    <3>2. r = both
      BY <2>11
    <3> HIDE DEF both
    <3> QED
      BY <2>9, <2>12, <3>1, <3>2
  <2>14. \A i \in 1..12 : r[i] # Unread
    <3>1. \A i \in 1..12 : r[i] \in Int
      BY <2>13, ElementOfSeq
    <3> QED
      BY <3>1, ParcelAssumption
  <2>15. /\ Levels[1] = "gsmSignalStrength" /\ Levels[2] = "bitErrorRate"
         /\ Levels[3] = "cdmaDbm" /\ Levels[5] = "evdoDbm"
    BY DEF Levels
  <2>16. \A i \in 1..7 : r[i] = levels[Levels[i]]
    BY <2>4, <2>13
  <2>17. \A i \in {1, 3, 5} : r[i] \in (0..31) \cup {99}
    <3> TAKE i \in {1, 3, 5}
    <3>1. i \in 1..7 /\ Levels[i] \in {"gsmSignalStrength", "cdmaDbm", "evdoDbm"}
      BY <2>15
    <3>2. r[i] = Level(d[Levels[i]]) /\ d[Levels[i]] \in Int
      BY <2>5, <2>6, <2>16, <3>1
    <3> DEFINE raw == d[Levels[i]]
    <3> HIDE DEF raw
    <3>3. raw \in Int => Level(raw) \in (0..31) \cup {99}
      BY LevelInRange
    <3> QED
      BY <3>2, <3>3 DEF raw
  <2>18. r[2] = d["bitErrorRate"]
    <3>1. 2 \in 1..7 /\ "bitErrorRate" \in DOMAIN d
      BY <2>5, <2>15
    <3>2. levels["bitErrorRate"] = d["bitErrorRate"]
      BY <2>6, <3>1
    <3> QED
      BY <2>15, <2>16, <3>1, <3>2
  <2> QED
    BY <2>13, <2>14, <2>17, <2>18 DEF SignalReadable, r
<1> QED
  BY <1>1, Invariance, PTL

\* The walk of responseStringsNetworks over the strings.
NetworkStep(a, str) ==
    IF a.j = 4 THEN [a EXCEPT !.j = 0] ELSE [j |-> a.j + 1, out |-> Append(a.out, str)]
Walk(r, s, n) ==
    r = [i \in 0..n |-> IF i = 0 THEN [j |-> 0, out |-> <<>>] ELSE NetworkStep(r[i - 1], s[i])]

LEMMA WalkExists ==
    ASSUME NEW s, NEW n \in Nat
    PROVE  \E r : Walk(r, s, n)
<1> DEFINE T == {k \in Nat : \E r : Walk(r, s, k)}
           start == [j |-> 0, out |-> <<>>]
<1>1. 0 \in T
  <2>1. Walk([i \in 0..0 |-> start], s, 0)
    BY DEF Walk
  <2> QED
    BY <2>1
<1>2. ASSUME NEW k \in T PROVE k + 1 \in T
  <2>1. PICK r : Walk(r, s, k)
    BY <1>2
  <2>2. k \in Nat
    OBVIOUS
  <2> DEFINE t == [i \in 0..(k + 1) |-> IF i = 0 THEN start ELSE NetworkStep(r[i - 1], s[i])]
  <2>3. \A i \in 0..k : t[i] = r[i]
    <3> HIDE DEF start
    <3>1. r = [i \in 0..k |-> IF i = 0 THEN start ELSE NetworkStep(r[i - 1], s[i])]
      BY <2>1 DEF Walk, start
    <3> QED
      BY <2>2, <3>1
  <2>4. Walk(t, s, k + 1)
    <3>1. \A i \in 0..(k + 1) : i # 0 => i - 1 \in 0..k
      BY <2>2
    <3>2. \A i \in 0..(k + 1) : i # 0 => r[i - 1] = t[i - 1]
      BY <2>3, <3>1
    <3> HIDE DEF start
    <3>3. t = [i \in 0..(k + 1) |-> IF i = 0 THEN start ELSE NetworkStep(t[i - 1], s[i])]
      BY <2>2, <3>2
    <3> QED
      BY <3>3 DEF Walk, start
  <2> QED
    BY <2>2, <2>4
<1> HIDE DEF T
<1>3. T = Nat
  <2>1. T \subseteq Nat
    BY DEF T
  <2> QED
    BY <1>1, <1>2, <2>1, SetInduction
<1> QED
  BY <1>3 DEF T

LEMMA NetworksWalk ==
    ASSUME NEW r, Len(Elements(r)) \in Nat
    PROVE  \E k : /\ Walk(k, Elements(r), Len(Elements(r)))
                  /\ responseStringsNetworks(r)
                         = DoneIf(FitsList(r), <<(Len(Elements(r)) \div 5) * 4>>
                                               \o WriteArray(k[Len(Elements(r))].out, "str"))
<1> DEFINE k == CHOOSE k : Walk(k, Elements(r), Len(Elements(r)))
<1>1. Walk(k, Elements(r), Len(Elements(r)))
  BY WalkExists, Zenon
<1>2. responseStringsNetworks(r)
          = DoneIf(FitsList(r), <<(Len(Elements(r)) \div 5) * 4>>
                                \o WriteArray(k[Len(Elements(r))].out, "str"))
  BY DEF responseStringsNetworks, Walk, NetworkStep
<1> HIDE DEF k
<1> QED
  BY <1>1, <1>2

\* Of the first k networks the first four strings each.
Grouped(o, s, k) ==
    /\ o \in Seq(Texts) /\ Len(o) = 4 * k
    /\ \A i \in 1..k : \A j \in 1..4 : o[(i - 1) * 4 + j] = s[(i - 1) * 5 + j]

\* Five strings more are four more of them.
LEMMA NetworkMore ==
    ASSUME NEW s \in Seq(Texts), NEW k \in Nat, 5 * k + 5 <= Len(s), NEW o, Grouped(o, s, k),
           NEW a, a = Append(Append(Append(Append(o, s[5 * k + 1]), s[5 * k + 2]), s[5 * k + 3]),
                             s[5 * k + 4])
    PROVE  Grouped(a, s, k + 1)
<1> DEFINE x == s[5 * k + 1]  y == s[5 * k + 2]  z == s[5 * k + 3]  u == s[5 * k + 4]
<1>1. Len(s) \in Nat /\ x \in Texts /\ y \in Texts /\ z \in Texts /\ u \in Texts
  BY LenProperties, ElementOfSeq
<1>2. o \in Seq(Texts) /\ Len(o) = 4 * k
  BY DEF Grouped
<1> HIDE DEF x, y, z, u
<1>3. a = Append(Append(Append(Append(o, x), y), z), u)
  BY DEF x, y, z, u
<1>4. /\ a \in Seq(Texts) /\ Len(a) = 4 * k + 4
      /\ \A i \in 1..(4 * k) : a[i] = o[i]
      /\ a[4 * k + 1] = x /\ a[4 * k + 2] = y /\ a[4 * k + 3] = z /\ a[4 * k + 4] = u
  <2> DEFINE n == 4 * k  b == Append(o, x)  c == Append(b, y)  d == Append(c, z)  e == Append(d, u)
  <2>1. n \in Nat /\ Len(o) = n
    BY <1>2
  <2> HIDE DEF n
  <2>2. b \in Seq(Texts) /\ Len(b) = n + 1 /\ b[n + 1] = x /\ \A i \in 1..n : b[i] = o[i]
    BY <1>1, <1>2, <2>1, AppendProperties
  <2> HIDE DEF b
  <2>3. /\ c \in Seq(Texts) /\ Len(c) = n + 2 /\ c[n + 2] = y
        /\ \A i \in 1..(n + 1) : c[i] = b[i]
    BY <1>1, <2>1, <2>2
  <2> HIDE DEF c
  <2>4. /\ d \in Seq(Texts) /\ Len(d) = n + 3 /\ d[n + 3] = z
        /\ \A i \in 1..(n + 2) : d[i] = c[i]
    BY <1>1, <2>1, <2>3
  <2> HIDE DEF d
  <2>5. /\ e \in Seq(Texts) /\ Len(e) = n + 4 /\ e[n + 4] = u
        /\ \A i \in 1..(n + 3) : e[i] = d[i]
    BY <1>1, <2>1, <2>4
  <2>6. a = e
    BY <1>3 DEF b, c, d
  <2> HIDE DEF e
  <2>7. (\A i \in 1..n : a[i] = o[i]) /\ a[n + 1] = x /\ a[n + 2] = y /\ a[n + 3] = z
    BY <2>1, <2>2, <2>3, <2>4, <2>5, <2>6
  <2> QED
    BY <2>5, <2>6, <2>7 DEF n
<1>5. ASSUME NEW i \in 1..(k + 1), NEW j \in 1..4 PROVE a[(i - 1) * 4 + j] = s[(i - 1) * 5 + j]
  <2>1. CASE i \in 1..k
    <3>1. (i - 1) * 4 + j \in 1..(4 * k)
      BY <2>1
    <3> QED
      BY <1>4, <2>1, <3>1 DEF Grouped
  <2>2. CASE i = k + 1
    <3>1. (i - 1) * 4 + j = 4 * k + j /\ (i - 1) * 5 + j = 5 * k + j /\ j \in {1, 2, 3, 4}
      BY <2>2
    <3>2. a[4 * k + j] = s[5 * k + j]
      BY <1>4, <3>1 DEF x, y, z, u
    <3> QED
      BY <3>1, <3>2
  <2>3. i \in 1..k \/ i = k + 1
    OBVIOUS
  <2> HIDE DEF x, y, z, u
  <2> QED
    BY <2>1, <2>2, <2>3
<1>6. Len(a) = 4 * (k + 1)
  BY <1>4
<1> QED
  BY <1>4, <1>5, <1>6 DEF Grouped

\* At the end of the walk over whole networks.
LEMMA WalkGroups ==
    ASSUME NEW s \in Seq(Texts), NEW m \in Nat, Len(s) = 5 * m, NEW r, Walk(r, s, Len(s))
    PROVE  Grouped(r[Len(s)].out, s, m)
<1> DEFINE state(j, o) == [j |-> j, out |-> o]
           none == <<>>
           good(k) == \E o : r[5 * k] = state(0, o) /\ Grouped(o, s, k)
           U == {k \in 0..m : good(k)}
<1>1. /\ r[0] = state(0, none)
      /\ \A i \in 1..(5 * m) : r[i] = NetworkStep(r[i - 1], s[i])
  BY DEF Walk
<1>2. \A o, str : /\ NetworkStep(state(0, o), str) = state(1, Append(o, str))
                  /\ NetworkStep(state(1, o), str) = state(2, Append(o, str))
                  /\ NetworkStep(state(2, o), str) = state(3, Append(o, str))
                  /\ NetworkStep(state(3, o), str) = state(4, Append(o, str))
                  /\ NetworkStep(state(4, o), str) = state(0, o)
  BY DEF NetworkStep
<1>3. \A j, o : state(j, o).out = o
  OBVIOUS
<1> HIDE DEF state
<1>4. good(0)
  <2>1. Grouped(none, s, 0)
    BY DEF Grouped
  <2> QED
    BY <1>1, <2>1
<1>5. ASSUME NEW k \in 0..(m - 1), good(k) PROVE good(k + 1)
  <2>1. PICK o : r[5 * k] = state(0, o) /\ Grouped(o, s, k)
    BY <1>5
  <2>2. /\ 5 * k + 1 \in 1..(5 * m) /\ 5 * k + 1 - 1 = 5 * k
        /\ 5 * k + 2 \in 1..(5 * m) /\ 5 * k + 2 - 1 = 5 * k + 1
        /\ 5 * k + 3 \in 1..(5 * m) /\ 5 * k + 3 - 1 = 5 * k + 2
        /\ 5 * k + 4 \in 1..(5 * m) /\ 5 * k + 4 - 1 = 5 * k + 3
        /\ 5 * k + 5 \in 1..(5 * m) /\ 5 * k + 5 - 1 = 5 * k + 4
        /\ 5 * (k + 1) = 5 * k + 5
    OBVIOUS
  <2> DEFINE a == Append(o, s[5 * k + 1])
             b == Append(a, s[5 * k + 2])
             c == Append(b, s[5 * k + 3])
             d == Append(c, s[5 * k + 4])
  <2>3. r[5 * k + 1] = state(1, a)
    BY <1>1, <1>2, <2>1, <2>2, SMTT(60)
  <2>4. r[5 * k + 2] = state(2, b)
    <3> HIDE DEF a
    <3> QED
      BY <1>1, <1>2, <2>2, <2>3, SMTT(60)
  <2>5. r[5 * k + 3] = state(3, c)
    <3> HIDE DEF b
    <3> QED
      BY <1>1, <1>2, <2>2, <2>4, SMTT(60)
  <2>6. r[5 * k + 4] = state(4, d)
    <3> HIDE DEF c
    <3> QED
      BY <1>1, <1>2, <2>2, <2>5, SMTT(60)
  <2>7. r[5 * (k + 1)] = state(0, d)
    <3> HIDE DEF d
    <3> QED
      BY <1>1, <1>2, <2>2, <2>6, SMTT(60)
  <2>8. Grouped(d, s, k + 1)
    <3>1. k \in Nat /\ 5 * k + 5 <= Len(s)
      OBVIOUS
    <3> QED
      BY <2>1, <3>1, NetworkMore, Zenon
  <2> HIDE DEF d
  <2> QED
    BY <2>7, <2>8
<1> HIDE DEF good
<1>6. 0 \in U /\ \A k \in 0..(m - 1) : k \in U => k + 1 \in U
  <2>1. 0 \in U
    BY <1>4
  <2>2. \A k \in 0..(m - 1) : k + 1 \in 0..m
    OBVIOUS
  <2> QED
    BY <1>5, <2>1, <2>2
<1> HIDE DEF U
<1>7. 0..m \subseteq U
  BY <1>6, BoundedInduction
<1>8. good(m)
  <2>1. m \in 0..m
    OBVIOUS
  <2> QED
    BY <1>7, <2>1 DEF U
<1>9. PICK o : r[5 * m] = state(0, o) /\ Grouped(o, s, m)
  BY <1>8 DEF good
<1> QED
  BY <1>3, <1>9

\* Of the networks the modem sends, the framework is told the first four of five strings
\* each, and as many strings as are announced.
THEOREM NetworksAreGrouped == Spec => []NetworksGrouped
<1>1. IInv => NetworksGrouped
  <2> SUFFICES ASSUME IInv, ToldBy("StringsNetworks"), Len(Elements(given)) % 5 = 0
               PROVE  NetworksGrouped
    BY DEF NetworksGrouped
  <2> DEFINE s == Elements(given)
             out == responseStringsNetworks(given)
             m == Len(s) \div 5
  <2>1. /\ Words = out.words /\ out.ret # "RIL_ERRNO_INVALID_RESPONSE"
        /\ given.data = NULL \/ Declared("StringsNetworks", given)
    BY Answered, LookedUp
  <2>2. s \in Seq(Texts)
    <3>1. given.data # NULL => given.data \in Seq(Texts)
      BY <2>1 DEF Declared
    <3> QED
      BY <3>1 DEF Elements
  <2>3. Len(s) \in Nat /\ m \in Nat /\ Len(s) = 5 * m
    <3>1. Len(s) \in Nat
      BY <2>2, LenProperties
    <3> DEFINE n == Len(s)
    <3>2. n \in Nat /\ n % 5 = 0
      BY <3>1
    <3> HIDE DEF n
    <3>3. n \div 5 \in Nat /\ n = 5 * (n \div 5)
      BY <3>2
    <3> QED
      BY <3>1, <3>3 DEF n
  <2>4. PICK r : /\ Walk(r, s, Len(s))
                 /\ out = DoneIf(FitsList(given), <<m * 4>> \o WriteArray(r[Len(s)].out, "str"))
    BY <2>3, NetworksWalk
  <2> DEFINE o == r[Len(s)].out
  <2> HIDE DEF s, m, out
  <2>5. Grouped(o, s, m)
    BY <2>2, <2>3, <2>4, WalkGroups
  <2> HIDE DEF o
  <2>6. o \in Seq(Texts) /\ Len(o) = m * 4
    BY <2>3, <2>5 DEF Grouped
  <2>7. Words = <<Len(o)>> \o WriteArray(o, "str")
    <3>1. out = IF FitsList(given) THEN Done(<<Len(o)>> \o WriteArray(o, "str")) ELSE Refused(<<>>)
      BY <2>4, <2>6, Zenon DEF DoneIf, o
    <3> QED
      BY <2>1, <3>1 DEF Done, Refused
  <2> DEFINE back == dispatchStrings(Parcel(Words)).p
  <2>8. /\ back.args["count"] = m * 4 /\ dataAvail(back) = 0 /\ back.args["strings"] = o
    BY <2>6, <2>7, StringsReadBack DEF StringsBack
  <2> HIDE DEF back
  <2>9. \A i \in 1..m : \A j \in 1..4 : back.args["strings"][(i - 1) * 4 + j] = s[(i - 1) * 5 + j]
    BY <2>5, <2>8 DEF Grouped
  <2> QED
    BY <2>8, <2>9 DEF NetworksGrouped, back, s, m
<1> QED
  BY <1>1, Invariance, PTL

\* What is declared of a list or message that has a command of its own format.
LEMMA DeclaredFormats ==
    ASSUME NEW r
    PROVE  /\ Declared("Strings", r) => r.data \in Seq(Texts)
           /\ Declared("Raw", r) => r.data \in Seq(Int)
           /\ Declared("GsmBrSmsCnf", r) => IsStructs(r.data, GsmBrLayout)
           /\ Declared("CdmaBrSmsCnf", r) => IsStructs(r.data, CdmaBrLayout)
           /\ Declared("CallForwards", r) => IsStructs(r.data, ForwardLayout)
           /\ Declared("CdmaSms", r) => Message(r.data)
<1>1. /\ Declared("Strings", r) => r.data \in Seq(Texts)
      /\ Declared("Raw", r) => r.data \in Seq(Int)
  BY DEF Declared
<1>2. /\ Declared("GsmBrSmsCnf", r) => IsStructs(r.data, GsmBrLayout)
      /\ Declared("CdmaBrSmsCnf", r) => IsStructs(r.data, CdmaBrLayout)
  BY DEF Declared
<1>3. Declared("CallForwards", r) => IsStructs(r.data, ForwardLayout)
  BY SMTT(60) DEF Declared, ForwardLayout
<1>4. Declared("CdmaSms", r) => Message(r.data)
  BY DEF Declared, Message
<1> QED
  BY <1>1, <1>2, <1>3, <1>4

\* No structures are structures of any layout.
LEMMA NoStructs == ASSUME NEW layout PROVE IsStructs(<<>>, layout)
<1> DEFINE none == <<>>
<1>1. none \in Seq(Range(none)) /\ DOMAIN none = {}
  OBVIOUS
<1> HIDE DEF none
<1>2. IsStructs(none, layout)
  BY <1>1 DEF IsStructs
<1> QED
  BY <1>2 DEF none

\* What the response functions write of a list or a message, the dispatch functions
\* of the same format read back, whatever the vendor RIL gave.
THEOREM FormatIsTheSame == Spec => []SameFormat
<1>1. IInv => SameFormat
  <2> SUFFICES ASSUME IInv PROVE SameFormat
    OBVIOUS
  <2> DEFINE d == given.data
             p == Parcel(Words)
             s == Elements(given)
  <2>1. ASSUME NEW f, f # "SetupDataCall", ToldBy(f)
        PROVE  /\ Words = responseFunction(f, given).words
               /\ responseFunction(f, given).ret # "RIL_ERRNO_INVALID_RESPONSE"
               /\ DOMAIN given = {"data", "size"}
               /\ d = NULL \/ Declared(f, given)
    BY <2>1, Answered
  <2>2. /\ d = NULL => s = <<>>
        /\ d # NULL => s = d
    BY DEF Elements
  <2>3. /\ Refused(<<>>).ret = "RIL_ERRNO_INVALID_RESPONSE"
    BY DEF Refused
  <2> HIDE DEF d, s
  <2>4. ASSUME ToldBy("CdmaSms") PROVE Message(d) /\ SameMessage(d, dispatchCdmaSms(p))
    <3>1. /\ Words = responseCdmaSms(given).words
          /\ responseCdmaSms(given).ret # "RIL_ERRNO_INVALID_RESPONSE"
          /\ d = NULL \/ Declared("CdmaSms", given)
      BY <2>1, <2>4, ZenonT(60) DEF responseFunction
    <3>2. FitsStruct(given)
      BY <2>3, <3>1 DEF responseCdmaSms
    <3>3. Message(d)
      BY <3>1, <3>2, DeclaredFormats DEF FitsStruct, d
    <3> QED
      BY <3>1, <3>2, <3>3, CdmaSmsReadsBack DEF d
  <2>5. ASSUME ToldBy("GsmBrSmsCnf") PROVE SameRows(s, dispatchGsmBrSmsCnf(p))
    <3>1. /\ Words = responseGsmBrSmsCnf(given).words /\ DOMAIN given = {"data", "size"}
          /\ d = NULL \/ Declared("GsmBrSmsCnf", given)
      BY <2>1, <2>5, LookedUp
    <3>2. IsStructs(s, GsmBrLayout)
      BY <2>2, <3>1, NoStructs, DeclaredFormats DEF d
    <3> QED
      BY <3>1, <3>2, BrReadBack DEF s
  <2>6. ASSUME ToldBy("CdmaBrSmsCnf") PROVE SameRows(s, dispatchCdmaBrSmsCnf(p))
    <3>1. /\ Words = responseCdmaBrSmsCnf(given).words /\ DOMAIN given = {"data", "size"}
          /\ d = NULL \/ Declared("CdmaBrSmsCnf", given)
      BY <2>1, <2>6, LookedUp
    <3>2. IsStructs(s, CdmaBrLayout)
      BY <2>2, <3>1, NoStructs, DeclaredFormats DEF d
    <3> QED
      BY <3>1, <3>2, BrReadBack DEF s
  <2>7. ASSUME ToldBy("Strings")
        PROVE  dispatchStrings(p).valid = TRUE /\ dispatchStrings(p).p.args["strings"] = s
    <3>1. /\ Words = responseStrings(given).words
          /\ responseStrings(given).ret # "RIL_ERRNO_INVALID_RESPONSE"
          /\ d = NULL \/ Declared("Strings", given)
      BY <2>1, <2>7, LookedUp
    <3>2. Words = <<Len(s)>> \o WriteArray(s, "str")
      BY <2>3, <3>1 DEF responseStrings, DoneIf, Done, s
    <3>3. s \in Seq(Texts)
      <4>1. <<>> \in Seq(Texts)
        OBVIOUS
      <4> QED
        BY <2>2, <3>1, <4>1, DeclaredFormats DEF d
    <3> QED
      BY <3>2, <3>3, StringsReadBack DEF StringsBack
  <2>8. ASSUME ToldBy("Raw")
        PROVE  dispatchRaw(p).valid = TRUE /\ dispatchRaw(p).p.args["data"] = s
    <3>1. /\ Words = responseRaw(given).words
          /\ responseRaw(given).ret # "RIL_ERRNO_INVALID_RESPONSE"
          /\ d = NULL \/ Declared("Raw", given)
      BY <2>1, <2>8, LookedUp
    <3>2. FitsList(given)
      BY <2>3, <3>1 DEF responseRaw, DoneIf
    <3>3. given.data = NULL \/ given.data \in Seq(Int)
      BY <3>1, DeclaredFormats DEF d
    <3> QED
      BY <3>1, <3>2, <3>3, RawReadsBack DEF s
  <2>9. ASSUME ToldBy("CallForwards"), Len(s) = 1
        PROVE  SameForward(d[1], dispatchCallForward(Parcel(Tail(Words))))
    <3>1. /\ Words = responseCallForwards(given).words
          /\ responseCallForwards(given).ret # "RIL_ERRNO_INVALID_RESPONSE"
          /\ d = NULL \/ Declared("CallForwards", given)
      BY <2>1, <2>9, LookedUp
    <3>2. FitsList(given)
      BY <2>3, <3>1 DEF responseCallForwards, CountedRows
    <3>3. d # NULL /\ s = d
      <4>1. Len(<<>>) = 0
        OBVIOUS
      <4> QED
        BY <2>2, <2>9, <4>1
    <3>4. IsStructs(d, ForwardLayout)
      BY <3>1, <3>3, DeclaredFormats DEF d
    <3>5. DOMAIN d = 1..1 /\ d = <<d[1]>>
      <4>1. d \in Seq(Range(d)) /\ Len(d) = 1
        BY <2>9, <3>3, <3>4 DEF IsStructs
      <4> QED
        BY <4>1, Single
    <3>6. IsStruct(d[1], ForwardLayout)
      BY <3>4, <3>5 DEF IsStructs
    <3> QED
      BY <3>1, <3>2, <3>3, <3>5, <3>6, CallForwardReadsBack DEF s
  <2>10. ASSUME ToldBy("CdmaSms"), NEW f \in DOMAIN d
         PROVE  dispatchCdmaSms(p).p.args[f] =
                    CASE f = "digits"      -> First(d, f, "number_of_digits", AddressMax)
                      [] f = "subdigits"   -> First(d, f, "sub_digits", SubaddressMax)
                      [] f = "aBearerData" -> First(d, f, "uBearerDataLen", BearerMax)
                      [] OTHER             -> d[f]
    BY <2>4, <2>10, MessageFound, Zenon DEF SameMessage
  <2>11. ASSUME ToldBy("CdmaSms")
         PROVE  dispatchCdmaSms(p).valid /\ dataAvail(dispatchCdmaSms(p).p) = 0
    BY <2>4, <2>11, Zenon DEF SameMessage
  <2> HIDE DEF p
  <2> QED
    BY <2>5, <2>6, <2>7, <2>8, <2>9, <2>10, <2>11, Zenon
    DEF SameFormat, SameRows, SameForward, First, Part, d, s, p
<1> QED
  BY <1>1, Invariance, PTL

LEMMA DeclaredCalls ==
    ASSUME NEW r, Declared("CallList", r)
    PROVE  r.data \in Seq(Range(r.data)) /\ \A i \in DOMAIN r.data : IsCall(r.data[i])
BY DEF Declared, IsCall, IsUus

\* StuttgartRIL reads every call the vendor RIL listed, with its own strings and
\* user-to-user data, to the end of the reply, however many calls there are.
THEOREM CallsAreReadBack == Spec => []CallsReadBack
<1>1. IInv => CallsReadBack
  <2> SUFFICES ASSUME IInv, ToldBy("CallList") PROVE CallsReadBack
    BY DEF CallsReadBack
  <2> DEFINE s == Elements(given)
             r == JavaCallList(Words)
  <2>1. /\ Words = responseCallList(given, version).words
        /\ responseCallList(given, version).ret # "RIL_ERRNO_INVALID_RESPONSE"
        /\ given.data = NULL \/ Declared("CallList", given)
    BY Answered, LookedUp
  <2>2. FitsList(given)
    <3>1. Refused(<<>>).ret = "RIL_ERRNO_INVALID_RESPONSE"
      BY DEF Refused
    <3> QED
      BY <2>1, <3>1 DEF responseCallList, DoneIf
  <2>3. s \in Seq(Range(s)) /\ \A i \in DOMAIN s : IsCall(s[i])
    <3>1. CASE given.data = NULL
      <4>1. s = <<>>
        BY <3>1 DEF Elements
      <4> DEFINE none == <<>>
      <4>2. none \in Seq(Range(none)) /\ DOMAIN none = {}
        OBVIOUS
      <4> QED
        BY <4>1, <4>2
    <3>2. CASE given.data # NULL
      <4>1. s = given.data /\ Declared("CallList", given)
        BY <2>1, <3>2 DEF Elements
      <4> HIDE DEF s
      <4> QED
        BY <4>1, DeclaredCalls
    <3> QED
      BY <3>1, <3>2
  <2>4. SameCalls(s, version, r)
    BY <2>1, <2>2, <2>3, ListedCallsReadBack
  <2>5. ASSUME NEW i \in DOMAIN s, NEW f \in DOMAIN s[i]
        PROVE  r.args["calls"][i][f] =
                   IF f # "uusInfo" \/ s[i][f] = NULL THEN s[i][f]
                   ELSE IF version < 3 \/ s[i][f]["uusData"] = NULL THEN NULL ELSE s[i][f]
    <3>1. r.args["calls"][i] = JavaCallOf(s[i], version)
      BY <2>4 DEF SameCalls
    <3>2. IsCall(s[i])
      BY <2>3
    <3> HIDE DEF r, s
    <3> QED
      BY <3>1, <3>2, CallFound
  <2> HIDE DEF r
  <2> QED
    BY <2>4, <2>5, Zenon DEF CallsReadBack, SameCalls, s, r
<1> QED
  BY <1>1, Invariance, PTL

=============================================================================
