------------------------------ MODULE RilRadio ------------------------------
(***************************************************************************)
(* What an old vendor RIL's radio state means to the framework.            *)
(* libs/libril/ril.cpp decodes it into voiceRadioTech,                     *)
(* cdmaSubscriptionSource and simRuimStatus, in processRadioState on the   *)
(* vendor thread that announces a change, in processRadioState again on    *)
(* the event thread for the greeting of a connection, and in the dispatch  *)
(* functions of two requests; no lock orders them.                         *)
(*                                                                         *)
(* It is composed with RilConnection: the event thread greets whom it      *)
(* accepts, and does nothing else until the greeting is over.              *)
(***************************************************************************)
EXTENDS RilConnection

CONSTANTS
    Vendor,     \* the vendor RIL's thread
    Event,      \* the event thread
    Scripts,    \* sequences of radio states the vendor RIL goes through
    NULL

Threads == {Vendor, Event}
Fields  == {"tech", "source", "status"}


Sim  == {"SIM_NOT_READY", "SIM_LOCKED_OR_ABSENT", "SIM_READY"}
Ruim == {"RUIM_NOT_READY", "RUIM_READY", "RUIM_LOCKED_OR_ABSENT"}
Nv   == {"NV_NOT_READY", "NV_READY"}

\* RADIO_STATE_UNAVAILABLE < state < RADIO_STATE_ON: an old vendor RIL.
OldStates   == Sim \cup Ruim \cup Nv
RadioStates == OldStates \cup {"OFF", "UNAVAILABLE", "ON"}

ASSUME RadioAssumption ==
    /\ Vendor # Event /\ NULL \notin Fields /\ NULL \notin OldStates
    /\ \A s \in Scripts : s \in Seq(RadioStates)

Unknown == "-1"

decodeVoiceRadioTechnology(s) ==
    CASE s \in Sim -> "UMTS" [] s \in Ruim \cup Nv -> "1xRTT" [] OTHER -> Unknown

decodeCdmaSubscriptionSource(s) ==
    CASE s \in Sim \cup Ruim -> "RUIM_SIM" [] s \in Nv -> "NV" [] OTHER -> Unknown

decodeSimStatus(s) ==
    IF s \in {"SIM_LOCKED_OR_ABSENT", "SIM_READY", "RUIM_READY", "RUIM_LOCKED_OR_ABSENT"}
    THEN s ELSE Unknown

is3gpp2(tech) == tech = "1xRTT"

Decode(f, s) ==
    CASE f = "tech" -> decodeVoiceRadioTechnology(s)
      [] f = "source" -> decodeCdmaSubscriptionSource(s)
      [] f = "status" -> decodeSimStatus(s)

VARIABLES
    radioState,     \* what onStateRequest returns
    script,         \* the states it will go through
    cache,          \* the three globals, by field
    pc, field,      \* each thread's processRadioState or dispatch function
    newState,       \* its argument, or the state it was told
    value,          \* the payload of the message it is sending
    told,           \* history: what this framework knows, NULL before it was told
    raced           \* history: two threads were at it at once

threads   == <<pc, field, newState, value>>
radioVars == <<radioState, script, cache, threads, told, raced>>
vars      == <<connVars, radioVars>>

Busy(t) == pc[t] # "idle"
Goto(t, label) == pc' = [pc EXCEPT ![t] = label]
NoteRace(t) == raced' = (raced \/ \E u \in Threads \ {t} : Busy(u))

Init ==
    /\ ConnInit
    /\ radioState = "UNAVAILABLE" /\ script \in Scripts
    /\ cache = [f \in Fields |-> Unknown]
    /\ pc = [t \in Threads |-> "idle"]
    /\ field = [t \in Threads |-> NULL]
    /\ newState = [t \in Threads |-> NULL]
    /\ value = [t \in Threads |-> NULL]
    /\ told = [f \in Fields |-> NULL]
    /\ raced = FALSE

-----------------------------------------------------------------------------
(* processRadioState, for RIL_onUnsolicitedResponse(RADIO_STATE_CHANGED)   *)

\* It has something to do for an old vendor RIL only.
ProcessRadioState(t, s) ==
    IF s \in OldStates
    THEN /\ Goto(t, "compare")
         /\ field' = [field EXCEPT ![t] = "tech"]
         /\ newState' = [newState EXCEPT ![t] = s]
         /\ NoteRace(t)
    ELSE UNCHANGED <<pc, field, newState, raced>>

\* The radio changes, and the vendor RIL says so; before RIL_register nobody
\* listens.
RadioChanges ==
    /\ ~Busy(Vendor) /\ script # <<>>
    /\ radioState' = Head(script) /\ script' = Tail(script)
    /\ IF s_registerCalled THEN ProcessRadioState(Vendor, Head(script))
       ELSE UNCHANGED <<pc, field, newState, raced>>
    /\ UNCHANGED <<connVars, cache, value, told>>

\* A phone that is not 3GPP2 has no subscription source.
Advance(t) ==
    LET next == CASE field[t] = "status" -> NULL
                  [] field[t] = "tech" /\ is3gpp2(Decode("tech", newState[t])) -> "source"
                  [] OTHER -> "status"
    IN  /\ Goto(t, IF next = NULL THEN "idle" ELSE "compare")
        /\ field' = [field EXCEPT ![t] = next]
        /\ newState' = [newState EXCEPT ![t] = IF next = NULL THEN NULL ELSE @]

\* Fault: a change of the subscription source is not stored.
CompareOnly(t) ==
    /\ pc[t] = "compare"
    /\ LET f == field[t]  new == Decode(f, newState[t]) IN
       IF cache[f] # new
       THEN /\ cache' = IF f = "source" THEN cache ELSE [cache EXCEPT ![f] = new]
            /\ Goto(t, "marshal") /\ UNCHANGED <<field, newState>>
       ELSE Advance(t) /\ UNCHANGED cache
    /\ UNCHANGED <<connVars, radioState, script, value, told, raced>>

\* One field is compared; if it differs it is stored, and a message is begun.
CompareAndStore(t) ==
    /\ pc[t] = "compare"
    /\ LET f == field[t]  new == Decode(f, newState[t]) IN
       IF cache[f] # new
       THEN /\ cache' = [cache EXCEPT ![f] = new]
            /\ Goto(t, "marshal") /\ UNCHANGED <<field, newState>>
       ELSE Advance(t) /\ UNCHANGED cache
    /\ UNCHANGED <<connVars, radioState, script, value, told, raced>>

\* The payload is read from the global, whatever it holds by then.
Marshal(t) ==
    /\ pc[t] = "marshal"
    /\ value' = [value EXCEPT ![t] = cache[field[t]]]
    /\ Goto(t, "send")
    /\ UNCHANGED <<connVars, radioState, script, cache, field, newState, told, raced>>

Tell(f, v) == told' = IF open /\ peer = "connected" THEN [told EXCEPT ![f] = v] ELSE told

\* SIM_STATUS_CHANGED has no payload: the framework asks for what is there then.
Send(t) ==
    /\ pc[t] = "send"
    /\ Tell(field[t], IF field[t] = "status" THEN cache["status"] ELSE value[t])
    /\ value' = [value EXCEPT ![t] = NULL]
    /\ Advance(t)
    /\ UNCHANGED <<connVars, radioState, script, cache, raced>>

RadioStep(t) == CompareAndStore(t) \/ Marshal(t) \/ Send(t)

-----------------------------------------------------------------------------
(* dispatchVoiceRadioTech and dispatchCdmaSubscriptionSource               *)

\* An old vendor RIL is asked for its state; the request to a newer one goes on to it.
DispatchQuery(f) ==
    /\ ~Busy(Event) /\ loop \in {"select", "callbacks"}
    /\ peer = "connected" /\ open
    /\ radioState # "ON"
    /\ newState' = [newState EXCEPT ![Event] = radioState]
    /\ Goto(Event, "decode") /\ field' = [field EXCEPT ![Event] = f]
    /\ NoteRace(Event)
    /\ UNCHANGED <<connVars, radioState, script, cache, value, told>>

\* That state is decoded into the global, with no message; also that of a radio that
\* is off, whose answer was already given.
DecodeQuery ==
    /\ pc[Event] = "decode"
    /\ LET f == field[Event] IN cache' = [cache EXCEPT ![f] = Decode(f, newState[Event])]
    /\ Goto(Event, "answer")
    /\ UNCHANGED <<connVars, radioState, script, field, newState, value, told, raced>>

\* The reply is the global as it is by now, unless it is not set.
Reply ==
    LET f == field[Event] IN
    IF newState[Event] \in OldStates /\ cache[f] # Unknown THEN Tell(f, cache[f])
    ELSE UNCHANGED told

\* Fault: the query is not over when it is answered.
AnswerAndStay ==
    /\ pc[Event] = "answer"
    /\ Reply
    /\ Goto(Event, "idle") /\ newState' = [newState EXCEPT ![Event] = NULL]
    /\ UNCHANGED <<connVars, radioState, script, cache, value, field, raced>>

AnswerQuery ==
    /\ pc[Event] = "answer"
    /\ Reply
    /\ Goto(Event, "idle") /\ field' = [field EXCEPT ![Event] = NULL]
    /\ newState' = [newState EXCEPT ![Event] = NULL]
    /\ UNCHANGED <<connVars, radioState, script, cache, value, raced>>

-----------------------------------------------------------------------------
(* Composition                                                             *)

\* A new process starts with an old vendor RIL that knows nothing yet.
RadioRestarts ==
    /\ radioState' = "UNAVAILABLE" /\ UNCHANGED script
    /\ cache' = [f \in Fields |-> Unknown]
    /\ pc' = [t \in Threads |-> "idle"]
    /\ field' = [t \in Threads |-> NULL]
    /\ newState' = [t \in Threads |-> NULL]
    /\ value' = [t \in Threads |-> NULL]
    /\ told' = [f \in Fields |-> NULL]
    /\ raced' = FALSE

\* The daemon's own steps; the event thread has other things to do while it
\* greets or answers.
DaemonStep ==
    /\ MainStep \/ (~Busy(Event) /\ EventStep)
    /\ IF main # "start" /\ main' = "start" THEN RadioRestarts ELSE UNCHANGED radioVars

\* onNewCommandConnect: a new framework, which knows nothing, is sent
\* RADIO_STATE_CHANGED.
Greet ==
    /\ ~Busy(Event) /\ AcceptPhone
    /\ told' = [f \in Fields |-> NULL]
    /\ ProcessRadioState(Event, radioState)
    /\ UNCHANGED <<radioState, script, cache, value>>

DebugStep ==
    /\ ~Busy(Event) /\ (DebugRequest \/ DebugPowerOff)
    /\ UNCHANGED radioVars

Next ==
    \/ DaemonStep \/ Greet \/ DebugStep
    \/ Environment /\ UNCHANGED radioVars
    \/ RadioChanges
    \/ \E t \in Threads : RadioStep(t)
    \/ \E f \in {"tech", "source"} : DispatchQuery(f)
    \/ DecodeQuery \/ AnswerQuery

Spec == Init /\ [][Next]_vars

\* Threads are scheduled, and the framework connects when it has no connection.
\* A visitor of the debug port need not say anything.
Fairness ==
    /\ WF_vars(DaemonStep \/ Greet)
    /\ WF_vars(DecodeQuery \/ AnswerQuery \/ RadioStep(Event)) /\ WF_vars(RadioStep(Vendor))
    /\ WF_vars(FrameworkConnects /\ UNCHANGED radioVars)

FairSpec == Spec /\ Fairness

-----------------------------------------------------------------------------
(* Properties                                                              *)

Values == RadioStates \cup {Unknown, "UMTS", "1xRTT", "RUIM_SIM", "NV"}

RadioTypeOK ==
    /\ ConnTypeOK
    /\ radioState \in RadioStates
    /\ cache \in [Fields -> Values]
    /\ pc \in [Threads -> {"idle", "compare", "marshal", "send", "decode", "answer"}]
    /\ \A t \in Threads : field[t] = NULL <=> pc[t] = "idle"
    /\ \A t \in Threads : newState[t] # NULL => newState[t] \in RadioStates

\* Once nothing is under way, the globals say what the radio's state says, and
\* the connected framework was told nothing else, by message or by reply, across
\* connections, restarts and queries; unless two threads were decoding at once,
\* when the earlier state can be the one that sticks.
RadioAgrees ==
    /\ ~Busy(Vendor) /\ ~Busy(Event) /\ ~raced
    /\ open /\ peer = "connected" /\ radioState \in OldStates
    => \A f \in Fields :
           (f = "source" => is3gpp2(Decode("tech", radioState)))
           => cache[f] = Decode(f, radioState) /\ told[f] \in {NULL, cache[f]}

-----------------------------------------------------------------------------
(* The inductive invariant                                                 *)

Processing(t) == pc[t] \in {"compare", "marshal", "send"}

\* Who does what: the vendor's thread decodes the present state, and the event thread
\* one that is past only if the radio has left the old states since.
Doing ==
    /\ script \in Seq(RadioStates)
    /\ field \in [Threads -> Fields \cup {NULL}] /\ newState \in [Threads -> RadioStates \cup {NULL}]
    /\ DOMAIN value = Threads /\ DOMAIN told = Fields
    /\ Busy(Event) => s_registerCalled
    /\ pc[Vendor] \notin {"decode", "answer"}
    /\ pc[Event] \in {"decode", "answer"} => field[Event] \in {"tech", "source"}
    /\ \A t \in Threads : Processing(t) => newState[t] \in OldStates
    /\ Processing(Vendor) => newState[Vendor] = radioState
    /\ ~raced => ~Busy(Vendor) \/ ~Busy(Event)
    /\ (Processing(Event) \/ pc[Event] = "decode") /\ ~raced /\ radioState \in OldStates =>
          newState[Event] = radioState

Matter(f, s) == f = "source" => is3gpp2(Decode("tech", s))

\* The fields that a thread at field f has compared with state s.
Compared(t) ==
    CASE field[t] = "tech" -> {}
      [] field[t] = "source" -> {"tech"}
      [] field[t] = "status" -> {"tech", "source"}

\* Nothing overtakes a thread that decodes alone; and when none is decoding the globals
\* say what the state says, if there is a connection.
Decoded ==
    ~raced =>
        /\ \A t \in Threads : Processing(t) =>
              /\ \A f \in Compared(t) : Matter(f, newState[t]) => cache[f] = Decode(f, newState[t])
              /\ pc[t] # "compare" => cache[field[t]] = Decode(field[t], newState[t])
              /\ pc[t] = "send" => value[t] = cache[field[t]]
        /\ pc[Event] = "answer" => cache[field[Event]] = Decode(field[Event], newState[Event])
        /\ ~Processing(Vendor) /\ ~Processing(Event) /\ open /\ radioState \in OldStates =>
              \A f \in Fields : Matter(f, radioState) => cache[f] = Decode(f, radioState)

\* A connected framework knows a global as it is, or is about to; a query may have
\* unset the technology or the source without a word.
Informed ==
    ~raced /\ open /\ peer = "connected" => \A f \in Fields :
        \/ told[f] \in {NULL, cache[f]}
        \/ f # "status" /\ cache[f] = Unknown
        \/ \E t \in Threads : field[t] = f /\ pc[t] \in {"marshal", "send", "answer"}

IInv == ConnIInv /\ RadioTypeOK /\ Doing /\ Decoded /\ Informed

=============================================================================
