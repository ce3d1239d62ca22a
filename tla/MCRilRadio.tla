----------------------------- MODULE MCRilRadio -----------------------------
(***************************************************************************)
(* A small instance of RilRadio, and of the RilConnection under it: two    *)
(* changes of the radio, two connections, and two visits, failures or      *)
(* strangers.                                                              *)
(***************************************************************************)
EXTENDS RilRadio, TLC

\* From GSM to CDMA, through a phase with no SIM status, and through OFF.
MCScripts ==
    {<<"SIM_READY", "RUIM_LOCKED_OR_ABSENT">>, <<"NV_READY", "OFF">>,
     <<"OFF", "RUIM_NOT_READY">>, <<"SIM_NOT_READY", "ON">>}

=============================================================================
