---------------------------- MODULE MCBtFmSwitch ----------------------------
(***************************************************************************)
(* A small instance of BtFmSwitch: one caller that calls twice and one     *)
(* that calls once, all with the first of all; three calls, or two and a   *)
(* failure or crash, or one and two; and waits that look once at a daemon  *)
(* that starts and twice at daemons that stop.                             *)
(***************************************************************************)
EXTENDS BtFmSwitch, TLC

CONSTANTS c1, c2

MCCallers  == {c1, c2}
MCMaxCalls == c1 :> 2 @@ c2 :> 1

=============================================================================
