-------------------------- MODULE MCRilUnsolicited --------------------------
(***************************************************************************)
(* Small instances of RilUnsolicited: two vendor threads with a few        *)
(* messages each, chosen so that each pair of the shared pieces of state   *)
(* is reached by two senders, and one connection.                          *)
(***************************************************************************)
EXTENDS RilUnsolicited, TLC

CONSTANTS v1, v2

MCVendors == {v1, v2}

\* Enough for every timer a run can have pending.
MCInfos   == 1..7

Plain   == Message("wake", 0)
NoWake  == Message("nowake", 0)
Invalid == Message("invalid", 0)
Radio   == Message("radio", 0)
Nitz(n) == Message("nitz", n)

Script(a, b) == (v1 :> a) @@ (v2 :> b)

MCScripts ==
    {Script(<<Plain, Plain>>, <<Plain>>),
     Script(<<Plain, Invalid>>, <<NoWake>>),
     Script(<<Radio>>, <<Invalid>>),
     Script(<<Nitz(1), Nitz(2)>>, <<>>)}

=============================================================================
