--------------------------- MODULE MCRilRequests ---------------------------
(***************************************************************************)
(* Small instances of RilRequests: two requests, two vendor threads, two   *)
(* connections that may get the same descriptor number.                    *)
(***************************************************************************)
EXTENDS RilRequests, TLC

CONSTANTS r1, r2, p1, p2, v1, v2

MCReqs    == {r1, r2}
MCPtrs    == {p1, p2}
MCVendors == {v1, v2}

\* The second connection may get the number of the first, or another one.
MCFds     == {5, 6}

MCKinds   == AllKinds

\* For the liveness run: the kinds that must be answered, one vendor thread
\* beside the event thread, one descriptor number.
MCVendorsLive == {v1}
MCKindsLive   == {"plain", "oldradio"}
MCFdsLive     == {5}

Symmetric == Permutations(MCPtrs) \cup Permutations(MCVendors)

=============================================================================
