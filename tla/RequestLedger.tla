--------------------------- MODULE RequestLedger ---------------------------
(***************************************************************************)
(* What libril promises to the telephony framework about requests, however *)
(* its threads and sockets behave: a request that was submitted is replied *)
(* to at most once and never after it was dropped.  Requests may be        *)
(* dropped, several at a time when a connection or the daemon goes away.   *)
(***************************************************************************)
EXTENDS Naturals

CONSTANT Reqs

VARIABLES submitted,    \* requests the framework has written to a socket
          outstanding,  \* those that may still be replied to
          replies       \* how many replies each has got

lvars == <<submitted, outstanding, replies>>

LedgerInit ==
    /\ submitted = {} /\ outstanding = {}
    /\ replies = [r \in Reqs |-> 0]

Submit(r) ==
    /\ r \notin submitted
    /\ submitted' = submitted \cup {r}
    /\ outstanding' = outstanding \cup {r}
    /\ UNCHANGED replies

Reply(r) ==
    /\ r \in outstanding
    /\ replies' = [replies EXCEPT ![r] = @ + 1]
    /\ outstanding' = outstanding \ {r}
    /\ UNCHANGED submitted

Drop(R) ==
    /\ R \subseteq outstanding
    /\ outstanding' = outstanding \ R
    /\ UNCHANGED <<submitted, replies>>

LedgerNext ==
    \/ \E r \in Reqs : Submit(r) \/ Reply(r)
    \/ \E R \in SUBSET Reqs : Drop(R)

LedgerSpec == LedgerInit /\ [][LedgerNext]_lvars

LedgerTypeOK ==
    /\ submitted \subseteq Reqs /\ outstanding \subseteq submitted
    /\ replies \in [Reqs -> Nat]

\* No request is replied to twice, nor while it is still outstanding.
AtMostOneReply ==
    \A r \in Reqs : replies[r] <= 1 /\ (r \in outstanding => replies[r] = 0)

\* A request that was not submitted has no reply.
NoUnaskedReply == \A r \in Reqs \ submitted : replies[r] = 0

=============================================================================
