----------------------------- MODULE MCRilEvent -----------------------------
(***************************************************************************)
(* Small instance of RilEvent: the wake-up pipe, a persistent and a        *)
(* one-shot descriptor event, two timers, one thread beside the loop.      *)
(***************************************************************************)
EXTENDS RilEvent

CONSTANTS wake, cmds, listen, t1, t2

MCFdEvents   == {wake, cmds, listen}
MCPersistent == {wake, cmds}
MCTimers     == {t1, t2}
MCFds        == 3..5

\* For the liveness run: the pipe and the one-shot listen event only.
MCFdEventsLive   == {wake, listen}
MCPersistentLive == {wake}
MCFdsLive        == 3..4

=============================================================================
