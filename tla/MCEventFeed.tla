----------------------------- MODULE MCEventFeed -----------------------------
EXTENDS EventFeed

\* One claims to be early, then late; the other leaves one time to the endpoint.
MCClaimed == <<<<0, 3>>, <<Absent, 1>>>>

\* The first replays under a key.  The second has only ids of its own, for some lines:
\* one of them is also the first's.
MCKey == <<2, NoKey>>
MCOwn == <<<<<<1, 0>>, NoId>>, <<NoId, <<1, 0>>>>>>
=============================================================================
