------------------------------- MODULE MCJpeg -------------------------------
(* Small instances of MmJpegJobs.                                            *)
EXTENDS MmJpegJobs

\* Sessions s1, s2 of two clients; h1 and h2 are the OMX sessions.
Scn(limit, chain, ndst, auto, reuse, ops, may, jobs, made) ==
    [limit |-> limit, chain |-> chain, ndst |-> ndst, auto |-> auto, reuse |-> reuse,
     ops |-> ops, may |-> may,
     jobs |-> [s \in Session |-> jobs[IF s = "s1" THEN 1 ELSE 2]], made |-> made]
Two == [s \in Session |-> IF s = "s1" THEN <<"h1">> ELSE <<"h2">>]
Burst == [s \in Session |-> IF s = "s1" THEN <<"h1", "h2">> ELSE <<>>]
Single == [s \in Session |-> IF s = "s1" THEN <<"h1">> ELSE <<>>]

\* one picture at a time, two clients (two cameras), every way to stop
Clients == Scn(1, Two, 1, FALSE, FALSE, {"abort", "destroy"}, {}, <<2, 1>>, 1)
\* one client whose encoder fails, whose session is recreated or cannot be
Failing == Scn(1, Single, 1, FALSE, FALSE, {"abort", "destroy", "close", "drop"}, {"config", "error", "create"}, <<3, 0>>, 2)
\* two pictures at a time from one burst session, stopped as a whole
Pair == Scn(2, Burst, 2, FALSE, FALSE, {"destroy"}, {"error"}, <<3, 0>>, 2)
\* two pictures at a time from two sessions of one encoder each
Parallel == Scn(2, Two, 1, FALSE, FALSE, {"destroy", "close"}, {}, <<2, 1>>, 1)
\* any output buffer, and a single job: a second one may lose the buffer of the first
Auto == Scn(1, Single, 2, TRUE, TRUE, {"abort", "destroy"}, {"error", "config"}, <<1, 0>>, 2)

MCScenes == {Clients, Failing, Pair, Parallel, Auto}
=============================================================================
