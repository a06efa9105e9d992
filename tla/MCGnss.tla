------------------------------- MODULE MCGnss -------------------------------
(* Small instances of GnssTracking. *)
EXTENDS GnssTracking

Scene(does, ids, q, f, b) ==
    [does |-> does, ids |-> ids, queued |-> q, faults |-> f, breaks |-> b]

\* sessions come, change and go, and the engine refuses a call
Shared == Scene({"change"}, 3, 2, 1, 0)
\* the modem restarts twice
Restarted == Scene({}, 3, 2, 0, 2)
\* the modem restarts, refuses a call, and sessions change
Troubled == Scene({"change"}, 2, 2, 1, 1)
\* clients leave with their sessions
Leaving == Scene({"destroy"}, 3, 2, 1, 1)
\* callbacks come and go
Registering == Scene({"callbacks", "change"}, 2, 2, 1, 0)

MCScenes == {Shared, Restarted, Troubled, Leaving, Registering}
=============================================================================
