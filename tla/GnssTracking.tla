---------------------------- MODULE GnssTracking ----------------------------
(***************************************************************************)
(* The tracking sessions of the location service: clients                  *)
(* (LocationAPIClientBase) start, change and stop sessions, GnssAdapter    *)
(* runs one fix on the engine for all of them (gnss/GnssAdapter.cpp).      *)
(*                                                                         *)
(* A client's call holds its mutex from sending the message to queueing    *)
(* the request, and the answer takes the same mutex: a call is one step.   *)
(* The adapter's thread takes one message after the other; each is a step, *)
(* but the removal of a client, which calls the engine for each of its     *)
(* sessions.  The engine (LocApi, external) may refuse a call, goes down   *)
(* and comes back; until its handle is renegotiated it refuses all calls.  *)
(***************************************************************************)
EXTENDS Integers, Sequences, TLC

CONSTANTS
    Clients,
    Intervals,      \* values of minInterval
    Scenes,         \* what clients and engine do
    MaxRequests     \* bound: requests a client keeps

ASSUME IntervalsAssumption == Intervals \subseteq Nat

SceneType ==
    [does : SUBSET {"change", "destroy", "callbacks"},  \* besides start and stop
     ids : Nat,     \* bound: session ids given out
     queued : Nat,  \* bound: messages waiting when a client sends another
     faults : Nat,  \* bound: calls the engine refuses though it is up
     breaks : Nat]  \* bound: restarts of the modem

ASSUME ScenesAssumption == Scenes \subseteq SceneType

NoFix == -1

VARIABLES
    scene,
    api,        \* mLocationAPI: none, live, gone (deleted with its client)
    tracking,   \* mTracking
    session,    \* mRequestQueues[REQUEST_TRACKING].mSession
    requests,   \* mRequestQueues[REQUEST_TRACKING].mQueue
    queue,      \* messages of the adapter's thread
    nextId,     \* mSessionIdCounter
    clientData, \* mClientData: which callbacks the adapter knows
    sessions,   \* mTrackingSessions: minInterval by client and session
    visited,    \* removal under way: sessions whose stop was tried
    engine,     \* down, up (handle not renegotiated), open
    fix,        \* the interval the engine runs with, or NoFix
    refused,    \* history: sessions whose last stop was refused
    missed,     \* history: an open engine refused the restart, no call since
    faults, breaks

clientVars == <<api, tracking, session, requests>>
adapterVars == <<clientData, sessions, visited, refused>>
engineVars == <<fix, missed, faults>>
vars == <<scene, clientVars, queue, nextId, adapterVars, engine, engineVars, breaks>>

Callbacks == {"tracking", "ni"}
Key == Clients \X (Nat \ {0})
TrackingMsg ==
    [type : {"start", "update"}, client : Clients, id : Nat \ {0}, interval : Intervals]
        \cup [type : {"stop"}, client : Clients, id : Nat \ {0}]
ClientMsg == [type : {"add"}, client : Clients, cb : Callbacks]
                 \cup [type : {"remove"}, client : Clients]
EngineMsg == [type : {"ssr", "restart"}]
Message == TrackingMsg \cup ClientMsg \cup EngineMsg

-----------------------------------------------------------------------------
(* Clients. *)

CanSend == Len(queue) < scene.queued
sendMsg(m) == queue' = Append(queue, m)

\* With callbacks for locations and measurements, or for NI requests only.
locAPISetCallbacks(c, cb) ==
    /\ api[c] # "gone" /\ (api[c] = "live" => "callbacks" \in scene.does)
    /\ CanSend
    /\ api' = [api EXCEPT ![c] = "live"]
    /\ sendMsg([type |-> "add", client |-> c, cb |-> cb])
    /\ UNCHANGED <<tracking, session, requests, nextId, adapterVars, engine, engineVars, breaks>>

\* Mutant: a second start is not noticed.
locAPIStartTracking_Again(c, i) ==
    /\ api[c] = "live" /\ CanSend /\ nextId < scene.ids
    /\ nextId' = nextId + 1
    /\ sendMsg([type |-> "start", client |-> c, id |-> nextId', interval |-> i])
    /\ session' = [session EXCEPT ![c] = nextId']
    /\ requests' = [requests EXCEPT ![c] = <<"start">>]
    /\ tracking' = [tracking EXCEPT ![c] = TRUE]
    /\ UNCHANGED <<api, adapterVars, engine, engineVars, breaks>>

\* Mutant: the requests of the session before stay.
locAPIStartTracking_NoReset(c, i) ==
    /\ api[c] = "live" /\ ~tracking[c] /\ CanSend /\ nextId < scene.ids
    /\ nextId' = nextId + 1
    /\ sendMsg([type |-> "start", client |-> c, id |-> nextId', interval |-> i])
    /\ session' = [session EXCEPT ![c] = nextId']
    /\ requests' = [requests EXCEPT ![c] = Append(@, "start")]
    /\ tracking' = [tracking EXCEPT ![c] = TRUE]
    /\ UNCHANGED <<api, adapterVars, engine, engineVars, breaks>>

\* A client that tracks already is told SUCCESS and nothing happens.
locAPIStartTracking(c, i) ==
    /\ api[c] = "live" /\ ~tracking[c] /\ CanSend /\ nextId < scene.ids
    /\ nextId' = nextId + 1
    /\ sendMsg([type |-> "start", client |-> c, id |-> nextId', interval |-> i])
    /\ session' = [session EXCEPT ![c] = nextId']
    /\ requests' = [requests EXCEPT ![c] = <<"start">>]
    /\ tracking' = [tracking EXCEPT ![c] = TRUE]
    /\ UNCHANGED <<api, adapterVars, engine, engineVars, breaks>>

\* A stopped session keeps its id, and may be stopped or changed again.
locAPIStopTracking(c) ==
    /\ api[c] = "live" /\ session[c] > 0 /\ CanSend /\ Len(requests[c]) < MaxRequests
    /\ requests' = [requests EXCEPT ![c] = Append(@, "stop")]
    /\ sendMsg([type |-> "stop", client |-> c, id |-> session[c]])
    /\ tracking' = [tracking EXCEPT ![c] = FALSE]
    /\ UNCHANGED <<api, session, nextId, adapterVars, engine, engineVars, breaks>>

locAPIUpdateTrackingOptions(c, i) ==
    /\ "change" \in scene.does
    /\ api[c] = "live" /\ session[c] > 0 /\ CanSend /\ Len(requests[c]) < MaxRequests
    /\ requests' = [requests EXCEPT ![c] = Append(@, "update")]
    /\ sendMsg([type |-> "update", client |-> c, id |-> session[c], interval |-> i])
    /\ UNCHANGED <<api, tracking, session, nextId, adapterVars, engine, engineVars, breaks>>

\* ~LocationAPIClientBase
Destroy(c) ==
    /\ "destroy" \in scene.does
    /\ api[c] = "live" /\ CanSend
    /\ api' = [api EXCEPT ![c] = "gone"]
    /\ sendMsg([type |-> "remove", client |-> c])
    /\ session' = [session EXCEPT ![c] = 0]
    /\ requests' = [requests EXCEPT ![c] = <<>>]
    /\ UNCHANGED <<tracking, nextId, adapterVars, engine, engineVars, breaks>>

-----------------------------------------------------------------------------
(* The engine, and the calls of it. *)

Refuses ==
    /\ engine = "open" => faults < scene.faults
    /\ faults' = IF engine = "open" THEN faults + 1 ELSE faults

startTracking(i, err) ==
    IF err THEN Refuses /\ UNCHANGED <<fix, missed>>
    ELSE engine = "open" /\ fix' = i /\ missed' = FALSE /\ UNCHANGED faults

stopTracking(err) ==
    IF err THEN Refuses /\ UNCHANGED <<fix, missed>>
    ELSE engine = "open" /\ fix' = NoFix /\ missed' = FALSE /\ UNCHANGED faults

NoCall(err) == ~err /\ UNCHANGED engineVars

EngineDown ==
    /\ engine # "down" /\ breaks < scene.breaks
    /\ engine' = "down" /\ fix' = NoFix /\ breaks' = breaks + 1
    /\ UNCHANGED <<clientVars, queue, nextId, adapterVars, missed, faults>>

\* Mutant: the sessions are restarted on the handle that is gone.
handleEngineUpEvent_Early ==
    /\ engine = "down"
    /\ engine' = "up"
    /\ queue' = Append(Append(queue, [type |-> "restart"]), [type |-> "ssr"])
    /\ UNCHANGED <<clientVars, nextId, adapterVars, engineVars, breaks>>

handleEngineUpEvent ==
    /\ engine = "down"
    /\ engine' = "up"
    /\ queue' = Append(Append(queue, [type |-> "ssr"]), [type |-> "restart"])
    /\ UNCHANGED <<clientVars, nextId, adapterVars, engineVars, breaks>>

-----------------------------------------------------------------------------
(* The adapter's thread.  Multiplexing: the fix runs with the smallest *)
(* interval of all sessions.                                           *)

IntervalsOf(D) == {sessions[k] : k \in D}
Smallest(T) == CHOOSE i \in T : \A j \in T : i <= j

startTrackingMultiplex(i, err) ==
    LET all == IntervalsOf(DOMAIN sessions)
    IN  IF all = {} \/ i < Smallest(all) THEN startTracking(i, err) ELSE NoCall(err)

\* Mutant: the options asked for are used though another session needs less.
updateTrackingMultiplex_Own(k, i, err) ==
    LET others == IntervalsOf(DOMAIN sessions \ {k})
    IN  IF others = {} \/ i < Smallest(others) \/ sessions[k] < Smallest(others)
        THEN startTracking(i, err) ELSE NoCall(err)

updateTrackingMultiplex(k, i, err) ==
    LET others == IntervalsOf(DOMAIN sessions \ {k})
    IN  IF others = {} \/ i < Smallest(others) THEN startTracking(i, err)
        ELSE IF sessions[k] < Smallest(others) THEN startTracking(Smallest(others), err)
        ELSE NoCall(err)

stopTrackingMultiplex(k, err) ==
    LET others == IntervalsOf(DOMAIN sessions \ {k})
    IN  IF others = {} THEN stopTracking(err)
        ELSE IF sessions[k] < Smallest(others) THEN startTracking(Smallest(others), err)
        ELSE NoCall(err)

saveTrackingSession(k, i) ==
    sessions' = [x \in DOMAIN sessions \cup {k} |-> IF x = k THEN i ELSE sessions[x]]
eraseTrackingSession(k) == sessions' = [x \in DOMAIN sessions \ {k} |-> sessions[x]]

\* onResponseCb: the answer goes to the oldest request of the session it names.
reportResponse(c, id) ==
    requests' = IF clientData[c] # "none" /\ session[c] = id /\ requests[c] # <<>>
                THEN [requests EXCEPT ![c] = Tail(@)] ELSE requests

Takes(type) == queue # <<>> /\ Head(queue).type = type
Taken == queue' = Tail(queue)
AdapterFrame == UNCHANGED <<api, tracking, session, nextId, engine, breaks>>

\* Mutant: a refused start is saved all the same.
MsgStartTracking_Saves ==
    /\ Takes("start") /\ Taken
    /\ LET m == Head(queue) IN
       /\ \E err \in BOOLEAN :
            IF clientData[m.client] # "tracking" THEN UNCHANGED <<engineVars, sessions>>
            ELSE /\ startTrackingMultiplex(m.interval, err)
                 /\ saveTrackingSession(<<m.client, m.id>>, m.interval)
       /\ reportResponse(m.client, m.id)
    /\ UNCHANGED <<clientData, visited, refused>> /\ AdapterFrame

MsgStartTracking ==
    /\ Takes("start") /\ Taken
    /\ LET m == Head(queue) IN
       /\ \E err \in BOOLEAN :
            IF clientData[m.client] # "tracking" THEN UNCHANGED <<engineVars, sessions>>
            ELSE /\ startTrackingMultiplex(m.interval, err)
                 /\ IF err THEN UNCHANGED sessions
                    ELSE saveTrackingSession(<<m.client, m.id>>, m.interval)
       /\ reportResponse(m.client, m.id)
    /\ UNCHANGED <<clientData, visited, refused>> /\ AdapterFrame

\* A session the adapter does not know gets no answer (FlpAdapter may know it).
MsgUpdateTracking ==
    /\ Takes("update") /\ Taken
    /\ LET m == Head(queue)
           k == <<m.client, m.id>>
       IN  IF k \notin DOMAIN sessions THEN UNCHANGED <<engineVars, sessions, requests>>
           ELSE /\ \E err \in BOOLEAN :
                     /\ updateTrackingMultiplex(k, m.interval, err)
                     /\ IF err THEN UNCHANGED sessions ELSE saveTrackingSession(k, m.interval)
                /\ reportResponse(m.client, m.id)
    /\ UNCHANGED <<clientData, visited, refused>> /\ AdapterFrame

StopSession(k) ==
    \E err \in BOOLEAN :
        /\ stopTrackingMultiplex(k, err)
        /\ IF err THEN UNCHANGED sessions /\ refused' = refused \cup {k}
           ELSE eraseTrackingSession(k) /\ refused' = refused \ {k}

MsgStopTracking ==
    /\ Takes("stop") /\ Taken
    /\ LET m == Head(queue)
           k == <<m.client, m.id>>
       IN  IF k \notin DOMAIN sessions THEN UNCHANGED <<engineVars, sessions, refused, requests>>
           ELSE StopSession(k) /\ reportResponse(m.client, m.id)
    /\ UNCHANGED <<clientData, visited>> /\ AdapterFrame

MsgAddClient ==
    /\ Takes("add") /\ Taken
    /\ clientData' = [clientData EXCEPT ![Head(queue).client] = Head(queue).cb]
    /\ UNCHANGED <<requests, sessions, visited, refused, engineVars>> /\ AdapterFrame

\* MsgRemoveClient: its sessions one by one, then the client.
SessionsToStop(c) == {k \in DOMAIN sessions : k[1] = c} \ visited

stopClientSessions ==
    /\ Takes("remove")
    /\ \E k \in SessionsToStop(Head(queue).client) :
          StopSession(k) /\ visited' = visited \cup {k}
    /\ UNCHANGED <<requests, queue, clientData>> /\ AdapterFrame

eraseClient ==
    /\ Takes("remove") /\ Taken
    /\ SessionsToStop(Head(queue).client) = {}
    /\ visited' = {}
    /\ clientData' = [clientData EXCEPT ![Head(queue).client] = "none"]
    /\ UNCHANGED <<requests, sessions, refused, engineVars>> /\ AdapterFrame

\* LocSsrMsg closes the handle and opens it again, if the modem is there.
LocSsrMsg ==
    /\ Takes("ssr") /\ Taken
    /\ fix' = NoFix
    /\ engine' = IF engine = "down" THEN engine ELSE "open"
    /\ UNCHANGED <<api, tracking, session, requests, nextId, adapterVars, missed, faults, breaks>>

\* What startFix returns is not looked at.
restartSessions ==
    /\ Takes("restart") /\ Taken
    /\ IF DOMAIN sessions = {} THEN UNCHANGED engineVars
       ELSE \/ startTracking(Smallest(IntervalsOf(DOMAIN sessions)), FALSE)
            \/ Refuses /\ missed' = (missed \/ engine = "open") /\ UNCHANGED fix
    /\ UNCHANGED <<requests, adapterVars>> /\ AdapterFrame

-----------------------------------------------------------------------------

Init ==
    /\ scene \in Scenes
    /\ api = [c \in Clients |-> "none"] /\ tracking = [c \in Clients |-> FALSE]
    /\ session = [c \in Clients |-> 0] /\ requests = [c \in Clients |-> <<>>]
    /\ queue = <<>> /\ nextId = 0
    /\ clientData = [c \in Clients |-> "none"] /\ sessions = <<>>
    /\ visited = {} /\ refused = {}
    /\ engine = "open" /\ fix = NoFix /\ missed = FALSE /\ faults = 0 /\ breaks = 0

Client(c) ==
    \/ \E cb \in Callbacks : locAPISetCallbacks(c, cb)
    \/ \E i \in Intervals : locAPIStartTracking(c, i)
    \/ \E i \in Intervals : locAPIUpdateTrackingOptions(c, i)
    \/ locAPIStopTracking(c)
    \/ Destroy(c)

Adapter ==
    \/ MsgStartTracking \/ MsgUpdateTracking \/ MsgStopTracking
    \/ MsgAddClient \/ stopClientSessions \/ eraseClient
    \/ LocSsrMsg \/ restartSessions

Next ==
    /\ (\E c \in Clients : Client(c)) \/ Adapter \/ EngineDown \/ handleEngineUpEvent
    /\ UNCHANGED scene

Spec == Init /\ [][Next]_vars

(* The adapter's thread takes what is queued; a modem that goes down comes back. *)
FairSpec ==
    /\ Spec
    /\ WF_vars(Adapter /\ UNCHANGED scene) /\ WF_vars(handleEngineUpEvent /\ UNCHANGED scene)

-----------------------------------------------------------------------------
(* Properties. *)

TypeOK ==
    /\ scene \in Scenes
    /\ api \in [Clients -> {"none", "live", "gone"}] /\ tracking \in [Clients -> BOOLEAN]
    /\ session \in [Clients -> Nat] /\ requests \in [Clients -> Seq({"start", "update", "stop"})]
    /\ queue \in Seq(Message) /\ nextId \in Nat
    /\ clientData \in [Clients -> Callbacks \cup {"none"}]
    /\ DOMAIN sessions \subseteq Key /\ sessions \in [DOMAIN sessions -> Intervals]
    /\ visited \subseteq Key /\ refused \subseteq Key
    /\ engine \in {"down", "up", "open"} /\ fix \in Intervals \cup {NoFix}
    /\ missed \in BOOLEAN /\ faults \in Nat /\ breaks \in Nat

Queued(type) == \E n \in 1 .. Len(queue) : queue[n].type = type

(* What the sessions need. *)
Wanted ==
    IF DOMAIN sessions = {} THEN NoFix ELSE Smallest(IntervalsOf(DOMAIN sessions))

(* The engine runs what the sessions need: the smallest of their intervals,   *)
(* and nothing when there is none, whatever starts, changes, stops and        *)
(* removals were refused and however often the modem restarted.  Only while   *)
(* the modem is away, or its restart is not handled yet, or was refused, it   *)
(* may idle though there are sessions; it never runs with another interval.   *)
EngineAgrees ==
    /\ fix \in {NoFix, Wanted}
    /\ fix = NoFix /\ DOMAIN sessions # {} => engine # "open" \/ Queued("restart") \/ missed

(* No session is forgotten: a session of the adapter is the one its client    *)
(* tracks with, or its stop or the removal of its client is on the way, or    *)
(* the engine refused to stop it.                                             *)
OnTheWay(k) ==
    \E n \in 1 .. Len(queue) :
        \/ queue[n] = [type |-> "stop", client |-> k[1], id |-> k[2]]
        \/ queue[n] = [type |-> "remove", client |-> k[1]]
NoOrphans ==
    \A k \in DOMAIN sessions :
        (tracking[k[1]] /\ session[k[1]] = k[2]) \/ OnTheWay(k) \/ k \in refused

(* A response finds the request it answers: while a session can answer, the   *)
(* requests its client keeps are the messages about it, in order.             *)
Kinds == {"start", "update", "stop"}
About(m, c, id) == m.type \in Kinds /\ m.client = c /\ m.id = id

\* What q says about a session: messages of the kinds s at increasing places, and no other.
Says(q, c, id, s) ==
    \E at \in [1 .. Len(s) -> DOMAIN q] :
        /\ \A i, j \in 1 .. Len(s) : i < j => at[i] < at[j]
        /\ \A i \in 1 .. Len(s) : About(q[at[i]], c, id) /\ q[at[i]].type = s[i]
        /\ \A n \in DOMAIN q : About(q[n], c, id) => \E i \in 1 .. Len(s) : at[i] = n

CanAnswer(c, id) ==
    \/ <<c, id>> \in DOMAIN sessions
    \/ \E n \in 1 .. Len(queue) :
         queue[n].type = "start" /\ queue[n].client = c /\ queue[n].id = id
AnswersMatch ==
    \A c \in Clients : CanAnswer(c, session[c]) => Says(queue, c, session[c], requests[c])

(* Sessions survive the modem: as long as there are sessions the engine comes *)
(* to run for them again, unless it refuses the restart.                      *)
Recovers == DOMAIN sessions # {} ~> fix # NoFix \/ DOMAIN sessions = {} \/ missed
=============================================================================
