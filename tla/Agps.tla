-------------------------------- MODULE Agps --------------------------------
(***************************************************************************)
(* AgpsManager and its three state machines (gps/gnss/Agps.cpp): the modem *)
(* asks for data connections under a handle, the manager subscribes the    *)
(* handle to the state machine (NIF) of the connection's type and opens    *)
(* one connection for all subscribers of a NIF.  "agnss" and "internet"    *)
(* ask the framework, "ds" the data service client of the modem, which may *)
(* be busy or have no emergency profile; the request then falls back to    *)
(* "agnss".                                                                *)
(*                                                                         *)
(* Every handler is a message of the adapter's one thread, so each is one  *)
(* step.  The framework, the data service client and the modem answer when *)
(* they please.                                                            *)
(***************************************************************************)
EXTENDS Naturals, Sequences, FiniteSets, SequencesExt

CONSTANTS
    Handles,                     \* connection handles of the modem
    Scenes,                      \* what the parties around the manager do
    MAX_START_DATA_CALL_RETRIES,
    MaxOrders                    \* bound: orders a NIF may have under way

ASSUME HandlesAssumption == IsFiniteSet(Handles)
ASSUME RetriesAssumption == MAX_START_DATA_CALL_RETRIES \in Nat

Nifs == {"agnss", "internet", "ds"}
Types == {"SUPL", "WWAN_ANY", "SUPL_ES"}
States == {"RELEASED", "PENDING", "ACQUIRED", "RELEASING"}
Calls == {"SUCCESS", "BUSY", "UNSUPPORTED"}

VARIABLES
    scene,
    created,    \* the NIFs that exist
    nif,        \* the state machines
    msgs,       \* the adapter's message queue
    orders,     \* what a NIF asked for and its provider has not done yet
    link,       \* the data connections
    modem       \* what the modem knows of each handle

vars == <<scene, created, nif, msgs, orders, link, modem>>

SceneType ==
    [wants : [Handles -> SUBSET Types],  \* what the modem asks for
     emergency : BOOLEAN,          \* USE_EMERGENCY_PDN_FOR_EMERGENCY_SUPL
     hasty : BOOLEAN,              \* the modem releases what was not answered
     refuses : BOOLEAN,            \* a request may fail
     loses : BOOLEAN,              \* a connection may be lost
     calls : SUBSET Calls,         \* what starting a data call returns
     init : SUBSET BOOLEAN]        \* whether the data service client comes up

ASSUME ScenesAssumption == Scenes \subseteq SceneType

NifType ==
    [state : States, subs : SUBSET Handles, waiting : SUBSET Handles,
     inactive : SUBSET Handles, retries : Nat, timers : Nat]

Released0 == [state |-> "RELEASED", subs |-> {}, waiting |-> {}, inactive |-> {},
              retries |-> 0, timers |-> 0]

-----------------------------------------------------------------------------
(* A state machine.  Outcome is what handling an event leaves: the NIF, the *)
(* order it gives, and whom it tells what.                                  *)

Outcome(n, ask, granted, denied, closed) ==
    [n |-> n, ask |-> ask, granted |-> granted, denied |-> denied, closed |-> closed]
Quiet(n) == Outcome(n, "none", {}, {}, {})

Active(n) == n.subs \ n.inactive

addSubscriber(n, h, wait) ==
    IF h \in n.subs THEN n
    ELSE [n EXCEPT !.subs = @ \cup {h}, !.waiting = IF wait THEN @ \cup {h} ELSE @]

deleteSubscribers(n, S) ==
    [n EXCEPT !.subs = @ \ S, !.waiting = @ \ S, !.inactive = @ \ S]

\* The data call of the emergency NIF; first is its first active subscriber.
StartDataCall(n, call, first, closed) ==
    CASE call = "SUCCESS" -> Outcome(n, "request", {}, {}, closed)
      [] call = "BUSY" /\ n.retries < MAX_START_DATA_CALL_RETRIES ->
            Outcome([n EXCEPT !.retries = @ + 1, !.timers = @ + 1], "none", {}, {}, closed)
      [] OTHER -> Outcome([n EXCEPT !.retries = 0], "none", {}, {first}, closed)

requestDataConn(m, n, call, first, closed) ==
    IF m = "ds" THEN StartDataCall(n, call, first, closed)
    ELSE Outcome(n, "request", {}, {}, closed)

processSubscribe(m, n, h, wait, call, first) ==
    LET added == addSubscriber(n, h, wait)
        asked == requestDataConn(m, added, call, first, {})
    IN  CASE n.state = "RELEASED" ->
                IF asked.ask = "request" THEN [asked EXCEPT !.n.state = "PENDING"] ELSE asked
          [] n.state = "ACQUIRED" -> Outcome(added, "none", {h}, {}, {})
          [] OTHER -> Quiet(added)

\* Mutant: the last active subscriber leaves and the state stays.
processUnsubscribe_Stays(n, h) ==
    IF n.state = "RELEASED" THEN Outcome(n, "none", {}, {}, {h})
    ELSE IF h \in n.waiting THEN Quiet([n EXCEPT !.inactive = @ \cup {h}])
    ELSE Outcome(deleteSubscribers(n, {h}), "none", {}, {}, {h})

processUnsubscribe(n, h) ==
    LET waits == h \in n.waiting
        left == IF waits THEN [n EXCEPT !.inactive = @ \cup {h}]
                ELSE deleteSubscribers(n, {h})
        last == Active(left) = {}
    IN  IF n.state = "RELEASED" THEN Outcome(n, "none", {}, {}, {h})
        ELSE Outcome([left EXCEPT !.state = IF left.subs = {} THEN "RELEASED"
                                            ELSE IF last THEN "RELEASING" ELSE @],
                     IF last /\ n.state # "RELEASING" THEN "release" ELSE "none",
                     {}, {}, IF waits THEN {} ELSE {h})

processGranted(n) ==
    IF n.state = "PENDING"
    THEN Outcome([n EXCEPT !.state = "ACQUIRED"], "none", Active(n), {}, {})
    ELSE Quiet(n)

\* Mutant: who came while the connection was released is forgotten.
ReleaseEnds_Forgets(m, n, call, first) ==
    Outcome([deleteSubscribers(n, n.inactive) EXCEPT !.state = "RELEASED"],
            "none", {}, {}, n.inactive)

\* RELEASED or DENIED while releasing: who waits for the end is told, who
\* came meanwhile needs a new connection.
ReleaseEnds(m, n, call, first) ==
    LET left == deleteSubscribers(n, n.inactive)
    IN  IF Active(n) # {}
        THEN requestDataConn(m, [left EXCEPT !.state = "PENDING"], call, first, n.inactive)
        ELSE Outcome([left EXCEPT !.state = "RELEASED"], "none", {}, {}, n.inactive)

processDenied(m, n, call, first) ==
    CASE n.state = "PENDING" ->
            Outcome([deleteSubscribers(n, n.subs) EXCEPT
                        !.state = "RELEASED", !.retries = IF m = "ds" THEN 0 ELSE @],
                    "none", {}, n.subs, {})
      [] n.state = "RELEASING" -> ReleaseEnds(m, n, call, first)
      [] OTHER -> Quiet(n)

\* Mutant: a data call that ends while it is set up is not a failure.
processReleased_Plain(m, n, call, first) ==
    CASE n.state = "ACQUIRED" ->
            Outcome([deleteSubscribers(n, n.subs) EXCEPT !.state = "RELEASED"],
                    "none", {}, {}, n.subs)
      [] n.state = "RELEASING" -> ReleaseEnds(m, n, call, first)
      [] OTHER -> Quiet(n)

processReleased(m, n, call, first) ==
    CASE n.state = "ACQUIRED" ->
            Outcome([deleteSubscribers(n, n.subs) EXCEPT !.state = "RELEASED"],
                    "none", {}, {}, n.subs)
      [] n.state = "RELEASING" -> ReleaseEnds(m, n, call, first)
      [] n.state = "PENDING" /\ m = "ds" -> processDenied(m, n, call, first)
      [] OTHER -> Quiet(n)

-----------------------------------------------------------------------------
(* The manager. *)

\* getAgpsStateMachine
MachineOf(type) ==
    CASE type = "SUPL" -> "agnss"
      [] type = "SUPL_ES" -> IF scene.emergency THEN "ds" ELSE "agnss"
      [] OTHER -> "internet"

\* atlOpenStatus and atlCloseStatus: the modem learns at once.
Tell(granted, failed, closed) ==
    modem' = [h \in Handles |->
        IF h \in closed \cup failed THEN "idle"
        ELSE IF h \in granted /\ modem[h] = "opening" THEN "open" ELSE modem[h]]

\* Who is denied by the emergency NIF asks for a normal connection, through
\* the queue; the order of the list is left open.
Fallbacks(S) == {[i \in 1..Cardinality(S) |-> [op |-> "request", h |-> q[i], type |-> "SUPL"]] :
                    q \in {f \in [1..Cardinality(S) -> S] :
                              \A i, j \in DOMAIN f : f[i] = f[j] => i = j}}

Perform(m, o, rest) ==
    /\ nif' = [nif EXCEPT ![m] = o.n]
    /\ orders' = IF o.ask = "none" THEN orders ELSE [orders EXCEPT ![m] = Append(@, o.ask)]
    /\ IF m = "ds" THEN /\ Tell(o.granted, {}, o.closed)
                        /\ \E q \in Fallbacks(o.denied) : msgs' = rest \o q
       ELSE /\ Tell(o.granted, o.denied, o.closed)
            /\ msgs' = rest

Event(op) == /\ msgs # <<>> /\ Head(msgs).op = op
             /\ UNCHANGED <<scene, link>>

\* createAgpsStateMachines; the emergency NIF needs its client.
Creates(up) ==
    {"agnss", "internet"} \cup created \cup (IF scene.emergency /\ up THEN {"ds"} ELSE {})

InitAgps ==
    /\ Event("init")
    /\ \E up \in scene.init : created' = Creates(up)
    /\ msgs' = Tail(msgs)
    /\ UNCHANGED <<nif, orders, modem>>

requestATL ==
    /\ Event("request")
    /\ LET h == Head(msgs).h
           type == Head(msgs).type
           m == MachineOf(type)
       IN  /\ IF m = "ds" /\ "ds" \notin created
              THEN \E up \in scene.init : created' = Creates(up)
              ELSE UNCHANGED created
           /\ \/ /\ m \notin created'
                 /\ Tell({}, {h}, {})
                 /\ msgs' = Tail(msgs)
                 /\ UNCHANGED <<nif, orders>>
              \/ /\ m \in created'
                 /\ \E call \in scene.calls, first \in Active(addSubscriber(nif[m], h, FALSE)) \cup {h} :
                        Perform(m, processSubscribe(m, nif[m], h, type = "SUPL_ES", call, first), Tail(msgs))

releaseATL ==
    /\ Event("release")
    /\ UNCHANGED created
    /\ LET h == Head(msgs).h
           Has(m) == m \in created /\ h \in nif[m].subs
           m == IF Has("agnss") THEN "agnss" ELSE IF Has("internet") THEN "internet" ELSE "ds"
       IN  IF Has(m) THEN Perform(m, processUnsubscribe(nif[m], h), Tail(msgs))
           ELSE /\ Tell({}, {}, {h})
                /\ msgs' = Tail(msgs)
                /\ UNCHANGED <<nif, orders>>

\* reportAtlOpenSuccess, reportDataCallOpened
reportOpened ==
    /\ Event("opened")
    /\ UNCHANGED created
    /\ LET m == Head(msgs).m IN Perform(m, processGranted(nif[m]), Tail(msgs))

\* reportAtlOpenFailed
reportAtlOpenFailed ==
    /\ Event("failed")
    /\ UNCHANGED created
    /\ LET m == Head(msgs).m
       IN  \E call \in scene.calls, first \in Handles :
              /\ Active(nif[m]) # {} => first \in Active(nif[m])
              /\ Perform(m, processDenied(m, nif[m], call, first), Tail(msgs))

\* reportAtlClosed, reportDataCallClosed
reportClosed ==
    /\ Event("closed")
    /\ UNCHANGED created
    /\ LET m == Head(msgs).m
       IN  \E call \in scene.calls, first \in Handles :
              /\ Active(nif[m]) # {} => first \in Active(nif[m])
              /\ Perform(m, processReleased(m, nif[m], call, first), Tail(msgs))

\* The timer thread: retryCallback.
retryCallback ==
    /\ nif["ds"].timers > 0
    /\ nif' = [nif EXCEPT !["ds"].timers = @ - 1]
    /\ IF Active(nif["ds"]) = {} THEN UNCHANGED msgs
       ELSE \E first \in Active(nif["ds"]) :
              msgs' = Append(msgs, [op |-> "request", h |-> first, type |-> "SUPL_ES"])
    /\ UNCHANGED <<scene, created, orders, link, modem>>

-----------------------------------------------------------------------------
(* The modem, the framework and the data service client. *)

\* A handle is used again only when nothing of its last connection is left.
ModemRequests(h) ==
    /\ modem[h] = "idle"
    /\ \A i \in DOMAIN msgs : msgs[i].op \in {"request", "release"} => msgs[i].h # h
    /\ \A m \in Nifs : Len(orders[m]) < MaxOrders
    /\ \E type \in scene.wants[h] : msgs' = Append(msgs, [op |-> "request", h |-> h, type |-> type])
    /\ modem' = [modem EXCEPT ![h] = "opening"]
    /\ UNCHANGED <<scene, created, nif, orders, link>>

ModemReleases(h) ==
    /\ modem[h] \in IF scene.hasty THEN {"opening", "open"} ELSE {"open"}
    /\ msgs' = Append(msgs, [op |-> "release", h |-> h])
    /\ modem' = [modem EXCEPT ![h] = "closing"]
    /\ UNCHANGED <<scene, created, nif, orders, link>>

Provides(m, order) ==
    /\ orders[m] # <<>> /\ Head(orders[m]) = order
    /\ orders' = [orders EXCEPT ![m] = Tail(@)]
    /\ UNCHANGED <<scene, created, nif, modem>>

Connects(m) ==
    /\ Provides(m, "request")
    /\ link' = [link EXCEPT ![m] = "open"]
    /\ msgs' = Append(msgs, [op |-> "opened", m |-> m])

\* The data service client does not tell a failure from a closure.
Refuses(m) ==
    /\ scene.refuses
    /\ Provides(m, "request")
    /\ msgs' = Append(msgs, [op |-> IF m = "ds" THEN "closed" ELSE "failed", m |-> m])
    /\ UNCHANGED link

Disconnects(m) ==
    /\ Provides(m, "release")
    /\ link' = [link EXCEPT ![m] = "closed"]
    /\ msgs' = IF link[m] = "open" THEN Append(msgs, [op |-> "closed", m |-> m]) ELSE msgs

Loses(m) ==
    /\ scene.loses /\ link[m] = "open"
    /\ link' = [link EXCEPT ![m] = "closed"]
    /\ msgs' = Append(msgs, [op |-> "closed", m |-> m])
    /\ UNCHANGED <<scene, created, nif, orders, modem>>

-----------------------------------------------------------------------------
Init ==
    /\ scene \in Scenes
    /\ created = {}
    /\ nif = [m \in Nifs |-> Released0]
    /\ msgs = <<[op |-> "init"]>>
    /\ orders = [m \in Nifs |-> <<>>]
    /\ link = [m \in Nifs |-> "closed"]
    /\ modem = [h \in Handles |-> "idle"]

MsgTask == \/ InitAgps \/ requestATL \/ releaseATL
           \/ reportOpened \/ reportAtlOpenFailed \/ reportClosed
Provider(m) == Connects(m) \/ Refuses(m) \/ Disconnects(m)

Next ==
    \/ MsgTask
    \/ retryCallback
    \/ \E h \in Handles : ModemRequests(h) \/ ModemReleases(h)
    \/ \E m \in Nifs : Provider(m) \/ Loses(m)

\* The adapter's thread and the timer run, the providers answer every order,
\* and the modem gives every connection back.
Fairness ==
    /\ WF_vars(MsgTask)
    /\ WF_vars(retryCallback)
    /\ \A h \in Handles : WF_vars(ModemReleases(h))
    /\ \A m \in Nifs : WF_vars(Provider(m))

Spec == Init /\ [][Next]_vars
FairSpec == Spec /\ Fairness

-----------------------------------------------------------------------------
(* Properties. *)

MsgType ==
    [op : {"init"}] \cup [op : {"request"}, h : Handles, type : Types]
        \cup [op : {"release"}, h : Handles] \cup [op : {"opened", "failed", "closed"}, m : Nifs]

TypeOK ==
    /\ scene \in Scenes /\ created \subseteq Nifs
    /\ nif \in [Nifs -> NifType]
    /\ msgs \in Seq(MsgType)
    /\ orders \in [Nifs -> Seq({"request", "release"})]
    /\ link \in [Nifs -> {"open", "closed"}]
    /\ modem \in [Handles -> {"idle", "opening", "open", "closing"}]

\* The state of a state machine and its list of subscribers agree: a
\* connection is wanted exactly while somebody active wants it, and a release
\* is waited for only while somebody waits.
ListAgrees(n, m) ==
    /\ n.inactive \subseteq n.subs /\ n.waiting \subseteq n.subs
    /\ n.state = "RELEASED" => n.inactive = {} /\ (m # "ds" => n.subs = {})
    /\ n.state \in {"PENDING", "ACQUIRED"} => Active(n) # {}
    /\ n.state = "RELEASING" => n.subs # {}

SubscribersAgree == \A m \in Nifs : ListAgrees(nif[m], m)

\* When nothing is under way a state machine is ACQUIRED exactly if its
\* connection is open, and RELEASED otherwise: no connection is left open that
\* nobody uses, no state machine waits for an answer that does not come.
UnderWay(m) ==
    \/ orders[m] # <<>>
    \/ \E i \in DOMAIN msgs :
          msgs[i].op \in {"opened", "failed", "closed"} /\ msgs[i].m = m
    \/ nif[m].timers > 0
LinksAgree ==
    \A m \in Nifs : ~scene.hasty /\ ~UnderWay(m) =>
        nif[m].state = IF link[m] = "open" THEN "ACQUIRED" ELSE "RELEASED"

\* Every request of the modem is answered, and so is every release.
Answered ==
    \A h \in Handles :
        /\ ~scene.hasty /\ modem[h] = "opening" ~> modem[h] # "opening"
        /\ ~scene.hasty /\ modem[h] = "closing" ~> modem[h] # "closing"

=============================================================================
