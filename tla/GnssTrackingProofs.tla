------------------------- MODULE GnssTrackingProofs -------------------------
(***************************************************************************)
(* The engine runs what the sessions need, no session is forgotten, and    *)
(* answers find their requests, for any clients, intervals and scenes.     *)
(***************************************************************************)
EXTENDS GnssTracking, WellFoundedInduction, TLAPS

-----------------------------------------------------------------------------
(* The smallest of a set of intervals. *)

LEMMA SmallestIs ==
    ASSUME NEW T \in SUBSET Nat, T # {}
    PROVE  Smallest(T) \in T /\ \A j \in T : Smallest(T) <= j
<1>1. PICK i \in T : \A j \in T : <<j, i>> \notin OpToRel(<, Nat)
  BY NatLessThanWellFounded, WFMin, Zenon
<1>2. \E k \in T : \A j \in T : k <= j
  <2>1. ASSUME NEW j \in T PROVE ~(j < i)
    <3>1. i \in Nat /\ j \in Nat
      OBVIOUS
    <3> QED BY <1>1, <3>1, Zenon DEF OpToRel
  <2>2. \A j \in T : i <= j
    BY <2>1
  <2> QED BY <2>2
<1> QED BY <1>2 DEF Smallest

LEMMA SmallestUnique ==
    ASSUME NEW T \in SUBSET Nat, NEW i \in T, \A j \in T : i <= j
    PROVE  Smallest(T) = i
<1>1. Smallest(T) \in T /\ \A j \in T : Smallest(T) <= j
  BY SmallestIs
<1>2. Smallest(T) <= i /\ i <= Smallest(T) /\ Smallest(T) \in Nat
  BY <1>1
<1> QED BY <1>2

\* What the engine has to run for sessions with the intervals T.
WantedOf(T) == IF T = {} THEN NoFix ELSE Smallest(T)

LEMMA WantedWith ==
    ASSUME NEW T \in SUBSET Nat, NEW i \in Nat
    PROVE  WantedOf(T \cup {i}) = IF T = {} \/ i < Smallest(T) THEN i ELSE WantedOf(T)
<1>1. CASE T = {}
  BY <1>1, SmallestUnique DEF WantedOf
<1>2. CASE T # {}
  <2>1. Smallest(T) \in T /\ \A j \in T : Smallest(T) <= j
    BY <1>2, SmallestIs
  <2>2. CASE i < Smallest(T)
    <3>1. \A j \in T \cup {i} : i <= j
      <4> SUFFICES ASSUME NEW j \in T PROVE i <= j
        BY i <= i
      <4>1. Smallest(T) \in Nat /\ j \in Nat /\ Smallest(T) <= j
        BY <2>1
      <4> QED BY <4>1, <2>2
    <3>2. Smallest(T \cup {i}) = i
      BY <3>1, SmallestUnique
    <3> QED BY <2>2, <3>2 DEF WantedOf
  <2>3. CASE ~(i < Smallest(T))
    <3>1. \A j \in T \cup {i} : Smallest(T) <= j
      <4>1. Smallest(T) \in Nat
        BY <2>1
      <4> QED BY <4>1, <2>1, <2>3
    <3>2. Smallest(T \cup {i}) = Smallest(T)
      BY <2>1, <3>1, SmallestUnique
    <3> QED BY <1>2, <2>3, <3>2 DEF WantedOf
  <2> QED BY <2>2, <2>3
<1> QED BY <1>1, <1>2

LEMMA WantedIsInterval ==
    ASSUME NEW T \in SUBSET Nat
    PROVE  /\ WantedOf(T) = NoFix <=> T = {}
           /\ T # {} => WantedOf(T) \in T
<1>1. CASE T = {}
  BY <1>1 DEF WantedOf
<1>2. CASE T # {}
  <2>1. Smallest(T) \in T /\ Smallest(T) \in Nat
    BY <1>2, SmallestIs
  <2>2. NoFix \notin Nat
    BY DEF NoFix
  <2> QED BY <1>2, <2>1, <2>2 DEF WantedOf
<1> QED BY <1>1, <1>2

-----------------------------------------------------------------------------
(* The message queue. *)

LEMMA Appended ==
    ASSUME NEW q \in Seq(Message), NEW m \in Message
    PROVE  /\ Append(q, m) \in Seq(Message)
           /\ Len(q) \in Nat /\ Len(Append(q, m)) = Len(q) + 1
           /\ \A n \in 1 .. Len(q) : n \in 1 .. Len(Append(q, m)) /\ Append(q, m)[n] = q[n]
           /\ Append(q, m)[Len(q) + 1] = m
OBVIOUS

LEMMA Shifted ==
    ASSUME NEW q \in Seq(Message), q # <<>>
    PROVE  /\ Tail(q) \in Seq(Message) /\ Head(q) = q[1] /\ Head(q) \in Message
           /\ Len(q) \in Nat /\ Len(q) >= 1 /\ Len(Tail(q)) = Len(q) - 1
           /\ \A n \in 1 .. Len(Tail(q)) : n + 1 \in 2 .. Len(q) /\ Tail(q)[n] = q[n + 1]
           /\ \A n \in 2 .. Len(q) : n - 1 \in 1 .. Len(Tail(q)) /\ Tail(q)[n - 1] = q[n]
<1>1. Len(q) \in Nat /\ Len(q) >= 1 /\ Head(q) = q[1] /\ Head(q) \in Message
  OBVIOUS
<1>2. Tail(q) \in Seq(Message) /\ Len(Tail(q)) = Len(q) - 1
  OBVIOUS
<1>3. \A n \in 1 .. Len(Tail(q)) : Tail(q)[n] = q[n + 1]
  OBVIOUS
<1> QED BY <1>1, <1>2, <1>3

LEMMA Fields ==
    /\ \A m \in Message : /\ m.type \in {"start", "update", "stop", "add", "remove", "ssr", "restart"}
                          /\ m.type \in {"start", "update"} => m.interval \in Intervals
                          /\ m.type \in {"start", "update", "stop"} => m.id \in Nat \ {0}
                          /\ m.type \notin {"ssr", "restart"} => m.client \in Clients
                          /\ m.type = "add" => m.cb \in Callbacks
BY DEF Message, TrackingMsg, ClientMsg, EngineMsg

-----------------------------------------------------------------------------
(* Types. *)

LEMMA ValuesType ==
    ASSUME TypeOK, NEW D \in SUBSET DOMAIN sessions
    PROVE  IntervalsOf(D) \in SUBSET Nat /\ IntervalsOf(D) \subseteq Intervals
BY IntervalsAssumption DEF TypeOK, IntervalsOf

LEMMA CallTypes ==
    ASSUME TypeOK, NEW i \in Intervals, NEW err \in BOOLEAN,
           startTracking(i, err) \/ stopTracking(err) \/ NoCall(err)
    PROVE  fix' \in Intervals \cup {NoFix} /\ missed' \in BOOLEAN /\ faults' \in Nat
<1>1. fix \in Intervals \cup {NoFix} /\ missed \in BOOLEAN /\ faults \in Nat
  BY DEF TypeOK
<1>2. CASE UNCHANGED <<fix, missed, faults>>
  BY <1>1, <1>2
<1>3. CASE Refuses /\ UNCHANGED <<fix, missed>>
  <2>1. faults' \in {faults, faults + 1}
    BY <1>3 DEF Refuses
  <2> QED BY <1>1, <1>3, <2>1
<1>4. CASE fix' \in {i, NoFix} /\ missed' = FALSE /\ UNCHANGED faults
  BY <1>1, <1>4
<1> QED BY <1>2, <1>3, <1>4 DEF startTracking, stopTracking, NoCall, engineVars

LEMMA MultiplexTypes ==
    ASSUME TypeOK, NEW k \in Key, NEW i \in Intervals, NEW err \in BOOLEAN,
           \/ startTrackingMultiplex(i, err)
           \/ updateTrackingMultiplex(k, i, err)
           \/ stopTrackingMultiplex(k, err)
    PROVE  fix' \in Intervals \cup {NoFix} /\ missed' \in BOOLEAN /\ faults' \in Nat
<1> DEFINE others == IntervalsOf(DOMAIN sessions \ {k})
<1>1. others # {} => Smallest(others) \in Intervals
  BY ValuesType, SmallestIs
<1>2. \/ startTracking(i, err) \/ stopTracking(err) \/ NoCall(err)
      \/ others # {} /\ startTracking(Smallest(others), err)
  BY DEF startTrackingMultiplex, updateTrackingMultiplex, stopTrackingMultiplex
<1> HIDE DEF others
<1> QED BY <1>1, <1>2, CallTypes

LEMMA SessionTypes ==
    ASSUME TypeOK, NEW k \in Key, NEW i \in Intervals,
           saveTrackingSession(k, i) \/ eraseTrackingSession(k) \/ UNCHANGED sessions
    PROVE  DOMAIN sessions' \subseteq Key /\ sessions' \in [DOMAIN sessions' -> Intervals]
<1>1. DOMAIN sessions \subseteq Key /\ sessions \in [DOMAIN sessions -> Intervals]
  BY DEF TypeOK
<1>2. CASE saveTrackingSession(k, i)
  <2>1. sessions' = [x \in DOMAIN sessions \cup {k} |-> IF x = k THEN i ELSE sessions[x]]
    BY <1>2 DEF saveTrackingSession
  <2> QED BY <1>1, <2>1
<1>3. CASE eraseTrackingSession(k)
  <2>1. sessions' = [x \in DOMAIN sessions \ {k} |-> sessions[x]]
    BY <1>3 DEF eraseTrackingSession
  <2> QED BY <1>1, <2>1
<1> QED BY <1>1, <1>2, <1>3

LEMMA ResponseTypes ==
    ASSUME TypeOK, NEW c \in Clients, NEW id, reportResponse(c, id)
    PROVE  requests' \in [Clients -> Seq({"start", "update", "stop"})]
<1>1. requests \in [Clients -> Seq({"start", "update", "stop"})]
  BY DEF TypeOK
<1>2. requests[c] # <<>> => Tail(requests[c]) \in Seq({"start", "update", "stop"})
  BY <1>1
<1> QED BY <1>1, <1>2 DEF reportResponse

LEMMA StopTypes ==
    ASSUME TypeOK, NEW k \in DOMAIN sessions, StopSession(k)
    PROVE  /\ DOMAIN sessions' \subseteq Key /\ sessions' \in [DOMAIN sessions' -> Intervals]
           /\ fix' \in Intervals \cup {NoFix} /\ missed' \in BOOLEAN /\ faults' \in Nat
           /\ refused' \subseteq Key
<1>1. PICK err \in BOOLEAN :
        /\ stopTrackingMultiplex(k, err)
        /\ IF err THEN UNCHANGED sessions /\ refused' = refused \cup {k}
           ELSE eraseTrackingSession(k) /\ refused' = refused \ {k}
  BY DEF StopSession
<1>2. k \in Key /\ refused' \subseteq Key
  BY <1>1 DEF TypeOK
<1>3. sessions[k] \in Intervals
  BY DEF TypeOK
<1> QED BY <1>1, <1>2, <1>3, MultiplexTypes, SessionTypes

\* Every step keeps the types.
LEMMA TypeStep ==
    ASSUME TypeOK, [Next]_vars
    PROVE  TypeOK'
<1>1. CASE UNCHANGED vars
  BY <1>1 DEF TypeOK, vars, clientVars, adapterVars, engineVars
<1>2. ASSUME NEW c \in Clients, NEW cb \in Callbacks, locAPISetCallbacks(c, cb), UNCHANGED scene
      PROVE  TypeOK'
  <2>1. [type |-> "add", client |-> c, cb |-> cb] \in Message
    BY DEF Message, ClientMsg
  <2>2. queue' \in Seq(Message)
    BY <1>2, <2>1, Appended DEF locAPISetCallbacks, sendMsg, TypeOK
  <2> QED BY <1>2, <2>2 DEF locAPISetCallbacks, TypeOK, adapterVars, engineVars
<1>3. ASSUME NEW c \in Clients, NEW i \in Intervals, locAPIStartTracking(c, i), UNCHANGED scene
      PROVE  TypeOK'
  <2>1. nextId' \in Nat \ {0}
    BY <1>3 DEF locAPIStartTracking, TypeOK
  <2>2. [type |-> "start", client |-> c, id |-> nextId', interval |-> i] \in Message
    BY <2>1 DEF Message, TrackingMsg
  <2>3. queue' \in Seq(Message)
    BY <1>3, <2>2, Appended DEF locAPIStartTracking, sendMsg, TypeOK
  <2>4. requests' \in [Clients -> Seq({"start", "update", "stop"})]
    BY <1>3 DEF locAPIStartTracking, TypeOK
  <2> QED BY <1>3, <2>1, <2>3, <2>4 DEF locAPIStartTracking, TypeOK, adapterVars, engineVars
<1>4. ASSUME NEW c \in Clients, NEW i \in Intervals, locAPIUpdateTrackingOptions(c, i),
             UNCHANGED scene
      PROVE  TypeOK'
  <2>1. session[c] \in Nat \ {0} /\ requests[c] \in Seq({"start", "update", "stop"})
    BY <1>4 DEF locAPIUpdateTrackingOptions, TypeOK
  <2>2. [type |-> "update", client |-> c, id |-> session[c], interval |-> i] \in Message
    BY <2>1 DEF Message, TrackingMsg
  <2>3. queue' \in Seq(Message)
    BY <1>4, <2>2, Appended DEF locAPIUpdateTrackingOptions, sendMsg, TypeOK
  <2>4. Append(requests[c], "update") \in Seq({"start", "update", "stop"})
    BY <2>1
  <2> QED BY <1>4, <2>3, <2>4 DEF locAPIUpdateTrackingOptions, TypeOK, adapterVars, engineVars
<1>5. ASSUME NEW c \in Clients, locAPIStopTracking(c), UNCHANGED scene
      PROVE  TypeOK'
  <2>1. session[c] \in Nat \ {0} /\ requests[c] \in Seq({"start", "update", "stop"})
    BY <1>5 DEF locAPIStopTracking, TypeOK
  <2>2. [type |-> "stop", client |-> c, id |-> session[c]] \in Message
    BY <2>1 DEF Message, TrackingMsg
  <2>3. queue' \in Seq(Message)
    BY <1>5, <2>2, Appended DEF locAPIStopTracking, sendMsg, TypeOK
  <2>4. Append(requests[c], "stop") \in Seq({"start", "update", "stop"})
    BY <2>1
  <2> QED BY <1>5, <2>3, <2>4 DEF locAPIStopTracking, TypeOK, adapterVars, engineVars
<1>6. ASSUME NEW c \in Clients, Destroy(c), UNCHANGED scene
      PROVE  TypeOK'
  <2>1. [type |-> "remove", client |-> c] \in Message
    BY DEF Message, ClientMsg
  <2>2. queue' \in Seq(Message)
    BY <1>6, <2>1, Appended DEF Destroy, sendMsg, TypeOK
  <2>3. requests' \in [Clients -> Seq({"start", "update", "stop"})]
    BY <1>6 DEF Destroy, TypeOK
  <2> QED BY <1>6, <2>2, <2>3 DEF Destroy, TypeOK, adapterVars, engineVars
<1>7. CASE EngineDown /\ UNCHANGED scene
  BY <1>7 DEF EngineDown, TypeOK, clientVars, adapterVars
<1>8. CASE handleEngineUpEvent /\ UNCHANGED scene
  <2>1. [type |-> "ssr"] \in Message /\ [type |-> "restart"] \in Message
    BY DEF Message, EngineMsg
  <2>2. queue' \in Seq(Message)
    BY <1>8, <2>1, Appended DEF handleEngineUpEvent, TypeOK
  <2> QED BY <1>8, <2>2 DEF handleEngineUpEvent, TypeOK, clientVars, adapterVars, engineVars
<1>9. ASSUME Adapter, UNCHANGED scene
      PROVE  TypeOK'
  <2> DEFINE m == Head(queue)
  <2>1. queue # <<>> /\ m \in Message /\ Tail(queue) \in Seq(Message)
    BY <1>9, Shifted DEF Adapter, Takes, TypeOK, MsgStartTracking, MsgUpdateTracking,
       MsgStopTracking, MsgAddClient, stopClientSessions, eraseClient, LocSsrMsg, restartSessions
  <2>2. CASE MsgStartTracking
    <3>1. m.client \in Clients /\ m.id \in Nat \ {0} /\ m.interval \in Intervals
      BY <2>1, <2>2, Fields DEF MsgStartTracking, Takes
    <3>2. PICK err \in BOOLEAN :
            IF clientData[m.client] # "tracking" THEN UNCHANGED <<engineVars, sessions>>
            ELSE /\ startTrackingMultiplex(m.interval, err)
                 /\ IF err THEN UNCHANGED sessions
                    ELSE saveTrackingSession(<<m.client, m.id>>, m.interval)
      BY <2>2 DEF MsgStartTracking
    <3>3. <<m.client, m.id>> \in Key
      BY <3>1 DEF Key
    <3>4. /\ fix' \in Intervals \cup {NoFix} /\ missed' \in BOOLEAN /\ faults' \in Nat
          /\ DOMAIN sessions' \subseteq Key /\ sessions' \in [DOMAIN sessions' -> Intervals]
      <4>1. CASE clientData[m.client] # "tracking"
        BY <3>2, <4>1 DEF engineVars, TypeOK
      <4>2. CASE clientData[m.client] = "tracking"
        BY <3>1, <3>2, <3>3, <4>2, MultiplexTypes, SessionTypes
      <4> QED BY <4>1, <4>2
    <3>5. requests' \in [Clients -> Seq({"start", "update", "stop"})]
      BY <2>2, <3>1, ResponseTypes DEF MsgStartTracking
    <3> QED BY <1>9, <2>1, <2>2, <3>4, <3>5 DEF MsgStartTracking, Taken, AdapterFrame, TypeOK
  <2>3. CASE MsgUpdateTracking
    <3> DEFINE k == <<m.client, m.id>>
    <3>1. m.client \in Clients /\ m.id \in Nat \ {0} /\ m.interval \in Intervals
      BY <2>1, <2>3, Fields DEF MsgUpdateTracking, Takes
    <3>2. k \in Key
      BY <3>1 DEF Key
    <3>3. CASE k \notin DOMAIN sessions
      BY <1>9, <2>1, <2>3, <3>3 DEF MsgUpdateTracking, Taken, AdapterFrame, TypeOK, engineVars
    <3>4. CASE k \in DOMAIN sessions
      <4>1. PICK err \in BOOLEAN :
              /\ updateTrackingMultiplex(k, m.interval, err)
              /\ IF err THEN UNCHANGED sessions ELSE saveTrackingSession(k, m.interval)
        BY <2>3, <3>4 DEF MsgUpdateTracking
      <4>2. /\ fix' \in Intervals \cup {NoFix} /\ missed' \in BOOLEAN /\ faults' \in Nat
            /\ DOMAIN sessions' \subseteq Key /\ sessions' \in [DOMAIN sessions' -> Intervals]
        BY <3>1, <3>2, <4>1, MultiplexTypes, SessionTypes
      <4>3. requests' \in [Clients -> Seq({"start", "update", "stop"})]
        BY <2>3, <3>1, <3>4, ResponseTypes DEF MsgUpdateTracking
      <4> QED BY <1>9, <2>1, <2>3, <4>2, <4>3 DEF MsgUpdateTracking, Taken, AdapterFrame, TypeOK
    <3> QED BY <3>3, <3>4
  <2>4. CASE MsgStopTracking
    <3> DEFINE k == <<m.client, m.id>>
    <3>1. m.client \in Clients
      BY <2>1, <2>4, Fields DEF MsgStopTracking, Takes
    <3>2. CASE k \notin DOMAIN sessions
      BY <1>9, <2>1, <2>4, <3>2 DEF MsgStopTracking, Taken, AdapterFrame, TypeOK, engineVars
    <3>3. CASE k \in DOMAIN sessions
      <4>1. StopSession(k) /\ reportResponse(m.client, m.id)
        BY <2>4, <3>3 DEF MsgStopTracking
      <4>2. requests' \in [Clients -> Seq({"start", "update", "stop"})]
        BY <3>1, <4>1, ResponseTypes
      <4>3. /\ DOMAIN sessions' \subseteq Key /\ sessions' \in [DOMAIN sessions' -> Intervals]
            /\ fix' \in Intervals \cup {NoFix} /\ missed' \in BOOLEAN /\ faults' \in Nat
            /\ refused' \subseteq Key
        BY <3>3, <4>1, StopTypes
      <4> QED BY <1>9, <2>1, <2>4, <4>2, <4>3 DEF MsgStopTracking, Taken, AdapterFrame, TypeOK
    <3> QED BY <3>2, <3>3
  <2>5. CASE MsgAddClient
    <3>1. m.client \in Clients /\ m.cb \in Callbacks
      BY <2>1, <2>5, Fields DEF MsgAddClient, Takes
    <3> QED BY <1>9, <2>1, <2>5, <3>1 DEF MsgAddClient, Taken, AdapterFrame, TypeOK, engineVars
  <2>6. CASE stopClientSessions
    <3>1. PICK k \in SessionsToStop(m.client) : StopSession(k) /\ visited' = visited \cup {k}
      BY <2>6 DEF stopClientSessions
    <3>2. k \in DOMAIN sessions /\ k \in Key
      BY <3>1 DEF SessionsToStop, TypeOK
    <3>3. /\ DOMAIN sessions' \subseteq Key /\ sessions' \in [DOMAIN sessions' -> Intervals]
          /\ fix' \in Intervals \cup {NoFix} /\ missed' \in BOOLEAN /\ faults' \in Nat
          /\ refused' \subseteq Key
      BY <3>1, <3>2, StopTypes
    <3> QED BY <1>9, <2>6, <3>1, <3>2, <3>3 DEF stopClientSessions, AdapterFrame, TypeOK
  <2>7. CASE eraseClient
    <3>1. m.client \in Clients
      BY <2>1, <2>7, Fields DEF eraseClient, Takes
    <3> QED BY <1>9, <2>1, <2>7, <3>1 DEF eraseClient, Taken, AdapterFrame, TypeOK, engineVars
  <2>8. CASE LocSsrMsg
    BY <1>9, <2>1, <2>8 DEF LocSsrMsg, Taken, TypeOK, adapterVars
  <2>9. CASE restartSessions
    <3>1. fix' \in Intervals \cup {NoFix} /\ missed' \in BOOLEAN /\ faults' \in Nat
      <4>1. CASE UNCHANGED engineVars
        BY <4>1 DEF engineVars, TypeOK
      <4>2. CASE DOMAIN sessions # {} /\ startTracking(Smallest(IntervalsOf(DOMAIN sessions)), FALSE)
        <5>1. IntervalsOf(DOMAIN sessions) # {}
          BY <4>2 DEF IntervalsOf
        <5>2. Smallest(IntervalsOf(DOMAIN sessions)) \in Intervals
          BY <5>1, ValuesType, SmallestIs
        <5> QED BY <4>2, <5>2, CallTypes
      <4>3. CASE Refuses /\ missed' = (missed \/ engine = "open") /\ UNCHANGED fix
        <5>1. faults' \in {faults, faults + 1} /\ missed' \in BOOLEAN
          BY <4>3 DEF Refuses
        <5> QED BY <4>3, <5>1 DEF TypeOK
      <4> QED BY <2>9, <4>1, <4>2, <4>3 DEF restartSessions
    <3> QED BY <1>9, <2>1, <2>9, <3>1 DEF restartSessions, Taken, AdapterFrame, TypeOK, adapterVars
  <2> QED BY <1>9, <2>2, <2>3, <2>4, <2>5, <2>6, <2>7, <2>8, <2>9 DEF Adapter
<1> QED BY <1>1, <1>2, <1>3, <1>4, <1>5, <1>6, <1>7, <1>8, <1>9 DEF Next, Client

-----------------------------------------------------------------------------
(* Session ids are used once: a start on its way is about a session the     *)
(* adapter does not have yet.                                               *)

FreshIds ==
    /\ \A k \in DOMAIN sessions : k[2] <= nextId
    /\ \A n \in 1 .. Len(queue) : queue[n].type = "start" =>
          /\ queue[n].id <= nextId
          /\ \A k \in DOMAIN sessions : k[2] # queue[n].id
          /\ \A o \in 1 .. Len(queue) : o # n /\ queue[o].type = "start" => queue[o].id # queue[n].id

LEMMA FreshSent ==
    ASSUME TypeOK, FreshIds, NEW m \in Message, queue' = Append(queue, m), UNCHANGED sessions,
           \/ m.type # "start" /\ UNCHANGED nextId
           \/ m.type = "start" /\ nextId' = nextId + 1 /\ m.id = nextId'
    PROVE  FreshIds'
<1>1. /\ Len(queue) \in Nat /\ Len(queue') = Len(queue) + 1
      /\ \A n \in 1 .. Len(queue) : queue'[n] = queue[n]
      /\ queue'[Len(queue) + 1] = m
  BY Appended DEF TypeOK
<1>2. nextId \in Nat /\ nextId' \in Nat /\ nextId <= nextId'
  BY DEF TypeOK
<1>3. \A k \in DOMAIN sessions : k[2] \in Nat
  BY DEF TypeOK, Key
<1>4. \A n \in 1 .. Len(queue) : queue[n].type = "start" => queue[n].id \in Nat
  BY Fields DEF TypeOK
<1>5. \A k \in DOMAIN sessions' : k[2] <= nextId'
  BY <1>2, <1>3 DEF FreshIds
<1>6. ASSUME NEW n \in 1 .. Len(queue'), queue'[n].type = "start"
      PROVE  /\ queue'[n].id <= nextId'
             /\ \A k \in DOMAIN sessions' : k[2] # queue'[n].id
             /\ \A o \in 1 .. Len(queue') :
                   o # n /\ queue'[o].type = "start" => queue'[o].id # queue'[n].id
  <2>1. CASE n = Len(queue) + 1
    <3>1. m.id = nextId + 1 /\ nextId' = nextId + 1 /\ queue'[n].id = m.id
      BY <1>1, <1>6, <2>1
    <3>2. \A k \in DOMAIN sessions' : k[2] # queue'[n].id
      BY <1>2, <1>3, <3>1 DEF FreshIds
    <3>3. ASSUME NEW o \in 1 .. Len(queue'), o # n, queue'[o].type = "start"
          PROVE  queue'[o].id # queue'[n].id
      <4>1. o \in 1 .. Len(queue) /\ queue'[o] = queue[o]
        BY <1>1, <2>1, <3>3
      <4>2. queue[o].id <= nextId /\ queue[o].id \in Nat
        BY <1>4, <3>3, <4>1 DEF FreshIds
      <4> QED BY <1>2, <3>1, <4>1, <4>2
    <3> QED BY <1>2, <3>1, <3>2, <3>3
  <2>2. CASE n # Len(queue) + 1
    <3>1. n \in 1 .. Len(queue) /\ queue'[n] = queue[n]
      BY <1>1, <2>2
    <3>2. queue[n].id <= nextId /\ queue[n].id \in Nat
      BY <1>4, <1>6, <3>1 DEF FreshIds
    <3>3. ASSUME NEW o \in 1 .. Len(queue'), o # n, queue'[o].type = "start"
          PROVE  queue'[o].id # queue'[n].id
      <4>1. CASE o = Len(queue) + 1
        <5>1. queue'[o] = m /\ m.id = nextId + 1
          BY <1>1, <3>3, <4>1
        <5> QED BY <1>2, <3>1, <3>2, <5>1
      <4>2. CASE o # Len(queue) + 1
        <5>1. o \in 1 .. Len(queue) /\ queue'[o] = queue[o]
          BY <1>1, <4>2
        <5> QED BY <1>6, <3>1, <3>3, <5>1 DEF FreshIds
      <4> QED BY <4>1, <4>2
    <3> QED BY <1>2, <1>6, <3>1, <3>2, <3>3 DEF FreshIds
  <2> QED BY <2>1, <2>2
<1> QED BY <1>5, <1>6 DEF FreshIds

LEMMA FreshTaken ==
    ASSUME TypeOK, FreshIds, queue # <<>>, queue' = Tail(queue), UNCHANGED nextId,
           \A k \in DOMAIN sessions' \ DOMAIN sessions :
               Head(queue).type = "start" /\ k[2] = Head(queue).id
    PROVE  FreshIds'
<1>1. /\ queue[1] = Head(queue) /\ Len(queue) \in Nat /\ Len(queue) >= 1
      /\ \A n \in 1 .. Len(queue') : n + 1 \in 2 .. Len(queue) /\ queue'[n] = queue[n + 1]
  BY Shifted DEF TypeOK
<1>2. \A k \in DOMAIN sessions' : k[2] <= nextId'
  BY <1>1 DEF FreshIds
<1>3. ASSUME NEW n \in 1 .. Len(queue'), queue'[n].type = "start"
      PROVE  /\ queue'[n].id <= nextId'
             /\ \A k \in DOMAIN sessions' : k[2] # queue'[n].id
             /\ \A o \in 1 .. Len(queue') :
                   o # n /\ queue'[o].type = "start" => queue'[o].id # queue'[n].id
  <2>1. n + 1 \in 1 .. Len(queue) /\ n + 1 # 1 /\ 1 \in 1 .. Len(queue) /\ queue'[n] = queue[n + 1]
    BY <1>1
  <2>2. queue[n + 1].id <= nextId /\ \A k \in DOMAIN sessions : k[2] # queue[n + 1].id
    BY <1>3, <2>1 DEF FreshIds
  <2>3. Head(queue).type = "start" => Head(queue).id # queue[n + 1].id
    BY <1>1, <1>3, <2>1 DEF FreshIds
  <2>4. ASSUME NEW o \in 1 .. Len(queue'), o # n, queue'[o].type = "start"
        PROVE  queue'[o].id # queue'[n].id
    <3>1. o + 1 \in 1 .. Len(queue) /\ o + 1 # n + 1 /\ queue'[o] = queue[o + 1]
      BY <1>1, <2>4
    <3> QED BY <1>3, <2>1, <2>4, <3>1 DEF FreshIds
  <2> QED BY <2>1, <2>2, <2>3, <2>4
<1> QED BY <1>2, <1>3 DEF FreshIds

LEMMA FreshStays ==
    ASSUME FreshIds, UNCHANGED <<queue, nextId>>, DOMAIN sessions' \subseteq DOMAIN sessions
    PROVE  FreshIds'
BY DEF FreshIds

-----------------------------------------------------------------------------
(* After a renegotiation of the handle the sessions are restarted. *)

RestartFollows ==
    \A n \in 1 .. Len(queue) : queue[n].type = "ssr" =>
        \E o \in n + 1 .. Len(queue) : queue[o].type = "restart"

LEMMA FollowsSent ==
    ASSUME TypeOK, RestartFollows, NEW m \in Message, m.type # "ssr", queue' = Append(queue, m)
    PROVE  RestartFollows' /\ (Queued("restart") => Queued("restart")')
<1>1. /\ Len(queue) \in Nat /\ Len(queue') = Len(queue) + 1
      /\ \A n \in 1 .. Len(queue) : queue'[n] = queue[n]
      /\ queue'[Len(queue) + 1] = m
  BY Appended DEF TypeOK
<1>2. ASSUME NEW n \in 1 .. Len(queue'), queue'[n].type = "ssr"
      PROVE  \E o \in n + 1 .. Len(queue') : queue'[o].type = "restart"
  <2>1. n \in 1 .. Len(queue) /\ queue[n].type = "ssr"
    BY <1>1, <1>2
  <2>2. PICK o \in n + 1 .. Len(queue) : queue[o].type = "restart"
    BY <2>1 DEF RestartFollows
  <2>3. o \in 1 .. Len(queue) /\ o \in n + 1 .. Len(queue')
    BY <1>1, <2>1
  <2> QED BY <1>1, <2>2, <2>3
<1>3. Queued("restart") => Queued("restart")'
  BY <1>1 DEF Queued
<1> QED BY <1>2, <1>3 DEF RestartFollows

LEMMA FollowsTaken ==
    ASSUME TypeOK, RestartFollows, queue # <<>>, queue' = Tail(queue)
    PROVE  /\ RestartFollows'
           /\ Queued("restart") /\ Head(queue).type # "restart" => Queued("restart")'
           /\ Head(queue).type = "ssr" => Queued("restart")'
<1>1. /\ queue[1] = Head(queue) /\ Len(queue) \in Nat /\ Len(queue) >= 1
      /\ Len(queue') = Len(queue) - 1
      /\ \A n \in 1 .. Len(queue') : n + 1 \in 2 .. Len(queue) /\ queue'[n] = queue[n + 1]
      /\ \A n \in 2 .. Len(queue) : n - 1 \in 1 .. Len(queue') /\ queue'[n - 1] = queue[n]
  BY Shifted DEF TypeOK
<1>2. ASSUME NEW n \in 1 .. Len(queue'), queue'[n].type = "ssr"
      PROVE  \E o \in n + 1 .. Len(queue') : queue'[o].type = "restart"
  <2>1. n + 1 \in 1 .. Len(queue) /\ queue[n + 1].type = "ssr"
    BY <1>1, <1>2
  <2>2. PICK o \in (n + 1) + 1 .. Len(queue) : queue[o].type = "restart"
    BY <2>1 DEF RestartFollows
  <2>3. o \in 2 .. Len(queue) /\ o - 1 \in n + 1 .. Len(queue')
    BY <1>1, <2>1
  <2> QED BY <1>1, <2>2, <2>3
<1>3. ASSUME NEW n \in 2 .. Len(queue), queue[n].type = "restart"
      PROVE  Queued("restart")'
  BY <1>1, <1>3 DEF Queued
<1>4. Queued("restart") /\ Head(queue).type # "restart" => Queued("restart")'
  BY <1>1, <1>3 DEF Queued
<1>5. Head(queue).type = "ssr" => \E o \in 1 + 1 .. Len(queue) : queue[o].type = "restart"
  BY <1>1 DEF RestartFollows
<1> QED BY <1>2, <1>3, <1>4, <1>5 DEF RestartFollows

LEMMA FollowsUp ==
    ASSUME TypeOK, RestartFollows,
           queue' = Append(Append(queue, [type |-> "ssr"]), [type |-> "restart"])
    PROVE  RestartFollows' /\ (Queued("restart") => Queued("restart")')
<1> DEFINE half == Append(queue, [type |-> "ssr"])
<1>1. [type |-> "ssr"] \in Message /\ [type |-> "restart"] \in Message
  BY DEF Message, EngineMsg
<1>2. half \in Seq(Message) /\ Len(queue) \in Nat /\ Len(half) = Len(queue) + 1
      /\ \A n \in 1 .. Len(queue) : n \in 1 .. Len(half) /\ half[n] = queue[n]
  BY <1>1, Appended DEF TypeOK
<1>3. Len(queue') = Len(half) + 1 /\ queue'[Len(half) + 1] = [type |-> "restart"]
      /\ \A n \in 1 .. Len(half) : queue'[n] = half[n]
  <2> HIDE DEF half
  <2>1. queue' = Append(half, [type |-> "restart"])
    BY DEF half
  <2> QED BY <1>1, <1>2, <2>1, Appended
<1> HIDE DEF half
<1>4. ASSUME NEW n \in 1 .. Len(queue'), queue'[n].type = "ssr"
      PROVE  \E o \in n + 1 .. Len(queue') : queue'[o].type = "restart"
  <2>1. n \in 1 .. Len(half)
    BY <1>2, <1>3, <1>4
  <2>2. Len(half) + 1 \in n + 1 .. Len(queue')
    BY <1>2, <1>3, <2>1
  <2> QED BY <1>3, <2>2
<1>5. Queued("restart") => Queued("restart")'
  BY <1>2, <1>3 DEF Queued
<1> QED BY <1>4, <1>5 DEF RestartFollows

-----------------------------------------------------------------------------
(* What a call to the multiplexer leaves the engine with, for the intervals *)
(* New of the sessions there will be.                                       *)

All == IntervalsOf(DOMAIN sessions)

Served(New) ==
    \/ fix' = WantedOf(New)
    \/ UNCHANGED <<fix, missed>> /\ WantedOf(New) = WantedOf(All)

LEMMA WantedIs ==
    ASSUME TypeOK
    PROVE  Wanted = WantedOf(All)
<1>1. All = {} <=> DOMAIN sessions = {}
  BY DEF All, IntervalsOf
<1> QED BY <1>1 DEF Wanted, WantedOf, All

LEMMA StartServes ==
    ASSUME TypeOK, NEW i \in Intervals, startTrackingMultiplex(i, FALSE)
    PROVE  Served(All \cup {i})
<1>1. All \in SUBSET Nat /\ i \in Nat
  BY ValuesType, IntervalsAssumption DEF All
<1>2. WantedOf(All \cup {i}) = IF All = {} \/ i < Smallest(All) THEN i ELSE WantedOf(All)
  BY <1>1, WantedWith
<1> QED BY <1>2 DEF startTrackingMultiplex, startTracking, NoCall, Served, All, engineVars

LEMMA UpdateServes ==
    ASSUME TypeOK, NEW k \in DOMAIN sessions, NEW i \in Intervals,
           updateTrackingMultiplex(k, i, FALSE)
    PROVE  Served(IntervalsOf(DOMAIN sessions \ {k}) \cup {i})
<1> DEFINE others == IntervalsOf(DOMAIN sessions \ {k})
<1>1. others \in SUBSET Nat /\ i \in Nat /\ sessions[k] \in Nat
  BY ValuesType, IntervalsAssumption DEF TypeOK
<1>2. All = others \cup {sessions[k]}
  BY DEF All, IntervalsOf
<1>3. /\ WantedOf(others \cup {i}) = IF others = {} \/ i < Smallest(others) THEN i ELSE WantedOf(others)
      /\ WantedOf(All) = IF others = {} \/ sessions[k] < Smallest(others) THEN sessions[k]
                         ELSE WantedOf(others)
  BY <1>1, <1>2, WantedWith
<1>4. \/ (others = {} \/ i < Smallest(others)) /\ fix' = i
      \/ /\ others # {} /\ ~(i < Smallest(others)) /\ sessions[k] < Smallest(others)
         /\ fix' = Smallest(others)
      \/ /\ others # {} /\ ~(i < Smallest(others)) /\ ~(sessions[k] < Smallest(others))
         /\ UNCHANGED <<fix, missed>>
  BY DEF updateTrackingMultiplex, startTracking, NoCall, engineVars
<1>5. others # {} => WantedOf(others) = Smallest(others)
  BY DEF WantedOf
<1> HIDE DEF others
<1>6. Served(others \cup {i})
  BY <1>3, <1>4, <1>5 DEF Served
<1> QED BY <1>6 DEF others

LEMMA StopServes ==
    ASSUME TypeOK, NEW k \in DOMAIN sessions, stopTrackingMultiplex(k, FALSE)
    PROVE  Served(IntervalsOf(DOMAIN sessions \ {k}))
<1> DEFINE others == IntervalsOf(DOMAIN sessions \ {k})
<1>1. others \in SUBSET Nat /\ sessions[k] \in Nat
  BY ValuesType, IntervalsAssumption DEF TypeOK
<1>2. All = others \cup {sessions[k]}
  BY DEF All, IntervalsOf
<1>3. WantedOf(All) = IF others = {} \/ sessions[k] < Smallest(others) THEN sessions[k]
                      ELSE WantedOf(others)
  BY <1>1, <1>2, WantedWith
<1>4. \/ others = {} /\ fix' = NoFix
      \/ others # {} /\ fix' = Smallest(others)
      \/ others # {} /\ ~(sessions[k] < Smallest(others)) /\ UNCHANGED <<fix, missed>>
  BY DEF stopTrackingMultiplex, stopTracking, startTracking, NoCall, engineVars
<1>5. WantedOf(others) = IF others = {} THEN NoFix ELSE Smallest(others)
  BY DEF WantedOf
<1> HIDE DEF others
<1>6. Served(others)
  BY <1>3, <1>4, <1>5 DEF Served
<1> QED BY <1>6 DEF others

\* A refused call changes nothing of the engine.
LEMMA Refusal ==
    ASSUME NEW k, NEW i,
           \/ startTrackingMultiplex(i, TRUE) \/ updateTrackingMultiplex(k, i, TRUE)
           \/ stopTrackingMultiplex(k, TRUE)
    PROVE  UNCHANGED <<fix, missed>>
BY DEF startTrackingMultiplex, updateTrackingMultiplex, stopTrackingMultiplex,
       startTracking, stopTracking, NoCall

LEMMA SavedValues ==
    ASSUME NEW k, NEW i, saveTrackingSession(k, i)
    PROVE  All' = IntervalsOf(DOMAIN sessions \ {k}) \cup {i}
           /\ DOMAIN sessions' = DOMAIN sessions \cup {k}
<1>1. sessions' = [x \in DOMAIN sessions \cup {k} |-> IF x = k THEN i ELSE sessions[x]]
  BY DEF saveTrackingSession
<1>2. DOMAIN sessions' = DOMAIN sessions \cup {k}
  BY <1>1
<1>3. sessions'[k] = i /\ \A x \in DOMAIN sessions \ {k} : sessions'[x] = sessions[x]
  BY <1>1
<1>4. All' = {sessions'[x] : x \in DOMAIN sessions \cup {k}}
  BY <1>2 DEF All, IntervalsOf
<1>5. All' = {sessions[x] : x \in DOMAIN sessions \ {k}} \cup {i}
  BY <1>3, <1>4
<1> QED BY <1>2, <1>5 DEF IntervalsOf

LEMMA ErasedValues ==
    ASSUME NEW k, eraseTrackingSession(k)
    PROVE  All' = IntervalsOf(DOMAIN sessions \ {k}) /\ DOMAIN sessions' = DOMAIN sessions \ {k}
<1>1. sessions' = [x \in DOMAIN sessions \ {k} |-> sessions[x]]
  BY DEF eraseTrackingSession
<1>2. DOMAIN sessions' = DOMAIN sessions \ {k}
  BY <1>1
<1>3. \A x \in DOMAIN sessions \ {k} : sessions'[x] = sessions[x]
  BY <1>1
<1> QED BY <1>2, <1>3 DEF All, IntervalsOf

LEMMA ServedAgrees ==
    ASSUME TypeOK, TypeOK', EngineAgrees, Served(All'), UNCHANGED engine,
           Queued("restart") => Queued("restart")'
    PROVE  EngineAgrees'
<1>1. All \in SUBSET Nat /\ All' \in SUBSET Nat
  <2>1. All \in SUBSET Nat
    BY ValuesType DEF All
  <2>2. All' \subseteq Intervals
    BY DEF All, IntervalsOf, TypeOK
  <2> QED BY <2>1, <2>2, IntervalsAssumption
<1>2. Wanted = WantedOf(All)
  BY WantedIs
<1>3. Wanted' = WantedOf(All')
  <2>1. All' = {} <=> DOMAIN sessions' = {}
    BY DEF All, IntervalsOf
  <2> QED BY <2>1 DEF Wanted, WantedOf, All
<1>4. /\ DOMAIN sessions = {} <=> Wanted = NoFix
      /\ DOMAIN sessions' = {} <=> Wanted' = NoFix
  <2>1. All = {} <=> DOMAIN sessions = {}
    BY DEF All, IntervalsOf
  <2>2. All' = {} <=> DOMAIN sessions' = {}
    BY DEF All, IntervalsOf
  <2> QED BY <1>1, <1>2, <1>3, <2>1, <2>2, WantedIsInterval
<1>5. CASE fix' = WantedOf(All')
  BY <1>3, <1>4, <1>5 DEF EngineAgrees
<1>6. CASE UNCHANGED <<fix, missed>> /\ WantedOf(All') = WantedOf(All)
  BY <1>2, <1>3, <1>4, <1>6 DEF EngineAgrees
<1> QED BY <1>5, <1>6 DEF Served

-----------------------------------------------------------------------------
(* The engine agrees with the sessions. *)

EngineInv == TypeOK /\ FreshIds /\ RestartFollows /\ EngineAgrees

LEMMA EngineInit == Init => EngineInv
<1> SUFFICES ASSUME Init PROVE EngineInv
  OBVIOUS
<1>1. DOMAIN sessions = {} /\ sessions \in [DOMAIN sessions -> Intervals]
  BY DEF Init
<1>2. TypeOK
  <2>1. queue \in Seq(Message) /\ requests \in [Clients -> Seq({"start", "update", "stop"})]
    BY DEF Init
  <2> QED BY <1>1, <2>1 DEF Init, TypeOK
<1>3. Len(queue) = 0
  BY DEF Init
<1>4. FreshIds /\ RestartFollows
  BY <1>1, <1>3 DEF FreshIds, RestartFollows
<1>5. EngineAgrees
  BY <1>1 DEF Init, EngineAgrees
<1> QED BY <1>2, <1>4, <1>5 DEF EngineInv

\* A client's call sends one message and leaves sessions and engine alone.
LEMMA ClientStep ==
    ASSUME EngineInv, NEW c \in Clients, Client(c), UNCHANGED scene, TypeOK'
    PROVE  EngineInv'
<1> USE DEF EngineInv
<1>1. UNCHANGED <<sessions, engine, fix, missed>>
  BY DEF Client, locAPISetCallbacks, locAPIStartTracking, locAPIStopTracking, Destroy,
         locAPIUpdateTrackingOptions, adapterVars, engineVars
<1>2. PICK m \in Message :
        /\ queue' = Append(queue, m) /\ m.type # "ssr"
        /\ \/ m.type # "start" /\ UNCHANGED nextId
           \/ m.type = "start" /\ nextId' = nextId + 1 /\ m.id = nextId'
  <2>1. ASSUME NEW cb \in Callbacks, locAPISetCallbacks(c, cb)
        PROVE  \E m \in Message :
                  /\ queue' = Append(queue, m) /\ m.type # "ssr"
                  /\ m.type # "start" /\ UNCHANGED nextId
    <3> DEFINE m == [type |-> "add", client |-> c, cb |-> cb]
    <3>1. m \in Message
      BY DEF Message, ClientMsg
    <3> QED BY <2>1, <3>1 DEF locAPISetCallbacks, sendMsg
  <2>2. ASSUME NEW i \in Intervals, locAPIStartTracking(c, i)
        PROVE  \E m \in Message :
                  /\ queue' = Append(queue, m) /\ m.type # "ssr"
                  /\ m.type = "start" /\ nextId' = nextId + 1 /\ m.id = nextId'
    <3> DEFINE m == [type |-> "start", client |-> c, id |-> nextId', interval |-> i]
    <3>1. nextId' \in Nat \ {0}
      BY <2>2 DEF locAPIStartTracking, TypeOK
    <3>2. m \in Message
      BY <3>1 DEF Message, TrackingMsg
    <3>3. m.type = "start" /\ m.id = nextId' /\ queue' = Append(queue, m) /\ nextId' = nextId + 1
      BY <2>2 DEF locAPIStartTracking, sendMsg
    <3> HIDE DEF m
    <3> QED BY <3>2, <3>3
  <2>3. ASSUME NEW i \in Intervals, locAPIUpdateTrackingOptions(c, i)
        PROVE  \E m \in Message :
                  /\ queue' = Append(queue, m) /\ m.type # "ssr"
                  /\ m.type # "start" /\ UNCHANGED nextId
    <3> DEFINE m == [type |-> "update", client |-> c, id |-> session[c], interval |-> i]
    <3>1. session[c] \in Nat \ {0}
      BY <2>3 DEF locAPIUpdateTrackingOptions, TypeOK
    <3>2. m \in Message
      BY <3>1 DEF Message, TrackingMsg
    <3> QED BY <2>3, <3>2 DEF locAPIUpdateTrackingOptions, sendMsg
  <2>4. ASSUME locAPIStopTracking(c)
        PROVE  \E m \in Message :
                  /\ queue' = Append(queue, m) /\ m.type # "ssr"
                  /\ m.type # "start" /\ UNCHANGED nextId
    <3> DEFINE m == [type |-> "stop", client |-> c, id |-> session[c]]
    <3>1. session[c] \in Nat \ {0}
      BY <2>4 DEF locAPIStopTracking, TypeOK
    <3>2. m \in Message
      BY <3>1 DEF Message, TrackingMsg
    <3> QED BY <2>4, <3>2 DEF locAPIStopTracking, sendMsg
  <2>5. ASSUME Destroy(c)
        PROVE  \E m \in Message :
                  /\ queue' = Append(queue, m) /\ m.type # "ssr"
                  /\ m.type # "start" /\ UNCHANGED nextId
    <3> DEFINE m == [type |-> "remove", client |-> c]
    <3>1. m \in Message
      BY DEF Message, ClientMsg
    <3> QED BY <2>5, <3>1 DEF Destroy, sendMsg
  <2> QED BY <2>1, <2>2, <2>3, <2>4, <2>5 DEF Client
<1>3. FreshIds'
  BY <1>1, <1>2, FreshSent
<1>4. RestartFollows' /\ (Queued("restart") => Queued("restart")')
  BY <1>2, FollowsSent
<1>5. EngineAgrees'
  BY <1>1, <1>4 DEF EngineAgrees, Wanted, IntervalsOf
<1> QED BY <1>3, <1>4, <1>5

\* The engine goes down, or is up again.
LEMMA EngineStep ==
    ASSUME EngineInv, EngineDown \/ handleEngineUpEvent, UNCHANGED scene, TypeOK'
    PROVE  EngineInv'
<1> USE DEF EngineInv
<1>1. CASE EngineDown
  <2>1. UNCHANGED <<queue, nextId, sessions>> /\ fix' = NoFix /\ engine' = "down"
    BY <1>1 DEF EngineDown, adapterVars
  <2>2. FreshIds' /\ RestartFollows'
    BY <2>1, FreshStays DEF RestartFollows
  <2>3. EngineAgrees'
    BY <2>1 DEF EngineAgrees
  <2> QED BY <2>2, <2>3
<1>2. CASE handleEngineUpEvent
  <2>1. /\ UNCHANGED <<nextId, sessions, fix, missed>> /\ engine' = "up"
        /\ queue' = Append(Append(queue, [type |-> "ssr"]), [type |-> "restart"])
    BY <1>2 DEF handleEngineUpEvent, adapterVars, engineVars
  <2>2. RestartFollows'
    BY <2>1, FollowsUp
  <2>3. EngineAgrees'
    BY <2>1 DEF EngineAgrees, Wanted, IntervalsOf
  <2>4. FreshIds'
    <3> DEFINE half == Append(queue, [type |-> "ssr"])
    <3>1. [type |-> "ssr"] \in Message /\ [type |-> "restart"] \in Message
      BY DEF Message, EngineMsg
    <3>2. /\ half \in Seq(Message) /\ Len(queue) \in Nat /\ Len(half) = Len(queue) + 1
          /\ \A n \in 1 .. Len(queue) : half[n] = queue[n]
          /\ half[Len(queue) + 1] = [type |-> "ssr"]
      BY <3>1, Appended DEF TypeOK
    <3> HIDE DEF half
    <3>3. queue' = Append(half, [type |-> "restart"])
      BY <2>1 DEF half
    <3>4. /\ Len(queue') = Len(half) + 1
          /\ \A n \in 1 .. Len(half) : queue'[n] = half[n]
          /\ queue'[Len(half) + 1] = [type |-> "restart"]
      BY <3>1, <3>2, <3>3, Appended
    <3>5. \A n \in 1 .. Len(queue') :
            queue'[n].type = "start" => n \in 1 .. Len(queue) /\ queue'[n] = queue[n]
      BY <3>2, <3>4
    <3> QED BY <2>1, <3>5 DEF FreshIds
  <2> QED BY <2>2, <2>3, <2>4
<1> QED BY <1>1, <1>2

\* What a stop leaves, whether the engine refuses it or not.
LEMMA StopStep ==
    ASSUME TypeOK, NEW k \in DOMAIN sessions, StopSession(k)
    PROVE  Served(All') /\ DOMAIN sessions' \subseteq DOMAIN sessions
<1>1. PICK err \in BOOLEAN :
        /\ stopTrackingMultiplex(k, err)
        /\ IF err THEN UNCHANGED sessions /\ refused' = refused \cup {k}
           ELSE eraseTrackingSession(k) /\ refused' = refused \ {k}
  BY DEF StopSession
<1>2. CASE err
  <2>1. UNCHANGED <<fix, missed>>
    BY <1>1, <1>2, Refusal
  <2>2. All' = All /\ UNCHANGED sessions
    BY <1>1, <1>2 DEF All, IntervalsOf
  <2> QED BY <2>1, <2>2 DEF Served
<1>3. CASE ~err
  BY <1>1, <1>3, StopServes, ErasedValues
<1> QED BY <1>2, <1>3

LEMMA AdapterStep ==
    ASSUME EngineInv, Adapter, UNCHANGED scene, TypeOK'
    PROVE  EngineInv'
<1> DEFINE m == Head(queue)
<1> USE DEF EngineInv
<1>1. queue # <<>> /\ m \in Message
  BY Shifted DEF Adapter, Takes, TypeOK, MsgStartTracking, MsgUpdateTracking,
     MsgStopTracking, MsgAddClient, stopClientSessions, eraseClient, LocSsrMsg, restartSessions
\* A message is taken, and the sessions there were stay or go.
<1>2. ASSUME Taken, UNCHANGED nextId,
             \A k \in DOMAIN sessions' \ DOMAIN sessions : m.type = "start" /\ k[2] = m.id
      PROVE  /\ FreshIds' /\ RestartFollows'
             /\ Queued("restart") /\ m.type # "restart" => Queued("restart")'
             /\ m.type = "ssr" => Queued("restart")'
  BY <1>1, <1>2, FreshTaken, FollowsTaken DEF Taken
<1>3. CASE MsgStartTracking
  <2> DEFINE k == <<m.client, m.id>>
  <2>1. m.type = "start" /\ Taken /\ UNCHANGED <<nextId, engine>>
    BY <1>3 DEF MsgStartTracking, Takes, AdapterFrame
  <2>2. m.interval \in Intervals
    BY <1>1, <2>1, Fields
  <2>3. PICK err \in BOOLEAN :
          IF clientData[m.client] # "tracking" THEN UNCHANGED <<engineVars, sessions>>
          ELSE /\ startTrackingMultiplex(m.interval, err)
               /\ IF err THEN UNCHANGED sessions ELSE saveTrackingSession(k, m.interval)
    BY <1>3 DEF MsgStartTracking
  <2>4. CASE UNCHANGED <<fix, missed, sessions>>
    <3>1. Served(All')
      BY <2>4 DEF Served, All, IntervalsOf
    <3>2. FreshIds' /\ RestartFollows' /\ (Queued("restart") => Queued("restart")')
      BY <1>2, <2>1, <2>4
    <3> QED BY <2>1, <3>1, <3>2, ServedAgrees
  <2>5. CASE startTrackingMultiplex(m.interval, FALSE) /\ saveTrackingSession(k, m.interval)
    <3>1. Served(All \cup {m.interval})
      BY <2>2, <2>5, StartServes
    <3>2. k \notin DOMAIN sessions
      <4>1. 1 \in 1 .. Len(queue) /\ queue[1] = m
        BY <1>1, Shifted DEF TypeOK
      <4>2. \A x \in DOMAIN sessions : x[2] # m.id
        BY <2>1, <4>1 DEF FreshIds
      <4> QED BY <4>2
    <3>3. DOMAIN sessions \ {k} = DOMAIN sessions
      BY <3>2
    <3>4. All' = All \cup {m.interval} /\ DOMAIN sessions' = DOMAIN sessions \cup {k}
      BY <2>5, <3>3, SavedValues DEF All
    <3>5. FreshIds' /\ RestartFollows' /\ (Queued("restart") => Queued("restart")')
      BY <1>2, <2>1, <3>4
    <3> QED BY <2>1, <3>1, <3>4, <3>5, ServedAgrees
  <2>6. \/ UNCHANGED <<fix, missed, sessions>>
        \/ startTrackingMultiplex(m.interval, FALSE) /\ saveTrackingSession(k, m.interval)
    <3>1. CASE clientData[m.client] # "tracking"
      BY <2>3, <3>1 DEF engineVars
    <3>2. CASE clientData[m.client] = "tracking" /\ err
      BY <2>3, <3>2, Refusal
    <3>3. CASE clientData[m.client] = "tracking" /\ ~err
      BY <2>3, <3>3
    <3> QED BY <3>1, <3>2, <3>3
  <2> QED BY <2>4, <2>5, <2>6
<1>4. CASE MsgUpdateTracking
  <2> DEFINE k == <<m.client, m.id>>
  <2>1. m.type = "update" /\ Taken /\ UNCHANGED <<nextId, engine>>
    BY <1>4 DEF MsgUpdateTracking, Takes, AdapterFrame
  <2>2. m.interval \in Intervals
    BY <1>1, <2>1, Fields
  <2>3. CASE UNCHANGED <<fix, missed, sessions>>
    <3>1. Served(All')
      BY <2>3 DEF Served, All, IntervalsOf
    <3>2. FreshIds' /\ RestartFollows' /\ (Queued("restart") => Queued("restart")')
      BY <1>2, <2>1, <2>3
    <3> QED BY <2>1, <3>1, <3>2, ServedAgrees
  <2>4. CASE /\ k \in DOMAIN sessions
             /\ updateTrackingMultiplex(k, m.interval, FALSE)
             /\ saveTrackingSession(k, m.interval)
    <3>1. Served(IntervalsOf(DOMAIN sessions \ {k}) \cup {m.interval})
      BY <2>2, <2>4, UpdateServes
    <3>2. /\ All' = IntervalsOf(DOMAIN sessions \ {k}) \cup {m.interval}
          /\ DOMAIN sessions' = DOMAIN sessions \cup {k}
      BY <2>4, SavedValues
    <3>3. FreshIds' /\ RestartFollows' /\ (Queued("restart") => Queued("restart")')
      BY <1>2, <2>1, <2>4, <3>2
    <3> QED BY <2>1, <3>1, <3>2, <3>3, ServedAgrees
  <2>5. CASE k \notin DOMAIN sessions
    <3>1. UNCHANGED <<fix, missed, sessions>>
      BY <1>4, <2>5 DEF MsgUpdateTracking, engineVars
    <3> QED BY <2>3, <3>1
  <2>6. CASE k \in DOMAIN sessions
    <3>1. PICK err \in BOOLEAN :
            /\ updateTrackingMultiplex(k, m.interval, err)
            /\ IF err THEN UNCHANGED sessions ELSE saveTrackingSession(k, m.interval)
      BY <1>4, <2>6 DEF MsgUpdateTracking
    <3>2. CASE err
      <4>1. UNCHANGED <<fix, missed>> /\ UNCHANGED sessions
        BY <3>1, <3>2, Refusal
      <4> QED BY <2>3, <4>1
    <3>3. CASE ~err
      BY <2>4, <2>6, <3>1, <3>3
    <3> QED BY <3>2, <3>3
  <2> QED BY <2>5, <2>6
<1>5. CASE MsgStopTracking
  <2> DEFINE k == <<m.client, m.id>>
  <2>1. m.type = "stop" /\ Taken /\ UNCHANGED <<nextId, engine>>
    BY <1>5 DEF MsgStopTracking, Takes, AdapterFrame
  <2>2. Served(All') /\ DOMAIN sessions' \subseteq DOMAIN sessions
    <3>1. CASE k \notin DOMAIN sessions
      <4>1. UNCHANGED <<fix, missed, sessions>>
        BY <1>5, <3>1 DEF MsgStopTracking, engineVars
      <4> QED BY <4>1 DEF Served, All, IntervalsOf
    <3>2. CASE k \in DOMAIN sessions
      <4>1. StopSession(k)
        BY <1>5, <3>2 DEF MsgStopTracking
      <4> QED BY <3>2, <4>1, StopStep
    <3> QED BY <3>1, <3>2
  <2>3. FreshIds' /\ RestartFollows' /\ (Queued("restart") => Queued("restart")')
    BY <1>2, <2>1, <2>2
  <2> QED BY <2>1, <2>2, <2>3, ServedAgrees
<1>6. CASE MsgAddClient \/ eraseClient
  <2>1. m.type \in {"add", "remove"} /\ Taken /\ UNCHANGED <<nextId, engine, sessions, fix, missed>>
    BY <1>6 DEF MsgAddClient, eraseClient, Takes, AdapterFrame, engineVars
  <2>2. Served(All')
    BY <2>1 DEF Served, All, IntervalsOf
  <2>3. FreshIds' /\ RestartFollows' /\ (Queued("restart") => Queued("restart")')
    BY <1>2, <2>1
  <2> QED BY <2>1, <2>2, <2>3, ServedAgrees
<1>7. CASE stopClientSessions
  <2>1. PICK k \in SessionsToStop(m.client) : StopSession(k)
    BY <1>7 DEF stopClientSessions
  <2>2. Served(All') /\ DOMAIN sessions' \subseteq DOMAIN sessions
    BY <2>1, StopStep DEF SessionsToStop
  <2>3. UNCHANGED <<queue, nextId, engine>>
    BY <1>7 DEF stopClientSessions, AdapterFrame
  <2>4. FreshIds' /\ RestartFollows' /\ (Queued("restart") => Queued("restart")')
    BY <2>2, <2>3, FreshStays DEF RestartFollows, Queued
  <2> QED BY <2>2, <2>3, <2>4, ServedAgrees
<1>8. CASE LocSsrMsg
  <2>1. /\ m.type = "ssr" /\ Taken /\ UNCHANGED <<nextId, sessions, missed>>
        /\ fix' = NoFix
    BY <1>8 DEF LocSsrMsg, Takes, adapterVars
  <2>2. FreshIds' /\ RestartFollows' /\ Queued("restart")'
    BY <1>2, <2>1
  <2> QED BY <2>1, <2>2 DEF EngineAgrees
<1>9. CASE restartSessions
  <2>1. m.type = "restart" /\ Taken /\ UNCHANGED <<nextId, engine, sessions>>
    BY <1>9 DEF restartSessions, Takes, AdapterFrame, adapterVars
  <2>2. FreshIds' /\ RestartFollows'
    BY <1>2, <2>1
  <2>3. EngineAgrees'
    <3>1. Wanted' = Wanted
      BY <2>1 DEF Wanted, IntervalsOf
    <3>2. CASE DOMAIN sessions = {}
      <4>1. fix' = fix
        BY <1>9, <3>2 DEF restartSessions, engineVars
      <4> QED BY <2>1, <3>1, <3>2, <4>1 DEF EngineAgrees
    <3>3. CASE DOMAIN sessions # {} /\ startTracking(Smallest(All), FALSE)
      <4>1. fix' = Wanted /\ fix' = WantedOf(All)
        BY <3>3, WantedIs DEF startTracking, Wanted, All
      <4>2. All # {} /\ All \in SUBSET Nat
        BY <3>3, ValuesType DEF All, IntervalsOf
      <4>3. fix' # NoFix
        BY <4>1, <4>2, WantedIsInterval
      <4> QED BY <3>1, <4>1, <4>3 DEF EngineAgrees
    <3>4. CASE missed' = (missed \/ engine = "open") /\ UNCHANGED fix
      <4>1. engine' # "open" \/ missed'
        BY <2>1, <3>4
      <4> QED BY <3>1, <3>4, <4>1 DEF EngineAgrees
    <3> QED BY <1>9, <3>2, <3>3, <3>4 DEF restartSessions, All
  <2> QED BY <2>2, <2>3
<1> QED BY <1>3, <1>4, <1>5, <1>6, <1>7, <1>8, <1>9 DEF Adapter

LEMMA EngineInvStep == EngineInv /\ [Next]_vars => EngineInv'
<1> SUFFICES ASSUME EngineInv, [Next]_vars PROVE EngineInv'
  OBVIOUS
<1>1. TypeOK'
  BY TypeStep DEF EngineInv
<1>2. CASE UNCHANGED vars
  BY <1>1, <1>2 DEF EngineInv, FreshIds, RestartFollows, EngineAgrees, Queued, Wanted, IntervalsOf,
     vars, adapterVars, engineVars
<1>3. CASE Next
  BY <1>1, <1>3, ClientStep, EngineStep, AdapterStep DEF Next
<1> QED BY <1>2, <1>3

(* The state is well typed. *)
THEOREM Typed == Spec => []TypeOK
<1>1. EngineInv => TypeOK
  BY DEF EngineInv
<1> QED BY <1>1, EngineInit, EngineInvStep, PTL DEF Spec

(* The engine runs with the smallest interval of all sessions, and not at all *)
(* without one, through refused calls and restarts of the modem.              *)
THEOREM EngineFollows == Spec => []EngineAgrees
<1>1. EngineInv => EngineAgrees
  BY DEF EngineInv
<1> QED BY <1>1, EngineInit, EngineInvStep, PTL DEF Spec

-----------------------------------------------------------------------------
(* No session is forgotten. *)

Tracks(k) == tracking[k[1]] /\ session[k[1]] = k[2]
TracksNext(k) == tracking'[k[1]] /\ session'[k[1]] = k[2]
Ends(m, k) ==
    \/ m = [type |-> "stop", client |-> k[1], id |-> k[2]]
    \/ m = [type |-> "remove", client |-> k[1]]

\* A start on its way is the client's session, or its end is behind it.
StartKnown ==
    \A n \in 1 .. Len(queue) : queue[n].type = "start" =>
        LET k == <<queue[n].client, queue[n].id>>
        IN  Tracks(k) \/ \E o \in n + 1 .. Len(queue) : Ends(queue[o], k)

\* Stops of a removal were tried only while it is handled.
VisitedTried ==
    /\ visited # {} => Len(queue) >= 1 /\ queue[1].type = "remove"
    /\ visited \cap DOMAIN sessions \subseteq refused

OrphanInv == StartKnown /\ VisitedTried /\ NoOrphans

LEMMA OrphanExtended ==
    ASSUME TypeOK, OrphanInv, UNCHANGED <<sessions, visited, refused>>,
           Len(queue') \in Nat, Len(queue) <= Len(queue'),
           \A n \in 1 .. Len(queue) : queue'[n] = queue[n],
           \A k \in Key : Tracks(k) =>
               TracksNext(k) \/ \E o \in Len(queue) + 1 .. Len(queue') : Ends(queue'[o], k),
           \A n \in Len(queue) + 1 .. Len(queue') :
               queue'[n].type = "start" => TracksNext(<<queue'[n].client, queue'[n].id>>)
    PROVE  OrphanInv'
<1>1. Len(queue) \in Nat /\ \A n \in 1 .. Len(queue) : queue[n] \in Message
  BY DEF TypeOK
<1>2. ASSUME NEW n \in 1 .. Len(queue'), queue'[n].type = "start"
      PROVE  LET k == <<queue'[n].client, queue'[n].id>>
             IN  TracksNext(k) \/ \E o \in n + 1 .. Len(queue') : Ends(queue'[o], k)
  <2> DEFINE k == <<queue'[n].client, queue'[n].id>>
  <2>1. CASE n \in 1 .. Len(queue)
    <3>1. queue'[n] = queue[n]
      BY <2>1
    <3>2. k \in Key
      BY <1>1, <1>2, <2>1, <3>1, Fields DEF Key
    <3>3. Tracks(k) \/ \E o \in n + 1 .. Len(queue) : Ends(queue[o], k)
      BY <1>2, <2>1, <3>1 DEF OrphanInv, StartKnown
    <3>4. CASE Tracks(k)
      <4>1. TracksNext(k) \/ \E o \in Len(queue) + 1 .. Len(queue') : Ends(queue'[o], k)
        BY <3>2, <3>4
      <4>2. Len(queue) + 1 .. Len(queue') \subseteq n + 1 .. Len(queue')
        BY <1>1, <2>1
      <4> QED BY <4>1, <4>2
    <3>5. CASE \E o \in n + 1 .. Len(queue) : Ends(queue[o], k)
      <4>1. PICK o \in n + 1 .. Len(queue) : Ends(queue[o], k)
        BY <3>5
      <4>2. o \in 1 .. Len(queue) /\ o \in n + 1 .. Len(queue') /\ queue'[o] = queue[o]
        BY <1>1, <2>1
      <4> QED BY <4>1, <4>2
    <3> QED BY <3>3, <3>4, <3>5
  <2>2. CASE n \notin 1 .. Len(queue)
    <3>1. n \in Len(queue) + 1 .. Len(queue')
      BY <1>1, <2>2
    <3> QED BY <1>2, <3>1
  <2> QED BY <2>1, <2>2
<1>3. VisitedTried'
  BY <1>1 DEF OrphanInv, VisitedTried
<1>4. ASSUME NEW k \in DOMAIN sessions
      PROVE  TracksNext(k) \/ OnTheWay(k)' \/ k \in refused
  <2>1. k \in Key
    BY DEF TypeOK
  <2>2. CASE Tracks(k)
    <3>1. ASSUME NEW o \in Len(queue) + 1 .. Len(queue'), Ends(queue'[o], k)
          PROVE  OnTheWay(k)'
      <4>1. o \in 1 .. Len(queue')
        BY <1>1
      <4> QED BY <3>1, <4>1 DEF OnTheWay, Ends
    <3> QED BY <2>1, <2>2, <3>1
  <2>3. CASE OnTheWay(k)
    <3>1. PICK n \in 1 .. Len(queue) : Ends(queue[n], k)
      BY <2>3 DEF OnTheWay, Ends
    <3>2. n \in 1 .. Len(queue') /\ Ends(queue'[n], k)
      BY <1>1, <3>1
    <3> QED BY <3>2 DEF OnTheWay, Ends
  <2> QED BY <2>2, <2>3 DEF OrphanInv, NoOrphans, Tracks
<1>5. StartKnown'
  BY <1>2, Zenon DEF StartKnown, Tracks, TracksNext
<1>6. NoOrphans'
  BY <1>4 DEF NoOrphans, TracksNext, OnTheWay
<1> QED BY <1>3, <1>5, <1>6 DEF OrphanInv

LEMMA OrphanTaken ==
    ASSUME TypeOK, OrphanInv, queue # <<>>, queue' = Tail(queue),
           UNCHANGED <<tracking, session>>,
           visited' = {},
           \A k \in DOMAIN sessions' :
               \/ k \in refused'
               \/ k \in DOMAIN sessions /\ ~Ends(Head(queue), k) /\ (k \in refused => k \in refused')
               \/ /\ Head(queue).type = "start"
                  /\ k = <<Head(queue).client, Head(queue).id>>
    PROVE  OrphanInv'
<1>1. /\ queue[1] = Head(queue) /\ Len(queue) \in Nat /\ Len(queue) >= 1
      /\ Len(queue') = Len(queue) - 1
      /\ \A n \in 1 .. Len(queue') : n + 1 \in 2 .. Len(queue) /\ queue'[n] = queue[n + 1]
      /\ \A n \in 2 .. Len(queue) : n - 1 \in 1 .. Len(queue') /\ queue'[n - 1] = queue[n]
  BY Shifted DEF TypeOK
<1>2. ASSUME NEW k, NEW n \in 1 .. Len(queue), NEW o \in n + 1 .. Len(queue), Ends(queue[o], k)
      PROVE  OnTheWay(k)' /\ o - 1 \in n .. Len(queue') /\ Ends(queue'[o - 1], k)
  <2>1. o \in 2 .. Len(queue) /\ o - 1 \in n .. Len(queue')
    BY <1>1
  <2>2. o - 1 \in 1 .. Len(queue') /\ queue'[o - 1] = queue[o]
    BY <1>1, <2>1
  <2>3. Ends(queue'[o - 1], k)
    BY <1>2, <2>2
  <2> QED BY <2>1, <2>2, <2>3 DEF OnTheWay, Ends
<1>3. ASSUME NEW n \in 1 .. Len(queue'), queue'[n].type = "start"
      PROVE  LET k == <<queue'[n].client, queue'[n].id>>
             IN  Tracks(k) \/ \E o \in n + 1 .. Len(queue') : Ends(queue'[o], k)
  <2> DEFINE k == <<queue'[n].client, queue'[n].id>>
  <2>1. n + 1 \in 1 .. Len(queue) /\ queue'[n] = queue[n + 1]
    BY <1>1
  <2>2. Tracks(k) \/ \E o \in (n + 1) + 1 .. Len(queue) : Ends(queue[o], k)
    BY <1>3, <2>1 DEF OrphanInv, StartKnown
  <2>3. ASSUME NEW o \in (n + 1) + 1 .. Len(queue), Ends(queue[o], k)
        PROVE  \E p \in n + 1 .. Len(queue') : Ends(queue'[p], k)
    BY <1>2, <2>1, <2>3
  <2> QED BY <2>2, <2>3
<1>4. ASSUME NEW k \in DOMAIN sessions'
      PROVE  Tracks(k) \/ OnTheWay(k)' \/ k \in refused'
  <2>1. CASE k \in DOMAIN sessions /\ ~Ends(Head(queue), k) /\ (k \in refused => k \in refused')
    <3>1. CASE OnTheWay(k)
      <4>1. PICK n \in 1 .. Len(queue) : Ends(queue[n], k)
        BY <3>1 DEF OnTheWay, Ends
      <4>2. n # 1
        BY <1>1, <2>1, <4>1
      <4>3. n \in 1 + 1 .. Len(queue) /\ 1 \in 1 .. Len(queue)
        BY <1>1, <4>2
      <4> QED BY <1>2, <4>1, <4>3
    <3> QED BY <2>1, <3>1 DEF OrphanInv, NoOrphans, Tracks
  <2>2. CASE Head(queue).type = "start" /\ k = <<Head(queue).client, Head(queue).id>>
    <3>1. 1 \in 1 .. Len(queue)
      BY <1>1
    <3>2. Tracks(k) \/ \E o \in 1 + 1 .. Len(queue) : Ends(queue[o], k)
      BY <1>1, <2>2, <3>1 DEF OrphanInv, StartKnown
    <3> QED BY <1>2, <3>1, <3>2
  <2> QED BY <2>1, <2>2
<1>5. StartKnown'
  BY <1>3 DEF StartKnown, Tracks
<1>6. NoOrphans'
  BY <1>4 DEF NoOrphans, Tracks, OnTheWay
<1>7. VisitedTried'
  BY DEF VisitedTried
<1> QED BY <1>5, <1>6, <1>7 DEF OrphanInv

\* A session whose stop was tried is gone or refused.
LEMMA StopTried ==
    ASSUME NEW k \in DOMAIN sessions, StopSession(k)
    PROVE  \A x \in DOMAIN sessions' :
             x \in DOMAIN sessions /\ (x = k => x \in refused') /\ (x \in refused => x \in refused')
BY DEF StopSession, eraseTrackingSession

\* Steps of the clients and the engine only add to the queue.
LEMMA OrphanSent ==
    ASSUME TypeOK, OrphanInv, UNCHANGED <<sessions, visited, refused>>,
           NEW m \in Message, queue' = Append(queue, m),
           \A k \in Key : Tracks(k) => TracksNext(k) \/ Ends(m, k),
           m.type = "start" => TracksNext(<<m.client, m.id>>)
    PROVE  OrphanInv'
<1>1. /\ Len(queue) \in Nat /\ Len(queue') = Len(queue) + 1
      /\ \A n \in 1 .. Len(queue) : queue'[n] = queue[n]
      /\ queue'[Len(queue) + 1] = m
  BY Appended DEF TypeOK
<1>2. Len(queue') \in Nat /\ Len(queue) <= Len(queue')
  BY <1>1
<1>3. \A n \in Len(queue) + 1 .. Len(queue') : queue'[n] = m
  BY <1>1
<1>4. Len(queue) + 1 \in Len(queue) + 1 .. Len(queue')
  BY <1>1
<1>5. \A k \in Key : Tracks(k) =>
         TracksNext(k) \/ \E o \in Len(queue) + 1 .. Len(queue') : Ends(queue'[o], k)
  BY <1>3, <1>4
<1>6. \A n \in Len(queue) + 1 .. Len(queue') :
         queue'[n].type = "start" => TracksNext(<<queue'[n].client, queue'[n].id>>)
  BY <1>3
<1> QED BY <1>1, <1>2, <1>5, <1>6, OrphanExtended

LEMMA OrphanClient ==
    ASSUME TypeOK, OrphanInv, NEW c \in Clients, Client(c)
    PROVE  OrphanInv'
<1>1. UNCHANGED <<sessions, visited, refused>>
  BY DEF Client, locAPISetCallbacks, locAPIStartTracking, locAPIUpdateTrackingOptions,
     locAPIStopTracking, Destroy, adapterVars
<1>2. tracking \in [Clients -> BOOLEAN] /\ session \in [Clients -> Nat] /\ nextId \in Nat
  BY DEF TypeOK
<1>3. \A k \in Key : k[1] \in Clients /\ k[2] \in Nat \ {0} /\ k = <<k[1], k[2]>>
  BY DEF Key
<1>4. ASSUME NEW cb \in Callbacks, locAPISetCallbacks(c, cb)
      PROVE  OrphanInv'
  <2> DEFINE m == [type |-> "add", client |-> c, cb |-> cb]
  <2>1. m \in Message /\ m.type # "start"
    BY DEF Message, ClientMsg
  <2>2. queue' = Append(queue, m) /\ UNCHANGED <<tracking, session>>
    BY <1>4 DEF locAPISetCallbacks, sendMsg
  <2>3. \A k \in Key : Tracks(k) => TracksNext(k)
    BY <2>2 DEF Tracks, TracksNext
  <2> HIDE DEF m
  <2> QED BY <1>1, <2>1, <2>2, <2>3, OrphanSent
<1>5. ASSUME NEW i \in Intervals, locAPIStartTracking(c, i)
      PROVE  OrphanInv'
  <2> DEFINE m == [type |-> "start", client |-> c, id |-> nextId + 1, interval |-> i]
  <2>1. m \in Message /\ m.client = c /\ m.id = nextId + 1
    BY <1>2 DEF Message, TrackingMsg
  <2>2. queue' = Append(queue, m)
    BY <1>5 DEF locAPIStartTracking, sendMsg
  <2>3. /\ ~tracking[c] /\ tracking' = [tracking EXCEPT ![c] = TRUE]
        /\ session' = [session EXCEPT ![c] = nextId + 1]
    BY <1>5 DEF locAPIStartTracking
  <2>4. \A k \in Key : Tracks(k) => TracksNext(k)
    BY <1>2, <1>3, <2>3 DEF Tracks, TracksNext
  <2>5. TracksNext(<<m.client, m.id>>)
    BY <1>2, <2>1, <2>3 DEF TracksNext
  <2> HIDE DEF m
  <2> QED BY <1>1, <2>1, <2>2, <2>4, <2>5, OrphanSent
<1>6. ASSUME NEW i \in Intervals, locAPIUpdateTrackingOptions(c, i)
      PROVE  OrphanInv'
  <2> DEFINE m == [type |-> "update", client |-> c, id |-> session[c], interval |-> i]
  <2>1. m \in Message /\ m.type # "start"
    BY <1>2, <1>6 DEF locAPIUpdateTrackingOptions, Message, TrackingMsg
  <2>2. queue' = Append(queue, m) /\ UNCHANGED <<tracking, session>>
    BY <1>6 DEF locAPIUpdateTrackingOptions, sendMsg
  <2>3. \A k \in Key : Tracks(k) => TracksNext(k)
    BY <2>2 DEF Tracks, TracksNext
  <2> HIDE DEF m
  <2> QED BY <1>1, <2>1, <2>2, <2>3, OrphanSent
<1>7. CASE locAPIStopTracking(c)
  <2> DEFINE m == [type |-> "stop", client |-> c, id |-> session[c]]
  <2>1. m \in Message /\ m.type # "start"
    BY <1>2, <1>7 DEF locAPIStopTracking, Message, TrackingMsg
  <2>2. /\ queue' = Append(queue, m) /\ UNCHANGED session
        /\ tracking' = [tracking EXCEPT ![c] = FALSE]
    BY <1>7 DEF locAPIStopTracking, sendMsg
  <2>3. \A k \in Key : Tracks(k) => TracksNext(k) \/ Ends(m, k)
    <3> SUFFICES ASSUME NEW k \in Key, Tracks(k) PROVE TracksNext(k) \/ Ends(m, k)
      OBVIOUS
    <3>1. CASE k[1] = c
      <4>1. k[2] = session[c]
        BY <3>1 DEF Tracks
      <4> QED BY <3>1, <4>1 DEF Ends
    <3>2. CASE k[1] # c
      BY <1>2, <1>3, <2>2, <3>2 DEF Tracks, TracksNext
    <3> QED BY <3>1, <3>2
  <2> HIDE DEF m
  <2> QED BY <1>1, <2>1, <2>2, <2>3, OrphanSent
<1>8. CASE Destroy(c)
  <2> DEFINE m == [type |-> "remove", client |-> c]
  <2>1. m \in Message /\ m.type # "start"
    BY DEF Message, ClientMsg
  <2>2. /\ queue' = Append(queue, m) /\ UNCHANGED tracking
        /\ session' = [session EXCEPT ![c] = 0]
    BY <1>8 DEF Destroy, sendMsg
  <2>3. \A k \in Key : Tracks(k) => TracksNext(k) \/ Ends(m, k)
    <3> SUFFICES ASSUME NEW k \in Key, Tracks(k) PROVE TracksNext(k) \/ Ends(m, k)
      OBVIOUS
    <3>1. CASE k[1] = c
      BY <3>1 DEF Ends
    <3>2. CASE k[1] # c
      BY <1>2, <1>3, <2>2, <3>2 DEF Tracks, TracksNext
    <3> QED BY <3>1, <3>2
  <2> HIDE DEF m
  <2> QED BY <1>1, <2>1, <2>2, <2>3, OrphanSent
<1> QED BY <1>4, <1>5, <1>6, <1>7, <1>8 DEF Client

LEMMA OrphanEngine ==
    ASSUME TypeOK, OrphanInv, EngineDown \/ handleEngineUpEvent
    PROVE  OrphanInv'
<1>1. UNCHANGED <<sessions, visited, refused, tracking, session>>
  BY DEF EngineDown, handleEngineUpEvent, adapterVars, clientVars
<1>2. \A k \in Key : Tracks(k) => TracksNext(k)
  BY <1>1 DEF Tracks, TracksNext
<1>3. queue \in Seq(Message) /\ Len(queue) \in Nat
  BY DEF TypeOK
<1>4. CASE EngineDown
  <2>1. UNCHANGED queue
    BY <1>4 DEF EngineDown
  <2> QED BY <1>1, <1>2, <1>3, <2>1, OrphanExtended
<1>5. CASE handleEngineUpEvent
  <2> DEFINE q == Append(queue, [type |-> "ssr"])
             m == [type |-> "restart"]
  <2>1. m \in Message /\ [type |-> "ssr"] \in Message
    BY DEF Message, EngineMsg
  <2>2. /\ q \in Seq(Message) /\ Len(q) = Len(queue) + 1
        /\ \A n \in 1 .. Len(queue) : n \in 1 .. Len(q) /\ q[n] = queue[n]
        /\ q[Len(queue) + 1].type = "ssr"
    BY <1>3, <2>1, Appended
  <2>3. queue' = Append(q, m)
    BY <1>5 DEF handleEngineUpEvent
  <2> HIDE DEF q
  <2>4. /\ Len(queue') = Len(queue) + 2
        /\ \A n \in 1 .. Len(q) : queue'[n] = q[n]
        /\ queue'[Len(queue) + 2].type = "restart"
    BY <1>3, <2>1, <2>2, <2>3, Appended
  <2>5. \A n \in 1 .. Len(queue) : queue'[n] = queue[n]
    BY <2>2, <2>4
  <2>6. \A n \in Len(queue) + 1 .. Len(queue') : queue'[n].type # "start"
    <3> SUFFICES ASSUME NEW n \in Len(queue) + 1 .. Len(queue') PROVE queue'[n].type # "start"
      OBVIOUS
    <3>1. n = Len(queue) + 1 \/ n = Len(queue) + 2
      BY <1>3, <2>4
    <3>2. Len(queue) + 1 \in 1 .. Len(q)
      BY <1>3, <2>2
    <3> QED BY <2>2, <2>4, <3>1, <3>2
  <2>7. Len(queue') \in Nat /\ Len(queue) <= Len(queue')
    BY <1>3, <2>4
  <2> QED BY <1>1, <1>2, <2>5, <2>6, <2>7, OrphanExtended
<1> QED BY <1>4, <1>5

\* While no removal is handled, no stop of one was tried.
LEMMA NotVisited ==
    ASSUME TypeOK, OrphanInv, queue # <<>>, Head(queue).type # "remove"
    PROVE  visited = {}
BY Shifted DEF OrphanInv, VisitedTried, TypeOK

LEMMA OrphanAdapter ==
    ASSUME TypeOK, OrphanInv, Adapter
    PROVE  OrphanInv'
<1> DEFINE m == Head(queue)
<1>1. queue # <<>> /\ m \in Message
  BY Shifted DEF Adapter, Takes, TypeOK, MsgStartTracking, MsgUpdateTracking,
     MsgStopTracking, MsgAddClient, stopClientSessions, eraseClient, LocSsrMsg, restartSessions
<1>2. UNCHANGED <<tracking, session>>
  BY DEF Adapter, MsgStartTracking, MsgUpdateTracking, MsgStopTracking, MsgAddClient,
     stopClientSessions, eraseClient, LocSsrMsg, restartSessions, AdapterFrame
<1>3. CASE MsgStartTracking
  <2>1. m.type = "start" /\ queue' = Tail(queue) /\ UNCHANGED <<visited, refused>>
    BY <1>3 DEF MsgStartTracking, Takes, Taken
  <2>2. \A k \in DOMAIN sessions' : k \in DOMAIN sessions \/ k = <<m.client, m.id>>
    BY <1>3 DEF MsgStartTracking, saveTrackingSession
  <2>3. \A k : ~Ends(m, k)
    BY <2>1 DEF Ends
  <2>4. visited' = {}
    BY <1>1, <2>1, NotVisited
  <2> QED BY <1>1, <1>2, <2>1, <2>2, <2>3, <2>4, OrphanTaken
<1>4. CASE MsgUpdateTracking
  <2>1. m.type = "update" /\ queue' = Tail(queue) /\ UNCHANGED <<visited, refused>>
    BY <1>4 DEF MsgUpdateTracking, Takes, Taken
  <2>2. DOMAIN sessions' \subseteq DOMAIN sessions
    BY <1>4 DEF MsgUpdateTracking, saveTrackingSession
  <2>3. \A k : ~Ends(m, k)
    BY <2>1 DEF Ends
  <2>4. visited' = {}
    BY <1>1, <2>1, NotVisited
  <2> QED BY <1>1, <1>2, <2>1, <2>2, <2>3, <2>4, OrphanTaken
<1>5. CASE MsgStopTracking
  <2> DEFINE k == <<m.client, m.id>>
  <2>1. m.type = "stop" /\ queue' = Tail(queue) /\ UNCHANGED visited
    BY <1>5 DEF MsgStopTracking, Takes, Taken
  <2>2. visited' = {}
    BY <1>1, <2>1, NotVisited
  <2>3. \A x \in Key : Ends(m, x) => x = k
    <3> SUFFICES ASSUME NEW x \in Key, Ends(m, x) PROVE x = k
      OBVIOUS
    <3>1. m = [type |-> "stop", client |-> x[1], id |-> x[2]]
      BY <2>1 DEF Ends
    <3>2. m.client = x[1] /\ m.id = x[2]
      BY <3>1
    <3> QED BY <3>2 DEF Key
  <2>4. CASE k \notin DOMAIN sessions
    <3>1. UNCHANGED <<sessions, refused>>
      BY <1>5, <2>4 DEF MsgStopTracking
    <3>2. \A x \in DOMAIN sessions : ~Ends(m, x)
      BY <2>3, <2>4 DEF TypeOK
    <3> QED BY <1>1, <1>2, <2>1, <2>2, <3>1, <3>2, OrphanTaken
  <2>5. CASE k \in DOMAIN sessions
    <3>1. StopSession(k)
      BY <1>5, <2>5 DEF MsgStopTracking
    <3>2. \A x \in DOMAIN sessions' :
            x \in DOMAIN sessions /\ (x = k => x \in refused') /\ (x \in refused => x \in refused')
      BY <2>5, <3>1, StopTried
    <3>3. \A x \in DOMAIN sessions' : x \in Key
      BY <3>2 DEF TypeOK
    <3> QED BY <1>1, <1>2, <2>1, <2>2, <2>3, <3>2, <3>3, OrphanTaken
  <2> QED BY <2>4, <2>5
<1>6. CASE MsgAddClient \/ LocSsrMsg \/ restartSessions
  <2>1. /\ m.type \in {"add", "ssr", "restart"} /\ queue' = Tail(queue)
        /\ UNCHANGED <<visited, refused, sessions>>
    BY <1>6 DEF MsgAddClient, LocSsrMsg, restartSessions, Takes, Taken, adapterVars
  <2>2. \A k : ~Ends(m, k)
    BY <2>1 DEF Ends
  <2>3. visited' = {}
    BY <1>1, <2>1, NotVisited
  <2> QED BY <1>1, <1>2, <2>1, <2>2, <2>3, OrphanTaken
<1>7. CASE eraseClient
  <2>1. /\ m.type = "remove" /\ queue' = Tail(queue) /\ visited' = {}
        /\ UNCHANGED <<refused, sessions>> /\ SessionsToStop(m.client) = {}
    BY <1>7 DEF eraseClient, Takes, Taken
  <2>2. ASSUME NEW k \in DOMAIN sessions, Ends(m, k)
        PROVE  k \in refused
    <3>1. m.client = k[1]
      BY <2>1, <2>2 DEF Ends
    <3>2. k \in visited
      BY <2>1, <3>1 DEF SessionsToStop
    <3> QED BY <3>2 DEF OrphanInv, VisitedTried
  <2> QED BY <1>1, <1>2, <2>1, <2>2, OrphanTaken
<1>8. CASE stopClientSessions
  <2>1. PICK k \in SessionsToStop(m.client) : StopSession(k) /\ visited' = visited \cup {k}
    BY <1>8 DEF stopClientSessions
  <2>2. m.type = "remove" /\ UNCHANGED queue
    BY <1>8 DEF stopClientSessions, Takes
  <2>3. \A x \in DOMAIN sessions' :
          x \in DOMAIN sessions /\ (x = k => x \in refused') /\ (x \in refused => x \in refused')
    BY <2>1, StopTried DEF SessionsToStop
  <2>4. StartKnown'
    BY <1>2, <2>2 DEF OrphanInv, StartKnown, Tracks
  <2>5. VisitedTried'
    <3>1. Len(queue) >= 1 /\ queue[1].type = "remove"
      BY <1>1, <2>2, Shifted DEF TypeOK
    <3> QED BY <2>1, <2>2, <2>3, <3>1 DEF OrphanInv, VisitedTried
  <2>6. NoOrphans'
    BY <1>2, <2>2, <2>3 DEF OrphanInv, NoOrphans, OnTheWay
  <2> QED BY <2>4, <2>5, <2>6 DEF OrphanInv
<1> QED BY <1>3, <1>4, <1>5, <1>6, <1>7, <1>8 DEF Adapter

\* A session is known to its client, on its way out, or was refused its stop,
\* through refused calls, removals and restarts of the modem.
THEOREM NothingForgotten == Spec => []NoOrphans
<1>1. Init => OrphanInv
  BY DEF Init, OrphanInv, StartKnown, VisitedTried, NoOrphans
<1>2. TypeOK /\ OrphanInv /\ [Next]_vars => OrphanInv'
  <2> SUFFICES ASSUME TypeOK, OrphanInv, [Next]_vars PROVE OrphanInv'
    OBVIOUS
  <2>1. CASE UNCHANGED vars
    BY <2>1 DEF OrphanInv, StartKnown, VisitedTried, NoOrphans, OnTheWay, Tracks,
       vars, clientVars, adapterVars
  <2>2. CASE Next
    BY <2>2, OrphanClient, OrphanEngine, OrphanAdapter DEF Next
  <2> QED BY <2>1, <2>2
<1>3. OrphanInv => NoOrphans
  BY DEF OrphanInv
<1> QED BY <1>1, <1>2, <1>3, Typed, PTL DEF Spec

-----------------------------------------------------------------------------
(* Answers meet their requests.  What the queue says about a session: *)
(* lemmas about Says.                                                 *)

\* A queue with nothing about the session says nothing.
LEMMA SaysNone ==
    ASSUME NEW q, NEW c, NEW id, \A n \in DOMAIN q : ~About(q[n], c, id)
    PROVE  Says(q, c, id, <<>>)
<1> DEFINE at == [i \in 1 .. 0 |-> 0]
<1>1. Len(<<>>) = 0 /\ 1 .. 0 = {}
  OBVIOUS
<1>2. at \in [1 .. Len(<<>>) -> DOMAIN q]
  BY <1>1
<1> QED BY <1>1, <1>2 DEF Says

\* Messages about something else change nothing.
LEMMA SaysMore ==
    ASSUME NEW q \in Seq(Message), NEW r \in Seq(Message), NEW c, NEW id, NEW s \in Seq(Kinds),
           Says(q, c, id, s), \A i \in DOMAIN r : ~About(r[i], c, id)
    PROVE  Says(q \o r, c, id, s)
<1>1. PICK f \in [1..Len(s) -> DOMAIN q] :
        /\ \A i, j \in 1..Len(s) : i < j => f[i] < f[j]
        /\ \A i \in 1..Len(s) : About(q[f[i]], c, id) /\ q[f[i]].type = s[i]
        /\ \A k \in DOMAIN q : About(q[k], c, id) => \E i \in 1..Len(s) : f[i] = k
  BY DEF Says
<1>2. /\ DOMAIN q = 1..Len(q) /\ DOMAIN r = 1..Len(r) /\ DOMAIN (q \o r) = 1..(Len(q) + Len(r))
      /\ Len(q) \in Nat /\ Len(r) \in Nat
      /\ \A k \in 1..Len(q) : (q \o r)[k] = q[k]
      /\ \A k \in (Len(q) + 1)..(Len(q) + Len(r)) : (q \o r)[k] = r[k - Len(q)]
  OBVIOUS
<1>3. f \in [1..Len(s) -> DOMAIN (q \o r)]
  BY <1>2
<1>4. \A i \in 1..Len(s) : About((q \o r)[f[i]], c, id) /\ (q \o r)[f[i]].type = s[i]
  BY <1>1, <1>2
<1>5. ASSUME NEW k \in DOMAIN (q \o r), About((q \o r)[k], c, id) PROVE \E i \in 1..Len(s) : f[i] = k
  <2>1. k \notin (Len(q) + 1)..(Len(q) + Len(r))
    <3> SUFFICES ASSUME k \in (Len(q) + 1)..(Len(q) + Len(r)) PROVE FALSE
      OBVIOUS
    <3>1. k - Len(q) \in DOMAIN r
      BY <1>2
    <3> QED BY <1>2, <1>5, <3>1
  <2>2. k \in DOMAIN q
    BY <1>2, <2>1
  <2> QED BY <1>1, <1>2, <1>5, <2>2
<1> QED BY <1>1, <1>3, <1>4, <1>5 DEF Says

\* A report that is queued is said last.
LEMMA SaysAppend ==
    ASSUME NEW q \in Seq(Message), NEW x \in Message, NEW c, NEW id, NEW s \in Seq(Kinds),
           Says(q, c, id, s), About(x, c, id)
    PROVE  Says(Append(q, x), c, id, Append(s, x.type))
<1>1. PICK f \in [1..Len(s) -> DOMAIN q] :
        /\ \A i, j \in 1..Len(s) : i < j => f[i] < f[j]
        /\ \A i \in 1..Len(s) : About(q[f[i]], c, id) /\ q[f[i]].type = s[i]
        /\ \A k \in DOMAIN q : About(q[k], c, id) => \E i \in 1..Len(s) : f[i] = k
  BY DEF Says
<1> DEFINE qq == Append(q, x)
           ss == Append(s, x.type)
           g == [i \in 1..(Len(s) + 1) |-> IF i = Len(s) + 1 THEN Len(q) + 1 ELSE f[i]]
<1>2. /\ DOMAIN q = 1..Len(q) /\ DOMAIN qq = 1..(Len(q) + 1) /\ Len(q) \in Nat /\ Len(s) \in Nat
      /\ \A k \in 1..Len(q) : qq[k] = q[k]
      /\ qq[Len(q) + 1] = x
  OBVIOUS
<1>3. /\ Len(ss) = Len(s) + 1 /\ ss[Len(s) + 1] = x.type
      /\ \A i \in 1..Len(s) : ss[i] = s[i]
  BY DEF Kinds, About
<1>4. \A i \in 1..Len(s) : f[i] \in 1..Len(q) /\ g[i] = f[i]
  BY <1>2
<1>5. g[Len(s) + 1] = Len(q) + 1
  BY <1>2
<1>6. g \in [1..Len(ss) -> DOMAIN qq]
  BY <1>2, <1>3, <1>4
<1> HIDE DEF qq, ss, g
<1>7. \A i \in 1..Len(ss) : i = Len(s) + 1 \/ i \in 1..Len(s)
  BY <1>2, <1>3
<1>8. \A i, j \in 1..Len(ss) : i < j => g[i] < g[j]
  BY <1>1, <1>2, <1>3, <1>4, <1>5, <1>7
<1>9. \A i \in 1..Len(ss) : About(qq[g[i]], c, id) /\ qq[g[i]].type = ss[i]
  BY <1>1, <1>2, <1>3, <1>4, <1>5, <1>7
<1>10. ASSUME NEW k \in DOMAIN qq, About(qq[k], c, id) PROVE \E i \in 1..Len(ss) : g[i] = k
  <2>1. CASE k = Len(q) + 1
    BY <2>1, <1>2, <1>3, <1>5
  <2>2. CASE k # Len(q) + 1
    <3>1. k \in 1..Len(q)
      BY <2>2, <1>2
    <3>2. PICK i \in 1..Len(s) : f[i] = k
      BY <1>1, <1>2, <1>10, <3>1
    <3>3. i \in 1..Len(ss) /\ g[i] = k
      BY <3>2, <1>2, <1>3, <1>4
    <3> QED BY <3>3
  <2> QED BY <2>1, <2>2
<1>11. Says(qq, c, id, ss)
  BY <1>6, <1>8, <1>9, <1>10 DEF Says
<1> QED BY <1>11 DEF qq, ss

\* A message about something else is taken.
LEMMA SaysOther ==
    ASSUME NEW q \in Seq(Message), q # <<>>, NEW c, NEW id, NEW s \in Seq(Kinds),
           Says(q, c, id, s), ~About(Head(q), c, id)
    PROVE  Says(Tail(q), c, id, s)
<1>1. PICK f \in [1..Len(s) -> DOMAIN q] :
        /\ \A i, j \in 1..Len(s) : i < j => f[i] < f[j]
        /\ \A i \in 1..Len(s) : About(q[f[i]], c, id) /\ q[f[i]].type = s[i]
        /\ \A k \in DOMAIN q : About(q[k], c, id) => \E i \in 1..Len(s) : f[i] = k
  BY DEF Says
<1> DEFINE qq == Tail(q)
           g == [i \in 1..Len(s) |-> f[i] - 1]
<1>2. /\ DOMAIN q = 1..Len(q) /\ DOMAIN qq = 1..(Len(q) - 1) /\ Len(q) \in Nat /\ Len(q) > 0
      /\ \A k \in 1..(Len(q) - 1) : qq[k] = q[k + 1]
      /\ Head(q) = q[1]
  OBVIOUS
<1>3. \A i \in 1..Len(s) : f[i] \in 2..Len(q) /\ g[i] = f[i] - 1
  BY <1>1, <1>2
<1> HIDE DEF qq
<1>4. g \in [1..Len(s) -> DOMAIN qq]
  BY <1>2, <1>3
<1> HIDE DEF g
<1>5. \A i, j \in 1..Len(s) : i < j => g[i] < g[j]
  BY <1>1, <1>3
<1>6. \A i \in 1..Len(s) : qq[g[i]] = q[f[i]]
  BY <1>2, <1>3
<1>7. ASSUME NEW k \in DOMAIN qq, About(qq[k], c, id) PROVE \E i \in 1..Len(s) : g[i] = k
  <2>1. k + 1 \in DOMAIN q /\ About(q[k + 1], c, id) /\ k \in Nat
    BY <1>2, <1>7
  <2>2. PICK i \in 1..Len(s) : f[i] = k + 1
    BY <1>1, <2>1
  <2> QED BY <2>1, <2>2, <1>3
<1>9. \A i \in 1..Len(s) : About(qq[g[i]], c, id) /\ qq[g[i]].type = s[i]
  BY <1>1, <1>6
<1>8. Says(qq, c, id, s)
  BY <1>4, <1>5, <1>7, <1>9 DEF Says
<1> QED BY <1>8 DEF qq

\* The report at the head of the queue is what is said next.
LEMMA SaysNext ==
    ASSUME NEW q \in Seq(Message), q # <<>>, NEW c, NEW id, NEW s \in Seq(Kinds),
           Says(q, c, id, s), About(Head(q), c, id)
    PROVE  s # <<>> /\ Head(s) = Head(q).type /\ Says(Tail(q), c, id, Tail(s))
<1>1. PICK f \in [1..Len(s) -> DOMAIN q] :
        /\ \A i, j \in 1..Len(s) : i < j => f[i] < f[j]
        /\ \A i \in 1..Len(s) : About(q[f[i]], c, id) /\ q[f[i]].type = s[i]
        /\ \A k \in DOMAIN q : About(q[k], c, id) => \E i \in 1..Len(s) : f[i] = k
  BY DEF Says
<1> DEFINE qq == Tail(q)
           ss == Tail(s)
           g == [i \in 1..(Len(s) - 1) |-> f[i + 1] - 1]
<1>2. /\ DOMAIN q = 1..Len(q) /\ DOMAIN qq = 1..(Len(q) - 1) /\ Len(q) \in Nat /\ Len(q) > 0
      /\ \A k \in 1..(Len(q) - 1) : qq[k] = q[k + 1]
      /\ Head(q) = q[1] /\ 1 \in DOMAIN q
  OBVIOUS
<1>3. \A i \in 1..Len(s) : f[i] \in 1..Len(q)
  BY <1>2
<1>4. PICK one \in 1..Len(s) : f[one] = 1
  BY <1>1, <1>2
<1>5. Len(s) \in Nat /\ Len(s) > 0 /\ 1 \in 1..Len(s)
  BY <1>4
<1>6. f[1] = 1
  BY <1>1, <1>3, <1>4, <1>5
<1>7. /\ s # <<>> /\ Head(s) = s[1] /\ Len(ss) = Len(s) - 1
      /\ \A i \in 1..(Len(s) - 1) : ss[i] = s[i + 1]
  BY <1>5
<1>8. \A i \in 1..(Len(s) - 1) :
        i + 1 \in 1..Len(s) /\ f[i + 1] \in 2..Len(q) /\ g[i] = f[i + 1] - 1
  <2> SUFFICES ASSUME NEW i \in 1..(Len(s) - 1) PROVE i + 1 \in 1..Len(s) /\ f[i + 1] \in 2..Len(q)
    OBVIOUS
  <2>1. i + 1 \in 1..Len(s) /\ 1 < i + 1
    BY <1>5
  <2>2. f[1] < f[i + 1]
    BY <1>1, <1>5, <2>1
  <2> QED BY <2>1, <2>2, <1>3, <1>6
<1> HIDE DEF qq, ss
<1>9. g \in [1..Len(ss) -> DOMAIN qq]
  BY <1>2, <1>7, <1>8
<1> HIDE DEF g
<1>10. \A i, j \in 1..Len(ss) : i < j => g[i] < g[j]
  <2> SUFFICES ASSUME NEW i \in 1..Len(ss), NEW j \in 1..Len(ss), i < j PROVE g[i] < g[j]
    OBVIOUS
  <2>1. i + 1 < j + 1 /\ i + 1 \in 1..Len(s) /\ j + 1 \in 1..Len(s)
    BY <1>7, <1>8
  <2>2. f[i + 1] < f[j + 1]
    BY <2>1, <1>1
  <2> QED BY <2>1, <2>2, <1>3, <1>7, <1>8
<1>11. \A i \in 1..Len(ss) : qq[g[i]] = q[f[i + 1]] /\ ss[i] = s[i + 1] /\ i + 1 \in 1..Len(s)
  BY <1>2, <1>7, <1>8
<1>12. ASSUME NEW k \in DOMAIN qq, About(qq[k], c, id) PROVE \E i \in 1..Len(ss) : g[i] = k
  <2>1. k + 1 \in DOMAIN q /\ About(q[k + 1], c, id) /\ k \in Nat /\ k >= 1
    BY <1>2, <1>12
  <2>2. PICK i \in 1..Len(s) : f[i] = k + 1
    BY <1>1, <2>1
  <2>3. i # 1
    BY <2>1, <2>2, <1>6
  <2>4. i - 1 \in 1..Len(ss) /\ (i - 1) + 1 = i
    BY <2>3, <1>5, <1>7
  <2>5. g[i - 1] = k
    BY <2>1, <2>2, <2>4, <1>7, <1>8
  <2> QED BY <2>4, <2>5
<1>15. \A i \in 1..Len(ss) : About(qq[g[i]], c, id) /\ qq[g[i]].type = ss[i]
  BY <1>1, <1>11
<1>13. Says(qq, c, id, ss)
  BY <1>9, <1>10, <1>12, <1>15 DEF Says
<1>14. Head(s) = Head(q).type
  BY <1>1, <1>2, <1>5, <1>6, <1>7
<1> QED BY <1>7, <1>13, <1>14 DEF qq, ss

-----------------------------------------------------------------------------
(* The start is the first word about a session; ids that were not given out *)
(* are not talked about or in use; a client whose removal is queued has no  *)
(* session; and the adapter can answer the sessions it has.                 *)

FirstWord ==
    \A n \in 1 .. Len(queue) : queue[n].type = "start" =>
        \A o \in 1 .. n - 1 : ~About(queue[o], queue[n].client, queue[n].id)
KnownIds ==
    \A n \in 1 .. Len(queue) : queue[n].type \in Kinds => queue[n].id <= nextId
GivenOut == \A c \in Clients : session[c] <= nextId
Leavers ==
    \A n \in 1 .. Len(queue) : queue[n].type = "remove" =>
        api[queue[n].client] = "gone" /\ session[queue[n].client] = 0
Reachable == \A c \in Clients : <<c, session[c]>> \in DOMAIN sessions => clientData[c] # "none"

\* AnswersMatch for one client.
Matches(c) == CanAnswer(c, session[c]) => Says(queue, c, session[c], requests[c])
AnswerInv ==
    FirstWord /\ KnownIds /\ GivenOut /\ Leavers /\ Reachable /\ \A c \in Clients : Matches(c)

\* A message is queued: a start with a new id, or about a session that was given out.
LEMMA WordsSent ==
    ASSUME TypeOK, AnswerInv, NEW m \in Message, queue' = Append(queue, m),
           nextId' \in Nat, nextId <= nextId',
           m.type \in Kinds => m.id <= nextId',
           m.type = "start" => nextId < m.id,
           \A c \in Clients : api[c] = "gone" /\ session[c] = 0 => api'[c] = "gone" /\ session'[c] = 0,
           m.type = "remove" => api'[m.client] = "gone" /\ session'[m.client] = 0,
           \A c \in Clients : session'[c] \in {session[c], 0, nextId'}
    PROVE  FirstWord' /\ KnownIds' /\ GivenOut' /\ Leavers'
<1>1. /\ Len(queue) \in Nat /\ Len(queue') = Len(queue) + 1
      /\ \A n \in 1 .. Len(queue) : queue'[n] = queue[n] /\ queue[n] \in Message
      /\ queue'[Len(queue) + 1] = m
  BY Appended DEF TypeOK
<1>2. nextId \in Nat
  BY DEF TypeOK
<1>3. ASSUME NEW n \in 1 .. Len(queue'), queue'[n].type = "start", NEW o \in 1 .. n - 1
      PROVE  ~About(queue'[o], queue'[n].client, queue'[n].id)
  <2>1. o \in 1 .. Len(queue) /\ queue'[o] = queue[o] /\ queue[o] \in Message
    BY <1>1
  <2>2. CASE n = Len(queue) + 1
    <3>1. queue[o].type \in Kinds => queue[o].id <= nextId /\ queue[o].id \in Nat
      BY <2>1, Fields DEF AnswerInv, KnownIds, Kinds
    <3>2. nextId < m.id /\ m.id \in Nat /\ queue'[n] = m
      BY <1>1, <1>3, <2>2, Fields
    <3> QED BY <1>2, <2>1, <3>1, <3>2 DEF About
  <2>3. CASE n # Len(queue) + 1
    <3>1. n \in 1 .. Len(queue) /\ queue'[n] = queue[n]
      BY <1>1, <2>3
    <3> QED BY <1>3, <2>1, <3>1 DEF AnswerInv, FirstWord
  <2> QED BY <2>2, <2>3
<1>4. ASSUME NEW n \in 1 .. Len(queue'), queue'[n].type \in Kinds
      PROVE  queue'[n].id <= nextId'
  <2>1. CASE n = Len(queue) + 1
    BY <1>1, <1>4, <2>1
  <2>2. CASE n # Len(queue) + 1
    <3>1. n \in 1 .. Len(queue) /\ queue'[n] = queue[n] /\ queue[n] \in Message
      BY <1>1, <2>2
    <3>2. queue[n].id <= nextId /\ queue[n].id \in Nat
      BY <1>4, <3>1, Fields DEF AnswerInv, KnownIds, Kinds
    <3> QED BY <1>2, <3>1, <3>2
  <2> QED BY <2>1, <2>2
<1>5. ASSUME NEW n \in 1 .. Len(queue'), queue'[n].type = "remove"
      PROVE  api'[queue'[n].client] = "gone" /\ session'[queue'[n].client] = 0
  <2>1. CASE n = Len(queue) + 1
    BY <1>1, <1>5, <2>1
  <2>2. CASE n # Len(queue) + 1
    <3>1. n \in 1 .. Len(queue) /\ queue'[n] = queue[n] /\ queue[n] \in Message
      BY <1>1, <2>2
    <3>2. queue[n].client \in Clients /\ api[queue[n].client] = "gone" /\ session[queue[n].client] = 0
      BY <1>5, <3>1, Fields DEF AnswerInv, Leavers
    <3> QED BY <3>1, <3>2
  <2> QED BY <2>1, <2>2
<1>6. ASSUME NEW c \in Clients PROVE session'[c] <= nextId'
  <2>1. session[c] \in Nat /\ session[c] <= nextId
    BY DEF AnswerInv, GivenOut, TypeOK
  <2> QED BY <1>2, <2>1
<1> QED BY <1>3, <1>4, <1>5, <1>6 DEF FirstWord, KnownIds, GivenOut, Leavers

\* A message is taken.
LEMMA WordsTaken ==
    ASSUME TypeOK, AnswerInv, queue # <<>>, queue' = Tail(queue), UNCHANGED <<nextId, api, session>>
    PROVE  FirstWord' /\ KnownIds' /\ GivenOut' /\ Leavers'
<1>1. /\ Len(queue) \in Nat /\ Len(queue) >= 1 /\ Len(queue') = Len(queue) - 1
      /\ \A n \in 1 .. Len(queue') : n + 1 \in 2 .. Len(queue) /\ queue'[n] = queue[n + 1]
  BY Shifted DEF TypeOK
<1>2. ASSUME NEW n \in 1 .. Len(queue'), queue'[n].type = "start", NEW o \in 1 .. n - 1
      PROVE  ~About(queue'[o], queue'[n].client, queue'[n].id)
  <2>1. n + 1 \in 1 .. Len(queue) /\ queue'[n] = queue[n + 1]
    BY <1>1
  <2>2. o + 1 \in 1 .. (n + 1) - 1 /\ queue'[o] = queue[o + 1]
    BY <1>1
  <2> QED BY <1>2, <2>1, <2>2 DEF AnswerInv, FirstWord
<1>3. \A n \in 1 .. Len(queue') : n + 1 \in 1 .. Len(queue) /\ queue'[n] = queue[n + 1]
  BY <1>1
<1> QED BY <1>2, <1>3 DEF AnswerInv, FirstWord, KnownIds, GivenOut, Leavers

\* The types the lemmas about Says ask for.
LEMMA Told ==
    ASSUME TypeOK, NEW c \in Clients
    PROVE  requests[c] \in Seq(Kinds) /\ queue \in Seq(Message) /\ session[c] \in Nat
BY DEF TypeOK, Kinds

\* A message about something else is queued.
LEMMA MatchesSent ==
    ASSUME TypeOK, NEW c \in Clients, Matches(c), NEW m \in Message, queue' = Append(queue, m),
           ~About(m, c, session[c]), session'[c] = session[c], requests'[c] = requests[c],
           UNCHANGED sessions
    PROVE  Matches(c)'
<1>1. /\ Len(queue) \in Nat /\ Len(queue') = Len(queue) + 1
      /\ \A n \in 1 .. Len(queue) : queue'[n] = queue[n]
      /\ queue'[Len(queue) + 1] = m
  BY Appended DEF TypeOK
<1>2. CanAnswer(c, session[c])' => CanAnswer(c, session[c])
  BY <1>1 DEF CanAnswer, About, Kinds
<1>3. queue' = queue \o <<m>>
  BY DEF TypeOK
<1>4. Says(queue, c, session[c], requests[c]) => Says(queue', c, session[c], requests[c])
  <2>1. <<m>> \in Seq(Message) /\ \A n \in DOMAIN <<m>> : <<m>>[n] = m
    OBVIOUS
  <2> QED BY <1>3, <2>1, Told, SaysMore
<1> QED BY <1>2, <1>4 DEF Matches

\* The client asks for something more of its session.
LEMMA MatchesAsked ==
    ASSUME TypeOK, NEW c \in Clients, Matches(c), NEW m \in Message, queue' = Append(queue, m),
           About(m, c, session[c]), m.type # "start", session'[c] = session[c],
           requests'[c] = Append(requests[c], m.type), UNCHANGED sessions
    PROVE  Matches(c)'
<1>1. /\ Len(queue) \in Nat /\ Len(queue') = Len(queue) + 1
      /\ \A n \in 1 .. Len(queue) : queue'[n] = queue[n]
      /\ queue'[Len(queue) + 1] = m
  BY Appended DEF TypeOK
<1>2. CanAnswer(c, session[c])' => CanAnswer(c, session[c])
  BY <1>1 DEF CanAnswer
<1>3. Says(queue, c, session[c], requests[c]) => Says(queue', c, session[c], requests'[c])
  BY Told, SaysAppend
<1> QED BY <1>2, <1>3 DEF Matches

\* The client starts a session: nothing was said about its id before.
LEMMA MatchesStart ==
    ASSUME TypeOK, KnownIds, NEW c \in Clients, NEW m \in Message, queue' = Append(queue, m),
           m.type = "start", m.client = c, m.id = nextId + 1, session'[c] = nextId + 1,
           requests'[c] = <<"start">>
    PROVE  Matches(c)'
<1>1. \A n \in DOMAIN queue : ~About(queue[n], c, nextId + 1)
  <2> SUFFICES ASSUME NEW n \in DOMAIN queue, About(queue[n], c, nextId + 1) PROVE FALSE
    OBVIOUS
  <2>1. n \in 1 .. Len(queue) /\ nextId \in Nat
    BY DEF TypeOK
  <2> QED BY <2>1 DEF KnownIds, About
<1>2. Says(queue, c, nextId + 1, <<>>)
  BY <1>1, SaysNone
<1>3. Says(Append(queue, m), c, nextId + 1, Append(<<>>, m.type))
  <2>1. <<>> \in Seq(Kinds) /\ About(m, c, nextId + 1) /\ queue \in Seq(Message)
    BY Told DEF About, Kinds
  <2> QED BY <1>2, <2>1, SaysAppend
<1>4. Append(<<>>, m.type) = <<"start">>
  OBVIOUS
<1> QED BY <1>3, <1>4 DEF Matches

\* The adapter takes a message, and answers it when it is about a session it knows
\* or starts.
LEMMA MatchesTaken ==
    ASSUME TypeOK, FreshIds, AnswerInv, queue # <<>>, queue' = Tail(queue),
           NEW c \in Clients, session'[c] = session[c],
           \/ requests'[c] = IF /\ About(Head(queue), c, session[c])
                                /\ clientData[c] # "none" /\ requests[c] # <<>>
                             THEN Tail(requests[c]) ELSE requests[c]
           \/ /\ Head(queue).type # "start"
              /\ About(Head(queue), c, session[c]) => <<c, session[c]>> \notin DOMAIN sessions
              /\ requests'[c] = requests[c],
           \A k \in DOMAIN sessions' \ DOMAIN sessions :
               /\ Head(queue).type = "start" /\ k = <<Head(queue).client, Head(queue).id>>
               /\ clientData[Head(queue).client] # "none"
    PROVE  Matches(c)'
<1> DEFINE h == Head(queue)
           k == <<c, session[c]>>
<1>1. /\ h = queue[1] /\ h \in Message /\ Len(queue) \in Nat /\ Len(queue) >= 1
      /\ Len(queue') = Len(queue) - 1
      /\ \A n \in 1 .. Len(queue') : n + 1 \in 2 .. Len(queue) /\ queue'[n] = queue[n + 1]
  BY Shifted DEF TypeOK
<1> SUFFICES ASSUME CanAnswer(c, session[c])'
             PROVE  Says(queue', c, session[c], requests'[c])
  BY DEF Matches
<1>2. \/ k \in DOMAIN sessions'
      \/ \E n \in 1 .. Len(queue') :
           queue'[n].type = "start" /\ queue'[n].client = c /\ queue'[n].id = session[c]
  BY DEF CanAnswer
<1>3. CASE ~About(h, c, session[c])
  <2>1. requests'[c] = requests[c]
    BY <1>3
  <2>2. k \in DOMAIN sessions' => k \in DOMAIN sessions
    BY <1>1, <1>3 DEF About, Kinds
  <2>3. ASSUME NEW n \in 1 .. Len(queue'), queue'[n].type = "start", queue'[n].client = c,
               queue'[n].id = session[c]
        PROVE  CanAnswer(c, session[c])
    <3>1. n + 1 \in 1 .. Len(queue) /\ queue'[n] = queue[n + 1]
      BY <1>1
    <3> QED BY <2>3, <3>1 DEF CanAnswer
  <2>4. CanAnswer(c, session[c])
    BY <1>2, <2>2, <2>3 DEF CanAnswer
  <2>5. Says(queue, c, session[c], requests[c])
    BY <2>4 DEF AnswerInv, Matches
  <2> QED BY <1>3, <2>1, <2>5, Told, SaysOther
<1>4. CASE About(h, c, session[c])
  <2>1. ASSUME NEW n \in 1 .. Len(queue'), queue'[n].type = "start", queue'[n].client = c,
               queue'[n].id = session[c]
        PROVE  FALSE
    <3>1. n + 1 \in 1 .. Len(queue) /\ 1 \in 1 .. (n + 1) - 1 /\ queue'[n] = queue[n + 1]
      BY <1>1
    <3> QED BY <1>1, <1>4, <2>1, <3>1 DEF AnswerInv, FirstWord
  <2>2. k \in DOMAIN sessions'
    BY <1>2, <2>1
  <2>3. h.type # "start" => k \in DOMAIN sessions
    BY <2>2
  <2>4. clientData[c] # "none"
    <3>1. CASE k \in DOMAIN sessions
      BY <3>1 DEF AnswerInv, Reachable
    <3>2. CASE k \notin DOMAIN sessions
      BY <1>4, <2>2, <3>2 DEF About
    <3> QED BY <3>1, <3>2
  <2>5. CanAnswer(c, session[c])
    <3>1. h.type = "start" => 1 \in 1 .. Len(queue) /\ queue[1].type = "start"
                              /\ queue[1].client = c /\ queue[1].id = session[c]
      BY <1>1, <1>4 DEF About
    <3> QED BY <2>3, <3>1 DEF CanAnswer
  <2>6. Says(queue, c, session[c], requests[c])
    BY <2>5 DEF AnswerInv, Matches
  <2>7. requests[c] # <<>> /\ Says(Tail(queue), c, session[c], Tail(requests[c]))
    BY <1>4, <2>6, Told, SaysNext
  <2>8. requests'[c] = Tail(requests[c])
    BY <1>4, <2>3, <2>4, <2>7
  <2> QED BY <2>7, <2>8
<1> QED BY <1>3, <1>4

\* A session the adapter has can be answered, also when one is added.
LEMMA ReachableStays ==
    ASSUME AnswerInv, UNCHANGED <<session, clientData>>,
           \A k \in DOMAIN sessions' \ DOMAIN sessions : clientData[k[1]] # "none"
    PROVE  Reachable'
<1>1. ASSUME NEW c \in Clients, <<c, session[c]>> \in DOMAIN sessions'
      PROVE  clientData[c] # "none"
  <2>1. CASE <<c, session[c]>> \in DOMAIN sessions
    BY <2>1 DEF AnswerInv, Reachable
  <2>2. CASE <<c, session[c]>> \notin DOMAIN sessions
    BY <1>1, <2>2
  <2> QED BY <2>1, <2>2
<1> QED BY <1>1 DEF Reachable

\* A client's call keeps the invariant.
LEMMA AnswerClient ==
    ASSUME TypeOK, FreshIds, AnswerInv, NEW d \in Clients, Client(d)
    PROVE  AnswerInv'
<1>1. session \in [Clients -> Nat] /\ nextId \in Nat /\ requests \in [Clients -> Seq(Kinds)]
      /\ api \in [Clients -> {"none", "live", "gone"}]
  BY DEF TypeOK, Kinds
<1>2. ASSUME NEW cb \in Callbacks, locAPISetCallbacks(d, cb)
      PROVE  AnswerInv'
  <2> DEFINE m == [type |-> "add", client |-> d, cb |-> cb]
  <2>1. m \in Message /\ m.type = "add" /\ queue' = Append(queue, m)
    BY <1>2 DEF locAPISetCallbacks, sendMsg, Message, ClientMsg
  <2>2. /\ api[d] # "gone" /\ api' = [api EXCEPT ![d] = "live"]
        /\ UNCHANGED <<session, requests, nextId, sessions, clientData>>
    BY <1>2 DEF locAPISetCallbacks, adapterVars
  <2> HIDE DEF m
  <2>3. FirstWord' /\ KnownIds' /\ GivenOut' /\ Leavers'
    BY <1>1, <2>1, <2>2, WordsSent DEF Kinds
  <2>4. Reachable'
    BY <2>2, ReachableStays
  <2>5. \A c \in Clients : Matches(c)'
    BY <2>1, <2>2, MatchesSent DEF AnswerInv, About, Kinds
  <2> QED BY <2>3, <2>4, <2>5 DEF AnswerInv
<1>3. ASSUME NEW i \in Intervals, locAPIStartTracking(d, i)
      PROVE  AnswerInv'
  <2> DEFINE m == [type |-> "start", client |-> d, id |-> nextId + 1, interval |-> i]
  <2>1. /\ m \in Message /\ m.type = "start" /\ m.client = d /\ m.id = nextId + 1
        /\ queue' = Append(queue, m)
    BY <1>1, <1>3 DEF locAPIStartTracking, sendMsg, Message, TrackingMsg
  <2>2. /\ nextId' = nextId + 1 /\ session' = [session EXCEPT ![d] = nextId + 1]
        /\ requests' = [requests EXCEPT ![d] = <<"start">>] /\ api[d] = "live"
        /\ UNCHANGED <<api, sessions, clientData>>
    BY <1>3 DEF locAPIStartTracking, adapterVars
  <2> HIDE DEF m
  <2>3. FirstWord' /\ KnownIds' /\ GivenOut' /\ Leavers'
    BY <1>1, <2>1, <2>2, WordsSent
  <2>4. Reachable'
    <3>1. ASSUME NEW c \in Clients, <<c, session'[c]>> \in DOMAIN sessions'
          PROVE  clientData'[c] # "none"
      <4>1. <<c, session'[c]>>[2] = session'[c] /\ session'[c] <= nextId
        BY <2>2, <3>1 DEF FreshIds
      <4>2. c # d /\ session'[c] = session[c]
        BY <1>1, <2>2, <4>1
      <4> QED BY <2>2, <3>1, <4>2 DEF AnswerInv, Reachable
    <3> QED BY <3>1 DEF Reachable
  <2>5. ASSUME NEW c \in Clients PROVE Matches(c)'
    <3>1. CASE c = d
      BY <1>1, <2>1, <2>2, <3>1, MatchesStart DEF AnswerInv
    <3>2. CASE c # d
      <4>1. session'[c] = session[c] /\ requests'[c] = requests[c] /\ ~About(m, c, session[c])
        BY <1>1, <2>1, <2>2, <3>2 DEF About
      <4> QED BY <2>1, <2>2, <4>1, MatchesSent DEF AnswerInv
    <3> QED BY <3>1, <3>2
  <2> QED BY <2>3, <2>4, <2>5 DEF AnswerInv
<1>4. ASSUME NEW m \in Message, m.type \in {"update", "stop"}, m.client = d, m.id = session[d],
             api[d] = "live", session[d] > 0, queue' = Append(queue, m),
             requests' = [requests EXCEPT ![d] = Append(@, m.type)],
             UNCHANGED <<api, session, nextId, sessions, clientData>>,
             session[d] <= nextId
      PROVE  AnswerInv'
  <2>1. FirstWord' /\ KnownIds' /\ GivenOut' /\ Leavers'
    BY <1>1, <1>4, WordsSent
  <2>2. Reachable'
    BY <1>4, ReachableStays
  <2>3. ASSUME NEW c \in Clients PROVE Matches(c)'
    <3>1. CASE c = d
      BY <1>1, <1>4, <3>1, MatchesAsked DEF AnswerInv, About, Kinds
    <3>2. CASE c # d
      BY <1>1, <1>4, <3>2, MatchesSent DEF AnswerInv, About
    <3> QED BY <3>1, <3>2
  <2> QED BY <2>1, <2>2, <2>3 DEF AnswerInv
<1>5. session[d] <= nextId
  BY DEF AnswerInv, GivenOut
<1>6. ASSUME NEW i \in Intervals, locAPIUpdateTrackingOptions(d, i)
      PROVE  AnswerInv'
  <2> DEFINE m == [type |-> "update", client |-> d, id |-> session[d], interval |-> i]
  <2>1. m \in Message /\ m.type = "update" /\ m.client = d /\ m.id = session[d]
    BY <1>1, <1>6 DEF locAPIUpdateTrackingOptions, Message, TrackingMsg
  <2>2. /\ api[d] = "live" /\ session[d] > 0 /\ queue' = Append(queue, m)
        /\ requests' = [requests EXCEPT ![d] = Append(@, "update")]
        /\ UNCHANGED <<api, session, nextId, sessions, clientData>>
    BY <1>6 DEF locAPIUpdateTrackingOptions, sendMsg, adapterVars
  <2> HIDE DEF m
  <2> QED BY <1>4, <1>5, <2>1, <2>2
<1>7. CASE locAPIStopTracking(d)
  <2> DEFINE m == [type |-> "stop", client |-> d, id |-> session[d]]
  <2>1. m \in Message /\ m.type = "stop" /\ m.client = d /\ m.id = session[d]
    BY <1>1, <1>7 DEF locAPIStopTracking, Message, TrackingMsg
  <2>2. /\ api[d] = "live" /\ session[d] > 0 /\ queue' = Append(queue, m)
        /\ requests' = [requests EXCEPT ![d] = Append(@, "stop")]
        /\ UNCHANGED <<api, session, nextId, sessions, clientData>>
    BY <1>7 DEF locAPIStopTracking, sendMsg, adapterVars
  <2> HIDE DEF m
  <2> QED BY <1>4, <1>5, <2>1, <2>2
<1>8. CASE Destroy(d)
  <2> DEFINE m == [type |-> "remove", client |-> d]
  <2>1. m \in Message /\ m.type = "remove" /\ m.client = d /\ queue' = Append(queue, m)
    BY <1>8 DEF Destroy, sendMsg, Message, ClientMsg
  <2>2. /\ api' = [api EXCEPT ![d] = "gone"] /\ session' = [session EXCEPT ![d] = 0]
        /\ requests' = [requests EXCEPT ![d] = <<>>]
        /\ UNCHANGED <<nextId, sessions, clientData>>
    BY <1>8 DEF Destroy, adapterVars
  <2> HIDE DEF m
  <2>3. FirstWord' /\ KnownIds' /\ GivenOut' /\ Leavers'
    BY <1>1, <2>1, <2>2, WordsSent DEF Kinds
  <2>4. <<d, 0>> \notin DOMAIN sessions
    BY DEF TypeOK, Key
  <2>5. Reachable'
    <3>1. ASSUME NEW c \in Clients, <<c, session'[c]>> \in DOMAIN sessions'
          PROVE  clientData'[c] # "none"
      <4>1. c # d /\ session'[c] = session[c]
        BY <1>1, <2>2, <2>4, <3>1
      <4> QED BY <2>2, <3>1, <4>1 DEF AnswerInv, Reachable
    <3> QED BY <3>1 DEF Reachable
  <2>6. ASSUME NEW c \in Clients PROVE Matches(c)'
    <3>1. CASE c = d
      <4>1. session'[d] = 0
        BY <1>1, <2>2
      <4>2. ASSUME NEW n \in 1 .. Len(queue'), queue'[n].type = "start" PROVE queue'[n].id # 0
        <5>1. queue' \in Seq(Message)
          BY <2>1, Appended DEF TypeOK
        <5>2. queue'[n] \in Message
          BY <5>1
        <5> QED BY <4>2, <5>2, Fields
      <4>3. ~CanAnswer(d, session[d])'
        BY <2>2, <2>4, <4>1, <4>2 DEF CanAnswer
      <4> QED BY <3>1, <4>3 DEF Matches
    <3>2. CASE c # d
      <4>1. session'[c] = session[c] /\ requests'[c] = requests[c] /\ ~About(m, c, session[c])
        BY <1>1, <2>1, <2>2, <3>2 DEF About
      <4> QED BY <2>1, <2>2, <4>1, MatchesSent DEF AnswerInv
    <3> QED BY <3>1, <3>2
  <2> QED BY <2>3, <2>5, <2>6 DEF AnswerInv
<1> QED BY <1>2, <1>3, <1>6, <1>7, <1>8 DEF Client

\* The modem goes down and comes back.
LEMMA AnswerEngine ==
    ASSUME TypeOK, AnswerInv, EngineDown \/ handleEngineUpEvent
    PROVE  AnswerInv'
<1>1. CASE EngineDown
  BY <1>1 DEF EngineDown, AnswerInv, FirstWord, KnownIds, GivenOut, Leavers, Reachable, Matches,
     CanAnswer, clientVars, adapterVars
<1>2. CASE handleEngineUpEvent
  <2>1. /\ queue' = Append(Append(queue, [type |-> "ssr"]), [type |-> "restart"])
        /\ UNCHANGED <<session, api, requests, nextId, sessions, clientData>>
    BY <1>2 DEF handleEngineUpEvent, clientVars, adapterVars
  <2>2. queue \in Seq(Message) /\ [type |-> "ssr"] \in Message /\ [type |-> "restart"] \in Message
    BY DEF TypeOK, Message, EngineMsg
  <2> DEFINE r == <<[type |-> "ssr"], [type |-> "restart"]>>
  <2>3. queue' = queue \o r
    BY <2>1, <2>2
  <2>4. r \in Seq(Message) /\ \A n \in DOMAIN r : r[n].type \in {"ssr", "restart"}
    BY <2>2
  <2>5. /\ Len(queue) \in Nat /\ DOMAIN queue = 1 .. Len(queue)
        /\ \A n \in 1 .. Len(queue) : n \in 1 .. Len(queue') /\ queue'[n] = queue[n]
        /\ \A n \in 1 .. Len(queue') :
              n \in 1 .. Len(queue) \/ queue'[n].type \in {"ssr", "restart"}
    BY <2>2, <2>3, <2>4
  <2> HIDE DEF r
  <2>6. ASSUME NEW n \in 1 .. Len(queue'), queue'[n].type = "start", NEW o \in 1 .. n - 1
        PROVE  ~About(queue'[o], queue'[n].client, queue'[n].id)
    <3>1. n \in 1 .. Len(queue) /\ queue'[n] = queue[n]
      BY <2>5, <2>6
    <3>2. o \in 1 .. Len(queue) /\ queue'[o] = queue[o]
      BY <2>5, <3>1
    <3> QED BY <2>6, <3>1, <3>2 DEF AnswerInv, FirstWord
  <2>7. KnownIds' /\ Leavers' /\ GivenOut' /\ Reachable'
    BY <2>1, <2>5 DEF AnswerInv, KnownIds, Leavers, GivenOut, Reachable, Kinds
  <2>8. ASSUME NEW c \in Clients PROVE Matches(c)'
    <3>1. CanAnswer(c, session[c])' => CanAnswer(c, session[c])
      BY <2>1, <2>5 DEF CanAnswer
    <3>2. \A n \in DOMAIN r : ~About(r[n], c, session[c])
      BY <2>4 DEF About, Kinds
    <3>3. Says(queue, c, session[c], requests[c]) => Says(queue', c, session[c], requests[c])
      BY <2>3, <2>4, <3>2, Told, SaysMore
    <3> QED BY <2>1, <3>1, <3>3 DEF AnswerInv, Matches
  <2> QED BY <2>6, <2>7, <2>8 DEF AnswerInv, FirstWord
<1> QED BY <1>1, <1>2

\* What a call about session k of the adapter may do to its sessions.
LEMMA SavesOnly ==
    ASSUME NEW k, NEW i, saveTrackingSession(k, i) \/ eraseTrackingSession(k) \/ UNCHANGED sessions
    PROVE  DOMAIN sessions' \ DOMAIN sessions \subseteq {k}
<1>1. CASE saveTrackingSession(k, i)
  BY <1>1 DEF saveTrackingSession
<1>2. CASE eraseTrackingSession(k)
  BY <1>2 DEF eraseTrackingSession
<1> QED BY <1>1, <1>2

\* A stop takes sessions away only.
LEMMA StopsOnly ==
    ASSUME NEW k, StopSession(k)
    PROVE  DOMAIN sessions' \subseteq DOMAIN sessions
<1>1. CASE UNCHANGED sessions
  BY <1>1
<1>2. CASE eraseTrackingSession(k)
  BY <1>2 DEF eraseTrackingSession
<1> QED BY <1>1, <1>2 DEF StopSession

\* The answer reaches the client the message is about, when its id is the session in use.
LEMMA Answers ==
    ASSUME TypeOK, NEW m \in Message, m.type \in Kinds, reportResponse(m.client, m.id),
           NEW c \in Clients
    PROVE  requests'[c] = IF /\ About(m, c, session[c])
                             /\ clientData[c] # "none" /\ requests[c] # <<>>
                          THEN Tail(requests[c]) ELSE requests[c]
<1>1. m.client \in Clients /\ requests \in [Clients -> Seq(Kinds)]
  BY Fields DEF TypeOK, Kinds
<1>2. CASE m.client = c
  BY <1>1, <1>2 DEF reportResponse, About
<1>3. CASE m.client # c
  BY <1>1, <1>3 DEF reportResponse, About
<1> QED BY <1>2, <1>3

\* A message of the adapter's thread is handled.
LEMMA AnswerAdapter ==
    ASSUME TypeOK, FreshIds, AnswerInv, Adapter
    PROVE  AnswerInv'
<1> DEFINE m == Head(queue)
<1>1. queue # <<>> /\ m \in Message /\ UNCHANGED <<api, session, nextId>>
  BY Shifted DEF Adapter, Takes, TypeOK, MsgStartTracking, MsgUpdateTracking, MsgStopTracking,
     MsgAddClient, stopClientSessions, eraseClient, LocSsrMsg, restartSessions, AdapterFrame
<1>2. ASSUME queue' = Tail(queue)
      PROVE  FirstWord' /\ KnownIds' /\ GivenOut' /\ Leavers'
  BY <1>1, <1>2, WordsTaken
<1>3. CASE MsgStartTracking
  <2>1. /\ queue' = Tail(queue) /\ m.type = "start" /\ UNCHANGED clientData
        /\ reportResponse(m.client, m.id)
    BY <1>3 DEF MsgStartTracking, Takes, Taken
  <2>2. m.client \in Clients
    BY <1>1, <2>1, Fields
  <2>3. \A k \in DOMAIN sessions' \ DOMAIN sessions :
          k = <<m.client, m.id>> /\ clientData[m.client] # "none"
    <3>1. CASE clientData[m.client] # "tracking"
      BY <1>3, <3>1 DEF MsgStartTracking
    <3>2. CASE clientData[m.client] = "tracking"
      <4>1. saveTrackingSession(<<m.client, m.id>>, m.interval) \/ UNCHANGED sessions
        BY <1>3, <3>2 DEF MsgStartTracking
      <4> QED BY <3>2, <4>1, SavesOnly
    <3> QED BY <3>1, <3>2
  <2>4. Reachable'
    BY <1>1, <2>1, <2>3, ReachableStays
  <2>5. ASSUME NEW c \in Clients PROVE Matches(c)'
    <3>1. requests'[c] = IF /\ About(m, c, session[c])
                            /\ clientData[c] # "none" /\ requests[c] # <<>>
                         THEN Tail(requests[c]) ELSE requests[c]
      BY <1>1, <2>1, Answers DEF Kinds
    <3> QED BY <1>1, <2>1, <2>3, <3>1, MatchesTaken
  <2> QED BY <1>2, <2>1, <2>4, <2>5 DEF AnswerInv
<1>4. CASE MsgUpdateTracking \/ MsgStopTracking
  <2> DEFINE k == <<m.client, m.id>>
  <2>1. queue' = Tail(queue) /\ m.type \in {"update", "stop"} /\ UNCHANGED clientData
    BY <1>4 DEF MsgUpdateTracking, MsgStopTracking, Takes, Taken
  <2>2. DOMAIN sessions' \subseteq DOMAIN sessions
    <3>1. CASE k \notin DOMAIN sessions
      BY <1>4, <3>1 DEF MsgUpdateTracking, MsgStopTracking
    <3>2. CASE k \in DOMAIN sessions /\ MsgUpdateTracking
      <4>1. saveTrackingSession(k, m.interval) \/ UNCHANGED sessions
        BY <3>2 DEF MsgUpdateTracking
      <4> QED BY <3>2, <4>1, SavesOnly
    <3>3. CASE k \in DOMAIN sessions /\ MsgStopTracking
      BY <3>3, StopsOnly DEF MsgStopTracking
    <3> QED BY <1>4, <3>1, <3>2, <3>3
  <2>3. Reachable'
    BY <1>1, <2>1, <2>2, ReachableStays
  <2>4. ASSUME NEW c \in Clients PROVE Matches(c)'
    <3>1. CASE k \notin DOMAIN sessions
      <4>1. UNCHANGED requests
        BY <1>4, <3>1 DEF MsgUpdateTracking, MsgStopTracking
      <4>2. About(m, c, session[c]) => <<c, session[c]>> \notin DOMAIN sessions
        BY <3>1 DEF About
      <4> QED BY <1>1, <2>1, <2>2, <4>1, <4>2, MatchesTaken
    <3>2. CASE k \in DOMAIN sessions
      <4>1. reportResponse(m.client, m.id)
        BY <1>4, <3>2 DEF MsgUpdateTracking, MsgStopTracking
      <4>2. requests'[c] = IF /\ About(m, c, session[c])
                              /\ clientData[c] # "none" /\ requests[c] # <<>>
                           THEN Tail(requests[c]) ELSE requests[c]
        BY <1>1, <2>1, <4>1, Answers DEF Kinds
      <4> QED BY <1>1, <2>1, <2>2, <4>2, MatchesTaken
    <3> QED BY <3>1, <3>2
  <2> QED BY <1>2, <2>1, <2>3, <2>4 DEF AnswerInv
<1>5. CASE MsgAddClient \/ eraseClient \/ LocSsrMsg \/ restartSessions
  <2>1. /\ queue' = Tail(queue) /\ UNCHANGED <<requests, sessions>>
        /\ m.type \in {"add", "remove", "ssr", "restart"}
    BY <1>5 DEF MsgAddClient, eraseClient, LocSsrMsg, restartSessions, Takes, Taken, adapterVars
  <2>2. \A c \in Clients : Matches(c)'
    BY <1>1, <2>1, MatchesTaken DEF About, Kinds
  <2>3. Reachable'
    <3>1. CASE MsgAddClient
      <4>1. m.client \in Clients /\ m.cb # "none" /\ clientData \in [Clients -> Callbacks \cup {"none"}]
        BY <1>1, <3>1, Fields DEF MsgAddClient, Takes, Callbacks, TypeOK
      <4>2. clientData' = [clientData EXCEPT ![m.client] = m.cb]
        BY <3>1 DEF MsgAddClient
      <4> QED BY <1>1, <2>1, <4>1, <4>2 DEF AnswerInv, Reachable
    <3>2. CASE eraseClient
      <4>1. /\ m.client \in Clients /\ m.type = "remove" /\ m = queue[1] /\ 1 \in 1 .. Len(queue)
            /\ clientData \in [Clients -> Callbacks \cup {"none"}]
        <5>1. m.type = "remove" /\ m.client \in Clients
          BY <1>1, <3>2, Fields DEF eraseClient, Takes
        <5>2. m = queue[1] /\ Len(queue) \in Nat /\ Len(queue) >= 1
          BY <1>1, Shifted DEF TypeOK
        <5> QED BY <5>1, <5>2 DEF TypeOK
      <4>2. session[m.client] = 0
        BY <4>1 DEF AnswerInv, Leavers
      <4>3. <<m.client, 0>> \notin DOMAIN sessions
        BY DEF TypeOK, Key
      <4>4. clientData' = [clientData EXCEPT ![m.client] = "none"]
        BY <3>2 DEF eraseClient
      <4>5. ASSUME NEW c \in Clients, <<c, session[c]>> \in DOMAIN sessions PROVE clientData'[c] # "none"
        <5>1. c # m.client
          BY <4>2, <4>3, <4>5
        <5> QED BY <4>1, <4>4, <4>5, <5>1 DEF AnswerInv, Reachable
      <4> QED BY <1>1, <2>1, <4>5 DEF Reachable
    <3>3. CASE LocSsrMsg \/ restartSessions
      <4>1. UNCHANGED clientData
        BY <3>3 DEF LocSsrMsg, restartSessions, adapterVars
      <4> QED BY <1>1, <2>1, <4>1, ReachableStays
    <3> QED BY <1>5, <3>1, <3>2, <3>3
  <2> QED BY <1>2, <2>1, <2>2, <2>3 DEF AnswerInv
<1>6. CASE stopClientSessions
  <2>1. UNCHANGED <<queue, requests, clientData>>
    BY <1>6 DEF stopClientSessions
  <2>2. DOMAIN sessions' \subseteq DOMAIN sessions
    BY <1>6, StopsOnly DEF stopClientSessions
  <2>3. Reachable'
    BY <1>1, <2>1, <2>2, ReachableStays
  <2>4. ASSUME NEW c \in Clients PROVE Matches(c)'
    <3>1. CanAnswer(c, session[c])' => CanAnswer(c, session[c])
      BY <1>1, <2>1, <2>2 DEF CanAnswer
    <3> QED BY <1>1, <2>1, <3>1 DEF AnswerInv, Matches
  <2>5. FirstWord' /\ KnownIds' /\ GivenOut' /\ Leavers'
    BY <1>1, <2>1 DEF AnswerInv, FirstWord, KnownIds, GivenOut, Leavers
  <2> QED BY <2>3, <2>4, <2>5 DEF AnswerInv
<1> QED BY <1>3, <1>4, <1>5, <1>6 DEF Adapter

\* Every answer finds the request it answers: as long as a session can answer, what its
\* client waits for is what the queue says of it, through refused calls, changed
\* callbacks, clients that leave and restarts of the modem.
THEOREM AnswersFindRequests == Spec => []AnswersMatch
<1>1. Init => AnswerInv
  <2> SUFFICES ASSUME Init PROVE AnswerInv
    OBVIOUS
  <2>1. /\ queue = <<>> /\ Len(queue) = 0 /\ nextId = 0 /\ DOMAIN sessions = {}
        /\ \A c \in Clients : session[c] = 0
    BY DEF Init
  <2> QED BY <2>1 DEF AnswerInv, FirstWord, KnownIds, GivenOut, Leavers, Reachable, Matches, CanAnswer
<1>2. EngineInv /\ AnswerInv /\ [Next]_vars => AnswerInv'
  <2> SUFFICES ASSUME EngineInv, AnswerInv, [Next]_vars PROVE AnswerInv'
    OBVIOUS
  <2>1. TypeOK /\ FreshIds
    BY DEF EngineInv
  <2>2. CASE UNCHANGED vars
    BY <2>2 DEF AnswerInv, FirstWord, KnownIds, GivenOut, Leavers, Reachable, Matches, CanAnswer,
       vars, clientVars, adapterVars
  <2>3. CASE Next
    BY <2>1, <2>3, AnswerClient, AnswerEngine, AnswerAdapter DEF Next
  <2> QED BY <2>2, <2>3
<1>3. AnswerInv => AnswersMatch
  BY DEF AnswerInv, Matches, AnswersMatch
<1> QED BY <1>1, <1>2, <1>3, EngineInit, EngineInvStep, PTL DEF Spec
=============================================================================
