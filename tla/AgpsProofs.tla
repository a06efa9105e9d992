----------------------------- MODULE AgpsProofs -----------------------------
(***************************************************************************)
(* The list of subscribers of every state machine agrees with its state,   *)
(* for any number of handles, any behaviour of the modem and of the        *)
(* providers, and any number of retries; and so does its data connection   *)
(* whenever nothing is under way (second half).                            *)
(***************************************************************************)
EXTENDS Agps, FiniteSetTheorems, TLAPS

OutcomeType ==
    [n : NifType, ask : {"none", "request", "release"}, granted : SUBSET Handles,
     denied : SUBSET Handles, closed : SUBSET Handles]

-----------------------------------------------------------------------------
(* What the handlers of a state machine preserve. *)

\* Adding and deleting subscribers yields a state machine again.
LEMMA ListTypes ==
    ASSUME NEW n \in NifType, NEW h \in Handles, NEW wait \in BOOLEAN, NEW S
    PROVE  /\ addSubscriber(n, h, wait) \in NifType
           /\ deleteSubscribers(n, S) \in NifType
BY DEF addSubscriber, deleteSubscribers, NifType

\* Asking for a connection touches neither the state nor the list.
LEMMA Requests ==
    ASSUME NEW m \in Nifs, NEW n \in NifType, NEW call \in Calls, NEW first \in Handles,
           NEW closed \in SUBSET Handles
    PROVE  LET o == requestDataConn(m, n, call, first, closed)
           IN  /\ o \in OutcomeType
               /\ o.n.state = n.state /\ o.n.subs = n.subs
               /\ o.n.waiting = n.waiting /\ o.n.inactive = n.inactive
               /\ m # "ds" => o.ask = "request"
<1>1. CASE m # "ds"
  BY <1>1 DEF requestDataConn, Outcome, OutcomeType, NifType
<1>2. CASE m = "ds" /\ call = "SUCCESS"
  BY <1>2 DEF requestDataConn, StartDataCall, Outcome, OutcomeType
<1>3. CASE m = "ds" /\ call = "BUSY" /\ n.retries < MAX_START_DATA_CALL_RETRIES
  <2> DEFINE later == [n EXCEPT !.retries = @ + 1, !.timers = @ + 1]
  <2>1. requestDataConn(m, n, call, first, closed) = Outcome(later, "none", {}, {}, closed)
    BY <1>3 DEF requestDataConn, StartDataCall
  <2>2. /\ later \in NifType /\ later.state = n.state /\ later.subs = n.subs
        /\ later.waiting = n.waiting /\ later.inactive = n.inactive
    <3>1. n.retries + 1 \in Nat /\ n.timers + 1 \in Nat
      BY DEF NifType
    <3> QED BY <3>1 DEF NifType
  <2> HIDE DEF later
  <2> QED BY <1>3, <2>1, <2>2 DEF Outcome, OutcomeType
<1>4. CASE m = "ds" /\ call # "SUCCESS"
             /\ ~(call = "BUSY" /\ n.retries < MAX_START_DATA_CALL_RETRIES)
  <2> DEFINE over == [n EXCEPT !.retries = 0]
  <2>1. requestDataConn(m, n, call, first, closed) = Outcome(over, "none", {}, {first}, closed)
    BY <1>4 DEF requestDataConn, StartDataCall
  <2>2. /\ over \in NifType /\ over.state = n.state /\ over.subs = n.subs
        /\ over.waiting = n.waiting /\ over.inactive = n.inactive
    BY DEF NifType
  <2> HIDE DEF over
  <2> QED BY <1>4, <2>1, <2>2 DEF Outcome, OutcomeType
<1> QED BY <1>1, <1>2, <1>3, <1>4

LEMMA SubscribeKeeps ==
    ASSUME NEW m \in Nifs, NEW n \in NifType, NEW h \in Handles, NEW wait \in BOOLEAN,
           NEW call \in Calls, NEW first \in Handles
    PROVE  LET o == processSubscribe(m, n, h, wait, call, first)
           IN  o \in OutcomeType /\ (ListAgrees(n, m) => ListAgrees(o.n, m))
<1> DEFINE added == addSubscriber(n, h, wait)
           asked == requestDataConn(m, added, call, first, {})
<1>1. /\ added \in NifType /\ added.state = n.state
      /\ added.subs = n.subs \cup {h} /\ added.inactive = n.inactive
      /\ n.waiting \subseteq added.waiting /\ added.waiting \subseteq n.waiting \cup {h}
  BY ListTypes DEF addSubscriber, NifType
<1>2. /\ asked \in OutcomeType
      /\ asked.n.state = n.state /\ asked.n.subs = added.subs
      /\ asked.n.waiting = added.waiting /\ asked.n.inactive = n.inactive
      /\ m # "ds" => asked.ask = "request"
  BY <1>1, Requests
<1> HIDE DEF added, asked
<1>3. CASE n.state = "RELEASED" /\ asked.ask = "request"
  <2>1. processSubscribe(m, n, h, wait, call, first) = [asked EXCEPT !.n.state = "PENDING"]
    BY <1>3 DEF processSubscribe, added, asked
  <2> QED BY <2>1, <1>1, <1>2, <1>3 DEF OutcomeType, NifType, States, ListAgrees, Active
<1>4. CASE n.state = "RELEASED" /\ asked.ask # "request"
  <2>1. processSubscribe(m, n, h, wait, call, first) = asked
    BY <1>4 DEF processSubscribe, added, asked
  <2> QED BY <2>1, <1>1, <1>2, <1>4 DEF OutcomeType, NifType, States, ListAgrees, Active
<1>5. CASE n.state # "RELEASED"
  <2>1. /\ processSubscribe(m, n, h, wait, call, first).n = added
        /\ processSubscribe(m, n, h, wait, call, first) \in OutcomeType
    BY <1>5, <1>1 DEF processSubscribe, added, Outcome, Quiet, OutcomeType
  <2> QED BY <2>1, <1>1, <1>5 DEF NifType, ListAgrees, Active
<1> QED BY <1>3, <1>4, <1>5

LEMMA UnsubscribeKeeps ==
    ASSUME NEW m \in Nifs, NEW n \in NifType, NEW h \in Handles, h \in n.subs
    PROVE  LET o == processUnsubscribe(n, h)
           IN  o \in OutcomeType /\ (ListAgrees(n, m) => ListAgrees(o.n, m))
<1> DEFINE waits == h \in n.waiting
           left == IF waits THEN [n EXCEPT !.inactive = @ \cup {h}]
                   ELSE deleteSubscribers(n, {h})
<1>1. /\ left \in NifType /\ left.state = n.state
      /\ waits => left.subs = n.subs /\ left.waiting = n.waiting /\ left.inactive = n.inactive \cup {h}
      /\ ~waits => /\ left.subs = n.subs \ {h} /\ left.waiting = n.waiting \ {h}
                   /\ left.inactive = n.inactive \ {h}
  BY DEF deleteSubscribers, NifType
<1> HIDE DEF left
<1>2. CASE n.state = "RELEASED"
  BY <1>2 DEF processUnsubscribe, Outcome, OutcomeType
<1>3. CASE n.state # "RELEASED"
  <2> DEFINE new == IF left.subs = {} THEN "RELEASED"
                    ELSE IF Active(left) = {} THEN "RELEASING" ELSE n.state
  <2>1. processUnsubscribe(n, h) =
            Outcome([left EXCEPT !.state = new],
                    IF Active(left) = {} /\ n.state # "RELEASING" THEN "release" ELSE "none",
                    {}, {}, IF waits THEN {} ELSE {h})
    BY <1>3, <1>1 DEF processUnsubscribe, left
  <2>2. new \in States
    BY DEF States, NifType
  <2>3. processUnsubscribe(n, h) \in OutcomeType
    BY <2>1, <2>2, <1>1 DEF Outcome, OutcomeType, NifType
  <2>4. processUnsubscribe(n, h).n = [left EXCEPT !.state = new]
    BY <2>1 DEF Outcome
  <2>5. ASSUME ListAgrees(n, m) PROVE ListAgrees(processUnsubscribe(n, h).n, m)
    BY <2>4, <2>5, <1>1, <1>3 DEF ListAgrees, Active, NifType
  <2> QED BY <2>3, <2>5
<1> QED BY <1>2, <1>3

LEMMA GrantedKeeps ==
    ASSUME NEW m \in Nifs, NEW n \in NifType
    PROVE  LET o == processGranted(n)
           IN  o \in OutcomeType /\ (ListAgrees(n, m) => ListAgrees(o.n, m))
BY DEF processGranted, Outcome, Quiet, OutcomeType, NifType, States, ListAgrees, Active

LEMMA ReleaseEndsKeeps ==
    ASSUME NEW m \in Nifs, NEW n \in NifType, NEW call \in Calls, NEW first \in Handles
    PROVE  LET o == ReleaseEnds(m, n, call, first)
           IN  o \in OutcomeType /\ (ListAgrees(n, m) => ListAgrees(o.n, m))
<1> DEFINE left == deleteSubscribers(n, n.inactive)
           wanted == [left EXCEPT !.state = "PENDING"]
           asked == requestDataConn(m, wanted, call, first, n.inactive)
<1>1. /\ left \in NifType /\ left.subs = n.subs \ n.inactive
      /\ left.waiting = n.waiting \ n.inactive /\ left.inactive = {}
  BY DEF deleteSubscribers, NifType
<1> HIDE DEF left
<1>2. /\ wanted \in NifType /\ wanted.state = "PENDING" /\ wanted.subs = left.subs
      /\ wanted.waiting = left.waiting /\ wanted.inactive = {}
  BY <1>1 DEF NifType, States
<1> HIDE DEF wanted
<1>3. CASE Active(n) # {}
  <2>1. n.inactive \in SUBSET Handles
    BY DEF NifType
  <2>2. ReleaseEnds(m, n, call, first) = asked
    BY <1>3 DEF ReleaseEnds, wanted, left
  <2>3. /\ asked \in OutcomeType /\ asked.n.state = "PENDING" /\ asked.n.subs = left.subs
        /\ asked.n.waiting = left.waiting /\ asked.n.inactive = {}
    BY <1>2, <2>1, Requests
  <2> QED BY <2>2, <2>3, <1>1, <1>3 DEF ListAgrees, Active
<1>4. CASE Active(n) = {}
  <2>1. ReleaseEnds(m, n, call, first) =
            Outcome([left EXCEPT !.state = "RELEASED"], "none", {}, {}, n.inactive)
    BY <1>4 DEF ReleaseEnds, left
  <2> QED BY <2>1, <1>1, <1>4 DEF Outcome, OutcomeType, NifType, States, ListAgrees, Active
<1> QED BY <1>3, <1>4

LEMMA DeniedKeeps ==
    ASSUME NEW m \in Nifs, NEW n \in NifType, NEW call \in Calls, NEW first \in Handles
    PROVE  LET o == processDenied(m, n, call, first)
           IN  o \in OutcomeType /\ (ListAgrees(n, m) => ListAgrees(o.n, m))
<1>1. CASE n.state = "PENDING"
  BY <1>1 DEF processDenied, deleteSubscribers, Outcome, OutcomeType, NifType, States,
              ListAgrees, Active
<1>2. CASE n.state = "RELEASING"
  BY <1>2, ReleaseEndsKeeps DEF processDenied
<1>3. CASE n.state \notin {"PENDING", "RELEASING"}
  BY <1>3 DEF processDenied, Outcome, Quiet, OutcomeType
<1> QED BY <1>1, <1>2, <1>3

LEMMA ReleasedKeeps ==
    ASSUME NEW m \in Nifs, NEW n \in NifType, NEW call \in Calls, NEW first \in Handles
    PROVE  LET o == processReleased(m, n, call, first)
           IN  o \in OutcomeType /\ (ListAgrees(n, m) => ListAgrees(o.n, m))
<1>1. CASE n.state = "ACQUIRED"
  BY <1>1 DEF processReleased, deleteSubscribers, Outcome, OutcomeType, NifType, States,
              ListAgrees, Active
<1>2. CASE n.state = "RELEASING"
  BY <1>2, ReleaseEndsKeeps DEF processReleased
<1>3. CASE n.state = "PENDING" /\ m = "ds"
  BY <1>3, DeniedKeeps DEF processReleased
<1>4. CASE n.state \notin {"ACQUIRED", "RELEASING"} /\ ~(n.state = "PENDING" /\ m = "ds")
  BY <1>4 DEF processReleased, Outcome, Quiet, OutcomeType
<1> QED BY <1>1, <1>2, <1>3, <1>4

-----------------------------------------------------------------------------
(* The steps of the specification. *)

IInv == TypeOK /\ SubscribersAgree

LEMMA InitInv == Init => IInv
<1> SUFFICES ASSUME Init PROVE IInv
  OBVIOUS
<1>1. Released0 \in NifType
  BY DEF Released0, NifType, States
<1>2. <<[op |-> "init"]>> \in Seq(MsgType)
  BY DEF MsgType
<1>3. <<>> \in Seq({"request", "release"})
  OBVIOUS
<1>4. TypeOK
  BY <1>1, <1>2, <1>3 DEF Init, TypeOK
<1>5. SubscribersAgree
  BY DEF Init, SubscribersAgree, ListAgrees, Released0, Active
<1> QED BY <1>4, <1>5 DEF IInv

\* What falls back to a normal connection is a sequence of messages.
LEMMA FallbackTypes ==
    ASSUME NEW S \in SUBSET Handles, NEW q \in Fallbacks(S)
    PROVE  q \in Seq(MsgType)
<1>1. Cardinality(S) \in Nat
  BY HandlesAssumption, FS_Subset, FS_CardinalityType
<1>2. PICK f \in [1..Cardinality(S) -> S] :
         q = [i \in 1..Cardinality(S) |-> [op |-> "request", h |-> f[i], type |-> "SUPL"]]
  BY DEF Fallbacks
<1>3. \A i \in 1..Cardinality(S) : [op |-> "request", h |-> f[i], type |-> "SUPL"] \in MsgType
  BY <1>2 DEF MsgType, Types
<1> DEFINE k == Cardinality(S)
<1>4. q \in [1..k -> MsgType]
  BY <1>2, <1>3
<1> HIDE DEF k
<1> QED BY <1>1, <1>4 DEF k

LEMMA TellTypes ==
    ASSUME TypeOK, NEW granted, NEW failed, NEW closed, Tell(granted, failed, closed)
    PROVE  modem' \in [Handles -> {"idle", "opening", "open", "closing"}]
BY DEF TypeOK, Tell

\* A state machine whose outcome keeps the agreement keeps the invariant.
LEMMA PerformKeeps ==
    ASSUME IInv, UNCHANGED <<scene, link>>, created' \subseteq Nifs,
           NEW m \in Nifs, NEW o \in OutcomeType, NEW rest \in Seq(MsgType),
           ListAgrees(nif[m], m) => ListAgrees(o.n, m),
           Perform(m, o, rest)
    PROVE  IInv'
<1>1. nif' = [nif EXCEPT ![m] = o.n] /\ nif' \in [Nifs -> NifType]
  BY DEF Perform, OutcomeType, IInv, TypeOK
<1>2. orders' \in [Nifs -> Seq({"request", "release"})]
  <2>1. CASE o.ask = "none"
    BY <2>1 DEF Perform, IInv, TypeOK
  <2>2. CASE o.ask # "none"
    <3>1. o.ask \in {"request", "release"}
      BY <2>2 DEF OutcomeType
    <3>2. orders' = [orders EXCEPT ![m] = Append(@, o.ask)]
      BY <2>2 DEF Perform
    <3> QED BY <3>1, <3>2 DEF IInv, TypeOK
  <2> QED BY <2>1, <2>2
<1>3. msgs' \in Seq(MsgType)
  <2>1. CASE m = "ds"
    <3>1. PICK q \in Fallbacks(o.denied) : msgs' = rest \o q
      BY <2>1 DEF Perform
    <3>2. q \in Seq(MsgType)
      BY FallbackTypes DEF OutcomeType
    <3> QED BY <3>1, <3>2
  <2>2. CASE m # "ds"
    BY <2>2 DEF Perform
  <2> QED BY <2>1, <2>2
<1>4. modem' \in [Handles -> {"idle", "opening", "open", "closing"}]
  BY TellTypes DEF Perform, IInv
<1>5. TypeOK'
  BY <1>1, <1>2, <1>3, <1>4 DEF IInv, TypeOK
<1>6. ASSUME NEW k \in Nifs PROVE ListAgrees(nif[k], k)'
  <2>1. CASE k = m
    BY <2>1, <1>1 DEF IInv, TypeOK, SubscribersAgree, ListAgrees, Active
  <2>2. CASE k # m
    <3>1. nif'[k] = nif[k]
      BY <2>2, <1>1 DEF IInv, TypeOK
    <3> QED BY <3>1 DEF IInv, SubscribersAgree, ListAgrees, Active
  <2> QED BY <2>1, <2>2
<1> QED BY <1>5, <1>6 DEF IInv, SubscribersAgree

\* What the head of the queue may be.
LEMMA Heads ==
    ASSUME IInv, msgs # <<>>
    PROVE  /\ Tail(msgs) \in Seq(MsgType)
           /\ Head(msgs).op = "request" => Head(msgs).h \in Handles /\ Head(msgs).type \in Types
           /\ Head(msgs).op = "release" => Head(msgs).h \in Handles
           /\ Head(msgs).op \in {"opened", "failed", "closed"} => Head(msgs).m \in Nifs
<1>1. msgs \in Seq(MsgType)
  BY DEF IInv, TypeOK
<1>2. Head(msgs) \in MsgType /\ Tail(msgs) \in Seq(MsgType)
  BY <1>1
<1> QED BY <1>2 DEF MsgType

\* The agreement is about nif alone.
LEMMA SameLists ==
    ASSUME IInv, UNCHANGED nif
    PROVE  SubscribersAgree'
BY DEF IInv, SubscribersAgree, ListAgrees, Active

LEMMA CreatesTypes ==
    ASSUME IInv, NEW up
    PROVE  Creates(up) \subseteq Nifs
BY DEF IInv, TypeOK, Creates, Nifs

LEMMA RequestStep == ASSUME IInv, requestATL PROVE IInv'
<1> DEFINE h == Head(msgs).h
           m == MachineOf(Head(msgs).type)
<1>1. /\ msgs # <<>> /\ Head(msgs).op = "request" /\ UNCHANGED <<scene, link>>
  BY DEF requestATL, Event
<1>2. h \in Handles /\ Tail(msgs) \in Seq(MsgType)
  BY <1>1, Heads
<1>3. m \in Nifs
  BY DEF MachineOf, Nifs
<1>4. created' \subseteq Nifs
  BY CreatesTypes DEF requestATL, IInv, TypeOK
<1>5. CASE Tell({}, {h}, {}) /\ msgs' = Tail(msgs) /\ UNCHANGED <<nif, orders>>
  <2>1. modem' \in [Handles -> {"idle", "opening", "open", "closing"}]
    BY <1>5, TellTypes DEF IInv
  <2>2. TypeOK'
    BY <2>1, <1>1, <1>2, <1>4, <1>5 DEF IInv, TypeOK
  <2> QED BY <2>2, <1>5, SameLists DEF IInv
<1>6. ASSUME NEW call \in scene.calls,
             NEW first \in Active(addSubscriber(nif[m], h, FALSE)) \cup {h},
             Perform(m, processSubscribe(m, nif[m], h, Head(msgs).type = "SUPL_ES", call, first),
                     Tail(msgs))
      PROVE  IInv'
  <2>1. nif[m] \in NifType /\ call \in Calls
    BY <1>3, ScenesAssumption DEF IInv, TypeOK, SceneType
  <2>2. first \in Handles
    BY <2>1, <1>2, ListTypes DEF Active, NifType
  <2> DEFINE o == processSubscribe(m, nif[m], h, Head(msgs).type = "SUPL_ES", call, first)
  <2>3. o \in OutcomeType /\ (ListAgrees(nif[m], m) => ListAgrees(o.n, m))
    BY <1>2, <1>3, <2>1, <2>2, SubscribeKeeps
  <2>4. Perform(m, o, Tail(msgs))
    BY <1>6
  <2> HIDE DEF o, m, h
  <2> QED BY <1>1, <1>2, <1>3, <1>4, <2>3, <2>4, PerformKeeps
<1> QED BY <1>5, <1>6 DEF requestATL

LEMMA ReleaseStep == ASSUME IInv, releaseATL PROVE IInv'
<1> DEFINE h == Head(msgs).h
           Has(m) == m \in created /\ h \in nif[m].subs
           m0 == IF Has("agnss") THEN "agnss" ELSE IF Has("internet") THEN "internet" ELSE "ds"
<1>1. /\ msgs # <<>> /\ Head(msgs).op = "release" /\ UNCHANGED <<scene, link, created>>
  BY DEF releaseATL, Event
<1>2. h \in Handles /\ Tail(msgs) \in Seq(MsgType)
  BY <1>1, Heads
<1>3. m0 \in Nifs /\ created' \subseteq Nifs
  BY <1>1 DEF Nifs, IInv, TypeOK
<1>4. CASE Has(m0)
  <2> DEFINE o == processUnsubscribe(nif[m0], h)
  <2>1. nif[m0] \in NifType /\ h \in nif[m0].subs
    BY <1>3, <1>4 DEF IInv, TypeOK
  <2>2. o \in OutcomeType /\ (ListAgrees(nif[m0], m0) => ListAgrees(o.n, m0))
    BY <1>2, <1>3, <2>1, UnsubscribeKeeps
  <2>3. Perform(m0, o, Tail(msgs))
    BY <1>4 DEF releaseATL
  <2> HIDE DEF o, m0, h, Has
  <2> QED BY <1>1, <1>2, <1>3, <2>2, <2>3, PerformKeeps
<1>5. CASE ~Has(m0)
  <2>1. Tell({}, {}, {h}) /\ msgs' = Tail(msgs) /\ UNCHANGED <<nif, orders>>
    BY <1>5 DEF releaseATL
  <2>2. modem' \in [Handles -> {"idle", "opening", "open", "closing"}]
    BY <2>1, TellTypes DEF IInv
  <2>3. TypeOK'
    BY <2>1, <2>2, <1>1, <1>2 DEF IInv, TypeOK
  <2> QED BY <2>1, <2>3, SameLists DEF IInv
<1> QED BY <1>4, <1>5

\* The three reports of a provider.
LEMMA ReportStep ==
    ASSUME IInv, reportOpened \/ reportAtlOpenFailed \/ reportClosed
    PROVE  IInv'
<1> DEFINE m == Head(msgs).m
<1>1. /\ msgs # <<>> /\ Head(msgs).op \in {"opened", "failed", "closed"}
      /\ UNCHANGED <<scene, link, created>>
  BY DEF reportOpened, reportAtlOpenFailed, reportClosed, Event
<1>2. m \in Nifs /\ Tail(msgs) \in Seq(MsgType) /\ created' \subseteq Nifs
  BY <1>1, Heads DEF IInv, TypeOK
<1>3. nif[m] \in NifType /\ scene.calls \subseteq Calls
  BY <1>2, ScenesAssumption DEF IInv, TypeOK, SceneType
<1>4. ASSUME NEW o \in OutcomeType, ListAgrees(nif[m], m) => ListAgrees(o.n, m),
             Perform(m, o, Tail(msgs))
      PROVE  IInv'
  <2> HIDE DEF m
  <2> QED BY <1>1, <1>2, <1>4, PerformKeeps
<1>5. CASE reportOpened
  <2>1. Perform(m, processGranted(nif[m]), Tail(msgs))
    BY <1>5 DEF reportOpened
  <2> HIDE DEF m
  <2> QED BY <2>1, <1>2, <1>3, <1>4, GrantedKeeps
<1>6. CASE reportAtlOpenFailed
  <2>1. PICK call \in scene.calls, first \in Handles :
           Perform(m, processDenied(m, nif[m], call, first), Tail(msgs))
    BY <1>6 DEF reportAtlOpenFailed
  <2> HIDE DEF m
  <2> QED BY <2>1, <1>2, <1>3, <1>4, DeniedKeeps
<1>7. CASE reportClosed
  <2>1. PICK call \in scene.calls, first \in Handles :
           Perform(m, processReleased(m, nif[m], call, first), Tail(msgs))
    BY <1>7 DEF reportClosed
  <2> HIDE DEF m
  <2> QED BY <2>1, <1>2, <1>3, <1>4, ReleasedKeeps
<1> QED BY <1>5, <1>6, <1>7

LEMMA RetryStep == ASSUME IInv, retryCallback PROVE IInv'
<1>1. nif["ds"] \in NifType /\ "ds" \in Nifs
  BY DEF Nifs, IInv, TypeOK
<1> DEFINE new == [nif["ds"] EXCEPT !.timers = @ - 1]
<1>2. new \in NifType /\ new.state = nif["ds"].state /\ new.subs = nif["ds"].subs
      /\ new.waiting = nif["ds"].waiting /\ new.inactive = nif["ds"].inactive
  <2>1. nif["ds"].timers - 1 \in Nat
    BY <1>1 DEF retryCallback, NifType
  <2> QED BY <1>1, <2>1 DEF NifType
<1>3. nif' = [nif EXCEPT !["ds"] = new]
  BY DEF retryCallback
<1> HIDE DEF new
<1>4. nif' \in [Nifs -> NifType]
  BY <1>2, <1>3 DEF IInv, TypeOK
<1>5. msgs' \in Seq(MsgType)
  <2>1. CASE UNCHANGED msgs
    BY <2>1 DEF IInv, TypeOK
  <2>2. ASSUME NEW first \in Active(nif["ds"]),
               msgs' = Append(msgs, [op |-> "request", h |-> first, type |-> "SUPL_ES"])
        PROVE  msgs' \in Seq(MsgType)
    <3>1. first \in Handles
      BY <1>1 DEF Active, NifType
    <3>2. [op |-> "request", h |-> first, type |-> "SUPL_ES"] \in MsgType
      BY <3>1 DEF MsgType, Types
    <3> QED BY <2>2, <3>2 DEF IInv, TypeOK
  <2> QED BY <2>1, <2>2 DEF retryCallback
<1>6. TypeOK'
  BY <1>4, <1>5 DEF retryCallback, IInv, TypeOK
<1>7. ASSUME NEW k \in Nifs PROVE ListAgrees(nif[k], k)'
  <2>1. ListAgrees(nif[k], k)
    BY DEF IInv, SubscribersAgree
  <2>2. /\ nif'[k].state = nif[k].state /\ nif'[k].subs = nif[k].subs
        /\ nif'[k].waiting = nif[k].waiting /\ nif'[k].inactive = nif[k].inactive
    BY <1>2, <1>3 DEF IInv, TypeOK
  <2> QED BY <2>1, <2>2 DEF ListAgrees, Active
<1> QED BY <1>6, <1>7 DEF IInv, SubscribersAgree

\* The modem and the providers touch no state machine.
LEMMA ModemStep ==
    ASSUME IInv, NEW h \in Handles, ModemRequests(h) \/ ModemReleases(h)
    PROVE  IInv'
<1>1. CASE ModemRequests(h)
  <2>1. PICK type \in scene.wants[h] :
           msgs' = Append(msgs, [op |-> "request", h |-> h, type |-> type])
    BY <1>1 DEF ModemRequests
  <2>2. type \in Types
    BY ScenesAssumption DEF IInv, TypeOK, SceneType
  <2>3. [op |-> "request", h |-> h, type |-> type] \in MsgType
    BY <2>2 DEF MsgType
  <2>4. TypeOK'
    BY <1>1, <2>1, <2>3 DEF ModemRequests, IInv, TypeOK
  <2> QED BY <1>1, <2>4, SameLists DEF ModemRequests, IInv
<1>2. CASE ModemReleases(h)
  <2>1. [op |-> "release", h |-> h] \in MsgType
    BY DEF MsgType
  <2>2. TypeOK'
    BY <1>2, <2>1 DEF ModemReleases, IInv, TypeOK
  <2> QED BY <1>2, <2>2, SameLists DEF ModemReleases, IInv
<1> QED BY <1>1, <1>2

LEMMA ProviderStep ==
    ASSUME IInv, NEW m \in Nifs, Provider(m) \/ Loses(m)
    PROVE  IInv'
<1>1. UNCHANGED <<scene, created, nif, modem>>
  BY DEF Provider, Connects, Refuses, Disconnects, Provides, Loses
<1>2. orders' \in [Nifs -> Seq({"request", "release"})]
  <2>1. orders[m] \in Seq({"request", "release"})
    BY DEF IInv, TypeOK
  <2>2. CASE Loses(m)
    BY <2>2 DEF Loses, IInv, TypeOK
  <2>3. CASE Provider(m)
    <3>1. orders[m] # <<>> /\ orders' = [orders EXCEPT ![m] = Tail(@)]
      BY <2>3 DEF Provider, Connects, Refuses, Disconnects, Provides
    <3>2. Tail(orders[m]) \in Seq({"request", "release"})
      BY <2>1, <3>1
    <3> QED BY <3>1, <3>2 DEF IInv, TypeOK
  <2> QED BY <2>2, <2>3
<1>3. link' \in [Nifs -> {"open", "closed"}]
  BY DEF Provider, Connects, Refuses, Disconnects, Loses, IInv, TypeOK
<1>4. msgs' \in Seq(MsgType)
  <2>1. \A op \in {"opened", "failed", "closed"} : [op |-> op, m |-> m] \in MsgType
    BY DEF MsgType
  <2>2. \A op \in {"opened", "failed", "closed"} :
           Append(msgs, [op |-> op, m |-> m]) \in Seq(MsgType)
    BY <2>1 DEF IInv, TypeOK
  <2> QED BY <2>2 DEF Provider, Connects, Refuses, Disconnects, Loses, IInv, TypeOK
<1> QED BY <1>1, <1>2, <1>3, <1>4, SameLists DEF IInv, TypeOK

LEMMA NextStep == IInv /\ [Next]_vars => IInv'
<1> SUFFICES ASSUME IInv, [Next]_vars PROVE IInv'
  OBVIOUS
<1>1. CASE UNCHANGED vars
  <2>1. TypeOK'
    BY <1>1 DEF vars, IInv, TypeOK
  <2> QED BY <1>1, <2>1, SameLists DEF vars, IInv
<1>2. CASE InitAgps
  <2>1. created' \subseteq Nifs
    BY <1>2, CreatesTypes DEF InitAgps
  <2>2. msgs' \in Seq(MsgType)
    BY <1>2, Heads DEF InitAgps, Event
  <2> QED BY <1>2, <2>1, <2>2, SameLists DEF InitAgps, Event, IInv, TypeOK
<1>3. CASE requestATL
  BY <1>3, RequestStep
<1>4. CASE releaseATL
  BY <1>4, ReleaseStep
<1>5. CASE reportOpened \/ reportAtlOpenFailed \/ reportClosed
  BY <1>5, ReportStep
<1>6. CASE retryCallback
  BY <1>6, RetryStep
<1>7. ASSUME NEW h \in Handles, ModemRequests(h) \/ ModemReleases(h) PROVE IInv'
  BY <1>7, ModemStep
<1>8. ASSUME NEW m \in Nifs, Provider(m) \/ Loses(m) PROVE IInv'
  BY <1>8, ProviderStep
<1> QED BY <1>1, <1>2, <1>3, <1>4, <1>5, <1>6, <1>7, <1>8 DEF Next, MsgTask

\* Every message names a handle, a type or a state machine that exists, and the
\* state machines keep their shape (Agps.h:60-66, 101-145).
THEOREM AgpsTypeCorrect == Spec => []TypeOK
<1>1. IInv => TypeOK
  BY DEF IInv
<1> QED BY <1>1, InitInv, NextStep, PTL DEF Spec

\* A connection is wanted exactly while a subscriber wants it: for every state
\* machine the list agrees with the state (Agps.cpp:72-290), in particular the
\* list is empty in RELEASED (Agps.cpp:208) except for requests that the
\* emergency state machine retries there (Agps.cpp:80-84).
THEOREM ListsAgree == Spec => []SubscribersAgree
<1>1. IInv => SubscribersAgree
  BY DEF IInv
<1> QED BY <1>1, InitInv, NextStep, PTL DEF Spec

-----------------------------------------------------------------------------
(***************************************************************************)
(* Whenever nothing is under way, every state machine agrees with its data *)
(* connection (LinksAgree), for any number of handles and of retries.      *)
(*                                                                         *)
(* The modem waits for its answers, and the scenes are Orderly: every data *)
(* call starts, or a single handle asks for emergency connections.  The    *)
(* code needs both: it does not retry a second emergency subscriber, and   *)
(* it ignores the failure of a data call that follows a release.           *)
(*                                                                         *)
(* The invariant has two parts.  CalmInv says where every handle is: in    *)
(* the queue, in one list, or nowhere; ConnInv says how far every data     *)
(* connection has got, given the state of its machine (Stage): what was    *)
(* ordered and not done, whether it is open, and what the queue will       *)
(* report of it.                                                           *)
(***************************************************************************)
(* What the queue holds. *)

\* What the queue holds about a state machine, in order.
Reports == {"opened", "failed", "closed"}

\* A report about m, and what the queue q will say about m: the sequence s, at
\* increasing places, and nothing else.
IsReport(x, m) == x.op \in Reports /\ x.m = m
Tells(q, m, s) ==
    \E f \in [1..Len(s) -> DOMAIN q] :
        /\ \A i, j \in 1..Len(s) : i < j => f[i] < f[j]
        /\ \A i \in 1..Len(s) : IsReport(q[f[i]], m) /\ q[f[i]].op = s[i]
        /\ \A k \in DOMAIN q : IsReport(q[k], m) => \E i \in 1..Len(s) : f[i] = k

\* Messages about something else change nothing.
LEMMA TellsMore ==
    ASSUME NEW q \in Seq(MsgType), NEW r \in Seq(MsgType), NEW m, NEW s \in Seq(Reports),
           Tells(q, m, s), \A i \in DOMAIN r : ~IsReport(r[i], m)
    PROVE  Tells(q \o r, m, s)
<1>1. PICK f \in [1..Len(s) -> DOMAIN q] :
        /\ \A i, j \in 1..Len(s) : i < j => f[i] < f[j]
        /\ \A i \in 1..Len(s) : IsReport(q[f[i]], m) /\ q[f[i]].op = s[i]
        /\ \A k \in DOMAIN q : IsReport(q[k], m) => \E i \in 1..Len(s) : f[i] = k
  BY DEF Tells
<1>2. /\ DOMAIN q = 1..Len(q) /\ DOMAIN r = 1..Len(r) /\ DOMAIN (q \o r) = 1..(Len(q) + Len(r))
      /\ Len(q) \in Nat /\ Len(r) \in Nat
      /\ \A k \in 1..Len(q) : (q \o r)[k] = q[k]
      /\ \A k \in (Len(q) + 1)..(Len(q) + Len(r)) : (q \o r)[k] = r[k - Len(q)]
  OBVIOUS
<1>3. f \in [1..Len(s) -> DOMAIN (q \o r)]
  BY <1>2
<1>4. \A i \in 1..Len(s) : IsReport((q \o r)[f[i]], m) /\ (q \o r)[f[i]].op = s[i]
  BY <1>1, <1>2
<1>5. ASSUME NEW k \in DOMAIN (q \o r), IsReport((q \o r)[k], m) PROVE \E i \in 1..Len(s) : f[i] = k
  <2>1. k \notin (Len(q) + 1)..(Len(q) + Len(r))
    <3> SUFFICES ASSUME k \in (Len(q) + 1)..(Len(q) + Len(r)) PROVE FALSE
      OBVIOUS
    <3>1. k - Len(q) \in DOMAIN r
      BY <1>2
    <3> QED BY <1>2, <1>5, <3>1
  <2>2. k \in DOMAIN q
    BY <1>2, <2>1
  <2> QED BY <1>1, <1>2, <1>5, <2>2
<1> QED BY <1>1, <1>3, <1>4, <1>5 DEF Tells

\* A report that is queued is said last.
LEMMA TellsAppend ==
    ASSUME NEW q \in Seq(MsgType), NEW x \in MsgType, NEW m, NEW s \in Seq(Reports),
           Tells(q, m, s), IsReport(x, m)
    PROVE  Tells(Append(q, x), m, Append(s, x.op))
<1>1. PICK f \in [1..Len(s) -> DOMAIN q] :
        /\ \A i, j \in 1..Len(s) : i < j => f[i] < f[j]
        /\ \A i \in 1..Len(s) : IsReport(q[f[i]], m) /\ q[f[i]].op = s[i]
        /\ \A k \in DOMAIN q : IsReport(q[k], m) => \E i \in 1..Len(s) : f[i] = k
  BY DEF Tells
<1> DEFINE qq == Append(q, x)
           ss == Append(s, x.op)
           g == [i \in 1..(Len(s) + 1) |-> IF i = Len(s) + 1 THEN Len(q) + 1 ELSE f[i]]
<1>2. /\ DOMAIN q = 1..Len(q) /\ DOMAIN qq = 1..(Len(q) + 1) /\ Len(q) \in Nat /\ Len(s) \in Nat
      /\ \A k \in 1..Len(q) : qq[k] = q[k]
      /\ qq[Len(q) + 1] = x
  OBVIOUS
<1>3. /\ Len(ss) = Len(s) + 1 /\ ss[Len(s) + 1] = x.op
      /\ \A i \in 1..Len(s) : ss[i] = s[i]
  BY DEF Reports, IsReport
<1>4. \A i \in 1..Len(s) : f[i] \in 1..Len(q) /\ g[i] = f[i]
  BY <1>2
<1>5. g[Len(s) + 1] = Len(q) + 1
  BY <1>2
<1>6. g \in [1..Len(ss) -> DOMAIN qq]
  BY <1>2, <1>3, <1>4
<1> HIDE DEF qq, ss, g
<1>7. \A i \in 1..Len(ss) : i = Len(s) + 1 \/ i \in 1..Len(s)
  BY <1>2, <1>3
<1>8. \A i, j \in 1..Len(ss) : i < j => g[i] < g[j]
  BY <1>1, <1>2, <1>3, <1>4, <1>5, <1>7
<1>9. \A i \in 1..Len(ss) : IsReport(qq[g[i]], m) /\ qq[g[i]].op = ss[i]
  BY <1>1, <1>2, <1>3, <1>4, <1>5, <1>7
<1>10. ASSUME NEW k \in DOMAIN qq, IsReport(qq[k], m) PROVE \E i \in 1..Len(ss) : g[i] = k
  <2>1. CASE k = Len(q) + 1
    BY <2>1, <1>2, <1>3, <1>5
  <2>2. CASE k # Len(q) + 1
    <3>1. k \in 1..Len(q)
      BY <2>2, <1>2
    <3>2. PICK i \in 1..Len(s) : f[i] = k
      BY <1>1, <1>2, <1>10, <3>1
    <3>3. i \in 1..Len(ss) /\ g[i] = k
      BY <3>2, <1>2, <1>3, <1>4
    <3> QED BY <3>3
  <2> QED BY <2>1, <2>2
<1>11. Tells(qq, m, ss)
  BY <1>6, <1>8, <1>9, <1>10 DEF Tells
<1> QED BY <1>11 DEF qq, ss

\* A message about something else is taken.
LEMMA TellsOther ==
    ASSUME NEW q \in Seq(MsgType), q # <<>>, NEW m, NEW s \in Seq(Reports),
           Tells(q, m, s), ~IsReport(Head(q), m)
    PROVE  Tells(Tail(q), m, s)
<1>1. PICK f \in [1..Len(s) -> DOMAIN q] :
        /\ \A i, j \in 1..Len(s) : i < j => f[i] < f[j]
        /\ \A i \in 1..Len(s) : IsReport(q[f[i]], m) /\ q[f[i]].op = s[i]
        /\ \A k \in DOMAIN q : IsReport(q[k], m) => \E i \in 1..Len(s) : f[i] = k
  BY DEF Tells
<1> DEFINE qq == Tail(q)
           g == [i \in 1..Len(s) |-> f[i] - 1]
<1>2. /\ DOMAIN q = 1..Len(q) /\ DOMAIN qq = 1..(Len(q) - 1) /\ Len(q) \in Nat /\ Len(q) > 0
      /\ \A k \in 1..(Len(q) - 1) : qq[k] = q[k + 1]
      /\ Head(q) = q[1]
  OBVIOUS
<1>3. \A i \in 1..Len(s) : f[i] \in 2..Len(q) /\ g[i] = f[i] - 1
  BY <1>1, <1>2
<1> HIDE DEF qq
<1>4. g \in [1..Len(s) -> DOMAIN qq]
  BY <1>2, <1>3
<1> HIDE DEF g
<1>5. \A i, j \in 1..Len(s) : i < j => g[i] < g[j]
  BY <1>1, <1>3
<1>6. \A i \in 1..Len(s) : qq[g[i]] = q[f[i]]
  BY <1>2, <1>3
<1>7. ASSUME NEW k \in DOMAIN qq, IsReport(qq[k], m) PROVE \E i \in 1..Len(s) : g[i] = k
  <2>1. k + 1 \in DOMAIN q /\ IsReport(q[k + 1], m) /\ k \in Nat
    BY <1>2, <1>7
  <2>2. PICK i \in 1..Len(s) : f[i] = k + 1
    BY <1>1, <2>1
  <2> QED BY <2>1, <2>2, <1>3
<1>9. \A i \in 1..Len(s) : IsReport(qq[g[i]], m) /\ qq[g[i]].op = s[i]
  BY <1>1, <1>6
<1>8. Tells(qq, m, s)
  BY <1>4, <1>5, <1>7, <1>9 DEF Tells
<1> QED BY <1>8 DEF qq

\* The report at the head of the queue is what is said next.
LEMMA TellsNext ==
    ASSUME NEW q \in Seq(MsgType), q # <<>>, NEW m, NEW s \in Seq(Reports),
           Tells(q, m, s), IsReport(Head(q), m)
    PROVE  s # <<>> /\ Head(s) = Head(q).op /\ Tells(Tail(q), m, Tail(s))
<1>1. PICK f \in [1..Len(s) -> DOMAIN q] :
        /\ \A i, j \in 1..Len(s) : i < j => f[i] < f[j]
        /\ \A i \in 1..Len(s) : IsReport(q[f[i]], m) /\ q[f[i]].op = s[i]
        /\ \A k \in DOMAIN q : IsReport(q[k], m) => \E i \in 1..Len(s) : f[i] = k
  BY DEF Tells
<1> DEFINE qq == Tail(q)
           ss == Tail(s)
           g == [i \in 1..(Len(s) - 1) |-> f[i + 1] - 1]
<1>2. /\ DOMAIN q = 1..Len(q) /\ DOMAIN qq = 1..(Len(q) - 1) /\ Len(q) \in Nat /\ Len(q) > 0
      /\ \A k \in 1..(Len(q) - 1) : qq[k] = q[k + 1]
      /\ Head(q) = q[1] /\ 1 \in DOMAIN q
  OBVIOUS
<1>3. \A i \in 1..Len(s) : f[i] \in 1..Len(q)
  BY <1>2
<1>4. PICK one \in 1..Len(s) : f[one] = 1
  BY <1>1, <1>2
<1>5. Len(s) \in Nat /\ Len(s) > 0 /\ 1 \in 1..Len(s)
  BY <1>4
<1>6. f[1] = 1
  BY <1>1, <1>3, <1>4, <1>5
<1>7. /\ s # <<>> /\ Head(s) = s[1] /\ Len(ss) = Len(s) - 1
      /\ \A i \in 1..(Len(s) - 1) : ss[i] = s[i + 1]
  BY <1>5
<1>8. \A i \in 1..(Len(s) - 1) :
        i + 1 \in 1..Len(s) /\ f[i + 1] \in 2..Len(q) /\ g[i] = f[i + 1] - 1
  <2> SUFFICES ASSUME NEW i \in 1..(Len(s) - 1) PROVE i + 1 \in 1..Len(s) /\ f[i + 1] \in 2..Len(q)
    OBVIOUS
  <2>1. i + 1 \in 1..Len(s) /\ 1 < i + 1
    BY <1>5
  <2>2. f[1] < f[i + 1]
    BY <1>1, <1>5, <2>1
  <2> QED BY <2>1, <2>2, <1>3, <1>6
<1> HIDE DEF qq, ss
<1>9. g \in [1..Len(ss) -> DOMAIN qq]
  BY <1>2, <1>7, <1>8
<1> HIDE DEF g
<1>10. \A i, j \in 1..Len(ss) : i < j => g[i] < g[j]
  <2> SUFFICES ASSUME NEW i \in 1..Len(ss), NEW j \in 1..Len(ss), i < j PROVE g[i] < g[j]
    OBVIOUS
  <2>1. i + 1 < j + 1 /\ i + 1 \in 1..Len(s) /\ j + 1 \in 1..Len(s)
    BY <1>7, <1>8
  <2>2. f[i + 1] < f[j + 1]
    BY <2>1, <1>1
  <2> QED BY <2>1, <2>2, <1>3, <1>7, <1>8
<1>11. \A i \in 1..Len(ss) : qq[g[i]] = q[f[i + 1]] /\ ss[i] = s[i + 1] /\ i + 1 \in 1..Len(s)
  BY <1>2, <1>7, <1>8
<1>12. ASSUME NEW k \in DOMAIN qq, IsReport(qq[k], m) PROVE \E i \in 1..Len(ss) : g[i] = k
  <2>1. k + 1 \in DOMAIN q /\ IsReport(q[k + 1], m) /\ k \in Nat /\ k >= 1
    BY <1>2, <1>12
  <2>2. PICK i \in 1..Len(s) : f[i] = k + 1
    BY <1>1, <2>1
  <2>3. i # 1
    BY <2>1, <2>2, <1>6
  <2>4. i - 1 \in 1..Len(ss) /\ (i - 1) + 1 = i
    BY <2>3, <1>5, <1>7
  <2>5. g[i - 1] = k
    BY <2>1, <2>2, <2>4, <1>7, <1>8
  <2> QED BY <2>4, <2>5
<1>15. \A i \in 1..Len(ss) : IsReport(qq[g[i]], m) /\ qq[g[i]].op = ss[i]
  BY <1>1, <1>11
<1>13. Tells(qq, m, ss)
  BY <1>9, <1>10, <1>12, <1>15 DEF Tells
<1>14. Head(s) = Head(q).op
  BY <1>1, <1>2, <1>5, <1>6, <1>7
<1> QED BY <1>7, <1>13, <1>14 DEF qq, ss

\* A queue with nothing about m.
LEMMA TellsNothing ==
    ASSUME NEW q, NEW m, NEW s \in Seq(Reports), Tells(q, m, s),
           \A i \in DOMAIN q : ~IsReport(q[i], m)
    PROVE  s = <<>>
<1>1. PICK f \in [1..Len(s) -> DOMAIN q] : \A i \in 1..Len(s) : IsReport(q[f[i]], m)
  BY DEF Tells
<1>2. 1 \notin 1..Len(s)
  BY <1>1
<1> QED BY <1>2

-----------------------------------------------------------------------------
(* The stages of a connection. *)

\* Nobody wants the connection of m any more; it may still be open or on its way down.
Rested(m, asked, conn, told) ==
    \/ asked \in {<<>>, <<"release">>} /\ conn = "closed" /\ told = <<>>
    \/ m # "ds" /\ asked = <<"release">> /\ conn = "open" /\ told = <<>>
    \/ m # "ds" /\ asked \in {<<>>, <<"release">>} /\ conn = "closed" /\ told = <<"closed">>

\* The connection of m is requested, behind the end of the last one.
Requested(m, asked, conn, told) ==
    \/ asked \in {<<"request">>, <<"release", "request">>} /\ conn = "closed" /\ told = <<>>
    \/ m # "ds" /\ asked = <<"release", "request">> /\ conn = "open" /\ told = <<>>
    \/ /\ m # "ds" /\ asked \in {<<"request">>, <<"release", "request">>}
       /\ conn = "closed" /\ told = <<"closed">>
    \/ asked = <<>> /\ conn = "open" /\ told = <<"opened">>
    \/ asked = <<>> /\ conn = "closed" /\ told = <<"opened", "closed">>
    \/ m # "ds" /\ asked = <<>> /\ conn = "open" /\ told = <<"closed", "opened">>
    \/ m # "ds" /\ asked = <<>> /\ conn = "closed" /\ told = <<"closed", "opened", "closed">>
    \/ m # "ds" /\ asked = <<>> /\ conn = "closed" /\ told = <<"failed">>
    \/ m # "ds" /\ asked = <<>> /\ conn = "closed" /\ told = <<"closed", "failed">>
    \/ m = "ds" /\ asked = <<>> /\ conn = "closed" /\ told = <<"closed">>

\* The connection of m was open when it was last reported.
Opened(asked, conn, told) ==
    /\ asked = <<>>
    /\ \/ conn = "open" /\ told = <<>>
       \/ conn = "closed" /\ told = <<"closed">>

\* The connection of m is being released, for somebody who waits for the end.
Ending(asked, conn, told) ==
    \/ asked = <<"release">> /\ conn = "open" /\ told = <<>>
    \/ asked \in {<<>>, <<"release">>} /\ conn = "closed" /\ told = <<"closed">>

\* How far the connection of a state machine has got, given its state.
Stage(m, state, asked, conn, told) ==
    /\ state = "RELEASED" => Rested(m, asked, conn, told)
    /\ state = "PENDING" => Requested(m, asked, conn, told)
    /\ state = "ACQUIRED" => Opened(asked, conn, told)
    /\ state = "RELEASING" => Ending(asked, conn, told)

\* What a state machine may ask.
Orders == {"request", "release"}

\* Sequences of up to three elements, element by element.
LEMMA ShortAppend ==
    ASSUME NEW a, NEW b, NEW c
    PROVE  /\ Append(<<>>, a) = <<a>>
           /\ Append(<<a>>, b) = <<a, b>>
           /\ Append(<<a, b>>, c) = <<a, b, c>>
<1> DEFINE S == {a, b, c}
<1>1. Append(<<a>>, b) = <<a, b>>
  <2> DEFINE q == Append(<<a>>, b)
  <2>1. <<a>> \in Seq(S) /\ Len(<<a>>) = 1 /\ <<a>>[1] = a
    OBVIOUS
  <2>2. q \in Seq(S) /\ Len(q) = 2 /\ q[1] = a /\ q[2] = b
    BY <2>1
  <2> HIDE DEF q
  <2>3. q = <<a, b>>
    BY <2>2
  <2> QED BY <2>3 DEF q
<1>2. Append(<<a, b>>, c) = <<a, b, c>>
  <2> DEFINE q == Append(<<a, b>>, c)
  <2>1. <<a, b>> \in Seq(S) /\ Len(<<a, b>>) = 2 /\ <<a, b>>[1] = a /\ <<a, b>>[2] = b
    OBVIOUS
  <2>2. q \in Seq(S) /\ Len(q) = 3 /\ q[1] = a /\ q[2] = b /\ q[3] = c
    BY <2>1
  <2> HIDE DEF q
  <2>3. q = <<a, b, c>>
    BY <2>2
  <2> QED BY <2>3 DEF q
<1>3. Append(<<>>, a) = <<a>>
  OBVIOUS
<1> QED BY <1>1, <1>2, <1>3

\* Their heads and tails.
LEMMA ShortTail ==
    ASSUME NEW a, NEW b, NEW c
    PROVE  /\ Tail(<<a>>) = <<>> /\ Tail(<<a, b>>) = <<b>> /\ Tail(<<a, b, c>>) = <<b, c>>
           /\ Head(<<a>>) = a /\ Head(<<a, b>>) = a /\ Head(<<a, b, c>>) = a
OBVIOUS

\* A new request goes behind the end of the last connection.
LEMMA StageAsk ==
    ASSUME NEW m, NEW asked, NEW conn, NEW told, Rested(m, asked, conn, told)
    PROVE  Requested(m, Append(asked, "request"), conn, told)
<1>1. Append(<<>>, "request") = <<"request">>
      /\ Append(<<"release">>, "request") = <<"release", "request">>
  BY ShortAppend
<1> QED BY <1>1 DEF Rested, Requested

\* A connection that is given back, with and without somebody who waits.
LEMMA StageRelease ==
    ASSUME NEW m, NEW asked, NEW conn, NEW told, Opened(asked, conn, told)
    PROVE  /\ Ending(Append(asked, "release"), conn, told)
           /\ m # "ds" => Rested(m, Append(asked, "release"), conn, told)
<1>1. Append(<<>>, "release") = <<"release">>
  BY ShortAppend
<1> QED BY <1>1 DEF Rested, Opened, Ending

\* What a report finds and leaves.
LEMMA StageOpened ==
    ASSUME NEW m, NEW state \in States, NEW asked, NEW conn, NEW told,
           Stage(m, state, asked, conn, told), told # <<>>, Head(told) = "opened"
    PROVE  state = "PENDING" /\ Opened(asked, conn, Tail(told))
<1>1. /\ Tail(<<"opened">>) = <<>> /\ Tail(<<"opened", "closed">>) = <<"closed">>
      /\ Head(<<"closed">>) = "closed" /\ Head(<<"closed", "opened">>) = "closed"
      /\ Head(<<"closed", "opened", "closed">>) = "closed" /\ Head(<<"failed">>) = "failed"
      /\ Head(<<"closed", "failed">>) = "closed"
  BY ShortTail
<1>2. CASE state # "PENDING"
  BY <1>1, <1>2 DEF Stage, Rested, Opened, Ending, States
<1>3. CASE state = "PENDING"
  <2>1. /\ asked = <<>>
        /\ \/ told = <<"opened">> /\ conn = "open"
           \/ told = <<"opened", "closed">> /\ conn = "closed"
    BY <1>1, <1>3 DEF Stage, Requested
  <2>2. \/ Tail(told) = <<>> /\ conn = "open"
        \/ Tail(told) = <<"closed">> /\ conn = "closed"
    BY <1>1, <2>1
  <2> QED BY <1>3, <2>1, <2>2 DEF Opened
<1> QED BY <1>2, <1>3

\* A failure answers a request: nothing else is left of it.
LEMMA StageFailed ==
    ASSUME NEW m, NEW state \in States, NEW asked, NEW conn, NEW told,
           Stage(m, state, asked, conn, told), told # <<>>, Head(told) = "failed"
    PROVE  m # "ds" /\ state = "PENDING" /\ Rested(m, asked, conn, Tail(told))
<1>1. /\ Tail(<<"failed">>) = <<>>
      /\ Head(<<"opened">>) = "opened" /\ Head(<<"opened", "closed">>) = "opened"
      /\ Head(<<"closed">>) = "closed" /\ Head(<<"closed", "opened">>) = "closed"
      /\ Head(<<"closed", "opened", "closed">>) = "closed"
      /\ Head(<<"closed", "failed">>) = "closed"
  BY ShortTail
<1> QED BY <1>1 DEF Stage, Rested, Requested, Opened, Ending, States

\* A closure ends what was open, or tells of an older connection.
LEMMA StageClosed ==
    ASSUME NEW m, NEW state \in States, NEW asked, NEW conn, NEW told,
           Stage(m, state, asked, conn, told), told # <<>>, Head(told) = "closed"
    PROVE  /\ state # "PENDING" \/ m = "ds" => Rested(m, asked, conn, Tail(told))
           /\ state = "PENDING" /\ m # "ds" => Requested(m, asked, conn, Tail(told))
<1>1. /\ Tail(<<"closed">>) = <<>> /\ Tail(<<"closed", "opened">>) = <<"opened">>
      /\ Tail(<<"closed", "opened", "closed">>) = <<"opened", "closed">>
      /\ Tail(<<"closed", "failed">>) = <<"failed">>
      /\ Head(<<"opened">>) = "opened" /\ Head(<<"opened", "closed">>) = "opened"
      /\ Head(<<"failed">>) = "failed"
  BY ShortTail
<1> QED BY <1>1 DEF Stage, Rested, Requested, Opened, Ending, States

\* What a provider does to the stage of a connection.
LEMMA StageConnects ==
    ASSUME NEW m, NEW state \in States, NEW asked, NEW conn, NEW told,
           Stage(m, state, asked, conn, told), asked # <<>>, Head(asked) = "request"
    PROVE  /\ Stage(m, state, Tail(asked), "open", Append(told, "opened"))
           /\ m # "ds" => Stage(m, state, Tail(asked), conn, Append(told, "failed"))
           /\ m = "ds" => Stage(m, state, Tail(asked), conn, Append(told, "closed"))
<1>1. /\ Head(<<"request">>) = "request" /\ Tail(<<"request">>) = <<>>
      /\ Head(<<"release">>) = "release" /\ Head(<<"release", "request">>) = "release"
  BY ShortTail
<1>2. /\ Append(<<>>, "opened") = <<"opened">> /\ Append(<<"closed">>, "opened") = <<"closed", "opened">>
      /\ Append(<<>>, "failed") = <<"failed">> /\ Append(<<"closed">>, "failed") = <<"closed", "failed">>
      /\ Append(<<>>, "closed") = <<"closed">>
  BY ShortAppend
<1> QED BY <1>1, <1>2 DEF Stage, Rested, Requested, Opened, Ending, States

\* Whether the connection still was open decides if the end is reported.
LEMMA StageDisconnects ==
    ASSUME NEW m, NEW state \in States, NEW asked, NEW conn \in {"open", "closed"}, NEW told,
           Stage(m, state, asked, conn, told), asked # <<>>, Head(asked) = "release"
    PROVE  Stage(m, state, Tail(asked), "closed",
                 IF conn = "open" THEN Append(told, "closed") ELSE told)
<1>1. /\ Head(<<"request">>) = "request" /\ Tail(<<"release">>) = <<>>
      /\ Tail(<<"release", "request">>) = <<"request">>
  BY ShortTail
<1>2. Append(<<>>, "closed") = <<"closed">>
  BY ShortAppend
<1> QED BY <1>1, <1>2 DEF Stage, Rested, Requested, Opened, Ending, States

\* A connection that is lost is reported as closed.
LEMMA StageLoses ==
    ASSUME NEW m, NEW state \in States, NEW asked, NEW told, Stage(m, state, asked, "open", told)
    PROVE  Stage(m, state, asked, "closed", Append(told, "closed"))
<1>1. /\ Append(<<>>, "closed") = <<"closed">> /\ Append(<<"opened">>, "closed") = <<"opened", "closed">>
      /\ Append(<<"closed", "opened">>, "closed") = <<"closed", "opened", "closed">>
  BY ShortAppend
<1> QED BY <1>1 DEF Stage, Rested, Requested, Opened, Ending, States

-----------------------------------------------------------------------------
(* Requests and releases in the queue. *)

\* Who asks for emergency connections of the modem.
EmergencyUsers(sc) == {h \in Handles : sc.emergency /\ "SUPL_ES" \in sc.wants[h]}

\* Every data call starts, or a single handle asks for emergency connections of
\* the modem; or the modem releases what was not answered (no agreement then).
Orderly ==
    \A sc \in Scenes : sc.hasty \/ sc.calls \subseteq {"SUCCESS"}
                                \/ \A g, h \in EmergencyUsers(sc) : g = h

\* Whose requests and releases the queue holds.
Asking(q) == {h \in Handles : \E i \in DOMAIN q : q[i].op = "request" /\ q[i].h = h}
Leaving(q) == {h \in Handles : \E i \in DOMAIN q : q[i].op = "release" /\ q[i].h = h}

\* No handle has two requests in the queue, and an emergency request is from who makes them.
Single(q) ==
    /\ \A i, j \in DOMAIN q : q[i].op = "request" /\ q[j].op = "request" /\ q[i].h = q[j].h => i = j
    /\ \A i \in DOMAIN q : q[i].op = "request" /\ q[i].type = "SUPL_ES" /\ scene.emergency =>
            q[i].h \in EmergencyUsers(scene)

\* Who a message is about.
LEMMA MsgIs ==
    ASSUME NEW q \in Seq(MsgType), NEW i \in DOMAIN q
    PROVE  /\ q[i].op \in {"request", "release"} => q[i].h \in Handles
           /\ q[i].op \in Reports => q[i].m \in Nifs
<1>1. q[i] \in MsgType
  OBVIOUS
<1> QED BY <1>1 DEF MsgType, Reports

\* The queue without its head.
LEMMA TailIs ==
    ASSUME NEW q \in Seq(MsgType), q # <<>>
    PROVE  /\ 1 \in DOMAIN q /\ Head(q) = q[1] /\ Tail(q) \in Seq(MsgType)
           /\ \A i \in DOMAIN Tail(q) : i + 1 \in DOMAIN q /\ i + 1 # 1 /\ i \in Nat /\ Tail(q)[i] = q[i + 1]
OBVIOUS

\* The message that is taken was the only request of its handle.
LEMMA SingleTail ==
    ASSUME NEW q \in Seq(MsgType), q # <<>>, Single(q)
    PROVE  /\ Single(Tail(q)) /\ Asking(Tail(q)) \subseteq Asking(q)
           /\ Leaving(Tail(q)) \subseteq Leaving(q)
           /\ Head(q).op = "request" => /\ Head(q).h \in Asking(q) /\ Head(q).h \notin Asking(Tail(q))
                                        /\ Head(q).type = "SUPL_ES" /\ scene.emergency =>
                                              Head(q).h \in EmergencyUsers(scene)
           /\ Head(q).op = "release" => Head(q).h \in Leaving(q)
<1> DEFINE r == Tail(q)
<1>1. /\ 1 \in DOMAIN q /\ Head(q) = q[1]
      /\ \A i \in DOMAIN r : i + 1 \in DOMAIN q /\ i + 1 # 1 /\ i \in Nat /\ r[i] = q[i + 1]
  BY TailIs
<1> HIDE DEF r
<1>2. Single(r)
  <2>1. ASSUME NEW i \in DOMAIN r, NEW j \in DOMAIN r, r[i].op = "request", r[j].op = "request",
               r[i].h = r[j].h
        PROVE  i = j
    <3>1. i + 1 = j + 1
      BY <1>1, <2>1 DEF Single
    <3> QED BY <1>1, <3>1
  <2>2. ASSUME NEW i \in DOMAIN r, r[i].op = "request", r[i].type = "SUPL_ES", scene.emergency
        PROVE  r[i].h \in EmergencyUsers(scene)
    BY <1>1, <2>2 DEF Single
  <2> QED BY <2>1, <2>2 DEF Single
<1>3. Asking(r) \subseteq Asking(q) /\ Leaving(r) \subseteq Leaving(q)
  BY <1>1 DEF Asking, Leaving
<1>4. ASSUME Head(q).op = "request"
      PROVE  /\ Head(q).h \in Asking(q) /\ Head(q).h \notin Asking(r)
             /\ Head(q).type = "SUPL_ES" /\ scene.emergency => Head(q).h \in EmergencyUsers(scene)
  <2>1. Head(q).h \in Handles
    BY <1>1, <1>4, MsgIs
  <2>2. Head(q).h \in Asking(q)
    BY <1>1, <1>4, <2>1 DEF Asking
  <2>3. Head(q).h \notin Asking(r)
    BY <1>1, <1>4 DEF Asking, Single
  <2>4. Head(q).type = "SUPL_ES" /\ scene.emergency => Head(q).h \in EmergencyUsers(scene)
    BY <1>1, <1>4 DEF Single
  <2> QED BY <2>2, <2>3, <2>4
<1>5. ASSUME Head(q).op = "release" PROVE Head(q).h \in Leaving(q)
  <2>1. Head(q).h \in Handles
    BY <1>1, <1>5, MsgIs
  <2> QED BY <1>1, <1>5, <2>1 DEF Leaving
<1> QED BY <1>2, <1>3, <1>4, <1>5 DEF r

\* What another message adds.
LEMMA SingleAppend ==
    ASSUME NEW q \in Seq(MsgType), NEW x \in MsgType, Single(q),
           x.op = "request" => /\ x.h \notin Asking(q)
                               /\ x.type = "SUPL_ES" /\ scene.emergency => x.h \in EmergencyUsers(scene)
    PROVE  /\ Single(Append(q, x))
           /\ x.op # "request" => Asking(Append(q, x)) = Asking(q)
           /\ x.op = "request" => Asking(Append(q, x)) = Asking(q) \cup {x.h}
           /\ x.op # "release" => Leaving(Append(q, x)) = Leaving(q)
           /\ x.op = "release" => Leaving(Append(q, x)) = Leaving(q) \cup {x.h}
<1> DEFINE r == Append(q, x)
<1>1. /\ DOMAIN q = 1..Len(q) /\ DOMAIN r = 1..(Len(q) + 1) /\ Len(q) \in Nat
      /\ \A i \in DOMAIN q : r[i] = q[i]
      /\ r[Len(q) + 1] = x
  OBVIOUS
<1> HIDE DEF r
<1>2. /\ \A i \in DOMAIN r : i \in DOMAIN q \/ i = Len(q) + 1
      /\ Len(q) + 1 \in DOMAIN r /\ DOMAIN q \subseteq DOMAIN r
  BY <1>1
<1>3. x.op \in {"request", "release"} => x.h \in Handles
  BY DEF MsgType
<1>4. Single(r)
  <2>1. ASSUME NEW i \in DOMAIN r, NEW j \in DOMAIN r, r[i].op = "request", r[j].op = "request",
               r[i].h = r[j].h
        PROVE  i = j
    <3>1. CASE i \in DOMAIN q /\ j \in DOMAIN q
      BY <1>1, <2>1, <3>1 DEF Single
    <3>2. CASE i \in DOMAIN q /\ j = Len(q) + 1
      BY <1>1, <1>3, <2>1, <3>2 DEF Asking
    <3>3. CASE i = Len(q) + 1 /\ j \in DOMAIN q
      BY <1>1, <1>3, <2>1, <3>3 DEF Asking
    <3> QED BY <1>2, <3>1, <3>2, <3>3
  <2>2. ASSUME NEW i \in DOMAIN r, r[i].op = "request", r[i].type = "SUPL_ES", scene.emergency
        PROVE  r[i].h \in EmergencyUsers(scene)
    BY <1>1, <1>2, <2>2 DEF Single
  <2> QED BY <2>1, <2>2 DEF Single
<1>5. \A h \in Handles : /\ h \in Asking(r) <=> h \in Asking(q) \/ (x.op = "request" /\ x.h = h)
                         /\ h \in Leaving(r) <=> h \in Leaving(q) \/ (x.op = "release" /\ x.h = h)
  BY <1>1, <1>2 DEF Asking, Leaving
<1>6. Asking(r) \subseteq Handles /\ Asking(q) \subseteq Handles /\ Leaving(r) \subseteq Handles
      /\ Leaving(q) \subseteq Handles
  BY DEF Asking, Leaving
<1> QED BY <1>3, <1>4, <1>5, <1>6 DEF r

\* Who falls back asks once more.
LEMMA SingleFallbacks ==
    ASSUME NEW q \in Seq(MsgType), Single(q), NEW S \in SUBSET Handles, NEW f \in Fallbacks(S),
           S \cap Asking(q) = {}
    PROVE  /\ q \o f \in Seq(MsgType) /\ Single(q \o f)
           /\ Asking(q \o f) \subseteq Asking(q) \cup S
           /\ Leaving(q \o f) \subseteq Leaving(q)
           /\ \A i \in DOMAIN f, m \in Nifs : ~IsReport(f[i], m)
<1> DEFINE r == q \o f
<1>1. PICK g \in [1..Cardinality(S) -> S] :
        /\ \A i, j \in DOMAIN g : g[i] = g[j] => i = j
        /\ f = [i \in 1..Cardinality(S) |-> [op |-> "request", h |-> g[i], type |-> "SUPL"]]
  BY DEF Fallbacks
<1>2. f \in Seq(MsgType)
  BY FallbackTypes
<1>3. /\ DOMAIN q = 1..Len(q) /\ DOMAIN r = 1..(Len(q) + Len(f)) /\ Len(q) \in Nat /\ Len(f) \in Nat
      /\ DOMAIN f = 1..Len(f) /\ r \in Seq(MsgType)
      /\ \A i \in DOMAIN q : r[i] = q[i]
      /\ \A i \in DOMAIN r : i \in DOMAIN q \/ (i - Len(q) \in DOMAIN f /\ r[i] = f[i - Len(q)])
  BY <1>2
<1>4. \A i \in DOMAIN f : f[i].op = "request" /\ f[i].h = g[i] /\ f[i].type = "SUPL" /\ g[i] \in S
                          /\ i \in DOMAIN g
  BY <1>1
<1>5. \A i \in DOMAIN f, j \in DOMAIN f : f[i].h = f[j].h => i = j
  BY <1>1, <1>4
<1> HIDE DEF r
<1>6. Single(r)
  <2>1. ASSUME NEW i \in DOMAIN r, NEW j \in DOMAIN r, r[i].op = "request", r[j].op = "request",
               r[i].h = r[j].h
        PROVE  i = j
    <3>1. CASE i \in DOMAIN q /\ j \in DOMAIN q
      BY <1>3, <2>1, <3>1 DEF Single
    <3>2. CASE i \in DOMAIN q /\ j \notin DOMAIN q
      <4>1. r[j].h \in S /\ r[i] = q[i]
        BY <1>3, <1>4, <3>2
      <4>2. q[i].h \in Asking(q)
        BY <2>1, <3>2, <4>1 DEF Asking
      <4> QED BY <2>1, <4>1, <4>2
    <3>3. CASE i \notin DOMAIN q /\ j \in DOMAIN q
      <4>1. r[i].h \in S /\ r[j] = q[j]
        BY <1>3, <1>4, <3>3
      <4>2. q[j].h \in Asking(q)
        BY <2>1, <3>3, <4>1 DEF Asking
      <4> QED BY <2>1, <4>1, <4>2
    <3>4. CASE i \notin DOMAIN q /\ j \notin DOMAIN q
      <4>1. i - Len(q) = j - Len(q)
        BY <1>3, <1>5, <2>1, <3>4
      <4> QED BY <1>3, <4>1
    <3> QED BY <3>1, <3>2, <3>3, <3>4
  <2>2. ASSUME NEW i \in DOMAIN r, r[i].op = "request", r[i].type = "SUPL_ES", scene.emergency
        PROVE  r[i].h \in EmergencyUsers(scene)
    BY <1>3, <1>4, <2>2 DEF Single
  <2> QED BY <2>1, <2>2 DEF Single
<1>7. Asking(r) \subseteq Asking(q) \cup S
  BY <1>3, <1>4 DEF Asking
<1>8. Leaving(r) \subseteq Leaving(q)
  BY <1>3, <1>4 DEF Leaving
<1>9. \A i \in DOMAIN f, m \in Nifs : ~IsReport(f[i], m)
  BY <1>4 DEF IsReport, Reports
<1> QED BY <1>3, <1>6, <1>7, <1>8, <1>9 DEF r

-----------------------------------------------------------------------------
(* The invariant about the handles. *)

\* Only the emergency state machine keeps subscribers while it is RELEASED.
Leftover(m) == m = "ds" /\ nif[m].state = "RELEASED"

\* A state machine that is not resting serves h.
Listed(h) == \E m \in Nifs : h \in nif[m].subs /\ ~Leftover(m)

\* Who asks through the queue is served nowhere, and has no retry to come; who
\* leaves was answered.
QueueInv ==
    /\ Single(msgs)
    /\ \A h \in Asking(msgs) : /\ modem[h] = "opening" /\ ~Listed(h)
                               /\ nif["ds"].timers > 0 => h \notin nif["ds"].subs
    /\ \A h \in Leaving(msgs) : modem[h] # "opening"

\* Who is in a list of a state machine is in no other, and waits for its answer
\* while the connection is set up or wanted again; who is inactive has waited.
PlaceInv ==
    /\ \A m \in Nifs : \A h \in nif[m].subs :
          /\ m \in created
          /\ nif[m].state = "PENDING" => modem[h] = "opening"
          /\ nif[m].state = "RELEASING" /\ h \notin nif[m].inactive => modem[h] = "opening"
          /\ modem[h] = "idle" => Leftover(m)
          /\ ~Leftover(m) => \A k \in Nifs : h \in nif[k].subs => k = m \/ Leftover(k)
    /\ \A m \in Nifs : /\ nif[m].inactive \subseteq nif[m].waiting
                       /\ nif[m].state = "RELEASING" => nif[m].inactive # {}

\* The emergency state machine serves those who may ask it, all of whom wait for
\* the end; a retry is to come only for who is left in the list of a RELEASED one.
EmergencyInv ==
    /\ nif["ds"].subs \subseteq EmergencyUsers(scene) /\ nif["ds"].subs \subseteq nif["ds"].waiting
    /\ scene.calls \subseteq {"SUCCESS"} =>
          /\ nif["ds"].timers = 0
          /\ nif["ds"].state = "RELEASED" => nif["ds"].subs = {}
    /\ nif["ds"].timers > 0 =>
          /\ nif["ds"].timers = 1 /\ nif["ds"].state = "RELEASED" /\ nif["ds"].subs # {}
          /\ \A h \in nif["ds"].subs : modem[h] = "opening" /\ ~Listed(h)

\* The place of every handle.
CalmInv == QueueInv /\ PlaceInv /\ EmergencyInv

\* The stage of every connection.
ConnInv ==
    \A m \in Nifs : \E told \in Seq(Reports) :
        Tells(msgs, m, told) /\ Stage(m, nif[m].state, orders[m], link[m], told)

\* What a party learns.
LEMMA TellIs ==
    ASSUME IInv, NEW granted, NEW failed, NEW closed, Tell(granted, failed, closed), NEW h \in Handles
    PROVE  /\ h \in closed \cup failed => modem'[h] = "idle"
           /\ h \notin closed \cup failed =>
                modem'[h] = IF h \in granted /\ modem[h] = "opening" THEN "open" ELSE modem[h]
BY DEF Tell

\* What a handler does to the queue, once the message it takes is gone.
LEMMA PerformIs ==
    ASSUME IInv, NEW m \in Nifs, NEW o \in OutcomeType, Perform(m, o, Tail(msgs)), msgs # <<>>,
           Single(msgs), UNCHANGED scene, m = "ds" => o.denied \cap Asking(Tail(msgs)) = {}
    PROVE  /\ nif' = [nif EXCEPT ![m] = o.n]
           /\ \A k \in Nifs \ {m} : nif'[k] = nif[k]
           /\ nif'[m] = o.n
           /\ Tell(o.granted, IF m = "ds" THEN {} ELSE o.denied, o.closed)
           /\ Single(msgs')
           /\ Asking(msgs') \subseteq Asking(Tail(msgs)) \cup (IF m = "ds" THEN o.denied ELSE {})
           /\ Leaving(msgs') \subseteq Leaving(Tail(msgs))
<1>1. /\ nif' = [nif EXCEPT ![m] = o.n] /\ Tell(o.granted, IF m = "ds" THEN {} ELSE o.denied, o.closed)
  BY DEF Perform
<1>2. (\A k \in Nifs \ {m} : nif'[k] = nif[k]) /\ nif'[m] = o.n
  BY <1>1 DEF IInv, TypeOK
<1>3. Tail(msgs) \in Seq(MsgType) /\ Single(Tail(msgs))
  BY Heads, SingleTail DEF IInv, TypeOK
<1>4. CASE m # "ds"
  <2>1. msgs' = Tail(msgs)
    BY <1>4 DEF Perform
  <2>2. Single(msgs')
    BY <1>3, <2>1 DEF Single
  <2>3. Asking(msgs') = Asking(Tail(msgs)) /\ Leaving(msgs') = Leaving(Tail(msgs))
    BY <2>1
  <2> QED BY <1>1, <1>2, <1>4, <2>2, <2>3
<1>5. CASE m = "ds"
  <2>1. PICK q \in Fallbacks(o.denied) : msgs' = Tail(msgs) \o q
    BY <1>5 DEF Perform
  <2>2. o.denied \in SUBSET Handles
    BY DEF OutcomeType
  <2>3. /\ Single(Tail(msgs) \o q) /\ Asking(Tail(msgs) \o q) \subseteq Asking(Tail(msgs)) \cup o.denied
        /\ Leaving(Tail(msgs) \o q) \subseteq Leaving(Tail(msgs))
    BY <1>3, <1>5, <2>1, <2>2, SingleFallbacks
  <2>4. Single(msgs')
    BY <2>1, <2>3 DEF Single, EmergencyUsers
  <2> QED BY <1>1, <1>2, <1>5, <2>1, <2>3, <2>4
<1> QED BY <1>4, <1>5

\* What subscribing does.
Subscribes(m, n, h, wait, call, first, o) ==
    /\ o.n.subs = n.subs \cup {h} /\ o.n.inactive = n.inactive /\ o.closed = {}
    /\ n.waiting \subseteq o.n.waiting /\ (wait /\ h \notin n.subs => h \in o.n.waiting)
    /\ \/ /\ n.state = "RELEASED" /\ o.n.state = "PENDING" /\ o.ask = "request"
          /\ o.granted = {} /\ o.denied = {} /\ o.n.timers = n.timers
       \/ /\ n.state = "RELEASED" /\ m = "ds" /\ call # "SUCCESS" /\ o.n.state = "RELEASED"
          /\ o.ask = "none" /\ o.granted = {}
          /\ \/ o.denied = {} /\ o.n.timers = n.timers + 1
             \/ o.denied = {first} /\ o.n.timers = n.timers
       \/ /\ n.state = "ACQUIRED" /\ o.n.state = "ACQUIRED" /\ o.ask = "none"
          /\ o.granted = {h} /\ o.denied = {} /\ o.n.timers = n.timers
       \/ /\ n.state \in {"PENDING", "RELEASING"} /\ o.n.state = n.state /\ o.ask = "none"
          /\ o.granted = {} /\ o.denied = {} /\ o.n.timers = n.timers

\* processSubscribe does that.
LEMMA SubscribeIs ==
    ASSUME NEW m \in Nifs, NEW n \in NifType, NEW h \in Handles, NEW wait \in BOOLEAN,
           NEW call \in Calls, NEW first \in Handles
    PROVE  Subscribes(m, n, h, wait, call, first, processSubscribe(m, n, h, wait, call, first))
<1> DEFINE added == addSubscriber(n, h, wait)
           asked == requestDataConn(m, added, call, first, {})
           o == processSubscribe(m, n, h, wait, call, first)
<1>1. /\ added \in NifType /\ added.state = n.state /\ added.timers = n.timers
      /\ added.retries = n.retries
      /\ added.subs = n.subs \cup {h} /\ added.inactive = n.inactive
      /\ n.waiting \subseteq added.waiting /\ (wait /\ h \notin n.subs => h \in added.waiting)
  BY ListTypes DEF addSubscriber, NifType
<1> HIDE DEF added
<1>2. /\ asked \in OutcomeType /\ asked.granted = {} /\ asked.closed = {}
      /\ asked.n.state = added.state /\ asked.n.subs = added.subs /\ asked.n.inactive = added.inactive
      /\ asked.n.waiting = added.waiting
      /\ \/ asked.ask = "request" /\ asked.denied = {} /\ asked.n.timers = added.timers
         \/ /\ asked.ask = "none" /\ m = "ds" /\ call # "SUCCESS"
            /\ \/ asked.denied = {} /\ asked.n.timers = added.timers + 1
               \/ asked.denied = {first} /\ asked.n.timers = added.timers
  <2>1. /\ asked \in OutcomeType /\ asked.n.state = added.state /\ asked.n.subs = added.subs
        /\ asked.n.waiting = added.waiting /\ asked.n.inactive = added.inactive
    BY <1>1, Requests
  <2>2. CASE m # "ds"
    BY <2>1, <2>2 DEF requestDataConn, Outcome
  <2>3. CASE m = "ds" /\ call = "SUCCESS"
    BY <2>1, <2>3 DEF requestDataConn, StartDataCall, Outcome
  <2>4. CASE m = "ds" /\ call = "BUSY" /\ added.retries < MAX_START_DATA_CALL_RETRIES
    <3> DEFINE later == [added EXCEPT !.retries = @ + 1, !.timers = @ + 1]
    <3>1. asked = Outcome(later, "none", {}, {}, {})
      BY <2>4 DEF requestDataConn, StartDataCall
    <3>2. later.timers = added.timers + 1
      BY <1>1 DEF NifType
    <3> HIDE DEF later
    <3> QED BY <2>1, <2>4, <3>1, <3>2 DEF Outcome
  <2>5. CASE m = "ds" /\ call # "SUCCESS"
               /\ ~(call = "BUSY" /\ added.retries < MAX_START_DATA_CALL_RETRIES)
    <3> DEFINE over == [added EXCEPT !.retries = 0]
    <3>1. asked = Outcome(over, "none", {}, {first}, {})
      BY <2>5 DEF requestDataConn, StartDataCall
    <3>2. over.timers = added.timers
      BY <1>1 DEF NifType
    <3> HIDE DEF over
    <3> QED BY <2>1, <2>5, <3>1, <3>2 DEF Outcome
  <2> QED BY <2>2, <2>3, <2>4, <2>5
<1>3. CASE n.state = "RELEASED" /\ asked.ask = "request"
  <2>1. o = [asked EXCEPT !.n.state = "PENDING"]
    BY <1>3 DEF processSubscribe, added
  <2> HIDE DEF o, asked
  <2>2. /\ o.n = [asked.n EXCEPT !.state = "PENDING"] /\ o.ask = asked.ask /\ o.granted = asked.granted
        /\ o.denied = asked.denied /\ o.closed = asked.closed
    BY <1>2, <2>1 DEF OutcomeType
  <2>3. /\ o.n.state = "PENDING" /\ o.n.subs = asked.n.subs /\ o.n.inactive = asked.n.inactive
        /\ o.n.waiting = asked.n.waiting /\ o.n.timers = asked.n.timers
    BY <1>2, <2>2 DEF OutcomeType, NifType
  <2> QED BY <1>1, <1>2, <1>3, <2>2, <2>3 DEF Subscribes, o
<1>4. CASE n.state = "RELEASED" /\ asked.ask # "request"
  <2>1. o = asked
    BY <1>4 DEF processSubscribe, added
  <2> QED BY <1>1, <1>2, <1>4, <2>1 DEF Subscribes
<1>5. CASE n.state = "ACQUIRED"
  <2>1. o = Outcome(added, "none", {h}, {}, {})
    BY <1>5 DEF processSubscribe, added
  <2> QED BY <1>1, <1>5, <2>1 DEF Outcome, Subscribes
<1>6. CASE n.state \in {"PENDING", "RELEASING"}
  <2>1. o = Quiet(added)
    BY <1>6 DEF processSubscribe, added
  <2> QED BY <1>1, <1>6, <2>1 DEF Outcome, Quiet, Subscribes
<1> QED BY <1>3, <1>4, <1>5, <1>6 DEF NifType, States

-----------------------------------------------------------------------------
(* Every handler keeps the handles in their place. *)

\* The states the lemmas start from.
Calm == Orderly /\ IInv /\ CalmInv /\ ~scene.hasty

\* What the types say of one state machine.
LEMMA Types0 ==
    ASSUME IInv, NEW m \in Nifs
    PROVE  /\ nif[m] \in NifType /\ nif[m].state \in States /\ nif[m].subs \subseteq Handles
           /\ nif[m].inactive \subseteq nif[m].subs /\ nif[m].waiting \subseteq nif[m].subs
           /\ nif[m].timers \in Nat /\ ListAgrees(nif[m], m)
           /\ "ds" \in Nifs /\ scene \in Scenes /\ scene.calls \subseteq Calls
           /\ msgs \in Seq(MsgType)
BY ScenesAssumption DEF IInv, TypeOK, SubscribersAgree, ListAgrees, NifType, Nifs, SceneType

\* Who still waits for the emergency connection is alone, or every call succeeds.
LEMMA Alone ==
    ASSUME Calm
    PROVE  \/ scene.calls \subseteq {"SUCCESS"}
           \/ \A g, h \in EmergencyUsers(scene) : g = h
BY DEF Calm, Orderly, IInv, TypeOK

\* Taking a message adds nothing to the queue.
LEMMA Taken ==
    ASSUME Calm, msgs # <<>>
    PROVE  /\ Single(Tail(msgs)) /\ Asking(Tail(msgs)) \subseteq Asking(msgs)
           /\ Leaving(Tail(msgs)) \subseteq Leaving(msgs)
           /\ Asking(msgs) \subseteq Handles /\ Leaving(msgs) \subseteq Handles
<1>1. Single(msgs) /\ msgs \in Seq(MsgType)
  BY DEF Calm, CalmInv, QueueInv, IInv, TypeOK
<1> QED BY <1>1, SingleTail DEF Asking, Leaving

\* The modem is told that the connection of a handle is over that no state machine serves.
LEMMA ForgetCalm ==
    ASSUME Calm, msgs # <<>>, UNCHANGED <<scene, nif>>, created \subseteq created', msgs' = Tail(msgs),
           NEW h \in Handles, h \notin Asking(Tail(msgs)),
           \A k \in Nifs : h \in nif[k].subs => Leftover(k),
           nif["ds"].timers > 0 => h \notin nif["ds"].subs,
           modem'[h] = "idle", \A g \in Handles \ {h} : modem'[g] = modem[g]
    PROVE  CalmInv'
<1>1. IInv /\ CalmInv
  BY DEF Calm
<1>2. Asking(msgs) \subseteq Handles /\ Leaving(msgs) \subseteq Handles
      /\ Asking(msgs') \subseteq Asking(msgs) /\ Leaving(msgs') \subseteq Leaving(msgs) /\ Single(msgs')
  BY Taken
<1>3. Single(msgs)'
  BY <1>2 DEF Single, EmergencyUsers
<1>4. \A g : Listed(g)' <=> Listed(g)
  BY DEF Listed, Leftover
<1>5. QueueInv'
  <2>1. ASSUME NEW g \in Asking(msgs')
        PROVE  /\ modem'[g] = "opening" /\ ~Listed(g)'
               /\ nif'["ds"].timers > 0 => g \notin nif'["ds"].subs
    <3>1. g \in Asking(msgs) /\ g \in Handles \ {h}
      BY <1>2, <2>1
    <3> QED BY <1>1, <1>4, <3>1 DEF CalmInv, QueueInv
  <2>2. ASSUME NEW g \in Leaving(msgs') PROVE modem'[g] # "opening"
    <3>1. g \in Leaving(msgs) /\ g \in Handles
      BY <1>2, <2>2
    <3> QED BY <1>1, <3>1 DEF CalmInv, QueueInv
  <2> QED BY <1>3, <2>1, <2>2 DEF QueueInv
<1>6. \A k \in Nifs : nif[k].subs \subseteq Handles /\ (Leftover(k) => nif[k].state = "RELEASED")
                      /\ (Leftover(k)' <=> Leftover(k))
  BY <1>1, Types0 DEF Leftover
<1>7. PlaceInv'
  BY <1>1, <1>6 DEF CalmInv, PlaceInv
<1>8. EmergencyInv'
  <2>1. EmergencyUsers(scene)' = EmergencyUsers(scene) /\ "ds" \in Nifs
    BY DEF EmergencyUsers, Nifs
  <2>2. \A g \in nif["ds"].subs : nif["ds"].timers > 0 => modem'[g] = modem[g]
    BY <1>6, <2>1
  <2> QED BY <1>1, <1>4, <2>1, <2>2 DEF CalmInv, EmergencyInv
<1> QED BY <1>5, <1>7, <1>8 DEF CalmInv

\* A request is told that it failed, or gets its place in one list.
LEMMA RequestCalm == ASSUME Calm, requestATL PROVE CalmInv'
<1>0. PICK h, m : h = Head(msgs).h /\ m = MachineOf(Head(msgs).type)
  OBVIOUS
<1>1. /\ msgs # <<>> /\ Head(msgs).op = "request" /\ UNCHANGED <<scene, link>> /\ IInv /\ CalmInv
      /\ created \subseteq created'
  BY DEF requestATL, Event, Calm, Creates
<1>2. /\ h \in Handles /\ Head(msgs).type \in Types /\ m \in Nifs
  BY <1>0, <1>1, Heads DEF MachineOf, Nifs
<1>3. /\ Single(Tail(msgs)) /\ Asking(Tail(msgs)) \subseteq Asking(msgs)
      /\ Leaving(Tail(msgs)) \subseteq Leaving(msgs)
      /\ h \in Asking(msgs) /\ h \notin Asking(Tail(msgs))
      /\ Head(msgs).type = "SUPL_ES" /\ scene.emergency => h \in EmergencyUsers(scene)
  BY <1>0, <1>1, SingleTail DEF IInv, TypeOK, CalmInv, QueueInv
<1>4. /\ modem[h] = "opening" /\ ~Listed(h)
      /\ nif["ds"].timers > 0 => h \notin nif["ds"].subs
  BY <1>1, <1>3 DEF CalmInv, QueueInv
<1>5. m = "ds" => h \in EmergencyUsers(scene)
  BY <1>0, <1>3 DEF MachineOf
<1>6. \A k \in Nifs : h \in nif[k].subs => Leftover(k)
  BY <1>4 DEF Listed
<1>7. m = "ds" => /\ nif["ds"].timers = 0
                  /\ nif["ds"].state = "RELEASED" => nif["ds"].subs \subseteq {h}
  <2> SUFFICES ASSUME m = "ds"
               PROVE  /\ nif["ds"].timers = 0
                      /\ nif["ds"].state = "RELEASED" => nif["ds"].subs \subseteq {h}
    OBVIOUS
  <2>1. EmergencyInv /\ nif["ds"].timers \in Nat
    BY <1>1, Types0 DEF CalmInv, Nifs
  <2>2. CASE scene.calls \subseteq {"SUCCESS"}
    BY <2>1, <2>2 DEF EmergencyInv
  <2>3. CASE \A g, k \in EmergencyUsers(scene) : g = k
    <3>1. nif["ds"].subs \subseteq {h}
      BY <1>5, <2>1, <2>3 DEF EmergencyInv
    <3>2. ~(nif["ds"].timers > 0)
      BY <1>4, <2>1, <3>1 DEF EmergencyInv
    <3> QED BY <2>1, <3>1, <3>2
  <2> QED BY <2>2, <2>3, Alone
<1>8. CASE Tell({}, {h}, {}) /\ msgs' = Tail(msgs) /\ UNCHANGED <<nif, orders>>
  <2>1. modem'[h] = "idle" /\ \A g \in Handles \ {h} : modem'[g] = modem[g]
    BY <1>1, <1>2, <1>8, TellIs
  <2> QED BY <1>1, <1>2, <1>3, <1>4, <1>6, <1>8, <2>1, ForgetCalm
<1>9. ASSUME m \in created', NEW call \in scene.calls,
             NEW first \in Active(addSubscriber(nif[m], h, FALSE)) \cup {h},
             Perform(m, processSubscribe(m, nif[m], h, Head(msgs).type = "SUPL_ES", call, first),
                     Tail(msgs))
      PROVE  CalmInv'
  <2> DEFINE n == nif[m]
             wait == Head(msgs).type = "SUPL_ES"
             o == processSubscribe(m, n, h, wait, call, first)
  <2>1. /\ n \in NifType /\ n.state \in States /\ n.subs \subseteq Handles /\ n.inactive \subseteq n.subs
        /\ n.timers \in Nat /\ call \in Calls /\ ListAgrees(n, m) /\ n.waiting \subseteq n.subs
    BY <1>1, <1>2, <1>9, Types0
  <2>2. first \in n.subs \cup {h}
    BY <2>1 DEF Active, addSubscriber, NifType
  <2>3. wait \in BOOLEAN /\ first \in Handles /\ (m = "ds" => wait)
    BY <1>0, <1>2, <2>1, <2>2 DEF MachineOf
  <2>4. o \in OutcomeType /\ Perform(m, o, Tail(msgs))
    BY <1>2, <1>9, <2>1, <2>3, SubscribeKeeps
  <2>0. Subscribes(m, n, h, wait, call, first, o)
    BY <1>2, <2>1, <2>3, SubscribeIs
  <2>5. /\ o.n.subs = n.subs \cup {h} /\ o.n.inactive = n.inactive /\ o.closed = {}
        /\ n.waiting \subseteq o.n.waiting /\ (wait /\ h \notin n.subs => h \in o.n.waiting)
    BY <2>0 DEF Subscribes
  <2>6. \/ /\ n.state = "RELEASED" /\ o.n.state = "PENDING" /\ o.ask = "request"
           /\ o.granted = {} /\ o.denied = {} /\ o.n.timers = n.timers
        \/ /\ n.state = "RELEASED" /\ m = "ds" /\ call # "SUCCESS" /\ o.n.state = "RELEASED"
           /\ o.ask = "none" /\ o.granted = {}
           /\ \/ o.denied = {} /\ o.n.timers = n.timers + 1
              \/ o.denied = {first} /\ o.n.timers = n.timers
        \/ /\ n.state = "ACQUIRED" /\ o.n.state = "ACQUIRED" /\ o.ask = "none"
           /\ o.granted = {h} /\ o.denied = {} /\ o.n.timers = n.timers
        \/ /\ n.state \in {"PENDING", "RELEASING"} /\ o.n.state = n.state /\ o.ask = "none"
           /\ o.granted = {} /\ o.denied = {} /\ o.n.timers = n.timers
    BY <2>0 DEF Subscribes
  <2>7. m = "ds" /\ n.state = "RELEASED" => n.subs \subseteq {h} /\ first = h /\ n.timers = 0
    BY <1>7, <2>2
  <2>8. m # "ds" /\ n.state = "RELEASED" => n.subs = {}
    BY <2>1 DEF ListAgrees
  <2>9. o.denied \subseteq {h} /\ (m # "ds" => o.denied = {})
    BY <2>6, <2>7
  <2> HIDE DEF o, wait
  <2>10. /\ \A k \in Nifs \ {m} : nif'[k] = nif[k]
         /\ nif'[m] = o.n
         /\ Tell(o.granted, {}, {})
         /\ Single(msgs')
         /\ Asking(msgs') \subseteq Asking(Tail(msgs)) \cup o.denied
         /\ Leaving(msgs') \subseteq Leaving(Tail(msgs))
    <3>1. Single(msgs) /\ (m = "ds" => o.denied \cap Asking(Tail(msgs)) = {})
      BY <1>1, <1>3, <2>9 DEF CalmInv, QueueInv
    <3>2. /\ \A k \in Nifs \ {m} : nif'[k] = nif[k]
          /\ nif'[m] = o.n
          /\ Tell(o.granted, IF m = "ds" THEN {} ELSE o.denied, o.closed)
          /\ Single(msgs')
          /\ Asking(msgs') \subseteq Asking(Tail(msgs)) \cup (IF m = "ds" THEN o.denied ELSE {})
          /\ Leaving(msgs') \subseteq Leaving(Tail(msgs))
      BY <1>1, <1>2, <2>4, <3>1, PerformIs
    <3>3. (IF m = "ds" THEN {} ELSE o.denied) = {} /\ o.closed = {}
      BY <2>5, <2>9
    <3> QED BY <3>2, <3>3
  <2>11. \A g \in Handles : modem'[g] = IF g \in o.granted /\ modem[g] = "opening" THEN "open" ELSE modem[g]
    BY <1>1, <2>10, TellIs
  <2>12. /\ \A g \in Handles \ {h} : modem'[g] = modem[g]
         /\ modem'[h] = IF n.state = "ACQUIRED" THEN "open" ELSE "opening"
    BY <1>2, <1>4, <2>6, <2>11 DEF States
  <2>13. \A k \in Nifs : nif[k].subs \subseteq Handles /\ (Leftover(k) => nif[k].state = "RELEASED")
    BY <1>1, Types0 DEF Leftover
  <2>14. \A k \in Nifs \ {m} : Leftover(k)' <=> Leftover(k)
    BY <2>10 DEF Leftover
  <2>15. ~Leftover(m)' => n.state # "RELEASED" \/ o.n.state = "PENDING"
    BY <1>2, <2>6, <2>10 DEF Leftover
  <2>16. /\ EmergencyUsers(scene)' = EmergencyUsers(scene) /\ "ds" \in Nifs
         /\ Asking(msgs) \subseteq Handles /\ Leaving(msgs) \subseteq Handles
    BY <1>1 DEF EmergencyUsers, Nifs, Asking, Leaving
  \* nobody else is listed anew
  <2>17. \A g \in Handles \ {h} : Listed(g)' => Listed(g)
    <3> SUFFICES ASSUME NEW g \in Handles \ {h}, NEW k \in Nifs, g \in nif'[k].subs, ~Leftover(k)'
                 PROVE  g \in nif[k].subs /\ ~Leftover(k)
      BY DEF Listed
    <3>1. CASE k # m
      BY <3>1, <2>10, <2>14
    <3>2. CASE k = m
      BY <3>2, <1>2, <2>5, <2>7, <2>8, <2>10, <2>13, <2>15
    <3> QED BY <3>1, <3>2
  <2>18. Listed(h)' => ~(m = "ds" /\ o.n.state = "RELEASED")
    <3> SUFFICES ASSUME m = "ds", o.n.state = "RELEASED", NEW k \in Nifs, h \in nif'[k].subs, ~Leftover(k)'
                 PROVE  FALSE
      BY DEF Listed
    <3> QED BY <1>6, <2>10, <2>14 DEF Leftover
  <2>19. QueueInv'
    <3>1. ASSUME NEW g \in Asking(msgs')
          PROVE  /\ modem'[g] = "opening" /\ ~Listed(g)'
                 /\ nif'["ds"].timers > 0 => g \notin nif'["ds"].subs
      <4>1. CASE g = h
        <5>1. h \in o.denied
          BY <1>3, <2>10, <3>1, <4>1
        <5>2. /\ n.state = "RELEASED" /\ m = "ds" /\ o.n.state = "RELEASED" /\ o.n.timers = n.timers
          BY <5>1, <2>6
        <5> QED BY <4>1, <5>2, <2>7, <2>10, <2>12, <2>18
      <4>2. CASE g # h
        <5>1. g \in Asking(msgs) /\ g \in Handles
          BY <1>3, <2>9, <2>10, <2>16, <3>1, <4>2
        <5>2. /\ modem[g] = "opening" /\ ~Listed(g)
              /\ nif["ds"].timers > 0 => g \notin nif["ds"].subs
          BY <1>1, <5>1 DEF CalmInv, QueueInv
        <5>3. modem'[g] = "opening" /\ ~Listed(g)'
          BY <4>2, <5>1, <5>2, <2>12, <2>17
        <5>4. nif'["ds"].timers > 0 => g \notin nif'["ds"].subs
          <6>1. CASE m = "ds"
            BY <6>1, <4>2, <1>7, <2>5, <2>6, <2>7, <2>10
          <6>2. CASE m # "ds"
            BY <6>2, <2>10, <2>16, <5>2
          <6> QED BY <6>1, <6>2
        <5> QED BY <5>3, <5>4
      <4> QED BY <4>1, <4>2
    <3>2. ASSUME NEW g \in Leaving(msgs') PROVE modem'[g] # "opening"
      <4>1. g \in Leaving(msgs) /\ g \in Handles /\ modem[g] # "opening"
        BY <1>1, <1>3, <2>10, <2>16, <3>2 DEF CalmInv, QueueInv
      <4> QED BY <4>1, <1>4, <2>12
    <3>3. Single(msgs)'
      BY <1>1, <2>10 DEF Single, EmergencyUsers
    <3> QED BY <3>1, <3>2, <3>3 DEF QueueInv
  <2>20. PlaceInv'
    <3>1. ASSUME NEW k \in Nifs, NEW g \in nif'[k].subs
          PROVE  /\ k \in created'
                 /\ nif'[k].state = "PENDING" => modem'[g] = "opening"
                 /\ nif'[k].state = "RELEASING" /\ g \notin nif'[k].inactive => modem'[g] = "opening"
                 /\ modem'[g] = "idle" => Leftover(k)'
      <4>1. CASE g = h
        <5>1. k # m => Leftover(k) /\ nif'[k] = nif[k]
          BY <1>6, <2>10, <3>1, <4>1
        <5>2. k = m => (nif'[k].state \in {"PENDING", "RELEASING"} => n.state # "ACQUIRED")
          BY <2>6, <2>10
        <5>3. modem'[h] # "idle"
          BY <2>12
        <5>4. k # m => k \in created'
          BY <1>1, <2>10, <3>1 DEF CalmInv, PlaceInv
        <5> QED BY <1>9, <4>1, <5>1, <5>2, <5>3, <5>4, <2>12, <2>13
      <4>2. CASE g # h
        <5>1. g \in nif[k].subs /\ g \in Handles
          BY <1>2, <2>5, <2>10, <2>13, <3>1, <4>2
        <5>2. /\ k \in created /\ (nif[k].state = "PENDING" => modem[g] = "opening")
              /\ nif[k].state = "RELEASING" /\ g \notin nif[k].inactive => modem[g] = "opening"
              /\ modem[g] = "idle" => Leftover(k)
          BY <1>1, <5>1 DEF CalmInv, PlaceInv
        <5>3. modem'[g] = modem[g]
          BY <4>2, <5>1, <2>12
        <5>4. k # m => nif'[k] = nif[k] /\ (Leftover(k)' <=> Leftover(k))
          BY <2>10, <2>14
        <5>5. k = m => /\ n.state # "RELEASED" /\ o.n.state = n.state /\ o.n.inactive = n.inactive
                       /\ nif'[k] = o.n
          BY <4>2, <5>1, <2>5, <2>6, <2>7, <2>8, <2>10
        <5>6. k = m => ~Leftover(k)
          BY <5>5, <2>13
        <5> QED BY <1>1, <5>2, <5>3, <5>4, <5>5, <5>6
      <4> QED BY <4>1, <4>2
    <3>2. ASSUME NEW k \in Nifs, NEW g \in nif'[k].subs, ~Leftover(k)', NEW j \in Nifs, g \in nif'[j].subs
          PROVE  j = k \/ Leftover(j)'
      <4>1. CASE g = h
        BY <4>1, <1>6, <2>10, <2>14, <3>2
      <4>2. CASE g # h
        <5>1. g \in nif[k].subs /\ g \in nif[j].subs /\ g \in Handles
          BY <1>2, <2>5, <2>10, <2>13, <3>2, <4>2
        <5>2. k = m => ~Leftover(k)
          BY <4>2, <5>1, <2>7, <2>8, <2>13
        <5>3. ~Leftover(k)
          BY <5>2, <2>14, <3>2
        <5>4. j = k \/ Leftover(j)
          BY <1>1, <5>1, <5>3 DEF CalmInv, PlaceInv
        <5>5. j = m => ~Leftover(j)
          BY <4>2, <5>1, <2>7, <2>8, <2>13
        <5> QED BY <5>4, <5>5, <2>14
      <4> QED BY <4>1, <4>2
    <3>3. ASSUME NEW k \in Nifs
          PROVE  /\ nif'[k].inactive \subseteq nif'[k].waiting
                 /\ nif'[k].state = "RELEASING" => nif'[k].inactive # {}
      <4>1. /\ nif[k].inactive \subseteq nif[k].waiting
            /\ nif[k].state = "RELEASING" => nif[k].inactive # {}
        BY <1>1 DEF CalmInv, PlaceInv
      <4>2. k = m => (o.n.state = "RELEASING" => n.state = "RELEASING")
        BY <2>6
      <4> QED BY <4>1, <4>2, <2>5, <2>10
    <3> QED BY <3>1, <3>2, <3>3 DEF PlaceInv
  <2>21. EmergencyInv'
    <3>1. EmergencyInv
      BY <1>1 DEF CalmInv
    <3>2. CASE m # "ds"
      <4>1. nif'["ds"] = nif["ds"]
        BY <3>2, <2>10, <2>16
      <4>2. ASSUME nif["ds"].timers > 0, NEW g \in nif["ds"].subs
            PROVE  modem'[g] = "opening" /\ ~Listed(g)'
        <5>1. g # h /\ g \in Handles
          BY <1>4, <4>2, <2>13, <2>16
        <5> QED BY <3>1, <4>2, <5>1, <2>12, <2>17 DEF EmergencyInv
      <4> QED BY <1>1, <3>1, <4>1, <4>2, <2>16 DEF EmergencyInv
    <3>3. CASE m = "ds"
      <4>1. nif'["ds"] = o.n
        BY <3>3, <2>10
      <4>2. o.n.subs \subseteq EmergencyUsers(scene) /\ o.n.subs \subseteq o.n.waiting
        BY <3>1, <3>3, <1>5, <2>3, <2>5 DEF EmergencyInv
      <4>3. scene.calls \subseteq {"SUCCESS"} => o.n.timers = 0 /\ o.n.state # "RELEASED"
        <5>1. ASSUME scene.calls \subseteq {"SUCCESS"} PROVE call = "SUCCESS" /\ n.timers = 0
          BY <1>9, <3>3, <1>7, <5>1
        <5> QED BY <5>1, <2>6
      <4>4. o.n.timers > 0 => /\ o.n.timers = 1 /\ o.n.state = "RELEASED" /\ n.state = "RELEASED"
                              /\ o.n.subs = {h}
        BY <3>3, <1>7, <2>5, <2>6, <2>7
      <4>5. o.n.timers > 0 => modem'[h] = "opening" /\ ~Listed(h)'
        BY <3>3, <4>4, <2>12, <2>18
      <4> QED BY <1>1, <4>1, <4>2, <4>3, <4>4, <4>5, <2>16 DEF EmergencyInv
    <3> QED BY <3>2, <3>3
  <2> QED BY <2>19, <2>20, <2>21 DEF CalmInv
<1> QED BY <1>0, <1>8, <1>9 DEF requestATL

\* A state machine serves its own subscribers: none comes, and who leaves is told or asks again.
LEMMA ServeCalm ==
    ASSUME Calm, msgs # <<>>, UNCHANGED <<scene, created>>, NEW m \in Nifs, NEW o \in OutcomeType,
           ~Leftover(m), Perform(m, o, Tail(msgs)),
           o.n.subs \subseteq nif[m].subs,
           o.granted \cup o.denied \cup o.closed \subseteq nif[m].subs,
           m = "ds" => /\ o.denied \cap (o.n.subs \cup o.granted \cup o.closed) = {}
                       /\ \A g \in o.denied : modem[g] = "opening"
                       /\ o.n.subs \subseteq o.n.waiting /\ o.n.timers = nif[m].timers
                       /\ o.n.state = "RELEASED" => o.n.subs = {},
           o.n.inactive \subseteq o.n.waiting,
           o.n.state = "RELEASING" => o.n.inactive # {},
           m # "ds" => o.denied \cap o.n.subs = {},
           o.closed \cap o.n.subs = {},
           o.granted # {} => o.n.state = "ACQUIRED",
           \A g \in o.n.subs : /\ o.n.state = "PENDING" => modem[g] = "opening"
                               /\ o.n.state = "RELEASING" /\ g \notin o.n.inactive => modem[g] = "opening"
    PROVE  CalmInv'
<1> DEFINE n == nif[m]
           failed == IF m = "ds" THEN {} ELSE o.denied
           back == IF m = "ds" THEN o.denied ELSE {}
<1>1. IInv /\ CalmInv
  BY DEF Calm
<1>2. /\ Single(msgs) /\ Asking(Tail(msgs)) \subseteq Asking(msgs)
      /\ Leaving(Tail(msgs)) \subseteq Leaving(msgs)
      /\ Asking(msgs) \subseteq Handles /\ Leaving(msgs) \subseteq Handles
  BY <1>1, Taken DEF CalmInv, QueueInv
<1>3. n.subs \subseteq Handles /\ n.subs \cap Asking(msgs) = {}
  BY <1>1, Types0 DEF CalmInv, QueueInv, Listed
<1>4. /\ \A k \in Nifs \ {m} : nif'[k] = nif[k]
      /\ nif'[m] = o.n
      /\ Tell(o.granted, failed, o.closed)
      /\ Single(msgs')
      /\ Asking(msgs') \subseteq Asking(Tail(msgs)) \cup back
      /\ Leaving(msgs') \subseteq Leaving(Tail(msgs))
  <2>1. m = "ds" => o.denied \cap Asking(Tail(msgs)) = {}
    BY <1>2, <1>3
  <2> QED BY <1>1, <1>2, <2>1, PerformIs
<1>5. ASSUME NEW g \in Handles
      PROVE  /\ g \notin n.subs => modem'[g] = modem[g]
             /\ modem'[g] = "opening" => modem[g] = "opening"
             /\ g \in o.n.subs => /\ modem'[g] = "idle" => modem[g] = "idle"
                                  /\ o.granted = {} => modem'[g] = modem[g]
             /\ g \in back => modem'[g] = modem[g]
  <2>1. /\ g \in o.closed \cup failed => modem'[g] = "idle"
        /\ g \notin o.closed \cup failed =>
             modem'[g] = IF g \in o.granted /\ modem[g] = "opening" THEN "open" ELSE modem[g]
    BY <1>1, <1>4, TellIs
  <2>2. failed \cap o.n.subs = {} /\ back \cap (o.closed \cup failed \cup o.granted) = {}
    OBVIOUS
  <2> HIDE DEF failed, back
  <2>3. failed \subseteq n.subs
    BY DEF failed
  <2> QED BY <2>1, <2>2, <2>3
<1> HIDE DEF failed
<1>6. \A k \in Nifs \ {m} : Leftover(k)' <=> Leftover(k)
  BY <1>4 DEF Leftover
<1>7. \A g : Listed(g)' => Listed(g)
  <2> SUFFICES ASSUME NEW g, NEW k \in Nifs, g \in nif'[k].subs, ~Leftover(k)'
               PROVE  g \in nif[k].subs /\ ~Leftover(k)
    BY DEF Listed
  <2> QED BY <1>4, <1>6
<1>8. /\ EmergencyUsers(scene)' = EmergencyUsers(scene) /\ "ds" \in Nifs
      /\ nif["ds"].timers \in Nat
  BY <1>1, Types0 DEF EmergencyUsers, Nifs
<1>9. m = "ds" => nif["ds"].timers = 0 /\ nif'["ds"].timers = 0
  BY <1>1, <1>4, <1>8 DEF CalmInv, EmergencyInv, Leftover
<1>10. QueueInv'
  <2>1. ASSUME NEW g \in Asking(msgs')
        PROVE  /\ modem'[g] = "opening" /\ ~Listed(g)'
               /\ nif'["ds"].timers > 0 => g \notin nif'["ds"].subs
    <3>1. CASE g \in Asking(Tail(msgs))
      <4>1. g \in Asking(msgs) /\ g \in Handles /\ g \notin n.subs
        BY <1>2, <1>3, <3>1
      <4>2. modem'[g] = "opening" /\ ~Listed(g)'
        BY <1>1, <1>5, <1>7, <4>1 DEF CalmInv, QueueInv
      <4>3. nif'["ds"].timers > 0 => g \notin nif'["ds"].subs
        <5>1. CASE m = "ds"
          BY <5>1, <1>9
        <5>2. CASE m # "ds"
          BY <5>2, <1>1, <1>4, <1>8, <4>1 DEF CalmInv, QueueInv
        <5> QED BY <5>1, <5>2
      <4> QED BY <4>2, <4>3
    <3>2. CASE g \in back
      <4>1. m = "ds" /\ g \in o.denied /\ g \in n.subs /\ g \in Handles
        BY <1>3, <3>2
      <4>2. modem'[g] = "opening"
        BY <1>5, <3>2, <4>1
      <4>3. ~Listed(g)'
        <5> SUFFICES ASSUME NEW k \in Nifs, g \in nif'[k].subs, ~Leftover(k)' PROVE FALSE
          BY DEF Listed
        <5>1. k # m
          BY <1>4, <4>1
        <5>2. g \in nif[k].subs /\ ~Leftover(k)
          BY <1>4, <1>6, <5>1
        <5> QED BY <1>1, <4>1, <5>1, <5>2 DEF CalmInv, PlaceInv
      <4> QED BY <1>9, <4>1, <4>2, <4>3
    <3> QED BY <1>4, <2>1, <3>1, <3>2
  <2>2. ASSUME NEW g \in Leaving(msgs') PROVE modem'[g] # "opening"
    <3>1. g \in Leaving(msgs) /\ g \in Handles
      BY <1>2, <1>4, <2>2
    <3> QED BY <1>1, <1>5, <3>1 DEF CalmInv, QueueInv
  <2>3. Single(msgs)'
    BY <1>4 DEF Single, EmergencyUsers
  <2> QED BY <2>1, <2>2, <2>3 DEF QueueInv
<1>11. PlaceInv'
  <2>1. ASSUME NEW k \in Nifs, NEW g \in nif'[k].subs
        PROVE  /\ k \in created'
               /\ nif'[k].state = "PENDING" => modem'[g] = "opening"
               /\ nif'[k].state = "RELEASING" /\ g \notin nif'[k].inactive => modem'[g] = "opening"
               /\ modem'[g] = "idle" => Leftover(k)'
               /\ ~Leftover(k)' => \A j \in Nifs : g \in nif'[j].subs => j = k \/ Leftover(j)'
    <3>1. g \in nif[k].subs /\ g \in Handles
      BY <1>1, <1>3, <1>4, Types0
    <3>2. /\ k \in created
          /\ nif[k].state = "PENDING" => modem[g] = "opening"
          /\ nif[k].state = "RELEASING" /\ g \notin nif[k].inactive => modem[g] = "opening"
          /\ modem[g] = "idle" => Leftover(k)
          /\ ~Leftover(k) => \A j \in Nifs : g \in nif[j].subs => j = k \/ Leftover(j)
      BY <1>1, <3>1 DEF CalmInv, PlaceInv
    <3>3. CASE k = m
      <4>1. /\ nif'[k] = o.n /\ g \in o.n.subs
        BY <1>4, <2>1, <3>3
      <4>2. modem'[g] # "idle"
        BY <1>5, <3>1, <3>2, <3>3, <4>1
      <4>3. \A j \in Nifs \ {m} : g \in nif'[j].subs => Leftover(j)'
        BY <1>4, <1>6, <3>2, <3>3
      <4>4. o.n.state \in {"PENDING", "RELEASING"} => modem'[g] = modem[g]
        BY <1>5, <3>1, <4>1
      <4> QED BY <3>2, <3>3, <4>1, <4>2, <4>3, <4>4
    <3>4. CASE k # m
      <4>1. nif'[k] = nif[k] /\ (Leftover(k)' <=> Leftover(k))
        BY <1>4, <1>6, <3>4
      <4>2. CASE Leftover(k)
        BY <3>2, <4>1, <4>2 DEF Leftover
      <4>3. CASE ~Leftover(k)
        <5>1. g \notin n.subs
          BY <3>2, <3>4, <4>3
        <5>2. modem'[g] = modem[g] /\ g \notin nif'[m].subs
          BY <1>4, <1>5, <3>1, <5>1
        <5>3. \A j \in Nifs : g \in nif'[j].subs => j = k \/ Leftover(j)'
          BY <1>4, <1>6, <3>2, <4>3, <5>2
        <5> QED BY <3>2, <4>1, <5>2, <5>3
      <4> QED BY <4>2, <4>3
    <3> QED BY <3>3, <3>4
  <2>2. ASSUME NEW k \in Nifs
        PROVE  /\ nif'[k].inactive \subseteq nif'[k].waiting
               /\ nif'[k].state = "RELEASING" => nif'[k].inactive # {}
    <3>1. /\ nif[k].inactive \subseteq nif[k].waiting
          /\ nif[k].state = "RELEASING" => nif[k].inactive # {}
      BY <1>1 DEF CalmInv, PlaceInv
    <3> QED BY <1>4, <3>1
  <2> QED BY <2>1, <2>2 DEF PlaceInv
<1>12. EmergencyInv'
  <2>1. EmergencyInv
    BY <1>1 DEF CalmInv
  <2>2. CASE m = "ds"
    <3>1. nif'["ds"] = o.n /\ o.n.timers = 0 /\ o.n.subs \subseteq EmergencyUsers(scene)
      BY <1>4, <1>9, <2>1, <2>2 DEF EmergencyInv
    <3> QED BY <1>8, <2>2, <3>1 DEF EmergencyInv
  <2>3. CASE m # "ds"
    <3>1. nif'["ds"] = nif["ds"]
      BY <1>4, <1>8, <2>3
    <3>2. ASSUME nif["ds"].timers > 0, NEW g \in nif["ds"].subs
          PROVE  modem'[g] = "opening" /\ ~Listed(g)'
      <4>1. modem[g] = "opening" /\ ~Listed(g) /\ g \in Handles
        BY <1>1, <1>8, <2>1, <3>2, Types0 DEF EmergencyInv
      <4>2. g \notin n.subs
        BY <4>1 DEF Listed
      <4> QED BY <1>5, <1>7, <4>1, <4>2
    <3> QED BY <1>8, <2>1, <3>1, <3>2 DEF EmergencyInv
  <2> QED BY <2>2, <2>3
<1> QED BY <1>10, <1>11, <1>12 DEF CalmInv

\* A handle leaves its list, or stays until the end is reported.
LEMMA ReleaseCalm == ASSUME Calm, releaseATL PROVE CalmInv'
<1>0. PICK h : h = Head(msgs).h
  OBVIOUS
<1>1. /\ msgs # <<>> /\ Head(msgs).op = "release" /\ UNCHANGED <<scene, link, created>>
      /\ IInv /\ CalmInv
  BY DEF releaseATL, Event, Calm
<1>2. h \in Handles /\ h \in Leaving(msgs)
  BY <1>0, <1>1, Heads, SingleTail DEF CalmInv, QueueInv, IInv, TypeOK
<1>3. modem[h] # "opening" /\ h \notin Asking(msgs) /\ h \notin Asking(Tail(msgs))
  BY <1>1, <1>2, Taken DEF CalmInv, QueueInv
<1>4. nif["ds"].timers > 0 => h \notin nif["ds"].subs
  BY <1>1, <1>3 DEF CalmInv, EmergencyInv
<1> DEFINE Has(m) == m \in created /\ h \in nif[m].subs
<1>5. PICK m : m = IF Has("agnss") THEN "agnss" ELSE IF Has("internet") THEN "internet" ELSE "ds"
  OBVIOUS
<1>6. m \in Nifs /\ \A k \in Nifs : h \in nif[k].subs => k \in created
  BY <1>1, <1>5 DEF Nifs, CalmInv, PlaceInv
<1>7. CASE ~Has(m)
  <2>1. Tell({}, {}, {h}) /\ msgs' = Tail(msgs) /\ UNCHANGED <<nif, orders>>
    BY <1>0, <1>5, <1>7 DEF releaseATL
  <2>2. \A k \in Nifs : h \notin nif[k].subs
    BY <1>5, <1>6, <1>7 DEF Nifs
  <2>3. modem'[h] = "idle" /\ \A g \in Handles \ {h} : modem'[g] = modem[g]
    BY <1>1, <1>2, <2>1, TellIs
  <2> QED BY <1>1, <1>2, <1>3, <1>4, <2>1, <2>2, <2>3, ForgetCalm
<1>8. CASE Has(m)
  <2> DEFINE n == nif[m]
             o == processUnsubscribe(n, h)
  <2>1. /\ n \in NifType /\ n.state \in States /\ n.inactive \subseteq n.subs /\ n.waiting \subseteq n.subs
        /\ ListAgrees(n, m) /\ h \in n.subs
    BY <1>1, <1>6, <1>8, Types0
  <2>2. Perform(m, o, Tail(msgs)) /\ o \in OutcomeType
    <3>1. Perform(m, o, Tail(msgs))
      BY <1>0, <1>5, <1>8 DEF releaseATL
    <3> QED BY <1>2, <1>6, <2>1, <3>1, UnsubscribeKeeps
  <2>3. n.state # "PENDING" /\ (n.state = "RELEASING" => h \in n.inactive)
    BY <1>1, <1>3, <1>6, <2>1 DEF CalmInv, PlaceInv
  <2>4. n.inactive \subseteq n.waiting /\ (n.state = "RELEASING" => n.inactive # {})
        /\ (m = "ds" => n.subs \subseteq n.waiting)
    BY <1>1, <1>6 DEF CalmInv, PlaceInv, EmergencyInv
  <2>5. CASE n.state = "RELEASED"
    <3>1. m = "ds" /\ Leftover(m)
      BY <1>1, <1>6, <2>1, <2>5 DEF Leftover, ListAgrees
    <3>2. o = Outcome(n, "none", {}, {}, {h})
      BY <2>5 DEF processUnsubscribe
    <3>3. o.n = n /\ o.granted = {} /\ o.denied = {} /\ o.closed = {h} /\ o.ask = "none"
      BY <3>2 DEF Outcome
    <3> HIDE DEF o
    <3>4. nif' = nif /\ Tell({}, {}, {h})
      BY <1>1, <2>2, <3>1, <3>3 DEF Perform, IInv, TypeOK
    <3>5. modem'[h] = "idle" /\ \A g \in Handles \ {h} : modem'[g] = modem[g]
      BY <1>1, <1>2, <3>4, TellIs
    <3>6. msgs' = Tail(msgs)
      <4>1. PICK q \in Fallbacks({}) : msgs' = Tail(msgs) \o q
        BY <2>2, <3>1, <3>3 DEF Perform
      <4>2. q = <<>>
        <5>1. Cardinality({}) = 0
          BY FS_EmptySet
        <5> QED BY <5>1 DEF Fallbacks
      <4>3. Tail(msgs) \in Seq(MsgType)
        BY <1>1, Heads
      <4> QED BY <4>1, <4>2, <4>3
    <3>7. \A k \in Nifs : h \in nif[k].subs => Leftover(k)
      <4>1. h \notin nif["agnss"].subs /\ h \notin nif["internet"].subs
        BY <1>5, <1>6, <3>1 DEF Nifs
      <4> QED BY <3>1, <4>1 DEF Nifs
    <3> QED BY <1>1, <1>2, <1>3, <1>4, <3>4, <3>5, <3>6, <3>7, ForgetCalm
  <2>6. CASE n.state \in {"ACQUIRED", "RELEASING"}
    <3>1. ~Leftover(m) /\ n.timers \in Nat
      BY <2>1, <2>6 DEF Leftover, NifType
    <3> DEFINE waits == h \in n.waiting
               left == IF waits THEN [n EXCEPT !.inactive = @ \cup {h}] ELSE deleteSubscribers(n, {h})
               new == IF left.subs = {} THEN "RELEASED"
                      ELSE IF Active(left) = {} THEN "RELEASING" ELSE n.state
    <3>2. /\ left \in NifType /\ left.state = n.state /\ left.timers = n.timers
          /\ waits => left.subs = n.subs /\ left.waiting = n.waiting /\ left.inactive = n.inactive \cup {h}
          /\ ~waits => /\ left.subs = n.subs \ {h} /\ left.waiting = n.waiting \ {h}
                       /\ left.inactive = n.inactive \ {h}
      BY <2>1 DEF deleteSubscribers, NifType
    <3>3. o = Outcome([left EXCEPT !.state = new],
                      IF Active(left) = {} /\ n.state # "RELEASING" THEN "release" ELSE "none",
                      {}, {}, IF waits THEN {} ELSE {h})
      BY <2>6, <3>2 DEF processUnsubscribe
    <3> HIDE DEF left
    <3>4. /\ o.n = [left EXCEPT !.state = new] /\ o.granted = {} /\ o.denied = {}
          /\ o.closed = IF waits THEN {} ELSE {h}
      BY <3>3 DEF Outcome
    <3> HIDE DEF new, o
    <3>5. /\ o.n.state = new /\ o.n.subs = left.subs /\ o.n.waiting = left.waiting
          /\ o.n.inactive = left.inactive /\ o.n.timers = n.timers
      BY <3>2, <3>4 DEF NifType
    <3>6. o.n.subs \subseteq n.subs /\ o.closed \subseteq n.subs /\ o.closed \cap o.n.subs = {}
      BY <2>1, <3>2, <3>4, <3>5
    <3>7. o.n.inactive \subseteq o.n.waiting
      BY <2>4, <3>2, <3>5
    <3>8. o.n.state = "RELEASING" => o.n.inactive # {} /\ o.n.subs \subseteq o.n.inactive \cup (n.subs \ n.inactive)
      <4>1. CASE n.state = "RELEASING"
        BY <2>3, <2>4, <3>2, <3>5, <4>1
      <4>2. CASE n.state = "ACQUIRED"
        BY <3>2, <3>5, <4>2 DEF new, Active
      <4> QED BY <2>6, <4>1, <4>2
    <3>9. /\ o.n.state # "PENDING"
          /\ \A g \in o.n.subs : o.n.state = "RELEASING" /\ g \notin o.n.inactive => modem[g] = "opening"
      <4>1. o.n.state # "PENDING"
        BY <2>6, <3>5 DEF new
      <4>2. ASSUME NEW g \in o.n.subs, o.n.state = "RELEASING", g \notin o.n.inactive
            PROVE  modem[g] = "opening"
        <5>1. CASE n.state = "RELEASING"
          <6>1. g \in n.subs /\ g \notin n.inactive
            BY <2>3, <2>4, <3>2, <3>5, <4>2, <5>1
          <6> QED BY <1>1, <1>6, <5>1, <6>1 DEF CalmInv, PlaceInv
        <5>2. CASE n.state = "ACQUIRED"
          BY <3>2, <3>5, <4>2, <5>2 DEF new, Active
        <5> QED BY <2>6, <5>1, <5>2
      <4> QED BY <4>1, <4>2
    <3>10. m = "ds" => /\ o.n.subs \subseteq o.n.waiting
                       /\ o.n.state = "RELEASED" => o.n.subs = {}
      BY <2>1, <2>4, <2>6, <3>2, <3>5 DEF new
    <3> QED BY <1>1, <1>6, <2>2, <3>1, <3>4, <3>5, <3>6, <3>7, <3>8, <3>9, <3>10, ServeCalm
  <2> QED BY <2>1, <2>3, <2>5, <2>6 DEF States
<1> QED BY <1>7, <1>8

\* A report that the state machine does not wait for.
LEMMA QuietCalm ==
    ASSUME Calm, msgs # <<>>, UNCHANGED <<scene, created>>, NEW m \in Nifs,
           Perform(m, Quiet(nif[m]), Tail(msgs))
    PROVE  CalmInv' /\ nif' = nif /\ orders' = orders
<1> DEFINE o == Quiet(nif[m])
<1>1. IInv /\ CalmInv
  BY DEF Calm
<1>2. o.n = nif[m] /\ o.granted = {} /\ o.denied = {} /\ o.closed = {} /\ o.ask = "none"
  BY DEF Quiet, Outcome
<1>3. o \in OutcomeType
  BY <1>1, Types0 DEF Quiet, Outcome, OutcomeType
<1> HIDE DEF o
<1>4. Perform(m, o, Tail(msgs))
  BY DEF o
<1>5. Single(msgs)
  BY <1>1 DEF CalmInv, QueueInv
<1>6. /\ nif' = [nif EXCEPT ![m] = o.n] /\ Tell(o.granted, IF m = "ds" THEN {} ELSE o.denied, o.closed)
      /\ Single(msgs')
      /\ Asking(msgs') \subseteq Asking(Tail(msgs)) \cup (IF m = "ds" THEN o.denied ELSE {})
      /\ Leaving(msgs') \subseteq Leaving(Tail(msgs))
  BY <1>1, <1>2, <1>3, <1>4, <1>5, PerformIs
<1>7. nif' = nif /\ Tell({}, {}, {})
  BY <1>1, <1>2, <1>6 DEF IInv, TypeOK
<1>8. Asking(msgs') \subseteq Asking(msgs) /\ Leaving(msgs') \subseteq Leaving(msgs)
  BY <1>2, <1>6, Taken
<1>9. \A g \in Handles : modem'[g] = modem[g]
  BY <1>1, <1>7, TellIs
<1>10. Asking(msgs) \subseteq Handles /\ Leaving(msgs) \subseteq Handles /\ "ds" \in Nifs
       /\ EmergencyUsers(scene)' = EmergencyUsers(scene)
  BY DEF Asking, Leaving, Nifs, EmergencyUsers
<1>11. (\A g : Listed(g)' <=> Listed(g)) /\ (\A k \in Nifs : Leftover(k)' <=> Leftover(k))
  BY <1>7 DEF Listed, Leftover
<1>12. Single(msgs)'
  BY <1>6 DEF Single, EmergencyUsers
<1>13. QueueInv'
  BY <1>1, <1>7, <1>8, <1>9, <1>10, <1>11, <1>12 DEF CalmInv, QueueInv
<1>14. \A k \in Nifs : nif[k].subs \subseteq Handles
  BY <1>1, Types0
<1>15. PlaceInv'
  BY <1>1, <1>7, <1>9, <1>11, <1>14 DEF CalmInv, PlaceInv
<1>16. EmergencyInv'
  BY <1>1, <1>7, <1>9, <1>10, <1>11, <1>14 DEF CalmInv, EmergencyInv
<1>17. orders' = orders
  BY <1>2, <1>4 DEF Perform
<1> QED BY <1>7, <1>13, <1>15, <1>16, <1>17 DEF CalmInv

\* The first answer of a provider.
LEMMA GrantedCalm ==
    ASSUME Calm, msgs # <<>>, UNCHANGED <<scene, created>>, NEW m \in Nifs,
           Perform(m, processGranted(nif[m]), Tail(msgs))
    PROVE  CalmInv'
<1> DEFINE n == nif[m]
           o == processGranted(n)
<1>1. IInv /\ CalmInv
  BY DEF Calm
<1>2. CASE n.state # "PENDING"
  BY <1>2, QuietCalm DEF processGranted
<1>3. CASE n.state = "PENDING"
  <2>1. /\ n \in NifType /\ n.inactive \subseteq n.waiting /\ (m = "ds" => n.subs \subseteq n.waiting)
    BY <1>1, Types0 DEF CalmInv, PlaceInv, EmergencyInv
  <2>2. o = Outcome([n EXCEPT !.state = "ACQUIRED"], "none", Active(n), {}, {})
    BY <1>3 DEF processGranted
  <2>3. /\ o.n = [n EXCEPT !.state = "ACQUIRED"] /\ o.granted = Active(n) /\ o.denied = {}
        /\ o.closed = {} /\ o \in OutcomeType
    BY <2>1, <2>2, GrantedKeeps DEF Outcome
  <2>4. Perform(m, o, Tail(msgs))
    OBVIOUS
  <2> HIDE DEF o
  <2>5. /\ o.n.state = "ACQUIRED" /\ o.n.subs = n.subs /\ o.n.waiting = n.waiting
        /\ o.n.inactive = n.inactive /\ o.n.timers = n.timers
    BY <2>1, <2>3 DEF NifType
  <2>6. ~Leftover(m) /\ Active(n) \subseteq n.subs
    BY <1>3 DEF Leftover, Active
  <2> QED BY <2>1, <2>3, <2>4, <2>5, <2>6, ServeCalm
<1> QED BY <1>2, <1>3

\* The connection is gone or was not to be had, and nobody is left.
LEMMA EmptyCalm ==
    ASSUME Calm, msgs # <<>>, UNCHANGED <<scene, created>>, NEW m \in Nifs, NEW o \in OutcomeType,
           Perform(m, o, Tail(msgs)), nif[m].state # "RELEASED",
           o.n.subs = {} /\ o.n.waiting = {} /\ o.n.inactive = {} /\ o.n.timers = nif[m].timers,
           o.n.state = "RELEASED", o.granted = {}, o.denied \cup o.closed \subseteq nif[m].subs,
           o.denied # {} => o.closed = {} /\ nif[m].state = "PENDING"
    PROVE  CalmInv'
<1>1. ~Leftover(m)
  BY DEF Leftover
<1>2. \A g \in o.denied : modem[g] = "opening"
  BY DEF Calm, CalmInv, PlaceInv
<1> QED BY <1>1, <1>2, ServeCalm

\* The release is over: who waited is told, who came meanwhile asks.
LEMMA EndsCalm ==
    ASSUME Calm, msgs # <<>>, UNCHANGED <<scene, created>>, NEW m \in Nifs, NEW call \in scene.calls,
           NEW first \in Handles, nif[m].state = "RELEASING",
           Perform(m, ReleaseEnds(m, nif[m], call, first), Tail(msgs))
    PROVE  /\ CalmInv'
           /\ LET o == ReleaseEnds(m, nif[m], call, first)
              IN  \/ o.n.state = "RELEASED" /\ o.ask = "none"
                  \/ o.n.state = "PENDING" /\ o.ask = "request"
<1> DEFINE n == nif[m]
           o == ReleaseEnds(m, n, call, first)
           left == deleteSubscribers(n, n.inactive)
           wanted == [left EXCEPT !.state = "PENDING"]
<1>1. IInv /\ CalmInv /\ Perform(m, o, Tail(msgs))
  BY DEF Calm
<1>2. /\ n \in NifType /\ n.inactive \subseteq n.waiting /\ n.inactive # {} /\ call \in Calls
      /\ n.inactive \subseteq n.subs /\ n.subs \subseteq Handles
      /\ m = "ds" => n.subs \subseteq n.waiting /\ n.subs \subseteq EmergencyUsers(scene)
      /\ o \in OutcomeType /\ n.timers \in Nat
  <2>1. n \in NifType /\ n.inactive \subseteq n.subs /\ n.subs \subseteq Handles /\ call \in Calls /\ n.timers \in Nat
    BY <1>1, Types0
  <2>2. o \in OutcomeType
    BY <2>1, ReleaseEndsKeeps
  <2> HIDE DEF o
  <2> QED BY <1>1, <2>1, <2>2 DEF CalmInv, PlaceInv, EmergencyInv
<1>3. /\ left \in NifType /\ left.subs = n.subs \ n.inactive /\ left.timers = n.timers
      /\ left.waiting = n.waiting \ n.inactive /\ left.inactive = {}
  BY <1>2 DEF deleteSubscribers, NifType
<1>4. CASE Active(n) = {}
  <2>1. o = Outcome([left EXCEPT !.state = "RELEASED"], "none", {}, {}, n.inactive)
    BY <1>4 DEF ReleaseEnds
  <2> HIDE DEF left
  <2>2. /\ o.n = [left EXCEPT !.state = "RELEASED"] /\ o.ask = "none" /\ o.granted = {} /\ o.denied = {}
        /\ o.closed = n.inactive
    BY <2>1 DEF Outcome
  <2> HIDE DEF o
  <2>3. /\ o.n.state = "RELEASED" /\ o.n.subs = {} /\ o.n.inactive = {}
        /\ o.n.waiting = n.waiting \ n.inactive /\ o.n.timers = n.timers
    BY <1>3, <1>4, <2>2 DEF NifType, Active
  <2>4. o.n.waiting = {}
    BY <1>1, <1>2, <1>4, <2>3, Types0 DEF Active
  <2>5. CalmInv'
    BY <1>1, <1>2, <2>2, <2>3, <2>4, EmptyCalm
  <2> QED BY <2>2, <2>3, <2>5 DEF o
<1>5. CASE Active(n) # {}
  <2>1. m # "ds" \/ call = "SUCCESS"
    <3>1. CASE scene.calls \subseteq {"SUCCESS"}
      BY <3>1
    <3>2. CASE \A g, k \in EmergencyUsers(scene) : g = k
      BY <1>2, <1>5, <3>2 DEF Active
    <3> QED BY <3>1, <3>2, Alone
  <2> HIDE DEF left
  <2>2. /\ wanted \in NifType /\ wanted.state = "PENDING" /\ wanted.subs = left.subs
        /\ wanted.waiting = left.waiting /\ wanted.inactive = {} /\ wanted.timers = n.timers
    BY <1>3 DEF NifType, States
  <2> HIDE DEF wanted
  <2>3. o = requestDataConn(m, wanted, call, first, n.inactive)
    BY <1>5 DEF ReleaseEnds, wanted, left
  <2>4. o = Outcome(wanted, "request", {}, {}, n.inactive)
    BY <2>1, <2>3 DEF requestDataConn, StartDataCall
  <2> HIDE DEF o
  <2>5. /\ o.n = wanted /\ o.ask = "request" /\ o.granted = {} /\ o.denied = {} /\ o.closed = n.inactive
    BY <2>4 DEF Outcome
  <2>6. ~Leftover(m)
    BY DEF Leftover
  <2>7. \A g \in o.n.subs : modem[g] = "opening"
    BY <1>1, <1>3, <2>2, <2>5 DEF CalmInv, PlaceInv
  <2>8. /\ o.n.subs \subseteq n.subs /\ o.closed \subseteq n.subs /\ o.closed \cap o.n.subs = {}
        /\ o.n.inactive \subseteq o.n.waiting
        /\ m = "ds" => o.n.subs \subseteq o.n.waiting
    BY <1>2, <1>3, <2>2, <2>5
  <2>9. CalmInv'
    BY <1>1, <1>2, <2>2, <2>5, <2>6, <2>7, <2>8, ServeCalm
  <2> QED BY <2>2, <2>5, <2>9 DEF o
<1> QED BY <1>4, <1>5

\* What DENIED leaves while the connection is set up: everybody is told or asks elsewhere.
LEMMA DeniedIs ==
    ASSUME NEW m \in Nifs, NEW n \in NifType, NEW call, NEW first, n.state = "PENDING",
           n.waiting \subseteq n.subs, n.inactive \subseteq n.subs
    PROVE  LET o == processDenied(m, n, call, first)
           IN  /\ o.n.state = "RELEASED" /\ o.n.subs = {} /\ o.n.waiting = {} /\ o.n.inactive = {}
               /\ o.n.timers = n.timers /\ o.ask = "none" /\ o.granted = {} /\ o.denied = n.subs
               /\ o.closed = {}
<1> DEFINE del == deleteSubscribers(n, n.subs)
           left == [del EXCEPT !.state = "RELEASED", !.retries = IF m = "ds" THEN 0 ELSE @]
<1>1. processDenied(m, n, call, first) = Outcome(left, "none", {}, n.subs, {})
  BY DEF processDenied
<1>2. /\ del \in NifType /\ del.timers = n.timers
      /\ del.subs = {} /\ del.waiting = {} /\ del.inactive = {}
  <2>1. del = [n EXCEPT !.subs = n.subs \ n.subs, !.waiting = n.waiting \ n.subs,
                        !.inactive = n.inactive \ n.subs]
    BY DEF deleteSubscribers, NifType
  <2>2. n.subs \ n.subs = {} /\ n.waiting \ n.subs = {} /\ n.inactive \ n.subs = {}
    OBVIOUS
  <2> HIDE DEF del
  <2> QED BY <2>1, <2>2 DEF NifType
<1> HIDE DEF del
<1>3. /\ left.state = "RELEASED" /\ left.subs = {} /\ left.waiting = {} /\ left.inactive = {}
      /\ left.timers = n.timers
  BY <1>2 DEF NifType
<1> HIDE DEF left
<1> QED BY <1>1, <1>3 DEF Outcome

\* DENIED: everybody is told or asks again.
LEMMA DeniedCalm ==
    ASSUME Calm, msgs # <<>>, UNCHANGED <<scene, created>>, NEW m \in Nifs, NEW call \in scene.calls,
           NEW first \in Handles, Perform(m, processDenied(m, nif[m], call, first), Tail(msgs))
    PROVE  CalmInv'
<1>1. IInv /\ CalmInv /\ nif[m] \in NifType /\ call \in Calls /\ nif[m].waiting \subseteq nif[m].subs
      /\ nif[m].inactive \subseteq nif[m].subs
  BY Types0 DEF Calm
<1>2. CASE nif[m].state = "PENDING"
  <2> DEFINE o == processDenied(m, nif[m], call, first)
  <2>1. o \in OutcomeType
    BY <1>1, DeniedKeeps
  <2>2. /\ o.n.state = "RELEASED" /\ o.n.subs = {} /\ o.n.waiting = {} /\ o.n.inactive = {}
        /\ o.n.timers = nif[m].timers /\ o.granted = {} /\ o.denied = nif[m].subs /\ o.closed = {}
    BY <1>1, <1>2, DeniedIs
  <2>3. Perform(m, o, Tail(msgs))
    OBVIOUS
  <2> HIDE DEF o
  <2> QED BY <1>2, <2>1, <2>2, <2>3, EmptyCalm
<1>3. CASE nif[m].state = "RELEASING"
  BY <1>3, EndsCalm DEF processDenied
<1>4. CASE nif[m].state \notin {"PENDING", "RELEASING"}
  BY <1>4, QuietCalm DEF processDenied
<1> QED BY <1>2, <1>3, <1>4

\* What RELEASED leaves of a connection that was open.
LEMMA LostIs ==
    ASSUME NEW m \in Nifs, NEW n \in NifType, NEW call, NEW first, n.state = "ACQUIRED",
           n.waiting \subseteq n.subs, n.inactive \subseteq n.subs
    PROVE  LET o == processReleased(m, n, call, first)
           IN  /\ o.n.state = "RELEASED" /\ o.n.subs = {} /\ o.n.waiting = {} /\ o.n.inactive = {}
               /\ o.n.timers = n.timers /\ o.ask = "none" /\ o.granted = {} /\ o.denied = {}
               /\ o.closed = n.subs
<1> DEFINE del == deleteSubscribers(n, n.subs)
           left == [del EXCEPT !.state = "RELEASED"]
<1>1. processReleased(m, n, call, first) = Outcome(left, "none", {}, {}, n.subs)
  BY DEF processReleased
<1>2. /\ del \in NifType /\ del.timers = n.timers
      /\ del.subs = {} /\ del.waiting = {} /\ del.inactive = {}
  <2>1. del = [n EXCEPT !.subs = n.subs \ n.subs, !.waiting = n.waiting \ n.subs,
                        !.inactive = n.inactive \ n.subs]
    BY DEF deleteSubscribers, NifType
  <2>2. n.subs \ n.subs = {} /\ n.waiting \ n.subs = {} /\ n.inactive \ n.subs = {}
    OBVIOUS
  <2> HIDE DEF del
  <2> QED BY <2>1, <2>2 DEF NifType
<1> HIDE DEF del
<1>3. /\ left.state = "RELEASED" /\ left.subs = {} /\ left.waiting = {} /\ left.inactive = {}
      /\ left.timers = n.timers
  BY <1>2 DEF NifType
<1> HIDE DEF left
<1> QED BY <1>1, <1>3 DEF Outcome

\* RELEASED, whatever the state machine was doing.
LEMMA ReleasedCalm ==
    ASSUME Calm, msgs # <<>>, UNCHANGED <<scene, created>>, NEW m \in Nifs, NEW call \in scene.calls,
           NEW first \in Handles, Perform(m, processReleased(m, nif[m], call, first), Tail(msgs))
    PROVE  CalmInv'
<1>1. IInv /\ CalmInv /\ nif[m] \in NifType /\ call \in Calls /\ nif[m].waiting \subseteq nif[m].subs
      /\ nif[m].inactive \subseteq nif[m].subs
  BY Types0 DEF Calm
<1>2. CASE nif[m].state = "ACQUIRED"
  <2> DEFINE o == processReleased(m, nif[m], call, first)
  <2>1. o \in OutcomeType
    BY <1>1, ReleasedKeeps
  <2>2. /\ o.n.state = "RELEASED" /\ o.n.subs = {} /\ o.n.waiting = {} /\ o.n.inactive = {}
        /\ o.n.timers = nif[m].timers /\ o.granted = {} /\ o.denied = {} /\ o.closed = nif[m].subs
    BY <1>1, <1>2, LostIs
  <2>3. Perform(m, o, Tail(msgs))
    OBVIOUS
  <2> HIDE DEF o
  <2> QED BY <1>2, <2>1, <2>2, <2>3, EmptyCalm
<1>3. CASE nif[m].state = "RELEASING"
  BY <1>3, EndsCalm DEF processReleased
<1>4. CASE nif[m].state = "PENDING" /\ m = "ds"
  BY <1>4, DeniedCalm DEF processReleased
<1>5. CASE nif[m].state \notin {"ACQUIRED", "RELEASING"} /\ ~(nif[m].state = "PENDING" /\ m = "ds")
  BY <1>5, QuietCalm DEF processReleased
<1> QED BY <1>2, <1>3, <1>4, <1>5

\* All reports.
LEMMA ReportCalm ==
    ASSUME Calm, reportOpened \/ reportAtlOpenFailed \/ reportClosed
    PROVE  CalmInv'
<1>0. PICK m : m = Head(msgs).m
  OBVIOUS
<1>1. /\ msgs # <<>> /\ Head(msgs).op \in {"opened", "failed", "closed"}
      /\ UNCHANGED <<scene, link, created>> /\ IInv
  BY DEF reportOpened, reportAtlOpenFailed, reportClosed, Event, Calm
<1>2. m \in Nifs
  BY <1>0, <1>1, Heads
<1>3. CASE reportOpened
  BY <1>0, <1>1, <1>2, <1>3, GrantedCalm DEF reportOpened
<1>4. CASE reportAtlOpenFailed
  BY <1>0, <1>1, <1>2, <1>4, DeniedCalm DEF reportAtlOpenFailed
<1>5. CASE reportClosed
  BY <1>0, <1>1, <1>2, <1>5, ReleasedCalm DEF reportClosed
<1> QED BY <1>3, <1>4, <1>5

\* A message that no state machine has answered is appended.
LEMMA SendCalm ==
    ASSUME Calm, UNCHANGED <<scene, created, nif, modem>>, NEW x \in MsgType,
           x.op \in Reports \cup {"init"}, msgs' = Append(msgs, x)
    PROVE  CalmInv'
<1>1. IInv /\ CalmInv /\ Single(msgs) /\ msgs \in Seq(MsgType)
  BY DEF Calm, CalmInv, QueueInv, IInv, TypeOK
<1>2. Single(msgs') /\ Asking(msgs') = Asking(msgs) /\ Leaving(msgs') = Leaving(msgs)
  BY <1>1, SingleAppend DEF Reports
<1>3. Single(msgs)'
  BY <1>2 DEF Single, EmergencyUsers
<1>4. (\A g : Listed(g)' <=> Listed(g)) /\ (\A k \in Nifs : Leftover(k)' <=> Leftover(k))
      /\ EmergencyUsers(scene)' = EmergencyUsers(scene)
  BY DEF Listed, Leftover, EmergencyUsers
<1>5. QueueInv'
  BY <1>1, <1>2, <1>3, <1>4 DEF CalmInv, QueueInv
<1>6. PlaceInv' /\ EmergencyInv'
  BY <1>1, <1>4 DEF CalmInv, PlaceInv, EmergencyInv
<1> QED BY <1>5, <1>6 DEF CalmInv

\* A provider tells, and touches no list.
LEMMA ProviderCalm ==
    ASSUME Calm, NEW m \in Nifs, Provider(m) \/ Loses(m)
    PROVE  CalmInv'
<1>1. UNCHANGED <<scene, created, nif, modem>>
  BY DEF Provider, Connects, Refuses, Disconnects, Provides, Loses
<1>2. \/ UNCHANGED msgs
      \/ \E op \in Reports : msgs' = Append(msgs, [op |-> op, m |-> m])
  BY DEF Provider, Connects, Refuses, Disconnects, Provides, Loses, Reports
<1>3. CASE UNCHANGED msgs
  <2>1. (\A g : Listed(g)' <=> Listed(g)) /\ (\A k \in Nifs : Leftover(k)' <=> Leftover(k))
        /\ EmergencyUsers(scene)' = EmergencyUsers(scene) /\ (Single(msgs)' <=> Single(msgs))
    BY <1>1, <1>3 DEF Listed, Leftover, EmergencyUsers, Single
  <2> QED BY <1>1, <1>3, <2>1 DEF Calm, CalmInv, QueueInv, PlaceInv, EmergencyInv
<1>4. ASSUME NEW op \in Reports, msgs' = Append(msgs, [op |-> op, m |-> m])
      PROVE  CalmInv'
  <2>1. [op |-> op, m |-> m] \in MsgType
    BY DEF MsgType, Reports
  <2> QED BY <1>1, <1>4, <2>1, SendCalm
<1> QED BY <1>2, <1>3, <1>4

\* Creating state machines touches no list.
LEMMA InitCalm == ASSUME Calm, InitAgps PROVE CalmInv'
<1>1. /\ msgs # <<>> /\ UNCHANGED <<scene, nif, modem>> /\ msgs' = Tail(msgs) /\ created \subseteq created'
  BY DEF InitAgps, Event, Creates
<1>2. CalmInv /\ Single(msgs') /\ Asking(msgs') \subseteq Asking(msgs) /\ Leaving(msgs') \subseteq Leaving(msgs)
  BY <1>1, Taken DEF Calm
<1>3. (\A g : Listed(g)' <=> Listed(g)) /\ (\A k \in Nifs : Leftover(k)' <=> Leftover(k))
      /\ EmergencyUsers(scene)' = EmergencyUsers(scene) /\ Single(msgs)'
  BY <1>1, <1>2 DEF Listed, Leftover, EmergencyUsers, Single
<1>4. QueueInv'
  BY <1>1, <1>2, <1>3 DEF CalmInv, QueueInv
<1> QED BY <1>1, <1>2, <1>3, <1>4 DEF CalmInv, PlaceInv, EmergencyInv

\* The modem asks when nothing is left of its handle, and leaves when it was
\* answered.
LEMMA ModemCalm ==
    ASSUME Calm, NEW h \in Handles, ModemRequests(h) \/ ModemReleases(h)
    PROVE  CalmInv'
<1>1. /\ IInv /\ CalmInv /\ Single(msgs) /\ msgs \in Seq(MsgType) /\ UNCHANGED <<scene, created, nif>>
      /\ modem \in [Handles -> {"idle", "opening", "open", "closing"}] /\ scene \in SceneType
      /\ ~scene.hasty
  BY ScenesAssumption DEF Calm, CalmInv, QueueInv, IInv, TypeOK, ModemRequests, ModemReleases
<1>2. (\A g : Listed(g)' <=> Listed(g)) /\ (\A k \in Nifs : Leftover(k)' <=> Leftover(k))
      /\ EmergencyUsers(scene)' = EmergencyUsers(scene)
  BY <1>1 DEF Listed, Leftover, EmergencyUsers
<1>3. Asking(msgs) \subseteq Handles /\ Leaving(msgs) \subseteq Handles /\ "ds" \in Nifs
      /\ \A k \in Nifs : nif[k].subs \subseteq Handles
  BY <1>1, Types0 DEF Asking, Leaving, Nifs
<1>4. CASE ModemRequests(h)
  <2>1. PICK type \in scene.wants[h] : msgs' = Append(msgs, [op |-> "request", h |-> h, type |-> type])
    BY <1>4 DEF ModemRequests
  <2> DEFINE x == [op |-> "request", h |-> h, type |-> type]
  <2>2. x \in MsgType /\ type \in Types
    BY <1>1, <2>1 DEF SceneType, MsgType
  <2>3. type = "SUPL_ES" /\ scene.emergency => h \in EmergencyUsers(scene)
    BY DEF EmergencyUsers
  <2>4. h \notin Asking(msgs) /\ h \notin Leaving(msgs) /\ modem[h] = "idle"
    BY <1>4 DEF ModemRequests, Asking, Leaving
  <2>5. /\ Single(msgs') /\ Asking(msgs') = Asking(msgs) \cup {h} /\ Leaving(msgs') = Leaving(msgs)
    BY <1>1, <2>1, <2>2, <2>3, <2>4, SingleAppend
  <2>6. modem'[h] = "opening" /\ \A g \in Handles \ {h} : modem'[g] = modem[g]
    BY <1>1, <1>4 DEF ModemRequests
  <2>7. \A k \in Nifs : h \in nif[k].subs => Leftover(k)
    BY <1>1, <2>4 DEF CalmInv, PlaceInv
  <2>8. ~Listed(h) /\ (nif["ds"].timers > 0 => h \notin nif["ds"].subs)
    BY <1>1, <2>4, <2>7 DEF Listed, CalmInv, EmergencyInv
  <2>9. Single(msgs)'
    BY <1>1, <2>5 DEF Single, EmergencyUsers
  <2>10. QueueInv'
    BY <1>1, <1>2, <1>3, <2>4, <2>5, <2>6, <2>8, <2>9 DEF CalmInv, QueueInv
  <2>11. PlaceInv'
    BY <1>1, <1>2, <1>3, <2>6, <2>7 DEF CalmInv, PlaceInv
  <2>12. EmergencyInv'
    BY <1>1, <1>2, <1>3, <2>6 DEF CalmInv, EmergencyInv
  <2> QED BY <2>10, <2>11, <2>12 DEF CalmInv
<1>5. CASE ModemReleases(h)
  <2> DEFINE x == [op |-> "release", h |-> h]
  <2>1. x \in MsgType /\ msgs' = Append(msgs, x)
    BY <1>5 DEF ModemReleases, MsgType
  <2>2. /\ Single(msgs') /\ Asking(msgs') = Asking(msgs) /\ Leaving(msgs') = Leaving(msgs) \cup {h}
    BY <1>1, <2>1, SingleAppend
  <2>3. /\ modem[h] = "open" /\ modem'[h] = "closing"
        /\ \A g \in Handles \ {h} : modem'[g] = modem[g]
    BY <1>1, <1>5 DEF ModemReleases
  <2>4. Single(msgs)'
    BY <1>1, <2>2 DEF Single, EmergencyUsers
  <2>5. QueueInv'
    BY <1>1, <1>2, <1>3, <2>2, <2>3, <2>4 DEF CalmInv, QueueInv
  <2>6. PlaceInv'
    BY <1>1, <1>2, <1>3, <2>3 DEF CalmInv, PlaceInv
  <2>7. EmergencyInv'
    BY <1>1, <1>2, <1>3, <2>3 DEF CalmInv, EmergencyInv
  <2> QED BY <2>5, <2>6, <2>7 DEF CalmInv
<1> QED BY <1>4, <1>5

\* The timer asks again for who is alone in the list.
LEMMA RetryCalm == ASSUME Calm, retryCallback PROVE CalmInv'
<1> DEFINE d == nif["ds"]
<1>1. /\ IInv /\ CalmInv /\ Single(msgs) /\ msgs \in Seq(MsgType) /\ UNCHANGED <<scene, created, modem>>
      /\ "ds" \in Nifs /\ d \in NifType /\ d.inactive \subseteq d.subs /\ d.subs \subseteq Handles
      /\ ListAgrees(d, "ds")
  BY Types0 DEF Calm, CalmInv, QueueInv, IInv, TypeOK, retryCallback, Nifs
<1>2. /\ d.timers > 0 /\ d.timers = 1 /\ d.state = "RELEASED" /\ d.subs # {}
      /\ \A h \in d.subs : modem[h] = "opening" /\ ~Listed(h)
      /\ d.subs \subseteq EmergencyUsers(scene) /\ ~(scene.calls \subseteq {"SUCCESS"})
  BY <1>1 DEF retryCallback, CalmInv, EmergencyInv
<1>3. Active(d) = d.subs
  BY <1>1, <1>2 DEF Active, ListAgrees
<1>4. PICK h \in d.subs : msgs' = Append(msgs, [op |-> "request", h |-> h, type |-> "SUPL_ES"])
  BY <1>2, <1>3 DEF retryCallback
<1>5. /\ \A k \in Nifs \ {"ds"} : nif'[k] = nif[k]
      /\ nif'["ds"].state = d.state /\ nif'["ds"].subs = d.subs /\ nif'["ds"].waiting = d.waiting
      /\ nif'["ds"].inactive = d.inactive /\ nif'["ds"].timers = 0
  <2> DEFINE new == [d EXCEPT !.timers = @ - 1]
  <2>1. nif' = [nif EXCEPT !["ds"] = new]
    BY DEF retryCallback
  <2>2. /\ new.state = d.state /\ new.subs = d.subs /\ new.waiting = d.waiting
        /\ new.inactive = d.inactive /\ new.timers = 0
    BY <1>1, <1>2 DEF NifType
  <2> HIDE DEF new
  <2> QED BY <1>1, <2>1, <2>2 DEF IInv, TypeOK
<1>6. (\A g : Listed(g)' <=> Listed(g)) /\ (\A k \in Nifs : Leftover(k)' <=> Leftover(k))
      /\ EmergencyUsers(scene)' = EmergencyUsers(scene)
  <2>1. \A k \in Nifs : Leftover(k)' <=> Leftover(k)
    BY <1>5 DEF Leftover
  <2>2. \A k \in Nifs : nif'[k].subs = nif[k].subs
    BY <1>5
  <2> QED BY <1>1, <2>1, <2>2 DEF Listed, EmergencyUsers
<1>7. h \notin Asking(msgs) /\ h \in EmergencyUsers(scene) /\ h \in Handles
  BY <1>1, <1>2 DEF CalmInv, QueueInv
<1>8. /\ Single(msgs') /\ Asking(msgs') = Asking(msgs) \cup {h} /\ Leaving(msgs') = Leaving(msgs)
  <2> DEFINE x == [op |-> "request", h |-> h, type |-> "SUPL_ES"]
  <2>1. x \in MsgType
    BY <1>7 DEF MsgType, Types
  <2> QED BY <1>1, <1>4, <1>7, <2>1, SingleAppend
<1>9. Single(msgs)'
  BY <1>1, <1>8 DEF Single, EmergencyUsers
<1>10. QueueInv'
  <2>1. ASSUME NEW g \in Asking(msgs')
        PROVE  /\ modem'[g] = "opening" /\ ~Listed(g)'
               /\ nif'["ds"].timers > 0 => g \notin nif'["ds"].subs
    BY <1>1, <1>2, <1>5, <1>6, <1>8, <2>1 DEF CalmInv, QueueInv
  <2>2. \A g \in Leaving(msgs') : modem'[g] # "opening"
    BY <1>1, <1>8 DEF CalmInv, QueueInv
  <2> QED BY <1>9, <2>1, <2>2 DEF QueueInv
<1>11. \A k \in Nifs : /\ nif'[k].state = nif[k].state /\ nif'[k].subs = nif[k].subs
                       /\ nif'[k].inactive = nif[k].inactive /\ nif'[k].waiting = nif[k].waiting
  BY <1>5
<1>12. PlaceInv'
  BY <1>1, <1>6, <1>11 DEF CalmInv, PlaceInv
<1>13. EmergencyInv'
  BY <1>1, <1>2, <1>5, <1>6 DEF CalmInv, EmergencyInv
<1> QED BY <1>10, <1>12, <1>13 DEF CalmInv

-----------------------------------------------------------------------------
(* Every step keeps the connections in their stage. *)

\* How the connection of m stands: what its reports in the queue q will say fits its stage.
Conn(m, state, asked, conn, q) ==
    \E told \in Seq(Reports) : Tells(q, m, told) /\ Stage(m, state, asked, conn, told)

\* What the invariants say of one connection.
LEMMA ConnTypes ==
    ASSUME IInv, ConnInv, NEW k \in Nifs
    PROVE  /\ Conn(k, nif[k].state, orders[k], link[k], msgs)
           /\ nif[k].state \in States /\ orders[k] \in Seq(Orders) /\ link[k] \in {"open", "closed"}
           /\ msgs \in Seq(MsgType)
BY Types0 DEF ConnInv, Conn, IInv, TypeOK, Orders

\* A message about something else is taken.
LEMMA ConnTail ==
    ASSUME IInv, msgs # <<>>, NEW k \in Nifs, NEW state, NEW asked, NEW conn,
           Conn(k, state, asked, conn, msgs), ~IsReport(Head(msgs), k)
    PROVE  Conn(k, state, asked, conn, Tail(msgs))
BY TellsOther DEF Conn, IInv, TypeOK

\* A message about something else is queued.
LEMMA ConnAppend ==
    ASSUME NEW q \in Seq(MsgType), NEW x \in MsgType, NEW k \in Nifs, NEW state, NEW asked, NEW conn,
           Conn(k, state, asked, conn, q), ~IsReport(x, k)
    PROVE  Conn(k, state, asked, conn, Append(q, x))
<1>1. <<x>> \in Seq(MsgType) /\ (\A i \in DOMAIN <<x>> : ~IsReport(<<x>>[i], k))
  OBVIOUS
<1>2. Append(q, x) = q \o <<x>>
  OBVIOUS
<1> QED BY <1>1, <1>2, TellsMore DEF Conn

\* The report at the head of the queue is taken.
LEMMA ConnReport ==
    ASSUME IInv, msgs # <<>>, NEW m \in Nifs, NEW state, NEW asked, NEW conn,
           Conn(m, state, asked, conn, msgs), IsReport(Head(msgs), m)
    PROVE  \E told \in Seq(Reports) :
              /\ told # <<>> /\ Head(told) = Head(msgs).op /\ Stage(m, state, asked, conn, told)
              /\ Tail(told) \in Seq(Reports) /\ Tells(Tail(msgs), m, Tail(told))
BY TellsNext DEF Conn, IInv, TypeOK

\* Fallbacks are requests.
LEMMA FallbackReports ==
    ASSUME NEW S \in SUBSET Handles, NEW f \in Fallbacks(S), NEW k
    PROVE  \A i \in DOMAIN f : ~IsReport(f[i], k)
<1>1. PICK g : f = [i \in 1..Cardinality(S) |-> [op |-> "request", h |-> g[i], type |-> "SUPL"]]
  BY DEF Fallbacks
<1>2. \A i \in DOMAIN f : f[i].op = "request"
  BY <1>1
<1> QED BY <1>2 DEF IsReport, Reports

\* A handler keeps every connection in step with its state machine.
LEMMA ConnPerform ==
    ASSUME IInv, ConnInv, msgs # <<>>, UNCHANGED <<scene, link>>, NEW m \in Nifs, NEW o \in OutcomeType,
           Perform(m, o, Tail(msgs)), \A k \in Nifs \ {m} : ~IsReport(Head(msgs), k),
           Conn(m, o.n.state, IF o.ask = "none" THEN orders[m] ELSE Append(orders[m], o.ask),
                link[m], Tail(msgs))
    PROVE  ConnInv'
<1>1. /\ nif' = [nif EXCEPT ![m] = o.n]
      /\ orders' = IF o.ask = "none" THEN orders ELSE [orders EXCEPT ![m] = Append(@, o.ask)]
  BY DEF Perform
<1>2. /\ nif'[m] = o.n /\ orders'[m] = IF o.ask = "none" THEN orders[m] ELSE Append(orders[m], o.ask)
      /\ \A k \in Nifs \ {m} : nif'[k] = nif[k] /\ orders'[k] = orders[k]
  BY <1>1 DEF IInv, TypeOK
<1>3. \A k \in Nifs : Conn(k, nif'[k].state, orders'[k], link'[k], Tail(msgs))
  BY <1>2, ConnTypes, ConnTail
<1>4. ASSUME NEW k \in Nifs PROVE Conn(k, nif'[k].state, orders'[k], link'[k], msgs')
  <2>1. CASE m # "ds"
    BY <1>3, <2>1 DEF Perform
  <2>2. CASE m = "ds"
    <3>1. PICK q \in Fallbacks(o.denied) : msgs' = Tail(msgs) \o q
      BY <2>2 DEF Perform
    <3>2. q \in Seq(MsgType) /\ (\A i \in DOMAIN q : ~IsReport(q[i], k)) /\ Tail(msgs) \in Seq(MsgType)
      BY <3>1, FallbackTypes, FallbackReports, Heads DEF OutcomeType
    <3> QED BY <1>3, <3>1, <3>2, TellsMore DEF Conn
  <2> QED BY <2>1, <2>2
<1> QED BY <1>4 DEF ConnInv, Conn

\* A step that touches no state machine, no order and no connection.
LEMMA ConnQuiet ==
    ASSUME IInv, ConnInv, UNCHANGED <<orders, link>>, \A k \in Nifs : nif'[k].state = nif[k].state,
           \/ UNCHANGED msgs
           \/ msgs # <<>> /\ msgs' = Tail(msgs) /\ \A k \in Nifs : ~IsReport(Head(msgs), k)
           \/ \E x \in MsgType : msgs' = Append(msgs, x) /\ \A k \in Nifs : ~IsReport(x, k)
    PROVE  ConnInv'
<1>1. ASSUME NEW k \in Nifs PROVE Conn(k, nif[k].state, orders[k], link[k], msgs')
  BY ConnTypes, ConnTail, ConnAppend
<1> QED BY <1>1 DEF ConnInv, Conn

\* A state machine that asks again, or that stops asking.
LEMMA ConnAsk ==
    ASSUME NEW m \in Nifs, NEW asked, NEW conn, NEW q, NEW told \in Seq(Reports), Tells(q, m, told),
           Rested(m, asked, conn, told)
    PROVE  /\ Conn(m, "RELEASED", asked, conn, q)
           /\ Conn(m, "PENDING", Append(asked, "request"), conn, q)
<1>1. Requested(m, Append(asked, "request"), conn, told)
  BY StageAsk
<1> QED BY <1>1 DEF Conn, Stage

\* A state machine that gives its connection back.
LEMMA ConnRelease ==
    ASSUME NEW m \in Nifs, NEW asked, NEW conn, NEW q, Conn(m, "ACQUIRED", asked, conn, q)
    PROVE  /\ Conn(m, "RELEASING", Append(asked, "release"), conn, q)
           /\ m # "ds" => Conn(m, "RELEASED", Append(asked, "release"), conn, q)
<1>1. PICK told \in Seq(Reports) : Tells(q, m, told) /\ Opened(asked, conn, told)
  BY DEF Conn, Stage
<1>2. /\ Ending(Append(asked, "release"), conn, told)
      /\ m # "ds" => Rested(m, Append(asked, "release"), conn, told)
  BY <1>1, StageRelease
<1> QED BY <1>1, <1>2 DEF Conn, Stage

\* A request asks for a connection only when the state machine rests.
LEMMA RequestConn == ASSUME Calm, ConnInv, requestATL PROVE ConnInv'
<1>0. PICK h, m : h = Head(msgs).h /\ m = MachineOf(Head(msgs).type)
  OBVIOUS
<1>1. /\ msgs # <<>> /\ Head(msgs).op = "request" /\ UNCHANGED <<scene, link>> /\ IInv
      /\ \A k \in Nifs : ~IsReport(Head(msgs), k)
  BY DEF requestATL, Event, Calm, IsReport, Reports
<1>2. h \in Handles /\ m \in Nifs
  BY <1>0, <1>1, Heads DEF MachineOf, Nifs
<1>3. CASE msgs' = Tail(msgs) /\ UNCHANGED <<nif, orders>>
  BY <1>1, <1>3, ConnQuiet
<1>4. ASSUME NEW call \in scene.calls, NEW first \in Active(addSubscriber(nif[m], h, FALSE)) \cup {h},
             NEW wait \in BOOLEAN, Perform(m, processSubscribe(m, nif[m], h, wait, call, first), Tail(msgs))
      PROVE  ConnInv'
  <2> DEFINE o == processSubscribe(m, nif[m], h, wait, call, first)
  <2>1. nif[m] \in NifType /\ call \in Calls
    BY <1>1, <1>2, Types0
  <2>2. first \in Handles
    BY <1>2, <2>1, ListTypes DEF Active, NifType
  <2>3. o \in OutcomeType /\ Subscribes(m, nif[m], h, wait, call, first, o)
    BY <1>2, <2>1, <2>2, SubscribeKeeps, SubscribeIs
  <2>4. Perform(m, o, Tail(msgs))
    BY <1>4
  <2> HIDE DEF o
  <2>5. Conn(m, nif[m].state, orders[m], link[m], Tail(msgs))
    BY <1>1, <1>2, ConnTypes, ConnTail
  <2>6. CASE nif[m].state = "RELEASED" /\ o.n.state = "PENDING" /\ o.ask = "request"
    <3>1. Conn(m, "PENDING", Append(orders[m], "request"), link[m], Tail(msgs))
      BY <1>2, <2>5, <2>6, ConnAsk DEF Conn, Stage
    <3> QED BY <1>1, <1>2, <2>3, <2>4, <2>6, <3>1, ConnPerform
  <2>7. CASE o.n.state = nif[m].state /\ o.ask = "none"
    BY <1>1, <1>2, <2>3, <2>4, <2>5, <2>7, ConnPerform
  <2> QED BY <2>3, <2>6, <2>7 DEF Subscribes
<1> QED BY <1>0, <1>3, <1>4 DEF requestATL

\* What unsubscribing does to the state, and when it gives an order.
LEMMA UnsubscribeIs ==
    ASSUME NEW n \in NifType, NEW h \in Handles, h \in n.subs
    PROVE  LET o == processUnsubscribe(n, h)
           IN  \/ o.n.state = n.state /\ o.ask = "none"
               \/ o.n.state = "RELEASED" /\ h \notin n.waiting
                    /\ n.state \in {"PENDING", "ACQUIRED"} /\ o.ask = "release"
               \/ o.n.state = "RELEASING" /\ n.state \in {"PENDING", "ACQUIRED"} /\ o.ask = "release"
               \/ o.n.state = "RELEASED" /\ h \notin n.waiting
                    /\ n.state = "RELEASING" /\ o.ask = "none"
<1> DEFINE waits == h \in n.waiting
           left == IF waits THEN [n EXCEPT !.inactive = @ \cup {h}]
                   ELSE deleteSubscribers(n, {h})
           last == Active(left) = {}
           state == IF left.subs = {} THEN "RELEASED" ELSE IF last THEN "RELEASING" ELSE n.state
           o == processUnsubscribe(n, h)
<1>1. CASE n.state = "RELEASED"
  BY <1>1 DEF processUnsubscribe, Outcome
<1>2. CASE n.state # "RELEASED"
  <2>1. /\ left \in NifType /\ left.state = n.state
        /\ h \in n.waiting => left.subs = n.subs
    BY DEF deleteSubscribers, NifType
  <2>2. o = Outcome([left EXCEPT !.state = IF left.subs = {} THEN "RELEASED"
                                           ELSE IF last THEN "RELEASING" ELSE @],
                    IF last /\ n.state # "RELEASING" THEN "release" ELSE "none",
                    {}, {}, IF waits THEN {} ELSE {h})
    BY <1>2 DEF processUnsubscribe
  <2> HIDE DEF left
  <2>3. o.n.state = state /\ o.ask = IF last /\ n.state # "RELEASING" THEN "release" ELSE "none"
    <3> HIDE DEF last
    <3> QED BY <2>1, <2>2 DEF Outcome, NifType
  <2>4. left.subs = {} => last /\ h \notin n.waiting
    BY <2>1 DEF Active
  <2> HIDE DEF last, o
  <2>5. n.state \in {"PENDING", "ACQUIRED", "RELEASING"}
    BY <1>2 DEF NifType, States
  <2>6. \/ o.n.state = n.state /\ o.ask = "none"
        \/ o.n.state = "RELEASED" /\ h \notin n.waiting
             /\ n.state \in {"PENDING", "ACQUIRED"} /\ o.ask = "release"
        \/ o.n.state = "RELEASING" /\ n.state \in {"PENDING", "ACQUIRED"} /\ o.ask = "release"
        \/ o.n.state = "RELEASED" /\ h \notin n.waiting
             /\ n.state = "RELEASING" /\ o.ask = "none"
    BY <2>3, <2>4, <2>5
  <2> QED BY <2>6 DEF o
<1> QED BY <1>1, <1>2

\* A release gives the connection back only when it was open: while it is set
\* up every subscriber still waits for its answer.
LEMMA ReleaseConn == ASSUME Calm, ConnInv, releaseATL PROVE ConnInv'
<1>0. PICK h : h = Head(msgs).h
  OBVIOUS
<1>1. /\ msgs # <<>> /\ Head(msgs).op = "release" /\ UNCHANGED <<scene, link>> /\ IInv /\ CalmInv
      /\ \A k \in Nifs : ~IsReport(Head(msgs), k)
  BY DEF releaseATL, Event, Calm, IsReport, Reports
<1>2. h \in Handles /\ h \in Leaving(msgs)
  BY <1>0, <1>1, Heads, SingleTail DEF CalmInv, QueueInv, IInv, TypeOK
<1>3. modem[h] # "opening"
  BY <1>1, <1>2 DEF CalmInv, QueueInv
<1>4. CASE msgs' = Tail(msgs) /\ UNCHANGED <<nif, orders>>
  BY <1>1, <1>4, ConnQuiet
<1>5. ASSUME NEW m \in Nifs, h \in nif[m].subs, Perform(m, processUnsubscribe(nif[m], h), Tail(msgs))
      PROVE  ConnInv'
  <2> DEFINE o == processUnsubscribe(nif[m], h)
  <2>1. nif[m] \in NifType /\ o \in OutcomeType
    BY <1>1, <1>2, <1>5, Types0, UnsubscribeKeeps
  <2>2. \/ o.n.state = nif[m].state /\ o.ask = "none"
        \/ o.n.state = "RELEASED" /\ h \notin nif[m].waiting
             /\ nif[m].state \in {"PENDING", "ACQUIRED"} /\ o.ask = "release"
        \/ o.n.state = "RELEASING" /\ nif[m].state \in {"PENDING", "ACQUIRED"} /\ o.ask = "release"
        \/ o.n.state = "RELEASED" /\ h \notin nif[m].waiting
             /\ nif[m].state = "RELEASING" /\ o.ask = "none"
    BY <1>2, <1>5, <2>1, UnsubscribeIs
  <2>3. Perform(m, o, Tail(msgs))
    BY <1>5
  <2> HIDE DEF o
  <2>4. /\ nif[m].state # "PENDING"
        /\ nif[m].state = "RELEASING" => h \in nif[m].waiting
        /\ m = "ds" => h \in nif[m].waiting
    BY <1>1, <1>3, <1>5 DEF CalmInv, PlaceInv, EmergencyInv
  <2>5. Conn(m, nif[m].state, orders[m], link[m], Tail(msgs))
    BY <1>1, ConnTypes, ConnTail
  <2>6. CASE o.n.state = nif[m].state /\ o.ask = "none"
    BY <1>1, <2>1, <2>3, <2>5, <2>6, ConnPerform
  <2>7. CASE /\ nif[m].state = "ACQUIRED" /\ o.ask = "release"
             /\ (o.n.state = "RELEASED" /\ m # "ds") \/ o.n.state = "RELEASING"
    <3>1. Conn(m, o.n.state, Append(orders[m], "release"), link[m], Tail(msgs))
      BY <2>5, <2>7, ConnRelease
    <3> QED BY <1>1, <2>1, <2>3, <2>7, <3>1, ConnPerform
  <2> QED BY <2>2, <2>4, <2>6, <2>7
<1>6. \/ msgs' = Tail(msgs) /\ UNCHANGED <<nif, orders>>
      \/ \E m \in Nifs : h \in nif[m].subs /\ Perform(m, processUnsubscribe(nif[m], h), Tail(msgs))
  BY <1>0 DEF releaseATL, Nifs
<1> QED BY <1>4, <1>5, <1>6

\* A success answers a state machine that waits for it.
LEMMA OpenedConn == ASSUME Calm, ConnInv, reportOpened PROVE ConnInv'
<1>0. PICK m : m = Head(msgs).m
  OBVIOUS
<1>1. /\ msgs # <<>> /\ Head(msgs).op = "opened" /\ UNCHANGED <<scene, link>> /\ IInv
      /\ Perform(m, processGranted(nif[m]), Tail(msgs))
  BY <1>0 DEF reportOpened, Event, Calm
<1>2. m \in Nifs /\ IsReport(Head(msgs), m) /\ \A k \in Nifs \ {m} : ~IsReport(Head(msgs), k)
  BY <1>0, <1>1, Heads DEF IsReport, Reports
<1>3. PICK told \in Seq(Reports) :
        /\ told # <<>> /\ Head(told) = "opened" /\ Stage(m, nif[m].state, orders[m], link[m], told)
        /\ Tail(told) \in Seq(Reports) /\ Tells(Tail(msgs), m, Tail(told))
  BY <1>1, <1>2, ConnTypes, ConnReport
<1>4. nif[m].state = "PENDING" /\ Opened(orders[m], link[m], Tail(told))
  BY <1>1, <1>2, <1>3, ConnTypes, StageOpened
<1> DEFINE o == processGranted(nif[m])
<1>5. o \in OutcomeType /\ o.n.state = "ACQUIRED" /\ o.ask = "none"
  <2>1. nif[m] \in NifType
    BY <1>1, <1>2, Types0
  <2> QED BY <1>2, <1>4, <2>1, GrantedKeeps DEF processGranted, Outcome, NifType
<1> HIDE DEF o
<1>6. Conn(m, "ACQUIRED", orders[m], link[m], Tail(msgs))
  BY <1>3, <1>4 DEF Conn, Stage
<1>7. Perform(m, o, Tail(msgs))
  BY <1>1 DEF o
<1> QED BY <1>1, <1>2, <1>5, <1>6, <1>7, ConnPerform

\* DENIED while the connection is set up.
LEMMA DeniedConn ==
    ASSUME Calm, ConnInv, msgs # <<>>, UNCHANGED <<scene, link>>, NEW m \in Nifs,
           \A k \in Nifs \ {m} : ~IsReport(Head(msgs), k), nif[m].state = "PENDING",
           NEW told \in Seq(Reports), Tells(Tail(msgs), m, told), Rested(m, orders[m], link[m], told),
           NEW call \in scene.calls, NEW first \in Handles,
           Perform(m, processDenied(m, nif[m], call, first), Tail(msgs))
    PROVE  ConnInv'
<1> DEFINE o == processDenied(m, nif[m], call, first)
<1>1. IInv /\ nif[m] \in NifType /\ call \in Calls /\ nif[m].waiting \subseteq nif[m].subs
      /\ nif[m].inactive \subseteq nif[m].subs
  BY Types0 DEF Calm
<1>2. o \in OutcomeType
  BY <1>1, DeniedKeeps
<1>3. o.n.state = "RELEASED" /\ o.ask = "none"
  BY <1>1, DeniedIs
<1>4. Perform(m, o, Tail(msgs))
  OBVIOUS
<1> HIDE DEF o
<1>5. Conn(m, "RELEASED", orders[m], link[m], Tail(msgs))
  BY ConnAsk
<1> QED BY <1>1, <1>2, <1>3, <1>4, <1>5, ConnPerform

\* A failure answers a framework request.
LEMMA FailedConn == ASSUME Calm, ConnInv, reportAtlOpenFailed PROVE ConnInv'
<1>0. PICK m : m = Head(msgs).m
  OBVIOUS
<1>1. /\ msgs # <<>> /\ Head(msgs).op = "failed" /\ UNCHANGED <<scene, link>> /\ IInv
  BY <1>0 DEF reportAtlOpenFailed, Event, Calm
<1>2. m \in Nifs /\ IsReport(Head(msgs), m) /\ \A k \in Nifs \ {m} : ~IsReport(Head(msgs), k)
  BY <1>0, <1>1, Heads DEF IsReport, Reports
<1>3. PICK told \in Seq(Reports) :
        /\ told # <<>> /\ Head(told) = "failed" /\ Stage(m, nif[m].state, orders[m], link[m], told)
        /\ Tail(told) \in Seq(Reports) /\ Tells(Tail(msgs), m, Tail(told))
  BY <1>1, <1>2, ConnTypes, ConnReport
<1>4. nif[m].state = "PENDING" /\ Rested(m, orders[m], link[m], Tail(told))
  BY <1>1, <1>2, <1>3, ConnTypes, StageFailed
<1> QED BY <1>0, <1>1, <1>2, <1>3, <1>4, DeniedConn DEF reportAtlOpenFailed

\* A closure, whatever the state machine was doing.
LEMMA ClosedConn == ASSUME Calm, ConnInv, reportClosed PROVE ConnInv'
<1>0. PICK m : m = Head(msgs).m
  OBVIOUS
<1>1. /\ msgs # <<>> /\ Head(msgs).op = "closed" /\ UNCHANGED <<scene, link, created>> /\ IInv
  BY <1>0 DEF reportClosed, Event, Calm
<1>2. m \in Nifs /\ IsReport(Head(msgs), m) /\ \A k \in Nifs \ {m} : ~IsReport(Head(msgs), k)
  BY <1>0, <1>1, Heads DEF IsReport, Reports
<1>3. PICK told \in Seq(Reports) :
        /\ told # <<>> /\ Head(told) = "closed" /\ Stage(m, nif[m].state, orders[m], link[m], told)
        /\ Tail(told) \in Seq(Reports) /\ Tells(Tail(msgs), m, Tail(told))
  BY <1>1, <1>2, ConnTypes, ConnReport
<1>4. /\ nif[m].state # "PENDING" \/ m = "ds" => Rested(m, orders[m], link[m], Tail(told))
      /\ nif[m].state = "PENDING" /\ m # "ds" => Requested(m, orders[m], link[m], Tail(told))
  BY <1>1, <1>2, <1>3, ConnTypes, StageClosed
<1>5. PICK call \in scene.calls, first \in Handles :
        Perform(m, processReleased(m, nif[m], call, first), Tail(msgs))
  BY <1>0 DEF reportClosed
<1>6. /\ nif[m] \in NifType /\ call \in Calls /\ nif[m].waiting \subseteq nif[m].subs
      /\ nif[m].inactive \subseteq nif[m].subs /\ nif[m].state \in States
  BY <1>1, <1>2, Types0
<1> DEFINE o == processReleased(m, nif[m], call, first)
<1>7. o \in OutcomeType /\ Perform(m, o, Tail(msgs))
  BY <1>2, <1>5, <1>6, ReleasedKeeps
<1>8. CASE nif[m].state = "ACQUIRED"
  <2>1. o.n.state = "RELEASED" /\ o.ask = "none"
    BY <1>2, <1>6, <1>8, LostIs
  <2> HIDE DEF o
  <2>2. Conn(m, "RELEASED", orders[m], link[m], Tail(msgs))
    BY <1>2, <1>3, <1>4, <1>8, ConnAsk
  <2> QED BY <1>1, <1>2, <1>7, <2>1, <2>2, ConnPerform
<1>9. CASE nif[m].state = "RELEASING"
  <2>1. o = ReleaseEnds(m, nif[m], call, first)
    BY <1>9 DEF processReleased
  <2>2. \/ o.n.state = "RELEASED" /\ o.ask = "none"
        \/ o.n.state = "PENDING" /\ o.ask = "request"
    <3>1. Perform(m, ReleaseEnds(m, nif[m], call, first), Tail(msgs))
      BY <1>7, <2>1
    <3>2. LET r == ReleaseEnds(m, nif[m], call, first)
          IN  \/ r.n.state = "RELEASED" /\ r.ask = "none"
              \/ r.n.state = "PENDING" /\ r.ask = "request"
      BY <1>1, <1>2, <1>9, <3>1, EndsCalm
    <3> QED BY <2>1, <3>2
  <2> HIDE DEF o
  <2>3. /\ Conn(m, "RELEASED", orders[m], link[m], Tail(msgs))
        /\ Conn(m, "PENDING", Append(orders[m], "request"), link[m], Tail(msgs))
    BY <1>2, <1>3, <1>4, <1>9, ConnAsk
  <2> QED BY <1>1, <1>2, <1>7, <2>2, <2>3, ConnPerform
<1>10. CASE nif[m].state = "PENDING" /\ m = "ds"
  <2>1. Perform(m, processDenied(m, nif[m], call, first), Tail(msgs))
    BY <1>5, <1>10 DEF processReleased
  <2> QED BY <1>1, <1>2, <1>3, <1>4, <1>10, <2>1, DeniedConn
<1>11. CASE nif[m].state = "RELEASED" \/ (nif[m].state = "PENDING" /\ m # "ds")
  <2>1. o.n = nif[m] /\ o.ask = "none"
    BY <1>11 DEF processReleased, Quiet, Outcome
  <2> HIDE DEF o
  <2>2. Conn(m, nif[m].state, orders[m], link[m], Tail(msgs))
    <3>1. CASE nif[m].state = "RELEASED"
      BY <1>2, <1>3, <1>4, <3>1, ConnAsk
    <3>2. CASE nif[m].state = "PENDING" /\ m # "ds"
      BY <1>3, <1>4, <3>2 DEF Conn, Stage
    <3> QED BY <1>11, <3>1, <3>2
  <2> QED BY <1>1, <1>2, <1>7, <2>1, <2>2, ConnPerform
<1> QED BY <1>6, <1>8, <1>9, <1>10, <1>11 DEF States

\* The start, the timer and the modem report nothing.
LEMMA PartyConn ==
    ASSUME Calm, ConnInv,
           InitAgps \/ retryCallback \/ \E h \in Handles : ModemRequests(h) \/ ModemReleases(h)
    PROVE  ConnInv'
<1>1. IInv /\ UNCHANGED <<orders, link>> /\ scene \in SceneType
  BY ScenesAssumption DEF Calm, IInv, TypeOK, InitAgps, Event, retryCallback, ModemRequests, ModemReleases
<1>2. CASE InitAgps
  BY <1>1, <1>2, ConnQuiet DEF InitAgps, Event, IsReport, Reports
<1>3. CASE retryCallback
  <2>1. \A k \in Nifs : nif'[k].state = nif[k].state
    <3> DEFINE new == [nif["ds"] EXCEPT !.timers = @ - 1]
    <3>1. new.state = nif["ds"].state
      BY <1>1, Types0 DEF NifType, Nifs
    <3>2. nif' = [nif EXCEPT !["ds"] = new]
      BY <1>3 DEF retryCallback
    <3> HIDE DEF new
    <3> QED BY <1>1, <3>1, <3>2 DEF IInv, TypeOK
  <2>2. \/ UNCHANGED msgs
        \/ \E x \in MsgType : msgs' = Append(msgs, x) /\ x.op = "request"
    <3>1. CASE Active(nif["ds"]) = {}
      BY <1>3, <3>1 DEF retryCallback
    <3>2. CASE Active(nif["ds"]) # {}
      <4>1. PICK first \in Active(nif["ds"]) :
              msgs' = Append(msgs, [op |-> "request", h |-> first, type |-> "SUPL_ES"])
        BY <1>3, <3>2 DEF retryCallback
      <4>2. first \in Handles
        BY <1>1, Types0 DEF Active, Nifs
      <4> QED BY <4>1, <4>2 DEF MsgType, Types
    <3> QED BY <3>1, <3>2
  <2> QED BY <1>1, <2>1, <2>2, ConnQuiet DEF IsReport, Reports
<1>4. ASSUME NEW h \in Handles, ModemRequests(h) PROVE ConnInv'
  <2>1. \E x \in MsgType : msgs' = Append(msgs, x) /\ x.op = "request"
    BY <1>1, <1>4 DEF ModemRequests, MsgType, SceneType
  <2>2. UNCHANGED nif
    BY <1>4 DEF ModemRequests
  <2> QED BY <1>1, <2>1, <2>2, ConnQuiet DEF IsReport, Reports
<1>5. ASSUME NEW h \in Handles, ModemReleases(h) PROVE ConnInv'
  <2>1. \E x \in MsgType : msgs' = Append(msgs, x) /\ x.op = "release"
    BY <1>5 DEF ModemReleases, MsgType
  <2>2. UNCHANGED nif
    BY <1>5 DEF ModemReleases
  <2> QED BY <1>1, <2>1, <2>2, ConnQuiet DEF IsReport, Reports
<1> QED BY <1>2, <1>3, <1>4, <1>5

\* A provider carries out an order, or the connection is lost.
LEMMA ProviderConn ==
    ASSUME Calm, ConnInv, NEW m \in Nifs, Provider(m) \/ Loses(m)
    PROVE  ConnInv'
<1>1. IInv /\ UNCHANGED nif /\ msgs \in Seq(MsgType) /\ orders \in [Nifs -> Seq(Orders)]
      /\ link \in [Nifs -> {"open", "closed"}] /\ nif[m].state \in States
  BY Types0 DEF Calm, IInv, TypeOK, Orders, Provider, Connects, Refuses, Disconnects, Provides, Loses
<1>2. PICK told \in Seq(Reports) :
        Tells(msgs, m, told) /\ Stage(m, nif[m].state, orders[m], link[m], told)
  BY <1>1 DEF ConnInv
<1>3. \A op \in Reports : /\ [op |-> op, m |-> m] \in MsgType /\ IsReport([op |-> op, m |-> m], m)
                          /\ Append(told, op) \in Seq(Reports)
                          /\ Tells(Append(msgs, [op |-> op, m |-> m]), m, Append(told, op))
  <2> SUFFICES ASSUME NEW op \in Reports
               PROVE  /\ [op |-> op, m |-> m] \in MsgType /\ IsReport([op |-> op, m |-> m], m)
                      /\ Append(told, op) \in Seq(Reports)
                      /\ Tells(Append(msgs, [op |-> op, m |-> m]), m, Append(told, op))
    OBVIOUS
  <2> DEFINE x == [op |-> op, m |-> m]
  <2>1. x \in MsgType /\ IsReport(x, m) /\ x.op = op
    BY DEF MsgType, Reports, IsReport
  <2> HIDE DEF x
  <2>2. Tells(Append(msgs, x), m, Append(told, op))
    BY <1>1, <1>2, <2>1, TellsAppend
  <2> QED BY <2>1, <2>2 DEF x
<1>4. /\ \A k \in Nifs \ {m} : orders'[k] = orders[k] /\ link'[k] = link[k]
      /\ \/ UNCHANGED msgs
         \/ \E op \in Reports : msgs' = Append(msgs, [op |-> op, m |-> m])
  BY <1>1 DEF Provider, Connects, Refuses, Disconnects, Provides, Loses, Reports
<1>5. \A k \in Nifs \ {m} : Conn(k, nif'[k].state, orders'[k], link'[k], msgs')
  <2> SUFFICES ASSUME NEW k \in Nifs \ {m} PROVE Conn(k, nif[k].state, orders[k], link[k], msgs')
    BY <1>1, <1>4
  <2>1. CASE UNCHANGED msgs
    BY <1>1, <2>1, ConnTypes
  <2>2. ASSUME NEW op \in Reports, msgs' = Append(msgs, [op |-> op, m |-> m])
        PROVE  Conn(k, nif[k].state, orders[k], link[k], msgs')
    <3>1. ~IsReport([op |-> op, m |-> m], k)
      BY DEF IsReport
    <3> QED BY <1>1, <1>3, <2>2, <3>1, ConnTypes, ConnAppend
  <2> QED BY <1>4, <2>1, <2>2
<1>6. Conn(m, nif'[m].state, orders'[m], link'[m], msgs')
  <2>1. CASE Connects(m) \/ Refuses(m)
    <3>1. /\ orders[m] # <<>> /\ Head(orders[m]) = "request" /\ orders'[m] = Tail(orders[m])
      BY <1>1, <2>1 DEF Connects, Refuses, Provides
    <3>2. /\ Stage(m, nif[m].state, Tail(orders[m]), "open", Append(told, "opened"))
          /\ m # "ds" => Stage(m, nif[m].state, Tail(orders[m]), link[m], Append(told, "failed"))
          /\ m = "ds" => Stage(m, nif[m].state, Tail(orders[m]), link[m], Append(told, "closed"))
      BY <1>1, <1>2, <3>1, StageConnects
    <3>3. CASE Connects(m)
      <4>1. link'[m] = "open" /\ msgs' = Append(msgs, [op |-> "opened", m |-> m])
        BY <1>1, <3>3 DEF Connects
      <4> QED BY <1>1, <1>3, <3>1, <3>2, <4>1 DEF Conn, Reports
    <3>4. CASE Refuses(m)
      <4>1. /\ link'[m] = link[m]
            /\ msgs' = Append(msgs, [op |-> IF m = "ds" THEN "closed" ELSE "failed", m |-> m])
        BY <3>4 DEF Refuses
      <4>2. CASE m = "ds"
        BY <1>1, <1>3, <3>1, <3>2, <4>1, <4>2 DEF Conn, Reports
      <4>3. CASE m # "ds"
        BY <1>1, <1>3, <3>1, <3>2, <4>1, <4>3 DEF Conn, Reports
      <4> QED BY <4>2, <4>3
    <3> QED BY <2>1, <3>3, <3>4
  <2>2. CASE Disconnects(m)
    <3>1. /\ orders[m] # <<>> /\ Head(orders[m]) = "release" /\ orders'[m] = Tail(orders[m])
          /\ link'[m] = "closed" /\ link[m] \in {"open", "closed"}
          /\ msgs' = IF link[m] = "open" THEN Append(msgs, [op |-> "closed", m |-> m]) ELSE msgs
      BY <1>1, <2>2 DEF Disconnects, Provides
    <3>2. Stage(m, nif[m].state, Tail(orders[m]), "closed",
                IF link[m] = "open" THEN Append(told, "closed") ELSE told)
      BY <1>1, <1>2, <3>1, StageDisconnects
    <3>3. CASE link[m] = "open"
      BY <1>1, <1>3, <3>1, <3>2, <3>3 DEF Conn, Reports
    <3>4. CASE link[m] # "open"
      BY <1>1, <1>2, <3>1, <3>2, <3>4 DEF Conn
    <3> QED BY <3>3, <3>4
  <2>3. CASE Loses(m)
    <3>1. /\ link[m] = "open" /\ link'[m] = "closed" /\ orders' = orders
          /\ msgs' = Append(msgs, [op |-> "closed", m |-> m])
      BY <1>1, <2>3 DEF Loses
    <3>2. Stage(m, nif[m].state, orders[m], "closed", Append(told, "closed"))
      BY <1>1, <1>2, <3>1, StageLoses
    <3> QED BY <1>1, <1>3, <3>1, <3>2 DEF Conn, Reports
  <2> QED BY <2>1, <2>2, <2>3 DEF Provider
<1> QED BY <1>5, <1>6 DEF ConnInv, Conn

-----------------------------------------------------------------------------
(* The agreement. *)

\* At first nothing is asked, nothing is listed and nothing is queued but the start.
LEMMA InitCalmConn == ASSUME Init PROVE CalmInv /\ ConnInv
<1>1. /\ DOMAIN msgs = {1} /\ msgs[1].op = "init" /\ \A m \in Nifs : ~IsReport(msgs[1], m)
  BY DEF Init, IsReport, Reports
<1>2. \A m \in Nifs : /\ nif[m].state = "RELEASED" /\ nif[m].subs = {} /\ nif[m].waiting = {}
                      /\ nif[m].inactive = {} /\ nif[m].timers = 0
                      /\ orders[m] = <<>> /\ link[m] = "closed"
  BY DEF Init, Released0
<1>3. Asking(msgs) = {} /\ Leaving(msgs) = {} /\ Single(msgs)
  BY <1>1 DEF Asking, Leaving, Single
<1>4. CalmInv
  BY <1>2, <1>3 DEF CalmInv, QueueInv, PlaceInv, EmergencyInv, Nifs
<1>5. ASSUME NEW m \in Nifs PROVE Conn(m, nif[m].state, orders[m], link[m], msgs)
  <2>1. <<>> \in Seq(Reports) /\ Len(<<>>) = 0
    OBVIOUS
  <2>2. Tells(msgs, m, <<>>)
    <3> DEFINE none == [i \in 1..0 |-> 1]
    <3>1. none \in [1..Len(<<>>) -> DOMAIN msgs]
      BY <1>1
    <3>2. \A i \in 1..Len(<<>>) : FALSE
      BY <2>1
    <3> QED BY <1>1, <3>1, <3>2 DEF Tells
  <2>3. Stage(m, "RELEASED", <<>>, "closed", <<>>)
    BY DEF Stage, Rested
  <2> QED BY <1>2, <2>1, <2>2, <2>3 DEF Conn
<1> QED BY <1>4, <1>5 DEF ConnInv, Conn

\* The inductive invariant of the agreement: IInv, and, with a modem that
\* waits for its answers, the place of every handle and the stage of every
\* connection.
LinksInv == IInv /\ (~scene.hasty => CalmInv /\ ConnInv)

\* Every step keeps the invariant.
LEMMA LinksStep == ASSUME Orderly PROVE LinksInv /\ [Next]_vars => LinksInv'
<1> SUFFICES ASSUME LinksInv, [Next]_vars, ~scene'.hasty PROVE CalmInv' /\ ConnInv'
  BY NextStep DEF LinksInv
<1>1. UNCHANGED scene
  BY DEF Next, MsgTask, vars, InitAgps, requestATL, releaseATL, reportOpened, reportAtlOpenFailed,
         reportClosed, Event, retryCallback, ModemRequests, ModemReleases, Provider, Connects,
         Refuses, Disconnects, Provides, Loses
<1>2. Calm /\ ConnInv /\ IInv /\ CalmInv
  BY <1>1 DEF LinksInv, Calm
<1>3. CASE UNCHANGED vars
  <2>1. (\A g : Listed(g)' <=> Listed(g)) /\ (\A k \in Nifs : Leftover(k)' <=> Leftover(k))
        /\ EmergencyUsers(scene)' = EmergencyUsers(scene) /\ (Single(msgs)' <=> Single(msgs))
    BY <1>3 DEF vars, Listed, Leftover, EmergencyUsers, Single
  <2>2. CalmInv'
    BY <1>2, <1>3, <2>1 DEF vars, CalmInv, QueueInv, PlaceInv, EmergencyInv
  <2>3. ConnInv'
    BY <1>2, <1>3 DEF vars, ConnInv
  <2> QED BY <2>2, <2>3
<1>4. CASE InitAgps
  BY <1>2, <1>4, InitCalm, PartyConn
<1>5. CASE requestATL
  BY <1>2, <1>5, RequestCalm, RequestConn
<1>6. CASE releaseATL
  BY <1>2, <1>6, ReleaseCalm, ReleaseConn
<1>7. CASE reportOpened \/ reportAtlOpenFailed \/ reportClosed
  BY <1>2, <1>7, ReportCalm, OpenedConn, FailedConn, ClosedConn
<1>8. CASE retryCallback
  BY <1>2, <1>8, RetryCalm, PartyConn
<1>9. ASSUME NEW h \in Handles, ModemRequests(h) \/ ModemReleases(h) PROVE CalmInv' /\ ConnInv'
  BY <1>2, <1>9, ModemCalm, PartyConn
<1>10. ASSUME NEW m \in Nifs, Provider(m) \/ Loses(m) PROVE CalmInv' /\ ConnInv'
  BY <1>2, <1>10, ProviderCalm, ProviderConn
<1> QED BY <1>3, <1>4, <1>5, <1>6, <1>7, <1>8, <1>9, <1>10 DEF Next, MsgTask

\* With no order and no report left, the stage of a connection is its end.
LEMMA StagesEnd == LinksInv => LinksAgree
<1> SUFFICES ASSUME LinksInv, NEW m \in Nifs, ~scene.hasty, ~UnderWay(m)
             PROVE  nif[m].state = IF link[m] = "open" THEN "ACQUIRED" ELSE "RELEASED"
  BY DEF LinksAgree
<1>1. PICK told \in Seq(Reports) :
        Tells(msgs, m, told) /\ Stage(m, nif[m].state, orders[m], link[m], told)
  BY DEF LinksInv, ConnInv
<1>2. orders[m] = <<>> /\ \A i \in DOMAIN msgs : ~IsReport(msgs[i], m)
  BY DEF UnderWay, IsReport, Reports
<1>3. told = <<>>
  BY <1>1, <1>2, TellsNothing
<1>4. nif[m].state \in States
  BY Types0 DEF LinksInv
<1> QED BY <1>1, <1>2, <1>3, <1>4 DEF Stage, Rested, Requested, Opened, Ending, States

\* When no order, no report and no retry is under way a state machine is ACQUIRED
\* exactly if its connection is open, and RELEASED otherwise: nothing stays open
\* that nobody uses, nobody waits for an answer that does not come (the state
\* machines of Agps.cpp:72-290, driven by the reports of Agps.cpp:832-884).
THEOREM LinksFollow == ASSUME Orderly PROVE Spec => []LinksAgree
<1>1. Init => LinksInv
  BY InitInv, InitCalmConn DEF LinksInv
<1>2. LinksInv /\ [Next]_vars => LinksInv'
  BY LinksStep
<1>3. LinksInv => LinksAgree
  BY StagesEnd
<1> QED BY <1>1, <1>2, <1>3, PTL DEF Spec
=============================================================================
