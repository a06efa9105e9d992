---------------------------- MODULE Hal3Requests ----------------------------
(***************************************************************************)
(* The request bookkeeping of the HAL3 interface (HAL3/QCamera3HWI.cpp):   *)
(* the camera service's request thread in processCaptureRequest, its flush *)
(* thread, and the callbacks that bring metadata, filled buffers and the   *)
(* daemon's events.  mMutex makes each callback one step; a request keeps  *)
(* it except while it waits for room and while it restarts the sensor, and *)
(* a flush gives it up to stop the channels.                               *)
(***************************************************************************)
EXTENDS Integers, Sequences, FiniteSets, FiniteSetsExt, SequencesExt

CONSTANTS
    Scenes,      \* what service and daemon do: names to records of SceneType
    MaxFrame,    \* bound on the requests
    UINT         \* number of values of mPendingLiveRequest

Frames == 1 .. MaxFrame
Streams == {"preview", "video", "blob"}
Kinds == [live |-> {"preview"}, video |-> {"preview", "video"},
          shot |-> {"preview", "blob"}, reproc |-> {"blob"}]
Input(k) == k = "reproc"

SceneType ==
    [kinds : SUBSET DOMAIN Kinds,  \* the requests the service makes, as Kinds names them
     frames : Frames,              \* how many
     min : Nat, max : Nat,         \* minInFlightRequests and maxInFlightRequests
     batch : Nat,                  \* mBatchSize, zero when frames come one by one
     flush : BOOLEAN,              \* the service flushes
     alone : BOOLEAN,              \* one reprocess request at a time, no restart meanwhile
     pulls : BOOLEAN,              \* the daemon asks for more requests
     may : SUBSET {"drop", "lose", "die", "start", "support", "early", "request", "sensor"}]

ASSUME Hal3OK ==
    /\ \A n \in DOMAIN Scenes : Scenes[n] \in SceneType
    /\ MaxFrame \in Nat \ {0} /\ UINT \in Nat /\ UINT > MaxFrame + 1

VARIABLES
    scene,       \* a name in Scenes
    hal,         \* mState, the lists and counters, and what the service was told
    dev,         \* the daemon, the frames it works on, the buffers the channels hold
    channels,    \* stopped, streams stopped (metadata still on) or started
    callback,    \* what the metadata callback still has to handle
    thread,      \* the threads that call: what each is doing, why, with which request
    mutex        \* mMutex: free unless a thread blocks while it holds it

vars == <<scene, hal, dev, channels, callback, thread, mutex>>

Setup == Scenes[scene]

-----------------------------------------------------------------------------
(* What the service is told: shutters, last results, buffers.               *)

Shutter(w, f) == [w EXCEPT !.shutters = Append(@, f)]
Result(w, f, partial) == [w EXCEPT !.results = Append(@, [frame |-> f, partial |-> partial])]

\* The service gets buffers back; mPendingBuffersMap forgets a buffer.
GiveBack(w, f, ss, status) ==
    [w EXCEPT !.back[f] = [s \in Streams |->
        IF s \notin ss THEN @[s] ELSE IF @[s] = "none" THEN status[s] ELSE "twice"]]
Forget(w, f, ss) ==
    LET here == {b \in w.buffers : b[1] = f /\ b[2] \in ss} IN
    [w EXCEPT !.buffers = @ \ here, !.num_buffers = @ - Cardinality(here)]

\* A buffer the daemon said it dropped goes back with the error status.
ReturnMarked(w, f, ss) ==
    LET status == [s \in Streams |-> IF <<f, s>> \in w.drops THEN "error" ELSE "ok"] IN
    [GiveBack(Forget(w, f, ss), f, ss, status) EXCEPT
        !.drops = {d \in @ : ~(d[1] = f /\ d[2] \in ss)}]

Ok == [s \in Streams |-> "ok"]
Error == [s \in Streams |-> "error"]

At(w, f) == {n \in DOMAIN w.requests : w.requests[n].frame = f}
erasePendingRequest(w, n) == [w EXCEPT !.requests = RemoveAt(@, n)]

-----------------------------------------------------------------------------
(* The handlers of metadata and buffers.                                     *)

\* Mutant: finished reprocess requests wait for ever.
handlePendingReprocResults_None(w, f) == w

\* The jpeg of a reprocess request that was done before its turn.
handlePendingReprocResults(w, f) ==
    IF f \notin ToSet(w.reprocs) THEN w
    ELSE LET told == Shutter([w EXCEPT !.reprocs = SelectSeq(@, LAMBDA r : r # f)], f)
             Answer(n) == erasePendingRequest(Result(GiveBack(told, f, {"blob"}, Ok), f, 2), n) IN
         IF At(w, f) = {} THEN told ELSE Answer(Min(At(w, f)))

Urgent(w, u) ==
    [w EXCEPT !.requests = [n \in DOMAIN @ |->
        IF @[n].frame = u /\ ~@[n].urgent
        THEN [@[n] EXCEPT !.urgent = TRUE, !.partial = @ + 1] ELSE @[n]]]

NotifyDrops(w, i, dropped) ==
    [w EXCEPT !.drops = @ \cup {<<i.frame, s>> : s \in (i.outs \cap dropped) \ {"blob"}}]

\* The last result takes along the buffers that came before it.
LastResult(w, i, partial) ==
    erasePendingRequest(Result(ReturnMarked(w, i.frame, i.held), i.frame, partial), 1)

\* The request at the head of the list, when the metadata of frame f is here.
AnswerHead(w, f, dropped) ==
    LET i == Head(w.requests)
        v == NotifyDrops(w, i, dropped)
        own == [Shutter(v, f) EXCEPT
                  !.live = (@ - 1) % UINT,
                  !.jobs = IF "blob" \in i.outs THEN Append(@, f) ELSE @] IN
    IF i.frame = f
    THEN handlePendingReprocResults(LastResult(own, i, i.partial + 1), f + 1)
    ELSE IF i.input
    THEN handlePendingReprocResults(LastResult(Shutter(v, i.frame), i, i.partial + 2), f + 1)
    ELSE [v EXCEPT !.state = "ERROR"]

\* The loop over the requests up to f; it ends early when it meets an error.
AnswerUpTo(w, f, dropped) ==
    LET Turn(v) == v.state # "ERROR" /\ v.requests # <<>> /\ Head(v.requests).frame <= f IN
    FoldLeft(LAMBDA v, r : IF Turn(v) THEN AnswerHead(v, f, dropped) ELSE v, w, w.requests)

handleMetadataWithLock(w, u, f, dropped) ==
    IF w.state \in {"ERROR", "DEINIT"} THEN w
    ELSE LET v == IF u = 0 THEN w ELSE Urgent(w, u) IN
         [IF f = 0 THEN v ELSE AnswerUpTo(v, f, dropped) EXCEPT !.signal = TRUE]

\* Mutant: a reprocess result does not wait for its turn.
handleBufferWithLock_AtOnce(w, f, s) ==
    LET n == Min(At(w, f)) IN
    IF At(w, f) # {} /\ w.requests[n].input
    THEN erasePendingRequest(
             Result(GiveBack(Shutter(Forget(w, f, {s}), f), f, {s}, Ok), f, 2), n)
    ELSE IF At(w, f) = {} THEN ReturnMarked(w, f, {s})
    ELSE [w EXCEPT !.requests[n].held = @ \cup {s}]

handleBufferWithLock(w, f, s) ==
    LET n == Min(At(w, f))
        done == Forget(w, f, {s}) IN
    IF w.state \in {"ERROR", "DEINIT"} THEN w
    ELSE IF At(w, f) = {} THEN ReturnMarked(w, f, {s})
    ELSE IF ~w.requests[n].input THEN [w EXCEPT !.requests[n].held = @ \cup {s}]
    ELSE IF n > 1 THEN [done EXCEPT !.reprocs = Append(@, f)]
    ELSE erasePendingRequest(Result(GiveBack(Shutter(done, f), f, {s}, Ok), f, 2), n)

\* Mutant: buffers of answered requests are dropped from the map, not returned.
notifyErrorForPendingRequests_Drops(w) ==
    LET Owes(f) == {b[2] : b \in {c \in w.buffers : c[1] = f}}
        Step(v, r) == erasePendingRequest(
                          GiveBack(Result(v, r.frame, 2), r.frame, Owes(r.frame), Error), 1) IN
    [FoldLeft(Step, w, w.requests) EXCEPT
        !.drops = {}, !.buffers = {}, !.num_buffers = 0, !.reprocs = <<>>]

\* After the channels stopped: buffers of answered requests, then, one by one,
\* the requests with buffers left, each with the first entry of the list.
notifyErrorForPendingRequests(w) ==
    LET first == IF w.requests = <<>> THEN MaxFrame + 1 ELSE Head(w.requests).frame
        Owed(f) == {b[2] : b \in {c \in w.buffers : c[1] = f}}
        Give(v, f) == GiveBack(v, f, Owed(f), Error)
        Step(v, f) == IF f < first THEN Give(v, f)
                      ELSE erasePendingRequest(Give(Result(v, f, 2), f), 1)
        owing == SetToSortSeq({b[1] : b \in w.buffers}, <) IN
    [FoldLeft(Step, w, owing) EXCEPT
        !.drops = {}, !.buffers = {}, !.num_buffers = 0, !.reprocs = <<>>]

-----------------------------------------------------------------------------
(* The callbacks.                                                            *)

\* The daemon reports statistics of the next frame that has none, the result of
\* the first frame that has them, or both in one message: <<position, position>>.
\* Before there are requests it may report neither.
Reports ==
    LET late == {n \in DOMAIN dev.sent : ~dev.sent[n].urgent}
        us == {0} \cup IF late = {} THEN {} ELSE {Min(late)}
        rs == {0} \cup IF dev.sent # <<>> /\ dev.sent[1].urgent THEN {1} ELSE {} IN
    (us \X rs) \ (IF "early" \in Setup.may THEN {} ELSE {<<0, 0>>})

\* A message for a batch is handled as one message for each frame from its first.
Message(n) ==
    IF n = 0 THEN <<>>
    ELSE LET b == dev.sent[n] IN [k \in 1 .. b.last + 1 - b.first |-> b.first + k - 1]
Nth(s, k) == IF k \in DOMAIN s THEN s[k] ELSE 0

\* captureResultCb with metadata; the thread of the metadata channel does one
\* message after the other.
MetadataArrives ==
    /\ callback = <<>> /\ channels # "stopped" /\ dev.alive
    /\ \E r \in Reports :
         LET us == Message(r[1]) fs == Message(r[2]) IN
         /\ callback' = [k \in 1 .. Max({1, Len(us), Len(fs)}) |-> <<Nth(us, k), Nth(fs, k)>>]
         /\ dev' = LET s == IF r[1] = 0 THEN dev.sent ELSE [dev.sent EXCEPT ![r[1]].urgent = TRUE]
                   IN [dev EXCEPT !.sent = IF r[2] = 0 THEN s ELSE Tail(s)]
    /\ UNCHANGED <<hal, channels, thread, mutex>>

HandleMetadata ==
    /\ callback # <<>> /\ mutex = "free"
    /\ \E dropped \in SUBSET IF "drop" \in Setup.may THEN {"preview"} ELSE {} :
         hal' = handleMetadataWithLock(hal, Head(callback)[1], Head(callback)[2], dropped)
    /\ callback' = Tail(callback)
    /\ UNCHANGED <<dev, channels, thread, mutex>>

\* The daemon skips a frame for the next: its metadata never comes.
LoseFrame ==
    /\ "lose" \in Setup.may /\ Len(dev.sent) > 1 /\ dev' = [dev EXCEPT !.sent = Tail(@)]
    /\ UNCHANGED <<hal, channels, callback, thread, mutex>>

\* captureResultCb with a buffer.  A stream fills its buffers in the order it got
\* them; jpegs are made in the order their metadata, or their inputs, came.
BufferArrives ==
    /\ mutex = "free" /\ channels = "started" /\ dev.alive
    /\ \E b \in dev.with :
         /\ IF b[2] = "blob" THEN hal.jobs # <<>> /\ b[1] = Head(hal.jobs)
            ELSE \A c \in dev.with : c[2] = b[2] => c[1] >= b[1]
         /\ LET w == IF b[2] = "blob" THEN [hal EXCEPT !.jobs = Tail(@)] ELSE hal IN
            hal' = handleBufferWithLock(w, b[1], b[2])
         /\ dev' = [dev EXCEPT !.with = @ \ {b}]
    /\ UNCHANGED <<channels, callback, thread, mutex>>

\* camEvtHandle: the daemon died.  A request that waits for room is not told.
DaemonDied ==
    /\ "die" \in Setup.may /\ dev.alive /\ mutex = "free"
    /\ hal' = [hal EXCEPT !.state = "ERROR"] /\ dev' = [dev EXCEPT !.alive = FALSE]
    /\ UNCHANGED <<channels, callback, thread, mutex>>

\* camEvtHandle: the daemon asks for another request before there is a result.
DaemonPullReq ==
    /\ Setup.pulls /\ dev.alive /\ mutex = "free" /\ hal.state = "STARTED"
    /\ hal' = [hal EXCEPT !.woken = TRUE, !.signal = TRUE]
    /\ UNCHANGED <<dev, channels, callback, thread, mutex>>

-----------------------------------------------------------------------------
(* processCaptureRequest                                                     *)

Idle == [pc |-> "idle", goal |-> "none", kind |-> "none"]
Does(t, pc, goal, kind) == thread' = [thread EXCEPT ![t] = [pc |-> pc, goal |-> goal, kind |-> kind]]
To(t, pc) == thread' = [thread EXCEPT ![t].pc = pc]
Returns(t) == thread' = [thread EXCEPT ![t] = Idle]

MayWait(w, kind) ==
    w.live >= Setup.min /\ ~Input(kind) /\ w.state \notin {"ERROR", "DEINIT"}

\* The request is entered in the lists.
Insert(w, kind) ==
    LET f == w.frame + 1 outs == Kinds[kind] IN
    [w EXCEPT !.frame = f, !.asked[f] = outs,
              !.requests = Append(@, [frame |-> f, input |-> Input(kind), outs |-> outs,
                                      held |-> {}, urgent |-> FALSE, partial |-> 0]),
              !.buffers = @ \cup {<<f, s>> : s \in outs},
              !.num_buffers = @ + Cardinality(outs)]

\* Frames go to the daemon one by one, a batch of video frames when it is full.
Batched(kind) == Setup.batch > 0 /\ "video" \in Kinds[kind]
FillBatch(w, kind) ==
    [w EXCEPT !.first = IF Setup.batch > 0 /\ ~Input(kind) /\ w.tobe = 0 THEN w.frame ELSE @,
              !.tobe = IF Batched(kind) THEN @ + 1 ELSE @]
SetParms(w, kind) == ~Input(kind) /\ (Batched(kind) => w.tobe = Setup.batch)
Send(w, kind) ==
    LET f == w.frame
        bufs == {<<f, s>> : s \in Kinds[kind]}
        full == SetParms(w, kind) IN
    /\ hal' = [w EXCEPT !.state = "STARTED", !.signal = FALSE,
                        !.live = IF Input(kind) THEN @ ELSE (@ + 1) % UINT,
                        !.tobe = IF full THEN 0 ELSE @,
                        !.jobs = IF Input(kind) THEN Append(@, f) ELSE @]
    /\ dev' = IF Input(kind) THEN [dev EXCEPT !.with = @ \cup bufs]
              ELSE IF ~full THEN [dev EXCEPT !.queued = @ \cup bufs]
              ELSE [dev EXCEPT !.with = @ \cup dev.queued \cup bufs, !.queued = {},
                               !.sent = Append(@, [first |-> IF Setup.batch > 0 THEN w.first ELSE f,
                                                   last |-> f, urgent |-> FALSE])]

\* From the insertion to the wait.  While a flush is on the request is only
\* entered; when a channel refuses its buffer it has been entered as well.
Submit(w, kind) ==
    LET v == Insert(w, kind) IN
    \/ w.flush /\ hal' = v /\ Returns("request") /\ UNCHANGED dev
    \/ /\ ~w.flush /\ "request" \in Setup.may
       /\ hal' = [v EXCEPT !.refused = @ \cup {v.frame}]
       /\ Returns("request") /\ UNCHANGED dev
    \/ /\ ~w.flush /\ Send(FillBatch(v, kind), kind)
       /\ IF MayWait(hal', kind) THEN Does("request", "wait", "none", kind) ELSE Returns("request")

\* The first request after a configuration starts the channels.  When a stream
\* does not start those before it stay on; when the support channel does not,
\* the metadata channel is stopped with the mutex held.
StartChannels(kind) ==
    \/ /\ channels' = "started" /\ UNCHANGED mutex
       /\ Submit([hal EXCEPT !.woken = FALSE, !.live = 0], kind)
    \/ /\ "start" \in Setup.may /\ channels' = "streams stopped"
       /\ Returns("request") /\ UNCHANGED <<hal, dev, mutex>>
    \/ /\ "support" \in Setup.may /\ channels' = "streams stopped" /\ mutex' = "request"
       /\ To("request", "stop metadata") /\ UNCHANGED <<hal, dev>>

ProcessCaptureRequest(kind) ==
    /\ thread.request = Idle /\ mutex = "free" /\ hal.frame < Setup.frames
    /\ Input(kind) => hal.frame > 0
    /\ Input(kind) /\ Setup.alone => \A n \in DOMAIN hal.requests : ~hal.requests[n].input
    /\ \/ hal.state = "CONFIGURED" /\ StartChannels(kind)
       \/ hal.state = "STARTED" /\ Submit(hal, kind) /\ UNCHANGED <<channels, mutex>>
       \/ /\ hal.state = "STARTED" /\ "sensor" \in Setup.may /\ ~Input(kind)
          /\ Setup.alone => hal.requests = <<>> /\ ~hal.flush
          /\ Does("request", "streams", "sensor", kind)
          /\ UNCHANGED <<hal, dev, channels, mutex>>
       \/ /\ hal.state = "ERROR" /\ Does("request", "begin", "error", kind)
          /\ UNCHANGED <<hal, dev, channels, mutex>>
    /\ UNCHANGED callback

\* mMetadataChannel->stop() joins the thread that is in the callback.
StopMetadata ==
    /\ thread.request.pc = "stop metadata" /\ callback = <<>>
    /\ channels' = "stopped" /\ mutex' = "free" /\ Returns("request")
    /\ UNCHANGED <<hal, dev, callback>>

\* The service gives up a device that failed.
GivesUp == Does("request", "gone", "none", "none")

\* The wait for room, for five seconds at most; the daemon answers before that
\* unless it is dead or has nothing to answer.
WaitForRoom ==
    /\ thread.request.pc = "wait" /\ mutex = "free" /\ hal.signal
    /\ hal' = [hal EXCEPT !.signal = FALSE, !.woken = FALSE]
    /\ IF (hal.woken /\ hal.live < Setup.max) \/ ~MayWait(hal, thread.request.kind)
       THEN Returns("request") ELSE UNCHANGED thread
    /\ UNCHANGED <<dev, channels, callback, mutex>>

Timeout ==
    /\ thread.request.pc = "wait" /\ mutex = "free" /\ ~hal.signal
    /\ ~dev.alive \/ (dev.sent = <<>> /\ callback = <<>>)
    /\ GivesUp /\ UNCHANGED <<hal, dev, channels, callback, mutex>>

-----------------------------------------------------------------------------
(* Stopping: flush(), handleCameraDeviceError() and the restart of the sensor  *)
(* for a request, step by step, for the thread t that does it.                 *)

Flush ==
    /\ Setup.flush /\ thread.flush = Idle /\ mutex = "free"
    /\ \/ hal.state = "STARTED" /\ Does("flush", "begin", "flush", "none")
       \/ hal.state = "ERROR" /\ Does("flush", "begin", "error", "none")
    /\ UNCHANGED <<hal, dev, channels, callback, mutex>>

SetFlush(t) ==
    /\ thread[t].pc = "begin" /\ mutex = "free"
    /\ hal' = [hal EXCEPT !.flush = TRUE] /\ To(t, "streams")
    /\ UNCHANGED <<dev, channels, callback, mutex>>

\* stopAllChannels holds no lock: the streams and the buffers they have go first,
\* then the metadata channel, whose thread ends its callback.
StopStreams(t) ==
    /\ thread[t].pc = "streams" /\ To(t, "metadata")
    /\ channels' = IF channels = "started" THEN "streams stopped" ELSE channels
    /\ dev' = [dev EXCEPT !.with = {}, !.queued = {}]
    /\ UNCHANGED <<hal, callback, mutex>>

StopMetadataChannel(t) ==
    /\ thread[t].pc = "metadata" /\ callback = <<>> /\ To(t, "notify")
    /\ channels' = "stopped" /\ dev' = [dev EXCEPT !.sent = <<>>]
    /\ hal' = [hal EXCEPT !.jobs = <<>>]
    /\ UNCHANGED <<callback, mutex>>

\* Mutant: the requests in flight are not counted down.
Freed_KeepsLive(w) == [w EXCEPT !.signal = TRUE, !.flush = FALSE]
Freed(w) == [w EXCEPT !.live = 0, !.signal = TRUE, !.flush = FALSE]

\* Everything pending is returned; then the channels start, for those who go on.
Notify(t) ==
    /\ thread[t].pc = "notify"
    /\ LET v == notifyErrorForPendingRequests(hal) IN
       \/ /\ thread[t].goal = "flush" /\ mutex = "free"
          /\ hal' = Freed(v) /\ channels' = "started" /\ Returns(t)
       \/ /\ thread[t].goal = "error" /\ mutex = "free"
          /\ hal' = Freed(v) /\ UNCHANGED channels /\ To(t, "deinit")
       \/ /\ thread[t].goal = "sensor"
          /\ hal' = v /\ channels' = "started" /\ To(t, "resume")
    /\ UNCHANGED <<dev, callback, mutex>>

Deinit(t) ==
    /\ thread[t].pc = "deinit" /\ mutex = "free"
    /\ hal' = [hal EXCEPT !.state = "DEINIT"]
    /\ IF t = "request" THEN GivesUp ELSE Returns(t)
    /\ UNCHANGED <<dev, channels, callback, mutex>>

\* The request that needed the sensor's restart goes on, whatever happened since.
Resume ==
    /\ thread.request.pc = "resume" /\ mutex = "free" /\ Submit(hal, thread.request.kind)
    /\ UNCHANGED <<channels, callback, mutex>>

\* configureStreams, when everything has been returned, and with no other call.
Configure ==
    /\ thread = [t \in {"request", "flush"} |-> Idle] /\ mutex = "free"
    /\ hal.buffers = {} /\ hal.requests = <<>> /\ callback = <<>>
    /\ channels' = "stopped" /\ dev' = [dev EXCEPT !.sent = <<>>, !.with = {}]
    /\ \/ /\ hal.state \in {"INITIALIZED", "STARTED"} /\ UNCHANGED thread
          /\ hal' = [hal EXCEPT !.state = "CONFIGURED", !.drops = {}, !.reprocs = <<>>, !.jobs = <<>>]
       \/ hal.state = "ERROR" /\ Does("request", "begin", "error", "none") /\ UNCHANGED hal
    /\ UNCHANGED <<callback, mutex>>

-----------------------------------------------------------------------------
Init ==
    /\ scene \in DOMAIN Scenes
    /\ hal = [state |-> "INITIALIZED", requests |-> <<>>, buffers |-> {}, num_buffers |-> 0,
              reprocs |-> <<>>, drops |-> {}, live |-> 0, flush |-> FALSE, woken |-> FALSE,
              signal |-> FALSE, tobe |-> 0, first |-> 0, jobs |-> <<>>, frame |-> 0, refused |-> {},
              asked |-> [f \in Frames |-> {}],
              shutters |-> <<>>, results |-> <<>>,
              back |-> [f \in Frames |-> [s \in Streams |-> "none"]]]
    /\ dev = [alive |-> TRUE, sent |-> <<>>, queued |-> {}, with |-> {}]
    /\ channels = "stopped" /\ callback = <<>> /\ mutex = "free"
    /\ thread = [t \in {"request", "flush"} |-> Idle]

Stops(t) == SetFlush(t) \/ StopStreams(t) \/ StopMetadataChannel(t) \/ Notify(t) \/ Deinit(t)

Next ==
    /\ UNCHANGED scene
    /\ \/ MetadataArrives \/ HandleMetadata \/ LoseFrame \/ BufferArrives
       \/ DaemonDied \/ DaemonPullReq
       \/ \E kind \in Setup.kinds : ProcessCaptureRequest(kind)
       \/ StopMetadata \/ WaitForRoom \/ Timeout \/ Resume
       \/ Flush \/ Configure
       \/ \E t \in {"request", "flush"} : Stops(t)

\* A live daemon answers and fills buffers, and threads go on with what they
\* began; nobody has to ask for anything, and the daemon need not fail.
Fairness ==
    /\ WF_vars(UNCHANGED scene /\ (MetadataArrives \/ HandleMetadata))
    /\ WF_vars(UNCHANGED scene /\ BufferArrives)
    /\ WF_vars(UNCHANGED scene /\ (StopMetadata \/ WaitForRoom \/ Timeout \/ Resume))
    /\ \A t \in {"request", "flush"} : WF_vars(UNCHANGED scene /\ Stops(t))

Spec == Init /\ [][Next]_vars /\ Fairness

-----------------------------------------------------------------------------
(* Everything keeps its type.                                                *)
RequestType == [frame : Frames, input : BOOLEAN, outs : SUBSET Streams, held : SUBSET Streams,
                urgent : BOOLEAN, partial : 0 .. 2]
HalType ==
    [state : {"INITIALIZED", "CONFIGURED", "STARTED", "ERROR", "DEINIT"},
     requests : Seq(RequestType), buffers : SUBSET (Frames \X Streams),
     num_buffers : 0 .. MaxFrame * Cardinality(Streams), reprocs : Seq(Frames),
     drops : SUBSET (Frames \X Streams), live : 0 .. UINT - 1, flush : BOOLEAN,
     woken : BOOLEAN, signal : BOOLEAN, tobe : 0 .. Setup.batch, first : 0 .. MaxFrame,
     jobs : Seq(Frames), frame : 0 .. MaxFrame, refused : SUBSET Frames,
     asked : [Frames -> SUBSET Streams], shutters : Seq(Frames),
     results : Seq([frame : Frames, partial : 0 .. 2]),
     back : [Frames -> [Streams -> {"none", "ok", "error", "twice"}]]]
TypeOK ==
    /\ scene \in DOMAIN Scenes
    /\ hal \in HalType
    /\ dev.alive \in BOOLEAN /\ dev.queued \in SUBSET hal.buffers /\ dev.with \in SUBSET hal.buffers
    /\ dev.sent \in Seq([first : Frames, last : Frames, urgent : BOOLEAN])
    /\ channels \in {"stopped", "streams stopped", "started"}
    /\ callback \in Seq((0 .. MaxFrame) \X (0 .. MaxFrame))
    /\ mutex \in {"free", "request"}

(* The counters that gate the request thread and that are logged tell the truth: *)
(* mPendingLiveRequest counts the live requests in the list and num_buffers the  *)
(* buffers in the map, which are those the service gave and has not back, and    *)
(* after a device error nothing is kept.                                         *)
CountsExact ==
    /\ TypeOK
    /\ hal.state = "STARTED" /\ ~hal.flush =>
         hal.live = Cardinality({n \in DOMAIN hal.requests :
                        ~hal.requests[n].input /\ hal.requests[n].frame \notin hal.refused})
    /\ hal.num_buffers = Cardinality(hal.buffers)
    /\ hal.state = "DEINIT" => hal.buffers = {} /\ hal.requests = <<>>

(* The service gets one last result for a frame, complete, in the order of the  *)
(* requests, with its shutter, if it has one, in that order too, and no buffer   *)
(* twice.                                                                        *)
Rising(s) == \A m, n \in DOMAIN s : m < n => s[m] < s[n]
ResultsInOrder ==
    /\ Rising(hal.shutters)
    /\ Rising([n \in DOMAIN hal.results |-> hal.results[n].frame])
    /\ \A n \in DOMAIN hal.results : hal.results[n].partial = 2
    /\ \A f \in Frames, s \in Streams : hal.back[f][s] # "twice"

(* Everything that was asked for comes back: the frames asked for get their last  *)
(* results and buffers in the end, unless the device failed and nobody flushes it,  *)
(* or the frame waits for its batch to fill, or was refused.  No request waits for   *)
(* ever and no flush hangs: as the service makes finitely many requests, its threads *)
(* come to rest again and again.                                                     *)
Kept(f) == (\E b \in hal.buffers : b[1] = f) \/ At(hal, f) # {} \/ f \in ToSet(hal.reprocs)
Owed(f) == Kept(f) /\ f \notin hal.refused
Returned == (\A f \in Frames : ~Owed(f)) \/ hal.state = "ERROR" \/ hal.tobe > 0
Resting == \A t \in {"request", "flush"} : thread[t].pc \in {"idle", "gone"}
AllReturned == []<>Returned /\ []<>Resting

(* Nothing is forgotten: a frame that is in no list any more had its last result *)
(* and its buffers are back with the service.                                     *)
NothingForgotten ==
    \A f \in 1 .. hal.frame : ~Kept(f) =>
        /\ \E n \in DOMAIN hal.results : hal.results[n].frame = f
        /\ {s \in Streams : hal.back[f][s] # "none"} = hal.asked[f]
===============================================================================
