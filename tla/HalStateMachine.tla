--------------------------- MODULE HalStateMachine ---------------------------
(***************************************************************************)
(* The state machine thread of the HAL1 interface                          *)
(* (HAL/QCameraStateMachine.cpp) with the threads that wait for it: the    *)
(* callers of the camera API, the notifier that reports the end of a       *)
(* capture and waits until that is processed, the thread of a live         *)
(* snapshot, and the destructor.                                           *)
(*                                                                         *)
(* A call is put in api_queue, an event in evt_queue; the thread takes     *)
(* calls first.  Answers go to one list, from which a waiting caller takes *)
(* the first entry for the API it called.                                  *)
(***************************************************************************)
EXTENDS HalCamera, FiniteSets

CONSTANTS
    Callers,     \* threads that call the API and wait: the client, Int_Pic_thread
    Scenes,      \* what device and client do: names to records of SceneType
    MaxQueue     \* bound on the events in the queue when another one is posted or called

\* The API calls, grouped as the handlers list them, and the events.
Settings == {"SET_CALLBACKS", "MSG_TYPE_ENABLED", "GET_PARAMS", "PUT_PARAMS"}
Queries == {"PREVIEW_ENABLED", "RECORDING_ENABLED"}
Requests == {"STORE_METADATA_IN_BUFS", "DUMP", "START_AUTO_FOCUS", "STOP_AUTO_FOCUS",
             "REG_FACE_IMAGE"}
ControlApis == Settings \cup {"SET_PREVIEW_WINDOW", "ENABLE_MSG_TYPE", "DISABLE_MSG_TYPE",
                              "SET_PARAMS"}
PreviewApis == Queries \cup {"PREPARE_PREVIEW", "START_PREVIEW", "START_NODISPLAY_PREVIEW",
                             "STOP_PREVIEW"}
CaptureApis == Requests \cup {"SEND_COMMAND", "START_RECORDING", "STOP_RECORDING",
    "RELEASE_RECORIDNG_FRAME", "PREPARE_SNAPSHOT", "TAKE_PICTURE", "CANCEL_PICTURE", "RELEASE",
    "STOP_CAPTURE_CHANNEL"}
Events == {"PREP_SNAPSHOT_DONE", "READY_FOR_SNAPSHOT", "SNAPSHOT_DONE", "DAEMON_DIED",
           "THERMAL_NOTIFY"}

\* The payloads: parameters by name, commands, whether there is a window.
ParamsNamed == [photo |-> [zsl |-> FALSE, hint |-> FALSE], zsl |-> [zsl |-> TRUE, hint |-> FALSE],
                video |-> [zsl |-> FALSE, hint |-> TRUE], zslvideo |-> [zsl |-> TRUE, hint |-> TRUE]]

SceneType ==
    [calls : [Callers -> SUBSET (STRING \X STRING)],  \* the calls a caller makes, with payload
     start : STRING,                 \* the parameters it opens with, a name of ParamsNamed
     may : SUBSET Failures,          \* what can fail
     restart : BOOLEAN,              \* persist.camera.feature.restart
     flash : BOOLEAN,                \* mFlashNeeded
     polite : BOOLEAN,               \* no picture is asked for while one is taken
     dies : BOOLEAN,                 \* the daemon may die
     closes : BOOLEAN]               \* the device may be closed

ASSUME HalOK ==
    /\ \A n \in DOMAIN Scenes : Scenes[n] \in SceneType
    /\ MaxQueue \in Nat

VARIABLES
    scene,       \* a name in Scenes
    cam,         \* the camera and m_state
    api_queue, evt_queue,   \* calls and events not handled yet
    results,     \* m_apiResultList: answers nobody has taken yet
    call,        \* what each caller waits for
    notifier,    \* the notifier thread: idle or in processSyncEvt
    closing,     \* how far the destructor is
    running      \* the state machine thread runs

vars == <<scene, cam, api_queue, evt_queue, results, call, notifier, closing, running>>

Setup == Scenes[scene]
Idle == [api |-> "none", woken |-> FALSE, next |-> <<>>]

-----------------------------------------------------------------------------
(* Pieces of the handlers. *)

Answer(S, e) == {[w EXCEPT !.ans = Append(@, [api |-> e, rc |-> w.rc])] : w \in S}
Refuse(w, e) == Answer(Error(w), e)
Enter(s, S) == {[w EXCEPT !.state = s] : w \in S}
Reported(S) == {[w EXCEPT !.evt = TRUE] : w \in S}
OnError(s, S) == {IF w.rc = "ok" THEN w ELSE [w EXCEPT !.state = s] : w \in S}
OnOk(s, S) == {IF w.rc = "ok" THEN [w EXCEPT !.state = s] ELSE w : w \in S}

Setting(w, e) == Answer(Attempt("ioctl", w, w), e)
Query(w, e) == Answer(Ok(w), e)
MsgType(w, e) == Answer(Ok([w EXCEPT !.msg = e = "ENABLE_MSG_TYPE"]), e)

ApplyDelayedMsgs(w) ==
    IF w.delay THEN [w EXCEPT !.msg = @ \/ w.delayed, !.delay = FALSE, !.delayed = FALSE] ELSE w

\* SET_PARAMS, where Restart says what a change of the streams does.
SetParams(w, a, Restart(_)) ==
    Answer(IfOk(UpdateParameters(w, ParamsNamed[a]), LAMBDA x :
                IF x.need THEN Restart(x) ELSE CommitParameterChanges(x)), "SET_PARAMS")

\* Mutant: a preview that fails to start stays prepared.
StartOrUnprepare_Leaves(w) == StartPreview(w)

StartOrUnprepare(w) == Undo(StartPreview(w), UnpreparePreview)
RestartPreview(w) == IfOk(PreparePreview(StopPreview(w)), StartOrUnprepare)
RestartDelayed(w) ==
    IfOk(PreparePreview(w), LAMBDA x : StartOrUnprepare(ApplyDelayedMsgs(x)))

-----------------------------------------------------------------------------
(* QCAMERA_SM_STATE_PREVIEW_STOPPED *)

StoppedControl(w, e, a) ==
    CASE e = "SET_PREVIEW_WINDOW" -> Query([w EXCEPT !.window = a = "window"], e)
      [] e = "SET_PARAMS" -> SetParams(w, a, CommitParameterChanges)
      [] e \in {"ENABLE_MSG_TYPE", "DISABLE_MSG_TYPE"} -> MsgType(w, e)
      [] e \in Settings -> Setting(w, e)

StoppedStart(w) ==
    OnOk("PREVIEWING", IfOk(PreparePreview(w), LAMBDA x : StartOrUnprepare(ApplyDelayedMsgs(x))))

StoppedPreview(w, e) ==
    CASE e = "PREPARE_PREVIEW" -> Answer(OnOk("PREVIEW_READY", PreparePreview(w)), e)
      [] e = "START_PREVIEW" ->
            Answer(IF w.window THEN StoppedStart(w) ELSE OnOk("PREVIEW_READY", PreparePreview(w)), e)
      [] e = "START_NODISPLAY_PREVIEW" -> Answer(StoppedStart(w), e)
      [] OTHER -> Query(w, e)

StoppedCapture(w, e, a) ==
    CASE e = "SEND_COMMAND" -> Answer(SendCommand(w, a), e)
      [] e = "RELEASE" -> Answer(Release(w), e)
      [] e \in {"START_AUTO_FOCUS", "CANCEL_PICTURE"} -> Query(w, e)
      [] e \in Requests \ {"START_AUTO_FOCUS"} -> Setting(w, e)
      [] e = "STOP_CAPTURE_CHANNEL" -> {w}
      [] OTHER -> Refuse(w, e)

\* Mutant: a state without a capture drops the end of one.
QuietEvents_Silent(w, e) == {w}

QuietEvents(w, e) == IF e = "SNAPSHOT_DONE" THEN Reported({w}) ELSE {w}

-----------------------------------------------------------------------------
(* QCAMERA_SM_STATE_PREVIEW_READY *)

ReadyControl(w, e, a) ==
    CASE e = "SET_PREVIEW_WINDOW" ->
            LET x == [w EXCEPT !.window = a = "window"]
            IN Answer(IF ~x.window THEN Ok(x)
                      ELSE {IF y.rc = "ok" THEN [y EXCEPT !.state = "PREVIEWING"]
                            ELSE [y EXCEPT !.state = "PREVIEW_STOPPED"]
                              : y \in StartOrUnprepare(ApplyDelayedMsgs(x))}, e)
      [] e = "SET_PARAMS" ->
            SetParams(w, a, LAMBDA x : OnError("PREVIEW_STOPPED",
                Then(CommitParameterChanges(UnpreparePreview(x)), PreparePreview)))
      [] e \in {"ENABLE_MSG_TYPE", "DISABLE_MSG_TYPE"} -> MsgType(w, e)
      [] e \in Settings -> Setting(w, e)

\* A start that fails is answered as if it had not.
ReadyStart(w) ==
    {IF x.rc = "ok" THEN [x EXCEPT !.state = "PREVIEWING"]
     ELSE [x EXCEPT !.state = "PREVIEW_STOPPED", !.rc = "ok"] : x \in StartOrUnprepare(w)}

ReadyPreview(w, e) ==
    CASE e = "START_NODISPLAY_PREVIEW" \/ (e = "START_PREVIEW" /\ w.window) ->
            Answer(ReadyStart(w), e)
      [] e = "STOP_PREVIEW" ->
            Answer(Enter("PREVIEW_STOPPED", Ok(UnpreparePreview(w))), e)
      [] OTHER -> Query(w, e)

ReadyCapture(w, e, a) ==
    CASE e = "SEND_COMMAND" -> Answer(SendCommand(w, a), e)
      [] e \in Requests -> Setting(w, e)
      [] e = "STOP_CAPTURE_CHANNEL" -> {w}
      [] OTHER -> Refuse(w, e)

-----------------------------------------------------------------------------
(* QCAMERA_SM_STATE_PREVIEWING *)

PreviewingControl(w, e, a) ==
    CASE e = "SET_PREVIEW_WINDOW" -> Refuse(w, e)
      [] e = "SET_PARAMS" ->
            SetParams(w, a, LAMBDA x : OnError("PREVIEW_STOPPED",
                Then(CommitParameterChanges(StopPreview(x)), RestartDelayed)))
      [] e = "ENABLE_MSG_TYPE" ->
            Query(IF w.delay THEN [w EXCEPT !.delayed = TRUE] ELSE [w EXCEPT !.msg = TRUE], e)
      [] e = "DISABLE_MSG_TYPE" ->
            Query([w EXCEPT !.msg = FALSE, !.delayed = FALSE,
                            !.delay = @ /\ ~w.delayed], e)
      [] e \in Settings -> Setting(w, e)

PreviewingPreview(w, e) ==
    CASE e \in {"START_PREVIEW", "START_NODISPLAY_PREVIEW", "PREVIEW_ENABLED"} ->
            Query(ApplyDelayedMsgs(w), e)
      [] e = "STOP_PREVIEW" ->
            Answer(Enter("PREVIEW_STOPPED", Ok(ApplyDelayedMsgs(StopPreview(w)))), e)
      [] OTHER -> Query(w, e)

\* A picture taken with the preview on: zero shutter lag, or longshot.
TakeWithPreview(w) ==
    LET S == OnError("PREVIEWING",
                     TakePicture([w EXCEPT !.state = "PREVIEW_PIC_TAKING", !.delay = TRUE]))
    IN UNION {IF x.retro /\ x.rc = "ok" THEN {x} ELSE Answer({x}, "TAKE_PICTURE") : x \in S}

\* A picture taken instead of the preview; what failed is answered, not what
\* the preview did afterwards.
TakeAlone(w) ==
    Answer(Then(TakePicture([w EXCEPT !.state = "PIC_TAKING"]), LAMBDA x :
        IF x.rc = "ok" THEN {x}
        ELSE {[y EXCEPT !.rc = "error",
                        !.state = IF y.rc = "ok" THEN "PREVIEWING" ELSE "PREVIEW_STOPPED"]
                : y \in RestartPreview(x)}), "TAKE_PICTURE")

\* Out of a video preview: what this restart gives is ignored.
PreviewForPicture(w) ==
    IF w.hint THEN Then(UpdateRecordingHintValue(StopPreview(w), FALSE), RestartPreview) ELSE {w}

PreviewingPicture(w) ==
    Then(PreviewForPicture(w),
         LAMBDA x : IF x.zsl \/ x.longshot THEN TakeWithPreview(x) ELSE TakeAlone(x))

\* CAMERA_CMD_LONGSHOT_ON may ask for more buffers, which takes a restart.
PreviewingCommand(w, a) ==
    Then(SendCommand(w, a), LAMBDA x :
         IF a = "LONGSHOT_ON" /\ x.zsl /\ x.ch["ZSL"] # "none"
         THEN {x} \cup Then({StopPreview(x)}, RestartDelayed) ELSE {x})

PreviewingCapture(w, e, a) ==
    CASE e = "START_RECORDING" ->
            Answer({IF x.rc = "ok" THEN [ApplyDelayedMsgs(x) EXCEPT !.state = "RECORDING"] ELSE x
                      : x \in StartRecording(w)}, e)
      [] e = "PREPARE_SNAPSHOT" ->
            UNION {IF x.rc = "ok" THEN {[ApplyDelayedMsgs(x) EXCEPT !.state = "PREPARE_SNAPSHOT"]}
                   ELSE Answer({x}, e) : x \in PrepareHardwareForSnapshot(w)}
      [] e = "TAKE_PICTURE" -> PreviewingPicture(w)
      [] e = "SEND_COMMAND" -> Answer(PreviewingCommand(w, a), e)
      [] e \in Requests -> Setting(w, e)
      [] e = "STOP_CAPTURE_CHANNEL" -> {w}
      [] OTHER -> Refuse(w, e)

-----------------------------------------------------------------------------
(* QCAMERA_SM_STATE_PREPARE_SNAPSHOT *)

PrepareApi(w, e) == IF e = "STOP_CAPTURE_CHANNEL" THEN {w} ELSE Refuse(w, e)

PrepareEvents(w, e) ==
    IF e = "PREP_SNAPSHOT_DONE" THEN Answer(Enter("PREVIEWING", Ok(w)), "PREPARE_SNAPSHOT")
    ELSE QuietEvents(w, e)

-----------------------------------------------------------------------------
(* QCAMERA_SM_STATE_PIC_TAKING *)

PicControl(w, e, a) ==
    CASE e = "SET_PREVIEW_WINDOW" -> Refuse(w, e)
      [] e = "SET_PARAMS" -> SetParams(w, a, CommitParameterChanges)
      [] e \in {"ENABLE_MSG_TYPE", "DISABLE_MSG_TYPE"} -> MsgType(w, e)
      [] e \in Settings -> Setting(w, e)

PicPreview(w, e) ==
    CASE e = "STOP_PREVIEW" -> Answer(Enter("PREVIEW_STOPPED", CancelPicture(w)), e)
      [] e \in Queries -> Query(w, e)
      [] OTHER -> Refuse(w, e)

\* Post processing has what it needs: the capture channel is stopped early.
PicStopCapture(w) ==
    IfOk(StopCaptureChannel(w, w.restart), LAMBDA x :
         IF x.restart THEN IfOk(PreparePreview(x), LAMBDA y : StartPreview(ApplyDelayedMsgs(y)))
         ELSE {x})

PicCapture(w, e, a) ==
    CASE e = "CANCEL_PICTURE" -> Answer(Enter("PREVIEW_STOPPED", CancelPicture(w)), e)
      [] e = "SEND_COMMAND" ->
            Answer({IF a = "LONGSHOT_OFF" THEN [x EXCEPT !.state = "PREVIEWING"] ELSE x
                      : x \in SendCommand(w, a)}, e)
      [] e = "TAKE_PICTURE" -> Answer(IF w.longshot THEN LongShot(w) ELSE Error(w), e)
      [] e = "STOP_CAPTURE_CHANNEL" -> Answer(PicStopCapture(w), e)
      [] e \in Requests -> Setting(w, e)
      [] OTHER -> Refuse(w, e)

PicEvents(w, e) ==
    CASE e = "SNAPSHOT_DONE" ->
            Reported(Enter(IF w.restart THEN "PREVIEWING" ELSE "PREVIEW_STOPPED", CancelPicture(w)))
      [] e = "DAEMON_DIED" -> Answer(Answer(Ok(w), "PREPARE_SNAPSHOT"), "TAKE_PICTURE")
      [] OTHER -> {w}

-----------------------------------------------------------------------------
(* QCAMERA_SM_STATE_RECORDING *)

RecordingControl(w, e, a) ==
    CASE e = "SET_PREVIEW_WINDOW" -> Query(w, e)
      [] e = "SET_PARAMS" -> SetParams(w, a, Error)
      [] e \in {"ENABLE_MSG_TYPE", "DISABLE_MSG_TYPE"} -> MsgType(w, e)
      [] e \in Settings -> Setting(w, e)

RecordingPreview(w, e) ==
    CASE e = "STOP_PREVIEW" ->
            Answer(Then(StopRecording(w), LAMBDA x :
                        Enter("PREVIEW_STOPPED", Ok(StopPreview(x)))), e)
      [] e = "START_NODISPLAY_PREVIEW" -> Refuse(w, e)
      [] OTHER -> Query(w, e)

RecordingCapture(w, e, a) ==
    CASE e = "TAKE_PICTURE" ->
            Answer(OnError("RECORDING", TakeLiveSnapshot([w EXCEPT !.state = "VIDEO_PIC_TAKING"])), e)
      [] e = "STOP_RECORDING" -> Answer(Enter("PREVIEWING", StopRecording(w)), e)
      [] e \in {"START_RECORDING", "PREPARE_SNAPSHOT"} -> Query(w, e)
      [] e = "SEND_COMMAND" -> Answer(SendCommand(w, a), e)
      [] e \in Requests \cup {"RELEASE_RECORIDNG_FRAME"} -> Setting(w, e)
      [] e = "STOP_CAPTURE_CHANNEL" -> {w}
      [] OTHER -> Refuse(w, e)

-----------------------------------------------------------------------------
(* QCAMERA_SM_STATE_VIDEO_PIC_TAKING *)

VideoPicControl(w, e, a) ==
    IF e = "SET_PREVIEW_WINDOW" THEN Refuse(w, e) ELSE RecordingControl(w, e, a)

VideoPicPreview(w, e) ==
    CASE e = "STOP_PREVIEW" ->
            Answer(Then(Then(CancelLiveSnapshot(w), StopRecording), LAMBDA x :
                        Enter("PREVIEW_STOPPED", Ok(StopPreview(x)))), e)
      [] e \in Queries -> Query(w, e)
      [] OTHER -> Refuse(w, e)

VideoPicCapture(w, e, a) ==
    CASE e = "STOP_RECORDING" ->
            Answer(Enter("PREVIEWING", Then(CancelLiveSnapshot(w), StopRecording)), e)
      [] e = "CANCEL_PICTURE" -> Answer(Enter("RECORDING", CancelLiveSnapshot(w)), e)
      [] e = "SEND_COMMAND" -> Answer(SendCommand(w, a), e)
      [] e \in Requests \cup {"RELEASE_RECORIDNG_FRAME"} -> Setting(w, e)
      [] e = "STOP_CAPTURE_CHANNEL" -> {w}
      [] OTHER -> Refuse(w, e)

VideoPicEvents(w, e) ==
    IF e = "SNAPSHOT_DONE" THEN Reported(Enter("RECORDING", CancelLiveSnapshot(w))) ELSE {w}

-----------------------------------------------------------------------------
(* QCAMERA_SM_STATE_PREVIEW_PIC_TAKING *)

CancelShot(w) == IF w.zsl \/ w.longshot THEN CancelPicture(w) ELSE CancelLiveSnapshot(w)

PreviewPicControl(w, e, a) ==
    CASE e = "SET_PREVIEW_WINDOW" -> Refuse(w, e)
      [] e = "SET_PARAMS" ->
            SetParams(w, a, LAMBDA x : OnError("PIC_TAKING",
                Then(CommitParameterChanges(StopPreview(x)), RestartDelayed)))
      [] e \in {"ENABLE_MSG_TYPE", "DISABLE_MSG_TYPE"} -> MsgType(w, e)
      [] e \in Settings -> Setting(w, e)

PreviewPicPreview(w, e) ==
    CASE e = "STOP_PREVIEW" ->
            Answer({[UnpreparePreview(x) EXCEPT !.state = "PREVIEW_STOPPED"] : x \in CancelShot(w)}, e)
      [] e \in Queries -> Query(w, e)
      [] OTHER -> Refuse(w, e)

PreviewPicCapture(w, e, a) ==
    CASE e = "CANCEL_PICTURE" -> Answer(Enter("PREVIEWING", CancelShot(w)), e)
      [] e = "SEND_COMMAND" ->
            Answer({IF a = "LONGSHOT_OFF" THEN [x EXCEPT !.state = "PREVIEWING"] ELSE x
                      : x \in SendCommand(w, a)}, e)
      [] e = "START_RECORDING" ->
            Answer(IF w.zsl \/ w.longshot THEN Error(w)
                   ELSE OnOk("VIDEO_PIC_TAKING", StartRecording(w)), e)
      [] e = "TAKE_PICTURE" -> Answer(IF w.longshot THEN LongShot(w) ELSE Error(w), e)
      [] e = "PREPARE_SNAPSHOT" ->
            IF ~w.retro THEN Refuse(w, e)
            ELSE UNION {IF x.rc = "ok" THEN {x} ELSE Answer({x}, e)
                          : x \in PrepareHardwareForSnapshot(w)}
      [] e \in Requests \cup {"RELEASE_RECORIDNG_FRAME"} -> Setting(w, e)
      [] e = "STOP_CAPTURE_CHANNEL" -> {w}
      [] OTHER -> Refuse(w, e)

PreviewPicEvents(w, e) ==
    CASE e = "PREP_SNAPSHOT_DONE" /\ w.retro -> Answer(Ok(w), "PREPARE_SNAPSHOT")
      [] e = "READY_FOR_SNAPSHOT" /\ w.retro -> Answer(Ok(w), "TAKE_PICTURE")
      [] e = "SNAPSHOT_DONE" ->
            LET S == Enter("PREVIEWING", CancelShot(w))
            IN Reported(IF w.retro THEN Answer(S, "SNAPSHOT_DONE") ELSE S)
      [] OTHER -> {w}

-----------------------------------------------------------------------------
(* The thread: one handler per state. *)

StateMachine(w, e, a) ==
    CASE w.state = "PREVIEW_STOPPED" ->
            (CASE e \in ControlApis -> StoppedControl(w, e, a)
               [] e \in PreviewApis -> StoppedPreview(w, e)
               [] e \in CaptureApis -> StoppedCapture(w, e, a)
               [] e \in Events -> QuietEvents(w, e))
      [] w.state = "PREVIEW_READY" ->
            (CASE e \in ControlApis -> ReadyControl(w, e, a)
               [] e \in PreviewApis -> ReadyPreview(w, e)
               [] e \in CaptureApis -> ReadyCapture(w, e, a)
               [] e \in Events -> QuietEvents(w, e))
      [] w.state = "PREVIEWING" ->
            (CASE e \in ControlApis -> PreviewingControl(w, e, a)
               [] e \in PreviewApis -> PreviewingPreview(w, e)
               [] e \in CaptureApis -> PreviewingCapture(w, e, a)
               [] e \in Events -> QuietEvents(w, e))
      [] w.state = "PREPARE_SNAPSHOT" ->
            IF e \in Events THEN PrepareEvents(w, e) ELSE PrepareApi(w, e)
      [] w.state = "PIC_TAKING" ->
            (CASE e \in ControlApis -> PicControl(w, e, a)
               [] e \in PreviewApis -> PicPreview(w, e)
               [] e \in CaptureApis -> PicCapture(w, e, a)
               [] e \in Events -> PicEvents(w, e))
      [] w.state = "RECORDING" ->
            (CASE e \in ControlApis -> RecordingControl(w, e, a)
               [] e \in PreviewApis -> RecordingPreview(w, e)
               [] e \in CaptureApis -> RecordingCapture(w, e, a)
               [] e \in Events -> QuietEvents(w, e))
      [] w.state = "VIDEO_PIC_TAKING" ->
            (CASE e \in ControlApis -> VideoPicControl(w, e, a)
               [] e \in PreviewApis -> VideoPicPreview(w, e)
               [] e \in CaptureApis -> VideoPicCapture(w, e, a)
               [] e \in Events -> VideoPicEvents(w, e))
      [] w.state = "PREVIEW_PIC_TAKING" ->
            (CASE e \in ControlApis -> PreviewPicControl(w, e, a)
               [] e \in PreviewApis -> PreviewPicPreview(w, e)
               [] e \in CaptureApis -> PreviewPicCapture(w, e, a)
               [] e \in Events -> PreviewPicEvents(w, e))

\* Mutant: one of the waiting callers is woken, not all.
Wake_One ==
    LET waiting == {c \in Callers : call[c].api # "none"}
    IN IF waiting = {} THEN call ELSE [call EXCEPT ![CHOOSE c \in waiting : TRUE].woken = TRUE]

Wake == [c \in Callers |-> [call[c] EXCEPT !.woken = call[c].api # "none"]]
Message(e, a) == [evt |-> e, arg |-> a]
Posts(es) == [i \in DOMAIN es |-> Message(es[i], "none")]

\* Answers that no caller ever waits for: they stay in the list for good.
NeverAwaited == {"SNAPSHOT_DONE", "STOP_CAPTURE_CHANNEL"}

\* What a handler leaves for others: answers in the list and everybody woken,
\* the event reported, calls and events posted.
Settle(w, api, evt) ==
    /\ cam' = [w EXCEPT !.ans = <<>>, !.evt = FALSE, !.to_api = <<>>, !.to_evt = <<>>,
                        !.need = FALSE, !.rc = "ok"]
    /\ api_queue' = api \o Posts(w.to_api)
    /\ evt_queue' = evt \o Posts(w.to_evt)
    /\ results' = results \o SelectSeq(w.ans, LAMBDA r : r.api \notin NeverAwaited)
    /\ call' = IF w.ans = <<>> THEN call ELSE Wake
    /\ notifier' = IF w.evt THEN "idle" ELSE notifier

\* smEvtProcRoutine: a call if there is one, else an event.
SmEvtProc ==
    /\ running
    /\ LET fromApi == api_queue # <<>>
           m == IF fromApi THEN Head(api_queue) ELSE Head(evt_queue)
           api == IF fromApi THEN Tail(api_queue) ELSE api_queue
           evt == IF fromApi THEN evt_queue ELSE Tail(evt_queue)
       IN /\ fromApi \/ evt_queue # <<>>
          /\ IF m.evt = "EXIT"
             THEN /\ running' = FALSE /\ api_queue' = api
                  /\ UNCHANGED <<cam, evt_queue, results, call, notifier>>
             ELSE /\ \E w \in StateMachine(cam, m.evt, m.arg) : Settle(w, api, evt)
                  /\ UNCHANGED running
    /\ UNCHANGED closing

-----------------------------------------------------------------------------
(* The callers. *)

\* lockAPI, processAPI, and waitAPIResult up to its wait.
Enqueue(e, a) == api_queue' = Append(api_queue, Message(e, a))
Wait(c, e, next) == call' = [call EXCEPT ![c] = [api |-> e, woken |-> FALSE, next |-> next]]

RetroPossible == cam.zsl /\ ~cam.longshot

\* take_picture: in retro mode the picture comes before the preparation.
TakePictureCall(c, a) ==
    LET retro == a = "retro" /\ RetroPossible
        prepare == IF Setup.flash THEN <<"PREPARE_SNAPSHOT">> ELSE <<>>
        calls == IF retro THEN <<"TAKE_PICTURE">> \o prepare ELSE prepare \o <<"TAKE_PICTURE">>
        after == IF a = "internal" THEN <<"post SNAPSHOT_DONE", "post START_PREVIEW">> ELSE <<>>
    IN /\ Enqueue(calls[1], "none")
       /\ Wait(c, calls[1], Tail(calls) \o after)
       /\ cam' = [cam EXCEPT !.retro = retro]

Call(c) ==
    /\ closing = "open" /\ call[c] = Idle /\ Len(evt_queue) < MaxQueue
    /\ \E ea \in Setup.calls[c] :
         IF ea[1] = "TAKE_PICTURE"
         THEN (Setup.polite => ~IsCaptureRunning(cam)) /\ TakePictureCall(c, ea[2])
         ELSE Enqueue(ea[1], ea[2]) /\ Wait(c, ea[1], <<>>) /\ UNCHANGED cam
    /\ UNCHANGED <<evt_queue, results, notifier, closing, running>>

AnswerAt(c) ==
    LET mine == {i \in DOMAIN results : results[i].api = call[c].api}
    IN IF mine = {} THEN 0 ELSE CHOOSE i \in mine : \A j \in mine : i <= j

\* The rest of waitAPIResult, once woken: the first entry for that API, or
\* another wait.  The internal picture skips its report when it was not taken.
WaitAPIResult(c) ==
    LET i == AnswerAt(c)
    IN /\ call[c].woken
       /\ IF i = 0
          THEN call' = [call EXCEPT ![c].woken = FALSE] /\ UNCHANGED results
          ELSE /\ results' = SubSeq(results, 1, i - 1) \o SubSeq(results, i + 1, Len(results))
               /\ call' = [call EXCEPT ![c] =
                    [Idle EXCEPT !.next =
                        IF results[i].rc = "error" /\ call[c].api = "TAKE_PICTURE" /\ Len(call[c].next) = 2
                        THEN Tail(call[c].next) ELSE call[c].next]]
       /\ UNCHANGED <<cam, api_queue, evt_queue, notifier, closing, running>>

\* The next call of the same operation; the internal picture does not wait for
\* the last ones.
NextCall(c) ==
    LET e == Head(call[c].next) IN
    /\ call[c].api = "none" /\ call[c].next # <<>>
    /\ CASE e = "post SNAPSHOT_DONE" ->
              /\ api_queue' = Append(api_queue, Message("SNAPSHOT_DONE", "none"))
              /\ call' = [call EXCEPT ![c].next = Tail(@)]
         [] e = "post START_PREVIEW" ->
              /\ api_queue' = IF cam.zsl THEN api_queue
                              ELSE Append(api_queue, Message("START_PREVIEW", "none"))
              /\ call' = [call EXCEPT ![c].next = Tail(@)]
         [] OTHER -> Enqueue(e, "none") /\ Wait(c, e, Tail(call[c].next))
    /\ UNCHANGED <<cam, evt_queue, results, notifier, closing, running>>

-----------------------------------------------------------------------------
(* The other threads. *)

Post(e) == /\ Len(evt_queue) < MaxQueue
           /\ evt_queue' = Append(evt_queue, Message(e, "none"))

\* Metadata says that the sensor is prepared.
PrepSnapshotDone ==
    /\ cam.prep /\ Post("PREP_SNAPSHOT_DONE")
    /\ cam' = [cam EXCEPT !.prep = FALSE, !.before = IF @ = "led" THEN "none" ELSE @]
    /\ UNCHANGED <<api_queue, results, call, notifier, closing, running>>

\* The last retroactive frame of a capture; with a flash the others wait for
\* the preparation.
ReadyForSnapshot ==
    /\ cam.before = "retro" /\ Post("READY_FOR_SNAPSHOT")
    /\ cam' = [cam EXCEPT !.before = IF Setup.flash THEN "led" ELSE "none"]
    /\ UNCHANGED <<api_queue, results, call, notifier, closing, running>>

\* The notifier delivers the last picture of a capture: processSyncEvt.  They
\* come after the retroactive ones, after the preparation and, encoded, after
\* post processing has stopped a single capture.
NotifySnapshot ==
    /\ notifier = "idle" /\ cam.post /\ cam.shot # "none" /\ ~cam.longshot
    /\ cam.before = "none" /\ ~cam.prep
    /\ Post("SNAPSHOT_DONE")
    /\ notifier' = "waiting"
    /\ cam' = [cam EXCEPT !.shot = "none"]
    /\ UNCHANGED <<api_queue, results, call, closing, running>>

\* Post processing of a regular capture went through its queues: stopCapture.
StopCapture ==
    /\ cam.post /\ cam.shot = "CAPTURE" /\ ~cam.longshot /\ ~cam.hint /\ ~cam.zsl
    /\ closing = "open" /\ api_queue = <<>>
    /\ api_queue' = Append(api_queue, Message("STOP_CAPTURE_CHANNEL", "none"))
    /\ cam' = [cam EXCEPT !.before = "none"]
    /\ UNCHANGED <<evt_queue, results, call, notifier, closing, running>>

LiveSnapshotThread ==
    /\ cam.live
    /\ \E w \in TakeLiveSnapshotInternal(cam) :
         /\ cam' = [w EXCEPT !.to_api = <<>>, !.rc = "ok"]
         /\ api_queue' = IF closing = "open" THEN api_queue \o Posts(w.to_api) ELSE api_queue
    /\ UNCHANGED <<evt_queue, results, call, notifier, closing, running>>

DaemonDies ==
    /\ Setup.dies /\ \A i \in DOMAIN evt_queue : evt_queue[i].evt # "DAEMON_DIED"
    /\ Post("DAEMON_DIED")
    /\ UNCHANGED <<cam, api_queue, results, call, notifier, closing, running>>

\* The destructor: m_smThreadActive is cleared, the state machine thread is
\* told to exit and joined, then the notifier, then everything is stopped.
Close ==
    /\ Setup.closes
    /\ \/ /\ closing = "open" /\ \A c \in Callers : call[c] = Idle
          /\ closing' = "joining thread"
          /\ api_queue' = Append(api_queue, Message("EXIT", "none"))
          /\ UNCHANGED cam
       \/ /\ closing = "joining thread" /\ ~running
          /\ closing' = "joining notifier"
          /\ UNCHANGED <<cam, api_queue>>
       \/ /\ closing = "joining notifier" /\ notifier = "idle"
          /\ closing' = "closed"
          /\ cam' = [DelChannels(cam, Channels) EXCEPT !.post = FALSE, !.prep = FALSE]
          /\ UNCHANGED api_queue
    /\ UNCHANGED <<evt_queue, results, call, notifier, running>>

-----------------------------------------------------------------------------
Init ==
    /\ scene \in DOMAIN Scenes
    /\ cam = LET p == ParamsNamed[Setup.start] IN
             [state |-> "PREVIEW_STOPPED", ch |-> [c \in Channels |-> "none"], window |-> FALSE,
              zsl |-> p.zsl, zslNew |-> p.zsl, hint |-> p.hint, hintNew |-> p.hint,
              hintKey |-> p.hint, hintTmp |-> p.hint, need |-> FALSE,
              longshot |-> FALSE, retro |-> FALSE, msg |-> FALSE, delay |-> FALSE,
              delayed |-> FALSE, post |-> FALSE, shot |-> "none", before |-> "none",
              prep |-> FALSE, live |-> FALSE, may |-> Setup.may, restart |-> Setup.restart,
              rc |-> "ok", ans |-> <<>>, evt |-> FALSE, to_api |-> <<>>, to_evt |-> <<>>]
    /\ api_queue = <<>> /\ evt_queue = <<>> /\ results = <<>>
    /\ call = [c \in Callers |-> Idle]
    /\ notifier = "idle" /\ closing = "open" /\ running = TRUE

Next ==
    /\ UNCHANGED scene
    /\ \/ SmEvtProc
       \/ \E c \in Callers : Call(c) \/ WaitAPIResult(c) \/ NextCall(c)
       \/ PrepSnapshotDone \/ ReadyForSnapshot \/ NotifySnapshot \/ StopCapture
       \/ LiveSnapshotThread \/ DaemonDies \/ Close

\* Events are taken when there is no call; a client that waits for each answer
\* does not have the next call there every time the thread comes round.
\* Threads that have something to do do it, and a sensor that prepares gets
\* there; nobody has to make another call or to take another picture.
Fairness ==
    /\ WF_vars(UNCHANGED scene /\ SmEvtProc)
    /\ SF_vars(UNCHANGED scene /\ api_queue = <<>> /\ SmEvtProc)
    /\ WF_vars(UNCHANGED scene /\ PrepSnapshotDone)
    /\ WF_vars(UNCHANGED scene /\ ReadyForSnapshot)
    /\ WF_vars(UNCHANGED scene /\ LiveSnapshotThread)
    /\ \A c \in Callers : /\ WF_vars(UNCHANGED scene /\ WaitAPIResult(c))
                          /\ WF_vars(UNCHANGED scene /\ NextCall(c))
    /\ WF_vars(UNCHANGED scene /\ closing # "open" /\ Close)

Spec == Init /\ [][Next]_vars /\ Fairness

-----------------------------------------------------------------------------
(* Every field keeps its type: the handlers leave a camera the code knows, and *)
(* the list holds at most one answer for each caller.                        *)
MessageType == [evt : STRING, arg : STRING]
TypeOK ==
    /\ scene \in DOMAIN Scenes
    /\ cam \in CameraType
    /\ api_queue \in Seq(MessageType) /\ evt_queue \in Seq(MessageType)
    /\ Len(results) <= Cardinality(Callers)
    /\ results \in Seq([api : STRING, rc : {"ok", "error"}])
    /\ call \in [Callers -> [api : STRING, woken : BOOLEAN, next : Seq(STRING)]]
    /\ notifier \in {"idle", "waiting"} /\ running \in BOOLEAN
    /\ closing \in {"open", "joining thread", "joining notifier", "closed"}

(* m_state and the channels agree: with the preview on its channel streams,    *)
(* with it off nothing streams, a prepared preview has its channels ready, and *)
(* the video streams exactly while the camera records.                         *)
Streaming(c) == cam.ch[c] = "started"
ChannelsAgree ==
    /\ cam.state \in {"PREVIEWING", "PREPARE_SNAPSHOT", "RECORDING", "VIDEO_PIC_TAKING",
                      "PREVIEW_PIC_TAKING"} => Streaming("ZSL") \/ Streaming("PREVIEW")
    /\ cam.state = "PREVIEW_STOPPED" => \A c \in Channels : ~Streaming(c)
    /\ cam.state = "PREVIEW_READY" =>
            /\ \A c \in Channels : ~Streaming(c)
            /\ \E c \in {"ZSL", "PREVIEW"} : cam.ch[c] = "added"
    /\ Streaming("VIDEO") = (cam.state \in {"RECORDING", "VIDEO_PIC_TAKING"})
(* A change of the ZSL mode restarts the preview: while one streams it is on   *)
(* the channel that the committed parameters ask for.                          *)
ModeAgrees ==
    closing # "closed" /\ cam.state \in {"PREVIEWING", "PREVIEW_PIC_TAKING"} =>
        /\ Streaming("ZSL") = UsesZsl(cam)
        /\ Streaming("PREVIEW") = ~UsesZsl(cam)

(* The camera does what m_state and the committed parameters say.              *)
StateAgrees == TypeOK /\ (closing # "closed" => ChannelsAgree) /\ ModeAgrees

(* Every call is answered in the end, and returns.                            *)
CallReturns == \A c \in Callers : (call[c].api # "none") ~> (call[c].api = "none")

(* A picture that was delivered is reported as done and the notifier goes on. *)
SnapshotReported == (notifier = "waiting") ~> (notifier = "idle")
===============================================================================
