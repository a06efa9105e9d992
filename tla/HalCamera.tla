------------------------------ MODULE HalCamera ------------------------------
(***************************************************************************)
(* What the HAL1 interface does to the camera: the operations of           *)
(* QCamera2HardwareInterface (HAL/QCamera2HWI.cpp) that the state machine  *)
(* of HAL/QCameraStateMachine.cpp calls.                                   *)
(*                                                                         *)
(* An operation takes the camera and gives the set of cameras it may leave *)
(* behind, each with its return code in rc; which of its steps can fail is *)
(* part of the camera (may).  It runs on the state machine thread from     *)
(* beginning to end, so nothing else sees the cameras in between.          *)
(***************************************************************************)
EXTENDS Naturals, Sequences

Channels == {"ZSL", "PREVIEW", "VIDEO", "SNAPSHOT", "CAPTURE"}

\* none: m_channels[c] is NULL; hollow: the object is there, its channel deleted.
ChannelStates == {"none", "hollow", "added", "started"}

States == {"PREVIEW_STOPPED", "PREVIEW_READY", "PREVIEWING", "PREPARE_SNAPSHOT",
           "PIC_TAKING", "RECORDING", "VIDEO_PIC_TAKING", "PREVIEW_PIC_TAKING"}

\* The steps that can fail: registering a configuration, adding a channel, starting
\* one, queueing deferred work, asking for frames, configuring a
\* special capture, starting it,
\* creating the thread of a live snapshot, what that thread does, an ioctl, and
\* a parameter string with one value that is refused.
Failures == {"configure", "add", "start", "defer", "request", "advanced",
             "bracket", "thread", "live", "ioctl", "params"}

CameraType ==
    [state : States, ch : [Channels -> ChannelStates],
     window : BOOLEAN,                      \* mPreviewWindow
     zsl : BOOLEAN, hint : BOOLEAN,         \* m_bZslMode, m_bRecordingHint
     zslNew : BOOLEAN, hintNew : BOOLEAN,   \* m_bZslMode_new (and KEY_QC_ZSL), m_bRecordingHint_new
     hintKey : BOOLEAN, hintTmp : BOOLEAN,  \* KEY_RECORDING_HINT, and as m_tempMap will make it
     need : BOOLEAN,                        \* m_bNeedRestart
     longshot : BOOLEAN, retro : BOOLEAN,   \* mLongshotEnabled, bRetroPicture
     msg : BOOLEAN,                         \* CAMERA_MSG_PREVIEW_FRAME in mMsgEnabled
     delay : BOOLEAN, delayed : BOOLEAN,    \* m_bDelayPreviewMsgs, m_DelayedMsgs
     post : BOOLEAN,                        \* the post processor and the notifier take frames
     shot : Channels \cup {"none"},         \* the channel a capture's frames come from
     before : {"none", "retro", "led", "stop"}, \* what comes before its last frames
     prep : BOOLEAN,                        \* the sensor prepares for a snapshot
     live : BOOLEAN,                        \* the thread of a live snapshot is under way
     may : SUBSET Failures, restart : BOOLEAN, \* the device: what fails, isPreviewRestartEnabled
     rc : {"ok", "error"},                  \* of the operation
     ans : Seq([api : STRING, rc : {"ok", "error"}]), \* signalAPIResult
     evt : BOOLEAN,                         \* signalEvtResult(SNAPSHOT_DONE)
     to_api : Seq(STRING), to_evt : Seq(STRING)]   \* processAPI, processEvt

\* Outcomes of one step, and of one step after another.
Ok(w) == {[w EXCEPT !.rc = "ok"]}
Error(w) == {[w EXCEPT !.rc = "error"]}
Attempt(step, good, bad) == Ok(good) \cup IF step \in good.may THEN Error(bad) ELSE {}
Then(S, Do(_)) == UNION {Do(w) : w \in S}
IfOk(S, Do(_)) == UNION {IF w.rc = "ok" THEN Do(w) ELSE {w} : w \in S}
Undo(S, Un(_)) == {IF w.rc = "ok" THEN w ELSE Un(w) : w \in S}

IsCaptureRunning(w) == w.state \in {"PIC_TAKING", "VIDEO_PIC_TAKING", "PREVIEW_PIC_TAKING"}

UsesZsl(w) == w.zsl /\ ~w.hint

-----------------------------------------------------------------------------
(* Parameters: the two that decide which channels a preview has. *)

ParamType == [zsl : BOOLEAN, hint : BOOLEAN]

\* commitSetBatch, commitParamChanges
CommitParameterChanges(w) ==
    Attempt("ioctl", [w EXCEPT !.zsl = w.zslNew, !.hint = w.hintNew, !.hintKey = w.hintTmp], w)

\* Mutant: a change of the ZSL mode does not ask for a restart.
UpdateParameters_NoRestart(w, p) ==
    {[x EXCEPT !.need = p.hint # w.hintKey /\ p.hint # w.hint] : x \in 
        Attempt("params", [w EXCEPT !.zslNew = p.zsl, !.hintNew = p.hint, !.hintTmp = p.hint], w)}

\* Every setter compares with the value the map holds, and its work stays when
\* another one fails.
UpdateParameters(w, p) ==
    LET hinted == p.hint # w.hintKey
        x == [w EXCEPT !.zslNew = p.zsl, !.hintNew = IF hinted THEN p.hint ELSE @,
                       !.hintTmp = IF hinted THEN p.hint ELSE @,
                       !.need = p.zsl # w.zslNew \/ (hinted /\ p.hint # w.hint)]
    IN Attempt("params", x, x)

UpdateRecordingHintValue(w, value) == CommitParameterChanges([w EXCEPT !.hintNew = value])

-----------------------------------------------------------------------------
(* Channels. *)

DelChannels(w, cs) ==
    [w EXCEPT !.ch = [c \in Channels |-> IF c \in cs THEN "none" ELSE @[c]],
              !.shot = IF @ \in cs THEN "none" ELSE @,
              !.before = IF w.shot \in cs THEN "none" ELSE @]

\* add*Channel deletes a channel of that type that is still there.
AddChannel(w, c) ==
    LET d == DelChannels(w, {c}) IN Attempt("add", [d EXCEPT !.ch[c] = "added"], d)

StartChannel(w, c) ==
    IF w.ch[c] \in {"none", "hollow"} THEN Error(w)
    ELSE Attempt("start", [w EXCEPT !.ch[c] = "started"], w)

StopChannel(w, c) ==
    CASE w.ch[c] = "none" -> Error(w)
      [] w.ch[c] = "started" -> Ok([w EXCEPT !.ch[c] = "added"])
      [] OTHER -> Ok(w)

-----------------------------------------------------------------------------
(* Pictures. *)

CancelPicture(w) ==
    LET q == [w EXCEPT !.post = FALSE, !.shot = "none", !.before = "none"]
    IN Ok(IF w.zsl THEN q ELSE DelChannels(q, {"CAPTURE"}))

\* CAMERA_CMD_LONGSHOT_OFF: a capture under way is cancelled, and reported as
\* done through the event queue.
LongshotOff(w) ==
    Then(IF w.longshot /\ IsCaptureRunning(w)
         THEN {[c EXCEPT !.to_evt = Append(@, "SNAPSHOT_DONE")] : c \in CancelPicture(w)}
         ELSE {w},
         LAMBDA x : Attempt("ioctl", [x EXCEPT !.longshot = FALSE], [x EXCEPT !.longshot = FALSE]))

LongshotOn(w) ==
    IF IsCaptureRunning(w) THEN Error(w)
    ELSE Attempt("ioctl", [w EXCEPT !.longshot = TRUE], [w EXCEPT !.longshot = TRUE])

SendCommand(w, cmd) ==
    CASE cmd = "LONGSHOT_ON" -> LongshotOn(w)
      [] cmd = "LONGSHOT_OFF" -> LongshotOff(w)
      [] OTHER -> Attempt("ioctl", w, w)

-----------------------------------------------------------------------------
(* Preview and recording. *)

VideoChannels(w) ==
    IfOk(Then(IF w.longshot THEN LongshotOff(w) ELSE {w}, LAMBDA x : AddChannel(x, "SNAPSHOT")),
         LAMBDA x : Undo(AddChannel(x, "VIDEO"), LAMBDA y : DelChannels(y, {"SNAPSHOT"})))

PreparePreview(w) ==
    IfOk(Attempt("configure", w, w), LAMBDA x :
        IF UsesZsl(x) THEN AddChannel(x, "ZSL")
        ELSE IfOk(IF x.hint THEN VideoChannels(x) ELSE {x}, LAMBDA y :
                  Undo(AddChannel(y, "PREVIEW"), LAMBDA z :
                       DelChannels(z, IF z.hint THEN {"SNAPSHOT", "VIDEO", "PREVIEW"}
                                      ELSE {"PREVIEW"}))))

UnpreparePreview(w) == DelChannels(w, {"ZSL", "PREVIEW", "VIDEO", "SNAPSHOT"})

\* The channel starts before the deferred initialisation is queued, and is not
\* stopped when that fails.
StartPreview(w) ==
    IfOk(StartChannel(w, IF UsesZsl(w) THEN "ZSL" ELSE "PREVIEW"),
         LAMBDA x : Attempt("defer", x, x))

StopPreview(w) == UnpreparePreview(w)

StartRecording(w) ==
    IfOk(IF w.hint THEN Ok(w)
         ELSE IfOk(Then(UpdateRecordingHintValue(StopPreview(w), TRUE), PreparePreview), StartPreview),
         LAMBDA x : StartChannel(x, "VIDEO"))

StopRecording(w) == StopChannel(w, "VIDEO")

-----------------------------------------------------------------------------
(* Taking pictures. *)

LongShot(w) ==
    IF w.ch[IF w.zsl THEN "ZSL" ELSE "CAPTURE"] = "none" THEN Error(w)
    ELSE Attempt("request", [w EXCEPT !.shot = IF w.zsl THEN "ZSL" ELSE "CAPTURE"], w)

\* CMD_DEF_PPROC_START, then CMD_DEF_CREATE_JPEG_SESSION.
Deferred(w) ==
    IfOk(Attempt("defer", [w EXCEPT !.post = TRUE], w), LAMBDA x : Attempt("defer", x, x))

TakeZsl(w) ==
    IF w.ch["ZSL"] = "none" THEN Error(w)
    ELSE IfOk(Attempt("configure", w, w), LAMBDA x :
         IfOk(Deferred(x), LAMBDA y :
              Attempt("request", [y EXCEPT !.shot = "ZSL", !.before = IF y.retro THEN "retro" ELSE "none"],
                                 [y EXCEPT !.post = FALSE])))

TakeRegular(w) ==
    LET DelCapture(x) == DelChannels(x, {"CAPTURE"})
        Added(x) == IfOk(AddChannel(x, "CAPTURE"), LAMBDA y : Attempt("configure", y, y))
        Started(x) == Undo(StartChannel(x, "CAPTURE"), DelCapture)
        Shoot(x) == IF x.longshot THEN Undo(LongShot(x), DelCapture)
                    ELSE Ok([x EXCEPT !.shot = "CAPTURE", !.before = "stop"])
    IN IfOk(Attempt("configure", StopPreview(w), StopPreview(w)), LAMBDA a :
       IfOk(Undo(Added(a), DelCapture), LAMBDA b :
       IfOk(Deferred(b), LAMBDA c :
       IfOk(Started(c), LAMBDA d :
       IfOk(Attempt("bracket", d, d), Shoot)))))

TakePicture(w) ==
    IfOk(Attempt("advanced", w, w), LAMBDA x : IF x.zsl THEN TakeZsl(x) ELSE TakeRegular(x))

\* The channel object stays, its channel is gone.
StopCaptureChannel(w, destroy) ==
    IfOk(StopChannel(w, "CAPTURE"),
         LAMBDA x : Ok(IF destroy THEN [x EXCEPT !.ch["CAPTURE"] = "hollow"] ELSE x))

\* What the thread of a live snapshot does from beginning to end.
TakeLiveSnapshotInternal(w) ==
    LET x == [w EXCEPT !.live = FALSE, !.post = TRUE]
        gone == x.ch["SNAPSHOT"] \in {"none", "hollow"}
    IN (IF gone THEN {} ELSE Ok([x EXCEPT !.ch["SNAPSHOT"] = "started", !.shot = "SNAPSHOT"]))
       \cup (IF gone \/ "live" \in x.may
             THEN Error([x EXCEPT !.to_api = Append(@, "CANCEL_PICTURE")]) ELSE {})

TakeLiveSnapshot(w) == Attempt("thread", [w EXCEPT !.live = TRUE], w)

\* The thread is joined before anything is stopped.
CancelLiveSnapshot(w) ==
    Then(IF w.live THEN TakeLiveSnapshotInternal(w) ELSE {w},
         LAMBDA x : StopChannel([x EXCEPT !.post = FALSE, !.shot = "none"], "SNAPSHOT"))

PrepareHardwareForSnapshot(w) == Attempt("ioctl", [w EXCEPT !.prep = TRUE], w)

Release(w) == Ok(DelChannels(w, Channels))

===============================================================================
