------------------------------ MODULE HalPostProc ------------------------------
(* The post processor of the HAL1 camera (QCameraPostProc): what happens to a   *)
(* superbuf between the snapshot channel and the picture the application gets.  *)
(*                                                                              *)
(*  - the callback thread of the source channel brings superbufs (processData); *)
(*  - the data thread (dataProcessRoutine) gives them to the reprocess channels *)
(*    (doReprocess), whose callback threads bring the results (processPPData),  *)
(*    or to the JPEG encoder (encodeData), or to the application as raw image;  *)
(*  - the encoder answers through the HAL's state machine (processJpegEvt), in  *)
(*    longshot by way of the save thread (dataSaveRoutine);                     *)
(*  - the notifier thread (cbNotifyRoutine) calls the application;              *)
(*  - the HAL thread, the state machine with its deferred work, starts and      *)
(*    stops it all.                                                             *)
EXTENDS Naturals, Sequences, FiniteSets, SequencesExt

CONSTANTS MaxFrame,    \* bound: superbufs of the source channel
          MaxStarts,   \* bound: captures
          Scenes       \* the kinds of capture checked

SceneType ==
    [reproc: BOOLEAN,      \* needReprocess()
     passes: 1..2,         \* getReprocCount(): 2 with persist.camera.multi_pass and zoom
     raw: BOOLEAN,         \* the picture format is NV16 or NV21
     zsl: BOOLEAN,         \* the source channel outlives the capture
     regular: BOOLEAN,     \* isRegularCapture()
     save: BOOLEAN,        \* longshot with persist.camera.longshot.save
     shots: Nat,           \* numOfSnapshotsExpected()
     ppbufs: Nat,          \* buffers of a reprocess stream
     may: SUBSET {"start", "encode", "encoder", "reprocess", "raw"},   \* what can fail
     cancels: BOOLEAN,     \* the client cancels pictures
     hasty: BOOLEAN]       \* it takes the next one before the threads have caught up
ASSUME ScenesAssumption == Scenes \subseteq SceneType

VARIABLES
    scene,
    hal,                   \* the HAL thread: where it is, next channel to delete
    cap,                   \* the capture
    q, open,               \* the queues and their m_active
    cmds, sync_sem,        \* commands of the data, save and notifier threads; sync semaphores
    data, saver, cb,       \* the three threads
    src, pp,               \* superbuf that processData validates; processPPData per channel
    mPPChannels, mTotalNumReproc,
    cpp,                   \* what each reprocess channel is working on
    enc, evts,             \* what the encoder is working on; its answers
    mDataQ,                \* images for the application
    held, lost,            \* superbufs out of the driver; of these, those nobody has
    session                \* JPEG sessions, mNewJpegSessionNeeded

vars == <<scene, hal, cap, q, open, cmds, sync_sem, data, saver, cb, src, pp, mPPChannels,
          mTotalNumReproc, cpp, enc, evts, mDataQ, held, lost, session>>
chanVars == <<mPPChannels, mTotalNumReproc, cpp>>
bufVars == <<held, lost>>
encVars == <<enc, evts, session>>

\* A superbuf is <<f, n>>: frame f of the source after n passes of reprocessing.
NoBuf == <<0, 0>>
Pass == 1..2
Super == (1..MaxFrame) \X (0..2)
FromSource(S) == {s \in S : s[2] = 0}
FromPass(S, i) == {s \in S : s[2] = i}

\* qcamera_pp_request_t, qcamera_pp_data_t and qcamera_jpeg_data_t
Job(src_frame, src_reproc_frame, reprocCount, reproc_frame_release) ==
    [src_frame |-> src_frame, src_reproc_frame |-> src_reproc_frame, reprocCount |-> reprocCount,
     reproc_frame_release |-> reproc_frame_release, jobId |-> NoBuf]
NoJob == Job(NoBuf, NoBuf, 0, FALSE)
NoWork == [frame |-> NoBuf, job |-> NoJob]
Bufs(job) == {job.src_frame, job.src_reproc_frame} \ {NoBuf}
JobQueues == {"inputPP", "ongoingPP", "inputJpeg", "ongoingJpeg"}
Queues == JobQueues \cup {"inputRaw", "inputSave"}

\* releasePPInputData, releaseOngoingPPData, releaseJpegJobData and releaseRawData: the
\* superbufs that go back to the driver when an entry of a queue is released.
Returned(name, entry) ==
    CASE name = "inputPP" -> Bufs(entry)
      [] name = "ongoingPP" -> Bufs(entry)
             \ (IF entry.reproc_frame_release THEN {entry.src_frame} ELSE {})
      [] name \in {"inputJpeg", "ongoingJpeg"} -> Bufs(entry)
             \ (IF entry.reproc_frame_release THEN {entry.src_reproc_frame} ELSE {})
      [] name = "inputRaw" -> {entry}
      [] OTHER -> {}
Held(name, entry) ==
    IF name \in JobQueues THEN Bufs(entry) ELSE IF name = "inputRaw" THEN {entry} ELSE {}

\* releaseSuperBuf of the superbufs in back; those in all, but not in back, are forgotten.
Release(back, all) ==
    /\ held' = held \ back
    /\ lost' = lost \cup ((all \ back) \cap held)
ReleaseEntry(name, entry) == Release(Returned(name, entry), Held(name, entry))

\* QCameraCmdThread::sendCmd, at the end of the queue or with priority.
Send(th, c) == cmds' = [cmds EXCEPT ![th] = Append(@, c)]
Urgent(th, c) == cmds' = [cmds EXCEPT ![th] = <<c>> \o @]
NextCmd(th, c) == cmds[th] # <<>> /\ Head(cmds[th]) = c
Received(th) == [cmds EXCEPT ![th] = Tail(@)]
DO_NEXT_JOB == "DO_NEXT_JOB"

Passes == IF scene.reproc THEN scene.passes ELSE 0

Init ==
    /\ scene \in Scenes
    /\ hal = [pc |-> "idle", next |-> 1]
    /\ cap = [up |-> FALSE, on |-> FALSE, seen |-> 0, given |-> 0, starts |-> 0, stop |-> FALSE]
    /\ q = [name \in Queues |-> <<>>]
    /\ open = [name \in Queues |-> TRUE]
    /\ cmds = [th \in {"data", "save", "cb"} |-> <<>>]
    /\ sync_sem = [th \in {"data", "save"} |-> 0]
    /\ data = [pc |-> "wait", is_active |-> FALSE]
    /\ saver = [is_active |-> FALSE]
    /\ cb = [isSnapshotActive |-> FALSE, rcvd |-> 0, sync |-> "none"]
    /\ src = NoBuf /\ pp = [i \in Pass |-> NoWork]
    /\ mPPChannels = [i \in Pass |-> "none"] /\ mTotalNumReproc = 0
    /\ cpp = [i \in Pass |-> <<>>]
    /\ enc = {} /\ evts = <<>> /\ mDataQ = <<>>
    /\ held = {} /\ lost = {}
    /\ session = [open |-> 0, needed |-> TRUE]

-------------------------------------------------------------------------------
(* The HAL thread: start and stop of a capture, and the encoder's answers.      *)

\* start: create and start the reprocess channels, from which n come up. Earlier ones
\* are gone: every start is followed by a stop. START is sent as a synchronous command.
Start ==
    /\ hal.pc = "idle" /\ ~cap.up /\ cap.starts < MaxStarts /\ cap.seen < MaxFrame
    /\ scene.hasty \/ (cmds.cb = <<>> /\ evts = <<>> /\ cb.sync = "none" /\ ~cap.stop)
    /\ \E n \in 0..Passes :
        /\ n = Passes \/ "start" \in scene.may
        /\ mPPChannels' = [i \in Pass |-> IF i <= n THEN "live"
                                          ELSE IF i = n + 1 /\ i <= Passes THEN "none"
                                          ELSE mPPChannels[i]]
        /\ IF n = Passes
           THEN hal' = [hal EXCEPT !.pc = "starting"] /\ Send("data", "START")
           ELSE hal' = [hal EXCEPT !.pc = "failed"] /\ UNCHANGED cmds
    /\ mTotalNumReproc' = Passes
    /\ cap' = [cap EXCEPT !.starts = @ + 1]
    /\ UNCHANGED <<scene, q, open, sync_sem, data, saver, cb, src, pp, cpp, encVars, mDataQ, bufVars>>

\* The rest of start, startSnapshots, and createJpegSession, which may fail; then the
\* source channel starts.
Started ==
    /\ hal.pc = "starting" /\ sync_sem.data > 0
    /\ sync_sem' = [sync_sem EXCEPT !.data = @ - 1]
    /\ Urgent("cb", "START")
    /\ hal' = [hal EXCEPT !.pc = "idle"]
    /\ cap' = [cap EXCEPT !.up = TRUE, !.on = TRUE, !.given = 0]
    /\ \/ UNCHANGED session
       \/ /\ mTotalNumReproc > 0 /\ ~scene.save
          /\ session' = [open |-> session.open + 1, needed |-> FALSE]
    /\ UNCHANGED <<scene, q, open, data, saver, cb, src, pp, chanVars, enc, evts, mDataQ, bufVars>>

\* stop: the notifier and the data thread are told with priority, the latter waited for.
Stop ==
    /\ cmds' = [cmds EXCEPT !["cb"] = <<"STOP">> \o @, !["data"] = <<"STOP">> \o @]
    /\ hal' = [hal EXCEPT !.pc = "stopping"]
    /\ UNCHANGED <<scene, cap, q, open, sync_sem, data, saver, src, pp, chanVars, encVars, mDataQ,
                   bufVars>>

\* cancelPicture, when the client likes or after the error of a failed start.
CancelPicture ==
    /\ hal.pc = "idle" /\ cap.up /\ ~cap.stop /\ scene.cancels
    /\ Stop /\ UNCHANGED cb
StartFailed == hal.pc = "failed" /\ Stop /\ UNCHANGED cb

\* SNAPSHOT_DONE ends the capture; it is nothing if there is none any more.
SnapshotDone ==
    /\ hal.pc = "idle" /\ ~cap.stop /\ cb.sync = "event"
    /\ cb' = [cb EXCEPT !.sync = "done"]
    /\ IF cap.up THEN Stop
       ELSE UNCHANGED <<scene, hal, cap, q, open, cmds, sync_sem, data, saver, src, pp, chanVars, encVars,
                        mDataQ, bufVars>>

StopSynced ==
    /\ hal.pc = "stopping" /\ sync_sem.data > 0
    /\ sync_sem' = [sync_sem EXCEPT !.data = @ - 1]
    /\ hal' = [pc |-> "deleting", next |-> 1]
    /\ UNCHANGED <<scene, cap, q, open, cmds, data, saver, cb, src, pp, chanVars, encVars, mDataQ, bufVars>>

\* The loop of stop: stop a reprocess channel, which joins its thread and takes its
\* buffers, and delete it. The pointer in mPPChannels stays.
DeleteChannel ==
    LET i == hal.next IN
    /\ hal.pc = "deleting" /\ i <= mTotalNumReproc
    /\ pp[i] = NoWork
    /\ hal' = [hal EXCEPT !.next = i + 1]
    /\ mPPChannels' = [mPPChannels EXCEPT ![i] = IF @ = "none" THEN @ ELSE "deleted"]
    /\ cpp' = [cpp EXCEPT ![i] = <<>>]
    /\ held' = held \ FromPass(held, i) /\ lost' = lost \ FromPass(lost, i)
    /\ UNCHANGED <<scene, cap, q, open, cmds, sync_sem, data, saver, cb, src, pp, mTotalNumReproc,
                   encVars, mDataQ>>

Deleted ==
    /\ hal.pc = "deleting" /\ hal.next > mTotalNumReproc
    /\ mTotalNumReproc' = 0
    /\ hal' = [hal EXCEPT !.pc = "closing"]
    /\ UNCHANGED <<scene, cap, q, open, cmds, sync_sem, data, saver, cb, src, pp, mPPChannels, cpp,
                   encVars, mDataQ, bufVars>>

\* The source channel after stop: the ZSL channel goes on and sends no more pictures, any
\* other is stopped: its thread is joined and its buffers are taken.
Closed ==
    /\ hal.pc = "closing"
    /\ hal' = [hal EXCEPT !.pc = "idle"]
    /\ cap' = [cap EXCEPT !.up = FALSE, !.on = FALSE]
    /\ IF scene.zsl THEN UNCHANGED bufVars
       ELSE /\ src = NoBuf
            /\ held' = held \ FromSource(held) /\ lost' = lost \ FromSource(lost)
    /\ UNCHANGED <<scene, q, open, cmds, sync_sem, data, saver, cb, src, pp, chanVars, encVars, mDataQ>>

\* STOP_CAPTURE_CHANNEL, which the data thread asked for (stopCapture).
StopCaptureChannel ==
    /\ hal.pc = "idle" /\ cap.stop
    /\ cap' = [cap EXCEPT !.stop = FALSE, !.on = @ /\ ~cap.up]
    /\ IF cap.up
       THEN /\ src = NoBuf
            /\ held' = held \ FromSource(held) /\ lost' = lost \ FromSource(lost)
       ELSE UNCHANGED bufVars
    /\ UNCHANGED <<scene, hal, q, open, cmds, sync_sem, data, saver, cb, src, pp, chanVars, encVars,
                   mDataQ>>

\* notifyCallback: an image for the application and the command to deliver it.
Image(frame, id) == [frame |-> frame, jobId |-> id]
\* flushNodes(matchJobId): the jobs of q that an answer matches.
Matches(jobs, id) == SelectSeq(jobs, LAMBDA job : job.jobId = id)
Others(jobs, id) == SelectSeq(jobs, LAMBDA job : job.jobId # id)
\* Mutant: the work buffer of the job stays out
FlushJob_OnlyMain(id) ==
    LET gone == Range(Matches(q.ongoingJpeg, id)) IN
    Release({job.src_frame : job \in gone}, UNION {Bufs(job) : job \in gone})

FlushJob(id) ==
    LET gone == Range(Matches(q.ongoingJpeg, id)) IN
    Release(UNION {Returned("ongoingJpeg", job) : job \in gone}, UNION {Bufs(job) : job \in gone})

\* Mutant: the data thread is not woken
JpegDone_Silent(id, ok) ==
    /\ q' = [q EXCEPT !.ongoingJpeg = Others(@, id)]
    /\ FlushJob(id)
    /\ mDataQ' = IF ok THEN Append(mDataQ, Image(NoBuf, id)) ELSE mDataQ
    /\ cmds' = [cmds EXCEPT !["cb"] = IF ok THEN Append(@, DO_NEXT_JOB) ELSE @]

\* processJpegEvt without the save thread: release the job, wake the data thread, send the
\* image or an error, wake the data thread.
JpegDone(id, ok) ==
    /\ q' = [q EXCEPT !.ongoingJpeg = Others(@, id)]
    /\ FlushJob(id)
    /\ mDataQ' = IF ok THEN Append(mDataQ, Image(NoBuf, id)) ELSE mDataQ
    /\ cmds' = [cmds EXCEPT
           !["data"] = @ \o (IF q.inputPP # <<>> THEN <<DO_NEXT_JOB, DO_NEXT_JOB>> ELSE <<DO_NEXT_JOB>>),
           !["cb"] = IF ok THEN Append(@, DO_NEXT_JOB) ELSE @]

\* processJpegEvt in longshot: the save thread does it, the data thread is woken at once.
JpegSaved(id) ==
    /\ IF open.inputSave
       THEN /\ q' = [q EXCEPT !.inputSave = Append(@, id)]
            /\ cmds' = [cmds EXCEPT !["save"] = Append(@, DO_NEXT_JOB),
                                    !["data"] = Append(@, DO_NEXT_JOB)]
       ELSE UNCHANGED <<q, cmds>>
    /\ UNCHANGED <<mDataQ, bufVars>>

ProcessJpegEvt ==
    /\ hal.pc = "idle" /\ ~cap.stop /\ cap.up /\ evts # <<>>
    /\ evts' = Tail(evts)
    /\ IF scene.save THEN JpegSaved(Head(evts).jobId) ELSE JpegDone(Head(evts).jobId, Head(evts).ok)
    /\ UNCHANGED <<scene, hal, cap, open, sync_sem, data, saver, cb, src, pp, chanVars, enc, session>>

\* Out of a capture the state machine does not handle the event.
IgnoreJpegEvt ==
    /\ hal.pc = "idle" /\ ~cap.stop /\ ~cap.up /\ evts # <<>>
    /\ evts' = Tail(evts)
    /\ UNCHANGED <<scene, hal, cap, q, open, cmds, sync_sem, data, saver, cb, src, pp, chanVars, enc,
                   session, mDataQ, bufVars>>

-------------------------------------------------------------------------------
(* The callback threads of the source and of the reprocess channels.            *)

\* validatePostProcess: superbufs wait and the reprocess stream has no buffer for more than
\* what is already under way. Only a superbuf of the source channel has a reprocess channel
\* here; to read one that has been deleted, or a superbuf that is back, gives anything.
QueuedBufs(i) == scene.ppbufs - Cardinality(FromPass(held, i))
PPBufAvailable == q.inputPP = <<>> \/ Len(q.ongoingPP) < QueuedBufs(1)
ValidatePostProcess(frame) ==
    IF frame \in held /\ (frame[2] # 0 \/ mTotalNumReproc = 0) THEN {TRUE}
    ELSE IF frame \in held /\ mPPChannels[1] = "live" THEN {PPBufAvailable} ELSE BOOLEAN

\* processData and processRawData: the superbuf enters a queue or, if that is not active,
\* goes back. A raw picture wakes the data thread twice.
Enqueue(name, entry, wake) ==
    IF open[name]
    THEN /\ q' = [q EXCEPT ![name] = Append(@, entry)]
         /\ held' = held \cup Held(name, entry)
         /\ cmds' = [cmds EXCEPT !["data"] = @ \o wake]
    ELSE UNCHANGED <<q, held, cmds>>

ProcessData ==
    LET frame == <<cap.seen + 1, 0>> IN
    /\ cap.on /\ src = NoBuf /\ cap.seen < MaxFrame /\ cap.given < scene.shots
    /\ cap' = [cap EXCEPT !.seen = @ + 1, !.given = @ + 1]
    /\ CASE scene.reproc ->
              /\ Enqueue("inputPP", Job(frame, frame, 0, FALSE), <<>>)
              /\ src' = IF open.inputPP THEN frame ELSE NoBuf
         [] ~scene.reproc /\ scene.raw ->
              /\ IF open.inputRaw THEN Enqueue("inputRaw", frame, <<DO_NEXT_JOB, DO_NEXT_JOB>>)
                 ELSE Send("data", DO_NEXT_JOB) /\ UNCHANGED <<q, held>>
              /\ UNCHANGED src
         [] OTHER ->
              /\ Enqueue("inputJpeg", Job(frame, NoBuf, 0, FALSE), <<DO_NEXT_JOB>>)
              /\ UNCHANGED src
    /\ UNCHANGED <<scene, hal, open, sync_sem, data, saver, cb, pp, chanVars, encVars, mDataQ, lost>>

\* processData after m_inputPPQ.enqueue: no command if the data thread could do nothing.
DataValidated ==
    /\ src # NoBuf
    /\ src' = NoBuf
    /\ \E trigger \in ValidatePostProcess(src) :
        IF trigger THEN Send("data", DO_NEXT_JOB) ELSE UNCHANGED cmds
    /\ UNCHANGED <<scene, hal, cap, q, open, sync_sem, data, saver, cb, pp, chanVars, encVars, mDataQ,
                   bufVars>>

\* processPPData: the result of channel i comes with the oldest job under way. The input
\* of a second pass goes back; without a job the result is forgotten.
ProcessPPData(i) ==
    LET frame == Head(cpp[i])
        job == Head(q.ongoingPP)
        used == IF job.reprocCount > 1 THEN {job.src_frame} ELSE {} IN
    /\ mPPChannels[i] = "live" /\ pp[i] = NoWork
    /\ cpp[i] # <<>> /\ QueuedBufs(i) > 0
    /\ cpp' = [cpp EXCEPT ![i] = Tail(@)]
    /\ IF open.ongoingPP /\ q.ongoingPP # <<>>
       THEN /\ q' = [q EXCEPT !.ongoingPP = Tail(@)]
            /\ pp' = [pp EXCEPT ![i] = [frame |-> frame,
                      job |-> IF job.reprocCount > 1 /\ ~scene.raw THEN [job EXCEPT !.src_frame = NoBuf]
                              ELSE job]]
            /\ held' = (held \cup {frame}) \ (IF scene.raw THEN {} ELSE used)
            /\ UNCHANGED lost
       ELSE /\ held' = held \cup {frame} /\ lost' = lost \cup {frame}
            /\ UNCHANGED <<q, pp>>
    /\ UNCHANGED <<scene, hal, cap, open, cmds, sync_sem, data, saver, cb, src, mPPChannels,
                   mTotalNumReproc, encVars, mDataQ>>

\* The result becomes the input of the next pass, a JPEG job with the source as its work
\* buffer, or a raw picture, for which the job is released.
Result(work) ==
    LET orig == work.job.src_reproc_frame IN
    CASE scene.raw -> [queue |-> "inputRaw", entry |-> work.frame]
      [] ~scene.raw /\ work.job.reprocCount < mTotalNumReproc ->
           [queue |-> "inputPP", entry |-> Job(work.frame, orig, work.job.reprocCount, FALSE)]
      [] OTHER -> [queue |-> "inputJpeg",
                   entry |-> Job(work.frame, orig, 0, work.job.reproc_frame_release)]

PPDataDone(i) ==
    LET result == Result(pp[i])
        given == open[result.queue]
        back == (IF scene.raw THEN Returned("ongoingPP", pp[i].job) ELSE {})
                \cup (IF given THEN {} ELSE Returned(result.queue, result.entry))
        all == (IF scene.raw THEN Bufs(pp[i].job) ELSE {})
               \cup (IF given THEN {} ELSE Held(result.queue, result.entry)) IN
    /\ pp[i] # NoWork
    /\ pp' = [pp EXCEPT ![i] = NoWork]
    /\ q' = IF given THEN [q EXCEPT ![result.queue] = Append(@, result.entry)] ELSE q
    /\ IF given THEN Send("data", DO_NEXT_JOB) ELSE UNCHANGED cmds
    /\ Release(back, all)
    /\ UNCHANGED <<scene, hal, cap, open, sync_sem, data, saver, cb, src, chanVars, encVars, mDataQ>>

-------------------------------------------------------------------------------
(* The data thread.                                                             *)

DataStart ==
    /\ data.pc = "wait" /\ NextCmd("data", "START")
    /\ cmds' = [cmds EXCEPT !["data"] = Tail(@), !["save"] = Append(@, "START")]
    /\ data' = [data EXCEPT !.is_active = TRUE]
    /\ open' = [name \in Queues |-> open[name] \/ name \notin {"ongoingJpeg", "inputSave"}]
    /\ sync_sem' = [sync_sem EXCEPT !.data = @ + 1]
    /\ UNCHANGED <<scene, hal, cap, q, saver, cb, src, pp, chanVars, encVars, mDataQ, bufVars>>

\* STOP: first the save thread has to stop ...
DataStop ==
    /\ data.pc = "wait" /\ NextCmd("data", "STOP")
    /\ cmds' = [cmds EXCEPT !["data"] = Tail(@), !["save"] = <<"STOP">> \o @]
    /\ data' = [pc |-> "stopping", is_active |-> FALSE]
    /\ UNCHANGED <<scene, hal, cap, q, open, sync_sem, saver, cb, src, pp, chanVars, encVars, mDataQ,
                   bufVars>>

\* Mutant: the jobs under way in reprocessing stay
Flushed_NotOngoing == {"inputJpeg", "inputPP", "inputRaw"}

\* ... then the encoder's jobs are aborted, the session is destroyed and the queues are
\* flushed, which makes them inactive.
Flushed == {"ongoingPP", "inputJpeg", "inputPP", "inputRaw"}
DataStopped ==
    LET dropped(name) == Range(q[name])
        names == {name \in Flushed : open[name]} \cup {"ongoingJpeg"} IN
    /\ data.pc = "stopping" /\ sync_sem.save > 0
    /\ sync_sem' = [sync_sem EXCEPT !.save = @ - 1, !.data = @ + 1]
    /\ enc' = enc \ {job.jobId : job \in dropped("ongoingJpeg")}
    /\ session' = [open |-> IF session.open > 0 THEN session.open - 1 ELSE 0, needed |-> TRUE]
    /\ Release(UNION {UNION {Returned(name, e) : e \in dropped(name)} : name \in names},
               UNION {UNION {Held(name, e) : e \in dropped(name)} : name \in names})
    /\ q' = [name \in Queues |-> IF name \in names THEN <<>> ELSE q[name]]
    /\ open' = [name \in Queues |-> open[name] /\ name \notin Flushed]
    /\ data' = [data EXCEPT !.pc = "wait"]
    /\ UNCHANGED <<scene, hal, cap, cmds, saver, cb, src, pp, chanVars, evts, mDataQ>>

\* DO_NEXT_JOB while not active: one JPEG job and one raw picture go back, and all that
\* wait for reprocessing.
Idle ==
    LET heads == {name \in {"inputJpeg", "inputRaw"} : open[name] /\ q[name] # <<>>}
        flushed == IF open.inputPP THEN Range(q.inputPP) ELSE {} IN
    /\ data.pc = "wait" /\ NextCmd("data", DO_NEXT_JOB) /\ ~data.is_active
    /\ cmds' = Received("data")
    /\ Release(UNION {Returned(name, Head(q[name])) : name \in heads}
               \cup UNION {Bufs(job) : job \in flushed},
               UNION {Held(name, Head(q[name])) : name \in heads}
               \cup UNION {Bufs(job) : job \in flushed})
    /\ q' = [name \in Queues |-> IF name \in heads THEN Tail(q[name])
                                 ELSE IF name = "inputPP" THEN <<>> ELSE q[name]]
    /\ open' = [open EXCEPT !.inputPP = FALSE]
    /\ UNCHANGED <<scene, hal, cap, sync_sem, data, saver, cb, src, pp, chanVars, encVars, mDataQ>>

\* DO_NEXT_JOB: the next JPEG job is under way before the encoder has it; none, and it is
\* the turn of raw pictures and of reprocessing.
NextJob ==
    /\ data.pc = "wait" /\ NextCmd("data", DO_NEXT_JOB) /\ data.is_active
    /\ cmds' = Received("data")
    /\ IF open.inputJpeg /\ q.inputJpeg # <<>>
       THEN /\ q' = [q EXCEPT !.inputJpeg = Tail(@),
                              !.ongoingJpeg = Append(@, Head(q.inputJpeg))]
            /\ data' = [data EXCEPT !.pc = "encode"]
       ELSE data' = [data EXCEPT !.pc = "raw"] /\ UNCHANGED q
    /\ UNCHANGED <<scene, hal, cap, open, sync_sem, saver, cb, src, pp, chanVars, encVars, mDataQ,
                   bufVars>>

\* encodeData: a session if one is needed, then start_job. The encoder names the job by its
\* main frame. If it fails the last job under way is taken back and released.
Session == IF session.needed THEN [open |-> session.open + 1, needed |-> FALSE] ELSE session
EncodeData ==
    LET job == Last(q.ongoingJpeg) IN
    /\ data.pc = "encode"
    /\ enc' = enc \cup {job.src_frame}
    /\ session' = Session
    /\ data' = [data EXCEPT !.pc = "started"]
    /\ UNCHANGED <<scene, hal, cap, q, open, cmds, sync_sem, saver, cb, src, pp, chanVars, evts,
                   mDataQ, bufVars>>

\* Mutant: the oldest job is taken back
EncodeFails_First ==
    /\ data.pc = "encode" /\ "encode" \in scene.may
    /\ q' = [q EXCEPT !.ongoingJpeg = Tail(@)]
    /\ ReleaseEntry("ongoingJpeg", Last(q.ongoingJpeg))
    /\ session' \in {session, Session}
    /\ data' = [data EXCEPT !.pc = "raw"]
    /\ UNCHANGED <<scene, hal, cap, open, cmds, sync_sem, saver, cb, src, pp, chanVars, enc, evts, mDataQ>>

EncodeFails ==
    LET job == Last(q.ongoingJpeg) IN
    /\ data.pc = "encode" /\ "encode" \in scene.may
    /\ q' = [q EXCEPT !.ongoingJpeg = Front(@)]
    /\ ReleaseEntry("ongoingJpeg", job)
    /\ session' \in {session, Session}
    /\ data' = [data EXCEPT !.pc = "raw"]
    /\ UNCHANGED <<scene, hal, cap, open, cmds, sync_sem, saver, cb, src, pp, chanVars, enc, evts, mDataQ>>

\* encodeData after start_job: only now does the job have its jobId.
JobIdSet ==
    LET last == Len(q.ongoingJpeg) IN
    /\ data.pc = "started"
    /\ q' = [q EXCEPT !.ongoingJpeg[last].jobId = q.ongoingJpeg[last].src_frame]
    /\ data' = [data EXCEPT !.pc = "raw"]
    /\ UNCHANGED <<scene, hal, cap, open, cmds, sync_sem, saver, cb, src, pp, chanVars, encVars, mDataQ,
                   bufVars>>

\* processRawImageImpl: the application gets a superbuf of the ZSL channel itself, of any
\* other a copy. The superbuf goes back with the image, or if there is none; after a copy
\* nobody has it.
RawImage ==
    LET frame == Head(q.inputRaw)
        zslChannelUsed == scene.zsl /\ frame[2] # 1 IN
    /\ data.pc = "raw"
    /\ data' = [data EXCEPT !.pc = "reprocess"]
    /\ IF ~open.inputRaw \/ q.inputRaw = <<>>
       THEN UNCHANGED <<q, mDataQ, cmds, bufVars>>
       ELSE /\ q' = [q EXCEPT !.inputRaw = Tail(@)]
            /\ \/ /\ mDataQ' = Append(mDataQ, Image(IF zslChannelUsed THEN frame ELSE NoBuf, frame))
                  /\ Send("cb", DO_NEXT_JOB)
                  /\ lost' = IF zslChannelUsed THEN lost ELSE lost \cup {frame}
                  /\ UNCHANGED held
               \/ "raw" \in scene.may /\ held' = held \ {frame} /\ UNCHANGED <<mDataQ, cmds, lost>>
    /\ UNCHANGED <<scene, hal, cap, open, sync_sem, saver, cb, src, pp, chanVars, encVars>>

\* stopCapture: STOP_CAPTURE_CHANNEL for the state machine, which takes it before events.
StopCapture == cap' = IF scene.regular THEN [cap EXCEPT !.stop = TRUE] ELSE cap

\* doReprocess: the oldest request, if there are buffers for it, is under way before its
\* reprocess channel has it; a refused one stays there.
DoReprocess ==
    LET req == Head(q.inputPP)
        i == req.reprocCount + 1
        job == Job(req.src_frame, req.src_reproc_frame, i, scene.regular) IN
    /\ data.pc = "reprocess"
    /\ data' = [data EXCEPT !.pc = "wait"]
    /\ \/ /\ q.inputPP # <<>> => FALSE \in ValidatePostProcess(req.src_frame)
          /\ StopCapture /\ UNCHANGED <<q, cpp>>
       \/ /\ q.inputPP # <<>> /\ TRUE \in ValidatePostProcess(req.src_frame)
          /\ q' = [q EXCEPT !.inputPP = Tail(@), !.ongoingPP = Append(@, job)]
          /\ \/ /\ cpp' = [cpp EXCEPT ![i] = Append(@, <<req.src_frame[1], i>>)]
                /\ StopCapture
             \/ "reprocess" \in scene.may /\ UNCHANGED <<cap, cpp>>
    /\ UNCHANGED <<scene, hal, open, cmds, sync_sem, saver, cb, src, pp, mPPChannels, mTotalNumReproc,
                   encVars, mDataQ, bufVars>>

-------------------------------------------------------------------------------
(* The encoder, the save thread and the notifier.                               *)

\* The encoder's answer (jpegEvtHandle) is an event for the state machine.
EncDone(s) ==
    /\ s \in enc
    /\ enc' = enc \ {s}
    /\ \E ok \in BOOLEAN : (ok \/ "encoder" \in scene.may)
                         /\ evts' = Append(evts, [jobId |-> s, ok |-> ok])
    /\ UNCHANGED <<scene, hal, cap, q, open, cmds, sync_sem, data, saver, cb, src, pp, chanVars, session,
                   mDataQ, bufVars>>

SaveStart ==
    /\ NextCmd("save", "START")
    /\ cmds' = Received("save")
    /\ saver' = [is_active |-> TRUE]
    /\ open' = [open EXCEPT !.inputSave = TRUE]
    /\ UNCHANGED <<scene, hal, cap, q, sync_sem, data, cb, src, pp, chanVars, encVars, mDataQ, bufVars>>

SaveStop ==
    /\ NextCmd("save", "STOP")
    /\ cmds' = Received("save")
    /\ saver' = [is_active |-> FALSE]
    /\ q' = [q EXCEPT !.inputSave = IF open.inputSave THEN <<>> ELSE @]
    /\ open' = [open EXCEPT !.inputSave = FALSE]
    /\ sync_sem' = [sync_sem EXCEPT !.save = @ + 1]
    /\ UNCHANGED <<scene, hal, cap, data, cb, src, pp, chanVars, encVars, mDataQ, bufVars>>

\* dataSaveRoutine: release the job, store the picture, tell the application. Nobody wakes
\* the data thread.
SaveNext ==
    LET id == Head(q.inputSave) IN
    /\ NextCmd("save", DO_NEXT_JOB)
    /\ IF open.inputSave /\ q.inputSave # <<>>
       THEN /\ q' = [q EXCEPT !.inputSave = Tail(@), !.ongoingJpeg = Others(@, id)]
            /\ FlushJob(id)
            /\ mDataQ' = IF saver.is_active THEN Append(mDataQ, Image(NoBuf, id)) ELSE mDataQ
            /\ cmds' = [cmds EXCEPT !["save"] = Tail(@),
                                    !["cb"] = IF saver.is_active THEN Append(@, DO_NEXT_JOB) ELSE @]
       ELSE cmds' = Received("save") /\ UNCHANGED <<q, mDataQ, bufVars>>
    /\ UNCHANGED <<scene, hal, cap, open, sync_sem, data, saver, cb, src, pp, chanVars, encVars>>

CbStart ==
    /\ cb.sync = "none" /\ NextCmd("cb", "START")
    /\ cmds' = Received("cb")
    /\ cb' = [cb EXCEPT !.isSnapshotActive = TRUE, !.rcvd = 0]
    /\ UNCHANGED <<scene, hal, cap, q, open, sync_sem, data, saver, src, pp, chanVars, encVars, mDataQ,
                   bufVars>>

\* STOP: flushNodes(matchSnapshotNotifications) releases the images that are left.
CbStop ==
    LET left == {mDataQ[k].frame : k \in DOMAIN mDataQ} IN
    /\ cb.sync = "none" /\ NextCmd("cb", "STOP")
    /\ cmds' = Received("cb")
    /\ cb' = [cb EXCEPT !.isSnapshotActive = FALSE, !.rcvd = 0]
    /\ mDataQ' = <<>>
    /\ Release(left, left)
    /\ UNCHANGED <<scene, hal, cap, q, open, sync_sem, data, saver, src, pp, chanVars, encVars>>

\* An image: the last one that is expected ends the capture first (processSyncEvt waits for
\* the state machine); then the application has it and its superbuf goes back. Out of a
\* capture it is dropped as it is.
CbNext ==
    LET image == Head(mDataQ)
        rcvd == IF scene.save THEN cb.rcvd ELSE cb.rcvd + 1 IN
    /\ cb.sync = "none" /\ NextCmd("cb", DO_NEXT_JOB)
    /\ IF mDataQ = <<>> THEN cmds' = Received("cb") /\ UNCHANGED <<cb, mDataQ, bufVars>>
       ELSE IF ~cb.isSnapshotActive
       THEN /\ cmds' = Received("cb") /\ mDataQ' = Tail(mDataQ)
            /\ Release({}, {image.frame}) /\ UNCHANGED cb
       ELSE IF rcvd = scene.shots /\ rcvd # cb.rcvd
       THEN cb' = [cb EXCEPT !.rcvd = rcvd, !.sync = "event"] /\ UNCHANGED <<cmds, mDataQ, bufVars>>
       ELSE /\ cmds' = Received("cb") /\ mDataQ' = Tail(mDataQ)
            /\ Release({image.frame}, {image.frame})
            /\ cb' = [cb EXCEPT !.rcvd = rcvd]
    /\ UNCHANGED <<scene, hal, cap, q, open, sync_sem, data, saver, src, pp, chanVars, encVars>>

CbWoken ==
    /\ cb.sync = "done" /\ hal.pc = "idle"
    /\ cb' = [cb EXCEPT !.sync = "none"]
    /\ cmds' = Received("cb") /\ mDataQ' = Tail(mDataQ)
    /\ Release({Head(mDataQ).frame}, {Head(mDataQ).frame})
    /\ UNCHANGED <<scene, hal, cap, q, open, sync_sem, data, saver, src, pp, chanVars, encVars>>

HalStep == \/ StopSynced \/ DeleteChannel \/ Deleted \/ Closed \/ StopCaptureChannel
           \/ Started \/ SnapshotDone \/ ProcessJpegEvt \/ IgnoreJpegEvt
PPStep(i) == ProcessPPData(i) \/ PPDataDone(i)
DataStep == \/ DataStart \/ DataStop \/ DataStopped \/ Idle \/ NextJob \/ EncodeData \/ EncodeFails
            \/ JobIdSet \/ RawImage \/ DoReprocess
SaveStep == SaveStart \/ SaveStop \/ SaveNext
CbStep == CbStart \/ CbStop \/ CbNext \/ CbWoken
Next == \/ Start \/ CancelPicture \/ StartFailed
        \/ HalStep
        \/ ProcessData \/ DataValidated
        \/ \E i \in Pass : PPStep(i)
        \/ DataStep
        \/ \E s \in Super : EncDone(s)
        \/ SaveStep
        \/ CbStep

\* Every thread goes on; the source channel brings its superbufs, the reprocess channels
\* and the encoder finish what they were given. The client is free.
Fairness ==
    /\ WF_vars(HalStep) /\ WF_vars(DataStep) /\ WF_vars(SaveStep) /\ WF_vars(CbStep)
    /\ WF_vars(ProcessData) /\ WF_vars(DataValidated)
    /\ \A i \in Pass : WF_vars(PPStep(i))
    /\ \A s \in Super : WF_vars(EncDone(s))
Spec == Init /\ [][Next]_vars
FairSpec == Spec /\ Fairness

-------------------------------------------------------------------------------
(* Properties.                                                                  *)

Jobs(name) == Range(q[name])
\* The places where superbuf s is somebody's.
Places(s) ==
    {<<name, k>> \in (JobQueues \cup {"inputRaw"}) \X (1..MaxFrame) :
         k \in DOMAIN q[name] /\ s \in Held(name, q[name][k])}
    \cup {<<"pp", i>> : i \in {j \in Pass : s \in {pp[j].frame} \cup Bufs(pp[j].job)}}
    \cup {<<"mDataQ", k>> : k \in {j \in DOMAIN mDataQ : mDataQ[j].frame = s}}

TypeOK ==
    /\ held \subseteq Super /\ enc \subseteq Super /\ src \in Super \cup {NoBuf}
    /\ mPPChannels \in [Pass -> {"none", "live", "deleted"}] /\ mTotalNumReproc \in 0..2
    /\ data.pc \in {"wait", "encode", "started", "raw", "reprocess", "stopping"}
    /\ hal.pc \in {"idle", "starting", "failed", "stopping", "deleting", "closing"}

\* Every superbuf the post processor has out of the driver is in exactly one place: one
\* queue, one callback thread or one image, so that it is given back once (every release
\* empties its place); what is in a place and not out belongs to a source channel that has
\* been stopped. Only raw pictures and regular captures, and a capture that is being
\* stopped, forget superbufs.
Conservation ==
    /\ TypeOK
    /\ \A s \in held \ lost : Places(s) # {}
    /\ \A s \in Super : Places(s) # {} =>
        /\ Cardinality(Places(s)) = 1 /\ s \notin lost
        /\ s \in held \/ (s[2] = 0 /\ ~scene.zsl /\ ~cap.on)
    /\ lost \subseteq held
    /\ lost # {} => scene.raw \/ scene.regular \/ hal.pc \in {"stopping", "deleting"}

\* What the encoder reads is the main frame of a job under way, which is not back with its
\* channel, and the source that goes with it (thumbnail, metadata, EXIF) is the frame it was
\* made of: doReprocess queues its job before the channel has it and processPPData takes the
\* oldest. A regular capture is stopped under the encoder; a refused request leaves its job.
EncoderFrames ==
    \A s \in enc :
        /\ s \in held \/ (scene.regular /\ s[2] = 0)
        /\ \E job \in Jobs("ongoingJpeg") :
            /\ job.src_frame = s /\ (job.jobId = s \/ data.pc = "started")
            /\ "reprocess" \in scene.may \/ job.src_reproc_frame = NoBuf
               \/ (job.src_reproc_frame[1] = s[1] /\ s[2] = mTotalNumReproc)

\* When a stop is done and the threads have caught up nothing is left: no job, no answer of
\* the encoder, no image, no session, and nothing out but what has been forgotten.
Quiet == /\ hal.pc = "idle" /\ ~cap.up /\ data.pc = "wait" /\ src = NoBuf
         /\ \A i \in Pass : pp[i] = NoWork
         /\ \A th \in DOMAIN cmds : cmds[th] = <<>>
Drained == Quiet => /\ \A name \in Queues : q[name] = <<>>
                    /\ enc = {} /\ mDataQ = <<>> /\ held \subseteq lost
                    /\ session.open = 0 /\ session.needed

\* A job whose answer was handled before its jobId was set: nobody finds it before the stop.
Missed == \E job \in Jobs("ongoingJpeg") :
    /\ job.src_frame \notin enc /\ data.pc \notin {"encode", "started"}
    /\ \A k \in DOMAIN evts : evts[k].jobId # job.src_frame

\* A capture all of whose superbufs have come ends by itself, however short of buffers
\* reprocessing is, unless a job is missed: no wake-up of the data thread or the notifier is
\* lost.
CapturesEnd ==
    (cap.up /\ cap.given = scene.shots /\ scene.may = {} /\ ~scene.save /\ ~scene.hasty)
        ~> (~cap.up \/ Missed)

===============================================================================
