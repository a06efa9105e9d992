# TLA+ models of the nx531j device tree

The repository is the Android device tree of the nubia NX531J: configuration,
overlays and sepolicy around a body of native code, of which the Qualcomm camera
stack (`camera/QCamera2`, 120 000 lines) and the location stack (`gps`, 32 000
lines) are the largest. This directory holds TLA+ models of that code, the TLC
runs that check them on small instances, and proofs of the invariants that
matter most, checked by TLAPS.

Shorthand used below: *channel.c*, *stream.c*, *thread.c*, *camera.c* are
`mm_camera_channel.c`, `mm_camera_stream.c`, `mm_camera_thread.c` and
`mm_camera.c` in `camera/QCamera2/stack/mm-camera-interface/src`.

## 1. Inventory

### Camera: mm-camera-interface

The lowest layer of the HAL. A camera object has up to four channels, a channel
up to twelve streams; a stream is a V4L2 device node with a set of buffers.

| part | state | operations | interacts with |
|---|---|---|---|
| stream (*stream.c*) | FSM NOTUSED..ACTIVE, per-buffer `buf_refcnt`, `in_kernel`, `map_status`, `queued_buffer_count`, callbacks, command thread | ACQUIRE, SET_FMT, GET/PUT_BUF, REG/UNREG_BUF, START, STOP, QBUF, map_buf, reg_buf_cb, data_notify | poll thread of its channel, own command thread, bundling and linked channel, driver |
| superbuf queue (*channel.c*) | list of matched and unmatched nodes, `match_cnt`, `expected_frame_id`, request counters, flash, bracketing and batch state | one handler per command: frame, request, ZSL, mode, flush, generic commands | streams (frames in, qbuf out), cb thread, driver's ZSL mode |
| channel (*channel.c*) | FSM STOPPED/ACTIVE/PAUSED, stream table, bundle, two command threads and a poll thread | add, link and delete stream, start, stop, requests | camera object, streams |
| frame sync (*channel.c*) | `fs`: channels and the frames seen per camera | add, find_matched, remove, register | superbuf queues of two channels |
| poll and command threads (*thread.c*) | pipe, poll entries, status flag; command queue and semaphore | launch, add/del fd (sync or async), commit, release; launch, stop, destroy | everything above |
| camera object (*camera.c*, `mm_camera_interface.c`) | handles, reference count, `cam_lock`, event thread | open, close, qbuf, and a pass-through for each channel operation | channels, server socket |

What makes this layer hard: a frame passes from the driver through the poll thread to
one or two channels and a callback thread, each of which returns its reference
whenever it likes and without the channel lock; the reference count is the only
thing that keeps the driver from overwriting a buffer that is being read. START
and STOP take buffers, threads and poll entries up and down through several
owners while this goes on, and each step can fail half way.

What makes it correct: a buffer is never in the driver and in someone's hands
at once; every buffer comes back; the queue delivers complete superbufs in
frame order and returns every buffer it does not deliver exactly once; STOP
leaves no thread, poll entry or reference behind and always ends.

### Camera: the rest

| part | state and operations | hard because |
|---|---|---|
| mm-jpeg-interface | sessions, a job queue, a queue of ongoing jobs, work buffers; start_job, abort, encoder callbacks | the encoder's callbacks race with abort and destroy |
| HAL utilities `QCameraQueue`, `QCameraCmdThread` | queue with an active flag; commands with a synchronous variant | flush against enqueue, exit against pending commands |
| `QCameraStateMachine` with `QCamera2HardwareInterface` | eight states, forty-odd events; each API call waits for its result | an answer owed on every path; internal events reorder with API calls |
| `QCameraPostProc`, `QCameraMuxer` | six queues between snapshot and JPEG; two cameras composed into one file | stop with frames in each queue |
| `QCameraChannel`, `QCameraStream`, `QCameraMem` | buffer allocation thread, stream thread, batch mode | allocation in the background of START |
| `QCamera3HWI`, `QCamera3Channel` | pending requests, pending buffers, partial results, flush | results and buffers come in any order and must leave in order |
| `QCameraParameters*`, `CameraParameters` | settings as strings | data, no protocol: not to be modelled |
| mm-camera-test, usbcamcore, qomx_core | test program; USB camera; component table | outside the core |

What makes these correct: every call of the API gets its one answer, whatever fails
and whatever arrives meanwhile; a picture asked for is reported; what streams is what
the state and the committed parameters say; every HAL3 request comes back complete,
once and in order, also when it is flushed or the daemon dies; every JPEG job ends, and
encoders and output buffers go back to their pools.

### Location

| part | state and operations | hard because |
|---|---|---|
| `GnssAdapter`, `LocApiBase` | tracking sessions multiplexed onto one engine session | start, update and stop with responses in flight |
| `Agps` | a state machine per AGPS type with subscribers | data-call answers that come late or twice |
| `LocationAPI`, `LocationAPIClientBase` | request queues, session id maps | a session id that changes while a request waits |
| `msg_q`, `LocTimer`, `LocHeap`, `LocThread` | blocking queue with unblock; heap of timers | expiry racing cancellation |

What makes these correct: the engine runs exactly while a session wants it and as fast
as the fastest; a data connection is open exactly while a subscriber uses it; every
request is answered once.

### The rest

`power` keeps a list of active hints and their perf-lock handles; `light`
chooses among battery, notification and attention lights; `biometrics`, `touch`,
`doze` and `configpanel` are thin wrappers; `audio`, `rootdir`, `sepolicy`,
`overlay` and the `.mk` files are configuration.

## 2. The modules

| module | what it is |
|---|---|
| `MmSuperbufQueue`, `MCSuperbuf` | the queue of matched and unmatched frames and the command thread that serves it; its instance, one scene per kind of capture |
| `MmSuperbufProofs` | lemmas about the list of superbufs and the ledger of its buffers, the inductive invariant of the queue and its theorems |
| `MmStream`, `MCStream` | one stream: FSM, reference counts, poll thread, command thread, START and STOP; its instances |
| `BufferLease` | what a stream promises about its buffers, in four sentences of TLA+ |
| `MmStreamProofs` | the inductive invariant of `MmStream`, its theorems and the refinement of `BufferLease` |
| `MmPollThread`, `MCPollThread` | the data poll thread of a channel and the callers that add and delete fds, and its instance |
| `MmPollThreadProofs` | its inductive invariant and theorems |
| `MmChannel`, `MCChannel` | the channels of a camera: state machine, start and stop of several streams, bundle threads, linked streams, cam_lock and ch_lock; its instances |
| `MmChannelProofs` | its inductive invariant and the theorems about states, links and threads |
| `MmChannelFrames` | the invariant and the theorem about its frames and references |
| `MmJpegJobs`, `MCJpeg` | the JPEG job manager with its clients and encoders, and its instances |
| `MmJpegJobsProofs` | its inductive invariant and theorems, for sessions of one encoder |
| `HalCamera` | what the HAL1 interface does to its channels and parameters, as operators |
| `HalStateMachine`, `MCHal` | the HAL1 state machine, its callers and the events that answer late; its instances |
| `Hal3Requests`, `MCHal3` | pending requests, buffers and results of HAL3, flush and failures; its instances |
| `HalPostProc`, `MCPostProc` | the post processor of HAL1 with its queues and threads, from the snapshot channel to the application; its instances |
| `Agps`, `MCAgps` | the three AGPS state machines, the framework, the data service client and the modem; its instances |
| `AgpsProofs` | the lists, and the connections, agree with the states: the inductive invariants and the theorems |
| `GnssTracking`, `MCGnss` | tracking sessions of the location service on one fix of the engine, and its instances |
| `GnssTrackingProofs` | its inductive invariants and theorems |

An MC module that needs several environments gives them as *scenes*: records that say
what clients and devices do and what may fail. The initial state picks one, and the
run checks them all.

### MmSuperbufQueue

`chan` is a record of the fields of `mm_channel_t` and `mm_channel_queue_t` that
the handlers touch, under their own names. The command thread
(`mm_channel_process_stream_buf`, channel.c:222) runs one command to its end
before it takes the next, so each command is one action: `DataCb`, `ReqDataCb`
(`Request`, `CancelRequest`), `ManualZsl`, `ConfigNotify`, `FlushQueue`,
`Bracketing`, `FlashBracketing`, `Zoom1x`, `CaptureSetting`. All but `FlushQueue`
end with `AfterCommand`: the ZSL triggers (359-427), the overflow loop (429) and
the dispatch loop (436-556). The steps of a frame are operators of their own:
`HandleMetadata` (2373), `CompAndEnqueue` (2606) with `Fits`, `JoinNode`, `Stale`,
`Evicted` and `OpenNode`, and the three ways to empty the queue, `TrimTo`,
`FlushMatched` and `Flush`. `Start`, `StartDone`, `StartFail` and `Stop` are what
`mm_channel_start` and `mm_channel_stop` do to the queue and to the references.

A frame is its frame index, which names the buffer, and 0 marks an empty slot as
in the code. `owed` counts, per buffer, the references the channel took minus those
it gave back; it is what `Conservation` compares with the queue. A loop that would
spin (`while (match_cnt > n)` with nothing to dequeue) sets `stuck`, and `ListShape`
says it never does. The list walk of the eviction is written as the
set of nodes it gives up; where it reads the link of a node it has freed (2812), the
model takes the value the memory still holds.

Bounds: `MaxFrame` frame indices per session (3 or 4: enough for one matched, two
unmatched and one evicted node with `max_unmatched_frames` 1); expected frame ids
saturate at `Horizon`, later than every frame, and `FutureWait` (100 in the code) is
3, which is beyond the frames of a session just as 100 is beyond those a capture
waits for; the requests of a scene bound the number of requested superbufs; in a
frame configuration `Request` is bounded to the batch table (`MaxBatch`), as the HAL
ends every such capture with `stopAdvancedCapture` before the next request, and
`CaptureSetting` starts one only with fewer requests outstanding than that table has entries.

### MmStream

Five actors. The API thread runs the FSM with `ch_lock` held: `AddStream`, `SetFmt`,
`GetBuf`, `PutBuf`, `RegBuf`, `RegBufFails`, `UnregBuf`, `Release`; START is
`StartBegin`, `StreamOnWait`, `StreamOn` or `StreamOnFails`; STOP is `StopBegin`,
`StopSynced`, `StreamOff`, `StopEnd`. The poll thread runs `mm_stream_data_notify`
(stream.c:298): `Wake`, `NothingToRead` or `ReadFrame`, `DispatchSync` (cb_lock: are there
callbacks?), `CountRefs` (buf_lock), `NotifyChannel`, `NotifyLinked`, `EnqueueApp`
(cmd_lock), with a cut wherever the code releases one lock and takes another. The command thread runs `mm_stream_dispatch_app_data` (375):
`AppCall`, `AppDone`. The channels and the client return buffers with
`BundleReturn`, `LinkReturn`, `ClientReturn`, all of which are the QBUF event (880).
`MapBuf`, `SetLinked` and `RegisterCb` come from other threads.

A buffer that comes back between the two steps of streamoff adds the fd again (stream.c:1686),
so `Wake` may take a frame during STOP, and `mm_stream_data_notify` may still be at it after
STOP and UNREG_BUF have returned. `readded` remembers that this happened, and
`NotifyEndsFirst` says that nothing else gets a frame past the wait of STOP.

`bundle`, `link`, `client`, `app` and `lost` are history variables: who holds how many
references to each buffer. They are never read by a guard of the stream's own steps
(except that a holder must hold what it returns), and `RefExact` compares them with
`buf_refcnt`.

Taken from the environment: the client returns what it holds before the stream stops
(camera.c:520 states it), so `UnregBuf` finds nobody holding a buffer; a QBUF
reaches a stream only after START began; what a frame read during STOP left behind is gone before
buffers are registered again (`Settled`: START allocates and maps buffers in between, while
the frame needs a few more calls); callbacks are registered without a limit,
as `mm_camera_reg_stream_buf_cb` does (camera.c:2172), so `RegCounts` is `{-1}` or empty. The
driver's queue is a set: in which order buffers are filled is left open.
`CAM_STREAMING_MODE_BATCH` is not modelled.

Fairness (`FairSpec`) is what the threads of the code give: the poll and command
threads keep running (weak fairness of their steps), the poll thread looks at its
pipe before the data fds and a command queue is first in first out (strong fairness
of `StopSynced` and of `AppCall(b)`), STOP goes on once begun, and whoever holds a buffer
returns it some day. Nothing is assumed of `Wake`: the sensor may stop delivering.

Two buffers are enough: one can be with the driver or in flight while the other is
held, and `queued_buffer_count` goes through 0, 1 and 2, the values the poll entry
depends on.

### BufferLease

Between REG_BUF and UNREG_BUF each buffer belongs to the driver or to the HAL;
references are taken only on the HAL's side; the buffer goes to the driver only with
the last of them. `MmStream!LeaseKept` instantiates it with `owner` read off the
driver's queue and `refs` off `buf_refcnt`.

### MmPollThread

What `MmStream` takes for granted in one step: the removal of an fd that waits for
the poll thread. `fd`, `handler` and `notify_cb` are the fields of `poll_entries`, one
set of streams per field, because no lock covers them and every store is a step of its
own (`AddFd` or `DelFd`, `StoreHandler`, `StoreCb`, then `SigAsync` or `SigSync`,
thread.c:408-493). `watched` is `poll_fds`, the copy that `ProcPipe` makes (211); `pipe`
holds the commands. The callers are the API thread (`Launch`, `StreamOff`, `Release`),
whoever queues a buffer of a stream (`Qbuf`, `QbufFails`, under buf_lock), and the poll
thread itself, which deletes an entry from within the callback when it reads the last
buffer (`ReadFrame`). A stream starts with REG_BUF (`Start`), which queues its first buffers, and
STREAMON (`StreamOn`); one that fails in REG_BUF (`RegFails`, `QbufFails`) leaves its fd in
`poll_entries`, as STOP and UNREG_BUF do nothing about it in that state. The poll thread is `ThreadUp`, `SetPoll`, then the loop of
`ProcPipe`, `SigDone`, `PollData`, `Dispatch`, `NotifyReturns`, `ScanDone`.

Bounds: `MaxQbufs` calls of qbuf under way at once (1: two of one stream exclude each
other by buf_lock, two of different streams touch different entries) and `MaxPipe`
commands in the pipe when qbuf begins (1; the API thread and the poll thread add
theirs; a failed REG_BUF leaves its command). A pipe that is full, a failing `pipe()` or
`pthread_create` and a spurious wake-up of `pthread_cond_wait`, which thread.c:156 does
not test for in a loop, are not modelled.

A channel may be deleted before its poll thread has stored POLL (`Release` with `loop` "up"):
the release returns at once and nobody joins the thread. `UnjoinedIdle` says what it is left with: no
caller waits for an answer of it, and it has no fd and no command unless a REG_BUF failed
meanwhile (`left`), because a stream that was stopped waited for the thread to poll.
`mm_camera_del_channel` then zeroes the object under it. `Abandoned` lets the thread store its state
first and takes it for gone then: the loop ends on the zeroed state, or poll() sleeps on a pipe
nobody writes to. What it would do with an object that is zeroed before, or already belongs
to the next channel of the slot, is not modelled.

Seen in the model: an add and a delete that overlap can leave an entry with its fd and
callback but without its handler (`Torn`), which no later delete matches; the fd is
then polled until the next add mends the entry. `SyncRemoved` excepts that state.

Fairness (`FairSpec`): each thread runs on; nothing is assumed of frames or clients.

### MmChannel

What `MmSuperbufQueue` and `MmStream` take for granted: who starts and stops them. A call
of the library is `Enter` (the channel is looked up under cam_lock, camera.c:72, and
cam_lock is kept while it waits), then, when ch_lock is free, the event: `AddOrLink`,
`Delete`, `DeleteChannel` and `ZeroChannel`, `Request`, `Flush` and `FlushAcked`, `StartBegin`
to `StartEnds`, `StopBegin` to `StopAcked`, and `Ignored` for what the state does not know.
Start and stop are cut where other threads can come between: one stream at a time
(`StartStream`, `StopStream`), the flush whose acknowledgement is waited for, the join of each thread
(`CmdJoined`, `CbJoined`), the buffers (`PutBufs`). A start that fails at some stream takes
the path of its own code, `UndoLinks` to `UndoStream`, whose order differs from that of a
stop. Both ends share `ReleaseThreads` to `PutBufs`.

`Frame` is a stream that delivers (to the bundle of its own channel or to the one that
linked it), `CmdStep` and `CmdEnds` the command thread, `CbStep` and `CbEnds` the callback
thread. The matching is `Settle`: a superbuf is complete when every bundled stream has a
frame in the queue, and the queue keeps `Keep` frames of a stream that nobody asked for. The
client gives a frame back in the callback (`LookUp` under cam_lock, then `CallbackQbuf`
without a lock, as camera.c:510-529) or keeps it (`ClientKeeps`) for a thread of its
own (`ClientQbuf`). `out` of a stream is the sum of `buf_refcnt`; `FramesExact` compares it with the
frames that are anywhere (`lost` counts those a flush forgot).

Left out: parameter and mapping events (an ioctl or a message that is passed on), PAUSED, which
no event reaches, the other commands of the command thread (in `MmSuperbufQueue`), frame sync,
open and close of the camera. A stream that is linked twice or both bundled and linked does not
occur (see `MmStreamProofs`).

Taken from the environment (`Polite`): a client starts and stops a channel when it holds no
frames of it ("we always assume qbuf will be done before channel/stream is fully stopped",
camera.c:520) and none of its streams is linked elsewhere; it links streams that running
channels have; it does not stop from the callback. Only `shared` clients call a channel that
another thread stops, only `reuses` clients add a channel while one is deleted.

Scenes (MCChannel): zero shutter lag (metadata and preview in one bundle, whose preview may
fail to start) and live snapshot (a bundle that links the metadata of the preview channel, and
whose snapshot stream may fail to start). Bounds: two API threads (one that stops or starts, one
that calls meanwhile), two streams per scene (one that is started before the failure), two
references of the preview, so that the queue can have one too many, and one of the others; one
request waiting in the command queue. Deadlock is not checked separately: a deadlock with a
call under way is a violation of `CallsReturn`, and without one a client may always call.
Fairness: the command thread runs on (weakly); calls and the callback thread go on and get a
mutex that comes free again and again (strongly). Nothing is assumed of frames or of the
client's own threads.

### MmJpegJobs

Clients call the library one call at a time (`g_intf_lock`): `StartJob`,
`StartInactive`, `CreateSession`, `CallAbort`, `CallDestroy`, `CallClose`; a call that
stops something is several steps (`AbortLocked` ... `CloseJoin`), because the encoder's
threads and the manager run meanwhile. The manager thread is `Wake`, `TakeJob`, `EnqHead`,
`TakeBuffer`, `AssignJob`, `Encode`; an encoder answers with `FillBufferDone`, whose
`mm_jpegenc_job_done` goes on in `Requeue` and `ReturnBuffer`, with `EventError` or with
`CmdComplete`. The state keeps the lock of the code: `job_lock` is the manager's while it
starts a job and the client's through abort and destroy.

Left out: failing allocations; decoding (`mm_jpegdec.c` repeats the manager with a queue
of its own); the work buffers shared through `get_mem` and `put_mem`. Handing a buffer to
the encoder (EmptyThisBuffer, FillThisBuffer) is one step that succeeds; the encoder reports
errors only while it encodes and is not being aborted. `limit` is
`MM_JPEG_CONCURRENT_SESSIONS_COUNT`: 2 on the msm8974 and msm8994 builds, 1 on this
device's msm8996, which encodes in a pipeline.

Scenes (MCJpeg): two clients, a failing encoder and sessions that cannot be created,
a burst session of two encoders, two sessions at a time, automatic output buffers. Three
jobs per session are one encoding, one taken and one queued.

Fairness: the manager and the encoders' threads go on; a call goes on; a client that
began to stop a session destroys it. No client has to start anything. `JobsEnd`
says "again and again", which for the finitely many jobs of a run is "in
the end".

### HalCamera and HalStateMachine

`HalStateMachine` is the thread of `QCameraStateMachine` (`SmEvtProc`: calls before
events), one operator per state (`procEvtPreviewingState` and so on) with one
disjunct per group of events the code treats alike. `HalCamera` is what the handlers
call in `QCamera2HardwareInterface`: an operator takes the camera record and gives the
set of cameras it may leave, one per outcome of the steps that can fail. The record
has the five channels a picture can need, each none, without its streams, added or
started, the two parameters that choose among them (ZSL and recording hint, committed and
not), and what the picture under way waits for.

Around the thread: `Call`, `WaitAPIResult` and `NextCall` are the callers that hold
the API lock and wait on one list of answers (QCamera2HWI.cpp:5889); an internal picture has
its own thread and its own sequence of calls; `PrepSnapshotDone`, `ReadyForSnapshot`,
`NotifySnapshot` and `StopCapture` are the events that come from metadata, from the
post processor and from the notifier, which waits in `processSyncEvt`; `LiveSnapshotThread`
is Live_Snapshot_thread; `DaemonDies` and `Close`.

Left out: memory, display and callbacks to the client; the parameters that do not decide
which channels there are; answers nobody ever waits for; bursts (a picture is one frame).
`before` orders the frames of a capture: retroactive ones, then those that wait for the
flash. `MaxQueue` (2) bounds the events in the queue when a call or an event is
added: one of the last picture and one of the next.

Scenes (MCHal): viewfinder with failing channels, daemon death and close; ZSL pictures with
flash and longshot, cancelled at any time; retroactive pictures; pictures instead of the
preview; camcorder; internal picture; a device that restarts the preview itself.
Fairness: the state machine thread runs (weakly; strongly for events, since a caller that
waits for each answer does not keep `api_queue` full for ever), sensor and live snapshot
finish what they began, woken callers go on and `Close` goes on once begun.

### Hal3Requests

The camera service has a request thread and a flush thread. `ProcessCaptureRequest`
enters the request in the lists and, unless a flush is on, hands its buffers to the
channels and its settings to the daemon (`Send`); it then waits for room (`WaitForRoom`,
`Timeout`) as `mPendingLiveRequest`, the two limits and the daemon's pull requests say.
`MetadataArrives`, `HandleMetadata` and `BufferArrives` are captureResultCb;
`HandleMetadata` answers the requests up to the frame it is about, buffers of
reprocessing finish their requests. `Flush`, the device error and the restart of the sensor
share `SetFlush`, `StopStreams`, `StopMetadataChannel`, `Notify`, `Deinit` and `Resume`:
stopping holds no lock, so everything else goes on in between.

`mutex` is taken for a step except where the code keeps it while it blocks.
`asked`, `results`, `shutters` and `back` are what the service saw; a buffer that comes
back twice is marked `"twice"`.

Taken from the environment: a stream fills its buffers in order, jpegs come in the order of
their metadata; the daemon loses a frame only when a later one is in flight, so that its
loss is noticed; the wait times out only when the daemon is dead or has nothing to
answer. Scenes marked `alone` have one reprocess request at a time and restart the sensor with
nothing pending: section 4 says what happens otherwise.

Bounds: the limits of requests in flight are 2 and 3 (3 and 6 in the code); 4 requests pass
both; `UINT` is 8, above every count a correct counter takes. Fairness: a live daemon
reports and fills buffers, threads go on with what they began.

### HalPostProc

What happens to a superbuf between the snapshot channel and the picture the application
gets. Each thread is a group of actions: the source channel's callback `ProcessData` and
`DataValidated`, those of the reprocess channels `ProcessPPData` and `PPDataDone`, the data
thread `DataStart` to `DoReprocess`, the save thread of longshot `SaveStart` to `SaveNext`, the
notifier `CbStart` to `CbWoken`, and the HAL thread, the state machine with its deferred
work, which starts (`Start`, `Started`), stops (`CancelPicture`, `SnapshotDone`,
`StopSynced` to `Closed`) and handles what the encoder answers (`EncDone`, `ProcessJpegEvt`).
`q` has the six queues, `open` their `m_active`; `cmds` the commands of the threads, which
`Send` puts last and `Urgent` first, as `sendCmd` does; a synchronous one counts in
`sync_sem`.

A superbuf is `<<f, n>>`: frame `f` of the source after `n` passes of reprocessing. A job
is the record of `QCameraPostProc.h` with the superbufs it refers to. `Returned(name, entry)`
is what the release function of queue `name` gives back of an entry, `Held` what the
entry refers to: the difference is forgotten, which `lost` records. `held` are the superbufs
out of the driver. The data thread has a step wherever another thread can come between:
a JPEG job is under way (`NextJob`) before the encoder has it (`EncodeData`), and has its
jobId after that (`JobIdSet`). The body of `processPPData` after its dequeue is one step.

Left out: failing allocations; extra output jobs and depth maps; thumbnails, EXIF,
metadata and crop of `encodeData`; init and deinit; pictures of internal events. A start that
fails begins a stop at once and the source of a failed start brings nothing. Which of
several pictures of a burst is taken is up to the source.

Scenes (MCPostProc): JPEG with failing jobs and cancels; two pictures; reprocessing with one
buffer for two pictures; with failing starts and refused requests; in two passes;
raw pictures, also reprocessed; regular captures, whose channel is stopped under the
encoder; longshot with the save thread; a `hasty` client that takes the next picture before
the threads have seen the stop of the last. Bounds: two captures, so that one meets
what another left; three superbufs in all, so that one can wait for reprocessing, one for the
encoder and one be new. A start fails in scenes of one pass only, where no pointer to a
deleted channel is used again (section 4). Fairness: all threads go on, the source brings
what is expected, reprocessing and encoder finish; the client has to do nothing.

### Agps

A state machine (`nif[m]`, m one of agnss, internet and ds) has its state, its
subscribers as a set (`subs`, `waiting` for the end of the connection, `inactive`), its
retries and its timers under way. The list's order is read by `getFirstSubscriber` only, for
which the model takes any active one. An operator per event of the state machine
(`processSubscribe`, `processUnsubscribe`, `processGranted`, `processReleased`,
`processDenied`) gives the state, the order for the provider and who is told what;
`Perform` applies it. Each handler of the adapter's thread is a step: `InitAgps`,
`requestATL`, `releaseATL`, `reportOpened`, `reportAtlOpenFailed`, `reportClosed`;
`retryCallback` is the timer's message (Agps.cpp:571). `ModemRequests` and
`ModemReleases` are the modem, `Connects`, `Refuses`, `Disconnects` and `Loses` the framework
and the data service client.

Abstracted: APN and bearer; capability (MSA or MSB is set). Taken from the
environment: providers carry out orders one by one; a release of a closed connection is not
answered; the data service client reports a failure as closed; the modem reuses a handle
when nothing of its last connection is queued.

Scenes (MCAgps): connections of the framework; emergency connections over it; emergency
connections of the modem; a modem that is busy or has no emergency profile (one
handle); two with a modem that releases before the answer (`hasty`).
Bounds: two handles (one that uses a connection and one that comes or waits), three orders
under way, the code's four retries. Fairness: the adapter's thread and the timer run,
the providers answer every order and the modem gives every connection back.

### GnssTracking

Clients (`LocationAPIClientBase`) call `locAPISetCallbacks`, `locAPIStartTracking`,
`locAPIUpdateTrackingOptions`, `locAPIStopTracking` and are deleted (`Destroy`). A call
holds mMutex (and gDataMutex inside it) from sending its message to queueing its request, and
an answer takes mMutex before it looks for the request: each call is a step. `tracking`,
`session` and `requests` are mTracking and mRequestQueues[REQUEST_TRACKING]; of a request its
kind is kept.

The adapter's thread takes `queue` from its head: `MsgStartTracking`, `MsgUpdateTracking`,
`MsgStopTracking`, `MsgAddClient`, a removal in one step per session (`stopClientSessions`)
and a last one (`eraseClient`), the two messages of a modem that is back (`LocSsrMsg`,
`restartSessions`). `startTrackingMultiplex`, `updateTrackingMultiplex` and
`stopTrackingMultiplex` decide from the intervals of the other sessions which call of the
engine is made. Options are abstracted to minInterval: the one with the smallest is
the one that runs (a session with the same interval and another mode does not change the
fix, here as there); `clientData` keeps which callbacks a client has, those for locations
or measurements (`"tracking"`) or none of them (`"ni"`).

The engine is a vendor library (the base class LocApiBase returns SUCCESS): `fix` is what it
runs with. It may refuse a call, goes down (`EngineDown`) and comes back
(`handleEngineUpEvent`); until its handle is closed and opened it refuses calls. A modem
that went down runs nothing. ULP is absent: the default proxy answers false, so LocApi is
called. The order of events of the engine and of calls is that of their messages.

Left out: FlpAdapter, which gets the same updates and stops; batching, geofences, the control
client; messages of the same thread about other matters.

Scenes (MCGnss): sessions that share the engine; a modem that restarts twice; restarts
with refused calls; clients that leave; callbacks that change. Bounds: two clients, three
intervals (one smaller, one between and one larger than another session's), three sessions,
two messages waiting when a client sends the next (a start and its stop, or a stop and a
removal, in one queue), one refusal by an engine that is up, any number by one that is not.
Session ids are not reused (the counter has 32 bits). Fairness: the adapter's thread takes
what is queued, a modem that goes down comes back.

## 3. The runs

Passing runs, each with a mutant of the code for every property (PROJECT.json):

| run | question |
|---|---|
| `superbuf` | an image stream and its metadata under ZSL bursts, live snapshots with a linked stream, flash, bracketing and frame configurations, with failing allocations and starts: is the list what its loops take it for (`ListShape`), does every buffer go back once or to the client once (`Conservation`), is what is sent complete, does ZSL mode end, is nothing available withheld? |
| `stream_bundled` | a bundled stream with callbacks, whose buffers come back also during STOP: does it keep the lease, what can keep the poll thread busy past the wait of STOP, does STOP end, does every buffer come back? |
| `stream_fail` | a stream another channel links and unlinks at any time and that gets callbacks at any time, also while a frame is handled, with failing ioctls, allocations and mappings: are the reference counts exact, is a buffer ever shared, is a thread left behind? |
| `poll_thread` | two streams on one poll thread: is an update ever lost, is a callback called after the synchronous removal, does every caller get its answer, what is left to a thread that a release did not join? |
| `channel` | does a start or stop that returned move all of the channel or nothing, are the references of a running stream exact and gone with its buffers, with linked streams too, does every call return although stop and flush wait for threads that wait for the client? |
| `jpeg` | are encoders and output buffers in one place each, is a job answered at most once and never after the client took it back, does every job end, does every call return? |
| `hal_state` | do the channels that stream agree with `m_state` and with the committed parameters, is every call answered and every picture reported? |
| `hal3` | are the counters exact, do results come once, complete and in order, is nothing forgotten, does every call return and everything come back, with flushes, dropped and lost frames and a dying daemon? |
| `postproc` | is each superbuf in exactly one place until it is given back, does the encoder read frames that are still out with the source that belongs to them, does a stop leave nothing behind, does a capture end by itself? |
| `gnss` | does the engine run what the sessions need, is a session ever forgotten, do answers meet their requests, does a restart of the modem bring the fix back? |
| `agps` | do the lists of subscribers agree with the states, is a connection open exactly while it is used, is every request and release answered? |

Runs that show where the code departs from what it says (`expect: violation`,
with the trace's meaning under "findings" in PROJECT.json):

| run | what the code says | what it does |
|---|---|---|
| `hal_cancelled` | "notify HWI that snapshot is done" (QCamera2HWICallbacks.cpp:2971) | the report of a cancelled picture ends the next, retroactive one, whose caller waits for ever |

## 4. Smaller divergences

Seen while modelling. Where a scene would meet one, the model has the code's
behaviour and the passing runs leave that scene out; the constant that brings it back
is named.

Camera interface:
- channel.c:1605 flushes a failed start "only particular type" (3119) for the type of
  the wrong loop's stream: a linked stream loses buffers (history `lost`);
- channel.c:1737: a stop unlinks only the first linked stream it finds (a channel links at
  most one here);
- channel.c:1646: a failed start clears the queue with its attributes, which came with the
  channel: the next start matches with a water mark of 0; `is_bundled` is never reset;
- the state machine answers events it ignores with 0 (883);
- `mm_camera_interface.c:2028-2075`: two threads that open a camera index at once make two objects;
- `diverted_frame_id` is cut to 8 bits (`ByteMod` 4 shows it);
- stream.c:1210 "step1: remove fd from data poll thread": a QBUF after step 1 adds it
  again (1686) and a frame can arrive before the driver is off, and be handled during and
  after STREAMOFF (`readded`); were it still handled when the buffers are registered
  again, the new session would count the old frame's references (`Settled`);
- stream.c:357 counts a callback registered after START, for which there is no thread
  (223, 435): the reference is lost with every frame until the next START (`lost`; the run
  `stream_fail` has it). STOP looks at the callbacks, too: limited ones may have run out by
  then, and the command thread stays (`RegCounts` leaves them out);
- thread.c:353: the thread reports that it is up before it stores its state; a release
  in between returns at once and the thread runs on, without its object (`UnjoinedIdle`);
- stream.c:2150: a REG_BUF that fails leaves the fd in `poll_entries`; only the next session
  of the stream, or a failing QBUF, takes it out;
- `mm_camera_interface.h:774` "flushing out all frames in the superbuf queue up to
  frame_idx": `mm_channel_superbuf_flush` (channel.c:3125) never looks at the index;
- `mm_camera_interface.h:373` "max number of unmatched frames in queue": the check is
  made before the insertion (channel.c:2787), so the queue holds one more;
- `mm_camera_interface.h:370` "how many frames needing to be skipped": a match expects
  `frame_idx + post_frame_skip` (channel.c:2742), which with 1 skips none;
- channel.c:2758 "Any older unmatched buffer need to be released": with low priority
  and three streams one between the buffer and the node it completes stays;
- channel.c:553 "no superbuf avail, break the loop": in a frame-configuration capture
  it breaks after a superbuf that was too early, with another one available;
- channel.c:540: `cur_capture_idx` has no bound but the client's good manners;
- channel.c:1747: a client that stops the channel from its superbuf callback waits for
  the thread it is on, with `ch_lock` held;
- channel.c:1758 "since all streams are stopped, we are safe to release all buffers": a start
  that fails releases the buffers of the streams before (1629) and only then ends the
  threads that still have frames of them (1638) (`FramesExact` excepts it, `Undone`);
- camera.c:520 "in order to avoid deadlock, we are not locking ch_lock for qbuf": qbuf takes
  cam_lock, which a call keeps while it waits for the ch_lock of a channel that is being stopped;
  the stop waits for the callback, the callback for cam_lock (`shared`);
- camera.c:798 "successfully added a channel with a valid handle": a deletion gives its locks
  back and then zeroes the slot (869), which a new channel may have taken (`reuses`);
- stream.c:1166 "Buffer mapping failed. Abort Stream On": only if it is the first
  buffer START had to wait for.

JPEG:
- mm_jpeg.c:2242 "Return: 0 for success else failure": without an encoder
  `mm_jpeg_create_session` returns 0 and no session (2588), and `mm_jpeg_start_job` then
  returns the index of its work buffer (2316), 0 for the first one: success with job id 0,
  and no callback ever (`JobsEnd` fails in a scene with `reuse` and `may` = {"create"});
- mm_jpeg.c:2718-2726: `mm_jpegenc_job_done` puts the encoder back in the pool before it
  reads `auto_out_buf` and `dst_index`. The manager may give the encoder to the next job in
  between (1786, 1800, 1811): the buffer of the job that ended is then lost, or the next
  one's is free while it is written (`BuffersExact` fails in a scene with `auto` and two jobs;
  it came out of the proof, whose invariant did not hold). Only bursts
  let the library choose the buffer, and they are off unless `persist.camera.jpeg_burst` is set
  (QCameraPostProc.cpp:476);
- mm_jpeg.c:2406: the abort of a job in a burst session aborts the first encoder of the chain,
  whichever has the job; the scene with the burst stops the session as a whole;
- mm_jpeg.c:2910: a close that drops jobs under way posts no wake-up for the jobs of
  another client that wait for their place.

HAL1:
- a SET_PARAMS that is refused for one value keeps `m_bZslMode_new`
  (QCameraParameters.cpp:4123) and does not commit it: a later call does, without the restart;
- a close while a picture is reported: the notifier waits in `processSyncEvt`
  (QCamera2HWI.cpp:1754) for a thread that has been joined (`releaseThread`, 1343);
- `startAdvancedCapture` that fails for bracketing (around 4072) leaves the channel
  started;
- with `persist.camera.feature.restart`, a cancel or STOP_PREVIEW in PIC_TAKING leaves the
  preview streaming in PREVIEW_STOPPED; a restart that fails leaves it off in PREVIEWING;
- SET_PARAMS in PIC_TAKING commits ZSL under a running capture; in PREVIEW_PIC_TAKING
  it restarts the preview the picture comes from;
- a daemon that dies in PREPARE_SNAPSHOT leaves its caller waiting; in PIC_TAKING it
  leaves answers for a later call;
- a second retroactive picture while the first runs hangs in PREPARE_SNAPSHOT
  (scenes are `polite`).

HAL3:
- the sensor restart (QCamera3HWI.cpp:9659) does not reset `mPendingLiveRequest`: requests in
  flight count for ever;
- flush does not reset `mToBeQueuedVidBufs` (3940); a request that ends while an error is
  set stores STARTED over ERROR (3817);
- a support channel that does not start stops the metadata channel with mMutex held (3411),
  which the callback it joins may be waiting for;
- `notifyErrorForPendingRequests` answers a request by the first entry of the list
  whichever frame it is at; a refused buffer returns BAD_VALUE and leaves the request in the
  list (3571);
- QCamera3HWI.cpp:2848 asks for the reprocess result of the next frame only ("check and notify
  on any pending reprocess results", 2288): of several finished ones behind a live request
  one is delivered, the others stay until a flush (`alone` FALSE).

HAL post processor:
- QCameraPostProc.cpp:2351 stores the jobId after `start_job`: an answer handled before that
  matches no job (1027); its frames stay out until the stop (`Missed`);
- 2948: a request its reprocess channel refuses leaves its job in `m_ongoingPPQ`, so that
  every later result is paired with the job before its own;
- two passes share `m_ongoingPPQ`: with two frames under way a result of one pass can take the
  job of the other (one frame at a time in the runs);
- 323-330 deletes the reprocess channels without clearing `mPPChannels`: after a start that
  fails in the first of two passes, stop deletes the second one again; `validatePostProcess`
  (787), called after the enqueue (883), may read a deleted channel or a superbuf that has
  been given back by then (the model answers anything);
- QCamera2HWICallbacks.cpp:3175, 3189: START and STOP of the notifier are both sent with
  priority, so that START overtakes a STOP not handled yet; the images of the new capture are
  then dropped unreported and their memory stays (`hasty`); JPEG events of a cancelled
  capture are handled in the next;
- 1143 "wait up data proc thread to do next job, if previous request is blocked due to
  ongoing jpeg job": in longshot the save thread gives the buffers back later and wakes nobody;
  a request waiting for them stays until the stop (`save` with `reproc`, one buffer and two
  pictures); the save thread's START is not waited for and can be overtaken by STOP;
- the raw frame of a picture that is not from ZSL, or that was reprocessed, is copied and
  never given back; in ZSL a failed `sendDataNotify` gives it back twice;
- `processPPData` returns without giving the result back if no job is under way;
- 3038: a regular capture that is not reprocessed stops its channel as soon as the encoder has
  begun to read from it;
- QCamera2HWICallbacks.cpp:281: after a failed deferred start `zsl_channel_cb` returns without
  giving its frame back.

AGPS:
- Agps.h:135 "Once a subscriber is notified for ATL open/close status, it is deleted": when the
  emergency call cannot be started (Agps.cpp:674) the subscriber is denied, not deleted; the
  normal connection that follows uses another state machine, and the old subscriber is
  the first one active in the next emergency request;
- a release before the answer: the late GRANTED leaves a connection open that nobody uses,
  or the machine PENDING with nothing under way (`hasty`; `SubscribersAgree` holds all
  the same);
- a data call that does not start after RELEASING is ignored and the request never
  answered; a second emergency subscriber is not retried when the call is BUSY;
- a retry that comes after the release leaves its subscriber in the emergency list;
- a subscriber that subscribes again while inactive stays inactive;
- `handleModemSSR` has no caller; the APN is allocated with `new[]` and deleted without;
  the timer's thread reads the list without a lock.

GNSS:
- LocationAPI.h:663 "responseCallback is called for every Tracking, Batching API": an update or
  a stop of a session that is not there gets none, on purpose (GnssAdapter.cpp:1626, 1704); the
  request stays in the client's queue until the next start (`AnswersMatch` speaks of
  sessions that can answer);
- LocationAPIClientBase.cpp:307: a second start returns SUCCESS and does nothing; a start that
  failed leaves mTracking set, so that only a stop makes another start possible;
- a stop and a quick start: the reset of the queue (315) drops the stop's request, its answer is
  not passed on;
- a stop the engine refuses, because the modem is away, keeps the session; the client, which
  may stop it again, starts a new one instead and the old one stays, restarted after every
  restart of the modem (GnssAdapter.cpp:1223), until the client is removed. A removal that is refused leaves it for good
  (1141). `NoOrphans` names these sessions in `refused`; `onStopTrackingCb`
  (GnssAPIClient.cpp:486) does not tell the framework;
- GnssAdapter.cpp:1234: what startFix returns for the restart is not looked at (`missed`);
- a client whose last callbacks are all null is no GNSS client and is not removed
  (LocationAPI.cpp:205).

## 5. The proofs

`MmStreamProofs` proves, for any finite set of buffers and of callback slots,

    Benign == RegCounts \subseteq {-1} /\ ~(Bundled /\ MayLink)

    ASSUME Benign PROVE Spec => []TypeOK, []RefExact, []NotShared, []ThreadReleased,
                                []NotifyEndsFirst, LeaseKept

The assumption excludes what section 4 says breaks the properties and what the
program does not do: callbacks with a limit, and a stream both bundled and
linked (stream.c:203-216 counts the linked channel's reference too late). Failing ioctls, mappings
and allocations, callbacks registered while a frame is handled and frames that arrive between the
two steps of streamoff are included.

None of the properties is inductive. `IInv` adds to `TypeOK`:
- `ApiInv` ties the API thread's position, the state, `polled` and `note` together: past the
  wait of STOP the fd is polled, and the poll thread inside data_notify, only if a buffer that
  came back has added the fd again;
- `ThreadInv` ties `cmd_active` and the command queue to the callbacks: without
  limits a callback once registered stays, so STOP sees it and joins the thread;
- `HeldInv`: the client holds nothing of an unregistered stream, and a registered one
  starts without references of the last session;
- `CountInv`: `buf_refcnt` equals the holders in every state but the short stretch
  between STOP and UNREG_BUF, and a buffer with a count is not in the driver;
- `FreshInv`: the frame data_notify has read but not handed on belongs to nobody.

Each conjunct has its step lemma (`TypeStep` ... `CountStep`) with one case per action;
`Invariant` combines them. `Implements` shows by cases that every step maps to a step of
`BufferLease` or leaves it alone, from `IInv`. TLC checked `IInv` on the passing
instances before it was proved.

`MmSuperbufProofs` proves, for any finite set of streams, any scenes and any bounds,

    Matching == the scene's frames are matched by their index (no low-priority bundling)
    Whole    == the channel links at most one stream, and a start that may fail none

    Spec /\ Matching          => []ListShape, []SentComplete, []ZslStopped, NothingWithheld
    Spec /\ Matching /\ Whole => []Conservation

Low-priority bundling gives a slot away to any later frame, so that the frames of a node need not
agree: that scene stays with TLC. `Whole` excludes what makes `Conservation` false:
`mm_channel_stop` leaves its loop after the first linked stream (channel.c:1737), and a start that
fails flushes the queue for the type of the stream that failed (1605), not of the linked one.

The list is a prefix of `match_cnt` matched nodes and a rest of unmatched ones, at most one too
many while a frame is on its way in; each part is in frame order, a slot is empty or has the
buffer of its node's frame, and no buffer is in two nodes. `ListOK` says so of any list, and
the first lemmas show of the four things the handlers do to a list (take nodes off its front, give
up unmatched ones, fill a slot, put a node in) when they keep it: a node that becomes
complete passes to the prefix because everything older has just been given up. `Total` is
the ledger: whether a buffer is in the list plus how often it went out, to the driver (`freed`)
or to the client (`sent`). `Core(c, d)` says that a part of a handler that takes channel `c` to `d`
keeps `ListOK`, the ledger of every buffer and the phase, and makes no node. It is
transitive, so each helper of the code has one lemma (`DropHeadKeeps`, `FlushKeeps`,
`HandleMetadataKeeps`, `TriggerKeeps`, `DispatchKeeps` and so on); an incoming frame has `Takes`
instead, which adds one to the ledger of that frame and of nothing else. It needs that the frame
is new to the list, which is `Recent` of `IInv`: no slot holds a frame its stream has not
delivered. `SameZsl` says which helpers leave the capture alone, and so what `ZslInv` needs.
`DispatchAllKeeps` is the loop at channel.c:436: each turn but the last shortens the list, so as many
turns as there were nodes end it with nothing left that is wanted, but for a superbuf too old
for its batch. `CommitKeeps` closes the books: what a command sent or gave back is
taken off `owed`. TLC checked `IInv` in every matching scene before.

`MmPollThreadProofs` proves `TypeOK`, `NoLostUpdate` and `SyncRemoved` of the poll thread
for any number of streams and any bounds, and `UnjoinedIdle`. `IInv` adds `CallerInv` (whose target is which
stream, and that the poll thread deletes an entry with buf_lock held) and `RemovedInv`,
which follows a removal from the first store to the answer. The point of `RemovedInv` is
the case in which STOP finds no handler: then either the callback pointer is gone
already, or the poll thread is about to clear it inside the callback it has to leave
before it can answer COMMIT. That argument needs no order of commands in the pipe. `UpInv` is the
argument of `UnjoinedIdle`: until the thread polls it answers nobody, so whoever sends it a
synchronous command stays where it is and no release follows; and as long as no stream was stopped
that way, a fd, a command or an update under way is of a stream still in use or of one whose REG_BUF
failed.

`AgpsProofs` proves `TypeOK` and `SubscribersAgree` for any finite set of handles, any number
of retries and any scenes, hasty ones included. `IInv == TypeOK /\ SubscribersAgree` is
inductive: the agreement of one state machine with its list does not depend on the
connections or on the messages, which is why it survives the late answers that break
`LinksAgree`. Each operator of the state machine has a lemma (`SubscribeKeeps`,
`UnsubscribeKeeps`, `GrantedKeeps`, `ReleaseEndsKeeps`, `DeniedKeeps`, `ReleasedKeeps`) that
says it takes a list that agrees to one that agrees and gives orders and answers of the
right type; `PerformKeeps` lifts them to a state, `NextStep` has a case per action.

Its second half proves `LinksAgree`, for any finite set of handles and any number of retries,
from

    Orderly == in every scene in which the modem waits for its answers, every data call
               starts or a single handle asks for emergency connections

without which it is false in two ways (section 4): a second emergency subscriber is not
retried when the call is BUSY, and a data call that does not start after RELEASING leaves the
machine PENDING. Hasty scenes are allowed, `LinksAgree` says nothing of them. What has to be
shown is that a machine never takes the report of an old connection for the answer of the new
one, although reports wait in the queue while the machine goes on. `ConnInv` says it
with an automaton: given its state, `Stage` lists what can have been ordered and not done,
whether the connection is open and which reports can be on their way, `told`, which `Tells`
reads off the queue. A PENDING framework machine, say, may have the closure of the last
connection in front of its answer and ignores it; the data service client reports a failure as
a closure, and its machine can afford it because it is never RELEASED with a release under way,
as its subscribers wait for the end. That needs `CalmInv`, the place of every handle: who
asks through the queue is in no list (`QueueInv`), who is in a list is in no other and
was not answered while the machine is PENDING (`PlaceInv`), so that a release never finds
a PENDING machine, and the retry's timer belongs to the one subscriber of a RELEASED
emergency machine (`EmergencyInv`). Every handler has a lemma for each half (`ReleaseCalm` and
`ReleaseConn`, and so on); with nothing under way `told` is empty (`TellsNothing`) and `Stage` is
the agreement (`StagesEnd`). TLC checked the invariant in all scenes first.

`GnssTrackingProofs` proves `TypeOK`, `EngineAgrees`, `NoOrphans` and `AnswersMatch` for any
clients, any natural numbers as intervals and any scenes. The arithmetic is in three lemmas: a set of
naturals that is not empty has a smallest one (by well-foundedness of <), `Smallest` is that
one, and `WantedWith` says what the smallest becomes when an interval joins, which is what
each of the three multiplexers computes from the others (`ServedAgrees` and the lemmas
before it). `EngineInv` adds to `EngineAgrees` that session ids in use are old (so that a
start adds a session and replaces none) and that a queued ssr has a restart behind it, so
that an engine that opens is about to be told what to run. `OrphanInv` adds to `NoOrphans`
`StartKnown`, a start on its way belongs to the session its client tracks with or has its
end *behind* it in the queue, and `VisitedTried`, what a removal has passed and kept was
refused. `OrphanSent` is the case of every step that adds a message, `OrphanTaken` that
of every step that takes one. `AnswerInv` adds to `AnswersMatch` why an answer is never sent
to the wrong request: the start is the first the queue says about a session (`FirstWord`), ids that
were not given out are not talked about (`KnownIds`, `GivenOut`), so a change or stop of a
session that the adapter refused or ended is about one that nothing can answer any more; and the
adapter has the callbacks of every client whose session it has (`Reachable`), as a client that
leaves gives its session up before the removal is queued (`Leavers`). `MatchesTaken` is the
step that counts: a message is taken, and answered or not.

`MmJpegJobsProofs` proves `AnswerOnce`, `PoolsExact` and `TypeOK` for any clients, encoders, numbers of jobs
and scenes that satisfy

    OneEncoder == every session has at most one encoder, and no two share one

which is this device's build (MM_JPEG_CONCURRENT_SESSIONS_COUNT is 1); the burst session of
two encoders stays with TLC. `AnswerOnce` is about the history of a job and needs to know who
has it. `IInv` says it: a job that is *open* (started, not answered, not taken back) is in the
queue once (`QueueInv`), or in the manager's hands (`MgrInv`), or in its own session's encoder
(`RunInv`), and never in two of these; an encoder whose `abort` is set runs nothing that will be
answered (`CallInv`, `ClientInv`), which is what makes taking a job back safe although the
encoder finishes it later; a free encoder is in nobody's hands (`HandleInv`). Each action has
its lemma; the ends of abort, destruction and close share `LeaveKeeps`, the steps that only tell
a component what to do share `ControlKeeps`. `WithoutKeeps` is what removing jobs does to
a queue: the prover has no induction rule it can use, so `Induction` shows from the
well-foundedness of < that a set of naturals with 0 and every successor is Nat, and the
lemmas take the set of lengths for which the claim holds.

`PoolsExact` needs besides

    NamedBuffers == no scene chooses output buffers by itself

without which it is false (section 4). `PoolInv` is what `IInv` lacks for it: an encoder of a
session is free, the manager's, encoding or on its way back, so none is lost (`HandInv`); the
pool of buffers is never touched (`NamedInv`); the manager that saw room on the ongoing queue
still has it when it adds its job, five steps later, and the encoders that run are
no more than the limit (`LimitInv`, by counting: each of them runs a job of its own).

`MmChannelProofs` proves `TypeOK` and `AllOrNothing`, and `MmChannelFrames` proves `FramesExact`,
for any channels, streams, threads, table sizes, failing streams and clients, from

    Orderly == the client links a stream into one channel only, which is a bundle, and adds no
               channel while it deletes one

which is how the HAL uses the library (QCamera2HWI.cpp:3153 and 4771): a stream keeps the one
channel that linked it (`link`), and a second link would overwrite the first. The proof has four
layers. Every action is first shown to have an effect that is stated without EXCEPT (`StartBeginIs`
and the other lemmas in Is; `By` collects those of a call, `ByWork` those of the threads and
the client), and from then on only the effects are used. `BaseInv` is what the locks give:
one call at most is in a channel (`LockInv`), the channel's state is the one that call found
(`CallInv`), a linked stream's own channel runs and nobody starts or stops it (`TableInv`), and
the list a start or stop goes through has the streams of the table once each (`ListInv`; that
`InTable`, `Swap` and the place of the metadata stream give such a list is `OrdersList`). `Job` is the
call that is in a channel, or the state the last one left; `AgreeInv` says from the job what every
stream's state can be (`StateInv`: before the index it is moved, after it it is not, at it
a failure leaves anything), which links exist (`LinkInv`), and what the two threads are
(`ThreadInv`: both run, without an EXIT in their queues, from the first step of a start to
`ReleaseThreads`). With nobody in the channel the job is the state, and `AllOrNothing` is what
`AgreeInv` says of it.

The last layer is `FrameInv`, for the frames. `CountInv` is the ledger: a running stream counts the
frames in the one bundle that can have any (`Feeds`, `OneFeeder`) and those a flush forgot
(`lost`). Where nothing is out there must be no frame, and that needs to know how frames come to an end.
A channel has frames only of streams in its table (`PlaceInv`). A stream that has not started
yet has none (`YetInv`), so until the last stream of a bundle runs no superbuf is complete, none is
with the client, and a start that fails has only frames in the command queue and in
the superbuf queue to get rid of (`StarveInv`). Those of a linked stream, which goes on running, are
flushed: every one of them is in front of the flush in the command queue, so that the acknowledged
call finds none (`FlushInv`). The client has none when it stops a channel (`HoldInv`, from
`Polite`). Every handler moves a frame from one place to the next or gives it back:
`WorkMoves` says it of the threads and the client, `CallCounts` of the calls, which only queue
commands, and the step lemmas of each part use nothing else.

Liveness (`ReturnsToDriver`, `StopEnds`, `CallersServed`, `CallReturns`, `SnapshotReported`,
`AllReturned`, `JobsEnd`, `CapturesEnd`, `Answered`, `Recovers`) is out of the prover's reach.
`HalCamera`, `HalStateMachine`, `Hal3Requests` and `HalPostProc` work on sequences by folds and
are model-checked only.

## 6. What is left

Order of the plan, with what each would check:
1. `MmCmdThread` (*thread.c*, `cam_queue.h`): the queue and the semaphore that most modules
   take for granted, as an abstract queue (`HalPostProc` has what it uses of
   `QCameraQueue` and `QCameraCmdThread`).
2. The camera object: open and close with reference counts, the event thread.
3. `FrameSync`: the dual-camera branch of the dispatch loop, and `QCameraMuxer`.
4. Batching and geofences of `LocationAPIClientBase` (session maps, the shared queue of
   REQUEST_SESSION).
5. `msg_q`, `LocTimer`.
6. Proofs: the superbuf queue with low-priority bundling; `StateAgrees` of the HAL state
   machine; `CountsExact` of HAL3.

Not modelled, and why: parameter tables, EXIF, MPO and NMEA formatting and metadata
translation (data without protocol); HIDL glue and sockets (I/O); the
test program and the USB camera (outside the system); the power, light, fingerprint and
touch wrappers (one or two assignments each); configuration, overlays and
sepolicy (no program). The list in PROJECT.json has a row for each with its reason.
