------------------------------ MODULE MmStream ------------------------------
(***************************************************************************)
(* One stream of mm-camera-interface (mm_camera_stream.c): its state       *)
(* machine and the reference counts of its buffers.                        *)
(*                                                                         *)
(* Five actors work on a stream: the API thread, which runs the state      *)
(* machine with the channel lock held; the channel's poll thread, which    *)
(* takes frames from the driver (mm_stream_data_notify); the stream's own  *)
(* command thread, which calls the asynchronous callbacks; the channel the *)
(* stream is bundled in; and another channel it may be linked to.  The     *)
(* last two and the client give a buffer back with mm_stream_buf_done,     *)
(* from threads of their own and without the channel lock.                 *)
(*                                                                         *)
(* What a step does under buf_lock, cb_lock or cmd_lock is one action;     *)
(* data_notify, START and STOP take the locks several times and are        *)
(* several.  Frames carry no index here: the order in which the driver     *)
(* fills buffers and in which a holder gives them back is left open.       *)
(***************************************************************************)
EXTENDS Integers, FiniteSets

CONSTANTS
    Bufs,          \* the stream's buffers
    NoBuf,         \* none of them
    Reserved,      \* those with initial_reg_flag = 0: the upper layer holds them at first
    Slots,         \* entries of buf_cb for asynchronous callbacks
    MainSlot,      \* the entry mm_stream_config fills
    MainCb,        \* BOOLEAN: config->stream_cb # NULL
    RegCounts,     \* cb_count values of callbacks registered later (-1: no limit)
    Bundled,       \* BOOLEAN: is_bundled
    MayLink,       \* BOOLEAN: another channel may link the stream
    DeferMapping,  \* BOOLEAN: buffers are mapped to the server after GET_BUF returned
    IoctlMayFail,  \* BOOLEAN: QBUF, STREAMON or a cache operation may fail
    AllocMayFail   \* BOOLEAN: malloc of a command node may fail

ASSUME StreamConstantsOK ==
    /\ IsFiniteSet(Bufs) /\ NoBuf \notin Bufs /\ Reserved \subseteq Bufs
    /\ IsFiniteSet(Slots) /\ MainSlot \in Slots
    /\ RegCounts \subseteq {-1} \cup (Nat \ {0})
    /\ {MainCb, Bundled, MayLink, DeferMapping, IoctlMayFail, AllocMayFail}
         \subseteq BOOLEAN

VARIABLES
    state,       \* mm_stream_state_type_t
    api,         \* where the API thread is inside START or STOP; "idle" outside
    mapped,      \* buf_status[b].map_status
    cb,          \* buf_cb[s].cb_count; 0 stands for cb = NULL
    cmd_active,  \* cmd_thread.is_active
    streaming,   \* the driver streams (STREAMON ... STREAMOFF)
    drv,         \* buffers queued in the driver
    queued,      \* queued_buffer_count
    polled,      \* the fd is in the poll thread's poll_entries
    refcnt,      \* buf_status[b].buf_refcnt
    in_kernel,   \* buf_status[b].in_kernel
    note,        \* where the poll thread is in mm_stream_data_notify; "idle" outside
    buf_info,    \* its local buf_info: the frame it has read, or NoBuf
    has_cb,      \* its local has_cb
    app,         \* data callbacks in the queue of the stream's command thread, per buffer
    disp,        \* the buffer mm_stream_dispatch_app_data is at, or NoBuf
    is_linked,   \* is_linked
    bundle,      \* references held by the stream's own channel, per buffer
    link,        \* references held by the linked channel
    client,      \* references held by the client
    lost,        \* references counted for a command that was never queued
    readded      \* history: a buffer that came back during STOP added the fd again

notify == <<note, buf_info, has_cb>>
held == <<bundle, link, client>>
kern == <<streaming, drv, queued, polled>>
vars == <<state, api, mapped, cb, cmd_active, streaming, drv, queued, polled, refcnt,
          in_kernel, note, buf_info, has_cb, app, disp, is_linked, bundle, link, client,
          lost, readded>>

Zero == [b \in Bufs |-> 0]
HasCb == IF \E s \in Slots : cb[s] # 0 THEN 1 ELSE 0     \* an ASYNC entry is not NULL
Outcomes == IF IoctlMayFail THEN BOOLEAN ELSE {TRUE}
Allocs == IF AllocMayFail THEN BOOLEAN ELSE {TRUE}

-----------------------------------------------------------------------------
(* The driver's queue *)

\* mm_stream_qbuf succeeds: the first buffer in the driver starts the polling.
QbufOk(b) ==
    /\ drv' = drv \cup {b}
    /\ queued' = queued + 1
    /\ polled' = (polled \/ queued = 0)
    /\ readded' = (readded \/ (queued = 0 /\ api \in {"stop_sync", "stop_off"}))
    /\ in_kernel' = [in_kernel EXCEPT ![b] = TRUE]

\* mm_stream_qbuf fails, in the cache operation or in the ioctl; the latter stops
\* the polling again if no buffer is left in the driver.
QbufFails ==
    /\ IoctlMayFail
    /\ UNCHANGED polled \/ polled' = (polled /\ queued # 0)
    /\ UNCHANGED <<drv, queued, in_kernel, readded>>

\* mm_stream_buf_done in a mode other than BATCH.
BufDone(b) ==
    /\ refcnt' = [refcnt EXCEPT ![b] = IF @ = 0 THEN 0 ELSE @ - 1]
    /\ IF refcnt[b] = 1 THEN QbufOk(b) \/ QbufFails
                        ELSE UNCHANGED <<drv, queued, polled, in_kernel, readded>>
    /\ UNCHANGED streaming

-----------------------------------------------------------------------------
(* The state machine, run by the API thread with ch_lock held *)

Fsm(from, to) == api = "idle" /\ state = from /\ state' = to

\* A free slot of the channel's stream table is opened and acquired.
AddStream ==
    /\ \E ok \in Outcomes : Fsm("NOTUSED", IF ok THEN "ACQUIRED" ELSE "NOTUSED")
    /\ UNCHANGED <<api, mapped, cb, cmd_active, kern, refcnt, in_kernel, notify, app,
                   disp, is_linked, held, lost, readded>>

\* SET_FMT moves on even if the driver refuses the format.
SetFmt ==
    /\ Fsm("ACQUIRED", "CFG") \/ Fsm("CFG", "CFG")
    /\ cb' = [cb EXCEPT ![MainSlot] = IF MainCb THEN -1 ELSE 0]
    /\ UNCHANGED <<api, mapped, cmd_active, kern, refcnt, in_kernel, notify, app, disp,
                   is_linked, held, lost, readded>>

Release ==
    /\ Fsm("ACQUIRED", "NOTUSED") \/ Fsm("CFG", "NOTUSED")
    /\ cb' = [s \in Slots |-> 0]
    /\ refcnt' = Zero /\ in_kernel' = [b \in Bufs |-> FALSE]
    /\ mapped' = Zero /\ cmd_active' = FALSE /\ is_linked' = FALSE /\ app' = Zero
    /\ UNCHANGED <<api, kern, notify, disp, held, lost, readded>>

\* The upper layer allocates the buffers, and maps them unless it defers that.
GetBuf ==
    /\ \E ok \in Outcomes : Fsm("CFG", IF ok THEN "BUFFED" ELSE "CFG")
    /\ mapped' = IF DeferMapping THEN Zero ELSE [b \in Bufs |-> 1]
    /\ UNCHANGED <<api, cb, cmd_active, kern, refcnt, in_kernel, notify, app, disp,
                   is_linked, held, lost, readded>>

PutBuf ==
    /\ Fsm("BUFFED", "CFG")
    /\ mapped' = Zero
    /\ UNCHANGED <<api, cb, cmd_active, kern, refcnt, in_kernel, notify, app, disp,
                   is_linked, held, lost, readded>>

\* A frame read during STOP may outlive its session.  What it left behind is gone before
\* buffers are registered again: data_notify has returned and no channel holds a buffer.
Settled == note = "idle" /\ \A b \in Bufs : bundle[b] + link[b] = 0

\* Mutant: initial_reg_flag is ignored and every buffer is queued.
RegBuf_QueuesAll ==
    /\ Fsm("BUFFED", "REG") /\ Settled
    /\ refcnt' = [b \in Bufs |-> IF b \in Reserved THEN 1 ELSE 0]
    /\ client' = refcnt' /\ lost' = Zero
    /\ drv' = Bufs
    /\ in_kernel' = [b \in Bufs |-> TRUE]
    /\ queued' = Cardinality(drv') /\ polled' = TRUE
    /\ UNCHANGED <<api, mapped, cb, cmd_active, streaming, notify, app, disp, is_linked,
                   bundle, link, readded>>

\* The client holds what is not queued at first.
RegBuf ==
    /\ Fsm("BUFFED", "REG") /\ Settled
    /\ refcnt' = [b \in Bufs |-> IF b \in Reserved THEN 1 ELSE 0]
    /\ client' = refcnt' /\ lost' = Zero
    /\ drv' = Bufs \ Reserved
    /\ in_kernel' = [b \in Bufs |-> b \notin Reserved]
    /\ queued' = Cardinality(drv')
    /\ polled' = (polled \/ drv' # {})
    /\ UNCHANGED <<api, mapped, cb, cmd_active, streaming, notify, app, disp, is_linked,
                   bundle, link, readded>>

\* The loop breaks at the first QBUF that fails: the buffers of done, those before it,
\* stay in the driver and the fd in the poll thread.
RegBufFails(done) ==
    /\ IoctlMayFail /\ done # Bufs
    /\ Fsm("BUFFED", "BUFFED") /\ Settled
    /\ drv' = done \ Reserved
    /\ in_kernel' = [b \in Bufs |-> IF b \in done THEN b \notin Reserved ELSE in_kernel[b]]
    /\ refcnt' = [b \in Bufs |-> IF b \in done THEN IF b \in Reserved THEN 1 ELSE 0
                                               ELSE refcnt[b]]
    /\ queued' = Cardinality(drv')
    /\ IF drv' # {} THEN polled' = TRUE ELSE UNCHANGED polled \/ polled' = FALSE
    /\ UNCHANGED <<api, mapped, cb, cmd_active, streaming, notify, app, disp, is_linked,
                   held, lost, readded>>

\* UNREG_BUF zeroes the counts; the channel sends it right after STOP.  The client has
\* given its buffers back by then, as mm_camera_qbuf assumes, and the channels drop
\* theirs when they stop.
UnregBuf ==
    /\ api = "stopped" /\ api' = "idle"
    /\ state = "REG" /\ state' = "BUFFED"
    /\ refcnt' = Zero /\ in_kernel' = [b \in Bufs |-> FALSE]
    /\ drv' = {}
    /\ bundle' = Zero /\ link' = Zero /\ client' = Zero /\ lost' = Zero
    /\ UNCHANGED <<mapped, cb, cmd_active, streaming, queued, polled, notify, app, disp,
                   is_linked, readded>>

-----------------------------------------------------------------------------
(* START *)

\* The command thread is launched, with a fresh queue, if there is a callback for it.
StartBegin ==
    /\ Fsm("REG", "ACTIVE")
    /\ api' = "starting"
    /\ cmd_active' = (cmd_active \/ HasCb = 1)
    /\ app' = IF HasCb = 1 THEN Zero ELSE app
    /\ UNCHANGED <<mapped, cb, kern, refcnt, in_kernel, notify, disp, is_linked, held,
                   lost, readded>>

Unmapped == {b \in Bufs : mapped[b] = 0 /\ in_kernel[b]}
MapFailed == {b \in Bufs : mapped[b] = -1}

\* streamon looks at the buffers in turn: it waits once for the first one that is
\* queued but not mapped, and gives up at one whose mapping failed.
StreamOnWait ==
    /\ api = "starting" /\ Unmapped # {}
    /\ api' = "mapwait"
    /\ UNCHANGED <<state, mapped, cb, cmd_active, kern, refcnt, in_kernel, notify, app,
                   disp, is_linked, held, lost, readded>>

StreamOn ==
    /\ \/ api = "starting" /\ Unmapped = {} /\ MapFailed = {}
       \/ api = "mapsignal"
    /\ api' = "idle"
    /\ streaming' = TRUE
    /\ UNCHANGED <<state, mapped, cb, cmd_active, drv, queued, polled, refcnt, in_kernel,
                   notify, app, disp, is_linked, held, lost, readded>>

\* Mutant: a failed STREAMON leaves the command thread behind.
StreamOnFails_KeepsThread ==
    /\ \/ api = "starting" /\ MapFailed # {}
       \/ api = "mapwait"
       \/ api \in {"starting", "mapsignal"} /\ IoctlMayFail
    /\ api' = "stopped" /\ state' = "REG"
    /\ polled' = FALSE
    /\ UNCHANGED <<mapped, cb, cmd_active, streaming, drv, queued, refcnt, in_kernel,
                   notify, app, disp, is_linked, held, lost, readded>>

\* A failed mapping, the timeout of the wait or a failed STREAMON: the fd leaves
\* the poll thread and the command thread is released.
StreamOnFails ==
    /\ \/ api = "starting" /\ MapFailed # {}
       \/ api = "mapwait"
       \/ api \in {"starting", "mapsignal"} /\ IoctlMayFail
    /\ note = "idle" /\ disp = NoBuf /\ (HasCb = 1 => app = Zero)
    /\ api' = "stopped" /\ state' = "REG"
    /\ polled' = FALSE
    /\ cmd_active' = (cmd_active /\ HasCb = 0)
    /\ UNCHANGED <<mapped, cb, streaming, drv, queued, refcnt, in_kernel, notify, app,
                   disp, is_linked, held, lost, readded>>

\* mm_stream_map_buf, from a thread of the upper layer: it signals buf_cond when no
\* buffer needs waiting for, or when a mapping failed.
MapBuf(b, ok) ==
    /\ DeferMapping /\ state \in {"BUFFED", "REG", "ACTIVE"} /\ mapped[b] = 0
    /\ mapped' = [mapped EXCEPT ![b] = IF ok THEN 1 ELSE -1]
    /\ api' = IF /\ api = "mapwait"
                 /\ \/ \A x \in Bufs : mapped'[x] # 0 \/ ~in_kernel[x]
                    \/ \E x \in Bufs : mapped'[x] = -1
              THEN "mapsignal" ELSE api
    /\ UNCHANGED <<state, cb, cmd_active, kern, refcnt, in_kernel, notify, app, disp,
                   is_linked, held, lost, readded>>

-----------------------------------------------------------------------------
(* STOP *)

\* streamoff, step 1: the fd leaves poll_entries, and the API thread waits until the
\* poll thread has seen that (mm_camera_poll_thread_del_poll_fd, synchronous call).
StopBegin ==
    /\ api = "idle" /\ state = "ACTIVE"
    /\ api' = "stop_sync"
    /\ polled' = FALSE /\ readded' = FALSE
    /\ UNCHANGED <<state, mapped, cb, cmd_active, streaming, drv, queued, refcnt,
                   in_kernel, notify, app, disp, is_linked, held, lost>>

\* Mutant: the poll fd is removed without waiting for the poll thread.
StopSynced_NoWait ==
    /\ api = "stop_sync"
    /\ api' = "stop_off"
    /\ UNCHANGED <<state, mapped, cb, cmd_active, kern, refcnt, in_kernel, notify, app,
                   disp, is_linked, held, lost, readded>>

StopSynced ==
    /\ api = "stop_sync" /\ note = "idle"
    /\ api' = "stop_off"
    /\ UNCHANGED <<state, mapped, cb, cmd_active, kern, refcnt, in_kernel, notify, app,
                   disp, is_linked, held, lost, readded>>

\* Step 2: the driver drops its queue; queued_buffer_count keeps its value.  The
\* command thread is to be joined if a callback is still registered.
StreamOff ==
    /\ api = "stop_off"
    /\ api' = IF HasCb = 1 THEN "stop_join" ELSE "stop_end"
    /\ streaming' = FALSE /\ drv' = {}
    /\ UNCHANGED <<state, mapped, cb, cmd_active, queued, polled, refcnt, in_kernel,
                   notify, app, disp, is_linked, held, lost, readded>>

\* The thread ends once its queue is empty.
StopEnd ==
    /\ \/ api = "stop_end" /\ cmd_active' = cmd_active
       \/ api = "stop_join" /\ app = Zero /\ disp = NoBuf /\ cmd_active' = FALSE
    /\ api' = "stopped" /\ state' = "REG"
    /\ UNCHANGED <<mapped, cb, kern, refcnt, in_kernel, notify, app, disp, is_linked,
                   held, lost, readded>>

-----------------------------------------------------------------------------
(* mm_stream_data_notify on the poll thread *)

\* A buffer queued after step 1 of streamoff makes the fd polled again, and the driver
\* may fill it before step 2.
Wake ==
    /\ note = "idle" /\ polled /\ streaming /\ drv # {}
    /\ note' = "woken" /\ UNCHANGED <<buf_info, has_cb>>
    /\ UNCHANGED <<state, api, mapped, cb, cmd_active, kern, refcnt, in_kernel, app,
                   disp, is_linked, held, lost, readded>>

NotifyReturns == note' = "idle" /\ buf_info' = NoBuf /\ has_cb' = 0

\* The stream is not active any more, or DQBUF fails: data_notify returns at once.
NothingToRead ==
    /\ note = "woken" /\ (state # "ACTIVE" \/ drv = {} \/ IoctlMayFail)
    /\ NotifyReturns
    /\ UNCHANGED <<state, api, mapped, cb, cmd_active, kern, refcnt, in_kernel, app,
                   disp, is_linked, held, lost, readded>>

\* DQBUF; the last buffer out stops the polling.  A failed cache operation makes
\* data_notify return: the buffer is nobody's from then on.
ReadFrame(b) ==
    /\ note = "woken" /\ state = "ACTIVE" /\ b \in drv
    /\ drv' = drv \ {b}
    /\ queued' = queued - 1
    /\ polled' = (polled /\ queued # 1)
    /\ \E ok \in Outcomes :
          IF ok THEN note' = "read" /\ buf_info' = b /\ UNCHANGED has_cb ELSE NotifyReturns
    /\ UNCHANGED <<state, api, mapped, cb, cmd_active, streaming, refcnt, in_kernel, app,
                   disp, is_linked, held, lost, readded>>

OwnRefs == IF Bundled THEN 1 ELSE 0

\* Under cb_lock: the synchronous callbacks run, and has_cb says whether there are others.
DispatchSync ==
    /\ note = "read"
    /\ note' = "dispatched" /\ has_cb' = HasCb /\ UNCHANGED buf_info
    /\ UNCHANGED <<state, api, mapped, cb, cmd_active, kern, refcnt, in_kernel, app, disp,
                   is_linked, held, lost, readded>>

\* Mutant: has_cb is left to handle_rcvd_buf, and the callbacks are looked up again here.
CountRefs_Fresh ==
    /\ note = "dispatched"
    /\ note' = "counted" /\ UNCHANGED <<buf_info, has_cb>>
    /\ in_kernel' = [in_kernel EXCEPT ![buf_info] = FALSE]
    /\ refcnt' = [refcnt EXCEPT ![buf_info] = @ + OwnRefs + HasCb]
    /\ UNCHANGED <<state, api, mapped, cb, cmd_active, kern, app, disp, is_linked, held,
                   lost, readded>>

\* Under buf_lock, and after cb_lock was given back: the references of the bundling
\* channel and of the command thread are counted.
CountRefs ==
    /\ note = "dispatched"
    /\ note' = "counted" /\ UNCHANGED <<buf_info, has_cb>>
    /\ in_kernel' = [in_kernel EXCEPT ![buf_info] = FALSE]
    /\ refcnt' = [refcnt EXCEPT ![buf_info] = @ + OwnRefs + has_cb]
    /\ UNCHANGED <<state, api, mapped, cb, cmd_active, kern, app, disp, is_linked, held,
                   lost, readded>>

\* mm_stream_handle_rcvd_buf, first part: the stream's own channel.
NotifyChannel ==
    /\ note = "counted"
    /\ note' = "notified" /\ UNCHANGED <<buf_info, has_cb>>
    /\ \E ok \in Allocs :
          /\ bundle' = [bundle EXCEPT ![buf_info] = @ + IF ok THEN OwnRefs ELSE 0]
          /\ lost' = [lost EXCEPT ![buf_info] = @ + IF ok THEN 0 ELSE OwnRefs]
    /\ UNCHANGED <<state, api, mapped, cb, cmd_active, kern, refcnt, in_kernel, app,
                   disp, is_linked, link, client, readded>>

\* Mutant: the linked channel gets the buffer without a reference.
NotifyLinked_NoCount ==
    /\ note = "notified"
    /\ note' = "linked" /\ UNCHANGED <<buf_info, has_cb>>
    /\ link' = [link EXCEPT ![buf_info] = @ + IF is_linked THEN 1 ELSE 0]
    /\ UNCHANGED <<state, api, mapped, cb, cmd_active, kern, refcnt, in_kernel, app,
                   disp, is_linked, bundle, client, lost, readded>>

\* Second part: the reference of the linked channel is counted only now.
NotifyLinked ==
    /\ note = "notified"
    /\ note' = "linked" /\ UNCHANGED <<buf_info, has_cb>>
    /\ \E ok \in Allocs :
          LET n == IF is_linked THEN 1 ELSE 0
          IN  /\ refcnt' = [refcnt EXCEPT ![buf_info] = @ + n]
              /\ link' = [link EXCEPT ![buf_info] = @ + IF ok THEN n ELSE 0]
              /\ lost' = [lost EXCEPT ![buf_info] = @ + IF ok THEN 0 ELSE n]
    /\ UNCHANGED <<state, api, mapped, cb, cmd_active, kern, in_kernel, app, disp,
                   is_linked, bundle, client, readded>>

\* Mutant: cmd_lock is held from the beginning of STOP on.
EnqueueApp_LockHeld ==
    /\ note = "linked" /\ api \notin {"stop_sync", "stop_join"}
    /\ NotifyReturns
    /\ app' = [app EXCEPT ![buf_info] = @ + has_cb]
    /\ UNCHANGED <<state, api, mapped, cb, cmd_active, kern, refcnt, in_kernel, disp,
                   is_linked, held, lost, readded>>

\* Third part: the command thread, under cmd_lock, which STOP holds while it joins.
EnqueueApp ==
    /\ note = "linked" /\ api # "stop_join"
    /\ NotifyReturns
    /\ \E ok \in Allocs :
          LET queue == ok /\ cmd_active
          IN  /\ app' = [app EXCEPT ![buf_info] = @ + IF queue THEN has_cb ELSE 0]
              /\ lost' = [lost EXCEPT ![buf_info] = @ + IF queue THEN 0 ELSE has_cb]
    /\ UNCHANGED <<state, api, mapped, cb, cmd_active, kern, refcnt, in_kernel, disp,
                   is_linked, held, readded>>

-----------------------------------------------------------------------------
(* mm_stream_dispatch_app_data on the stream's command thread *)

Callbacks == {s \in Slots : cb[s] # 0}

\* Mutant: one reference for all the callbacks together.
AppCall_OneRef(b) ==
    /\ cmd_active /\ disp = NoBuf /\ app[b] > 0
    /\ disp' = b
    /\ refcnt' = [refcnt EXCEPT ![b] = @ + 1]
    /\ client' = [client EXCEPT ![b] = @ + Cardinality(Callbacks)]
    /\ UNCHANGED <<state, api, mapped, cb, cmd_active, kern, in_kernel, notify, app,
                   is_linked, bundle, link, lost, readded>>

\* Every callback gets a reference of its own; a limited one counts down to none.
AppCall(b) ==
    /\ cmd_active /\ disp = NoBuf /\ app[b] > 0
    /\ disp' = b
    /\ refcnt' = [refcnt EXCEPT ![b] = @ + Cardinality(Callbacks)]
    /\ client' = [client EXCEPT ![b] = @ + Cardinality(Callbacks)]
    /\ cb' = [s \in Slots |-> IF cb[s] > 0 THEN cb[s] - 1 ELSE cb[s]]
    /\ UNCHANGED <<state, api, mapped, cmd_active, kern, in_kernel, notify, app,
                   is_linked, bundle, link, lost, readded>>

\* Mutant: the thread's own reference is not given back.
AppDone_Leaks ==
    /\ disp # NoBuf
    /\ disp' = NoBuf
    /\ app' = [app EXCEPT ![disp] = @ - 1]
    /\ UNCHANGED <<state, api, mapped, cb, cmd_active, kern, refcnt, in_kernel, notify,
                   is_linked, held, lost, readded>>

\* Then the reference counted for the thread itself is given back.
AppDone ==
    /\ disp # NoBuf
    /\ disp' = NoBuf
    /\ app' = [app EXCEPT ![disp] = @ - 1]
    /\ BufDone(disp)
    /\ UNCHANGED <<state, api, mapped, cb, cmd_active, notify, is_linked, held, lost>>

-----------------------------------------------------------------------------
(* The holders give a buffer back: the QBUF event, handled in state ACTIVE only *)

Qbuf(b) ==
    /\ IF state = "ACTIVE" THEN BufDone(b)
                           ELSE UNCHANGED <<kern, refcnt, in_kernel, readded>>
    /\ UNCHANGED <<state, api, mapped, cb, cmd_active, notify, app, disp, is_linked,
                   lost>>

BundleReturn(b) ==
    /\ bundle[b] > 0 /\ bundle' = [bundle EXCEPT ![b] = @ - 1]
    /\ Qbuf(b)
    /\ UNCHANGED <<link, client>>

LinkReturn(b) ==
    /\ link[b] > 0 /\ link' = [link EXCEPT ![b] = @ - 1]
    /\ Qbuf(b)
    /\ UNCHANGED <<bundle, client>>

\* The client knows the stream from start_channel on: a QBUF before that would be
\* dropped with the answer 0.
ClientReturn(b) ==
    /\ state = "REG" => api = "stopped"
    /\ client[b] > 0 /\ client' = [client EXCEPT ![b] = @ - 1]
    /\ Qbuf(b)
    /\ UNCHANGED <<bundle, link>>

\* The linking channel starts and stops (mm_channel_start, mm_channel_stop).
SetLinked(on) ==
    /\ MayLink /\ state # "NOTUSED" /\ is_linked # on
    /\ is_linked' = on
    /\ UNCHANGED <<state, api, mapped, cb, cmd_active, kern, refcnt, in_kernel, notify,
                   app, disp, held, lost, readded>>

\* mm_stream_reg_buf_cb: an asynchronous callback in a free slot.
RegisterCb(s, n) ==
    /\ api = "idle" /\ state # "NOTUSED" /\ cb[s] = 0 /\ n \in RegCounts
    /\ cb' = [cb EXCEPT ![s] = n]
    /\ UNCHANGED <<state, api, mapped, cmd_active, kern, refcnt, in_kernel, notify, app,
                   disp, is_linked, held, lost, readded>>

-----------------------------------------------------------------------------

Init ==
    /\ state = "NOTUSED" /\ api = "idle"
    /\ mapped = Zero /\ cb = [s \in Slots |-> 0] /\ cmd_active = FALSE
    /\ streaming = FALSE /\ drv = {} /\ queued = 0 /\ polled = FALSE
    /\ refcnt = Zero /\ in_kernel = [b \in Bufs |-> FALSE]
    /\ note = "idle" /\ buf_info = NoBuf /\ has_cb = 0
    /\ app = Zero /\ disp = NoBuf /\ is_linked = FALSE
    /\ bundle = Zero /\ link = Zero /\ client = Zero /\ lost = Zero
    /\ readded = FALSE

Setup == AddStream \/ SetFmt \/ Release \/ GetBuf \/ PutBuf \/ RegBuf \/ UnregBuf
StartSteps == StartBegin \/ StreamOnWait \/ StreamOn \/ StreamOnFails
StopSteps == StopBegin \/ StopSynced \/ StreamOff \/ StopEnd
NotifySteps == \/ Wake \/ NothingToRead \/ DispatchSync \/ CountRefs
               \/ NotifyChannel \/ NotifyLinked \/ EnqueueApp

Next ==
    \/ Setup
    \/ \E done \in SUBSET Bufs : RegBufFails(done)
    \/ StartSteps
    \/ StopSteps
    \/ \E b \in Bufs, ok \in Outcomes : MapBuf(b, ok)
    \/ NotifySteps
    \/ \E b \in Bufs : ReadFrame(b)
    \/ \E b \in Bufs : AppCall(b)
    \/ AppDone
    \/ \E b \in Bufs : BundleReturn(b) \/ LinkReturn(b) \/ ClientReturn(b)
    \/ \E on \in BOOLEAN : SetLinked(on)
    \/ \E s \in Slots, n \in RegCounts : RegisterCb(s, n)

Spec == Init /\ [][Next]_vars

\* The poll and command threads run and STOP goes on once begun.  The poll thread
\* looks at its pipe before the data fds, and a command queue is first in first out:
\* both are strong fairness here.  Whoever holds a buffer gives it back some day.
Fairness ==
    /\ WF_vars(NotifySteps) /\ WF_vars(\E b \in Bufs : ReadFrame(b))
    /\ WF_vars(AppDone) /\ SF_vars(StopSynced) /\ WF_vars(StreamOff) /\ WF_vars(StopEnd)
    /\ \A b \in Bufs : /\ SF_vars(AppCall(b))
                        /\ WF_vars(BundleReturn(b))
                        /\ WF_vars(LinkReturn(b))
                        /\ WF_vars(ClientReturn(b))

FairSpec == Spec /\ Fairness

-----------------------------------------------------------------------------
(* Properties *)

States == {"NOTUSED", "ACQUIRED", "CFG", "BUFFED", "REG", "ACTIVE"}
ApiPcs == {"idle", "starting", "mapwait", "mapsignal", "stop_sync", "stop_off", "stop_join",
           "stop_end", "stopped"}
NotePcs == {"idle", "woken", "read", "dispatched", "counted", "notified", "linked"}

\* The types of the stream's fields.
TypeOK ==
    /\ state \in States /\ api \in ApiPcs
    /\ mapped \in [Bufs -> {-1, 0, 1}]
    /\ cb \in [Slots -> {-1} \cup Nat]
    /\ cmd_active \in BOOLEAN /\ streaming \in BOOLEAN
    /\ polled \in BOOLEAN /\ is_linked \in BOOLEAN /\ readded \in BOOLEAN
    /\ drv \subseteq Bufs /\ queued \in Int
    /\ in_kernel \in [Bufs -> BOOLEAN]
    /\ note \in NotePcs /\ has_cb \in {0, 1}
    /\ buf_info \in IF note \in {"idle", "woken"} THEN {NoBuf} ELSE Bufs
    /\ disp \in Bufs \cup {NoBuf}
    /\ refcnt \in [Bufs -> Nat] /\ app \in [Bufs -> Nat]
    /\ bundle \in [Bufs -> Nat] /\ link \in [Bufs -> Nat]
    /\ client \in [Bufs -> Nat] /\ lost \in [Bufs -> Nat]

\* References of data_notify itself: counted, and not handed on yet.
Pending(b) ==
    IF buf_info # b THEN 0
    ELSE CASE note = "counted" -> OwnRefs + has_cb
           [] note \in {"notified", "linked"} -> has_cb
           [] OTHER -> 0

Holders(b) == bundle[b] + link[b] + client[b] + app[b] + Pending(b) + lost[b]

\* buf_refcnt is the number of references out: a count too low sends a buffer to the
\* driver under a reader's hands, one too high keeps it from the driver for ever
\* (mm_camera_stream.c:349-358, 4208-4216).
RefExact == state = "ACTIVE" => \A b \in Bufs : refcnt[b] = Holders(b)

\* The driver never fills a buffer somebody still reads.
NotShared == \A b \in drv : bundle[b] + link[b] + client[b] + app[b] = 0

\* A stopped stream has no command thread left (mm_camera_stream.c:902-920).
ThreadReleased == api = "stopped" => ~cmd_active

\* mm_stream_data_notify outlives the session only with a frame of a buffer that came back
\* during STOP and added the fd again (mm_camera_stream.c:1686): nothing else wakes the poll
\* thread once the wait for it is through, whatever the holders gave back before
\* ("step1: remove fd from data poll thread", 1210).
NotifyEndsFirst ==
    api \in {"stop_off", "stop_join", "stop_end", "stopped"} /\ note # "idle" => readded

\* The stream implements the lease of its buffers: a reference is handed out only while
\* the driver does not own the buffer, which goes back with the last reference
\* (mm_camera_stream.c:341-358, 4197-4237).
Registered == state \in {"REG", "ACTIVE"}
Lease == INSTANCE BufferLease WITH
            owner <- [b \in Bufs |-> IF ~Registered THEN "none"
                                     ELSE IF b \in drv THEN "driver" ELSE "hal"],
            refs <- [b \in Bufs |-> IF Registered THEN refcnt[b] ELSE 0]
LeaseKept == Lease!LeaseInit /\ [][Lease!LeaseNext]_(Lease!leaseVars)

\* A buffer taken from a running stream comes back to the driver.
ReturnsToDriver ==
    \A b \in Bufs : (streaming /\ b \notin drv) ~> (b \in drv \/ ~streaming)

\* STOP ends: the poll thread answers and the command thread can be joined.
StopEnds == api \in {"stop_sync", "stop_off", "stop_join", "stop_end"} ~> api = "stopped"
=============================================================================
