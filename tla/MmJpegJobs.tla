------------------------------ MODULE MmJpegJobs ------------------------------
(* The JPEG encode job manager (mm-jpeg-interface): clients of the library     *)
(* create encode sessions, start, abort and close; one job manager thread      *)
(* takes jobs off job_queue and hands them to OMX encoder components; each     *)
(* component answers on a thread of its own (mm_jpeg_fbd, event_handler).      *)
(*                                                                             *)
(*  - g_intf_lock admits one client call at a time: `call`.                    *)
(*  - job_lock is held by the manager while it starts a job and by abort,      *)
(*    destroy and close; each OMX session has a lock of its own.               *)
(*  - a client session is a chain of OMX sessions (one, or in burst mode       *)
(*    MM_JPEG_CONCURRENT_SESSIONS_COUNT) that share one queue of free          *)
(*    handles and one queue of free output buffers.                            *)
(*  - the OMX component is a library: it finishes, fails or stops.             *)
EXTENDS Integers, Sequences, FiniteSets, SequencesExt

CONSTANTS Session,   \* client sessions (each of a client of its own)
          Handle,    \* OMX sessions, mm_jpeg_job_session_t
          MaxJobs,   \* bound: jobs started per session
          Scenes     \* the platforms and clients checked

Job == Session \X (1..MaxJobs)
EXIT == <<"EXIT", 0>>             \* MM_JPEG_CMD_TYPE_EXIT
NoHandle == "none"

SceneType ==
    [limit: 1..2,                  \* MM_JPEG_CONCURRENT_SESSIONS_COUNT
     chain: [Session -> Seq(Handle)],
     ndst: Nat,                    \* params.num_dst_bufs
     auto: BOOLEAN,                \* jobs ask for any output buffer: dst_index < 0 (see BuffersExact)
     reuse: BOOLEAN,               \* my_obj->reuse_reproc_buffer
     ops: SUBSET {"abort", "destroy", "close", "drop"},  \* drop: close with jobs under way
     may: SUBSET {"config", "error", "create"},
     jobs: [Session -> 0..MaxJobs],  \* bound: jobs that a client starts
     made: 1..2]                   \* bound: sessions that a client makes

ASSUME BoundAssumption == MaxJobs \in Nat
ASSUME ScenesAssumption == Scenes \subseteq SceneType
ASSUME HandlesAssumption == NoHandle \notin Handle

VARIABLES
    scene,
    job_queue, ongoing_job_q,      \* todo jobs in order; jobs given to OMX
    job_sem, job_lock,             \* the manager's semaphore; the lock's holder
    mgr,                           \* the job manager thread
    sess,                          \* each OMX session
    client,                        \* each client session
    omx, omxThread,                \* the OMX components and their threads
    call,                          \* the call that holds g_intf_lock
    started, answers, gone         \* jobs started, their callbacks, jobs taken back

mgrVars == <<job_sem, job_lock, mgr>>
queues == <<job_queue, ongoing_job_q>>
jobVars == <<started, answers, gone>>
vars == <<scene, job_queue, ongoing_job_q, job_sem, job_lock, mgr, sess, client,
          omx, omxThread, call, started, answers, gone>>

Chain(s) == scene.chain[s]
IdleCall == [op |-> "none", pc |-> "none", s |-> CHOOSE s \in Session : TRUE,
             job |-> EXIT, h |-> NoHandle]
IdleMgr == [pc |-> "wait", job |-> EXIT, h |-> NoHandle, dst |-> 0, tail |-> FALSE]
Called(j) == answers[j] # <<>>
Jobs == {j \in Job : j[2] <= started[j[1]]}

\* mm_jpeg_session_create: what a new OMX session starts with.
NewSess == [abort |-> "NONE", encoding |-> FALSE, state_change_pending |-> FALSE,
            auto |-> FALSE, dst |-> 0, job |-> EXIT, lock |-> "free"]
NewOmx == [state |-> "executing", busy |-> FALSE, cmds |-> <<>>]
\* mm_jpeg_create_session: all handles and all output buffers (as index + 1) are free.
NewClient(s, n) == [made |-> n, id |-> TRUE, active |-> TRUE, stopping |-> FALSE,
                    session_handle_q |-> Chain(s),
                    out_buf_q |-> [i \in 1..scene.ndst |-> i]]
\* what the client holds of a session that is not there
NoClient(n, id) == [made |-> n, id |-> id, active |-> FALSE, stopping |-> FALSE,
                 session_handle_q |-> <<>>, out_buf_q |-> <<>>]

Init ==
    /\ scene \in Scenes
    /\ job_queue = <<>> /\ ongoing_job_q = {} /\ job_sem = 0 /\ job_lock = "free"
    /\ mgr = IdleMgr
    /\ sess = [h \in Handle |-> NewSess]
    /\ client = [s \in Session |-> IF Chain(s) = <<>> THEN NoClient(0, FALSE) ELSE NewClient(s, 1)]
    /\ omx = [h \in Handle |-> NewOmx]
    /\ omxThread = [h \in Handle |-> "none"]
    /\ call = IdleCall
    /\ started = [s \in Session |-> 0]
    /\ answers = [j \in Job |-> <<>>]
    /\ gone = {}

-------------------------------------------------------------------------------
(* Client calls. *)

\* mm_jpeg_start_job on a session that is there: queue the node, wake the manager.
StartJob(s) ==
    /\ call.op = "none" /\ mgr.pc # "dead"
    /\ client[s].active /\ ~client[s].stopping /\ started[s] < scene.jobs[s]
    /\ started' = [started EXCEPT ![s] = @ + 1]
    /\ job_queue' = Append(job_queue, <<s, started[s] + 1>>)
    /\ job_sem' = job_sem + 1
    /\ UNCHANGED <<scene, ongoing_job_q, job_lock, mgr, sess, client, omx, omxThread, call,
                   answers, gone>>

\* mm_jpeg_start_job on a session that is not active: nothing is queued. rc is
\* then what the work buffer left in it: -1, or with reuse_reproc_buffer the
\* index of the buffer, which the client takes for success.
StartInactive(s) ==
    /\ call.op = "none" /\ mgr.pc # "dead"
    /\ client[s].id /\ ~client[s].active /\ started[s] < scene.jobs[s]
    /\ started' = [started EXCEPT ![s] = @ + 1]
    /\ gone' = IF scene.reuse THEN gone ELSE gone \cup {<<s, started[s] + 1>>}
    /\ UNCHANGED <<scene, queues, mgrVars, sess, client, omx, omxThread, call, answers>>

\* mm_jpeg_create_session. When OMX_GetHandle fails the session is left inactive
\* and rc is still 0: the client believes in a session with id 0.
CreateSession(s) ==
    /\ call.op = "none" /\ mgr.pc # "dead"
    /\ Chain(s) # <<>> /\ ~client[s].id /\ client[s].made < scene.made
    /\ \/ /\ client' = [client EXCEPT ![s] = NewClient(s, @.made + 1)]
          /\ sess' = [h \in Handle |-> IF h \in Range(Chain(s)) THEN NewSess ELSE sess[h]]
          /\ omx' = [h \in Handle |-> IF h \in Range(Chain(s)) THEN NewOmx ELSE omx[h]]
       \/ /\ "create" \in scene.may
          /\ client' = [client EXCEPT ![s] = NoClient(@.made + 1, TRUE)]
          /\ UNCHANGED <<sess, omx>>
    /\ UNCHANGED <<scene, queues, mgrVars, omxThread, call, jobVars>>

Begin(op, s, j) ==
    /\ call.op = "none" /\ mgr.pc # "dead" /\ op \in scene.ops /\ client[s].active
    /\ call' = [op |-> op, pc |-> "lock", s |-> s, job |-> j, h |-> NoHandle]
    /\ client' = [client EXCEPT ![s].stopping = TRUE]
    /\ UNCHANGED <<scene, queues, mgrVars, sess, omx, omxThread, jobVars>>

\* mm_jpeg_intf_abort_job, mm_jpeg_intf_destroy_session and mm_jpeg_intf_close
\* take g_intf_lock. A client that aborts goes on to destroy the session
\* (the data processing threads' STOP command), and one that closes has no jobs
\* under way, unless the scene lets it drop them.
CallAbort(s) == \E j \in Jobs : j[1] = s /\ ~Called(j) /\ j \notin gone /\ Begin("abort", s, j)
CallDestroy(s) == Begin("destroy", s, EXIT)
CallClose(s) ==
    /\ \A j \in Jobs : j[1] = s => Called(j) \/ j \in gone \/ "drop" \in scene.ops
    /\ Begin("close", s, EXIT)

-------------------------------------------------------------------------------
(* Abort, destroy and close, under job_lock. *)

\* The client takes back the jobs it no longer wants when the call returns.
Return(jobs) == call' = IdleCall /\ gone' = gone \cup jobs
Mine(s) == {j \in Jobs : j[1] = s}

\* mm_jpeg_queue_remove_job_by_job_id, and by_session_id until it finds no other: the
\* queue without the jobs in T. A function where SelectSeq would do: the provers know
\* nothing of SelectSeq.
Without(queue, T) ==
    LET rest[i \in 0..Len(queue)] ==
            IF i = 0 THEN <<>>
            ELSE IF queue[i] \in T THEN rest[i - 1] ELSE Append(rest[i - 1], queue[i])
    IN rest[Len(queue)]

\* mm_jpeg_abort_job: a queued job is freed; one that OMX works on is taken off
\* the ongoing queue and the session that its id names is aborted.
AbortLocked ==
    /\ call.op = "abort" /\ call.pc = "lock" /\ job_lock = "free"
    /\ \/ /\ call.job \in Range(job_queue)
          /\ job_queue' = Without(job_queue, {call.job})
          /\ Return({call.job})
          /\ UNCHANGED <<ongoing_job_q, job_lock>>
       \/ /\ call.job \notin Range(job_queue) /\ call.job \in ongoing_job_q
          /\ ongoing_job_q' = ongoing_job_q \ {call.job}
          /\ job_lock' = "client"
          /\ call' = [call EXCEPT !.pc = "mark", !.h = Head(Chain(call.s))]
          /\ UNCHANGED <<job_queue, gone>>
       \/ /\ call.job \notin Range(job_queue) \cup ongoing_job_q
          /\ Return({call.job})
          /\ UNCHANGED <<job_queue, ongoing_job_q, job_lock>>
    /\ UNCHANGED <<scene, job_sem, mgr, sess, client, omx, omxThread, started, answers>>

\* Mutant: the destruction looks for the session's jobs on the ongoing queue only
DestroyLocked_OngoingOnly ==
    /\ call.op \in {"destroy", "close"} /\ call.pc = "lock" /\ job_lock = "free"
    /\ ongoing_job_q' = {j \in ongoing_job_q : j[1] # call.s}
    /\ job_lock' = "client"
    /\ call' = [call EXCEPT !.pc = "mark", !.h = Head(Chain(call.s))]
    /\ UNCHANGED <<scene, job_queue, job_sem, mgr, sess, client, omx, omxThread, jobVars>>

\* mm_jpeg_destroy_session and mm_jpeg_destroy_session_unlocked: every job of
\* the session leaves both queues, then its OMX sessions are aborted.
DestroyLocked ==
    /\ call.op \in {"destroy", "close"} /\ call.pc = "lock" /\ job_lock = "free"
    /\ job_queue' = Without(job_queue, Mine(call.s))
    /\ ongoing_job_q' = {j \in ongoing_job_q : j[1] # call.s}
    /\ job_lock' = "client"
    /\ call' = [call EXCEPT !.pc = "mark", !.h = Head(Chain(call.s))]
    /\ UNCHANGED <<scene, job_sem, mgr, sess, client, omx, omxThread, jobVars>>

IsLast(h) == h = Last(Chain(call.s))
Next_session(h) == Chain(call.s)[1 + CHOOSE i \in DOMAIN Chain(call.s) : Chain(call.s)[i] = h]

\* What follows mm_jpeg_session_abort of the chain's last session: the abort
\* returns, the destruction goes on, the close clears the client
\* (without destroying the OMX sessions) and is over unless the client was the last.
LeaveAbort ==
    \/ /\ call.op = "abort" /\ Return({call.job}) /\ job_lock' = "free"
       /\ UNCHANGED client
    \/ /\ call.op = "destroy"
       /\ call' = [call EXCEPT !.pc = "idle", !.h = Head(Chain(call.s))]
       /\ UNCHANGED <<client, job_lock, gone>>
    \/ /\ call.op = "close"
       /\ client' = [client EXCEPT ![call.s] = NoClient(@.made, FALSE)] /\ job_lock' = "free"
       /\ IF \E s \in Session \ {call.s} : client[s].active
          THEN Return(Mine(call.s))
          ELSE call' = [call EXCEPT !.pc = "exit"] /\ UNCHANGED gone

\* the abort goes on to next_session, or is over
AfterAbort(h) ==
    \/ ~IsLast(h) /\ call' = [call EXCEPT !.pc = "mark", !.h = Next_session(h)]
       /\ UNCHANGED <<client, job_lock, gone>>
    \/ IsLast(h) /\ LeaveAbort

\* mm_jpeg_session_abort: an encoding session is told to go idle and the caller
\* waits; one that was aborted before ends the abort of the whole chain.
SessionAbort ==
    LET h == call.h IN
    /\ call.pc = "mark" /\ sess[h].lock = "free"
    /\ \/ /\ sess[h].abort # "NONE"
          /\ LeaveAbort
          /\ UNCHANGED <<sess, omx>>
       \/ /\ sess[h].abort = "NONE" /\ sess[h].encoding
          /\ sess' = [sess EXCEPT ![h].abort = "INIT", ![h].state_change_pending = TRUE]
          /\ omx' = [omx EXCEPT ![h].cmds = Append(@, "idle")]
          /\ call' = [call EXCEPT !.pc = "await"]
          /\ UNCHANGED <<client, job_lock, gone>>
       \/ /\ sess[h].abort = "NONE" /\ ~sess[h].encoding
          /\ sess' = [sess EXCEPT ![h].abort = "DONE"]
          /\ AfterAbort(h)
          /\ UNCHANGED omx
    /\ UNCHANGED <<scene, queues, job_sem, mgr, omxThread, started, answers>>

\* Mutant: the handle goes back to the free ones when a session is aborted
AbortWaited_Requeues ==
    LET h == call.h IN
    /\ call.pc = "await" /\ sess[h].lock = "free" /\ sess[h].abort # "INIT"
    /\ sess' = [sess EXCEPT ![h].abort = "DONE"]
    /\ client' = [client EXCEPT ![call.s].session_handle_q = Append(@, h)]
    /\ \/ call.op = "abort" /\ Return({call.job}) /\ job_lock' = "free"
       \/ /\ call.op # "abort" /\ call' = [call EXCEPT !.pc = "idle"]
          /\ UNCHANGED <<job_lock, gone>>
    /\ UNCHANGED <<scene, queues, job_sem, mgr, omx, omxThread, started, answers>>

AbortWaited ==
    LET h == call.h IN
    /\ call.pc = "await" /\ sess[h].lock = "free" /\ sess[h].abort # "INIT"
    /\ sess' = [sess EXCEPT ![h].abort = "DONE"]
    /\ AfterAbort(h)
    /\ UNCHANGED <<scene, queues, job_sem, mgr, omx, omxThread, started, answers>>

\* mm_jpeg_session_change_state: ask for the state and wait for the completion.
ChangeState(h, new, then) ==
    /\ sess[h].lock = "free"
    /\ sess' = [sess EXCEPT ![h].state_change_pending = TRUE]
    /\ omx' = [omx EXCEPT ![h].cmds = Append(@, new)]
    /\ call' = [call EXCEPT !.pc = then]

\* mm_jpeg_session_destroy: an executing component goes idle, an idle one
\* loaded, with a wait each.
DestroyIdle ==
    LET h == call.h IN
    /\ call.pc = "idle"
    /\ \/ omx[h].state = "executing" /\ ChangeState(h, "idle", "loaded")
       \/ /\ omx[h].state # "executing"
          /\ call' = [call EXCEPT !.pc = "load"] /\ UNCHANGED <<sess, omx>>
    /\ UNCHANGED <<scene, queues, mgrVars, client, omxThread, jobVars>>
DestroyLoaded ==
    LET h == call.h IN
    /\ \/ call.pc = "load"
       \/ call.pc = "loaded" /\ sess[h].lock = "free" /\ ~sess[h].state_change_pending
    /\ \/ omx[h].state = "idle" /\ ChangeState(h, "loaded", "free")
       \/ /\ omx[h].state # "idle"
          /\ call' = [call EXCEPT !.pc = "free"] /\ UNCHANGED <<sess, omx>>
    /\ UNCHANGED <<scene, queues, mgrVars, client, omxThread, jobVars>>

\* The rest of mm_jpeg_session_destroy and, after the last OMX session of the
\* chain, of mm_jpeg_destroy_session: the slots and the two queues are given up
\* and the manager is woken.
DestroyFree ==
    LET h == call.h
        s == call.s IN
    /\ call.pc = "free" /\ sess[h].lock = "free" /\ ~sess[h].state_change_pending
    /\ omx' = [omx EXCEPT ![h].state = "freed"]
    /\ \/ /\ ~IsLast(h)
          /\ call' = [call EXCEPT !.pc = "idle", !.h = Next_session(h)]
          /\ UNCHANGED <<client, job_sem, job_lock, gone>>
       \/ /\ IsLast(h)
          /\ client' = [client EXCEPT ![s] = NoClient(@.made, FALSE)]
          /\ job_sem' = job_sem + 1
          /\ job_lock' = "free"
          /\ Return(Mine(s))
    /\ UNCHANGED <<scene, queues, mgr, sess, omxThread, started, answers>>

\* mm_jpeg_deinit after the last client closed: mm_jpeg_jobmgr_thread_release
\* queues EXIT and joins the manager.
CloseExit ==
    /\ call.pc = "exit"
    /\ job_queue' = Append(job_queue, EXIT)
    /\ job_sem' = job_sem + 1
    /\ call' = [call EXCEPT !.pc = "join"]
    /\ UNCHANGED <<scene, ongoing_job_q, job_lock, mgr, sess, client, omx, omxThread, jobVars>>
CloseJoin ==
    /\ call.pc = "join" /\ mgr.pc = "dead"
    /\ Return(Mine(call.s))
    /\ UNCHANGED <<scene, queues, mgrVars, sess, client, omx, omxThread, started, answers>>

-------------------------------------------------------------------------------
(* The job manager thread. *)

\* mm_jpeg_jobmgr_thread: a wake-up while OMX is busy with as many jobs as it
\* may have is dropped; the end of a job posts another.
Wake ==
    /\ mgr.pc = "wait" /\ job_sem > 0
    /\ job_sem' = job_sem - 1
    /\ IF Cardinality(ongoing_job_q) >= scene.limit
       THEN UNCHANGED mgr
       ELSE mgr' = [mgr EXCEPT !.pc = "lock"]
    /\ UNCHANGED <<scene, queues, job_lock, sess, client, omx, omxThread, call, jobVars>>

\* mm_jpeg_queue_deq under job_lock, then by type: mm_jpeg_process_encoding_job
\* takes a free handle of the job's session, or puts the job back.
TakeJob ==
    LET j == Head(job_queue)
        free == client[j[1]].session_handle_q IN
    /\ mgr.pc = "lock" /\ job_lock = "free"
    /\ \/ /\ job_queue = <<>>
          /\ mgr' = IdleMgr
          /\ UNCHANGED <<job_queue, job_lock, sess, client>>
       \/ /\ job_queue # <<>> /\ j = EXIT
          /\ mgr' = [IdleMgr EXCEPT !.pc = "dead"]
          /\ job_queue' = Tail(job_queue)
          /\ UNCHANGED <<job_lock, sess, client>>
       \/ /\ job_queue # <<>> /\ j # EXIT
          /\ job_queue' = Tail(job_queue)
          /\ job_lock' = "mgr"
          /\ IF free = <<>>
             THEN /\ mgr' = [mgr EXCEPT !.pc = "again", !.job = j, !.tail = job_queue' = <<>>]
                  /\ UNCHANGED <<sess, client>>
             ELSE /\ mgr' = [mgr EXCEPT !.pc = IF scene.auto THEN "buffer" ELSE "assign",
                                        !.job = j, !.h = Head(free)]
                  /\ client' = [client EXCEPT ![j[1]].session_handle_q = Tail(free)]
                  /\ sess' = [sess EXCEPT ![Head(free)].auto = FALSE]
    /\ UNCHANGED <<scene, ongoing_job_q, job_sem, omx, omxThread, call, jobVars>>

\* mm_jpeg_queue_enq_head: the place to insert at was read before the lock was
\* taken: if the queue was empty then, the job goes behind what came since.
EnqHead ==
    /\ mgr.pc = "again"
    /\ job_queue' = IF mgr.tail THEN Append(job_queue, mgr.job) ELSE <<mgr.job>> \o job_queue
    /\ mgr' = IdleMgr
    /\ job_lock' = "free"
    /\ UNCHANGED <<scene, ongoing_job_q, job_sem, sess, client, omx, omxThread, call, jobVars>>

\* An output buffer for a job that brought none. Without one the job is dropped
\* together with the handle.
TakeBuffer ==
    LET s == mgr.job[1] IN
    /\ mgr.pc = "buffer"
    /\ IF client[s].out_buf_q = <<>>
       THEN /\ mgr' = IdleMgr /\ job_lock' = "free"
            /\ UNCHANGED <<sess, client>>
       ELSE /\ mgr' = [mgr EXCEPT !.pc = "assign", !.dst = Head(client[s].out_buf_q)]
            /\ client' = [client EXCEPT ![s].out_buf_q = Tail(@)]
            /\ sess' = [sess EXCEPT ![mgr.h].auto = TRUE]
            /\ UNCHANGED job_lock
    /\ UNCHANGED <<scene, queues, job_sem, omx, omxThread, call, jobVars>>

\* The job goes on the ongoing queue and its parameters to the OMX session,
\* whose lock is not taken.
AssignJob ==
    /\ mgr.pc = "assign"
    /\ ongoing_job_q' = ongoing_job_q \cup {mgr.job}
    /\ sess' = [sess EXCEPT ![mgr.h].dst = mgr.dst, ![mgr.h].job = mgr.job]
    /\ mgr' = [mgr EXCEPT !.pc = "encode"]
    /\ UNCHANGED <<scene, job_queue, job_sem, job_lock, client, omx, omxThread, call, jobVars>>

Answer(j, status) == answers' = [answers EXCEPT ![j] = Append(@, status)]

\* mm_jpeg_session_encode: reset, configure, hand the buffers to OMX. If that
\* fails: error callback and mm_jpegenc_job_done, without the session's lock.
Encode ==
    LET h == mgr.h
        s == mgr.job[1] IN
    /\ mgr.pc = "encode" /\ sess[h].lock = "free"
    /\ \/ /\ sess' = [sess EXCEPT ![h].abort = "NONE", ![h].encoding = TRUE]
          /\ omx' = [omx EXCEPT ![h].busy = TRUE]
          /\ UNCHANGED <<ongoing_job_q, job_sem, client, answers>>
       \/ /\ "config" \in scene.may
          /\ Answer(mgr.job, "ERROR")
          /\ ongoing_job_q' = ongoing_job_q \ {sess[h].job}
          /\ sess' = [sess EXCEPT ![h].abort = "NONE", ![h].encoding = FALSE]
          /\ client' = [client EXCEPT ![s].session_handle_q = Append(@, h),
                ![s].out_buf_q = IF sess[h].auto THEN Append(@, sess[h].dst) ELSE @]
          /\ job_sem' = job_sem + 1
          /\ UNCHANGED omx
    /\ mgr' = IdleMgr
    /\ job_lock' = "free"
    /\ UNCHANGED <<scene, job_queue, omxThread, call, started, gone>>

-------------------------------------------------------------------------------
(* The threads of the OMX components. *)

\* The callback and the first half of mm_jpegenc_job_done, with the session's
\* lock held until the end of ReturnBuffer.
Finish(h, status) ==
    /\ omx' = [omx EXCEPT ![h].busy = FALSE]
    /\ Answer(sess[h].job, status)
    /\ ongoing_job_q' = ongoing_job_q \ {sess[h].job}
    /\ sess' = [sess EXCEPT ![h].encoding = FALSE, ![h].lock = "omx"]
    /\ omxThread' = [omxThread EXCEPT ![h] = "requeue"]

\* mm_jpeg_fbd: the picture is there; of an aborted job it is ignored.
FillBufferDone(h) ==
    /\ omx[h].busy /\ sess[h].lock = "free" /\ omxThread[h] = "none"
    /\ \/ sess[h].abort = "NONE" /\ Finish(h, "DONE")
       \/ /\ sess[h].abort # "NONE"
          /\ omx' = [omx EXCEPT ![h].busy = FALSE]
          /\ UNCHANGED <<sess, answers, ongoing_job_q, omxThread>>
    /\ UNCHANGED <<scene, job_queue, mgrVars, client, call, started, gone>>

\* mm_jpeg_event_handler with OMX_EventError while encoding.
EventError(h) ==
    /\ "error" \in scene.may
    /\ omx[h].busy /\ sess[h].lock = "free" /\ omxThread[h] = "none"
    /\ sess[h].abort = "NONE" /\ sess[h].encoding
    /\ Finish(h, "ERROR")
    /\ UNCHANGED <<scene, job_queue, mgrVars, client, call, started, gone>>

\* The rest of mm_jpegenc_job_done: the handle is free again, ...
Requeue(h) ==
    LET s == sess[h].job[1] IN
    /\ omxThread[h] = "requeue"
    /\ client' = [client EXCEPT ![s].session_handle_q = Append(@, h)]
    /\ omxThread' = [omxThread EXCEPT ![h] = "return"]
    /\ UNCHANGED <<scene, queues, mgrVars, sess, omx, call, jobVars>>

\* Mutant: the end of a job does not wake the manager
ReturnBuffer_NoPost(h) ==
    LET s == sess[h].job[1] IN
    /\ omxThread[h] = "return"
    /\ client' = [client EXCEPT ![s].out_buf_q =
                      IF sess[h].auto THEN Append(@, sess[h].dst) ELSE @]
    /\ sess' = [sess EXCEPT ![h].lock = "free"]
    /\ omxThread' = [omxThread EXCEPT ![h] = "none"]
    /\ UNCHANGED <<scene, queues, job_sem, job_lock, mgr, omx, call, jobVars>>

\* ... then its output buffer, if the OMX session says that it took one, and
\* the manager is woken.
ReturnBuffer(h) ==
    LET s == sess[h].job[1] IN
    /\ omxThread[h] = "return"
    /\ client' = [client EXCEPT ![s].out_buf_q =
                      IF sess[h].auto THEN Append(@, sess[h].dst) ELSE @]
    /\ job_sem' = job_sem + 1
    /\ sess' = [sess EXCEPT ![h].lock = "free"]
    /\ omxThread' = [omxThread EXCEPT ![h] = "none"]
    /\ UNCHANGED <<scene, queues, job_lock, mgr, omx, call, jobVars>>

\* mm_jpeg_event_handler with OMX_EventCmdComplete: the first event of an
\* aborting session ends the abort; a pending state change is complete.
\* The component gives its buffers back before it leaves the executing state.
CmdComplete(h) ==
    /\ omx[h].cmds # <<>> /\ ~omx[h].busy /\ sess[h].lock = "free" /\ omxThread[h] = "none"
    /\ omx' = [omx EXCEPT ![h].state = Head(omx[h].cmds), ![h].cmds = Tail(@)]
    /\ sess' = IF sess[h].abort = "INIT"
               THEN [sess EXCEPT ![h].abort = "DONE"]
               ELSE [sess EXCEPT ![h].state_change_pending = FALSE]
    /\ UNCHANGED <<scene, queues, mgrVars, client, omxThread, call, jobVars>>

-------------------------------------------------------------------------------
CallStep == \/ AbortLocked \/ DestroyLocked \/ SessionAbort \/ AbortWaited
            \/ DestroyIdle \/ DestroyLoaded \/ DestroyFree \/ CloseExit \/ CloseJoin
MgrStep == Wake \/ TakeJob \/ EnqHead \/ TakeBuffer \/ AssignJob \/ Encode
OmxStep(h) == \/ FillBufferDone(h) \/ EventError(h) \/ Requeue(h) \/ ReturnBuffer(h)
              \/ CmdComplete(h)
ClientStep(s) == \/ StartJob(s) \/ StartInactive(s) \/ CreateSession(s)
                 \/ CallAbort(s) \/ CallDestroy(s) \/ CallClose(s)

Next == CallStep \/ MgrStep \/ (\E h \in Handle : OmxStep(h)) \/ (\E s \in Session : ClientStep(s))

\* A client that began to stop a session destroys it.
StopStep(s) == client[s].stopping /\ CallDestroy(s)

Fairness == /\ WF_vars(CallStep) /\ WF_vars(MgrStep)
            /\ WF_vars(\E h \in Handle : OmxStep(h))
            /\ WF_vars(\E s \in Session : StopStep(s))
Spec == Init /\ [][Next]_vars /\ Fairness

-------------------------------------------------------------------------------
\* Shapes of the state, and the two semantics of the locks: a manager that
\* works on a job holds job_lock, a call past its first step does too.
TypeOK ==
    /\ scene \in Scenes
    /\ job_queue \in Seq(Job \cup {EXIT}) /\ ongoing_job_q \subseteq Job
    /\ job_sem \in Nat /\ job_lock \in {"free", "mgr", "client"}
    /\ mgr \in [pc: {"wait", "lock", "again", "buffer", "assign", "encode", "dead"},
                job: Job \cup {EXIT}, h: Handle \cup {NoHandle}, dst: Nat, tail: BOOLEAN]
    /\ sess \in [Handle -> [abort: {"NONE", "INIT", "DONE"}, encoding: BOOLEAN,
                            state_change_pending: BOOLEAN, auto: BOOLEAN, dst: Nat,
                            job: Job \cup {EXIT}, lock: {"free", "omx"}]]
    /\ client \in [Session -> [made: 0..2, id: BOOLEAN, active: BOOLEAN, stopping: BOOLEAN,
                               session_handle_q: Seq(Handle), out_buf_q: Seq(Nat)]]
    /\ omx \in [Handle -> [state: {"executing", "idle", "loaded", "freed"}, busy: BOOLEAN,
                           cmds: Seq({"idle", "loaded"})]]
    /\ omxThread \in [Handle -> {"none", "requeue", "return"}]
    /\ call.op \in {"none", "abort", "destroy", "close"}
    /\ started \in [Session -> 0..MaxJobs]
    /\ answers \in [Job -> Seq({"DONE", "ERROR"})]
    /\ gone \subseteq Job
    /\ (job_lock = "mgr") <=> (mgr.pc \in {"again", "buffer", "assign", "encode"})
    /\ (job_lock = "client") <=> (call.pc \in {"mark", "await", "idle", "load", "loaded", "free"})

Count(q, x) == Cardinality({i \in DOMAIN q : q[i] = x})
One(b) == IF b THEN 1 ELSE 0

\* Every OMX handle of a session is in exactly one place: free, in the
\* manager's hands, encoding (or aborted while encoding), or on its way back.
HandlesExact ==
    \A s \in Session : client[s].active =>
        \A h \in Range(Chain(s)) :
            Count(client[s].session_handle_q, h) + One(mgr.h = h) + One(sess[h].encoding)
                + One(omxThread[h] = "requeue") = 1

\* Every output buffer that the library hands out is free or used by exactly
\* one encoding: no buffer is lost and no two pictures share one. (With `auto` it holds for a
\* client that starts one job: mm_jpegenc_job_done frees the encoder before it asks it for the
\* buffer, mm_jpeg.c:2720, and a next job that gets the encoder in between overwrites both.)
UsesBuffer(h, i) ==
    /\ sess[h].auto /\ sess[h].dst = i
    /\ sess[h].encoding \/ omxThread[h] # "none" \/ (mgr.pc = "encode" /\ mgr.h = h)
BuffersExact ==
    \A s \in Session : client[s].active =>
        \A i \in 1..scene.ndst :
            Count(client[s].out_buf_q, i) + One(mgr.pc = "assign" /\ mgr.dst = i /\ mgr.job[1] = s)
                + Cardinality({h \in Range(Chain(s)) : UsesBuffer(h, i)}) = 1
\* OMX is never given more jobs than it may have, whatever was aborted or destroyed
\* in between (MM_JPEG_CONCURRENT_SESSIONS_COUNT, mm_jpeg.c:1869).
WithinLimit == Cardinality({h \in Handle : sess[h].encoding /\ sess[h].abort = "NONE"}) <= scene.limit

\* The pools are right: every encoder and every output buffer is accounted for,
\* and job_lock is held by whom the steps say.
PoolsExact == TypeOK /\ HandlesExact /\ BuffersExact /\ WithinLimit

\* A job gets at most one callback, and none once the client took it back: after
\* abort_job, destroy_session or close the job's buffers are not the library's.
AnswerOnce == [][\A j \in Job : answers'[j] # answers[j] =>
                    /\ answers[j] = <<>> /\ Len(answers'[j]) = 1
                    /\ j \notin gone]_vars

\* Every job that start_job accepted ends, with a callback or taken back; and abort_job,
\* destroy_session and close return with job_lock given back: the wait for the
\* component's event and the join of the manager end.
JobsEnd == /\ []<>(\A j \in Jobs : Called(j) \/ j \in gone)
           /\ []<>(call.op = "none" /\ job_lock # "client")

===============================================================================
