----------------------------- MODULE MmPollThread -----------------------------
(***************************************************************************)
(* The data poll thread of a channel (mm_camera_thread.c): a pipe carries  *)
(* commands to it, poll_entries says which stream fds to poll and what to  *)
(* call, and poll_fds is the copy of it that poll() is given.              *)
(*                                                                         *)
(* Three kinds of actor change poll_entries, and no lock covers it: the    *)
(* API thread (STOP, with ch_lock held, waits for an answer), whoever      *)
(* queues a buffer (QBUF, with the stream's buf_lock held, does not wait), *)
(* and the poll thread itself, inside the callback of a stream that has no *)
(* buffer left in the driver (buf_lock held).  Each store is a step.       *)
(*                                                                         *)
(* The mutex is held from the write to the pipe to pthread_cond_wait, so   *)
(* an answer always finds its caller waiting and the status flag adds      *)
(* nothing.  notify_cb is loaded once for the test and the call, as a      *)
(* compiler does without an intervening store.                             *)
(***************************************************************************)
EXTENDS Naturals, Sequences, FiniteSets

CONSTANTS
    Streams,       \* streams of the channel
    Api, Poll,     \* the API thread and the poll thread, as callers
    NoStream,
    MaxQbufs,      \* bound on the calls of mm_stream_qbuf under way at once
    MaxPipe        \* bound on the commands in the pipe when a QBUF adds the fd

Callers == Streams \cup {Api, Poll}    \* a stream stands for whoever holds its buf_lock

ASSUME PollConstants ==
    /\ IsFiniteSet(Streams)
    /\ Api \notin Streams /\ Poll \notin Streams /\ Api # Poll /\ NoStream \notin Streams
    /\ {MaxQbufs, MaxPipe} \subseteq Nat \ {0}

VARIABLES
    fd, handler, notify_cb,  \* poll_entries: the streams whose field is set
    watched,    \* poll_fds: the streams whose fd poll() is given
    pipe,       \* commands written and not read
    state,      \* state: "STOPPED" or "POLL"
    loop,       \* where the poll thread is
    ready,      \* streams with revents still to be looked at
    current,    \* stream whose notify_cb runs
    pc,         \* per caller: the last thing done in add_poll_fd or del_poll_fd
    victim,     \* stream the API thread is stopping
    active,     \* streams between REG_BUF and the end of STOP
    streaming,  \* the streams of them that STREAMON has been called for
    queued,     \* streams with queued_buffer_count > 0
    left,       \* history: streams whose REG_BUF failed before the thread polled
    gone        \* history, per stream: "asked" once STOP removes the fd with no QBUF under
                \*   way, "yes" once that has returned, "no" from the next QBUF or START on

entries == <<fd, handler, notify_cb>>
thread == <<watched, state, loop, ready, current>>
client == <<active, streaming, queued, left, gone>>
vars == <<fd, handler, notify_cb, watched, pipe, state, loop, ready, current, pc, victim,
          active, streaming, queued, left, gone>>

Target(a) == IF a = Api THEN victim ELSE IF a = Poll THEN current ELSE a

\* buf_lock of s is free.
Unlocked(s) == pc[s] = "idle" /\ ~(current = s /\ pc[Poll] # "idle")

-----------------------------------------------------------------------------
(* mm_camera_poll_thread_add_poll_fd and mm_camera_poll_thread_del_poll_fd *)

\* The first store of an add, and of a delete whose handler matches.
AddFd(a, s) == fd' = fd \cup {s} /\ pc' = [pc EXCEPT ![a] = "add_fd"]
DelFd(a, s) == fd' = fd \ {s} /\ pc' = [pc EXCEPT ![a] = "del_fd"]

StoreHandler(a) ==
    /\ \/ /\ pc[a] = "add_fd" /\ pc' = [pc EXCEPT ![a] = "add_handler"]
          /\ handler' = handler \cup {Target(a)}
       \/ /\ pc[a] = "del_fd" /\ pc' = [pc EXCEPT ![a] = "del_handler"]
          /\ handler' = handler \ {Target(a)}
    /\ UNCHANGED <<fd, notify_cb, thread, pipe, victim, client>>

StoreCb(a) ==
    /\ \/ /\ pc[a] = "add_handler" /\ pc' = [pc EXCEPT ![a] = "add_cb"]
          /\ notify_cb' = notify_cb \cup {Target(a)}
       \/ /\ pc[a] = "del_handler" /\ pc' = [pc EXCEPT ![a] = "del_cb"]
          /\ notify_cb' = notify_cb \ {Target(a)}
    /\ UNCHANGED <<fd, handler, thread, pipe, victim, client>>

\* Mutant: a command that is still in the pipe is taken to announce this update, too.
SigAsync_Coalesced(a) ==
    /\ a # Api /\ pc[a] \in {"add_cb", "del_cb"}
    /\ pipe' = IF pipe = <<>> THEN <<"UPDATED_ASYNC">> ELSE pipe
    /\ pc' = [pc EXCEPT ![a] = "idle"]
    /\ UNCHANGED <<entries, thread, victim, client>>

\* mm_camera_poll_sig_async: QBUF goes on to the ioctl, which may fail after an add.
SigAsync(a) ==
    /\ a # Api /\ pc[a] \in {"add_cb", "del_cb"}
    /\ pipe' = Append(pipe, "UPDATED_ASYNC")
    /\ \/ pc' = [pc EXCEPT ![a] = "idle"]
       \/ pc[a] = "add_cb" /\ pc' = [pc EXCEPT ![a] = "ioctl_failed"]
    /\ UNCHANGED <<entries, thread, victim, client>>

\* Mutant: the caller does not wait for the answer.
SigSync_NoWait ==
    /\ \/ pc[Api] = "del_cb" /\ pipe' = Append(pipe, "UPDATED")
       \/ pc[Api] = "commit" /\ pipe' = Append(pipe, "COMMIT")
       \/ pc[Api] = "exit" /\ pipe' = Append(pipe, "EXIT")
    /\ pc' = [pc EXCEPT ![Api] = IF @ = "exit" THEN "join" ELSE "answered"]
    /\ UNCHANGED <<entries, thread, victim, client>>

\* mm_camera_poll_sig: the API thread waits until the poll thread answers.
SigSync ==
    /\ \/ pc[Api] = "del_cb" /\ pipe' = Append(pipe, "UPDATED")
       \/ pc[Api] = "commit" /\ pipe' = Append(pipe, "COMMIT")
       \/ pc[Api] = "exit" /\ pipe' = Append(pipe, "EXIT")
    /\ pc' = [pc EXCEPT ![Api] = IF @ = "exit" THEN "wait_exit" ELSE "wait"]
    /\ UNCHANGED <<entries, thread, victim, client>>

\* pthread_cond_signal
Answer == pc' = [pc EXCEPT ![Api] = CASE @ = "wait" -> "answered"
                                      [] @ = "wait_exit" -> "join"
                                      [] OTHER -> @]

-----------------------------------------------------------------------------
(* The callers *)

\* The stream that is being started, if any: they start one after the other.
Fresh == active \ streaming

\* REG_BUF of a stream that starts: no buffer is in the driver yet.
Start(s) ==
    /\ pc[Api] = "idle" /\ loop # "off" /\ s \notin active /\ Fresh = {} /\ Unlocked(s)
    /\ active' = active \cup {s} /\ queued' = queued \ {s}
    /\ gone' = [gone EXCEPT ![s] = "no"]
    /\ UNCHANGED <<entries, thread, pipe, pc, victim, streaming, left>>

\* REG_BUF has queued the first buffers, if there are any.
StreamOn(s) ==
    /\ pc[Api] = "idle" /\ s \in Fresh /\ pc[s] = "idle"
    /\ streaming' = streaming \cup {s}
    /\ UNCHANGED <<entries, thread, pipe, pc, victim, active, queued, left, gone>>

\* REG_BUF has failed: STOP and UNREG_BUF of such a stream do not remove the fd.
Failed(s) ==
    /\ active' = active \ {s}
    /\ left' = IF state = "POLL" THEN left ELSE left \cup {s}

\* REG_BUF fails before the first buffer or after it.
RegFails(s) ==
    /\ pc[Api] = "idle" /\ s \in Fresh /\ pc[s] = "idle"
    /\ Failed(s)
    /\ UNCHANGED <<entries, thread, pipe, pc, victim, streaming, queued, gone>>

\* mm_stream_qbuf: the first buffer in the driver adds the fd.
Qbuf(s) ==
    /\ s \in active \ queued /\ Unlocked(s)
    /\ Len(pipe) < MaxPipe /\ Cardinality({t \in Streams : pc[t] # "idle"}) < MaxQbufs
    /\ queued' = queued \cup {s}
    /\ gone' = [gone EXCEPT ![s] = "no"]
    /\ AddFd(s, s)
    /\ UNCHANGED <<handler, notify_cb, thread, pipe, victim, active, streaming, left>>

\* The ioctl failed: the last buffer takes the fd out again, and REG_BUF fails with it.
QbufFails(s) ==
    /\ pc[s] = "ioctl_failed"
    /\ queued' = queued \ {s}
    /\ IF s \in handler THEN DelFd(s, s)
       ELSE pc' = [pc EXCEPT ![s] = "idle"] /\ UNCHANGED fd
    /\ IF s \in Fresh THEN Failed(s) ELSE UNCHANGED <<active, left>>
    /\ UNCHANGED <<handler, notify_cb, thread, pipe, victim, streaming, gone>>

\* A delete that met an add half way may leave an entry without its handler, which no
\* later delete matches.  The next add mends it.
Torn(s) == s \in notify_cb \ handler /\ \A a \in Callers : Target(a) # s \/ pc[a] = "idle"

\* mm_stream_streamoff, step 1: delete the fd, or wait for the updates under way if
\* it is deleted already.  STREAMON that fails deletes it in the same way.
StreamOff(s) ==
    /\ pc[Api] = "idle"
    /\ \/ s \in streaming /\ Fresh = {}
       \/ s \in Fresh \cap handler /\ pc[s] = "idle"
    /\ victim' = s
    /\ gone' = [gone EXCEPT ![s] = IF pc[s] = "idle" /\ ~Torn(s) THEN "asked" ELSE "no"]
    /\ IF s \in handler THEN DelFd(Api, s)
       ELSE pc' = [pc EXCEPT ![Api] = "commit"] /\ UNCHANGED fd
    /\ UNCHANGED <<handler, notify_cb, thread, pipe, active, streaming, queued, left>>

StreamOffReturns ==
    /\ pc[Api] = "answered" /\ victim # NoStream
    /\ pc' = [pc EXCEPT ![Api] = "idle"] /\ victim' = NoStream
    /\ active' = active \ {victim} /\ streaming' = streaming \ {victim}
    /\ gone' = [gone EXCEPT ![victim] = IF @ = "asked" THEN "yes" ELSE @]
    /\ UNCHANGED <<entries, thread, pipe, queued, left>>

\* mm_camera_poll_thread_launch waits for the new thread's first sign.
Launch ==
    /\ pc[Api] = "idle" /\ loop = "off"
    /\ fd' = {} /\ pipe' = <<>> /\ loop' = "started"
    /\ pc' = [pc EXCEPT ![Api] = "wait"]
    /\ UNCHANGED <<handler, notify_cb, watched, state, ready, current, victim, client>>

LaunchReturns ==
    /\ pc[Api] = "answered" /\ victim = NoStream
    /\ pc' = [pc EXCEPT ![Api] = "idle"]
    /\ UNCHANGED <<entries, thread, pipe, victim, client>>

\* mm_camera_poll_thread_release: the channel's streams have been stopped.  Without
\* state POLL it returns at once, whether or not there is a thread.
Release ==
    /\ pc[Api] = "idle" /\ active = {} /\ \A s \in Streams : pc[s] = "idle"
    /\ loop # "off"
    /\ pc' = [pc EXCEPT ![Api] = IF state = "POLL" THEN "exit" ELSE "released"]
    /\ UNCHANGED <<entries, thread, pipe, victim, client>>

Zeroed ==
    /\ fd' = {} /\ handler' = {} /\ notify_cb' = {} /\ watched' = {} /\ pipe' = <<>>
    /\ state' = "STOPPED" /\ loop' = "off" /\ ready' = {} /\ left' = {}

\* The thread is joined, the pipe is closed and the object zeroed.
Join ==
    /\ pc[Api] = "join" /\ loop = "exited"
    /\ pc' = [pc EXCEPT ![Api] = "released"]
    /\ Zeroed
    /\ UNCHANGED <<current, victim, active, streaming, queued, gone>>

Released ==
    /\ pc[Api] = "released" /\ loop = "off"
    /\ pc' = [pc EXCEPT ![Api] = "idle"]
    /\ UNCHANGED <<entries, thread, pipe, victim, client>>

\* The thread was not joined: mm_camera_del_channel zeroes its object all the same.  Once
\* the thread has set its state, that ends its loop, or it sleeps for ever on a pipe that
\* nobody writes to any more.
Abandoned ==
    /\ pc[Api] = "released" /\ loop = "poll"
    /\ pc' = [pc EXCEPT ![Api] = "idle"]
    /\ Zeroed
    /\ UNCHANGED <<current, victim, active, streaming, queued, gone>>

-----------------------------------------------------------------------------
(* The poll thread *)

\* mm_camera_poll_thread says it is up before it says it polls.
ThreadUp ==
    /\ loop = "started" /\ loop' = "up"
    /\ Answer
    /\ UNCHANGED <<entries, watched, pipe, state, ready, current, victim, client>>

SetPoll ==
    /\ loop = "up" /\ loop' = "poll" /\ state' = "POLL" /\ left' = {}
    /\ UNCHANGED <<entries, watched, pipe, ready, current, pc, victim, active, streaming,
                   queued, gone>>

\* Mutant: poll_fds is built anew for synchronous updates only.
ProcPipe_AsyncIgnored ==
    /\ loop = "poll" /\ pipe # <<>>
    /\ pipe' = Tail(pipe)
    /\ watched' = IF Head(pipe) = "UPDATED" THEN fd ELSE watched
    /\ state' = IF Head(pipe) = "EXIT" THEN "STOPPED" ELSE state
    /\ loop' = IF Head(pipe) = "UPDATED_ASYNC" THEN "poll" ELSE "answer"
    /\ UNCHANGED <<entries, ready, current, pc, victim, client>>

\* Mutant: a COMMIT is not answered.
ProcPipe_CommitUnanswered ==
    /\ loop = "poll" /\ pipe # <<>>
    /\ pipe' = Tail(pipe)
    /\ watched' = IF Head(pipe) \in {"UPDATED", "UPDATED_ASYNC"} THEN fd ELSE watched
    /\ state' = IF Head(pipe) = "EXIT" THEN "STOPPED" ELSE state
    /\ loop' = IF Head(pipe) \in {"UPDATED_ASYNC", "COMMIT"} THEN "poll" ELSE "answer"
    /\ UNCHANGED <<entries, ready, current, pc, victim, client>>

\* mm_camera_poll_proc_pipe: a command comes before any data.
ProcPipe ==
    /\ loop = "poll" /\ pipe # <<>>
    /\ pipe' = Tail(pipe)
    /\ watched' = IF Head(pipe) \in {"UPDATED", "UPDATED_ASYNC"} THEN fd ELSE watched
    /\ state' = IF Head(pipe) = "EXIT" THEN "STOPPED" ELSE state
    /\ loop' = IF Head(pipe) = "UPDATED_ASYNC" THEN "poll" ELSE "answer"
    /\ UNCHANGED <<entries, ready, current, pc, victim, client>>

\* mm_camera_poll_sig_done
SigDone ==
    /\ loop = "answer" /\ loop' = IF state = "POLL" THEN "poll" ELSE "exited"
    /\ Answer
    /\ UNCHANGED <<entries, watched, pipe, state, ready, current, victim, client>>

\* poll() returns with data on some of the fds and no command.  There is no data before
\* STREAMON.
PollData ==
    /\ loop = "poll" /\ pipe = <<>>
    /\ \E R \in (SUBSET (watched \cap streaming)) \ {{}} : ready' = R
    /\ loop' = "scan"
    /\ UNCHANGED <<entries, watched, pipe, state, current, pc, victim, client>>

\* The callback is looked up again: the entry may have changed since poll().
Dispatch(s) ==
    /\ loop = "scan" /\ s \in ready
    /\ IF s \in notify_cb THEN loop' = "called" /\ current' = s /\ UNCHANGED ready
                          ELSE ready' = ready \ {s} /\ UNCHANGED <<loop, current>>
    /\ UNCHANGED <<entries, watched, pipe, state, pc, victim, client>>

\* mm_stream_read_msm_frame: DQBUF, of the last buffer or of another one.
ReadFrame ==
    /\ loop = "called" /\ loop' = "read" /\ Unlocked(current)
    /\ \/ UNCHANGED <<fd, pc, queued>>
       \/ /\ current \in queued /\ queued' = queued \ {current}
          /\ IF current \in handler THEN DelFd(Poll, current) ELSE UNCHANGED <<fd, pc>>
    /\ UNCHANGED <<handler, notify_cb, watched, pipe, state, ready, current, victim, active,
                   streaming, left, gone>>

\* The callback returns, early if the stream is not active any more.
NotifyReturns ==
    /\ \/ loop = "read" /\ pc[Poll] = "idle"
       \/ loop = "called" /\ current \notin streaming
    /\ loop' = "scan" /\ current' = NoStream /\ ready' = ready \ {current}
    /\ UNCHANGED <<entries, watched, pipe, state, pc, victim, client>>

ScanDone ==
    /\ loop = "scan" /\ ready = {} /\ loop' = "poll"
    /\ UNCHANGED <<entries, watched, pipe, state, ready, current, pc, victim, client>>

-----------------------------------------------------------------------------

Init ==
    /\ fd = {} /\ handler = {} /\ notify_cb = {} /\ watched = {} /\ pipe = <<>>
    /\ state = "STOPPED" /\ loop = "off" /\ ready = {} /\ current = NoStream
    /\ pc = [a \in Callers |-> "idle"] /\ victim = NoStream
    /\ active = {} /\ streaming = {} /\ queued = {} /\ left = {}
    /\ gone = [s \in Streams |-> "no"]

CallSteps(a) == StoreHandler(a) \/ StoreCb(a) \/ SigAsync(a)
ApiSteps == SigSync \/ StreamOffReturns \/ LaunchReturns \/ Join \/ Released \/ Abandoned
ThreadSteps == \/ ThreadUp \/ SetPoll \/ ProcPipe \/ SigDone
               \/ ReadFrame \/ NotifyReturns \/ ScanDone
               \/ \E s \in Streams : Dispatch(s)

Next ==
    \/ \E a \in Callers : CallSteps(a)
    \/ ApiSteps
    \/ ThreadSteps
    \/ PollData
    \/ \E s \in Streams : \/ Start(s) \/ RegFails(s) \/ StreamOn(s) \/ StreamOff(s)
                         \/ Qbuf(s) \/ QbufFails(s)
    \/ Launch
    \/ Release

Spec == Init /\ [][Next]_vars

\* Every thread runs on; nothing is assumed of the frames (PollData) or of the client.
Fairness ==
    /\ WF_vars(ThreadSteps) /\ WF_vars(ApiSteps)
    /\ \A a \in Callers : WF_vars(CallSteps(a))
    /\ \A s \in Streams : WF_vars(QbufFails(s))

FairSpec == Spec /\ Fairness

-----------------------------------------------------------------------------
(* Properties *)

Commands == {"UPDATED", "UPDATED_ASYNC", "COMMIT", "EXIT"}
Places == {"off", "started", "up", "poll", "answer", "scan", "called", "read", "exited"}
CallPlaces == {"idle", "add_fd", "add_handler", "add_cb", "ioctl_failed",
               "del_fd", "del_handler", "del_cb"}
ApiPlaces == {"idle", "del_fd", "del_handler", "del_cb", "commit", "wait", "answered",
              "exit", "wait_exit", "join", "released"}

\* The types of the poll thread's fields.
TypeOK ==
    /\ fd \subseteq Streams /\ handler \subseteq Streams /\ notify_cb \subseteq Streams
    /\ watched \subseteq Streams /\ ready \subseteq Streams
    /\ pipe \in Seq(Commands)
    /\ state \in {"STOPPED", "POLL"} /\ loop \in Places
    /\ current \in IF loop \in {"called", "read"} THEN Streams ELSE {NoStream}
    /\ pc \in [Callers -> CallPlaces \cup ApiPlaces]
    /\ pc[Api] \in ApiPlaces
    /\ \A a \in Callers \ {Api} : pc[a] \in CallPlaces
    /\ victim \in Streams \cup {NoStream}
    /\ active \subseteq Streams /\ streaming \subseteq active
    /\ queued \subseteq Streams /\ left \subseteq Streams
    /\ gone \in [Streams -> {"no", "asked", "yes"}]

Updates == {"UPDATED", "UPDATED_ASYNC"}

\* A store to poll_entries that is not in poll_fds yet is announced: by a command in the
\* pipe, or by a caller that has still to write one (mm_camera_thread.c:427, 476).
NoLostUpdate ==
    loop # "off" =>
      \A s \in Streams : (s \in fd) # (s \in watched) =>
         \/ \E i \in DOMAIN pipe : pipe[i] \in Updates
         \/ \E a \in Callers :
               /\ Target(a) = s
               /\ pc[a] \notin {"idle", "commit", "wait", "answered", "ioctl_failed"}

\* Once the removal of a fd by STOP has returned, the stream's callback does not run until
\* the fd is added again, if no QBUF of the stream overlapped (one that does may tear the
\* entry): what mm_stream_streamoff relies on ("step1: remove fd from data poll thread",
\* mm_camera_stream.c:1210).
SyncRemoved == \A s \in Streams : gone[s] = "yes" => current # s

\* A release that returns without a join, as the thread has not said yet that it polls
\* (mm_camera_thread.c:353, 546), leaves a thread behind that nobody waits for, and that has
\* nothing to do unless a REG_BUF failed, which leaves its fd (mm_camera_stream.c:2150): a
\* STREAMOFF has waited for the thread to poll.
UnjoinedIdle ==
    pc[Api] = "released" /\ loop = "up" =>
       /\ \A i \in DOMAIN pipe : pipe[i] = "UPDATED_ASYNC"
       /\ left = {} => pipe = <<>> /\ fd = {}

\* The API thread gets its answer, although the poll thread sends itself commands from
\* within callbacks (mm_camera_thread.c:144), and a fd that stays in poll_entries gets
\* polled: no frame waits in the driver unseen (mm_camera_stream.c:1691).
SyncReturns == pc[Api] \in {"wait", "wait_exit"} ~> pc[Api] \notin {"wait", "wait_exit"}
AddedIsPolled == \A s \in Streams : s \in fd ~> (s \in watched \/ s \notin fd)
CallersServed == SyncReturns /\ AddedIsPolled
==============================================================================
