------------------------------- MODULE MmChannel -------------------------------
(***************************************************************************)
(* The channels of one camera (mm_camera.c, mm_camera_channel.c): their    *)
(* state machine, start and stop of all their streams, the two threads of  *)
(* a bundle, streams linked into another channel, and the locks.           *)
(*                                                                         *)
(* A call looks its channel up under cam_lock, takes ch_lock before it     *)
(* gives cam_lock back, and keeps ch_lock to its end.  START, STOP and     *)
(* FLUSH wait for the bundle's threads inside.  The command thread keeps   *)
(* what the streams deliver until a superbuf is complete and asked for;    *)
(* the callback thread hands it to the client, which gives the frames      *)
(* back with qbuf, under cam_lock only.                                    *)
(*                                                                         *)
(* MmSuperbufQueue has the matching that Settle only sums up, MmStream the *)
(* life of one stream, of which the states and the references matter here. *)
(***************************************************************************)
EXTENDS Integers, Sequences, FiniteSets, Functions

CONSTANTS
    Channels, Streams, Threads,
    Owner,       \* the channel a stream is added to
    MetaStream,  \* the one of type CAM_STREAM_TYPE_METADATA
    None,        \* no stream, no channel
    MaxStreams,  \* MAX_STREAM_NUM_IN_BUNDLE
    MaxFrames,   \* references of each stream that may be out at a time
    Keep,        \* frames of a stream that a superbuf queue keeps
    MaxRequests, \* requests that wait in a command queue when the client makes another
    Scenes       \* the clients: see SceneType

\* A client has bundles, channels with a callback for superbufs, its streams, and links: each channel
\* may link at most one stream, of a channel that is no bundle.  Its threads may call a
\* channel that another one stops, starting a stream may fail, and a channel may be added
\* while the deletion of another one goes on.
SceneType == [bundles : SUBSET Channels, streams : SUBSET Streams,
              links : [Channels -> Streams \cup {None}],
              shared : BOOLEAN, fails : SUBSET Streams, reuses : BOOLEAN]

ASSUME ChannelConstantsOK ==
    /\ Owner \in [Streams -> Channels] /\ MetaStream \in Streams
    /\ None \notin Streams \cup Channels
    /\ {MaxStreams, Keep, MaxRequests} \subseteq Nat \ {0}
    /\ MaxFrames \in [Streams -> Nat \ {0}]
    /\ Scenes \subseteq SceneType
    /\ \A sc \in Scenes, c \in Channels :
          sc.links[c] # None => Owner[sc.links[c]] \notin sc.bundles \cup {c}

VARIABLES
    scene,  \* the client
    ch,     \* mm_channel_t
    st,     \* mm_stream_t: state, linked_obj, the references counted in buf_refcnt, and
            \* (history) those of them that a flush forgot
    call,   \* where each API thread is
    hold    \* frames the client has kept from superbufs of a channel, per stream

vars == <<scene, ch, st, call, hold>>

Thread == [up |-> FALSE, bye |-> FALSE, q |-> <<>>]
NoFrames == [s \in Streams |-> 0]
NewChannel ==
    [state |-> "NOTUSED", table |-> [i \in 1..MaxStreams |-> None],
     cmd |-> Thread, cb |-> Thread, ack |-> 0, bundled |-> {}, que |-> NoFrames,
     pending |-> 0, cur |-> {}, found |-> None]
NoCall == [op |-> "none", c |-> None, s |-> None, pc |-> "idle", ord |-> <<>>, i |-> 0, j |-> 0]

-----------------------------------------------------------------------------
(* Locks and tables *)

InChannel(t) == call[t].pc \notin {"idle", "ch_wait", "zero"}     \* t holds its channel's ch_lock
ChFree(c) == ~\E t \in Threads : InChannel(t) /\ call[t].c = c
CamFree == ~\E t \in Threads : call[t].pc = "ch_wait"     \* cam_lock waits with the caller

Has(c, s) == s \in Range(ch[c].table)
Own(c) == {s \in Streams : Has(c, s) /\ Owner[s] = c}
Links(c) == {s \in Streams : Has(c, s) /\ Owner[s] # c}    \* ch_obj # my_obj

\* The streams of the table, in its order.
Used(table) == {i \in DOMAIN table : table[i] # None}
Rank(S, i) == Cardinality({j \in S : j <= i})
Place(S, k) == CHOOSE i \in S : Rank(S, i) = k
InTable(c) ==
    LET used == Used(ch[c].table)
    IN  [k \in 1..Cardinality(used) |-> ch[c].table[Place(used, k)]]
IsBundle(c) == c \in scene.bundles

Index(q, s) == CHOOSE i \in DOMAIN q : q[i] = s
Swap(q, i, j) == [q EXCEPT ![i] = q[j], ![j] = q[i]]
MetaIndex(c) == IF MetaStream \in Own(c) THEN Index(InTable(c), MetaStream) ELSE 1

\* The metadata stream is started first ...
StartOrder(c) == Swap(InTable(c), 1, MetaIndex(c))

\* ... and stopped last.
StopOrder(c) == Swap(InTable(c), Len(InTable(c)), MetaIndex(c))

-----------------------------------------------------------------------------
(* Frames *)

\* mm_stream_buf_done, in state ACTIVE only, for n references of s.
Done(streams, s, n) ==
    [streams EXCEPT ![s].out = IF streams[s].state # "ACTIVE" THEN @
                               ELSE IF @ < n THEN 0 ELSE @ - n]

\* mm_channel_qbuf: a stream that left the table is not found.
Qbuf(c, s, n) == IF Has(c, s) THEN Done(st, s, n) ELSE st

Post(c, node) == [ch EXCEPT ![c].cmd.q = Append(@, node)]

\* mm_stream_data_notify, for the bundle of the stream or for the channel that links it.
Target(s) == IF IsBundle(Owner[s]) THEN Owner[s] ELSE st[s].link

Frame(s) ==
    /\ st[s].state = "ACTIVE" /\ st[s].out < MaxFrames[s] /\ Target(s) # None
    /\ st' = [st EXCEPT ![s].out = @ + 1]
    /\ ch' = Post(Target(s), [cmd |-> "DATA_CB", s |-> s])
    /\ UNCHANGED <<scene, call, hold>>

\* What follows a command: a complete superbuf that was asked for goes to the callback
\* thread, and the queue gives back what it has too many of stream s.
Complete(k) == k.bundled # {} /\ \A s \in k.bundled : k.que[s] > 0

Settle(c, k, s) ==
    LET send == k.pending > 0 /\ Complete(k)
        over == ~send /\ s # None /\ k.que[s] > Keep
    IN  /\ ch' = [ch EXCEPT ![c] =
              IF send
              THEN [k EXCEPT !.pending = @ - 1,
                             !.que = [x \in Streams |-> IF x \in k.bundled THEN @[x] - 1
                                                                           ELSE @[x]],
                             !.cb.q = Append(@, [cmd |-> "SUPER_BUF", bufs |-> k.bundled])]
              ELSE IF over THEN [k EXCEPT !.que[s] = @ - 1] ELSE k]
        /\ st' = IF over THEN Qbuf(c, s, 1) ELSE st

\* FLUSH_QUEUE: the queue is emptied, but only the frames of stream s (None stands for
\* CAM_STREAM_TYPE_DEFAULT, all of them) are given back.
Flushed(c, s) ==
    [x \in Streams |-> IF ch[c].que[x] = 0 THEN st[x]
                       ELSE IF s \in {None, x} THEN Qbuf(c, x, ch[c].que[x])[x]
                       ELSE [st[x] EXCEPT !.lost = @ + ch[c].que[x]]]

\* mm_camera_cmd_thread with mm_channel_process_stream_buf: one command.
CmdStep(c) ==
    LET node == Head(ch[c].cmd.q)
        k    == [ch[c] EXCEPT !.cmd.q = Tail(@)]
    IN  /\ ch[c].cmd.up /\ ch[c].cmd.q # <<>>
        /\ \/ /\ node.cmd = "DATA_CB"
              /\ Settle(c, [k EXCEPT !.que[node.s] = @ + 1], node.s)
           \/ /\ node.cmd = "REQ_DATA_CB"
              /\ Settle(c, [k EXCEPT !.pending = node.n], None)
           \/ /\ node.cmd = "FLUSH_QUEUE"
              /\ ch' = [ch EXCEPT ![c] = [k EXCEPT !.que = NoFrames, !.ack = @ + 1]]
              /\ st' = Flushed(c, node.s)
           \/ /\ node.cmd = "EXIT"
              /\ ch' = [ch EXCEPT ![c] = [k EXCEPT !.cmd.bye = TRUE]]
              /\ UNCHANGED st
        /\ UNCHANGED <<scene, call, hold>>

\* The thread works its queue off before it ends.
CmdEnds(c) ==
    /\ ch[c].cmd.up /\ ch[c].cmd.bye /\ ch[c].cmd.q = <<>>
    /\ ch' = [ch EXCEPT ![c].cmd.up = FALSE]
    /\ UNCHANGED <<scene, st, call, hold>>

-----------------------------------------------------------------------------
(* The callback thread and the client's frames *)

\* The callback is called with the next superbuf; the client works on it.
CbStep(c) ==
    LET node == Head(ch[c].cb.q)
        k    == [ch[c] EXCEPT !.cb.q = Tail(@)]
    IN  /\ ch[c].cb.up /\ ch[c].cb.q # <<>> /\ ch[c].cur = {}
        /\ ch' = [ch EXCEPT ![c] = IF node.cmd = "EXIT" THEN [k EXCEPT !.cb.bye = TRUE]
                                   ELSE [k EXCEPT !.cur = node.bufs]]
        /\ UNCHANGED <<scene, st, call, hold>>

CbEnds(c) ==
    /\ ch[c].cb.up /\ ch[c].cb.bye /\ ch[c].cb.q = <<>> /\ ch[c].cur = {}
    /\ ch' = [ch EXCEPT ![c].cb.up = FALSE]
    /\ UNCHANGED <<scene, st, call, hold>>

Stopping(c) == \E t \in Threads : call[t].op = "stop" /\ call[t].c = c

\* The client keeps the frames for a thread of its own, but not in a stop: the thread was
\* stopped before.
ClientKeeps(c) ==
    /\ ch[c].cur # {} /\ ch[c].found = None
    /\ ~Stopping(c)
    /\ hold' = [hold EXCEPT ![c] = [s \in Streams |-> IF s \in ch[c].cur THEN @[s] + 1
                                                                          ELSE @[s]]]
    /\ ch' = [ch EXCEPT ![c].cur = {}]
    /\ UNCHANGED <<scene, st, call>>

\* Mutant: qbuf takes ch_lock like every other call.
LookUp_ChLock(c, s) ==
    /\ CamFree /\ ChFree(Owner[s])
    /\ s \in ch[c].cur /\ ch[c].found = None
    /\ ch' = [ch EXCEPT ![c].found = s]
    /\ UNCHANGED <<scene, st, call, hold>>

\* mm_camera_qbuf inside the callback: the channel is looked up under cam_lock ...
LookUp(c, s) ==
    /\ s \in ch[c].cur /\ ch[c].found = None
    /\ CamFree
    /\ ch' = [ch EXCEPT ![c].found = s]
    /\ UNCHANGED <<scene, st, call, hold>>

\* ... and the channel is used without a lock.
CallbackQbuf(c) ==
    LET s == ch[c].found
    IN  /\ s # None
        /\ ch' = [ch EXCEPT ![c].found = None, ![c].cur = @ \ {s}]
        /\ st' = Qbuf(c, s, 1)
        /\ UNCHANGED <<scene, call, hold>>

\* mm_camera_qbuf from the thread the frames were kept for.
ClientQbuf(c, s) ==
    /\ hold[c][s] > 0 /\ CamFree
    /\ hold' = [hold EXCEPT ![c][s] = @ - 1]
    /\ st' = Qbuf(c, s, 1)
    /\ UNCHANGED <<scene, ch, call>>

-----------------------------------------------------------------------------
(* Calls *)

Calls(c) == {t \in Threads : call[t].c = c}

Requests(c) == Cardinality({i \in DOMAIN ch[c].cmd.q : ch[c].cmd.q[i].cmd = "REQ_DATA_CB"})

\* What a client may do: it does not delete what others use, asks for links to running
\* channels, and starts and stops a channel when it holds no frame from it and none of its
\* streams is linked elsewhere ("we always assume qbuf will be done before channel/stream
\* is fully stopped", mm_camera.c:516).
Polite(op, c, s) ==
    /\ (op \in {"link", "add", "del", "unlink"}) <=> s # None
    /\ scene.shared \/ (~Stopping(c) /\ (op = "stop" => Calls(c) = {}))
    /\ CASE op = "link" -> /\ s = scene.links[c] /\ ~Has(c, s)
                           /\ ch[Owner[s]].state = "ACTIVE" /\ Has(Owner[s], s)
                           /\ Calls(Owner[s]) = {}
         [] op = "add" -> Owner[s] = c /\ st[s].state = "NOTUSED" /\ s \in scene.streams
         [] op = "del" -> Owner[s] = c /\ st[s].state = "CFG"
         [] op = "unlink" -> Has(c, s) /\ Owner[s] # c
         [] op \in {"start", "stop"} ->
                /\ Own(c) # {} /\ hold[c] = NoFrames
                /\ \A d \in Channels \ {c} : \A x \in Own(c) :
                      /\ scene.links[d] = x => Calls(d) = {}
                      /\ ~Has(d, x)
         [] op = "delete" -> Calls(c) = {} /\ ch[c].state = "STOPPED" /\ Used(ch[c].table) = {}
         [] OTHER -> IsBundle(c) /\ Requests(c) < MaxRequests

\* mm_camera_add_channel needs cam_lock only, and a slot that is not used.
AddChannel(c) ==
    /\ CamFree /\ ch[c].state = "NOTUSED" /\ c \in {Owner[s] : s \in scene.streams}
    /\ scene.reuses \/ Calls(c) = {}
    /\ ch' = [ch EXCEPT ![c].state = "STOPPED"]
    /\ UNCHANGED <<scene, st, call, hold>>

Ops == {"add", "link", "del", "unlink", "delete", "start", "stop", "request", "cancel", "flush"}

\* A call finds its channel under cam_lock, and waits for ch_lock with it.
Enter(t, op, c, s) ==
    /\ call[t] = NoCall /\ CamFree
    /\ ch[c].state # "NOTUSED" /\ Polite(op, c, s)
    /\ call' = [call EXCEPT ![t] = [NoCall EXCEPT !.op = op, !.c = c, !.s = s,
                                                  !.pc = "ch_wait"]]
    /\ UNCHANGED <<scene, ch, st, hold>>

Waits(t, op) == call[t].pc = "ch_wait" /\ call[t].op = op /\ ChFree(call[t].c)
State(t) == ch[call[t].c].state
Return(t) == call' = [call EXCEPT ![t] = NoCall]

\* The state machine answers an event it does not know with 0 and does nothing.
Ignored(t) ==
    /\ Waits(t, call[t].op)
    /\ IF State(t) = "STOPPED" THEN call[t].op \in {"stop", "request", "cancel", "flush"}
       ELSE call[t].op \in {"add", "link", "del", "unlink", "start"}
    /\ Return(t)
    /\ UNCHANGED <<scene, ch, st, hold>>

Handled(t, op, state) == Waits(t, op) /\ State(t) = state

FreeSlots(c) == {i \in DOMAIN ch[c].table : ch[c].table[i] = None}
FreeSlot(c) == CHOOSE i \in FreeSlots(c) : \A j \in FreeSlots(c) : i <= j

\* ADD_STREAM with its configuration, LINK_STREAM: the first free slot is taken.
AddOrLink(t) ==
    LET c == call[t].c
        s == call[t].s
    IN  /\ \E op \in {"add", "link"} : Handled(t, op, "STOPPED")
        /\ ch' = IF FreeSlots(c) = {} \/ Has(c, s) THEN ch
                 ELSE [ch EXCEPT ![c].table[FreeSlot(c)] = s]
        /\ st' = IF ch' # ch /\ Owner[s] = c THEN [st EXCEPT ![s].state = "CFG"] ELSE st
        /\ Return(t)
        /\ UNCHANGED <<scene, hold>>

Cleared(table, s) == [i \in DOMAIN table |-> IF table[i] = s THEN None ELSE table[i]]

\* DEL_STREAM releases an own stream, and only unlinks another's.
Delete(t) ==
    LET c == call[t].c
        s == call[t].s
    IN  /\ \E op \in {"del", "unlink"} : Handled(t, op, "STOPPED")
        /\ ch' = [ch EXCEPT ![c].table = Cleared(@, s)]
        /\ st' = IF ~Has(c, s) THEN st
                 ELSE IF Owner[s] = c THEN [st EXCEPT ![s].state = "NOTUSED"]
                 ELSE [st EXCEPT ![s].link = None]
        /\ Return(t)
        /\ UNCHANGED <<scene, hold>>

Go(t, pc) == call' = [call EXCEPT ![t].pc = pc]

\* mm_camera_del_channel: DELETE leaves the slot unused and unlocked ...
DeleteChannel(t) ==
    /\ Handled(t, "delete", "STOPPED")
    /\ ch' = [ch EXCEPT ![call[t].c].state = "NOTUSED"]
    /\ Go(t, "zero")
    /\ UNCHANGED <<scene, st, hold>>

\* ... and only then is it zeroed, whatever it is by now.
ZeroChannel(t) ==
    /\ call[t].pc = "zero"
    /\ ch' = [ch EXCEPT ![call[t].c] = NewChannel]
    /\ Return(t)
    /\ UNCHANGED <<scene, st, hold>>

\* REQUEST_SUPER_BUF, and the cancel as a request for none.
Request(t) ==
    /\ \E op \in {"request", "cancel"} : Handled(t, op, "ACTIVE")
    /\ ch' = Post(call[t].c, [cmd |-> "REQ_DATA_CB",
                              n |-> IF call[t].op = "request" THEN 1 ELSE 0])
    /\ Return(t)
    /\ UNCHANGED <<scene, st, hold>>

\* FLUSH_SUPER_BUF_QUEUE: the call waits on sync_sem for the command thread.
Flush(t) ==
    /\ Handled(t, "flush", "ACTIVE")
    /\ ch' = Post(call[t].c, [cmd |-> "FLUSH_QUEUE", s |-> None])
    /\ Go(t, "flush_ack")
    /\ UNCHANGED <<scene, st, hold>>

FlushAcked(t) ==
    LET c == call[t].c
    IN  /\ call[t].pc = "flush_ack" /\ ch[c].ack > 0
        /\ ch' = [ch EXCEPT ![c].ack = @ - 1]
        /\ Return(t)
        /\ UNCHANGED <<scene, st, hold>>

-----------------------------------------------------------------------------
(* mm_channel_start *)

Launched == [Thread EXCEPT !.up = TRUE]

\* The threads of a bundle are launched before anything is linked or started.
StartBegin(t) ==
    LET c == call[t].c
    IN  /\ Handled(t, "start", "STOPPED")
        /\ ch' = IF ~IsBundle(c) THEN ch
                 ELSE [ch EXCEPT ![c].cb = Launched, ![c].cmd = Launched, ![c].ack = 0,
                                 ![c].que = NoFrames, ![c].bundled = Own(c) \cup Links(c)]
        /\ call' = [call EXCEPT ![t].pc = "link", ![t].ord = StartOrder(c), ![t].i = 1]
        /\ UNCHANGED <<scene, st, hold>>

StartLinks(t) ==
    LET c == call[t].c
    IN  /\ call[t].pc = "link"
        /\ st' = [s \in Streams |-> IF s \in Links(c) THEN [st[s] EXCEPT !.link = c]
                                                      ELSE st[s]]
        /\ Go(t, "streams")
        /\ UNCHANGED <<scene, ch, hold>>

Current(t) == call[t].ord[call[t].i]

\* GET_BUF, REG_BUF and START of the next stream; those of other channels are passed over.
StartStream(t) ==
    LET s == Current(t)
    IN  /\ call[t].pc = "streams" /\ call[t].i <= Len(call[t].ord)
        /\ \/ /\ st' = IF Owner[s] = call[t].c
                       THEN [st EXCEPT ![s].state = "ACTIVE", ![s].out = 0, ![s].lost = 0] ELSE st
              /\ call' = [call EXCEPT ![t].i = @ + 1]
           \/ /\ s \in scene.fails /\ Owner[s] = call[t].c
              /\ \E where \in {"CFG", "BUFFED", "REG"} :
                    st' = [st EXCEPT ![s].state = where]
              /\ Go(t, "undo_links")
        /\ UNCHANGED <<scene, ch, hold>>

StartEnds(t) ==
    /\ call[t].pc = "streams" /\ call[t].i > Len(call[t].ord)
    /\ ch' = [ch EXCEPT ![call[t].c].state = "ACTIVE"]
    /\ Return(t)
    /\ UNCHANGED <<scene, st, hold>>

\* A linked stream is unlinked, and the queue is flushed for the type of stream s.
Unlink(t, next, s) ==
    LET c == call[t].c
    IN  /\ st' = [x \in Streams |-> IF x \in Links(c) THEN [st[x] EXCEPT !.link = None]
                                                      ELSE st[x]]
        /\ IF Links(c) # {} /\ IsBundle(c)
           THEN ch' = Post(c, [cmd |-> "FLUSH_QUEUE", s |-> s]) /\ Go(t, next[1])
           ELSE UNCHANGED ch /\ Go(t, next[2])
        /\ UNCHANGED <<scene, hold>>

\* The start failed at stream i: the flush asks for the type of that one.
UndoLinks(t) ==
    /\ call[t].pc = "undo_links"
    /\ Unlink(t, <<"undo_ack", "undo_copies">>, Current(t))

Acked(t, pc, next) ==
    LET c == call[t].c
    IN  /\ call[t].pc = pc /\ ch[c].ack > 0
        /\ ch' = [ch EXCEPT ![c].ack = @ - 1]
        /\ Go(t, next)
        /\ UNCHANGED <<scene, st, hold>>

UndoAcked(t) == Acked(t, "undo_ack", "undo_copies")

\* The copy of the linked stream is zeroed, whatever the command thread does meanwhile.
WithoutLinks(c) == [i \in DOMAIN ch[c].table |-> IF ch[c].table[i] \in Links(c) THEN None
                                                 ELSE ch[c].table[i]]
UndoCopies(t) ==
    /\ call[t].pc = "undo_copies"
    /\ ch' = [ch EXCEPT ![call[t].c].table = WithoutLinks(call[t].c)]
    /\ call' = [call EXCEPT ![t].pc = "undo_streams", ![t].j = 1]
    /\ UNCHANGED <<scene, st, hold>>

\* Mutant: the stream that failed is not undone.
UndoStream_NotLast(t) ==
    LET s == call[t].ord[call[t].j]
    IN  /\ call[t].pc = "undo_streams" /\ call[t].j <= call[t].i
        /\ st' = IF Owner[s] = call[t].c /\ call[t].j < call[t].i
                 THEN [st EXCEPT ![s].state = "CFG", ![s].out = 0, ![s].lost = 0] ELSE st
        /\ call' = [call EXCEPT ![t].j = @ + 1]
        /\ UNCHANGED <<scene, ch, hold>>

\* STOP, UNREG_BUF and PUT_BUF of the streams up to the one that failed.
UndoStream(t) ==
    LET s == call[t].ord[call[t].j]
    IN  /\ call[t].pc = "undo_streams" /\ call[t].j <= call[t].i
        /\ st' = IF Owner[s] = call[t].c
                 THEN [st EXCEPT ![s].state = "CFG", ![s].out = 0, ![s].lost = 0] ELSE st
        /\ call' = [call EXCEPT ![t].j = @ + 1]
        /\ UNCHANGED <<scene, ch, hold>>

-----------------------------------------------------------------------------
(* mm_channel_stop *)

StopBegin(t) ==
    /\ Handled(t, "stop", "ACTIVE")
    /\ call' = [call EXCEPT ![t].pc = "off", ![t].ord = StopOrder(call[t].c), ![t].i = 1]
    /\ UNCHANGED <<scene, ch, st, hold>>

\* STOP and UNREG_BUF of the next stream; those of other channels go on.
StopStream(t) ==
    LET s == Current(t)
    IN  /\ call[t].pc = "off" /\ call[t].i <= Len(call[t].ord)
        /\ st' = IF Owner[s] = call[t].c
                 THEN [st EXCEPT ![s].state = "BUFFED", ![s].out = 0, ![s].lost = 0] ELSE st
        /\ call' = [call EXCEPT ![t].i = @ + 1]
        /\ UNCHANGED <<scene, ch, hold>>

\* Mutant: the queue is not flushed before its thread ends.
StopLinks_NoFlush(t) ==
    LET c == call[t].c
    IN  /\ call[t].pc = "off" /\ call[t].i > Len(call[t].ord)
        /\ st' = [x \in Streams |-> IF x \in Links(c) THEN [st[x] EXCEPT !.link = None]
                                                      ELSE st[x]]
        /\ Go(t, "threads")
        /\ UNCHANGED <<scene, ch, hold>>

\* Only the first linked stream is unlinked: there is at most one here.
StopLinks(t) ==
    /\ call[t].pc = "off" /\ call[t].i > Len(call[t].ord)
    /\ Unlink(t, <<"ack", "threads">>,
              IF Links(call[t].c) = {} THEN None ELSE CHOOSE s \in Links(call[t].c) : TRUE)

StopAcked(t) == Acked(t, "ack", "threads")

-----------------------------------------------------------------------------
(* The end of both: the threads are joined, the command thread first *)

ReleaseThreads(t) ==
    LET c == call[t].c
    IN  /\ \/ call[t].pc = "threads"
           \/ call[t].pc = "undo_streams" /\ call[t].j > call[t].i
        /\ IF IsBundle(c) THEN ch' = Post(c, [cmd |-> "EXIT"]) /\ Go(t, "cmd_join")
                          ELSE UNCHANGED ch /\ Go(t, "put")
        /\ UNCHANGED <<scene, st, hold>>

CmdJoined(t) ==
    LET c == call[t].c
    IN  /\ call[t].pc = "cmd_join" /\ ~ch[c].cmd.up
        /\ ch' = [ch EXCEPT ![c].cmd = Thread, ![c].cb.q = Append(@, [cmd |-> "EXIT"])]
        /\ Go(t, "cb_join")
        /\ UNCHANGED <<scene, st, hold>>

\* mm_channel_superbuf_queue_deinit drops what is left in the queue.
CbJoined(t) ==
    LET c == call[t].c
    IN  /\ call[t].pc = "cb_join" /\ ~ch[c].cb.up
        /\ ch' = [ch EXCEPT ![c].cb = Thread, ![c].que = NoFrames]
        /\ Go(t, "put")
        /\ UNCHANGED <<scene, st, hold>>

\* PUT_BUF of the streams that were stopped, and the copies of linked streams are zeroed; a
\* failed start has done both.
PutBufs(t) ==
    LET c == call[t].c
    IN  /\ call[t].pc = "put"
        /\ st' = [s \in Streams |-> IF s \in Own(c) /\ st[s].state = "BUFFED"
                                    THEN [st[s] EXCEPT !.state = "CFG"] ELSE st[s]]
        /\ ch' = [ch EXCEPT ![c].state = "STOPPED", ![c].table = WithoutLinks(c)]
        /\ Return(t)
        /\ UNCHANGED <<scene, hold>>

-----------------------------------------------------------------------------

Init ==
    /\ scene \in Scenes
    /\ ch = [c \in Channels |-> NewChannel]
    /\ st = [s \in Streams |-> [state |-> "NOTUSED", link |-> None, out |-> 0, lost |-> 0]]
    /\ call = [t \in Threads |-> NoCall]
    /\ hold = [c \in Channels |-> NoFrames]

SimpleCall(t) == Ignored(t) \/ AddOrLink(t) \/ Delete(t) \/ DeleteChannel(t) \/ ZeroChannel(t)
                 \/ Request(t)
FlushCall(t) == Flush(t) \/ FlushAcked(t)
StartCall(t) == StartBegin(t) \/ StartLinks(t) \/ StartStream(t) \/ StartEnds(t)
UndoCall(t) == UndoLinks(t) \/ UndoAcked(t) \/ UndoCopies(t) \/ UndoStream(t)
StopCall(t) == StopBegin(t) \/ StopStream(t) \/ StopLinks(t) \/ StopAcked(t)
EndCall(t) == ReleaseThreads(t) \/ CmdJoined(t) \/ CbJoined(t) \/ PutBufs(t)
CallStep(t) ==
    /\ call[t].op # "none"
    /\ \/ SimpleCall(t) \/ FlushCall(t) \/ StartCall(t) \/ UndoCall(t) \/ StopCall(t)
       \/ EndCall(t)

Next ==
    \/ \E t \in Threads, op \in Ops, c \in Channels, s \in Streams \cup {None} :
          Enter(t, op, c, s)
    \/ \E t \in Threads : CallStep(t)
    \/ \E s \in Streams : Frame(s)
    \/ \E c \in Channels : \/ AddChannel(c) \/ CmdStep(c) \/ CmdEnds(c) \/ CbStep(c)
                           \/ CbEnds(c) \/ ClientKeeps(c) \/ CallbackQbuf(c)
    \/ \E c \in Channels, s \in Streams : LookUp(c, s) \/ ClientQbuf(c, s)

Spec == Init /\ [][Next]_vars

\* Calls and threads go on, a lock that comes free again and again is got, and the
\* client's callback ends.
CbThread(c) == \/ CbStep(c) \/ CbEnds(c) \/ ClientKeeps(c) \/ CallbackQbuf(c)
               \/ \E s \in Streams : LookUp(c, s)
Fairness ==
    /\ \A t \in Threads : SF_vars(CallStep(t))
    /\ \A c \in Channels : /\ WF_vars(CmdStep(c) \/ CmdEnds(c))
                           /\ SF_vars(CbThread(c))

FairSpec == Spec /\ Fairness

-----------------------------------------------------------------------------
(* Properties *)

CmdNodes == [cmd : {"DATA_CB"}, s : Streams] \cup [cmd : {"FLUSH_QUEUE"}, s : Streams \cup {None}]
                \cup [cmd : {"REQ_DATA_CB"}, n : 0..1] \cup [cmd : {"EXIT"}]
CbNodes == [cmd : {"SUPER_BUF"}, bufs : SUBSET Streams] \cup [cmd : {"EXIT"}]

ChannelType ==
    [state : {"NOTUSED", "STOPPED", "ACTIVE"}, table : [1..MaxStreams -> Streams \cup {None}],
     cmd : [up : BOOLEAN, bye : BOOLEAN, q : Seq(CmdNodes)],
     cb : [up : BOOLEAN, bye : BOOLEAN, q : Seq(CbNodes)],
     ack : Nat, bundled : SUBSET Streams, que : [Streams -> Nat], pending : 0..1,
     cur : SUBSET Streams, found : Streams \cup {None}]
StreamType == [state : {"NOTUSED", "CFG", "BUFFED", "REG", "ACTIVE"},
               link : Channels \cup {None}, out : Nat, lost : Nat]

\* Every field keeps its type; no count of references goes below zero (mm_channel_t,
\* mm_stream_t).
TypeOK ==
    /\ scene \in Scenes
    /\ ch \in [Channels -> ChannelType] /\ st \in [Streams -> StreamType]
    /\ hold \in [Channels -> [Streams -> Nat]]

\* The frames of s that somebody holds: commands, queues, the callback, the client.
FramesIn(n) == CASE n.cmd = "DATA_CB" -> {n.s}
                 [] n.cmd = "SUPER_BUF" -> n.bufs
                 [] OTHER -> {}
CountNodes(q, s) == Cardinality({i \in DOMAIN q : s \in FramesIn(q[i])})
InBundle(c, s) == hold[c][s] + CountNodes(ch[c].cmd.q, s) + ch[c].que[s] + CountNodes(ch[c].cb.q, s)
                      + IF s \in ch[c].cur THEN 1 ELSE 0
Held(s, n) == \E c \in Channels : /\ InBundle(c, s) = n
                                  /\ \A d \in Channels \ {c} : InBundle(d, s) = 0
Undone(s) == \E t \in Threads : call[t].c = Owner[s] /\ call[t].pc \in
                 {"undo_links", "undo_ack", "undo_copies", "undo_streams",
                  "cmd_join", "cb_join", "put"}

\* A start or stop that has returned has moved all or nothing: with an ACTIVE channel all
\* its streams run, the linked ones report to it and the threads are there; with a STOPPED
\* one none of this is left over (mm_channel_start and mm_channel_stop).
AllOrNothing ==
    \A c \in Channels : ChFree(c) =>
        /\ ch[c].state = "ACTIVE" =>
              /\ \A s \in Own(c) : st[s].state = "ACTIVE"
              /\ \A s \in Links(c) : st[s].link = c
              /\ IsBundle(c) => ch[c].cmd.up /\ ch[c].cb.up
        /\ ch[c].state = "STOPPED" =>
              /\ \A s \in Own(c) : st[s].state = "CFG"
              /\ \A s \in Streams : st[s].link # c
              /\ ch[c].cmd = Thread /\ ch[c].cb = Thread /\ ch[c].que = NoFrames

\* Every reference is somebody's.  While a stream runs, it counts as many as there are frames
\* of it in the commands, queues and callbacks of one channel and with its client, and those
\* that a failed start flushed without giving them back (mm_camera_channel.c:1605): more would
\* starve it, less let the driver write into a frame in use; no other channel has any.  When
\* its buffers are given back there is none ("since all streams are stopped, we are safe to
\* release all buffers", 1758), except while a failed start is undone, which frees them
\* before it ends the threads (1629).
FramesExact ==
    \A s \in Streams :
        /\ st[s].state = "ACTIVE" => Held(s, st[s].out - st[s].lost)
        /\ st[s].state \in {"NOTUSED", "CFG"} => Undone(s) \/ Held(s, 0)

\* Every call returns, whatever the bundle's threads and the other callers do.
CallsReturn == \A t \in Threads : call[t].pc # "idle" ~> call[t].pc = "idle"

=============================================================================
