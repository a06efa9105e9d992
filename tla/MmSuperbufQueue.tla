--------------------------- MODULE MmSuperbufQueue ---------------------------
(***************************************************************************)
(* The frame matching queue of one camera channel and the command thread   *)
(* that serves it: mm_channel_process_stream_buf and everything it calls   *)
(* in mm-camera-interface/src/mm_camera_channel.c.                         *)
(*                                                                         *)
(* The command thread takes one command at a time from its queue and runs  *)
(* the whole handler before it takes the next one, so a handler is one     *)
(* action.  A frame is its frame index: it names the buffer of its stream  *)
(* and, as in the code, an index of 0 marks an empty slot.  Metadata       *)
(* buffers carry the entries that steer the matching (record Meta).        *)
(***************************************************************************)
EXTENDS Integers, FiniteSets, SequencesExt

CONSTANTS
    Streams,          \* streams bundled in the channel
    MetaStream,       \* the one of type CAM_STREAM_TYPE_METADATA
    Scenes,           \* the channels and clients considered: names to records of SceneType
    FutureWait,       \* MM_CAMERA_MAX_FUTURE_FRAME_WAIT
    ByteMod,          \* 2^8 at full scale: the width of diverted_frame_id
    MaxBatch,         \* MAX_CAPTURE_BATCH_NUM
    MaxFrame          \* bound on the frame indices of a session

\* The metadata entries that steer the matching.
MetaType == [prep : STRING, range : [min : Nat, max : Nat, skip : Nat, batch : Nat],
             crop1x : BOOLEAN, divert : Int, lowlight : STRING]
NoRange == [min |-> 0, max |-> 0, skip |-> 0, batch |-> 0]  \* GOOD_FRAME_IDX_RANGE absent
PlainMeta == [prep |-> "absent", range |-> NoRange, crop1x |-> FALSE,
              divert |-> -1, lowlight |-> "absent"]

AttrType == [notify_mode : {"BURST", "CONTINUOUS"}, water_mark : Nat, look_back : Nat,
             post_frame_skip : Nat, max_unmatched_frames : Nat, low : BOOLEAN]

\* What memset leaves of the attributes.
ZeroAttr == [notify_mode |-> "BURST", water_mark |-> 0, look_back |-> 0,
             post_frame_skip |-> 0, max_unmatched_frames |-> 0, low |-> FALSE]

\* A scene: how the channel was set up, what its client does with it, what the
\* sensor and the allocator may do.
SceneType ==
    [linked : SUBSET Streams,       \* streams of another channel (mm_channel_link_stream)
     attr : AttrType,               \* mm_camera_channel_attr_t given to add_channel
     modes : SUBSET {"BURST", "CONTINUOUS"},    \* modes the client configures
     metas : SUBSET MetaType,       \* contents of the metadata buffers
     requests : SUBSET (Nat \X Nat),   \* <<num_buf_requested, num_retro_buf_requested>>
     flushes : SUBSET Nat,          \* frame indices given to flush_super_buf_queue
     generic : SUBSET {"MANUAL_ZSL", "BRACKETING", "FLASH_BRACKETING", "ZOOM_1X",
                       "CAPTURE_SETTING"},
     configs : SUBSET Seq([type : STRING, num_frames : Nat]),
     mallocs : SUBSET BOOLEAN,      \* whether malloc succeeds: {TRUE} or BOOLEAN
     startMayFail : BOOLEAN,        \* whether mm_channel_start may fail half way
     lastFrame : Nat]               \* bound on the frame indices of a session

ASSUME ConstantsOK ==
    /\ IsFiniteSet(Streams) /\ MetaStream \in Streams
    /\ \A n \in DOMAIN Scenes : /\ Scenes[n] \in SceneType
                             /\ Scenes[n].mallocs # {} /\ Scenes[n].lastFrame <= MaxFrame
    /\ {FutureWait, ByteMod, MaxBatch, MaxFrame} \subseteq Nat \ {0}

VARIABLES
    scene,    \* the name of the scene at hand; it never changes
    chan,     \* the fields of mm_channel_t and mm_channel_queue_t that the handlers use
    seqno,    \* last frame index each stream delivered (the kernel counts up)
    owed,     \* owed[s][f]: references of this channel to buffer f of stream s
    sent      \* superbufs the last command handed to the cb thread

vars == <<scene, chan, seqno, owed, sent>>

Setup == Scenes[scene]

Frames == 0..MaxFrame
Horizon == MaxFrame + 1    \* bound on an expected frame id: later than every frame
Sat(x) == IF x > Horizon THEN Horizon ELSE x

EmptySlots == [s \in Streams |-> 0]

-----------------------------------------------------------------------------
(* Queue nodes *)

NewNode(s, f, exp) ==
    [frame_idx |-> f, super_buf |-> [EmptySlots EXCEPT ![s] = f],
     matched |-> FALSE, expected |-> exp]

Bufs(n) == {<<s, n.super_buf[s]>> : s \in {t \in Streams : n.super_buf[t] # 0}}

Unmatched(que) == {i \in DOMAIN que : ~que[i].matched}
MatchedIn(que) == DOMAIN que \ Unmatched(que)

\* The list without the nodes at the positions of D.
Without(que, D) ==
    LET kept == DOMAIN que \ D
        Place(k) == CHOOSE i \in kept : Cardinality({j \in kept : j <= i}) = k
    IN  [k \in 1..Cardinality(kept) |-> que[Place(k)]]

\* mm_channel_qbuf on every buffer of B: the channel gives its reference back.
Qbuf(c, B) == [c EXCEPT !.freed = Append(@, B)]

\* The first k nodes, all matched, leave the queue and their buffers go back to the driver.
DropHead(c, k) ==
    [Qbuf(c, UNION {Bufs(c.que[i]) : i \in 1..k}) EXCEPT
        !.que = SubSeq(@, k + 1, Len(@)),
        !.match_cnt = @ - k]

\* How many nodes dequeue_internal(matched_only) yields before it answers NULL.
MatchedHead(que) ==
    IF Unmatched(que) = {} THEN Len(que)
    ELSE (CHOOSE i \in Unmatched(que) : \A j \in Unmatched(que) : i <= j) - 1

-----------------------------------------------------------------------------
(* The three ways the queue is emptied from its head *)

\* while (match_cnt > limit) dequeue_internal(TRUE): the loop only ends when the
\* count is down to the limit; an unmatched head makes it spin with the lock held.
TrimTo(c, limit) ==
    LET need == c.match_cnt - limit
    IN  IF c.attr.notify_mode = "CONTINUOUS" \/ need <= 0 THEN c
        ELSE IF need <= MatchedHead(c.que) THEN DropHead(c, need)
        ELSE [DropHead(c, MatchedHead(c.que)) EXCEPT !.stuck = TRUE]

BufdoneOverflow(c) == TrimTo(c, c.attr.water_mark)
Skip(c) == TrimTo(c, c.attr.look_back)

FlushMatched(c) == DropHead(c, MatchedHead(c.que))

\* Mutant: the flush forgets the counter of matched nodes.
Flush_KeepsCount(c, types) ==
    [Qbuf(c, {b \in UNION {Bufs(c.que[i]) : i \in DOMAIN c.que} : b[1] \in types})
       EXCEPT !.que = <<>>]

\* Mutant: a flush for one type frees the nodes without giving the buffers back.
Flush_OnlyDefault(c, types) ==
    [Qbuf(c, {b \in UNION {Bufs(c.que[i]) : i \in DOMAIN c.que} : types = Streams})
       EXCEPT !.que = <<>>,
              !.match_cnt = @ - Cardinality(MatchedIn(c.que))]

\* mm_channel_superbuf_flush: types is the set of streams whose buffers are
\* returned; the nodes are freed with whatever else they hold.
Flush(c, types) ==
    [Qbuf(c, {b \in UNION {Bufs(c.que[i]) : i \in DOMAIN c.que} : b[1] \in types})
       EXCEPT !.que = <<>>,
              !.match_cnt = @ - Cardinality(MatchedIn(c.que))]

-----------------------------------------------------------------------------
(* mm_channel_handle_metadata *)

Future(x) == Sat(x + FutureWait)

\* A prepare-snapshot-done entry: the main flash is still to come, or not.
MetaPrepDone(c, m) ==
    IF m.prep = "absent" THEN c
    ELSE IF m.prep = "NEED_FUTURE_FRAME"
    THEN [Flush(c, Streams) EXCEPT !.bWaitForPrepSnapshotDone = FALSE,
                                   !.expected_frame_id = Future(@),
                                   !.needLEDFlash = TRUE]
    ELSE [c EXCEPT !.bWaitForPrepSnapshotDone = FALSE, !.needLEDFlash = FALSE]

\* A good-frame range, or a bracketing capture that still waits for one.
MetaGoodRange(c, m) ==
    IF m.range # NoRange
    THEN LET flash == c.needLEDFlash /\ c.burstSnapNum > 1
             d == [c EXCEPT !.expected_frame_id = m.range.min,
                            !.led_off_start_frame_id = IF flash THEN m.range.max ELSE @,
                            !.frame_skip_count = IF flash THEN m.range.skip ELSE @,
                            !.once = IF flash THEN FALSE ELSE @]
         IN  IF c.isFlashBracketingEnabled
             THEN [d EXCEPT !.expected_frame_id_without_led = m.range.max]
             ELSE [d EXCEPT !.bracketingState = "ACTIVE"]
    ELSE IF c.bracketingState = "WAIT_GOOD_FRAME_IDX" /\ m.prep = "absent"
    THEN [FlushMatched(c) EXCEPT !.expected_frame_id = Future(@)]
    ELSE c

\* A config capture keeps the good frame of every batch.
MetaConfigBatch(c, m) ==
    IF c.isConfigCapture /\ m.range # NoRange /\ m.range.batch < Len(c.frameConfig)
    THEN LET ids == [c.capture_frame_id EXCEPT ![m.range.batch] = m.range.min]
         IN  [c EXCEPT !.capture_frame_id = ids,
                       !.expected_frame_id = ids[c.cur_capture_idx]]
    ELSE c

\* The first frame after the LED went off ends a flash burst.
MetaLedOff(c, f) ==
    IF /\ c.burstSnapNum > 1 /\ c.needLEDFlash /\ ~c.isFlashBracketingEnabled
       /\ c.bracketingState = "OFF" /\ ~c.isConfigCapture
       /\ f >= c.led_off_start_frame_id /\ ~c.once
    THEN [c EXCEPT !.expected_frame_id = Sat(c.led_off_start_frame_id + c.frame_skip_count),
                   !.once = TRUE, !.stopZslSnapshot = TRUE, !.needLEDFlash = FALSE]
    ELSE c

\* diverted_frame_id is a uint8_t while frame indices have 32 bits.
MetaDivert(c, f, m) ==
    IF m.divert = -1 THEN c
    ELSE [c EXCEPT !.diverted_frame_id = IF m.divert >= f THEN m.divert % ByteMod ELSE 0]

MetaLowLight(c, m) ==
    IF m.lowlight = "absent" THEN c ELSE [c EXCEPT !.needLowLightZSL = (m.lowlight = "on")]

HandleMetadata(c, s, f, m) ==
    LET d == MetaDivert(c, f, m)
    IN  IF s # MetaStream \/ s \in Setup.linked THEN c
        ELSE IF d.isZoom1xFrameRequested
        THEN IF m.crop1x
             THEN [d EXCEPT !.isZoom1xFrameRequested = FALSE,
                            !.expected_frame_id = Sat(f + 1)]
             ELSE FlushMatched([d EXCEPT !.expected_frame_id = Future(@)])
        ELSE MetaLowLight(
                MetaLedOff(
                   MetaConfigBatch(MetaGoodRange(MetaPrepDone(d, m), m), m), f), m)

-----------------------------------------------------------------------------
(* mm_channel_superbuf_comp_and_enqueue *)

\* Mutant: any node that still lacks a buffer of s will do.
Fits_AnyOpen(c, n, s, f) == ~n.matched /\ (n.frame_idx = f \/ n.super_buf[s] = 0)

\* Node n takes buffer f of stream s.
Fits(c, n, s, f) ==
    /\ ~n.matched
    /\ \/ n.frame_idx = f
       \/ /\ s = MetaStream /\ n.super_buf[s] = 0
          /\ c.nomatch_frame_id # 0 /\ c.nomatch_frame_id <= f
       \/ /\ c.attr.low /\ s # MetaStream /\ n.super_buf[s] = 0 /\ n.frame_idx > f

\* First position of a set of positions; 0 (a NULL list pointer) if there is none.
FirstOf(S) == IF S = {} THEN 0 ELSE CHOOSE i \in S : \A j \in S : i <= j

Older(c, f) == {i \in Unmatched(c.que) : c.que[i].frame_idx < f}
Newer(c, f) == {i \in Unmatched(c.que) : c.que[i].frame_idx > f}

\* How many unmatched nodes there are beyond attr.max_unmatched_frames.
Excess(c) == Cardinality(Unmatched(c.que)) - c.attr.max_unmatched_frames

\* What a completed superbuf asks of the next one.
ExpectAfterMatch(c, f) ==
    IF c.isFlashBracketingEnabled
    THEN [c EXCEPT !.expected_frame_id = c.expected_frame_id_without_led,
                   !.isFlashBracketingEnabled = f < c.expected_frame_id_without_led]
    ELSE [c EXCEPT !.expected_frame_id = Sat(f + c.attr.post_frame_skip)]

\* Mutant: older unmatched nodes are not released.
Stale_Kept(c, pos, f) == {}

\* The nodes released once the one at pos is complete: all from the first older
\* unmatched one up to pos.
Stale(c, pos, f) ==
    LET last == FirstOf({i \in Older(c, f) : i < pos})
    IN  IF last = 0 THEN {} ELSE last..(pos - 1)

\* The buffer joins the node at pos.
JoinNode(c, pos, s, f) ==
    LET filled == [c.que[pos].super_buf EXCEPT ![s] = f]
        full   == \A t \in Streams : filled[t] # 0
        divert == ~full /\ c.diverted_frame_id = f
        node   == [c.que[pos] EXCEPT !.super_buf = filled, !.matched = full,
                                     !.expected = IF full THEN FALSE ELSE @ \/ divert]
        stale  == IF full THEN Stale(c, pos, f) ELSE {}
        d      == IF full THEN [ExpectAfterMatch(c, f) EXCEPT !.match_cnt = @ + 1] ELSE c
    IN  [Qbuf(d, UNION {Bufs(c.que[i]) : i \in stale}) EXCEPT
           !.que = Without([@ EXCEPT ![pos] = node], stale),
           !.diverted_frame_id = IF divert THEN 0 ELSE @,
           !.nomatch_frame_id = 0]

\* The nodes given up to make room: the first expendable ones from the oldest
\* unmatched node on, or that node itself when nothing is expendable.
Evicted(c, f) ==
    LET need  == Excess(c)
        last  == FirstOf(Older(c, f))
        spare == {i \in last..Len(c.que) : ~c.que[i].expected /\ i # FirstOf(Newer(c, f))}
        taken == {i \in spare : Cardinality({j \in spare : j <= i}) <= need}
    IN  IF need <= 0 THEN {}
        ELSE IF Cardinality(taken) < need THEN taken \cup {last} ELSE taken

\* A buffer no node takes opens a node of its own, in frame order.
OpenNode(c, s, f, mem) ==
    LET out    == Evicted(c, f)
        kept   == Without(c.que, out)
        before == FirstOf(Newer([c EXCEPT !.que = kept], f))
        divert == c.diverted_frame_id = f
        single == Cardinality(Streams) = 1
        node   == [NewNode(s, f, divert /\ ~single) EXCEPT !.matched = single]
        d      == [Qbuf(c, UNION {Bufs(c.que[i]) : i \in out}) EXCEPT !.que = kept]
    IN  IF ~mem THEN Qbuf(d, {<<s, f>>})
        ELSE [d EXCEPT
                !.que = IF before = 0 THEN Append(@, node) ELSE InsertAt(@, before, node),
                !.diverted_frame_id = IF divert THEN 0 ELSE @,
                !.match_cnt = IF single THEN @ + 1 ELSE @,
                !.expected_frame_id = IF single THEN Sat(f + c.attr.post_frame_skip) ELSE @,
                !.nomatch_frame_id = IF c.attr.low /\ s # MetaStream THEN f ELSE @]

Enqueue(c, s, f, mem) ==
    LET pos == FirstOf({i \in DOMAIN c.que : Fits(c, c.que[i], s, f)})
    IN  IF pos # 0 /\ c.que[pos].super_buf[s] # 0
        THEN [Qbuf(c, {<<s, f>>}) EXCEPT !.nomatch_frame_id = 0]
        ELSE IF pos # 0 THEN JoinNode(c, pos, s, f)
        ELSE IF Excess(c) > 0 /\ Older(c, f) = {}
        THEN Qbuf(c, {<<s, f>>})
        ELSE OpenNode(c, s, f, mem)

CompAndEnqueue(c, s, f, m, mem) ==
    LET d == HandleMetadata(c, s, f, m)
    IN  IF f = 0 THEN Qbuf(c, {<<s, f>>})
        ELSE IF \/ f < d.expected_frame_id
                \/ s = MetaStream /\ d.nomatch_frame_id > f
        THEN Qbuf(d, {<<s, f>>})
        ELSE Enqueue(d, s, f, mem)

-----------------------------------------------------------------------------
(* What process_stream_buf does after every command *)

StartZsl(c) == [c EXCEPT !.zslOn = TRUE]     \* mm_camera_start_zsl_snapshot
StopZsl(c)  == [c EXCEPT !.zslOn = FALSE]    \* mm_camera_stop_zsl_snapshot

AutoStart(c) == [StartZsl(c) EXCEPT !.startZSlSnapshotCalled = TRUE,
                                    !.burstSnapNum = c.pending_cnt,
                                    !.bWaitForPrepSnapshotDone = FALSE]

AutoStop(c) == [StopZsl(c) EXCEPT !.startZSlSnapshotCalled = FALSE, !.needLEDFlash = FALSE,
                                  !.burstSnapNum = 0, !.stopZslSnapshot = FALSE,
                                  !.unLockAEC = TRUE, !.bracketingState = "OFF",
                                  !.isConfigCapture = FALSE]

\* Mutant: a capture whose last superbuf was requested is not over.
CaptureOver_OnlyStop(c) == c.stopZslSnapshot /\ ~c.manualZSLSnapshot
                           /\ c.startZSlSnapshotCalled

CaptureOver(c) == /\ c.pending_cnt = 0 \/ c.stopZslSnapshot
                  /\ ~c.manualZSLSnapshot /\ c.startZSlSnapshotCalled

\* The batches of a config capture that are still to come (cur_capture_idx is 0-based).
BatchesLeft(c) == (c.cur_capture_idx + 1)..Len(c.frameConfig)

BatchNeedsZsl(c, b) == /\ c.frameConfig[b].type = "FLASH" => c.needLEDFlash
                       /\ c.frameConfig[b].type = "LOW_LIGHT" => c.needLowLightZSL

TriggerZsl(c) ==
    LET idle == c.pending_cnt > 0 /\ ~c.manualZSLSnapshot /\ ~c.startZSlSnapshotCalled
    IN  IF idle /\ c.isConfigCapture /\ \A b \in BatchesLeft(c) : BatchNeedsZsl(c, b)
        THEN AutoStart([Flush(c, Streams) EXCEPT
                 !.capture_frame_id = [b \in DOMAIN @ |-> IF b + 1 \in BatchesLeft(c)
                                                         THEN Future(c.expected_frame_id)
                                                         ELSE @[b]]])
        ELSE IF idle /\ (c.needLEDFlash \/ c.bracketingState # "OFF") THEN AutoStart(c)
        ELSE IF CaptureOver(c)
        THEN [AutoStop(c) EXCEPT !.bWaitForPrepSnapshotDone = FALSE]
        ELSE c

\* Bookkeeping of a burst for one more dispatched superbuf.
CountBurst(c) ==
    [c EXCEPT !.pending_cnt = @ - 1,
              !.bWaitForPrepSnapshotDone = @ \/ c.pending_retro_cnt = 1,
              !.pending_retro_cnt = IF @ > 0 THEN @ - 1 ELSE 0]

CountBatch(c) ==
    LET b    == c.cur_capture_idx + 1
        left == IF b \in DOMAIN c.frameConfig /\ c.frameConfig[b].num_frames # 0
                THEN c.frameConfig[b].num_frames - 1 ELSE 0
        cfg  == [i \in DOMAIN c.frameConfig |->
                   IF i = b THEN [c.frameConfig[i] EXCEPT !.num_frames = left]
                   ELSE c.frameConfig[i]]
    IN  IF ~c.isConfigCapture THEN c
        ELSE IF left # 0 THEN [c EXCEPT !.frameConfig = cfg]
        ELSE [c EXCEPT !.frameConfig = cfg, !.cur_capture_idx = b,
                       !.expected_frame_id = c.capture_frame_id[b]]

\* Mutant: without memory for the callback node the buffers are forgotten.
Send_Leaks(c, n, mem) ==
    IF ~mem THEN c
    ELSE [c EXCEPT !.sent = Append(@, [node |-> n,
                                       bReadyForPrepareSnapshot |-> c.bWaitForPrepSnapshotDone,
                                       bUnlockAEC |-> c.unLockAEC]),
                   !.unLockAEC = FALSE]

\* mm_channel_send_super_buf: without memory for the callback node the buffers
\* go straight back to the driver.
Send(c, n, mem) ==
    IF ~mem THEN Qbuf(c, Bufs(n))
    ELSE [c EXCEPT !.sent = Append(@, [node |-> n,
                                       bReadyForPrepareSnapshot |-> c.bWaitForPrepSnapshotDone,
                                       bUnlockAEC |-> c.unLockAEC]),
                   !.unLockAEC = FALSE]

WantsSuperbuf(c) == /\ c.pending_cnt > 0 \/ c.attr.notify_mode = "CONTINUOUS"
                    /\ ~c.bWaitForPrepSnapshotDone
                    /\ MatchedHead(c.que) > 0

\* In a config capture a superbuf older than the batch is thrown away.
TooEarly(c) == c.isConfigCapture
               /\ Head(c.que).frame_idx < c.capture_frame_id[c.cur_capture_idx]

Dispatch(c, mem) ==
    LET n == Head(c.que)
        d == [c EXCEPT !.que = Tail(@), !.match_cnt = @ - 1]
        e == CountBurst(d)
    IN  Send(IF c.attr.notify_mode # "BURST" THEN d
             ELSE CountBatch(IF CaptureOver(e) THEN AutoStop(e) ELSE e), n, mem)

\* Mutant: "if" instead of "while".
DispatchAll_Once(c, mem) == IF WantsSuperbuf(c) /\ ~TooEarly(c) THEN Dispatch(c, mem) ELSE c

\* The dispatch loop ends when nothing is wanted or available, or after it has
\* thrown one superbuf away (num_nodes stays 0 and the loop breaks).
Turn(c, mem) == IF WantsSuperbuf(c) /\ ~TooEarly(c) THEN Dispatch(c, mem) ELSE c
DispatchAll(c, mem) ==
    LET after[n \in 0..Len(c.que)] == IF n = 0 THEN c ELSE Turn(after[n - 1], mem)
        d == after[Len(c.que)]
    IN  IF WantsSuperbuf(d) THEN DropHead(d, 1) ELSE d

AfterCommand(c, mem) ==
    LET d == BufdoneOverflow(TriggerZsl(c))
    IN  IF c.stuck THEN c ELSE IF d.stuck THEN d ELSE DispatchAll(d, mem)

-----------------------------------------------------------------------------
(* Client and sensor *)

References(out, s, f) == Cardinality({i \in DOMAIN out.freed : <<s, f>> \in out.freed[i]})
                         + Cardinality({i \in DOMAIN out.sent : <<s, f>> \in Bufs(out.sent[i].node)})

\* The handler ends with channel state c, having taken in the buffers of B.
Commit(c, B) ==
    /\ chan' = [c EXCEPT !.freed = <<>>, !.sent = <<>>]
    /\ sent' = c.sent
    /\ owed' = [s \in Streams |-> [f \in Frames |->
                  owed[s][f] + (IF <<s, f>> \in B THEN 1 ELSE 0) - References(c, s, f)]]

\* The command thread exists from the middle of mm_channel_start to the end of
\* mm_channel_stop; client commands need the channel in state ACTIVE.
ThreadUp == chan.phase # "STOPPED" /\ ~chan.stuck
Running == chan.phase = "ACTIVE" /\ ~chan.stuck

DataCb(s, f, m, mem) ==
    /\ ThreadUp /\ f > seqno[s] /\ f <= Setup.lastFrame
    /\ m = PlainMeta \/ (s = MetaStream /\ f # 0)
    /\ seqno' = [seqno EXCEPT ![s] = f]
    /\ Commit(AfterCommand(CompAndEnqueue(chan, s, f, m, mem), mem), {<<s, f>>})

ReqDataCb(num, retro) ==
    LET few == IF num = 0 \/ retro > num THEN num ELSE retro
        c   == [chan EXCEPT !.pending_cnt = num, !.pending_retro_cnt = few,
                            !.bWaitForPrepSnapshotDone = FALSE,
                            !.needLEDFlash = IF few > 0 THEN FALSE ELSE @,
                            !.stopZslSnapshot = FALSE, !.unLockAEC = FALSE]
    IN  /\ Running
        /\ \E mem \in Setup.mallocs : Commit(AfterCommand(Skip(c), mem), {})
        /\ UNCHANGED seqno

\* Bound: between two CAPTURE_SETTING commands the client asks for fewer superbufs
\* than the batch table has entries, as the HAL does (it ends every capture with one).
Request == \E r \in Setup.requests :
              /\ chan.isConfigCapture => chan.cur_capture_idx + r[1] < MaxBatch
              /\ ReqDataCb(r[1], r[2])
CancelRequest == ReqDataCb(0, 0)

ManualZsl(on) ==
    LET c == [chan EXCEPT !.manualZSLSnapshot = on]
    IN  /\ Running
        /\ \E mem \in Setup.mallocs :
              Commit(AfterCommand(IF on THEN StartZsl(c) ELSE StopZsl(c), mem), {})
        /\ UNCHANGED seqno

ConfigNotify(mode) ==
    /\ Running
    /\ \E mem \in Setup.mallocs :
          Commit(AfterCommand([chan EXCEPT !.attr.notify_mode = mode], mem), {})
    /\ UNCHANGED seqno

\* FLUSH_QUEUE returns without looking at the requests.
FlushQueue(f) ==
    /\ Running
    /\ Commit(Flush([chan EXCEPT !.expected_frame_id = f], Streams), {})
    /\ UNCHANGED seqno

General(c) ==
    /\ Running
    /\ \E mem \in Setup.mallocs : Commit(AfterCommand(c, mem), {})
    /\ UNCHANGED seqno

Bracketing(on) ==
    /\ "BRACKETING" \in Setup.generic
    /\ General([Flush(chan, Streams) EXCEPT
          !.bracketingState = IF on THEN "WAIT_GOOD_FRAME_IDX" ELSE "OFF"])

FlashBracketing(on) ==
    /\ "FLASH_BRACKETING" \in Setup.generic
    /\ General([Flush(chan, Streams) EXCEPT !.isFlashBracketingEnabled = on])

Zoom1x(on) ==
    /\ "ZOOM_1X" \in Setup.generic
    /\ General([Flush(chan, Streams) EXCEPT !.isZoom1xFrameRequested = on])

\* The batches of a capture setting.
CaptureBatches(cfg) == SelectSeq(cfg, LAMBDA b : b.type # "RESET")

\* The memset clears MAX_CAPTURE_BATCH_NUM bytes of an array of 32-bit words.
\* Bound: no more superbufs are asked for than the batch table has entries.
CaptureSetting(cfg) ==
    /\ "CAPTURE_SETTING" \in Setup.generic
    /\ cfg # <<>> => chan.pending_cnt < MaxBatch
    /\ General([chan EXCEPT
          !.isConfigCapture = cfg # <<>>,
          !.frameConfig = CaptureBatches(cfg),
          !.cur_capture_idx = 0,
          !.capture_frame_id = [b \in DOMAIN @ |-> IF b < MaxBatch \div 4 THEN 0 ELSE @[b]]])

-----------------------------------------------------------------------------
(* Sessions: mm_channel_start and mm_channel_stop *)

OwnStreams == Streams \ Setup.linked

\* What survives of the references when the channel's own streams unregister
\* their buffers; those of a linked stream live on in its own channel.
Unregistered(c) == [s \in Streams |-> [f \in Frames |->
                      IF s \in OwnStreams THEN 0 ELSE owed[s][f] - References(c, s, f)]]

\* The queue is initialised and the threads are launched before any stream starts.
\* Frame indices restart with the sensor, unless a linked stream keeps it running.
Start ==
    /\ chan.phase = "STOPPED"
    /\ chan' = [chan EXCEPT !.phase = "STARTING", !.que = <<>>, !.expected_frame_id = 0,
                            !.expected_frame_id_without_led = 0,
                            !.led_off_start_frame_id = 0]
    /\ seqno' = IF Setup.linked = {} THEN [s \in Streams |-> -1] ELSE seqno
    /\ sent' = <<>>
    /\ UNCHANGED owed

StartDone ==
    /\ chan.phase = "STARTING" /\ ~chan.stuck
    /\ chan' = [chan EXCEPT !.phase = "ACTIVE", !.bWaitForPrepSnapshotDone = FALSE]
    /\ sent' = <<>>
    /\ UNCHANGED <<seqno, owed>>

\* Own stream i fails to start: each linked stream is unlinked and the queue is
\* flushed for the type of stream i, then the whole queue object is zeroed.
StartFail(i) ==
    LET c == IF Setup.linked = {} THEN chan ELSE Flush(chan, {i})
    IN  /\ Setup.startMayFail /\ chan.phase = "STARTING" /\ ~chan.stuck
        /\ owed' = Unregistered(c)
        /\ chan' = [c EXCEPT !.freed = <<>>, !.phase = "STOPPED", !.que = <<>>,
                             !.attr = ZeroAttr, !.match_cnt = 0, !.expected_frame_id = 0,
                             !.expected_frame_id_without_led = 0, !.nomatch_frame_id = 0,
                             !.led_off_start_frame_id = 0, !.frame_skip_count = 0,
                             !.once = FALSE, !.bWaitForPrepSnapshotDone = FALSE]
        /\ sent' = <<>>
        /\ UNCHANGED seqno

\* The first linked stream l is unlinked and its buffers are flushed; the loop
\* breaks there.  Then the threads are joined and the queue is dropped.
Stop ==
    \E l \in IF Setup.linked = {} THEN {MetaStream} ELSE Setup.linked :
      LET c == IF Setup.linked = {} THEN chan ELSE Flush(chan, {l})
      IN  /\ Running
          /\ owed' = Unregistered(c)
          /\ chan' = [c EXCEPT !.freed = <<>>, !.phase = "STOPPED", !.que = <<>>,
                               !.match_cnt = 0, !.expected_frame_id = 0]
          /\ sent' = <<>>
          /\ UNCHANGED seqno

-----------------------------------------------------------------------------

InitChan ==
    [phase |-> "STOPPED", que |-> <<>>, match_cnt |-> 0, attr |-> Setup.attr,
     expected_frame_id |-> 0, expected_frame_id_without_led |-> 0,
     nomatch_frame_id |-> 0, diverted_frame_id |-> 0,
     led_off_start_frame_id |-> 0, frame_skip_count |-> 0, once |-> FALSE,
     pending_cnt |-> 0, pending_retro_cnt |-> 0, bWaitForPrepSnapshotDone |-> FALSE,
     unLockAEC |-> FALSE, stopZslSnapshot |-> FALSE,
     manualZSLSnapshot |-> FALSE, startZSlSnapshotCalled |-> FALSE, zslOn |-> FALSE,
     needLEDFlash |-> FALSE, needLowLightZSL |-> FALSE, burstSnapNum |-> 0,
     bracketingState |-> "OFF", isFlashBracketingEnabled |-> FALSE,
     isZoom1xFrameRequested |-> FALSE,
     isConfigCapture |-> FALSE, cur_capture_idx |-> 0,
     capture_frame_id |-> [b \in 0..(MaxBatch - 1) |-> 0], frameConfig |-> <<>>,
     freed |-> <<>>, sent |-> <<>>, stuck |-> FALSE]

Init ==
    /\ scene \in DOMAIN Scenes
    /\ chan = InitChan
    /\ seqno = [s \in Streams |-> -1]
    /\ owed = [s \in Streams |-> [f \in Frames |-> 0]]
    /\ sent = <<>>

Next ==
    /\ UNCHANGED scene
    /\ \/ \E s \in Streams, f \in Frames, m \in Setup.metas, mem \in Setup.mallocs :
             DataCb(s, f, m, mem)
       \/ Request
       \/ CancelRequest
       \/ \E on \in BOOLEAN : "MANUAL_ZSL" \in Setup.generic /\ ManualZsl(on)
       \/ \E mode \in Setup.modes : ConfigNotify(mode)
       \/ \E f \in Setup.flushes : FlushQueue(f)
       \/ \E on \in BOOLEAN : Bracketing(on) \/ FlashBracketing(on) \/ Zoom1x(on)
       \/ \E cfg \in Setup.configs \cup {<<>>} : CaptureSetting(cfg)
       \/ Start
       \/ StartDone
       \/ \E i \in OwnStreams : StartFail(i)
       \/ Stop

Spec == Init /\ [][Next]_vars

-----------------------------------------------------------------------------
(* Properties *)

SlotIds == 0..MaxFrame
NodeType == [frame_idx : 1..MaxFrame, super_buf : [Streams -> SlotIds],
             matched : BOOLEAN, expected : BOOLEAN]

\* The types of the channel's fields.
TypeOK ==
    /\ chan.phase \in {"STOPPED", "STARTING", "ACTIVE"}
    /\ chan.que \in Seq(NodeType)
    /\ chan.attr \in AttrType
    /\ {chan.expected_frame_id, chan.expected_frame_id_without_led} \subseteq Nat
    /\ {chan.pending_cnt, chan.pending_retro_cnt, chan.match_cnt} \subseteq Nat
    /\ chan.freed = <<>> /\ chan.sent = <<>>
    /\ seqno \in [Streams -> -1..MaxFrame]
    /\ owed \in [Streams -> [Frames -> Int]]

\* match_cnt, the counter the overflow and look-back loops run on
\* (mm_camera_channel.c:3053, 3096), is the number of matched nodes in the list.
MatchCountExact == chan.match_cnt = Cardinality(MatchedIn(chan.que))

\* Matched superbufs are ahead of the unmatched ones: a dequeue looks only at the
\* head (mm_camera_channel.c:2919), so one behind an unmatched node is out of reach.
MatchedFirst == \A i, j \in DOMAIN chan.que :
                   i < j /\ chan.que[j].matched => chan.que[i].matched

\* No loop "while (match_cnt > n) dequeue" ever spins on an unmatched head with
\* the queue lock held (mm_camera_channel.c:3053, 3096).
LoopsTerminate == ~chan.stuck

\* Every buffer the channel took in is in exactly one slot of the queue, was given
\* back with qbuf once, or went to the client once: nothing leaks and nothing is
\* returned twice, whichever path of the handlers it took.  A stopped channel holds no
\* buffer of a stream that keeps running in another one (mm_camera_channel.c:1735).
Conservation ==
    IF chan.phase = "STOPPED"
    THEN \A s \in Setup.linked, f \in Frames : owed[s][f] = 0
    ELSE \A s \in Streams, f \in Frames \ {0} :
           owed[s][f] = Cardinality({i \in DOMAIN chan.que : chan.que[i].super_buf[s] = f})

\* The number of unmatched nodes, each holding driver buffers, stays bounded by
\* one more than attr.max_unmatched_frames (mm_camera_channel.c:2797).
UnmatchedBound == Cardinality(Unmatched(chan.que)) <= chan.attr.max_unmatched_frames + 1

\* Superbufs leave in frame order: the matched nodes are sorted by frame index.
MatchedSorted == \A i, j \in MatchedIn(chan.que) :
                    i < j => chan.que[i].frame_idx < chan.que[j].frame_idx

\* Unmatched nodes are in frame order without duplicates: the eviction from
\* last_buf on and the insertion before insert_before_buf rely on it.
UnmatchedSorted == \A i, j \in Unmatched(chan.que) :
                      i < j => chan.que[i].frame_idx < chan.que[j].frame_idx

\* The list is what the handlers take it for: counted exactly, matched nodes first,
\* both kinds in frame order, few unmatched ones, so that no loop over it spins and
\* superbufs leave in order.
ListShape == /\ TypeOK /\ MatchCountExact /\ MatchedFirst /\ MatchedSorted /\ UnmatchedSorted
             /\ UnmatchedBound /\ LoopsTerminate

\* What goes to the client is complete, and but for low priority bundling all its
\* buffers are of one frame.
SentComplete == \A i \in DOMAIN sent : \A s \in Streams :
                   /\ sent[i].node.super_buf[s] # 0
                   /\ chan.attr.low \/ sent[i].node.super_buf[s] = sent[i].node.frame_idx

\* After every command no superbuf that could be dispatched is left behind
\* (mm_camera_channel.c:442): the next command may be long in coming.
NothingWithheld == [][chan.phase = "ACTIVE" /\ chan'.phase = "ACTIVE" /\ ~chan'.isConfigCapture
                        => ~WantsSuperbuf(chan')]_vars

\* The driver's ZSL snapshot mode is on only for a manual ZSL snapshot or for a
\* capture that still waits for superbufs: no path forgets the stop.
ZslStopped == chan.zslOn => \/ chan.manualZSLSnapshot
                            \/ chan.startZSlSnapshotCalled /\ chan.pending_cnt > 0

=============================================================================
