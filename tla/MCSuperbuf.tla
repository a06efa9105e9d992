------------------------------ MODULE MCSuperbuf ------------------------------
(* One image stream and its metadata under the captures the HAL makes. *)
EXTENDS MmSuperbufQueue

CONSTANTS snap, meta
MCStreams == {snap, meta}

BurstAttr == [notify_mode |-> "BURST", water_mark |-> 2, look_back |-> 2,
              post_frame_skip |-> 1, max_unmatched_frames |-> 1, low |-> FALSE]
Plain == [linked |-> {}, attr |-> BurstAttr, modes |-> {}, metas |-> {PlainMeta},
          requests |-> {<<2, 0>>}, flushes |-> {}, generic |-> {}, configs |-> {},
          mallocs |-> {TRUE}, startMayFail |-> FALSE, lastFrame |-> 3]

\* ZSL capture: bursts with look-back, mode changes, manual ZSL, zoom, failures.
Zsl == [Plain EXCEPT
    !.attr.water_mark = 1, !.attr.look_back = 1, !.modes = {"BURST", "CONTINUOUS"},
    !.metas = {PlainMeta, [PlainMeta EXCEPT !.crop1x = TRUE]},
    !.requests = {<<1, 0>>, <<2, 1>>}, !.flushes = {0, 2},
    !.generic = {"MANUAL_ZSL", "ZOOM_1X"}, !.mallocs = BOOLEAN, !.startMayFail = TRUE,
    !.lastFrame = 4]

\* Live snapshot: low priority bundling in continuous mode, with the metadata
\* stream linked from the preview channel.
Live == [Plain EXCEPT
    !.linked = {meta},
    !.attr = [BurstAttr EXCEPT !.notify_mode = "CONTINUOUS", !.water_mark = 1,
                               !.look_back = 1, !.post_frame_skip = 0, !.low = TRUE],
    !.requests = {<<1, 0>>, <<2, 1>>}, !.flushes = {0, 2}, !.mallocs = BOOLEAN,
    !.lastFrame = 4]

\* Flash and flash bracketing: the metadata stream steers the matching.
GoodRange(lo, hi) == [NoRange EXCEPT !.min = lo, !.max = hi, !.skip = 1]
FlashCapture == [Plain EXCEPT
    !.attr.look_back = 1,
    !.metas = {PlainMeta,
               [PlainMeta EXCEPT !.prep = "NEED_FUTURE_FRAME"],
               [PlainMeta EXCEPT !.prep = "DONE", !.range = GoodRange(2, 3), !.divert = 2]},
    !.requests = {<<2, 1>>}, !.generic = {"FLASH_BRACKETING"}]

\* AE/AF bracketing and frame configurations made of batches.
Batch(min, b) == [PlainMeta EXCEPT !.range = [NoRange EXCEPT !.min = min, !.max = min, !.batch = b]]
Config(t) == [type |-> t, num_frames |-> 1]
Batches == [Plain EXCEPT
    !.metas = {PlainMeta, Batch(2, 0), [Batch(3, 1) EXCEPT !.lowlight = "on"]},
    !.requests = {<<1, 0>>}, !.generic = {"BRACKETING", "CAPTURE_SETTING"},
    !.configs = {<<Config("BRACKETING"), Config("RESET"), Config("LOW_LIGHT")>>}]

MCScenes == [zsl |-> Zsl, live |-> Live, flash |-> FlashCapture, batches |-> Batches]

===============================================================================
