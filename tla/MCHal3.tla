------------------------------- MODULE MCHal3 -------------------------------
(* Camera applications on HAL3: what they ask for and what goes wrong.         *)
EXTENDS Hal3Requests

Quiet == [kinds |-> {"live"}, frames |-> 3, min |-> 2, max |-> 3, batch |-> 0, flush |-> FALSE, alone |-> FALSE,
          pulls |-> FALSE, may |-> {}]

\* Pictures from a preview, flushed at any time; pictures with frames dropped.
Still == [Quiet EXCEPT !.kinds = {"live", "shot"}, !.flush = TRUE]
Dropping == [Quiet EXCEPT !.kinds = {"live", "shot"}, !.may = {"drop"}]

\* A daemon that asks for more requests than it answers.
Deep == [Quiet EXCEPT !.kinds = {"live"}, !.frames = 4, !.pulls = TRUE]

\* Pictures made from earlier frames, one at a time, while the preview goes on.
Reprocess == [Quiet EXCEPT !.kinds = {"live", "reproc"}, !.frames = 4, !.alone = TRUE, !.pulls = TRUE]

\* High frame rate video: frames go to the daemon two by two.
HighSpeed == [Quiet EXCEPT !.kinds = {"video"}, !.frames = 4, !.batch = 2, !.min = 3, !.max = 4,
                           !.may = {"drop"}]

\* A daemon that skips frames or dies, with flushes meanwhile.
Failing == [Quiet EXCEPT !.flush = TRUE, !.may = {"lose", "die", "start"}]

\* A stream whose settings need a restart of the sensor when nothing is pending.
Sensor == [Quiet EXCEPT !.alone = TRUE, !.may = {"sensor"}]

\* Channels that refuse a buffer, and a support channel that does not start.
Refusing == [Quiet EXCEPT !.kinds = {"live", "shot"}, !.frames = 2, !.flush = TRUE,
                          !.may = {"request", "support"}]

MCScenes == [still |-> Still, dropping |-> Dropping, deep |-> Deep, reprocess |-> Reprocess,
             highspeed |-> HighSpeed, failing |-> Failing, sensor |-> Sensor,
             refusing |-> Refusing]
===============================================================================
