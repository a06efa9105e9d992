-------------------------------- MODULE MCHal --------------------------------
(* Clients of the HAL1 interface: a viewfinder, a photographer, a camcorder. *)
EXTENDS HalStateMachine

CONSTANTS client, intpic

Simple(es) == {<<e, "none">> : e \in es}
Params(ps) == {<<"SET_PARAMS", p>> : p \in ps}
Nothing == [c \in Callers |-> {}]
By(calls) == [c \in Callers |-> IF c = client THEN calls ELSE {}]

Quiet == [calls |-> Nothing, start |-> "photo", may |-> {}, restart |-> FALSE, flash |-> FALSE,
          polite |-> FALSE, dies |-> FALSE, closes |-> FALSE]

\* A preview is prepared, shown, changed and stopped, and each step may fail.
Viewfinder == [Quiet EXCEPT
    !.calls = By(Simple({"PREPARE_PREVIEW", "START_PREVIEW", "START_NODISPLAY_PREVIEW",
                         "STOP_PREVIEW", "PREVIEW_ENABLED", "GET_PARAMS", "ENABLE_MSG_TYPE",
                         "DISABLE_MSG_TYPE", "RELEASE", "START_AUTO_FOCUS"})
                 \cup {<<"SET_PREVIEW_WINDOW", "window">>, <<"SET_PREVIEW_WINDOW", "none">>}
                 \cup Params({"photo", "zsl", "video"})),
    !.may = {"configure", "add", "start", "defer"}, !.closes = TRUE, !.dies = TRUE]

\* Pictures with zero shutter lag, with flash and in longshot, cancelled at any time.
Zsl == [Quiet EXCEPT
    !.calls = By(Simple({"STOP_PREVIEW", "CANCEL_PICTURE", "START_NODISPLAY_PREVIEW",
                         "ENABLE_MSG_TYPE", "DISABLE_MSG_TYPE", "START_RECORDING", "DUMP"})
                 \cup {<<"TAKE_PICTURE", "none">>,
                       <<"SEND_COMMAND", "LONGSHOT_ON">>, <<"SEND_COMMAND", "LONGSHOT_OFF">>}),
    !.start = "zsl", !.flash = TRUE, !.may = {"advanced", "request", "ioctl"}]

\* Retroactive pictures: the picture first, the preparation after.
Retro == [Quiet EXCEPT
    !.calls = By(Simple({"START_NODISPLAY_PREVIEW", "SEND_COMMAND"})
                 \cup {<<"TAKE_PICTURE", "retro">>, <<"TAKE_PICTURE", "none">>}),
    !.start = "zsl", !.flash = TRUE, !.polite = TRUE,
    !.may = {"advanced", "request"}]

\* Pictures taken instead of the preview.
Photo == [Quiet EXCEPT
    !.calls = By(Simple({"STOP_PREVIEW", "CANCEL_PICTURE", "START_NODISPLAY_PREVIEW",
                         "RELEASE", "DUMP"}) \cup {<<"TAKE_PICTURE", "none">>}),
    !.flash = TRUE, !.may = {"advanced", "start", "configure"}]

\* Recording, with pictures meanwhile.
Camcorder == [Quiet EXCEPT
    !.calls = By(Simple({"STOP_PREVIEW", "CANCEL_PICTURE", "START_NODISPLAY_PREVIEW",
                         "START_RECORDING", "STOP_RECORDING", "RELEASE_RECORIDNG_FRAME",
                         "DUMP"})
                 \cup {<<"TAKE_PICTURE", "none">>} \cup Params({"video"})),
    !.start = "photo", !.may = {"thread"}]

\* The HAL takes a picture for itself while the client uses the preview.
Internal == [Quiet EXCEPT
    !.calls = [c \in Callers |-> IF c = client
               THEN Simple({"START_NODISPLAY_PREVIEW", "STOP_PREVIEW", "CANCEL_PICTURE"})
               ELSE {<<"TAKE_PICTURE", "internal">>}],
    !.start = "zsl", !.may = {"advanced", "request"}]

\* A device that shows the preview again as soon as post processing has the picture.
Restarting == [Photo EXCEPT !.restart = TRUE, !.may = {"advanced"},
    !.calls = By(Simple({"START_NODISPLAY_PREVIEW", "DUMP"}) \cup {<<"TAKE_PICTURE", "none">>})]

\* A retroactive picture right after another picture was cancelled.
Cancelled == [cancelled |-> [Retro EXCEPT
    !.calls = By(Simple({"START_NODISPLAY_PREVIEW", "CANCEL_PICTURE"})
                 \cup {<<"TAKE_PICTURE", "retro">>})]]

MCScenes ==
    [viewfinder |-> Viewfinder, zsl |-> Zsl, retro |-> Retro, photo |-> Photo, camcorder |-> Camcorder,
     internal |-> Internal, restarting |-> Restarting]
===============================================================================
