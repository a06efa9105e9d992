------------------------------ MODULE MCPostProc ------------------------------
(* The post processor on captures of every kind, with at most three superbufs.  *)
EXTENDS HalPostProc

Scene(reproc, passes, shots, ppbufs) ==
    [reproc |-> reproc, passes |-> passes, raw |-> FALSE, zsl |-> TRUE, regular |-> FALSE,
     save |-> FALSE, shots |-> shots, ppbufs |-> ppbufs, may |-> {}, cancels |-> FALSE,
     hasty |-> FALSE]
MCScenes ==
    { [Scene(FALSE, 1, 2, 1) EXCEPT !.may = {"encode", "encoder"}, !.cancels = TRUE],
      Scene(FALSE, 1, 2, 1),
      Scene(TRUE, 1, 2, 1),
      [Scene(TRUE, 1, 2, 2) EXCEPT !.may = {"start", "reprocess"}],
      [Scene(TRUE, 2, 1, 1) EXCEPT !.zsl = FALSE, !.cancels = TRUE],
      [Scene(FALSE, 1, 1, 1) EXCEPT !.raw = TRUE, !.may = {"raw"}, !.cancels = TRUE],
      [Scene(TRUE, 1, 1, 1) EXCEPT !.raw = TRUE, !.zsl = FALSE],
      [Scene(TRUE, 1, 1, 1) EXCEPT !.regular = TRUE, !.zsl = FALSE],
      [Scene(FALSE, 1, 1, 1) EXCEPT !.regular = TRUE, !.zsl = FALSE],
      [Scene(TRUE, 1, 2, 2) EXCEPT !.save = TRUE, !.cancels = TRUE],
      [Scene(FALSE, 1, 1, 1) EXCEPT !.cancels = TRUE, !.hasty = TRUE] }
===============================================================================
