------------------------------ MODULE MCStream ------------------------------
(* A stream of two buffers in its different roles. *)
EXTENDS MmStream

CONSTANTS b1, b2, main, extra
TwoBufs == {b1, b2}
MCSlots == {main, extra}
Forever == {-1}
=============================================================================
