---------------------------- MODULE MCPollThread ----------------------------
(* A channel with two streams and its data poll thread. *)
EXTENDS MmPollThread

CONSTANTS s1, s2
TwoStreams == {s1, s2}
=============================================================================
