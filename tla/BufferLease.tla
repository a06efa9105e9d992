---------------------------- MODULE BufferLease ----------------------------
(***************************************************************************)
(* What mm_camera_stream.c promises about the buffers of a stream: between *)
(* REG_BUF and UNREG_BUF a buffer is either in the driver's queue, which   *)
(* fills it, or out on the HAL's side, where it may be read; references    *)
(* are handed out only on the HAL's side, and the buffer goes back to the  *)
(* driver only with the last of them.                                      *)
(***************************************************************************)
EXTENDS Naturals

CONSTANT Bufs

VARIABLES
    owner,   \* "none", "driver" or "hal", per buffer
    refs     \* references handed out, per buffer

leaseVars == <<owner, refs>>

LeaseInit == owner = [b \in Bufs |-> "none"] /\ refs = [b \in Bufs |-> 0]

\* The upper layer keeps one reference to each buffer it does not give away at once.
Register(kept) ==
    /\ \A b \in Bufs : owner[b] = "none"
    /\ owner' = [b \in Bufs |-> IF b \in kept THEN "hal" ELSE "driver"]
    /\ refs' = [b \in Bufs |-> IF b \in kept THEN 1 ELSE 0]

Unregister ==
    /\ \A b \in Bufs : owner[b] # "none"
    /\ owner' = [b \in Bufs |-> "none"]
    /\ refs' = [b \in Bufs |-> 0]

Deliver(b) ==
    /\ owner[b] = "driver"
    /\ owner' = [owner EXCEPT ![b] = "hal"]
    /\ UNCHANGED refs

\* One reference or several at a time.
Take(b) ==
    /\ owner[b] = "hal"
    /\ refs'[b] > refs[b] /\ refs' = [refs EXCEPT ![b] = refs'[b]]
    /\ UNCHANGED owner

\* The driver may refuse the buffer.
Drop(b) ==
    /\ owner[b] = "hal" /\ refs[b] > 0
    /\ refs' = [refs EXCEPT ![b] = @ - 1]
    /\ \/ UNCHANGED owner
       \/ refs[b] = 1 /\ owner' = [owner EXCEPT ![b] = "driver"]

\* The driver drops its queue when the stream is turned off.
Recall ==
    /\ owner' = [b \in Bufs |-> IF owner[b] = "driver" THEN "hal" ELSE owner[b]]
    /\ UNCHANGED refs

LeaseNext ==
    \/ \E kept \in SUBSET Bufs : Register(kept)
    \/ Unregister
    \/ \E b \in Bufs : Deliver(b) \/ Take(b) \/ Drop(b)
    \/ Recall

LeaseSpec == LeaseInit /\ [][LeaseNext]_leaseVars
=============================================================================
