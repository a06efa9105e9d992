--------------------------- MODULE MmStreamProofs ---------------------------
(***************************************************************************)
(* The reference counts of a stream are exact, for any number of buffers   *)
(* and callbacks.                                                          *)
(***************************************************************************)
EXTENDS MmStream, FiniteSetTheorems, TLAPS

\* How the HAL uses a stream: asynchronous callbacks have no count that runs out, and a
\* stream that another channel links is not bundled in its own.
Benign ==
    /\ RegCounts \subseteq {-1}
    /\ ~(Bundled /\ MayLink)

Session == state = "ACTIVE" \/ (state = "REG" /\ api = "idle")

\* Where the API thread is agrees with the state, and so do the driver and the poll thread;
\* once the fd is deleted, it takes a buffer that comes back to have it polled again.
ApiInv ==
    /\ api \notin {"idle", "stopped"} => state = "ACTIVE"
    /\ api = "stopped" => state = "REG"
    /\ streaming => state = "ACTIVE" /\ api \in {"idle", "stop_sync", "stop_off"}
    /\ api \in {"stop_sync", "stop_off"} /\ polled => readded
    /\ note # "idle" => /\ readded \/ (state = "ACTIVE" /\ api \in {"idle", "stop_sync"})
                        /\ ~(state = "REG" /\ api = "idle")
    /\ is_linked => MayLink

\* The command thread runs only while a callback is registered, and is gone with its
\* queue when the stream is not active.
ThreadInv ==
    /\ \A s \in Slots : cb[s] \in {-1, 0}
    /\ state # "ACTIVE" => ~cmd_active
    /\ cmd_active => \E s \in Slots : cb[s] # 0
    /\ \A b \in Bufs : app[b] > 0 => cmd_active
    /\ disp # NoBuf => app[disp] > 0
    /\ api = "stop_end" => \A s \in Slots : cb[s] = 0

\* The client holds no buffer that is not registered; before START nobody else does.
HeldInv ==
    \A b \in Bufs :
       /\ ~Registered => client[b] = 0
       /\ state = "REG" /\ api = "idle" => bundle[b] + link[b] + lost[b] = 0

\* The counts are exact while the stream runs, and zero in the driver.
CountInv ==
    /\ Session => \A b \in Bufs : refcnt[b] = Holders(b) /\ (b \in drv => refcnt[b] = 0)
    /\ NotShared

\* A frame data_notify has not handed to anybody yet is nobody else's.
FreshInv ==
    note \in {"read", "dispatched", "counted"} \/ (note = "notified" /\ ~Bundled) =>
       /\ buf_info \notin drv
       /\ bundle[buf_info] + link[buf_info] + client[buf_info] + app[buf_info] = 0

IInv == TypeOK /\ ApiInv /\ ThreadInv /\ HeldInv /\ CountInv /\ FreshInv

\* A stream has finitely many callbacks registered, so their references can be counted.
LEMMA CallbacksCount == Cardinality(Callbacks) \in Nat
<1>1. Callbacks \subseteq Slots BY DEF Callbacks
<1>2. IsFiniteSet(Callbacks) BY <1>1, FS_Subset, StreamConstantsOK
<1> QED BY <1>2, FS_CardinalityType

\* What BufDone does to the counts and the driver's queue.
LEMMA BufDoneEffect ==
    ASSUME TypeOK, NEW b \in Bufs, BufDone(b)
    PROVE  /\ streaming' = streaming /\ drv' \subseteq Bufs /\ queued' \in Int
           /\ polled' \in BOOLEAN /\ in_kernel' \in [Bufs -> BOOLEAN]
           /\ refcnt' \in [Bufs -> Nat]
           /\ refcnt[b] > 0 => refcnt' = [refcnt EXCEPT ![b] = @ - 1]
           /\ drv' = drv \/ (refcnt[b] = 1 /\ drv' = drv \cup {b})
           /\ readded' \in BOOLEAN /\ (readded => readded')
           /\ polled' => polled \/ readded' \/ api \notin {"stop_sync", "stop_off"}
<1> USE DEF TypeOK
<1> DEFINE left == IF refcnt[b] = 0 THEN 0 ELSE refcnt[b] - 1
<1>a. left \in Nat /\ (refcnt[b] > 0 => left = refcnt[b] - 1)
  OBVIOUS
<1>b. refcnt' = [refcnt EXCEPT ![b] = left]
  BY DEF BufDone
<1> HIDE DEF left
<1>1. /\ refcnt' \in [Bufs -> Nat]
      /\ refcnt[b] > 0 => refcnt' = [refcnt EXCEPT ![b] = refcnt[b] - 1]
  BY <1>a, <1>b
<1>2. CASE refcnt[b] # 1
  BY <1>1, <1>2 DEF BufDone
<1>3. CASE refcnt[b] = 1 /\ QbufOk(b)
  BY <1>1, <1>3 DEF BufDone, QbufOk
<1>4. CASE refcnt[b] = 1 /\ QbufFails
  <2>1. polled' = polled \/ polled' = (polled /\ queued # 0)
    BY <1>4 DEF QbufFails
  <2>2. polled \in BOOLEAN
    OBVIOUS
  <2>3. polled' \in BOOLEAN /\ (polled' => polled)
    <3> HIDE DEF TypeOK
    <3>1. (polled /\ queued # 0) \in BOOLEAN
      OBVIOUS
    <3>2. CASE polled' = polled
      BY <2>2, <3>2
    <3>3. CASE polled' = (polled /\ queued # 0)
      BY <3>1, <3>3
    <3> QED BY <2>1, <3>2, <3>3
  <2> QED BY <1>1, <1>4, <2>3 DEF BufDone, QbufFails
<1> QED BY <1>2, <1>3, <1>4 DEF BufDone

\* What a QBUF event does: nothing outside ACTIVE, one reference less inside.
LEMMA QbufEffect ==
    ASSUME TypeOK, NEW b \in Bufs, Qbuf(b)
    PROVE  /\ UNCHANGED <<state, api, mapped, cb, cmd_active, streaming, note, buf_info,
                          has_cb, app, disp, is_linked, lost>>
           /\ drv' \subseteq Bufs /\ queued' \in Int
           /\ polled' \in BOOLEAN /\ in_kernel' \in [Bufs -> BOOLEAN]
           /\ refcnt' \in [Bufs -> Nat]
           /\ state # "ACTIVE" => UNCHANGED <<drv, refcnt>>
           /\ state = "ACTIVE" /\ refcnt[b] > 0 => refcnt' = [refcnt EXCEPT ![b] = @ - 1]
           /\ drv' = drv \/ (state = "ACTIVE" /\ refcnt[b] = 1 /\ drv' = drv \cup {b})
           /\ readded' \in BOOLEAN /\ (readded => readded')
           /\ polled' => polled \/ readded' \/ api \notin {"stop_sync", "stop_off"}
<1>1. CASE state = "ACTIVE"
  BY <1>1, BufDoneEffect DEF Qbuf, notify
<1>2. CASE state # "ACTIVE"
  BY <1>2 DEF Qbuf, notify, kern, TypeOK
<1> QED BY <1>1, <1>2

\* Without holders a buffer has no reader.
LEMMA NoHolderNoReader ==
    ASSUME TypeOK', NEW b \in Bufs, Holders(b)' = 0
    PROVE  (bundle[b] + link[b] + client[b] + app[b])' = 0
<1>1. Pending(b)' \in Nat
  BY DEF TypeOK, Pending, OwnRefs
<1>2. /\ bundle'[b] \in Nat /\ link'[b] \in Nat /\ client'[b] \in Nat /\ app'[b] \in Nat
      /\ lost'[b] \in Nat
  BY DEF TypeOK
<1>3. bundle'[b] + link'[b] + client'[b] + app'[b] + Pending(b)' + lost'[b] = 0
  BY DEF Holders
<1> HIDE DEF Pending
<1> QED BY <1>1, <1>2, <1>3

\* Exact counts keep the readers and the driver apart.
LEMMA ExactSuffices ==
    ASSUME TypeOK', \A b \in Bufs : (refcnt[b] = Holders(b) /\ (b \in drv => refcnt[b] = 0))'
    PROVE  CountInv'
<1>1. \A b \in drv' : b \in Bufs /\ Holders(b)' = 0
  BY DEF TypeOK
<1>2. NotShared'
  BY <1>1, NoHolderNoReader DEF NotShared
<1> QED BY <1>2 DEF CountInv

GoesBack(b) == drv' = drv \/ (refcnt[b] = 1 /\ drv' = drv \cup {b})

\* A holder of b gives its reference back.
LEMMA GiveBack ==
    ASSUME TypeOK, TypeOK', CountInv, Session, NEW b \in Bufs, 
           Holders(b) > 0, Holders(b)' = Holders(b) - 1,
           \A x \in Bufs \ {b} : Holders(x)' = Holders(x),
           refcnt' = [refcnt EXCEPT ![b] = @ - 1], GoesBack(b)
    PROVE  CountInv'
<1>1. /\ refcnt \in [Bufs -> Nat]
      /\ \A x \in Bufs : refcnt[x] = Holders(x) /\ (x \in drv => refcnt[x] = 0)
  BY DEF CountInv, TypeOK
<1>2. ASSUME NEW x \in Bufs PROVE refcnt'[x] = Holders(x)' /\ (x \in drv' => refcnt'[x] = 0)
  <2>1. CASE x = b
    BY <1>1, <2>1 DEF GoesBack
  <2>2. CASE x # b
    BY <1>1, <2>2 DEF GoesBack
  <2> QED BY <2>1, <2>2
<1> QED BY <1>2, ExactSuffices

\* Every step keeps the types; a count is lowered only by a holder.
LEMMA TypeStep == Benign /\ IInv /\ [Next]_vars => TypeOK'
<1> SUFFICES ASSUME Benign, IInv, [Next]_vars PROVE TypeOK'
  OBVIOUS
<1> USE StreamConstantsOK DEF Benign, IInv, TypeOK, ApiInv, ThreadInv, States, ApiPcs,
   NotePcs
<1>1. ASSUME AddStream PROVE TypeOK'
  BY <1>1 DEF AddStream, Fsm, Outcomes, held, kern, notify
<1>2. ASSUME SetFmt PROVE TypeOK'
  BY <1>2 DEF SetFmt, Fsm, held, kern, notify
<1>3. ASSUME Release PROVE TypeOK'
  BY <1>3 DEF Release, Fsm, Zero, held, kern, notify
<1>4. ASSUME GetBuf PROVE TypeOK'
  BY <1>4 DEF GetBuf, Fsm, Outcomes, Zero, held, kern, notify
<1>5. ASSUME PutBuf PROVE TypeOK'
  BY <1>5 DEF PutBuf, Fsm, Zero, held, kern, notify
<1>6. ASSUME RegBuf PROVE TypeOK'
  <2>1. drv' \subseteq Bufs /\ queued' \in Nat
    <3>1. drv' \subseteq Bufs
      BY <1>6 DEF RegBuf
    <3> QED BY <1>6, <3>1, FS_Subset, FS_CardinalityType DEF RegBuf
  <2>2. refcnt' \in [Bufs -> Nat] /\ in_kernel' \in [Bufs -> BOOLEAN] /\ polled' \in BOOLEAN
    BY <1>6 DEF RegBuf
  <2> QED BY <1>6, <2>1, <2>2 DEF RegBuf, Fsm, Zero, notify
<1>7. ASSUME UnregBuf PROVE TypeOK'
  BY <1>7 DEF UnregBuf, Zero, held, kern, notify
<1>8. ASSUME NEW done \in SUBSET Bufs, RegBufFails(done) PROVE TypeOK'
  <2>1. drv' \subseteq Bufs /\ queued' \in Nat
    <3>1. drv' \subseteq Bufs
      BY <1>8 DEF RegBufFails
    <3> QED BY <1>8, <3>1, FS_Subset, FS_CardinalityType DEF RegBufFails
  <2>2. refcnt' \in [Bufs -> Nat] /\ in_kernel' \in [Bufs -> BOOLEAN] /\ polled' \in BOOLEAN
    BY <1>8 DEF RegBufFails
  <2> QED BY <1>8, <2>1, <2>2 DEF RegBufFails, Settled, Fsm, notify, held
<1>9. ASSUME StartBegin PROVE TypeOK'
  BY <1>9 DEF StartBegin, Fsm, HasCb, Zero, held, kern, notify
<1>10. ASSUME StreamOnWait PROVE TypeOK'
  BY <1>10 DEF StreamOnWait, held, kern, notify
<1>11. ASSUME StreamOn PROVE TypeOK'
  BY <1>11 DEF StreamOn, held, kern, notify
<1>12. ASSUME StreamOnFails PROVE TypeOK'
  BY <1>12 DEF StreamOnFails, HasCb, Zero, held, kern, notify
<1>13. ASSUME StopBegin PROVE TypeOK'
  BY <1>13 DEF StopBegin, held, kern, notify
<1>14. ASSUME StopSynced PROVE TypeOK'
  BY <1>14 DEF StopSynced, held, kern, notify
<1>15. ASSUME StreamOff PROVE TypeOK'
  BY <1>15 DEF StreamOff, HasCb, held, kern, notify
<1>16. ASSUME StopEnd PROVE TypeOK'
  BY <1>16 DEF StopEnd, Zero, held, kern, notify
<1>17. ASSUME NEW b \in Bufs, NEW ok \in Outcomes, MapBuf(b, ok) PROVE TypeOK'
  BY <1>17 DEF MapBuf, Outcomes, held, kern, notify
<1>18. ASSUME Wake PROVE TypeOK'
  BY <1>18 DEF Wake, held, kern, notify
<1>19. ASSUME NothingToRead PROVE TypeOK'
  BY <1>19 DEF NothingToRead, NotifyReturns, held, kern, notify
<1>20. ASSUME CountRefs PROVE TypeOK'
  BY <1>20 DEF CountRefs, OwnRefs, held, kern, notify
<1>21. ASSUME NotifyChannel PROVE TypeOK'
  BY <1>21 DEF NotifyChannel, OwnRefs, Allocs, held, kern, notify
<1>22. ASSUME NotifyLinked PROVE TypeOK'
  BY <1>22 DEF NotifyLinked, Allocs, held, kern, notify
<1>23. ASSUME EnqueueApp PROVE TypeOK'
  BY <1>23 DEF EnqueueApp, Allocs, NotifyReturns, held, kern, notify
<1>24. ASSUME NEW b \in Bufs, ReadFrame(b) PROVE TypeOK'
  BY <1>24 DEF ReadFrame, Outcomes, NotifyReturns, held, kern, notify
<1>25. ASSUME NEW b \in Bufs, AppCall(b) PROVE TypeOK'
  BY <1>25, CallbacksCount DEF AppCall, held, kern, notify
<1>26. ASSUME AppDone PROVE TypeOK'
  BY <1>26, BufDoneEffect DEF AppDone, held, kern, notify
<1>27. ASSUME NEW b \in Bufs, BundleReturn(b) PROVE TypeOK'
  BY <1>27, QbufEffect DEF BundleReturn, held, kern, notify
<1>28. ASSUME NEW b \in Bufs, LinkReturn(b) PROVE TypeOK'
  BY <1>28, QbufEffect DEF LinkReturn, held, kern, notify
<1>29. ASSUME NEW b \in Bufs, ClientReturn(b) PROVE TypeOK'
  BY <1>29, QbufEffect DEF ClientReturn, held, kern, notify
<1>30. ASSUME NEW on \in BOOLEAN, SetLinked(on) PROVE TypeOK'
  BY <1>30 DEF SetLinked, held, kern, notify
<1>31. ASSUME NEW s \in Slots, NEW n \in RegCounts, RegisterCb(s, n) PROVE TypeOK'
  BY <1>31 DEF RegisterCb, held, kern, notify
<1>32. CASE UNCHANGED vars
  BY <1>32 DEF vars, held, kern, notify
<1>33. ASSUME DispatchSync PROVE TypeOK'
  BY <1>33 DEF DispatchSync, HasCb, held, kern, notify
<1> QED BY <1>1, <1>2, <1>3, <1>4, <1>5, <1>6, <1>7, <1>8, <1>9, <1>10, <1>11, <1>12, <1>13,
   <1>14, <1>15, <1>16, <1>17, <1>18, <1>19, <1>20, <1>21, <1>22, <1>23, <1>24, <1>25,
   <1>26, <1>27, <1>28, <1>29, <1>30, <1>31, <1>32, <1>33 DEF Next, Setup, StartSteps,
   StopSteps, NotifySteps

\* Every step keeps the API thread, the state and the poll thread in agreement.
LEMMA ApiStep == Benign /\ IInv /\ [Next]_vars => ApiInv'
<1> SUFFICES ASSUME Benign, IInv, [Next]_vars PROVE ApiInv'
  OBVIOUS
<1> USE StreamConstantsOK DEF Benign, IInv, TypeOK, ApiInv, States, ApiPcs, NotePcs
<1>1. ASSUME AddStream PROVE ApiInv'
  BY <1>1 DEF AddStream, Fsm, Outcomes, held, kern, notify
<1>2. ASSUME SetFmt PROVE ApiInv'
  BY <1>2 DEF SetFmt, Fsm, held, kern, notify
<1>3. ASSUME Release PROVE ApiInv'
  BY <1>3 DEF Release, Fsm, Zero, held, kern, notify
<1>4. ASSUME GetBuf PROVE ApiInv'
  BY <1>4 DEF GetBuf, Fsm, Outcomes, Zero, held, kern, notify
<1>5. ASSUME PutBuf PROVE ApiInv'
  BY <1>5 DEF PutBuf, Fsm, Zero, held, kern, notify
<1>6. ASSUME RegBuf PROVE ApiInv'
  BY <1>6 DEF RegBuf, Settled, Fsm, Zero, held, kern, notify
<1>7. ASSUME UnregBuf PROVE ApiInv'
  BY <1>7 DEF UnregBuf, Zero, held, kern, notify
<1>8. ASSUME NEW done \in SUBSET Bufs, RegBufFails(done) PROVE ApiInv'
  BY <1>8 DEF RegBufFails, Settled, Fsm, held, kern, notify
<1>9. ASSUME StartBegin PROVE ApiInv'
  BY <1>9 DEF StartBegin, Fsm, HasCb, Zero, held, kern, notify
<1>10. ASSUME StreamOnWait PROVE ApiInv'
  BY <1>10 DEF StreamOnWait, held, kern, notify
<1>11. ASSUME StreamOn PROVE ApiInv'
  BY <1>11 DEF StreamOn, held, kern, notify
<1>12. ASSUME StreamOnFails PROVE ApiInv'
  BY <1>12 DEF StreamOnFails, HasCb, Zero, held, kern, notify
<1>13. ASSUME StopBegin PROVE ApiInv'
  BY <1>13 DEF StopBegin, held, kern, notify
<1>14. ASSUME StopSynced PROVE ApiInv'
  BY <1>14 DEF StopSynced, held, kern, notify
<1>15. ASSUME StreamOff PROVE ApiInv'
  BY <1>15 DEF StreamOff, HasCb, held, kern, notify
<1>16. ASSUME StopEnd PROVE ApiInv'
  BY <1>16 DEF StopEnd, Zero, held, kern, notify
<1>17. ASSUME NEW b \in Bufs, NEW ok \in Outcomes, MapBuf(b, ok) PROVE ApiInv'
  BY <1>17 DEF MapBuf, Outcomes, held, kern, notify
<1>18. ASSUME Wake PROVE ApiInv'
  BY <1>18 DEF Wake, held, kern, notify
<1>19. ASSUME NothingToRead PROVE ApiInv'
  BY <1>19 DEF NothingToRead, NotifyReturns, held, kern, notify
<1>20. ASSUME CountRefs PROVE ApiInv'
  BY <1>20 DEF CountRefs, OwnRefs, held, kern, notify
<1>21. ASSUME NotifyChannel PROVE ApiInv'
  BY <1>21 DEF NotifyChannel, OwnRefs, Allocs, held, kern, notify
<1>22. ASSUME NotifyLinked PROVE ApiInv'
  BY <1>22 DEF NotifyLinked, Allocs, held, kern, notify
<1>23. ASSUME EnqueueApp PROVE ApiInv'
  BY <1>23 DEF EnqueueApp, Allocs, NotifyReturns, held, kern, notify
<1>24. ASSUME NEW b \in Bufs, ReadFrame(b) PROVE ApiInv'
  BY <1>24 DEF ReadFrame, Outcomes, NotifyReturns, held, kern, notify
<1>25. ASSUME NEW b \in Bufs, AppCall(b) PROVE ApiInv'
  BY <1>25, CallbacksCount DEF AppCall, held, kern, notify
<1>26. ASSUME AppDone PROVE ApiInv'
  BY <1>26, BufDoneEffect DEF AppDone, held, kern, notify
<1>27. ASSUME NEW b \in Bufs, BundleReturn(b) PROVE ApiInv'
  BY <1>27, QbufEffect DEF BundleReturn, held, kern, notify
<1>28. ASSUME NEW b \in Bufs, LinkReturn(b) PROVE ApiInv'
  BY <1>28, QbufEffect DEF LinkReturn, held, kern, notify
<1>29. ASSUME NEW b \in Bufs, ClientReturn(b) PROVE ApiInv'
  BY <1>29, QbufEffect DEF ClientReturn, held, kern, notify
<1>30. ASSUME NEW on \in BOOLEAN, SetLinked(on) PROVE ApiInv'
  BY <1>30 DEF SetLinked, held, kern, notify
<1>31. ASSUME NEW s \in Slots, NEW n \in RegCounts, RegisterCb(s, n) PROVE ApiInv'
  BY <1>31 DEF RegisterCb, held, kern, notify
<1>32. CASE UNCHANGED vars
  BY <1>32 DEF vars, held, kern, notify
<1>33. ASSUME DispatchSync PROVE ApiInv'
  BY <1>33 DEF DispatchSync, HasCb, held, kern, notify
<1> QED BY <1>1, <1>2, <1>3, <1>4, <1>5, <1>6, <1>7, <1>8, <1>9, <1>10, <1>11, <1>12, <1>13,
   <1>14, <1>15, <1>16, <1>17, <1>18, <1>19, <1>20, <1>21, <1>22, <1>23, <1>24, <1>25,
   <1>26, <1>27, <1>28, <1>29, <1>30, <1>31, <1>32, <1>33 DEF Next, Setup, StartSteps,
   StopSteps, NotifySteps

\* Every step keeps the command thread and its queue tied to the callbacks.
LEMMA ThreadStep == Benign /\ IInv /\ [Next]_vars => ThreadInv'
<1> SUFFICES ASSUME Benign, IInv, [Next]_vars PROVE ThreadInv'
  OBVIOUS
<1> USE StreamConstantsOK DEF Benign, IInv, TypeOK, ApiInv, ThreadInv, States, ApiPcs,
   NotePcs
<1>1. ASSUME AddStream PROVE ThreadInv'
  BY <1>1 DEF AddStream, Fsm, Outcomes, held, kern, notify
<1>2. ASSUME SetFmt PROVE ThreadInv'
  BY <1>2 DEF SetFmt, Fsm, held, kern, notify
<1>3. ASSUME Release PROVE ThreadInv'
  BY <1>3 DEF Release, Fsm, Zero, held, kern, notify
<1>4. ASSUME GetBuf PROVE ThreadInv'
  BY <1>4 DEF GetBuf, Fsm, Outcomes, Zero, held, kern, notify
<1>5. ASSUME PutBuf PROVE ThreadInv'
  BY <1>5 DEF PutBuf, Fsm, Zero, held, kern, notify
<1>6. ASSUME RegBuf PROVE ThreadInv'
  BY <1>6 DEF RegBuf, Settled, Fsm, Zero, held, kern, notify
<1>7. ASSUME UnregBuf PROVE ThreadInv'
  BY <1>7 DEF UnregBuf, Zero, held, kern, notify
<1>8. ASSUME NEW done \in SUBSET Bufs, RegBufFails(done) PROVE ThreadInv'
  BY <1>8 DEF RegBufFails, Settled, Fsm, held, kern, notify
<1>9. ASSUME StartBegin PROVE ThreadInv'
  BY <1>9 DEF StartBegin, Fsm, HasCb, Zero, held, kern, notify
<1>10. ASSUME StreamOnWait PROVE ThreadInv'
  BY <1>10 DEF StreamOnWait, held, kern, notify
<1>11. ASSUME StreamOn PROVE ThreadInv'
  BY <1>11 DEF StreamOn, held, kern, notify
<1>12. ASSUME StreamOnFails PROVE ThreadInv'
  BY <1>12 DEF StreamOnFails, HasCb, Zero, held, kern, notify
<1>13. ASSUME StopBegin PROVE ThreadInv'
  BY <1>13 DEF StopBegin, held, kern, notify
<1>14. ASSUME StopSynced PROVE ThreadInv'
  BY <1>14 DEF StopSynced, held, kern, notify
<1>15. ASSUME StreamOff PROVE ThreadInv'
  BY <1>15 DEF StreamOff, HasCb, held, kern, notify
<1>16. ASSUME StopEnd PROVE ThreadInv'
  BY <1>16 DEF StopEnd, Zero, held, kern, notify
<1>17. ASSUME NEW b \in Bufs, NEW ok \in Outcomes, MapBuf(b, ok) PROVE ThreadInv'
  BY <1>17 DEF MapBuf, Outcomes, held, kern, notify
<1>18. ASSUME Wake PROVE ThreadInv'
  BY <1>18 DEF Wake, held, kern, notify
<1>19. ASSUME NothingToRead PROVE ThreadInv'
  BY <1>19 DEF NothingToRead, NotifyReturns, held, kern, notify
<1>20. ASSUME CountRefs PROVE ThreadInv'
  BY <1>20 DEF CountRefs, OwnRefs, held, kern, notify
<1>21. ASSUME NotifyChannel PROVE ThreadInv'
  BY <1>21 DEF NotifyChannel, OwnRefs, Allocs, held, kern, notify
<1>22. ASSUME NotifyLinked PROVE ThreadInv'
  BY <1>22 DEF NotifyLinked, Allocs, held, kern, notify
<1>23. ASSUME EnqueueApp PROVE ThreadInv'
  BY <1>23 DEF EnqueueApp, Allocs, NotifyReturns, held, kern, notify
<1>24. ASSUME NEW b \in Bufs, ReadFrame(b) PROVE ThreadInv'
  BY <1>24 DEF ReadFrame, Outcomes, NotifyReturns, held, kern, notify
<1>25. ASSUME NEW b \in Bufs, AppCall(b) PROVE ThreadInv'
  BY <1>25, CallbacksCount DEF AppCall, held, kern, notify
<1>26. ASSUME AppDone PROVE ThreadInv'
  BY <1>26, BufDoneEffect DEF AppDone, held, kern, notify
<1>27. ASSUME NEW b \in Bufs, BundleReturn(b) PROVE ThreadInv'
  BY <1>27, QbufEffect DEF BundleReturn, held, kern, notify
<1>28. ASSUME NEW b \in Bufs, LinkReturn(b) PROVE ThreadInv'
  BY <1>28, QbufEffect DEF LinkReturn, held, kern, notify
<1>29. ASSUME NEW b \in Bufs, ClientReturn(b) PROVE ThreadInv'
  BY <1>29, QbufEffect DEF ClientReturn, held, kern, notify
<1>30. ASSUME NEW on \in BOOLEAN, SetLinked(on) PROVE ThreadInv'
  BY <1>30 DEF SetLinked, held, kern, notify
<1>31. ASSUME NEW s \in Slots, NEW n \in RegCounts, RegisterCb(s, n) PROVE ThreadInv'
  BY <1>31 DEF RegisterCb, held, kern, notify
<1>32. CASE UNCHANGED vars
  BY <1>32 DEF vars, held, kern, notify
<1>33. ASSUME DispatchSync PROVE ThreadInv'
  BY <1>33 DEF DispatchSync, HasCb, held, kern, notify
<1> QED BY <1>1, <1>2, <1>3, <1>4, <1>5, <1>6, <1>7, <1>8, <1>9, <1>10, <1>11, <1>12, <1>13,
   <1>14, <1>15, <1>16, <1>17, <1>18, <1>19, <1>20, <1>21, <1>22, <1>23, <1>24, <1>25,
   <1>26, <1>27, <1>28, <1>29, <1>30, <1>31, <1>32, <1>33 DEF Next, Setup, StartSteps,
   StopSteps, NotifySteps

\* Every step leaves unregistered buffers to nobody.
LEMMA HeldStep == Benign /\ IInv /\ [Next]_vars => HeldInv'
<1> SUFFICES ASSUME Benign, IInv, [Next]_vars PROVE HeldInv'
  OBVIOUS
<1> USE StreamConstantsOK DEF Benign, IInv, TypeOK, ApiInv, HeldInv, ThreadInv, Registered
<1>1. ASSUME AddStream PROVE HeldInv'
  BY <1>1 DEF AddStream, Fsm, Outcomes, held, kern, notify
<1>2. ASSUME SetFmt PROVE HeldInv'
  BY <1>2 DEF SetFmt, Fsm, held, kern, notify
<1>3. ASSUME Release PROVE HeldInv'
  BY <1>3 DEF Release, Fsm, Zero, held, kern, notify
<1>4. ASSUME GetBuf PROVE HeldInv'
  BY <1>4 DEF GetBuf, Fsm, Outcomes, Zero, held, kern, notify
<1>5. ASSUME PutBuf PROVE HeldInv'
  BY <1>5 DEF PutBuf, Fsm, Zero, held, kern, notify
<1>6. ASSUME RegBuf PROVE HeldInv'
  BY <1>6 DEF RegBuf, Settled, Fsm, Zero, held, kern, notify
<1>7. ASSUME UnregBuf PROVE HeldInv'
  BY <1>7 DEF UnregBuf, Zero, held, kern, notify
<1>8. ASSUME NEW done \in SUBSET Bufs, RegBufFails(done) PROVE HeldInv'
  BY <1>8 DEF RegBufFails, Settled, Fsm, held, kern, notify
<1>9. ASSUME StartBegin PROVE HeldInv'
  BY <1>9 DEF StartBegin, Fsm, HasCb, Zero, held, kern, notify
<1>10. ASSUME StreamOnWait PROVE HeldInv'
  BY <1>10 DEF StreamOnWait, held, kern, notify
<1>11. ASSUME StreamOn PROVE HeldInv'
  BY <1>11 DEF StreamOn, held, kern, notify
<1>12. ASSUME StreamOnFails PROVE HeldInv'
  BY <1>12 DEF StreamOnFails, HasCb, Zero, held, kern, notify
<1>13. ASSUME StopBegin PROVE HeldInv'
  BY <1>13 DEF StopBegin, held, kern, notify
<1>14. ASSUME StopSynced PROVE HeldInv'
  BY <1>14 DEF StopSynced, held, kern, notify
<1>15. ASSUME StreamOff PROVE HeldInv'
  BY <1>15 DEF StreamOff, HasCb, held, kern, notify
<1>16. ASSUME StopEnd PROVE HeldInv'
  BY <1>16 DEF StopEnd, Zero, held, kern, notify
<1>17. ASSUME NEW b \in Bufs, NEW ok \in Outcomes, MapBuf(b, ok) PROVE HeldInv'
  BY <1>17 DEF MapBuf, Outcomes, held, kern, notify
<1>18. ASSUME Wake PROVE HeldInv'
  BY <1>18 DEF Wake, held, kern, notify
<1>19. ASSUME NothingToRead PROVE HeldInv'
  BY <1>19 DEF NothingToRead, NotifyReturns, held, kern, notify
<1>20. ASSUME CountRefs PROVE HeldInv'
  BY <1>20 DEF CountRefs, OwnRefs, held, kern, notify
<1>21. ASSUME NotifyChannel PROVE HeldInv'
  BY <1>21 DEF NotifyChannel, OwnRefs, Allocs, held, kern, notify
<1>22. ASSUME NotifyLinked PROVE HeldInv'
  BY <1>22 DEF NotifyLinked, Allocs, held, kern, notify
<1>23. ASSUME EnqueueApp PROVE HeldInv'
  BY <1>23 DEF EnqueueApp, Allocs, NotifyReturns, held, kern, notify
<1>24. ASSUME NEW b \in Bufs, ReadFrame(b) PROVE HeldInv'
  BY <1>24 DEF ReadFrame, Outcomes, NotifyReturns, held, kern, notify
<1>25. ASSUME NEW b \in Bufs, AppCall(b) PROVE HeldInv'
  BY <1>25, CallbacksCount DEF AppCall, held, kern, notify
<1>26. ASSUME AppDone PROVE HeldInv'
  BY <1>26, BufDoneEffect DEF AppDone, held, kern, notify
<1>27. ASSUME NEW b \in Bufs, BundleReturn(b) PROVE HeldInv'
  BY <1>27, QbufEffect DEF BundleReturn, held, kern, notify
<1>28. ASSUME NEW b \in Bufs, LinkReturn(b) PROVE HeldInv'
  BY <1>28, QbufEffect DEF LinkReturn, held, kern, notify
<1>29. ASSUME NEW b \in Bufs, ClientReturn(b) PROVE HeldInv'
  <2>1. /\ UNCHANGED <<state, api, bundle, link, lost>>
        /\ client[b] > 0 /\ client' = [client EXCEPT ![b] = @ - 1]
    BY <1>29, QbufEffect DEF ClientReturn
  <2>2. \A x \in Bufs : client'[x] \in Nat /\ client'[x] <= client[x]
    <3>1. client \in [Bufs -> Nat]
      OBVIOUS
    <3> HIDE DEF IInv, TypeOK, ApiInv, HeldInv, ThreadInv, Benign
    <3> QED BY <2>1, <3>1
  <2>3. /\ Registered' <=> Registered
        /\ (state' = "REG" /\ api' = "idle") <=> (state = "REG" /\ api = "idle")
    BY <2>1
  <2> HIDE DEF Registered
  <2> QED BY <2>1, <2>2, <2>3
<1>30. ASSUME NEW on \in BOOLEAN, SetLinked(on) PROVE HeldInv'
  BY <1>30 DEF SetLinked, held, kern, notify
<1>31. ASSUME NEW s \in Slots, NEW n \in RegCounts, RegisterCb(s, n) PROVE HeldInv'
  BY <1>31 DEF RegisterCb, held, kern, notify
<1>32. CASE UNCHANGED vars
  BY <1>32 DEF vars, held, kern, notify
<1>33. ASSUME DispatchSync PROVE HeldInv'
  BY <1>33 DEF DispatchSync, HasCb, held, kern, notify
<1> QED BY <1>1, <1>2, <1>3, <1>4, <1>5, <1>6, <1>7, <1>8, <1>9, <1>10, <1>11, <1>12, <1>13,
   <1>14, <1>15, <1>16, <1>17, <1>18, <1>19, <1>20, <1>21, <1>22, <1>23, <1>24, <1>25,
   <1>26, <1>27, <1>28, <1>29, <1>30, <1>31, <1>32, <1>33 DEF Next, Setup, StartSteps,
   StopSteps, NotifySteps

\* Every step keeps a frame that was just read away from everybody else.
LEMMA FreshStep == Benign /\ IInv /\ [Next]_vars => FreshInv'
<1> SUFFICES ASSUME Benign, IInv, [Next]_vars PROVE FreshInv'
  OBVIOUS
<1> USE StreamConstantsOK DEF Benign, IInv, TypeOK, ApiInv, FreshInv, ThreadInv, NotePcs,
   CountInv, Session, NotShared
<1>1. ASSUME AddStream PROVE FreshInv'
  BY <1>1 DEF AddStream, Fsm, Outcomes, held, kern, notify
<1>2. ASSUME SetFmt PROVE FreshInv'
  BY <1>2 DEF SetFmt, Fsm, held, kern, notify
<1>3. ASSUME Release PROVE FreshInv'
  BY <1>3 DEF Release, Fsm, Zero, held, kern, notify
<1>4. ASSUME GetBuf PROVE FreshInv'
  BY <1>4 DEF GetBuf, Fsm, Outcomes, Zero, held, kern, notify
<1>5. ASSUME PutBuf PROVE FreshInv'
  BY <1>5 DEF PutBuf, Fsm, Zero, held, kern, notify
<1>6. ASSUME RegBuf PROVE FreshInv'
  BY <1>6 DEF RegBuf, Settled, Fsm, Zero, held, kern, notify
<1>7. ASSUME UnregBuf PROVE FreshInv'
  BY <1>7 DEF UnregBuf, Zero, held, kern, notify
<1>8. ASSUME NEW done \in SUBSET Bufs, RegBufFails(done) PROVE FreshInv'
  BY <1>8 DEF RegBufFails, Settled, Fsm, held, kern, notify
<1>9. ASSUME StartBegin PROVE FreshInv'
  BY <1>9 DEF StartBegin, Fsm, HasCb, Zero, held, kern, notify
<1>10. ASSUME StreamOnWait PROVE FreshInv'
  BY <1>10 DEF StreamOnWait, held, kern, notify
<1>11. ASSUME StreamOn PROVE FreshInv'
  BY <1>11 DEF StreamOn, held, kern, notify
<1>12. ASSUME StreamOnFails PROVE FreshInv'
  BY <1>12 DEF StreamOnFails, HasCb, Zero, held, kern, notify
<1>13. ASSUME StopBegin PROVE FreshInv'
  BY <1>13 DEF StopBegin, held, kern, notify
<1>14. ASSUME StopSynced PROVE FreshInv'
  BY <1>14 DEF StopSynced, held, kern, notify
<1>15. ASSUME StreamOff PROVE FreshInv'
  BY <1>15 DEF StreamOff, HasCb, held, kern, notify
<1>16. ASSUME StopEnd PROVE FreshInv'
  BY <1>16 DEF StopEnd, Zero, held, kern, notify
<1>17. ASSUME NEW b \in Bufs, NEW ok \in Outcomes, MapBuf(b, ok) PROVE FreshInv'
  BY <1>17 DEF MapBuf, Outcomes, held, kern, notify
<1>18. ASSUME Wake PROVE FreshInv'
  BY <1>18 DEF Wake, held, kern, notify
<1>19. ASSUME NothingToRead PROVE FreshInv'
  BY <1>19 DEF NothingToRead, NotifyReturns, held, kern, notify
<1>20. ASSUME CountRefs PROVE FreshInv'
  BY <1>20 DEF CountRefs, OwnRefs, held, kern, notify
<1>21. ASSUME NotifyChannel PROVE FreshInv'
  BY <1>21 DEF NotifyChannel, OwnRefs, Allocs, held, kern, notify
<1>22. ASSUME NotifyLinked PROVE FreshInv'
  BY <1>22 DEF NotifyLinked, Allocs, held, kern, notify
<1>23. ASSUME EnqueueApp PROVE FreshInv'
  BY <1>23 DEF EnqueueApp, Allocs, NotifyReturns, held, kern, notify
<1>24. ASSUME NEW b \in Bufs, ReadFrame(b) PROVE FreshInv'
  BY <1>24 DEF ReadFrame, Outcomes, NotifyReturns, held, kern, notify
<1>25. ASSUME NEW b \in Bufs, AppCall(b) PROVE FreshInv'
  <2>1. app[b] > 0 /\ UNCHANGED <<note, buf_info, drv, app, bundle, link>>
    BY <1>25 DEF AppCall, kern, notify
  <2>2. client' = [client EXCEPT ![b] = @ + Cardinality(Callbacks)]
    BY <1>25 DEF AppCall
  <2>3. note \in {"read", "dispatched", "counted"} \/ (note = "notified" /\ ~Bundled) => buf_info # b
    BY <2>1 DEF FreshInv, TypeOK
  <2> QED BY <2>1, <2>2, <2>3 DEF FreshInv, TypeOK
<1>26. ASSUME AppDone PROVE FreshInv'
  BY <1>26, BufDoneEffect DEF AppDone, held, kern, notify
<1>27. ASSUME NEW b \in Bufs, BundleReturn(b) PROVE FreshInv'
  BY <1>27, QbufEffect DEF BundleReturn, held, kern, notify
<1>28. ASSUME NEW b \in Bufs, LinkReturn(b) PROVE FreshInv'
  BY <1>28, QbufEffect DEF LinkReturn, held, kern, notify
<1>29. ASSUME NEW b \in Bufs, ClientReturn(b) PROVE FreshInv'
  BY <1>29, QbufEffect DEF ClientReturn, held, kern, notify
<1>30. ASSUME NEW on \in BOOLEAN, SetLinked(on) PROVE FreshInv'
  BY <1>30 DEF SetLinked, held, kern, notify
<1>31. ASSUME NEW s \in Slots, NEW n \in RegCounts, RegisterCb(s, n) PROVE FreshInv'
  BY <1>31 DEF RegisterCb, held, kern, notify
<1>32. CASE UNCHANGED vars
  BY <1>32 DEF vars, held, kern, notify
<1>33. ASSUME DispatchSync PROVE FreshInv'
  BY <1>33 DEF DispatchSync, HasCb, held, kern, notify
<1> QED BY <1>1, <1>2, <1>3, <1>4, <1>5, <1>6, <1>7, <1>8, <1>9, <1>10, <1>11, <1>12, <1>13,
   <1>14, <1>15, <1>16, <1>17, <1>18, <1>19, <1>20, <1>21, <1>22, <1>23, <1>24, <1>25,
   <1>26, <1>27, <1>28, <1>29, <1>30, <1>31, <1>32, <1>33 DEF Next, Setup, StartSteps,
   StopSteps, NotifySteps

\* Every step keeps the counts exact.
LEMMA CountStep == Benign /\ IInv /\ [Next]_vars => CountInv'
<1> SUFFICES ASSUME Benign, IInv, [Next]_vars PROVE CountInv'
  OBVIOUS
<1>t. TypeOK' BY TypeStep
<1> USE <1>t
<1> USE StreamConstantsOK DEF Benign, IInv
<1>1. ASSUME AddStream PROVE CountInv'
  BY <1>1 DEF AddStream, Fsm, Outcomes, held, kern, notify, TypeOK, ApiInv, ThreadInv,
     CountInv, FreshInv, HeldInv, Session, NotShared, Holders, Pending, Registered, OwnRefs,
     NotePcs
<1>2. ASSUME SetFmt PROVE CountInv'
  BY <1>2 DEF SetFmt, Fsm, held, kern, notify, TypeOK, ApiInv, ThreadInv, CountInv,
     FreshInv, HeldInv, Session, NotShared, Holders, Pending, Registered, OwnRefs, NotePcs
<1>3. ASSUME Release PROVE CountInv'
  BY <1>3 DEF Release, Fsm, Zero, held, kern, notify, TypeOK, ApiInv, ThreadInv, CountInv,
     FreshInv, HeldInv, Session, NotShared, Holders, Pending, Registered, OwnRefs, NotePcs
<1>4. ASSUME GetBuf PROVE CountInv'
  BY <1>4 DEF GetBuf, Fsm, Outcomes, Zero, held, kern, notify, TypeOK, ApiInv, ThreadInv,
     CountInv, FreshInv, HeldInv, Session, NotShared, Holders, Pending, Registered, OwnRefs,
     NotePcs
<1>5. ASSUME PutBuf PROVE CountInv'
  BY <1>5 DEF PutBuf, Fsm, Zero, held, kern, notify, TypeOK, ApiInv, ThreadInv, CountInv,
     FreshInv, HeldInv, Session, NotShared, Holders, Pending, Registered, OwnRefs, NotePcs
<1>6. ASSUME RegBuf PROVE CountInv'
  <2>1. ASSUME NEW b \in Bufs PROVE (refcnt[b] = Holders(b) /\ (b \in drv => refcnt[b] = 0))'
    <3>1. bundle'[b] = 0 /\ link'[b] = 0 /\ lost'[b] = 0 /\ app'[b] = 0
      BY <1>6 DEF RegBuf, Settled, Fsm, Zero, ThreadInv, TypeOK
    <3>2. buf_info' \notin Bufs
      BY <1>6 DEF RegBuf, Settled, Fsm, notify, ApiInv, TypeOK
    <3>3. Holders(b)' = client'[b]
      BY <3>1, <3>2 DEF Holders, Pending, TypeOK
    <3> QED BY <1>6, <3>3 DEF RegBuf
  <2> QED BY <2>1, ExactSuffices
<1>7. ASSUME UnregBuf PROVE CountInv'
  BY <1>7 DEF UnregBuf, Zero, held, kern, notify, TypeOK, ApiInv, ThreadInv, CountInv,
     FreshInv, HeldInv, Session, NotShared, Holders, Pending, Registered, OwnRefs, NotePcs
<1>8. ASSUME NEW done \in SUBSET Bufs, RegBufFails(done) PROVE CountInv'
  <2>1. ~Session' /\ ~Registered
    BY <1>8 DEF RegBufFails, Settled, Fsm, Session, Registered
  <2>2. \A b \in Bufs : bundle'[b] + link'[b] + client'[b] + app'[b] = 0
    BY <1>8, <2>1 DEF RegBufFails, Settled, Fsm, held, HeldInv, ThreadInv, Registered, TypeOK
  <2> QED BY <2>1, <2>2 DEF CountInv, NotShared, TypeOK
<1>9. ASSUME StartBegin PROVE CountInv'
  <2>1. Session /\ \A b \in Bufs : app'[b] = app[b]
    BY <1>9 DEF StartBegin, Fsm, Session, ThreadInv, TypeOK, Zero
  <2>2. \A b \in Bufs : Holders(b)' = Holders(b)
    BY <1>9, <2>1 DEF StartBegin, held, notify, Holders, Pending, OwnRefs
  <2>3. UNCHANGED <<drv, refcnt>>
    BY <1>9 DEF StartBegin, kern
  <2> QED BY <2>1, <2>2, <2>3, ExactSuffices DEF CountInv
<1>10. ASSUME StreamOnWait PROVE CountInv'
  BY <1>10 DEF StreamOnWait, held, kern, notify, TypeOK, ApiInv, ThreadInv, CountInv,
     FreshInv, HeldInv, Session, NotShared, Holders, Pending, Registered, OwnRefs, NotePcs
<1>11. ASSUME StreamOn PROVE CountInv'
  BY <1>11 DEF StreamOn, held, kern, notify, TypeOK, ApiInv, ThreadInv, CountInv, FreshInv,
     HeldInv, Session, NotShared, Holders, Pending, Registered, OwnRefs, NotePcs
<1>12. ASSUME StreamOnFails PROVE CountInv'
  BY <1>12 DEF StreamOnFails, HasCb, Zero, held, kern, notify, TypeOK, ApiInv, ThreadInv,
     CountInv, FreshInv, HeldInv, Session, NotShared, Holders, Pending, Registered, OwnRefs,
     NotePcs
<1>13. ASSUME StopBegin PROVE CountInv'
  BY <1>13 DEF StopBegin, held, kern, notify, TypeOK, ApiInv, ThreadInv, CountInv, FreshInv,
     HeldInv, Session, NotShared, Holders, Pending, Registered, OwnRefs, NotePcs
<1>14. ASSUME StopSynced PROVE CountInv'
  BY <1>14 DEF StopSynced, held, kern, notify, TypeOK, ApiInv, ThreadInv, CountInv,
     FreshInv, HeldInv, Session, NotShared, Holders, Pending, Registered, OwnRefs, NotePcs
<1>15. ASSUME StreamOff PROVE CountInv'
  BY <1>15 DEF StreamOff, HasCb, held, kern, notify, TypeOK, ApiInv, ThreadInv, CountInv,
     FreshInv, HeldInv, Session, NotShared, Holders, Pending, Registered, OwnRefs, NotePcs
<1>16. ASSUME StopEnd PROVE CountInv'
  BY <1>16 DEF StopEnd, Zero, held, kern, notify, TypeOK, ApiInv, ThreadInv, CountInv,
     FreshInv, HeldInv, Session, NotShared, Holders, Pending, Registered, OwnRefs, NotePcs
<1>17. ASSUME NEW b \in Bufs, NEW ok \in Outcomes, MapBuf(b, ok) PROVE CountInv'
  BY <1>17 DEF MapBuf, Outcomes, held, kern, notify, TypeOK, ApiInv, ThreadInv, CountInv,
     FreshInv, HeldInv, Session, NotShared, Holders, Pending, Registered, OwnRefs, NotePcs
<1>18. ASSUME Wake PROVE CountInv'
  BY <1>18 DEF Wake, held, kern, notify, TypeOK, ApiInv, ThreadInv, CountInv, FreshInv,
     HeldInv, Session, NotShared, Holders, Pending, Registered, OwnRefs, NotePcs
<1>19. ASSUME NothingToRead PROVE CountInv'
  BY <1>19 DEF NothingToRead, NotifyReturns, held, kern, notify, TypeOK, ApiInv, ThreadInv,
     CountInv, FreshInv, HeldInv, Session, NotShared, Holders, Pending, Registered, OwnRefs,
     NotePcs
<1>20. ASSUME CountRefs PROVE CountInv'
  <2>1. PICK f \in Bufs : f = buf_info
    BY <1>20 DEF CountRefs, TypeOK
  <2>2. f \notin drv /\ OwnRefs \in Nat /\ has_cb \in Nat
    BY <1>20, <2>1 DEF CountRefs, FreshInv, OwnRefs, TypeOK
  <2>3. /\ UNCHANGED <<state, api, drv, app, lost, bundle, link, client, has_cb>>
        /\ note = "dispatched" /\ note' = "counted" /\ buf_info' = f
        /\ refcnt' = [refcnt EXCEPT ![f] = @ + OwnRefs + has_cb]
    BY <1>20, <2>1 DEF CountRefs, kern, held
  <2>4. \A b \in Bufs : Pending(b) = 0 /\ Pending(b)' = IF b = f THEN OwnRefs + has_cb ELSE 0
    BY <2>1, <2>3 DEF Pending, OwnRefs
  <2>5. \A b \in Bufs : Holders(b)' = Holders(b) + IF b = f THEN OwnRefs + has_cb ELSE 0
    BY <2>2, <2>3, <2>4 DEF Holders, TypeOK
  <2>6. Session => \A b \in Bufs : refcnt[b] = Holders(b) /\ (b \in drv => refcnt[b] = 0)
    BY DEF CountInv
  <2>7. Session => \A b \in Bufs : (refcnt[b] = Holders(b) /\ (b \in drv => refcnt[b] = 0))'
    BY <2>2, <2>3, <2>5, <2>6 DEF TypeOK
  <2> QED BY <2>3, <2>7 DEF CountInv, NotShared, Session
<1>21. ASSUME NotifyChannel PROVE CountInv'
  BY <1>21 DEF NotifyChannel, OwnRefs, Allocs, held, kern, notify, TypeOK, ApiInv,
     ThreadInv, CountInv, FreshInv, HeldInv, Session, NotShared, Holders, Pending,
     Registered, OwnRefs, NotePcs
<1>22. ASSUME NotifyLinked PROVE CountInv'
  <2> DEFINE n == IF is_linked THEN 1 ELSE 0
  <2>1. PICK f \in Bufs : f = buf_info
    BY <1>22 DEF NotifyLinked, TypeOK
  <2>2. n \in Nat /\ (n # 0 => f \notin drv)
    BY <1>22, <2>1 DEF NotifyLinked, ApiInv, FreshInv
  <2>3. PICK k \in {0, n} :
           /\ link' = [link EXCEPT ![f] = @ + k]
           /\ lost' = [lost EXCEPT ![f] = @ + (n - k)]
    <3>1. PICK ok \in BOOLEAN :
             /\ link' = [link EXCEPT ![f] = @ + IF ok THEN n ELSE 0]
             /\ lost' = [lost EXCEPT ![f] = @ + IF ok THEN 0 ELSE n]
      BY <1>22, <2>1 DEF NotifyLinked, Allocs
    <3> HIDE DEF n
    <3>2. CASE ok
      BY <2>2, <3>1, <3>2
    <3>3. CASE ~ok
      BY <2>2, <3>1, <3>3
    <3> QED BY <3>2, <3>3
  <2>4. /\ UNCHANGED <<state, api, drv, app, bundle, client, buf_info, has_cb>>
        /\ note = "notified" /\ note' = "linked"
        /\ refcnt' = [refcnt EXCEPT ![f] = @ + n]
    BY <1>22, <2>1 DEF NotifyLinked, kern
  <2> HIDE DEF n
  <2>5. \A b \in Bufs : Pending(b)' = Pending(b) /\ Pending(b) \in Nat
    BY <2>4 DEF Pending, TypeOK
  <2>6. \A b \in Bufs : Holders(b)' = Holders(b) + IF b = f THEN n ELSE 0
    BY <2>2, <2>3, <2>4, <2>5 DEF Holders, TypeOK
  <2>7. Session => \A b \in Bufs : refcnt[b] = Holders(b) /\ (b \in drv => refcnt[b] = 0)
    BY DEF CountInv
  <2>8. Session => \A b \in Bufs : (refcnt[b] = Holders(b) /\ (b \in drv => refcnt[b] = 0))'
    BY <2>2, <2>4, <2>6, <2>7 DEF TypeOK
  <2>9. NotShared'
    <3>1. NotShared
      BY DEF CountInv
    <3> QED BY <3>1, <2>2, <2>3, <2>4 DEF NotShared, TypeOK
  <2> QED BY <2>4, <2>8, <2>9 DEF CountInv, Session
<1>23. ASSUME EnqueueApp PROVE CountInv'
  <2>1. PICK f \in Bufs : f = buf_info
    BY <1>23 DEF EnqueueApp, TypeOK
  <2>2. Session \/ ~cmd_active
    BY DEF ThreadInv, Session
  <2>3. PICK n \in {0, has_cb} :
           /\ n # 0 => cmd_active
           /\ app' = [app EXCEPT ![f] = @ + n]
           /\ lost' = [lost EXCEPT ![f] = @ + (has_cb - n)]
    <3>1. PICK queue \in BOOLEAN :
             /\ queue => cmd_active
             /\ app' = [app EXCEPT ![f] = @ + IF queue THEN has_cb ELSE 0]
             /\ lost' = [lost EXCEPT ![f] = @ + IF queue THEN 0 ELSE has_cb]
      BY <1>23, <2>1 DEF EnqueueApp, TypeOK
    <3>2. has_cb \in Nat
      BY DEF TypeOK
    <3>3. CASE queue
      <4>1. has_cb - has_cb = 0 /\ has_cb \in {0, has_cb}
        BY <3>2
      <4>2. /\ app' = [app EXCEPT ![f] = @ + has_cb]
            /\ lost' = [lost EXCEPT ![f] = @ + (has_cb - has_cb)]
        BY <3>1, <3>3, <4>1
      <4>3. has_cb # 0 => cmd_active
        BY <3>1, <3>3
      <4> QED BY <4>1, <4>2, <4>3
    <3>4. CASE ~queue
      BY <3>1, <3>2, <3>4
    <3> QED BY <3>3, <3>4
  <2>4. /\ UNCHANGED <<state, api, refcnt, drv, bundle, link, client>>
        /\ note = "linked" /\ note' = "idle" /\ buf_info' = NoBuf
    BY <1>23 DEF EnqueueApp, NotifyReturns, kern, held
  <2>5. \A b \in Bufs : Pending(b) = (IF b = f THEN has_cb ELSE 0) /\ Pending(b)' = 0
    BY <2>1, <2>4 DEF Pending
  <2>6. \A b \in Bufs : Holders(b)' = Holders(b)
    BY <2>3, <2>4, <2>5 DEF Holders, TypeOK
  <2>7. CASE Session
    BY <2>4, <2>6, <2>7, ExactSuffices DEF CountInv
  <2>8. CASE ~Session
    <3>1. n = 0
      BY <2>2, <2>3, <2>8
    <3> QED BY <2>3, <2>4, <2>8, <3>1 DEF CountInv, NotShared, Session, TypeOK
  <2> QED BY <2>7, <2>8
<1>24. ASSUME NEW b \in Bufs, ReadFrame(b) PROVE CountInv'
  BY <1>24 DEF ReadFrame, Outcomes, NotifyReturns, held, kern, notify, TypeOK, ApiInv,
     ThreadInv, CountInv, FreshInv, HeldInv, Session, NotShared, Holders, Pending,
     Registered, OwnRefs, NotePcs
<1>25. ASSUME NEW b \in Bufs, AppCall(b) PROVE CountInv'
  BY <1>25, CallbacksCount DEF AppCall, held, kern, notify, TypeOK, ApiInv, ThreadInv,
     CountInv, FreshInv, HeldInv, Session, NotShared, Holders, Pending, Registered, OwnRefs,
     NotePcs
<1>26. ASSUME AppDone PROVE CountInv'
  <2>1. PICK b \in Bufs : b = disp /\ app[b] > 0 /\ state = "ACTIVE"
    BY <1>26 DEF AppDone, TypeOK, ThreadInv
  <2>2. /\ UNCHANGED <<state, api, note, buf_info, has_cb, lost, bundle, link, client>>
        /\ app' = [app EXCEPT ![b] = @ - 1] /\ BufDone(b)
    BY <1>26, <2>1 DEF AppDone, notify, held
  <2>3. /\ Holders(b) > 0 /\ Holders(b)' = Holders(b) - 1
        /\ \A x \in Bufs \ {b} : Holders(x)' = Holders(x)
    <3>1. \A x \in Bufs : Pending(x)' = Pending(x) /\ Pending(x) \in Nat
      BY <2>2 DEF TypeOK, Pending, OwnRefs
    <3>2. /\ app'[b] = app[b] - 1 /\ \A x \in Bufs \ {b} : app'[x] = app[x]
          /\ app[b] \in Nat /\ app[b] > 0
      BY <2>1, <2>2 DEF TypeOK
    <3>3. /\ bundle \in [Bufs -> Nat] /\ link \in [Bufs -> Nat]
          /\ client \in [Bufs -> Nat] /\ lost \in [Bufs -> Nat] /\ app \in [Bufs -> Nat]
      BY DEF TypeOK
    <3> HIDE DEF IInv, Benign
    <3> QED BY <2>2, <3>1, <3>2, <3>3 DEF Holders
  <2>4. Session /\ refcnt[b] = Holders(b)
    BY <2>1 DEF CountInv, Session
  <2>5. refcnt' = [refcnt EXCEPT ![b] = @ - 1] /\ GoesBack(b)
    BY <2>2, <2>3, <2>4, BufDoneEffect DEF GoesBack
  <2> QED BY <2>3, <2>4, <2>5, GiveBack
<1>27. ASSUME NEW b \in Bufs, BundleReturn(b) PROVE CountInv'
  <2>1. /\ UNCHANGED <<state, api, note, buf_info, has_cb, app, lost>>
        /\ bundle[b] > 0 /\ bundle' = [bundle EXCEPT ![b] = @ - 1]
        /\ UNCHANGED <<link, client>>
    BY <1>27, QbufEffect DEF BundleReturn
  <2>2. /\ Holders(b) > 0 /\ Holders(b)' = Holders(b) - 1
        /\ \A x \in Bufs \ {b} : Holders(x)' = Holders(x)
    <3>1. \A x \in Bufs : Pending(x)' = Pending(x) /\ Pending(x) \in Nat
      BY <2>1 DEF TypeOK, Pending, OwnRefs
    <3> QED BY <2>1, <3>1 DEF TypeOK, Holders
  <2>3. CASE state = "ACTIVE"
    <3>1. refcnt[b] = Holders(b)
      BY <2>3 DEF CountInv, Session
    <3>2. refcnt' = [refcnt EXCEPT ![b] = @ - 1] /\ GoesBack(b)
      BY <1>27, <2>2, <2>3, <3>1, QbufEffect DEF BundleReturn, GoesBack
    <3> QED BY <2>1, <2>2, <2>3, <3>2, GiveBack DEF Session
  <2>4. CASE state # "ACTIVE"
    <3>1. ~Session'
      BY <1>27, <2>1, <2>4 DEF BundleReturn, Session, HeldInv, TypeOK
    <3>2. drv' = drv
      BY <1>27, <2>4, QbufEffect DEF BundleReturn
    <3> QED BY <2>1, <3>1, <3>2 DEF CountInv, NotShared, TypeOK
  <2> QED BY <2>3, <2>4
<1>28. ASSUME NEW b \in Bufs, LinkReturn(b) PROVE CountInv'
  <2>1. /\ UNCHANGED <<state, api, note, buf_info, has_cb, app, lost>>
        /\ link[b] > 0 /\ link' = [link EXCEPT ![b] = @ - 1]
        /\ UNCHANGED <<bundle, client>>
    BY <1>28, QbufEffect DEF LinkReturn
  <2>2. /\ Holders(b) > 0 /\ Holders(b)' = Holders(b) - 1
        /\ \A x \in Bufs \ {b} : Holders(x)' = Holders(x)
    <3>1. \A x \in Bufs : Pending(x)' = Pending(x) /\ Pending(x) \in Nat
      BY <2>1 DEF TypeOK, Pending, OwnRefs
    <3> QED BY <2>1, <3>1 DEF TypeOK, Holders
  <2>3. CASE state = "ACTIVE"
    <3>1. refcnt[b] = Holders(b)
      BY <2>3 DEF CountInv, Session
    <3>2. refcnt' = [refcnt EXCEPT ![b] = @ - 1] /\ GoesBack(b)
      BY <1>28, <2>2, <2>3, <3>1, QbufEffect DEF LinkReturn, GoesBack
    <3> QED BY <2>1, <2>2, <2>3, <3>2, GiveBack DEF Session
  <2>4. CASE state # "ACTIVE"
    <3>1. ~Session'
      BY <1>28, <2>1, <2>4 DEF LinkReturn, Session, HeldInv, TypeOK
    <3>2. drv' = drv
      BY <1>28, <2>4, QbufEffect DEF LinkReturn
    <3> QED BY <2>1, <3>1, <3>2 DEF CountInv, NotShared, TypeOK
  <2> QED BY <2>3, <2>4
<1>29. ASSUME NEW b \in Bufs, ClientReturn(b) PROVE CountInv'
  <2>1. /\ UNCHANGED <<state, api, note, buf_info, has_cb, app, lost>>
        /\ client[b] > 0 /\ client' = [client EXCEPT ![b] = @ - 1]
        /\ UNCHANGED <<bundle, link>>
    BY <1>29, QbufEffect DEF ClientReturn
  <2>2. /\ Holders(b) > 0 /\ Holders(b)' = Holders(b) - 1
        /\ \A x \in Bufs \ {b} : Holders(x)' = Holders(x)
    <3>1. \A x \in Bufs : Pending(x)' = Pending(x) /\ Pending(x) \in Nat
      BY <2>1 DEF TypeOK, Pending, OwnRefs
    <3> QED BY <2>1, <3>1 DEF TypeOK, Holders
  <2>3. CASE state = "ACTIVE"
    <3>1. refcnt[b] = Holders(b)
      BY <2>3 DEF CountInv, Session
    <3>2. refcnt' = [refcnt EXCEPT ![b] = @ - 1] /\ GoesBack(b)
      BY <1>29, <2>2, <2>3, <3>1, QbufEffect DEF ClientReturn, GoesBack
    <3> QED BY <2>1, <2>2, <2>3, <3>2, GiveBack DEF Session
  <2>4. CASE state # "ACTIVE"
    <3>1. ~Session'
      BY <1>29, <2>1, <2>4 DEF ClientReturn, Session, HeldInv, TypeOK
    <3>2. drv' = drv
      BY <1>29, <2>4, QbufEffect DEF ClientReturn
    <3> QED BY <2>1, <3>1, <3>2 DEF CountInv, NotShared, TypeOK
  <2> QED BY <2>3, <2>4
<1>30. ASSUME NEW on \in BOOLEAN, SetLinked(on) PROVE CountInv'
  BY <1>30 DEF SetLinked, held, kern, notify, TypeOK, ApiInv, ThreadInv, CountInv, FreshInv,
     HeldInv, Session, NotShared, Holders, Pending, Registered, OwnRefs, NotePcs
<1>31. ASSUME NEW s \in Slots, NEW n \in RegCounts, RegisterCb(s, n) PROVE CountInv'
  BY <1>31 DEF RegisterCb, held, kern, notify, TypeOK, ApiInv, ThreadInv, CountInv,
     FreshInv, HeldInv, Session, NotShared, Holders, Pending, Registered, OwnRefs, NotePcs
<1>32. CASE UNCHANGED vars
  BY <1>32 DEF vars, held, kern, notify, TypeOK, ApiInv, ThreadInv, CountInv, FreshInv,
     HeldInv, Session, NotShared, Holders, Pending, Registered, OwnRefs, NotePcs
<1>33. ASSUME DispatchSync PROVE CountInv'
  BY <1>33 DEF DispatchSync, HasCb, held, kern, notify, TypeOK, ApiInv, ThreadInv, CountInv,
     FreshInv, HeldInv, Session, NotShared, Holders, Pending, Registered, OwnRefs, NotePcs
<1> QED BY <1>1, <1>2, <1>3, <1>4, <1>5, <1>6, <1>7, <1>8, <1>9, <1>10, <1>11, <1>12, <1>13,
   <1>14, <1>15, <1>16, <1>17, <1>18, <1>19, <1>20, <1>21, <1>22, <1>23, <1>24, <1>25,
   <1>26, <1>27, <1>28, <1>29, <1>30, <1>31, <1>32, <1>33 DEF Next, Setup, StartSteps,
   StopSteps, NotifySteps

-----------------------------------------------------------------------------
(* The theorems *)

\* The initial states satisfy the inductive invariant.
LEMMA InitInv == Init => IInv
<1> SUFFICES ASSUME Init PROVE IInv
  OBVIOUS
<1>1. TypeOK
  <2>1. Zero \in [Bufs -> Nat] /\ Zero \in [Bufs -> {-1, 0, 1}]
    BY DEF Zero
  <2>2. cb \in [Slots -> {-1} \cup Nat] /\ in_kernel \in [Bufs -> BOOLEAN]
    BY DEF Init
  <2>3. /\ mapped \in [Bufs -> {-1, 0, 1}] /\ refcnt \in [Bufs -> Nat]
        /\ app \in [Bufs -> Nat] /\ bundle \in [Bufs -> Nat] /\ link \in [Bufs -> Nat]
        /\ client \in [Bufs -> Nat] /\ lost \in [Bufs -> Nat]
    BY <2>1 DEF Init
  <2>4. /\ state \in States /\ api \in ApiPcs /\ note \in NotePcs /\ has_cb \in {0, 1}
        /\ buf_info = NoBuf /\ note = "idle" /\ disp = NoBuf /\ drv \subseteq Bufs
        /\ queued \in Int
    BY DEF Init, States, ApiPcs, NotePcs
  <2>5. /\ cmd_active \in BOOLEAN /\ streaming \in BOOLEAN
        /\ polled \in BOOLEAN /\ is_linked \in BOOLEAN /\ readded \in BOOLEAN
    BY DEF Init
  <2> QED BY <2>2, <2>3, <2>4, <2>5 DEF TypeOK
<1>2. ApiInv /\ ThreadInv /\ FreshInv
  BY DEF Init, ApiInv, ThreadInv, FreshInv, Zero
<1>3. HeldInv /\ CountInv
  BY DEF Init, HeldInv, CountInv, Session, NotShared, Zero, Registered
<1> QED BY <1>1, <1>2, <1>3 DEF IInv

\* The inductive invariant holds in every reachable state.
THEOREM Invariant == ASSUME Benign PROVE Spec => []IInv
<1>1. Init => IInv
  BY InitInv
<1>2. IInv /\ [Next]_vars => IInv'
  <2> SUFFICES ASSUME IInv, [Next]_vars PROVE IInv'
    OBVIOUS
  <2>1. TypeOK' /\ ApiInv' /\ ThreadInv'
    BY TypeStep, ApiStep, ThreadStep
  <2>2. HeldInv' /\ FreshInv' /\ CountInv'
    BY HeldStep, FreshStep, CountStep
  <2> QED BY <2>1, <2>2 DEF IInv
<1> QED BY <1>1, <1>2, PTL DEF Spec

\* The fields of a stream keep their types: above all no count of holders or of
\* references ever drops below zero, whichever of the five actors moves
\* (mm_camera_stream.c:4205-4216).
THEOREM TypeCorrect == ASSUME Benign PROVE Spec => []TypeOK
<1>1. IInv => TypeOK
  BY DEF IInv
<1> QED BY <1>1, Invariant, PTL

\* While the stream runs, buf_refcnt is the number of references out
\* (mm_camera_stream.c:349-358, 4208-4216).
THEOREM RefsExact == ASSUME Benign PROVE Spec => []RefExact
<1>1. IInv => RefExact
  BY DEF IInv, CountInv, RefExact, Session
<1> QED BY <1>1, Invariant, PTL

\* The driver never fills a buffer somebody still reads (mm_camera_stream.c:4197-4237).
THEOREM NeverShared == ASSUME Benign PROVE Spec => []NotShared
<1>1. IInv => NotShared
  BY DEF IInv, CountInv
<1> QED BY <1>1, Invariant, PTL

\* STOP and a failed START leave no command thread behind (mm_camera_stream.c:902-920).
THEOREM ThreadGone == ASSUME Benign PROVE Spec => []ThreadReleased
<1>1. IInv => ThreadReleased
  BY DEF IInv, ThreadInv, ApiInv, ThreadReleased
<1> QED BY <1>1, Invariant, PTL

\* Once STOP has waited for the poll thread, only a buffer that came back and added the fd
\* again keeps mm_stream_data_notify running (mm_camera_stream.c:1210-1223, 1686).
THEOREM NotifyEnds == ASSUME Benign PROVE Spec => []NotifyEndsFirst
<1>1. IInv => NotifyEndsFirst
  BY DEF IInv, ApiInv, NotifyEndsFirst
<1> QED BY <1>1, Invariant, PTL

-----------------------------------------------------------------------------
(* The refinement *)

owner == [b \in Bufs |-> IF ~Registered THEN "none"
                         ELSE IF b \in drv THEN "driver" ELSE "hal"]
refs == [b \in Bufs |-> IF Registered THEN refcnt[b] ELSE 0]

\* A step that leaves the buffers alone is a stutter of the lease.
LEMMA LeaseStutter ==
    ASSUME \/ UNCHANGED <<state, drv, refcnt>>
           \/ Registered' = Registered /\ UNCHANGED <<drv, refcnt>>
           \/ ~Registered /\ ~Registered'
    PROVE  UNCHANGED <<owner, refs>>
  BY DEF owner, refs, Registered

\* References to a buffer outside the driver are taken.
LEMMA LeaseTake ==
    ASSUME TypeOK, TypeOK', Registered, Registered', NEW b \in Bufs, NEW n \in Nat,
           n # 0 => b \notin drv, drv' = drv, refcnt' = [refcnt EXCEPT ![b] = @ + n]
    PROVE  [Lease!LeaseNext]_(Lease!leaseVars)
<1>1. owner' = owner /\ refs = refcnt /\ refs' = refcnt'
  BY DEF owner, refs, TypeOK
<1>2. CASE n = 0
  BY <1>1, <1>2 DEF owner, refs, Lease!leaseVars, TypeOK
<1>3. CASE n # 0
  <2>1. owner[b] = "hal" /\ refs'[b] > refs[b] /\ refs' = [refs EXCEPT ![b] = refs'[b]]
    BY <1>1, <1>3 DEF owner, TypeOK
  <2> QED BY <1>1, <2>1 DEF Lease!LeaseNext, Lease!Take, owner, refs
<1> QED BY <1>2, <1>3

\* A reference is given back, and with the last one the buffer.
LEMMA LeaseDrop ==
    ASSUME TypeOK, TypeOK', Registered, Registered', NEW b \in Bufs, b \notin drv,
           refcnt[b] > 0, refcnt' = [refcnt EXCEPT ![b] = @ - 1], GoesBack(b)
    PROVE  [Lease!LeaseNext]_(Lease!leaseVars)
<1>1. owner[b] = "hal" /\ refs = refcnt /\ refs' = refcnt'
  BY DEF owner, refs, TypeOK
<1>2. owner' = owner \/ (refs[b] = 1 /\ owner' = [owner EXCEPT ![b] = "driver"])
  BY <1>1 DEF GoesBack, owner
<1>3. refs[b] > 0 /\ refs' = [refs EXCEPT ![b] = @ - 1]
  BY <1>1
<1>4. Lease!Drop(b)
  BY <1>1, <1>2, <1>3 DEF Lease!Drop, owner, refs
<1> QED BY <1>4 DEF Lease!LeaseNext

\* A buffer with a holder has a reference counted.
LEMMA HolderCounted ==
    ASSUME TypeOK, NEW b \in Bufs,
           bundle[b] > 0 \/ link[b] > 0 \/ client[b] > 0 \/ app[b] > 0
    PROVE  Holders(b) > 0
<1>1. Pending(b) \in Nat
  BY DEF TypeOK, Pending, OwnRefs
<1>2. /\ bundle[b] \in Nat /\ link[b] \in Nat /\ client[b] \in Nat /\ app[b] \in Nat
      /\ lost[b] \in Nat
  BY DEF TypeOK
<1> QED BY <1>1, <1>2 DEF Holders

\* QBUF gives a holder's reference back; after STOP it does nothing.
LEMMA LeaseQbuf ==
    ASSUME IInv, TypeOK', NEW b \in Bufs, Holders(b) > 0, Qbuf(b)
    PROVE  [Lease!LeaseNext]_(Lease!leaseVars)
<1> USE DEF IInv
<1>1. CASE state = "ACTIVE"
  <2>1. refcnt[b] > 0 /\ b \notin drv
    BY <1>1 DEF CountInv, Session
  <2>2. Registered /\ Registered' /\ refcnt' = [refcnt EXCEPT ![b] = @ - 1] /\ GoesBack(b)
    BY <1>1, <2>1, QbufEffect DEF Registered, GoesBack
  <2> QED BY <2>1, <2>2, LeaseDrop
<1>2. CASE state # "ACTIVE"
  <2>1. UNCHANGED <<state, drv, refcnt>>
    BY <1>2, QbufEffect
  <2> QED BY <2>1, LeaseStutter DEF owner, refs, Lease!leaseVars
<1> QED BY <1>1, <1>2

\* Every step of the stream is a step of the lease or leaves it alone.
LEMMA LeaseStep == Benign /\ IInv /\ [Next]_vars => [Lease!LeaseNext]_(Lease!leaseVars)
<1> DEFINE Goal == [Lease!LeaseNext]_(Lease!leaseVars)
<1> SUFFICES ASSUME Benign, IInv, [Next]_vars PROVE Goal
  OBVIOUS
<1>0. UNCHANGED <<owner, refs>> => Goal
  BY DEF owner, refs, Lease!leaseVars
<1> HIDE DEF Goal
<1> USE DEF IInv
<1>t. TypeOK'
  BY TypeStep
<1> USE <1>t
<1>1. CASE RegBuf
  <2>1. /\ owner = [b \in Bufs |-> "none"]
        /\ owner' = [b \in Bufs |-> IF b \in Reserved THEN "hal" ELSE "driver"]
        /\ refs' = [b \in Bufs |-> IF b \in Reserved THEN 1 ELSE 0]
    BY <1>1, StreamConstantsOK DEF RegBuf, Fsm, owner, refs, Registered
  <2>2. Lease!Register(Reserved)
    BY <2>1 DEF Lease!Register, owner, refs
  <2> QED BY <2>2, StreamConstantsOK DEF Goal, Lease!LeaseNext
<1>2. CASE UnregBuf
  <2>1. \A b \in Bufs : owner[b] # "none"
    BY <1>2 DEF UnregBuf, owner, Registered
  <2>2. owner' = [b \in Bufs |-> "none"] /\ refs' = [b \in Bufs |-> 0]
    BY <1>2 DEF UnregBuf, owner, refs, Registered
  <2> QED BY <2>1, <2>2 DEF Goal, Lease!LeaseNext, Lease!Unregister, owner, refs
<1>3. CASE StreamOff
  <2>1. Registered /\ Registered' /\ drv' = {} /\ UNCHANGED refcnt
    BY <1>3 DEF StreamOff, Registered, IInv, ApiInv
  <2>2. /\ UNCHANGED refs
        /\ owner' = [b \in Bufs |-> IF owner[b] = "driver" THEN "hal" ELSE owner[b]]
    BY <2>1 DEF owner, refs
  <2> QED BY <2>2 DEF Goal, Lease!LeaseNext, Lease!Recall, owner, refs
<1>4. ASSUME NEW b \in Bufs, ReadFrame(b) PROVE Goal
  <2>1. Registered /\ Registered' /\ b \in drv /\ drv' = drv \ {b} /\ UNCHANGED refcnt
    BY <1>4 DEF ReadFrame, Registered
  <2>2. UNCHANGED refs /\ owner[b] = "driver" /\ owner' = [owner EXCEPT ![b] = "hal"]
    BY <2>1 DEF owner, refs
  <2> QED BY <2>2 DEF Goal, Lease!LeaseNext, Lease!Deliver, owner, refs
<1>5. CASE CountRefs
  <2>1. PICK f \in Bufs : f = buf_info
    BY <1>5 DEF CountRefs, TypeOK
  <2>2. f \notin drv /\ OwnRefs \in Nat /\ has_cb \in Nat
    BY <1>5, <2>1 DEF CountRefs, FreshInv, OwnRefs, TypeOK
  <2>3. drv' = drv /\ state' = state /\ refcnt' = [refcnt EXCEPT ![f] = @ + OwnRefs + has_cb]
    BY <1>5, <2>1 DEF CountRefs, kern
  <2>4. refcnt' = [refcnt EXCEPT ![f] = @ + (OwnRefs + has_cb)]
    <3>1. refcnt[f] \in Nat
      BY DEF TypeOK
    <3>2. refcnt[f] + OwnRefs + has_cb = refcnt[f] + (OwnRefs + has_cb)
      BY <2>2, <3>1
    <3> QED BY <2>3, <3>2
  <2>5. CASE Registered
    <3>1. Registered' /\ OwnRefs + has_cb \in Nat
      BY <2>2, <2>3, <2>5 DEF Registered
    <3> HIDE DEF IInv
    <3> QED BY <2>2, <2>3, <2>4, <2>5, <3>1, LeaseTake DEF Goal, IInv
  <2>6. CASE ~Registered
    BY <1>0, <2>3, <2>6, LeaseStutter DEF Registered
  <2> QED BY <2>5, <2>6
<1>6. CASE NotifyLinked
  <2> DEFINE n == IF is_linked THEN 1 ELSE 0
  <2>1. PICK f \in Bufs : f = buf_info
    BY <1>6 DEF NotifyLinked, TypeOK
  <2>2. n \in Nat /\ (n # 0 => f \notin drv)
    BY <1>6, <2>1 DEF NotifyLinked, ApiInv, FreshInv, Benign
  <2>3. drv' = drv /\ state' = state /\ refcnt' = [refcnt EXCEPT ![f] = @ + n]
    BY <1>6, <2>1 DEF NotifyLinked, kern
  <2> HIDE DEF n
  <2>4. CASE Registered
    BY <2>2, <2>3, <2>4, LeaseTake DEF Goal, Registered
  <2>5. CASE ~Registered
    BY <1>0, <2>3, <2>5, LeaseStutter DEF Registered
  <2> QED BY <2>4, <2>5
<1>7. ASSUME NEW b \in Bufs, AppCall(b) PROVE Goal
  <2>1. state = "ACTIVE" /\ state' = "ACTIVE" /\ app[b] > 0
    BY <1>7 DEF AppCall, ThreadInv
  <2>2. b \notin drv
    BY <2>1 DEF CountInv, NotShared, TypeOK
  <2>3. drv' = drv /\ refcnt' = [refcnt EXCEPT ![b] = @ + Cardinality(Callbacks)]
    BY <1>7 DEF AppCall, kern
  <2> QED BY <2>1, <2>2, <2>3, LeaseTake, CallbacksCount DEF Goal, Registered
<1>8. CASE AppDone
  <2>1. PICK b \in Bufs : b = disp /\ app[b] > 0 /\ state = "ACTIVE"
    BY <1>8 DEF AppDone, TypeOK, ThreadInv
  <2>2. Holders(b) > 0
    BY <2>1, HolderCounted
  <2>3. refcnt[b] > 0 /\ b \notin drv
    BY <2>1, <2>2 DEF CountInv, Session
  <2>4. BufDone(b) /\ state' = state
    BY <1>8, <2>1 DEF AppDone
  <2>5. refcnt' = [refcnt EXCEPT ![b] = @ - 1] /\ GoesBack(b)
    BY <2>3, <2>4, BufDoneEffect DEF GoesBack
  <2> QED BY <2>1, <2>3, <2>4, <2>5, LeaseDrop DEF Goal, Registered
<1>9. ASSUME NEW b \in Bufs, BundleReturn(b) PROVE Goal
  BY <1>9, HolderCounted, LeaseQbuf DEF BundleReturn, Goal
<1>10. ASSUME NEW b \in Bufs, LinkReturn(b) PROVE Goal
  BY <1>10, HolderCounted, LeaseQbuf DEF LinkReturn, Goal
<1>11. ASSUME NEW b \in Bufs, ClientReturn(b) PROVE Goal
  BY <1>11, HolderCounted, LeaseQbuf DEF ClientReturn, Goal
<1>12. CASE \/ AddStream \/ SetFmt \/ Release \/ GetBuf \/ PutBuf
             \/ \E done \in SUBSET Bufs : RegBufFails(done)
  <2>1. ~Registered /\ ~Registered'
    BY <1>12 DEF AddStream, SetFmt, Release, GetBuf, PutBuf, RegBufFails, Fsm, Registered,
       Outcomes
  <2> QED BY <1>0, <2>1, LeaseStutter
<1>13. CASE StartSteps \/ StopBegin \/ StopSynced \/ StopEnd
  <2>1. Registered' = Registered /\ UNCHANGED <<drv, refcnt>>
    BY <1>13 DEF StartSteps, StartBegin, StreamOnWait, StreamOn, StreamOnFails, StopBegin,
       StopSynced, StopEnd, Fsm, Registered, kern, ApiInv
  <2> QED BY <1>0, <2>1, LeaseStutter
<1>14. CASE \/ Wake \/ NothingToRead \/ DispatchSync \/ NotifyChannel \/ EnqueueApp
            \/ \E b \in Bufs, ok \in Outcomes : MapBuf(b, ok)
            \/ \E on \in BOOLEAN : SetLinked(on)
            \/ \E s \in Slots, n \in RegCounts : RegisterCb(s, n)
            \/ UNCHANGED vars
  <2>1. UNCHANGED <<state, drv, refcnt>>
    BY <1>14 DEF Wake, NothingToRead, DispatchSync, NotifyChannel, EnqueueApp, MapBuf, SetLinked,
       RegisterCb, vars, kern
  <2> QED BY <1>0, <2>1, LeaseStutter
<1> QED BY <1>1, <1>2, <1>3, <1>4, <1>5, <1>6, <1>7, <1>8, <1>9, <1>10, <1>11, <1>12, <1>13,
   <1>14
        DEF Next, Setup, StopSteps, NotifySteps

\* The stream implements the lease of its buffers (mm_camera_stream.c:341-358, 4197-4237):
\* in every behaviour references are handed out outside the driver only, and a buffer goes
\* back to it only with the last of them.
THEOREM Implements == ASSUME Benign PROVE Spec => LeaseKept
<1>1. Init => Lease!LeaseInit
  BY DEF Init, Lease!LeaseInit, Registered
<1>2. IInv /\ [Next]_vars => [Lease!LeaseNext]_(Lease!leaseVars)
  BY LeaseStep
<1> QED BY <1>1, <1>2, Invariant, PTL DEF Spec, LeaseKept
=============================================================================
