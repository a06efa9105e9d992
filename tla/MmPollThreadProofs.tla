--------------------------- MODULE MmPollThreadProofs ---------------------------
(***************************************************************************)
(* No update of the poll entries is lost and a stopped stream is not       *)
(* called, for any number of streams.                                      *)
(***************************************************************************)
EXTENDS MmPollThread, TLAPS

\* Who targets which stream: the API thread one it stops, the poll thread the one whose
\* callback runs, and that with its buf_lock held once it deletes the fd.
CallerInv ==
    /\ pc[Api] \in {"idle", "exit", "wait_exit", "join", "released"} => victim = NoStream
    /\ pc[Api] \in {"del_fd", "del_handler", "del_cb", "commit"} => victim \in Streams
    /\ pc[Poll] \in {"idle", "del_fd", "del_handler", "del_cb"}
    /\ pc[Poll] # "idle" => loop = "read" /\ pc[current] = "idle"
    /\ pc[Poll] = "del_cb" => current \notin notify_cb

\* Without a thread nothing is polled, and a release finds no stream in use.
ThreadInv ==
    /\ loop = "off" => watched = {} /\ state = "STOPPED"
    /\ loop = "off" \/ pc[Api] \in {"exit", "wait_exit", "join", "released"} =>
         active = {} /\ \A s \in Streams : pc[s] = "idle"

AsyncOnly(p) == \A i \in DOMAIN p : p[i] = "UPDATED_ASYNC"
Up == loop \in {"started", "up"}    \* the thread has not said that it polls

\* Until the thread polls, whoever sends it a synchronous command waits; without such a
\* command there is something to do only for a stream in use or one whose REG_BUF failed.
UpInv ==
    Up => /\ state = "STOPPED" /\ pc[Api] \notin {"exit", "wait_exit", "join"}
          /\ loop = "started" => pc[Api] = "wait"
          /\ loop = "started" \/ pc[Api] = "answered" => victim = NoStream
          /\ pc[Api] # "wait" \/ victim = NoStream =>
               /\ AsyncOnly(pipe)
               /\ pipe # <<>> \/ fd # {} \/ (\E s \in Streams : pc[s] # "idle") =>
                    active \cup left # {}

Removed(s) == gone[s] = "yes" \/ (gone[s] = "asked" /\ pc[Api] = "answered")

\* How far the removal of a stream's entry has got.
RemovedInv ==
    \A s \in Streams :
       /\ gone[s] # "no" => pc[s] = "idle"
       /\ gone[s] = "asked" =>
            /\ victim = s
            /\ pc[Api] \in {"del_fd", "del_handler", "del_cb", "commit", "wait", "answered"}
       /\ Removed(s) \/ (gone[s] = "asked" /\ pc[Api] # "del_fd") => s \notin handler
       /\ Removed(s) \/ (gone[s] = "asked" /\ pc[Api] \in {"del_cb", "commit", "wait"}) =>
            (s \in notify_cb => current = s /\ pc[Poll] \in {"del_fd", "del_handler"})
       /\ Removed(s) => current # s

IInv == TypeOK /\ NoLostUpdate /\ CallerInv /\ ThreadInv /\ UpInv /\ RemovedInv

\* A command appended to the pipe is in it with those before it.
LEMMA Appended ==
    ASSUME NEW p \in Seq(Commands), NEW c \in Commands
    PROVE  /\ Append(p, c) \in Seq(Commands)
           /\ c \in Updates => \E i \in DOMAIN Append(p, c) : Append(p, c)[i] \in Updates
           /\ (\E i \in DOMAIN p : p[i] \in Updates)
                => \E i \in DOMAIN Append(p, c) : Append(p, c)[i] \in Updates
           /\ AsyncOnly(p) /\ c = "UPDATED_ASYNC" => AsyncOnly(Append(p, c))
<1>1. Append(p, c) \in Seq(Commands)
  OBVIOUS
<1>2. DOMAIN Append(p, c) = 1 .. Len(p) + 1 /\ DOMAIN p = 1 .. Len(p) /\ Len(p) \in Nat
  OBVIOUS
<1>3. Append(p, c)[Len(p) + 1] = c /\ Len(p) + 1 \in DOMAIN Append(p, c)
  BY <1>2
<1>4. \A i \in DOMAIN p : i \in DOMAIN Append(p, c) /\ Append(p, c)[i] = p[i]
  BY <1>2
<1>5. \A i \in DOMAIN Append(p, c) : i \in DOMAIN p \/ i = Len(p) + 1
  BY <1>2
<1> QED BY <1>1, <1>3, <1>4, <1>5 DEF AsyncOnly

\* Reading a command that announces no update loses none.
LEMMA Consumed ==
    ASSUME NEW p \in Seq(Commands), p # <<>>
    PROVE  /\ Tail(p) \in Seq(Commands) /\ Head(p) \in Commands
           /\ Head(p) \notin Updates /\ (\E i \in DOMAIN p : p[i] \in Updates)
                => \E i \in DOMAIN Tail(p) : Tail(p)[i] \in Updates
<1>1. Tail(p) \in Seq(Commands) /\ Head(p) \in Commands
  OBVIOUS
<1>2. ASSUME Head(p) \notin Updates, NEW i \in DOMAIN p, p[i] \in Updates
      PROVE  i - 1 \in DOMAIN Tail(p) /\ Tail(p)[i - 1] \in Updates
  <2>1. i \in 1 .. Len(p) /\ Len(p) \in Nat /\ i # 1
    BY <1>2
  <2>2. Len(Tail(p)) = Len(p) - 1 /\ DOMAIN Tail(p) = 1 .. Len(Tail(p))
    BY <1>1
  <2>3. Tail(p)[i - 1] = p[i]
    BY <2>1
  <2> QED BY <2>1, <2>2, <2>3, <1>2
<1> QED BY <1>1, <1>2

LEMMA InitInv == Init => IInv
<1> SUFFICES ASSUME Init PROVE IInv
  OBVIOUS
<1> USE PollConstants DEF Init, Callers
<1>1. TypeOK
  BY DEF TypeOK, Commands, Places, CallPlaces, ApiPlaces
<1>2. NoLostUpdate /\ CallerInv /\ ThreadInv /\ UpInv
  BY DEF NoLostUpdate, CallerInv, ThreadInv, UpInv, Up
<1>3. RemovedInv
  BY DEF RemovedInv, Removed
<1> QED BY <1>1, <1>2, <1>3 DEF IInv

\* The fields keep their types.
LEMMA TypeStep == ASSUME IInv, [Next]_vars PROVE TypeOK'
<1> USE PollConstants DEF IInv, entries, thread, client, Fresh, Zeroed, TypeOK, Callers,
        Places, CallPlaces, ApiPlaces, Commands, Target, CallerInv
<1>1. CASE UNCHANGED vars
  BY <1>1 DEF vars
<1>2. ASSUME NEW a \in Callers, StoreHandler(a) PROVE TypeOK'
  BY <1>2 DEF StoreHandler
<1>3. ASSUME NEW a \in Callers, StoreCb(a) PROVE TypeOK'
  BY <1>3 DEF StoreCb
<1>4. ASSUME NEW a \in Callers, SigAsync(a) PROVE TypeOK'
  BY <1>4 DEF SigAsync
<1>5. CASE SigSync
  <2>1. pipe' \in Seq(Commands)
    <3>1. {"UPDATED", "COMMIT", "EXIT"} \subseteq Commands /\ pipe \in Seq(Commands)
      OBVIOUS
    <3> HIDE DEF Commands, TypeOK, IInv
    <3> QED BY <3>1, <1>5, Appended DEF SigSync
  <2>2. pc' \in [Callers -> CallPlaces \cup ApiPlaces] /\ pc'[Api] \in ApiPlaces
        /\ \A a \in Callers \ {Api} : pc'[a] \in CallPlaces
    BY <1>5 DEF SigSync
  <2> QED BY <2>1, <2>2, <1>5 DEF SigSync
<1>6. CASE StreamOffReturns
  BY <1>6 DEF StreamOffReturns
<1>7. CASE LaunchReturns
  BY <1>7 DEF LaunchReturns
<1>8. CASE Join
  BY <1>8 DEF Join
<1>9. CASE Released
  BY <1>9 DEF Released
<1>10. CASE ThreadUp
  BY <1>10 DEF ThreadUp, Answer
<1>11. CASE SetPoll
  BY <1>11 DEF SetPoll
<1>12. CASE ProcPipe
  BY <1>12 DEF ProcPipe
<1>13. CASE SigDone
  BY <1>13 DEF SigDone, Answer
<1>14. CASE ReadFrame
  BY <1>14 DEF ReadFrame, DelFd, Unlocked
<1>15. CASE NotifyReturns
  BY <1>15 DEF NotifyReturns
<1>16. CASE ScanDone
  BY <1>16 DEF ScanDone
<1>17. ASSUME NEW s \in Streams, Dispatch(s) PROVE TypeOK'
  BY <1>17 DEF Dispatch
<1>18. CASE PollData
  BY <1>18 DEF PollData
<1>19. ASSUME NEW s \in Streams, Start(s) PROVE TypeOK'
  BY <1>19 DEF Start, Unlocked
<1>20. ASSUME NEW s \in Streams, Qbuf(s) PROVE TypeOK'
  BY <1>20 DEF Qbuf, AddFd, Unlocked
<1>21. ASSUME NEW s \in Streams, QbufFails(s) PROVE TypeOK'
  BY <1>21 DEF QbufFails, DelFd, Failed
<1>22. ASSUME NEW s \in Streams, StreamOff(s) PROVE TypeOK'
  BY <1>22 DEF StreamOff, DelFd, Torn
<1>23. CASE Launch
  BY <1>23 DEF Launch
<1>24. CASE Release
  BY <1>24 DEF Release
<1>25. CASE Abandoned
  BY <1>25 DEF Abandoned
<1>26. ASSUME NEW s \in Streams, StreamOn(s) PROVE TypeOK'
  BY <1>26 DEF StreamOn
<1>27. ASSUME NEW s \in Streams, RegFails(s) PROVE TypeOK'
  BY <1>27 DEF RegFails, Failed
<1> QED BY <1>1, <1>2, <1>3, <1>4, <1>5, <1>6, <1>7, <1>8, <1>9, <1>10, <1>11, <1>12,
     <1>13, <1>14, <1>15, <1>16, <1>17, <1>18, <1>19, <1>20, <1>21, <1>22, <1>23, <1>24,
     <1>25, <1>26, <1>27 DEF Next, CallSteps, ApiSteps, ThreadSteps

\* The callers keep out of each other's way as far as buf_lock and the API thread go.
LEMMA CallerStep == ASSUME IInv, [Next]_vars PROVE CallerInv'
<1> USE PollConstants DEF IInv, entries, thread, client, Fresh, Zeroed, TypeOK, Callers,
        Places, CallPlaces, ApiPlaces, CallerInv, Target
<1>1. CASE UNCHANGED vars
  BY <1>1 DEF vars
<1>2. ASSUME NEW a \in Callers, StoreHandler(a) PROVE CallerInv'
  BY <1>2 DEF StoreHandler
<1>3. ASSUME NEW a \in Callers, StoreCb(a) PROVE CallerInv'
  BY <1>3 DEF StoreCb
<1>4. ASSUME NEW a \in Callers, SigAsync(a) PROVE CallerInv'
  BY <1>4 DEF SigAsync
<1>5. CASE SigSync
  BY <1>5 DEF SigSync
<1>6. CASE StreamOffReturns
  BY <1>6 DEF StreamOffReturns
<1>7. CASE LaunchReturns
  BY <1>7 DEF LaunchReturns
<1>8. CASE Join
  BY <1>8 DEF Join
<1>9. CASE Released
  BY <1>9 DEF Released
<1>10. CASE ThreadUp
  BY <1>10 DEF ThreadUp, Answer
<1>11. CASE SetPoll
  BY <1>11 DEF SetPoll
<1>12. CASE ProcPipe
  BY <1>12 DEF ProcPipe
<1>13. CASE SigDone
  BY <1>13 DEF SigDone, Answer
<1>14. CASE ReadFrame
  BY <1>14 DEF ReadFrame, DelFd, Unlocked
<1>15. CASE NotifyReturns
  BY <1>15 DEF NotifyReturns
<1>16. CASE ScanDone
  BY <1>16 DEF ScanDone
<1>17. ASSUME NEW s \in Streams, Dispatch(s) PROVE CallerInv'
  BY <1>17 DEF Dispatch
<1>18. CASE PollData
  BY <1>18 DEF PollData
<1>19. ASSUME NEW s \in Streams, Start(s) PROVE CallerInv'
  BY <1>19 DEF Start, Unlocked
<1>20. ASSUME NEW s \in Streams, Qbuf(s) PROVE CallerInv'
  BY <1>20 DEF Qbuf, AddFd, Unlocked
<1>21. ASSUME NEW s \in Streams, QbufFails(s) PROVE CallerInv'
  BY <1>21 DEF QbufFails, DelFd, Failed
<1>22. ASSUME NEW s \in Streams, StreamOff(s) PROVE CallerInv'
  BY <1>22 DEF StreamOff, DelFd, Torn
<1>23. CASE Launch
  BY <1>23 DEF Launch
<1>24. CASE Release
  BY <1>24 DEF Release
<1>25. CASE Abandoned
  BY <1>25 DEF Abandoned
<1>26. ASSUME NEW s \in Streams, StreamOn(s) PROVE CallerInv'
  BY <1>26 DEF StreamOn
<1>27. ASSUME NEW s \in Streams, RegFails(s) PROVE CallerInv'
  BY <1>27 DEF RegFails, Failed
<1> QED BY <1>1, <1>2, <1>3, <1>4, <1>5, <1>6, <1>7, <1>8, <1>9, <1>10, <1>11, <1>12,
     <1>13, <1>14, <1>15, <1>16, <1>17, <1>18, <1>19, <1>20, <1>21, <1>22, <1>23, <1>24,
     <1>25, <1>26, <1>27 DEF Next, CallSteps, ApiSteps, ThreadSteps

\* A release begins when no stream is in use, and none is used until it is through.
LEMMA ThreadStep == ASSUME IInv, [Next]_vars PROVE ThreadInv'
<1> USE PollConstants DEF IInv, entries, thread, client, Fresh, Zeroed, TypeOK, Callers,
        Places, CallPlaces, ApiPlaces, CallerInv, ThreadInv
<1>1. CASE UNCHANGED vars
  BY <1>1 DEF vars
<1>2. ASSUME NEW a \in Callers, StoreHandler(a) PROVE ThreadInv'
  BY <1>2 DEF StoreHandler
<1>3. ASSUME NEW a \in Callers, StoreCb(a) PROVE ThreadInv'
  BY <1>3 DEF StoreCb
<1>4. ASSUME NEW a \in Callers, SigAsync(a) PROVE ThreadInv'
  BY <1>4 DEF SigAsync
<1>5. CASE SigSync
  BY <1>5 DEF SigSync
<1>6. CASE StreamOffReturns
  BY <1>6 DEF StreamOffReturns
<1>7. CASE LaunchReturns
  BY <1>7 DEF LaunchReturns
<1>8. CASE Join
  BY <1>8 DEF Join
<1>9. CASE Released
  BY <1>9 DEF Released
<1>10. CASE ThreadUp
  BY <1>10 DEF ThreadUp, Answer
<1>11. CASE SetPoll
  BY <1>11 DEF SetPoll
<1>12. CASE ProcPipe
  BY <1>12 DEF ProcPipe
<1>13. CASE SigDone
  BY <1>13 DEF SigDone, Answer
<1>14. CASE ReadFrame
  BY <1>14 DEF ReadFrame, DelFd, Unlocked
<1>15. CASE NotifyReturns
  BY <1>15 DEF NotifyReturns
<1>16. CASE ScanDone
  BY <1>16 DEF ScanDone
<1>17. ASSUME NEW s \in Streams, Dispatch(s) PROVE ThreadInv'
  BY <1>17 DEF Dispatch
<1>18. CASE PollData
  BY <1>18 DEF PollData
<1>19. ASSUME NEW s \in Streams, Start(s) PROVE ThreadInv'
  BY <1>19 DEF Start, Unlocked
<1>20. ASSUME NEW s \in Streams, Qbuf(s) PROVE ThreadInv'
  BY <1>20 DEF Qbuf, AddFd, Unlocked
<1>21. ASSUME NEW s \in Streams, QbufFails(s) PROVE ThreadInv'
  BY <1>21 DEF QbufFails, DelFd, Failed
<1>22. ASSUME NEW s \in Streams, StreamOff(s) PROVE ThreadInv'
  BY <1>22 DEF StreamOff, DelFd, Torn
<1>23. CASE Launch
  BY <1>23 DEF Launch
<1>24. CASE Release
  BY <1>24 DEF Release
<1>25. CASE Abandoned
  BY <1>25 DEF Abandoned
<1>26. ASSUME NEW s \in Streams, StreamOn(s) PROVE ThreadInv'
  BY <1>26 DEF StreamOn
<1>27. ASSUME NEW s \in Streams, RegFails(s) PROVE ThreadInv'
  BY <1>27 DEF RegFails, Failed
<1> QED BY <1>1, <1>2, <1>3, <1>4, <1>5, <1>6, <1>7, <1>8, <1>9, <1>10, <1>11, <1>12,
     <1>13, <1>14, <1>15, <1>16, <1>17, <1>18, <1>19, <1>20, <1>21, <1>22, <1>23, <1>24,
     <1>25, <1>26, <1>27 DEF Next, CallSteps, ApiSteps, ThreadSteps

\* Until the thread polls, a synchronous command finds its sender waiting.
LEMMA UpStep == ASSUME IInv, [Next]_vars PROVE UpInv'
<1> USE PollConstants DEF IInv, entries, thread, client, Fresh, Zeroed, TypeOK, Callers,
        Places, CallPlaces, ApiPlaces, CallerInv, ThreadInv, UpInv, Up
<1>1. CASE UNCHANGED vars
  BY <1>1 DEF vars
<1>2. ASSUME NEW a \in Callers, StoreHandler(a) PROVE UpInv'
  BY <1>2 DEF StoreHandler
<1>3. ASSUME NEW a \in Callers, StoreCb(a) PROVE UpInv'
  BY <1>3 DEF StoreCb
<1>4. ASSUME NEW a \in Callers, SigAsync(a) PROVE UpInv'
  <2>1. AsyncOnly(pipe) => AsyncOnly(pipe')
    <3>1. "UPDATED_ASYNC" \in Commands /\ pipe \in Seq(Commands)
      BY DEF Commands
    <3>2. pipe' = Append(pipe, "UPDATED_ASYNC")
      BY <1>4 DEF SigAsync
    <3> HIDE DEF IInv, TypeOK, UpInv
    <3> QED BY <3>1, <3>2, Appended
  <2>2. Up => \E s \in Streams : pc[s] # "idle"
    BY <1>4 DEF SigAsync
  <2>3. /\ UNCHANGED <<loop, state, victim, fd, active, left>>
        /\ pc'[Api] = pc[Api]
    BY <1>4 DEF SigAsync
  <2> QED BY <2>1, <2>2, <2>3
<1>5. CASE SigSync
  BY <1>5 DEF SigSync
<1>6. CASE StreamOffReturns
  BY <1>6 DEF StreamOffReturns
<1>7. CASE LaunchReturns
  BY <1>7 DEF LaunchReturns
<1>8. CASE Join
  BY <1>8 DEF Join
<1>9. CASE Released
  BY <1>9 DEF Released
<1>10. CASE ThreadUp
  BY <1>10 DEF ThreadUp, Answer
<1>11. CASE SetPoll
  BY <1>11 DEF SetPoll
<1>12. CASE ProcPipe
  BY <1>12 DEF ProcPipe
<1>13. CASE SigDone
  BY <1>13 DEF SigDone, Answer
<1>14. CASE ReadFrame
  BY <1>14 DEF ReadFrame, DelFd, Unlocked
<1>15. CASE NotifyReturns
  BY <1>15 DEF NotifyReturns
<1>16. CASE ScanDone
  BY <1>16 DEF ScanDone
<1>17. ASSUME NEW s \in Streams, Dispatch(s) PROVE UpInv'
  BY <1>17 DEF Dispatch
<1>18. CASE PollData
  BY <1>18 DEF PollData
<1>19. ASSUME NEW s \in Streams, Start(s) PROVE UpInv'
  BY <1>19 DEF Start, Unlocked
<1>20. ASSUME NEW s \in Streams, Qbuf(s) PROVE UpInv'
  BY <1>20 DEF Qbuf, AddFd, Unlocked
<1>21. ASSUME NEW s \in Streams, QbufFails(s) PROVE UpInv'
  BY <1>21 DEF QbufFails, DelFd, Failed
<1>22. ASSUME NEW s \in Streams, StreamOff(s) PROVE UpInv'
  BY <1>22 DEF StreamOff, DelFd, Torn
<1>23. CASE Launch
  BY <1>23 DEF Launch, AsyncOnly
<1>24. CASE Release
  BY <1>24 DEF Release
<1>25. CASE Abandoned
  BY <1>25 DEF Abandoned
<1>26. ASSUME NEW s \in Streams, StreamOn(s) PROVE UpInv'
  BY <1>26 DEF StreamOn
<1>27. ASSUME NEW s \in Streams, RegFails(s) PROVE UpInv'
  BY <1>27 DEF RegFails, Failed
<1> QED BY <1>1, <1>2, <1>3, <1>4, <1>5, <1>6, <1>7, <1>8, <1>9, <1>10, <1>11, <1>12,
     <1>13, <1>14, <1>15, <1>16, <1>17, <1>18, <1>19, <1>20, <1>21, <1>22, <1>23, <1>24,
     <1>25, <1>26, <1>27 DEF Next, CallSteps, ApiSteps, ThreadSteps

\* Whoever changes an entry has still to announce it, or has.
LEMMA UpdateStep == ASSUME IInv, [Next]_vars PROVE NoLostUpdate'
<1> USE PollConstants DEF IInv, entries, thread, client, Fresh, Zeroed, TypeOK, Callers,
        Places, CallPlaces, ApiPlaces, CallerInv, ThreadInv, NoLostUpdate, Target
<1>1. CASE UNCHANGED vars
  BY <1>1 DEF vars
<1>2. ASSUME NEW a \in Callers, StoreHandler(a) PROVE NoLostUpdate'
  BY <1>2 DEF StoreHandler
<1>3. ASSUME NEW a \in Callers, StoreCb(a) PROVE NoLostUpdate'
  BY <1>3 DEF StoreCb
<1>4. ASSUME NEW a \in Callers, SigAsync(a) PROVE NoLostUpdate'
  <2>1. "UPDATED_ASYNC" \in Commands \cap Updates /\ pipe \in Seq(Commands)
    BY DEF Commands, Updates
  <2>2. \E i \in DOMAIN pipe' : pipe'[i] \in Updates
    BY <1>4, <2>1, Appended DEF SigAsync
  <2> QED BY <2>2
<1>5. CASE SigSync
  <2>1. {"UPDATED", "COMMIT", "EXIT"} \subseteq Commands /\ "UPDATED" \in Updates
        /\ pipe \in Seq(Commands)
    BY DEF Commands, Updates
  <2>2. CASE pc[Api] = "del_cb"
    <3>1. \E i \in DOMAIN pipe' : pipe'[i] \in Updates
      BY <1>5, <2>1, <2>2, Appended DEF SigSync
    <3> QED BY <3>1
  <2>3. CASE pc[Api] \in {"commit", "exit"}
    <3>1. (\E i \in DOMAIN pipe : pipe[i] \in Updates)
            => \E i \in DOMAIN pipe' : pipe'[i] \in Updates
      <4> HIDE DEF IInv, TypeOK, NoLostUpdate
      <4> QED BY <1>5, <2>1, <2>3, Appended DEF SigSync
    <3>2. \A a \in Callers \ {Api} : pc'[a] = pc[a] /\ Target(a)' = Target(a)
      BY <1>5 DEF SigSync
    <3>3. pc[Api] = "exit" => victim = NoStream
      OBVIOUS
    <3> QED BY <3>1, <3>2, <3>3, <2>3, <1>5 DEF SigSync
  <2> QED BY <2>2, <2>3, <1>5 DEF SigSync
<1>6. CASE StreamOffReturns
  BY <1>6 DEF StreamOffReturns
<1>7. CASE LaunchReturns
  BY <1>7 DEF LaunchReturns
<1>8. CASE Join
  BY <1>8 DEF Join
<1>9. CASE Released
  BY <1>9 DEF Released
<1>10. CASE ThreadUp
  BY <1>10 DEF ThreadUp, Answer
<1>11. CASE SetPoll
  BY <1>11 DEF SetPoll
<1>12. CASE ProcPipe
  <2>1. pipe \in Seq(Commands)
    OBVIOUS
  <2>2. CASE Head(pipe) \in Updates
    BY <1>12, <2>2 DEF ProcPipe, Updates
  <2>3. CASE Head(pipe) \notin Updates
    <3>1. (\E i \in DOMAIN pipe : pipe[i] \in Updates)
            => \E i \in DOMAIN pipe' : pipe'[i] \in Updates
      BY <1>12, <2>1, <2>3, Consumed DEF ProcPipe
    <3>2. watched' = watched /\ fd' = fd /\ pc' = pc /\ loop # "off"
      BY <1>12, <2>3 DEF ProcPipe, Updates
    <3>3. \A a \in Callers : Target(a)' = Target(a)
      BY <1>12 DEF ProcPipe
    <3> QED BY <3>1, <3>2, <3>3
  <2> QED BY <2>2, <2>3
<1>13. CASE SigDone
  BY <1>13 DEF SigDone, Answer
<1>14. CASE ReadFrame
  BY <1>14 DEF ReadFrame, DelFd, Unlocked
<1>15. CASE NotifyReturns
  BY <1>15 DEF NotifyReturns
<1>16. CASE ScanDone
  BY <1>16 DEF ScanDone
<1>17. ASSUME NEW s \in Streams, Dispatch(s) PROVE NoLostUpdate'
  BY <1>17 DEF Dispatch
<1>18. CASE PollData
  BY <1>18 DEF PollData
<1>19. ASSUME NEW s \in Streams, Start(s) PROVE NoLostUpdate'
  BY <1>19 DEF Start, Unlocked
<1>20. ASSUME NEW s \in Streams, Qbuf(s) PROVE NoLostUpdate'
  BY <1>20 DEF Qbuf, AddFd, Unlocked
<1>21. ASSUME NEW s \in Streams, QbufFails(s) PROVE NoLostUpdate'
  BY <1>21 DEF QbufFails, DelFd, Failed
<1>22. ASSUME NEW s \in Streams, StreamOff(s) PROVE NoLostUpdate'
  BY <1>22 DEF StreamOff, DelFd, Torn
<1>23. CASE Launch
  BY <1>23 DEF Launch
<1>24. CASE Release
  BY <1>24 DEF Release
<1>25. CASE Abandoned
  BY <1>25 DEF Abandoned
<1>26. ASSUME NEW s \in Streams, StreamOn(s) PROVE NoLostUpdate'
  BY <1>26 DEF StreamOn
<1>27. ASSUME NEW s \in Streams, RegFails(s) PROVE NoLostUpdate'
  BY <1>27 DEF RegFails, Failed
<1> QED BY <1>1, <1>2, <1>3, <1>4, <1>5, <1>6, <1>7, <1>8, <1>9, <1>10, <1>11, <1>12,
     <1>13, <1>14, <1>15, <1>16, <1>17, <1>18, <1>19, <1>20, <1>21, <1>22, <1>23, <1>24,
     <1>25, <1>26, <1>27 DEF Next, CallSteps, ApiSteps, ThreadSteps

\* A removal only moves forward, until the stream is used again.
LEMMA RemovedStep == ASSUME IInv, [Next]_vars PROVE RemovedInv'
<1> USE PollConstants DEF IInv, entries, thread, client, Fresh, Zeroed, TypeOK, Callers,
        Places, CallPlaces, ApiPlaces, CallerInv, RemovedInv, Removed, Target
<1>1. CASE UNCHANGED vars
  BY <1>1 DEF vars
<1>2. ASSUME NEW a \in Callers, StoreHandler(a) PROVE RemovedInv'
  BY <1>2 DEF StoreHandler
<1>3. ASSUME NEW a \in Callers, StoreCb(a) PROVE RemovedInv'
  BY <1>3 DEF StoreCb
<1>4. ASSUME NEW a \in Callers, SigAsync(a) PROVE RemovedInv'
  BY <1>4 DEF SigAsync
<1>5. CASE SigSync
  BY <1>5 DEF SigSync
<1>6. CASE StreamOffReturns
  BY <1>6 DEF StreamOffReturns
<1>7. CASE LaunchReturns
  BY <1>7 DEF LaunchReturns
<1>8. CASE Join
  BY <1>8 DEF Join
<1>9. CASE Released
  BY <1>9 DEF Released
<1>10. CASE ThreadUp
  BY <1>10 DEF ThreadUp, Answer
<1>11. CASE SetPoll
  BY <1>11 DEF SetPoll
<1>12. CASE ProcPipe
  BY <1>12 DEF ProcPipe
<1>13. CASE SigDone
  BY <1>13 DEF SigDone, Answer
<1>14. CASE ReadFrame
  BY <1>14 DEF ReadFrame, DelFd, Unlocked
<1>15. CASE NotifyReturns
  BY <1>15 DEF NotifyReturns
<1>16. CASE ScanDone
  BY <1>16 DEF ScanDone
<1>17. ASSUME NEW s \in Streams, Dispatch(s) PROVE RemovedInv'
  BY <1>17 DEF Dispatch
<1>18. CASE PollData
  BY <1>18 DEF PollData
<1>19. ASSUME NEW s \in Streams, Start(s) PROVE RemovedInv'
  BY <1>19 DEF Start, Unlocked
<1>20. ASSUME NEW s \in Streams, Qbuf(s) PROVE RemovedInv'
  BY <1>20 DEF Qbuf, AddFd, Unlocked
<1>21. ASSUME NEW s \in Streams, QbufFails(s) PROVE RemovedInv'
  BY <1>21 DEF QbufFails, DelFd, Failed
<1>22. ASSUME NEW s \in Streams, StreamOff(s) PROVE RemovedInv'
  BY <1>22 DEF StreamOff, DelFd, Torn
<1>23. CASE Launch
  BY <1>23 DEF Launch
<1>24. CASE Release
  BY <1>24 DEF Release
<1>25. CASE Abandoned
  BY <1>25 DEF Abandoned
<1>26. ASSUME NEW s \in Streams, StreamOn(s) PROVE RemovedInv'
  BY <1>26 DEF StreamOn
<1>27. ASSUME NEW s \in Streams, RegFails(s) PROVE RemovedInv'
  BY <1>27 DEF RegFails, Failed
<1> QED BY <1>1, <1>2, <1>3, <1>4, <1>5, <1>6, <1>7, <1>8, <1>9, <1>10, <1>11, <1>12,
     <1>13, <1>14, <1>15, <1>16, <1>17, <1>18, <1>19, <1>20, <1>21, <1>22, <1>23, <1>24,
     <1>25, <1>26, <1>27 DEF Next, CallSteps, ApiSteps, ThreadSteps

\* The inductive invariant holds in every reachable state.
THEOREM PollInvariant == Spec => []IInv
<1>1. Init => IInv
  BY InitInv
<1>2. IInv /\ [Next]_vars => IInv'
  BY TypeStep, CallerStep, ThreadStep, UpStep, UpdateStep, RemovedStep DEF IInv
<1> QED BY <1>1, <1>2, PTL DEF Spec

\* The fields of the poll thread keep their types; above all a callback that runs is one
\* of a stream (mm_camera_thread.c:306-324).
THEOREM PollTypeCorrect == Spec => []TypeOK
<1>1. IInv => TypeOK
  BY DEF IInv
<1> QED BY <1>1, PollInvariant, PTL

\* Every store to poll_entries reaches poll_fds or is announced, although three kinds of
\* callers store without a lock (mm_camera_thread.c:427-430, 476-478).
THEOREM UpdatesArrive == Spec => []NoLostUpdate
<1>1. IInv => NoLostUpdate
  BY DEF IInv
<1> QED BY <1>1, PollInvariant, PTL

\* A stream whose fd STOP has removed is not called until the fd is added again, also if the
\* poll thread removed it at the same time (mm_camera_stream.c:1210-1221).
THEOREM RemovalHolds == Spec => []SyncRemoved
<1>1. IInv => SyncRemoved
  BY DEF IInv, RemovedInv, Removed, SyncRemoved
<1> QED BY <1>1, PollInvariant, PTL

\* A thread that a release leaves behind has no caller that waits for it, and nothing to do
\* unless a REG_BUF failed: no STREAMOFF returned before the thread polled
\* (mm_camera_thread.c:353, 546, mm_camera_stream.c:1211).
THEOREM UnjoinedRests == Spec => []UnjoinedIdle
<1>1. IInv => UnjoinedIdle
  BY DEF IInv, ThreadInv, UpInv, Up, AsyncOnly, UnjoinedIdle, TypeOK
<1> QED BY <1>1, PollInvariant, PTL
=============================================================================
