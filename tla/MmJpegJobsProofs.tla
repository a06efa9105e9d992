--------------------------- MODULE MmJpegJobsProofs ---------------------------
(***************************************************************************)
(* A job is answered once, and not after the client has it back; encoders  *)
(* and output buffers are each in one place, and OMX never has more jobs   *)
(* than it may: for any clients, encoders and scenes in which a session    *)
(* has one encoder (and, for the pools, jobs name their output buffer).    *)
(***************************************************************************)
EXTENDS MmJpegJobs, FiniteSetTheorems, FunctionTheorems, WellFoundedInduction, TLAPS

-----------------------------------------------------------------------------
(* The inductive invariant.                                                *)

\* MM_JPEG_CONCURRENT_SESSIONS_COUNT is 1 on this device: the chain of a session has one
\* encoder (none: the scene has no such client), which is no other session's.
OneEncoder == \A sc \in Scenes :
    /\ \A s \in Session : Len(sc.chain[s]) <= 1
    /\ \A s, t \in Session : s # t /\ sc.chain[s] # <<>> /\ sc.chain[t] # <<>> =>
            Head(sc.chain[s]) # Head(sc.chain[t])

HasEncoder(s) == Chain(s) # <<>>
Encoder(s) == Head(Chain(s))

\* A job that may still be answered.
Open(j) == j \in Jobs /\ answers[j] = <<>> /\ j \notin gone
\* An encoder whose answer would be the job's.
Running(h) == sess[h].encoding /\ sess[h].abort = "NONE"
\* The manager has a job, or an encoder as well.
HasJob == mgr.pc \in {"again", "buffer", "assign", "encode"}
HasHandle == mgr.pc \in {"buffer", "assign", "encode"}
\* The call that is stopping a session, while the session's encoder is given up.
Stopping == call.pc \in {"mark", "await", "idle", "load", "loaded", "free"}

CallType ==
    /\ call \in [op: {"none", "abort", "destroy", "close"},
                 pc: {"none", "lock", "mark", "await", "idle", "load", "loaded", "free",
                      "exit", "join"},
                 s: Session \cup {IdleCall.s}, job: Job \cup {EXIT}, h: Handle \cup {NoHandle}]
    /\ call.op # "none" => call.s \in Session
    /\ call.op = "none" <=> call.pc = "none"
    /\ call.pc \in {"idle", "load", "loaded", "free"} => call.op = "destroy"
    /\ call.pc \in {"exit", "join"} => call.op = "close"

\* Jobs that were not started have no past.
FreshInv == \A j \in Job : j \notin Jobs => answers[j] = <<>> /\ j \notin gone

\* A session that is there has an encoder; the encoder of one that is not is aborted.
ClientInv ==
    \A s \in Session :
        /\ client[s].active => HasEncoder(s) /\ client[s].id
        /\ ~client[s].active /\ HasEncoder(s) => sess[Encoder(s)].abort # "NONE"

\* A free encoder is in nobody's hands.
HandleInv ==
    \A s \in Session : client[s].session_handle_q # <<>> =>
        /\ client[s].active /\ client[s].session_handle_q = Chain(s)
        /\ ~sess[Encoder(s)].encoding /\ omxThread[Encoder(s)] # "requeue"
        /\ ~(HasHandle /\ mgr.h = Encoder(s))

\* The job in the manager's hands is nowhere else, and its encoder does nothing.
MgrInv ==
    /\ HasJob =>
        /\ mgr.job \in Job /\ Open(mgr.job) /\ client[mgr.job[1]].active
        /\ mgr.job \notin Range(job_queue)
        /\ \A h \in Handle : Running(h) => sess[h].job # mgr.job
    /\ HasHandle =>
        /\ HasEncoder(mgr.job[1]) /\ mgr.h = Encoder(mgr.job[1])
        /\ ~sess[mgr.h].encoding /\ omxThread[mgr.h] # "requeue"
    /\ mgr.pc = "encode" => sess[mgr.h].job = mgr.job /\ mgr.job \in ongoing_job_q

Uniq(queue) == \A i, k \in DOMAIN queue : queue[i] = queue[k] => i = k

\* A job that waits is in the queue once, in no encoder, and none of a session that is going.
QueueInv ==
    /\ Uniq(job_queue)
    /\ \A j \in Range(job_queue) : j # EXIT =>
        /\ Open(j) /\ client[j[1]].active
        /\ \A h \in Handle : Running(h) => sess[h].job # j
        /\ Stopping => j # call.job /\ (call.op # "abort" => j[1] # call.s)
    /\ EXIT \in Range(job_queue) => call.pc = "join" /\ mgr.pc # "dead"

\* An encoder works on a job of its own session, which the ongoing queue has unless a call
\* took it to stop the encoder; the encoder is busy only then.
RunInv ==
    \A h \in Handle :
        /\ Running(h) =>
            /\ sess[h].job \in Job /\ Open(sess[h].job)
            /\ HasEncoder(sess[h].job[1]) /\ h = Encoder(sess[h].job[1])
            /\ sess[h].job \in ongoing_job_q \/ (call.pc = "mark" /\ call.s = sess[h].job[1])
        /\ omx[h].busy => sess[h].encoding
        /\ omxThread[h] # "none" =>
            /\ sess[h].abort = "NONE" /\ sess[h].lock = "omx"
        /\ omxThread[h] = "requeue" =>
            /\ ~sess[h].encoding /\ sess[h].job \in Job
            /\ HasEncoder(sess[h].job[1]) /\ h = Encoder(sess[h].job[1])

\* The call is about a session that is there, until its encoder is aborted. The manager
\* ends for the close that waits for it.
CallInv ==
    /\ call.pc = "lock" \/ Stopping => client[call.s].active
    /\ Stopping => HasEncoder(call.s) /\ call.h = Encoder(call.s)
    /\ Stopping /\ call.pc # "mark" => sess[call.h].abort # "NONE"
    /\ call.op = "abort" => call.job \in Jobs /\ call.job[1] = call.s
    /\ call.op # "none" /\ call.op # "abort" => call.job = EXIT
    /\ call.pc \in {"exit", "join"} => ~client[call.s].active
    /\ mgr.pc = "dead" => call.pc \in {"none", "join"}

IInv == /\ TypeOK /\ CallType /\ FreshInv /\ ClientInv /\ HandleInv /\ MgrInv /\ QueueInv
        /\ RunInv /\ CallInv

-----------------------------------------------------------------------------
(* Queues: what they hold, and that they hold it once.                     *)

LEMMA RangeIs ==
    ASSUME NEW S, NEW queue \in Seq(S)
    PROVE  Range(queue) = {queue[i] : i \in 1..Len(queue)} /\ DOMAIN queue = 1..Len(queue)
BY DEF Range

LEMMA AppendKeeps ==
    ASSUME NEW S, NEW queue \in Seq(S), NEW x \in S
    PROVE  /\ Append(queue, x) \in Seq(S) /\ Range(Append(queue, x)) = Range(queue) \cup {x}
           /\ Uniq(queue) /\ x \notin Range(queue) => Uniq(Append(queue, x))
<1> DEFINE r == Append(queue, x)
<1>1. r \in Seq(S) /\ Len(r) = Len(queue) + 1 /\ r[Len(r)] = x /\ Len(queue) \in Nat
      /\ \A i \in 1..Len(queue) : r[i] = queue[i]
  OBVIOUS
<1>2. 1..Len(r) = 1..Len(queue) \cup {Len(r)}
  BY <1>1
<1>3. Range(r) = {r[i] : i \in 1..Len(r)} /\ DOMAIN r = 1..Len(r)
  BY <1>1, RangeIs
<1>4. Range(queue) = {queue[i] : i \in 1..Len(queue)} /\ DOMAIN queue = 1..Len(queue)
  BY RangeIs
<1> HIDE DEF r
<1>5. Range(r) = Range(queue) \cup {x}
  BY <1>1, <1>2, <1>3, <1>4
<1>6. ASSUME Uniq(queue), x \notin Range(queue) PROVE Uniq(r)
  BY <1>1, <1>2, <1>3, <1>4, <1>6 DEF Uniq
<1> QED BY <1>1, <1>5, <1>6 DEF r

LEMMA PrependKeeps ==
    ASSUME NEW S, NEW queue \in Seq(S), NEW x \in S
    PROVE  /\ <<x>> \o queue \in Seq(S) /\ Range(<<x>> \o queue) = Range(queue) \cup {x}
           /\ Uniq(queue) /\ x \notin Range(queue) => Uniq(<<x>> \o queue)
<1> DEFINE r == <<x>> \o queue
<1>1. r \in Seq(S) /\ Len(r) = Len(queue) + 1 /\ r[1] = x /\ Len(queue) \in Nat
      /\ \A i \in 1..Len(queue) : r[i + 1] = queue[i]
  OBVIOUS
<1>2. \A i \in 1..Len(r) : i = 1 \/ (i - 1 \in 1..Len(queue) /\ r[i] = queue[i - 1])
  BY <1>1
<1>3. Range(r) = {r[i] : i \in 1..Len(r)} /\ DOMAIN r = 1..Len(r)
  BY <1>1, RangeIs
<1>4. Range(queue) = {queue[i] : i \in 1..Len(queue)} /\ DOMAIN queue = 1..Len(queue)
  BY RangeIs
<1> HIDE DEF r
<1>5. Range(r) = Range(queue) \cup {x}
  <2>1. ASSUME NEW y \in Range(r) PROVE y \in Range(queue) \cup {x}
    BY <1>1, <1>2, <1>3, <1>4
  <2>2. ASSUME NEW y \in Range(queue) PROVE y \in Range(r)
    <3>1. PICK i \in 1..Len(queue) : y = queue[i]
      BY <1>4
    <3>2. i + 1 \in 1..Len(r)
      BY <1>1
    <3> QED BY <1>1, <1>3, <3>1, <3>2
  <2>3. x \in Range(r)
    BY <1>1, <1>3
  <2> QED BY <2>1, <2>2, <2>3
<1>6. ASSUME Uniq(queue), x \notin Range(queue) PROVE Uniq(r)
  <2> SUFFICES ASSUME NEW i \in 1..Len(r), NEW k \in 1..Len(r), r[i] = r[k] PROVE i = k
    BY <1>3 DEF Uniq
  <2>1. r[i] = x <=> i = 1
    BY <1>1, <1>2, <1>4, <1>6
  <2>2. r[k] = x <=> k = 1
    BY <1>1, <1>2, <1>4, <1>6
  <2>3. CASE i = 1
    BY <2>1, <2>2, <2>3
  <2>4. CASE i # 1
    <3>1. k # 1
      BY <2>1, <2>2, <2>4
    <3>2. i - 1 \in DOMAIN queue /\ k - 1 \in DOMAIN queue /\ queue[i - 1] = queue[k - 1]
      BY <1>2, <1>4, <2>4, <3>1
    <3>3. i - 1 = k - 1
      BY <1>6, <3>2 DEF Uniq
    <3> QED BY <3>3
  <2> QED BY <2>3, <2>4
<1> QED BY <1>1, <1>5, <1>6 DEF r

LEMMA TailKeeps ==
    ASSUME NEW S, NEW queue \in Seq(S), queue # <<>>, Uniq(queue)
    PROVE  /\ Tail(queue) \in Seq(S) /\ Head(queue) \in Range(queue) /\ Head(queue) \in S
           /\ Range(Tail(queue)) = Range(queue) \ {Head(queue)}
           /\ Uniq(Tail(queue))
<1> DEFINE r == Tail(queue)
<1>1. r \in Seq(S) /\ Len(queue) = Len(r) + 1 /\ Head(queue) = queue[1] /\ Len(r) \in Nat
      /\ \A i \in 1..Len(r) : r[i] = queue[i + 1]
  OBVIOUS
<1>2. Range(r) = {r[i] : i \in 1..Len(r)} /\ DOMAIN r = 1..Len(r)
  BY <1>1, RangeIs
<1>3. Range(queue) = {queue[i] : i \in 1..Len(queue)} /\ DOMAIN queue = 1..Len(queue)
  BY RangeIs
<1>4. \A i \in 1..Len(queue) : i = 1 \/ (i - 1 \in 1..Len(r) /\ r[i - 1] = queue[i])
  BY <1>1
<1>5. Head(queue) \in S /\ 1 \in 1..Len(queue)
  BY <1>1
<1> HIDE DEF r
<1>6. ASSUME NEW y \in Range(r) PROVE y \in Range(queue) /\ y # Head(queue)
  <2>1. PICK i \in 1..Len(r) : y = queue[i + 1]
    BY <1>1, <1>2
  <2>2. i + 1 \in 1..Len(queue) /\ i + 1 # 1
    BY <1>1
  <2> QED BY <1>1, <1>3, <1>5, <2>1, <2>2 DEF Uniq
<1>7. ASSUME NEW y \in Range(queue), y # Head(queue) PROVE y \in Range(r)
  BY <1>1, <1>2, <1>3, <1>4, <1>7
<1>8. Uniq(r)
  <2> SUFFICES ASSUME NEW i \in 1..Len(r), NEW k \in 1..Len(r), r[i] = r[k] PROVE i = k
    BY <1>2 DEF Uniq
  <2>1. i + 1 \in 1..Len(queue) /\ k + 1 \in 1..Len(queue) /\ queue[i + 1] = queue[k + 1]
    BY <1>1
  <2>2. i + 1 = k + 1
    BY <1>3, <2>1 DEF Uniq
  <2> QED BY <2>2
<1> QED BY <1>1, <1>3, <1>5, <1>6, <1>7, <1>8 DEF r

\* What holds of 0 and passes on to the next number holds of all.
LEMMA Induction ==
    ASSUME NEW T \in SUBSET Nat, 0 \in T, \A n \in T : n + 1 \in T
    PROVE  T = Nat
<1> SUFFICES ASSUME Nat \ T # {} PROVE FALSE
  OBVIOUS
<1>1. PICK n \in Nat \ T : \A k \in Nat \ T : <<k, n>> \notin OpToRel(<, Nat)
  BY NatLessThanWellFounded, WFMin, Nat \ T \subseteq Nat, Zenon
<1>2. n \in Nat /\ n - 1 \in Nat /\ n - 1 < n /\ n = (n - 1) + 1
  BY n # 0
<1>3. n - 1 \notin T
  BY <1>2
<1>4. <<n - 1, n>> \in OpToRel(<, Nat)
  BY <1>2, Zenon DEF OpToRel
<1> QED BY <1>1, <1>2, <1>3, <1>4

\* Without computes what its definition says, step by step.
Step(queue, T, f, i) ==
    IF i = 0 THEN <<>> ELSE IF queue[i] \in T THEN f[i - 1] ELSE Append(f[i - 1], queue[i])

LEMMA WithoutIs ==
    ASSUME NEW S, NEW queue \in Seq(S), NEW T
    PROVE  \E f : /\ f = [i \in 0..Len(queue) |-> Step(queue, T, f, i)]
                  /\ Without(queue, T) = f[Len(queue)]
<1> DEFINE To(n) == \E f : f = [i \in 0..n |-> Step(queue, T, f, i)]
           N == {n \in Nat : To(n)}
<1>1. To(0)
  <2> DEFINE f == [i \in 0..0 |-> <<>>]
  <2>1. f = [i \in 0..0 |-> Step(queue, T, f, i)]
    BY DEF Step
  <2> QED BY <2>1
<1>2. ASSUME NEW n \in Nat, To(n) PROVE To(n + 1)
  <2>1. PICK f : f = [i \in 0..n |-> Step(queue, T, f, i)]
    BY <1>2
  <2> DEFINE g == [i \in 0..(n + 1) |-> IF i \in 0..n THEN f[i] ELSE Step(queue, T, f, i)]
  <2>2. ASSUME NEW i \in 0..(n + 1) PROVE g[i] = Step(queue, T, f, i)
    BY <2>1
  <2>3. ASSUME NEW i \in 0..(n + 1) PROVE Step(queue, T, f, i) = Step(queue, T, g, i)
    <3>1. i = 0 \/ (i - 1 \in 0..n /\ i - 1 \in 0..(n + 1))
      OBVIOUS
    <3> QED BY <3>1 DEF Step
  <2>4. g = [i \in 0..(n + 1) |-> Step(queue, T, g, i)]
    <3> HIDE DEF g
    <3>1. g = [i \in 0..(n + 1) |-> g[i]]
      BY DEF g
    <3> QED BY <2>2, <2>3, <3>1
  <2> QED BY <2>4
<1>3. N = Nat
  <2>1. 0 \in N /\ N \in SUBSET Nat
    BY <1>1
  <2>2. \A n \in N : n + 1 \in N
    BY <1>2
  <2> HIDE DEF N
  <2> QED BY <2>1, <2>2, Induction
<1>4. To(Len(queue))
  BY <1>3
<1> DEFINE rest == CHOOSE f : f = [i \in 0..Len(queue) |-> Step(queue, T, f, i)]
<1>5. rest = [i \in 0..Len(queue) |-> Step(queue, T, rest, i)]
  BY <1>4
<1>6. Without(queue, T) = rest[Len(queue)]
  BY DEF Without, Step
<1> QED BY <1>5, <1>6

LEMMA WithoutKeeps ==
    ASSUME NEW S, NEW queue \in Seq(S), NEW T
    PROVE  /\ Without(queue, T) \in Seq(S) /\ Range(Without(queue, T)) \subseteq Range(queue) \ T
           /\ Uniq(queue) => Uniq(Without(queue, T))
<1>1. PICK f : /\ f = [i \in 0..Len(queue) |-> Step(queue, T, f, i)]
               /\ Without(queue, T) = f[Len(queue)]
  BY WithoutIs
<1> DEFINE Kept(i) == /\ f[i] \in Seq(S) /\ Range(f[i]) \subseteq {queue[k] : k \in 1..i} \ T
                      /\ Uniq(queue) => Uniq(f[i])
           N == {n \in Nat : n <= Len(queue) => Kept(n)}
<1>2. Len(queue) \in Nat /\ DOMAIN queue = 1..Len(queue)
  OBVIOUS
<1>3. Kept(0)
  <2>1. f[0] = <<>>
    BY <1>1, <1>2 DEF Step
  <2>2. <<>> \in Seq(S) /\ DOMAIN <<>> = {} /\ Range(<<>>) = {}
    BY DEF Range
  <2> QED BY <2>1, <2>2 DEF Uniq
<1>4. ASSUME NEW n \in Nat, n + 1 <= Len(queue), Kept(n) PROVE Kept(n + 1)
  <2>1. f[n + 1] = IF queue[n + 1] \in T THEN f[n] ELSE Append(f[n], queue[n + 1])
    <3>1. n + 1 \in 0..Len(queue) /\ n + 1 # 0 /\ (n + 1) - 1 = n
      BY <1>2, <1>4
    <3>2. f[n + 1] = Step(queue, T, f, n + 1)
      BY <1>1, <3>1
    <3> QED BY <3>1, <3>2 DEF Step
  <2>2. queue[n + 1] \in S /\ n + 1 \in DOMAIN queue
    BY <1>2, <1>4
  <2>3. {queue[k] : k \in 1..n} \cup {queue[n + 1]} = {queue[k] : k \in 1..(n + 1)}
    BY 1..(n + 1) = 1..n \cup {n + 1}
  <2>4. CASE queue[n + 1] \in T
    BY <1>4, <2>1, <2>3, <2>4
  <2>5. CASE queue[n + 1] \notin T
    <3>1. /\ Append(f[n], queue[n + 1]) \in Seq(S)
          /\ Range(Append(f[n], queue[n + 1])) = Range(f[n]) \cup {queue[n + 1]}
          /\ Uniq(f[n]) /\ queue[n + 1] \notin Range(f[n]) => Uniq(Append(f[n], queue[n + 1]))
      BY <1>4, <2>2, AppendKeeps
    <3>2. ASSUME Uniq(queue) PROVE queue[n + 1] \notin Range(f[n])
      <4> SUFFICES ASSUME NEW k \in 1..n, queue[k] = queue[n + 1] PROVE FALSE
        BY <1>4
      <4>1. k \in DOMAIN queue /\ k # n + 1
        BY <1>2, <1>4
      <4> QED BY <2>2, <3>2, <4>1 DEF Uniq
    <3> QED BY <1>4, <2>1, <2>3, <2>5, <3>1, <3>2
  <2> QED BY <2>4, <2>5
<1> HIDE DEF Kept
<1>5. Kept(Len(queue))
  <2>1. 0 \in N /\ N \in SUBSET Nat
    BY <1>3
  <2>2. \A n \in N : n + 1 \in N
    <3> SUFFICES ASSUME NEW n \in N, n + 1 <= Len(queue) PROVE Kept(n + 1)
      OBVIOUS
    <3>1. n \in Nat /\ n <= Len(queue)
      BY <1>2
    <3>2. Kept(n)
      BY <3>1
    <3> QED BY <1>4, <3>1, <3>2
  <2>3. N = Nat
    <3> HIDE DEF N
    <3> QED BY <2>1, <2>2, Induction
  <2> QED BY <1>2, <2>3
<1>6. Range(queue) = {queue[k] : k \in 1..Len(queue)}
  BY RangeIs
<1> QED BY <1>1, <1>5, <1>6 DEF Kept

-----------------------------------------------------------------------------
(* Scenes and encoders.                                                    *)

LEMMA ChainIs ==
    ASSUME OneEncoder, scene \in Scenes
    PROVE  /\ scene.chain \in [Session -> Seq(Handle)]
           /\ \A s \in Session : HasEncoder(s) =>
                /\ Chain(s) = <<Encoder(s)>> /\ Encoder(s) \in Handle
                /\ Last(Chain(s)) = Encoder(s) /\ Range(Chain(s)) = {Encoder(s)}
           /\ \A s, t \in Session :
                HasEncoder(s) /\ HasEncoder(t) /\ Encoder(s) = Encoder(t) => s = t
<1>1. scene.chain \in [Session -> Seq(Handle)]
  BY ScenesAssumption DEF SceneType
<1>2. ASSUME NEW s \in Session, HasEncoder(s)
      PROVE  /\ Chain(s) = <<Encoder(s)>> /\ Encoder(s) \in Handle
             /\ Last(Chain(s)) = Encoder(s) /\ Range(Chain(s)) = {Encoder(s)}
  <2>1. Chain(s) \in Seq(Handle) /\ Len(Chain(s)) <= 1 /\ Chain(s) # <<>>
    BY <1>1, <1>2 DEF OneEncoder, HasEncoder, Chain
  <2>2. Len(Chain(s)) = 1 /\ Encoder(s) = Chain(s)[1] /\ Encoder(s) \in Handle
    <3>1. \A queue \in Seq(Handle) : Len(queue) <= 1 /\ queue # <<>> =>
              Len(queue) = 1 /\ Head(queue) = queue[1] /\ Head(queue) \in Handle
      <4> SUFFICES ASSUME NEW queue \in Seq(Handle), Len(queue) <= 1, queue # <<>>
                   PROVE  Len(queue) = 1 /\ Head(queue) = queue[1] /\ Head(queue) \in Handle
        OBVIOUS
      <4>1. Len(queue) \in Nat /\ Len(queue) # 0
        OBVIOUS
      <4>2. \A n \in Nat : n # 0 /\ n <= 1 => n = 1
        OBVIOUS
      <4>3. Len(queue) = 1
        BY <4>1, <4>2
      <4> QED BY <4>3
    <3> QED BY <2>1, <3>1 DEF Encoder
  <2>3. Chain(s) = <<Encoder(s)>>
    BY <2>1, <2>2
  <2>4. Last(Chain(s)) = Encoder(s)
    BY <2>2 DEF Last
  <2>5. Range(Chain(s)) = {Encoder(s)}
    BY <2>1, <2>2 DEF Range
  <2> QED BY <2>2, <2>3, <2>4, <2>5
<1>3. ASSUME NEW s \in Session, NEW t \in Session, HasEncoder(s), HasEncoder(t),
             Encoder(s) = Encoder(t)
      PROVE  s = t
  BY <1>3 DEF OneEncoder, HasEncoder, Encoder, Chain
<1> QED BY <1>1, <1>2, <1>3

-----------------------------------------------------------------------------
(* Each step keeps the invariant.                                          *)

\* What the values of a session, a client and an encoder are.
SessType == [abort: {"NONE", "INIT", "DONE"}, encoding: BOOLEAN, state_change_pending: BOOLEAN,
             auto: BOOLEAN, dst: Nat, job: Job \cup {EXIT}, lock: {"free", "omx"}]
ClientType == [made: 0..2, id: BOOLEAN, active: BOOLEAN, stopping: BOOLEAN,
               session_handle_q: Seq(Handle), out_buf_q: Seq(Nat)]
OmxType == [state: {"executing", "idle", "loaded", "freed"}, busy: BOOLEAN,
            cmds: Seq({"idle", "loaded"})]

LEMMA NewTypes ==
    ASSUME scene \in Scenes, OneEncoder
    PROVE  /\ NewSess \in SessType /\ NewOmx \in OmxType
           /\ scene.made \in 1..2 /\ scene.jobs \in [Session -> 0..MaxJobs]
           /\ \A s \in Session, n \in 0..2 :
                 /\ NewClient(s, n) \in ClientType
                 /\ NoClient(n, TRUE) \in ClientType /\ NoClient(n, FALSE) \in ClientType
<1>1. scene.ndst \in Nat /\ scene.made \in 1..2 /\ scene.jobs \in [Session -> 0..MaxJobs]
  BY ScenesAssumption DEF SceneType
<1>2. [i \in 1..scene.ndst |-> i] \in Seq(Nat)
  <2>1. ASSUME NEW n \in Nat PROVE [i \in 1..n |-> i] \in Seq(Nat)
    OBVIOUS
  <2> QED BY <1>1, <2>1
<1>3. \A s \in Session : Chain(s) \in Seq(Handle)
  BY ChainIs DEF Chain
<1>4. <<>> \in Seq(Handle) /\ <<>> \in Seq(Nat) /\ <<>> \in Seq({"idle", "loaded"})
  OBVIOUS
<1> HIDE DEF OneEncoder
<1> QED BY <1>1, <1>2, <1>3, <1>4
        DEF NewSess, NewOmx, NewClient, NoClient, SessType, ClientType, OmxType

LEMMA InitInv == OneEncoder /\ Init => IInv
<1> SUFFICES ASSUME OneEncoder, Init PROVE IInv
  OBVIOUS
<1>1. scene \in Scenes
  BY DEF Init
<1>2. /\ \A s \in Session : HasEncoder(s) =>
              Chain(s) = <<Encoder(s)>> /\ Encoder(s) \in Handle
      /\ \A s \in Session : HasEncoder(s) <=> Chain(s) # <<>>
  BY <1>1, ChainIs DEF HasEncoder
<1>3. TypeOK
  <2>1. /\ NewSess \in SessType /\ NewOmx \in OmxType
        /\ \A s \in Session : NewClient(s, 1) \in ClientType /\ NoClient(0, FALSE) \in ClientType
    BY <1>1, NewTypes, 0 \in 0..2, 1 \in 0..2
  <2>2. /\ sess \in [Handle -> SessType] /\ omx \in [Handle -> OmxType]
        /\ client \in [Session -> ClientType]
    BY <2>1 DEF Init
  <2>3. started \in [Session -> 0..MaxJobs] /\ answers \in [Job -> Seq({"DONE", "ERROR"})]
    <3>1. <<>> \in Seq({"DONE", "ERROR"})
      OBVIOUS
    <3> QED BY <3>1, BoundAssumption DEF Init
  <2>4. job_queue \in Seq(Job \cup {EXIT})
    <3>1. \A S : <<>> \in Seq(S)
      OBVIOUS
    <3> QED BY <3>1 DEF Init
  <2>5. mgr \in [pc: {"wait", "lock", "again", "buffer", "assign", "encode", "dead"},
                job: Job \cup {EXIT}, h: Handle \cup {NoHandle}, dst: Nat, tail: BOOLEAN]
    BY DEF Init, IdleMgr
  <2> QED BY <1>1, <2>2, <2>3, <2>4, <2>5
          DEF Init, TypeOK, IdleMgr, SessType, ClientType, OmxType, IdleCall
<1>4. CallType
  BY DEF Init, CallType, IdleCall
<1>5. FreshInv /\ CallInv
  BY DEF Init, FreshInv, CallInv, IdleCall, Stopping
<1>6. ClientInv
  BY <1>2 DEF Init, ClientInv, NewClient, NoClient
<1>7. HandleInv
  BY <1>2 DEF Init, HandleInv, NewClient, NoClient, NewSess, IdleMgr, HasHandle
<1>8. MgrInv /\ RunInv
  BY DEF Init, MgrInv, RunInv, NewSess, NewOmx, IdleMgr, HasJob, HasHandle, Running
<1>9. QueueInv
  <2>1. DOMAIN job_queue = {} /\ Range(job_queue) = {}
    BY DEF Init, Range
  <2> QED BY <2>1 DEF QueueInv, Uniq
<1> QED BY <1>3, <1>4, <1>5, <1>6, <1>7, <1>8, <1>9 DEF IInv

\* The types by variable, as the steps use them.
LEMMA TypesOf ==
    ASSUME OneEncoder, IInv
    PROVE  /\ sess \in [Handle -> SessType] /\ client \in [Session -> ClientType]
           /\ omx \in [Handle -> OmxType] /\ job_queue \in Seq(Job \cup {EXIT})
           /\ \A s \in Session : HasEncoder(s) =>
                /\ Chain(s) = <<Encoder(s)>> /\ Encoder(s) \in Handle
                /\ Last(Chain(s)) = Encoder(s) /\ Range(Chain(s)) = {Encoder(s)}
           /\ \A s, t \in Session :
                HasEncoder(s) /\ HasEncoder(t) /\ Encoder(s) = Encoder(t) => s = t
           /\ \A s \in Session : HasEncoder(s) <=> Chain(s) # <<>>
           /\ \A j \in Job : j[1] \in Session /\ j[2] \in 1..MaxJobs
           /\ Jobs \subseteq Job /\ EXIT \notin Job
<1>1. scene \in Scenes
  BY DEF IInv, TypeOK
<1>2. \A j \in Job : j[1] \in Session /\ j[2] \in 1..MaxJobs
  BY DEF Job
<1>3. Jobs \subseteq Job /\ EXIT \notin Job
  BY DEF Jobs, Job, EXIT
<1> QED BY <1>1, <1>2, <1>3, ChainIs DEF IInv, TypeOK, SessType, ClientType, OmxType, HasEncoder

\* What changes nothing keeps everything.
LEMMA StutterKeeps == IInv /\ UNCHANGED vars => IInv'
BY DEF IInv, vars, TypeOK, CallType, FreshInv, ClientInv, HandleInv, MgrInv, QueueInv, RunInv,
       CallInv, Open, Running, HasJob, HasHandle, Stopping, HasEncoder, Encoder, Chain, Jobs

\* A job that the client starts is new.
LEMMA NewJob ==
    ASSUME OneEncoder, IInv, NEW s \in Session, started[s] < scene.jobs[s],
           started' = [started EXCEPT ![s] = @ + 1]
    PROVE  /\ <<s, started[s] + 1>> \in Job \ Jobs /\ Jobs' = Jobs \cup {<<s, started[s] + 1>>}
           /\ started' \in [Session -> 0..MaxJobs]
<1> DEFINE new == <<s, started[s] + 1>>
<1>1. /\ started \in [Session -> 0..MaxJobs] /\ scene.jobs \in [Session -> 0..MaxJobs]
      /\ MaxJobs \in Nat
  BY NewTypes, BoundAssumption DEF IInv, TypeOK
<1>2. new \in Job /\ started[s] + 1 \in 1..MaxJobs
  BY <1>1 DEF Job
<1>3. new \notin Jobs
  <2>1. new[2] = started[s] + 1 /\ new[1] = s
    OBVIOUS
  <2> QED BY <1>1, <2>1 DEF Jobs
<1>4. Jobs' = Jobs \cup {new}
  <2>1. ASSUME NEW j \in Job PROVE j \in Jobs' <=> j \in Jobs \/ j = new
    <3>1. j = <<j[1], j[2]>> /\ j[1] \in Session /\ j[2] \in 1..MaxJobs
      BY DEF Job
    <3>2. CASE j[1] = s
      BY <1>1, <3>1, <3>2 DEF Jobs
    <3>3. CASE j[1] # s
      BY <1>1, <3>1, <3>3 DEF Jobs
    <3> QED BY <3>2, <3>3
  <2> QED BY <1>2, <2>1 DEF Jobs
<1>5. started' \in [Session -> 0..MaxJobs]
  BY <1>1, <1>2
<1> QED BY <1>2, <1>3, <1>4, <1>5

LEMMA StartJobKeeps ==
    ASSUME OneEncoder, IInv, NEW s \in Session, StartJob(s)
    PROVE  IInv'
<1> DEFINE new == <<s, started[s] + 1>>
<1>1. new \in Job \ Jobs /\ Jobs' = Jobs \cup {new} /\ started' \in [Session -> 0..MaxJobs]
  BY NewJob DEF StartJob
<1>2. answers[new] = <<>> /\ new \notin gone /\ new[1] = s /\ new # EXIT
  BY <1>1 DEF IInv, FreshInv, EXIT, Job
<1>3. \A j : Open(j)' <=> Open(j) \/ j = new
  BY <1>1, <1>2 DEF Open, StartJob
<1>4. /\ job_queue' \in Seq(Job \cup {EXIT}) /\ Range(job_queue') = Range(job_queue) \cup {new}
      /\ Uniq(job_queue')
  <2>1. new \notin Range(job_queue)
    BY <1>1, <1>2 DEF IInv, QueueInv, Open
  <2>2. /\ job_queue \in Seq(Job \cup {EXIT}) /\ Uniq(job_queue) /\ new \in Job \cup {EXIT}
        /\ job_queue' = Append(job_queue, new)
    BY <1>1, TypesOf DEF StartJob, IInv, QueueInv
  <2> HIDE DEF new
  <2> QED BY <2>1, <2>2, AppendKeeps
<1> HIDE DEF new
<1>5. ~HasJob \/ mgr.job # new
  BY <1>1 DEF IInv, MgrInv, Open
<1>6. \A h \in Handle : Running(h) => sess[h].job # new
  BY <1>1 DEF IInv, RunInv, Open
<1>7. TypeOK'
  <2>1. job_sem' \in Nat
    BY DEF StartJob, IInv, TypeOK
  <2> QED BY <2>1, <1>1, <1>4 DEF StartJob, IInv, TypeOK
<1>8. CallType'
  BY DEF IInv, CallType, StartJob
<1>9. FreshInv'
  BY <1>1 DEF IInv, FreshInv, StartJob
<1>10. ClientInv' /\ HandleInv'
  BY DEF IInv, ClientInv, HandleInv, HasHandle, StartJob, HasEncoder, Encoder, Chain
<1>11. MgrInv'
  BY <1>3, <1>4, <1>5
     DEF IInv, MgrInv, StartJob, HasEncoder, Encoder, Chain, HasJob, HasHandle, Running
<1>12. QueueInv'
  <2>1. call.op = "none" /\ client[s].active /\ ~Stopping
    BY DEF StartJob, IInv, CallType, Stopping
  <2> QED BY <1>2, <1>3, <1>4, <1>6, <2>1 DEF IInv, QueueInv, StartJob, Running, Stopping
<1>13. RunInv'
  BY <1>3 DEF IInv, RunInv, StartJob, Running, HasEncoder, Encoder, Chain
<1>14. CallInv'
  BY <1>1 DEF IInv, CallInv, StartJob, Stopping, HasEncoder, Encoder, Chain
<1> QED BY <1>7, <1>8, <1>9, <1>10, <1>11, <1>12, <1>13, <1>14 DEF IInv

LEMMA StartInactiveKeeps ==
    ASSUME OneEncoder, IInv, NEW s \in Session, StartInactive(s)
    PROVE  IInv'
<1> DEFINE new == <<s, started[s] + 1>>
<1>1. new \in Job \ Jobs /\ Jobs' = Jobs \cup {new} /\ started' \in [Session -> 0..MaxJobs]
  BY NewJob DEF StartInactive
<1>2. gone' \subseteq gone \cup {new} /\ gone \subseteq gone'
  BY DEF StartInactive
<1> HIDE DEF new
<1>3. \A j : Open(j) => Open(j)'
  BY <1>1, <1>2 DEF Open, StartInactive
<1> USE DEF StartInactive, queues, mgrVars
<1>4. TypeOK'
  BY <1>1, <1>2 DEF IInv, TypeOK
<1>5. CallType' /\ FreshInv'
  BY <1>1, <1>2 DEF IInv, CallType, FreshInv
<1>6. ClientInv' /\ HandleInv'
  BY DEF IInv, ClientInv, HandleInv, HasHandle, HasEncoder, Encoder, Chain
<1>7. MgrInv'
  BY <1>3 DEF IInv, MgrInv, HasEncoder, Encoder, Chain, HasJob, HasHandle, Running
<1>8. QueueInv'
  BY <1>3 DEF IInv, QueueInv, Running, Stopping
<1>9. RunInv'
  BY <1>3 DEF IInv, RunInv, Running, HasEncoder, Encoder, Chain
<1>10. CallInv'
  BY <1>1 DEF IInv, CallInv, Stopping, HasEncoder, Encoder, Chain
<1> QED BY <1>4, <1>5, <1>6, <1>7, <1>8, <1>9, <1>10 DEF IInv

LEMMA CreateSessionKeeps ==
    ASSUME OneEncoder, IInv, NEW s \in Session, CreateSession(s)
    PROVE  IInv'
<1> USE DEF queues, mgrVars, jobVars
<1>1. /\ ~client[s].active /\ HasEncoder(s) /\ sess[Encoder(s)].abort # "NONE"
      /\ omxThread[Encoder(s)] = "none" /\ client[s].session_handle_q = <<>>
      /\ Encoder(s) \in Handle /\ call.op = "none" /\ ~Stopping
  BY TypesOf DEF IInv, ClientInv, CreateSession, RunInv, HandleInv, CallType, Stopping, TypeOK
<1>2. client[s].made + 1 \in 0..2
  <2>1. scene \in Scenes /\ client[s].made < scene.made
    BY DEF CreateSession, IInv, TypeOK
  <2>2. client[s].made \in 0..2 /\ scene.made \in 1..2
    BY <2>1, TypesOf, NewTypes DEF ClientType
  <2> QED BY <2>1, <2>2
<1> DEFINE n == client[s].made + 1
<1>3. /\ client' \in [Session -> ClientType] /\ client'[s].session_handle_q \in {<<>>, Chain(s)}
      /\ client'[s].id /\ \A t \in Session \ {s} : client'[t] = client[t]
      /\ client'[s].session_handle_q # <<>> => client'[s].active
      /\ sess' \in [Handle -> SessType] /\ omx' \in [Handle -> OmxType]
      /\ \A h \in Handle \ {Encoder(s)} : sess'[h] = sess[h] /\ omx'[h] = omx[h]
      /\ client'[s].active => sess'[Encoder(s)] = NewSess /\ omx'[Encoder(s)] = NewOmx
      /\ ~client'[s].active => sess' = sess /\ omx' = omx
  <2>1. CASE /\ client' = [client EXCEPT ![s] = NewClient(s, n)]
             /\ sess' = [h \in Handle |-> IF h \in Range(Chain(s)) THEN NewSess ELSE sess[h]]
             /\ omx' = [h \in Handle |-> IF h \in Range(Chain(s)) THEN NewOmx ELSE omx[h]]
    <3>1. NewClient(s, n) \in ClientType /\ NewSess \in SessType /\ NewOmx \in OmxType
          /\ Range(Chain(s)) = {Encoder(s)}
      BY <1>1, <1>2, NewTypes, TypesOf DEF IInv, TypeOK
    <3>2. /\ NewClient(s, n).session_handle_q = Chain(s) /\ NewClient(s, n).id
          /\ NewClient(s, n).active
      BY DEF NewClient
    <3> HIDE DEF n
    <3> QED BY <1>1, <2>1, <3>1, <3>2, TypesOf
  <2>2. CASE client' = [client EXCEPT ![s] = NoClient(n, TRUE)] /\ UNCHANGED <<sess, omx>>
    <3>1. NoClient(n, TRUE) \in ClientType
      BY <1>2, NewTypes DEF IInv, TypeOK
    <3>2. /\ NoClient(n, TRUE).session_handle_q = <<>> /\ NoClient(n, TRUE).id
          /\ ~NoClient(n, TRUE).active
      BY DEF NoClient
    <3> HIDE DEF n
    <3> QED BY <1>1, <2>2, <3>1, <3>2, TypesOf
  <2>3. \/ /\ client' = [client EXCEPT ![s] = NewClient(s, n)]
           /\ sess' = [h \in Handle |-> IF h \in Range(Chain(s)) THEN NewSess ELSE sess[h]]
           /\ omx' = [h \in Handle |-> IF h \in Range(Chain(s)) THEN NewOmx ELSE omx[h]]
        \/ client' = [client EXCEPT ![s] = NoClient(n, TRUE)] /\ UNCHANGED <<sess, omx>>
    BY DEF CreateSession
  <2> QED BY <2>1, <2>2, <2>3
<1> HIDE DEF n
<1>5. \A h \in Handle : Running(h)' => Running(h) /\ h # Encoder(s) /\ sess'[h] = sess[h]
  BY <1>1, <1>3 DEF Running, NewSess
<1>6. \A t \in Session : client[t].active => client'[t] = client[t] /\ t # s
  BY <1>1, <1>3
<1>7. \A t \in Session \ {s} : HasEncoder(t) => Encoder(t) # Encoder(s) /\ Encoder(t) \in Handle
  BY <1>1, TypesOf
<1>8. /\ UNCHANGED <<scene, job_queue, ongoing_job_q, job_sem, job_lock, mgr, omxThread, call,
                     started, answers, gone>>
  BY DEF CreateSession
<1>9. TypeOK'
  BY <1>3, <1>8 DEF IInv, TypeOK, SessType, ClientType, OmxType
<1>10. CallType' /\ FreshInv'
  BY <1>8 DEF IInv, CallType, FreshInv, Jobs
<1>11. ClientInv'
  BY <1>1, <1>3, <1>7, <1>8 DEF IInv, ClientInv, HasEncoder, Encoder, Chain
<1>12. ~(HasHandle /\ mgr.h = Encoder(s))
  BY <1>1, <1>6, TypesOf DEF IInv, MgrInv, HasHandle, HasJob
<1>13. HandleInv'
  BY <1>1, <1>3, <1>7, <1>8, <1>12
     DEF IInv, HandleInv, HasHandle, HasEncoder, Encoder, Chain, NewSess
<1>14. MgrInv'
  BY <1>1, <1>3, <1>5, <1>6, <1>8, <1>12, TypesOf
     DEF IInv, MgrInv, HasEncoder, Encoder, Chain, HasJob, HasHandle, Open, Jobs
<1>15. QueueInv'
  BY <1>5, <1>6, <1>8, TypesOf DEF IInv, QueueInv, Stopping, Open, Jobs
<1>16. RunInv'
  BY <1>1, <1>3, <1>5, <1>8
     DEF IInv, RunInv, HasEncoder, Encoder, Chain, Open, Jobs, NewOmx
<1>17. CallInv'
  BY <1>1, <1>8 DEF IInv, CallInv, CallType, Stopping, Jobs
<1> QED BY <1>9, <1>10, <1>11, <1>13, <1>14, <1>15, <1>16, <1>17 DEF IInv

LEMMA BeginKeeps ==
    ASSUME OneEncoder, IInv, NEW s \in Session, NEW j, NEW op \in {"abort", "destroy", "close"},
           Begin(op, s, j), IF op = "abort" THEN j \in Jobs /\ j[1] = s ELSE j = EXIT
    PROVE  IInv'
<1> USE DEF queues, mgrVars, jobVars
<1>1. /\ client' \in [Session -> ClientType]
      /\ \A t \in Session : /\ client'[t].active = client[t].active /\ client'[t].id = client[t].id
                            /\ client'[t].session_handle_q = client[t].session_handle_q
  <2>1. client \in [Session -> ClientType] /\ client' = [client EXCEPT ![s].stopping = TRUE]
    BY TypesOf DEF Begin
  <2> QED BY <2>1 DEF ClientType
<1>2. /\ call' = [op |-> op, pc |-> "lock", s |-> s, job |-> j, h |-> NoHandle]
      /\ client[s].active /\ call.op = "none" /\ call.pc = "none" /\ j \in Job \cup {EXIT}
      /\ UNCHANGED <<scene, job_queue, ongoing_job_q, job_sem, job_lock, mgr, sess, omx,
                     omxThread, started, answers, gone>>
  BY TypesOf DEF Begin, IInv, CallType
<1>3. TypeOK'
  BY <1>1, <1>2 DEF IInv, TypeOK, ClientType
<1>4. CallType'
  BY <1>2 DEF CallType
<1>5. FreshInv' /\ ClientInv'
  BY <1>1, <1>2 DEF IInv, FreshInv, Jobs, ClientInv, HasEncoder, Encoder, Chain
<1>6. HandleInv'
  BY <1>1, <1>2 DEF IInv, HandleInv, HasHandle, HasEncoder, Encoder, Chain
<1>7. MgrInv'
  BY <1>1, <1>2, TypesOf
     DEF IInv, MgrInv, HasEncoder, Encoder, Chain, HasJob, HasHandle, Open, Jobs, Running
<1>8. QueueInv'
  BY <1>1, <1>2, TypesOf DEF IInv, QueueInv, Stopping, Open, Jobs, Running
<1>9. RunInv'
  BY <1>2 DEF IInv, RunInv, HasEncoder, Encoder, Chain, Open, Jobs, Running
<1>10. CallInv'
  <2>1. call'.op = op /\ call'.pc = "lock" /\ call'.s = s /\ call'.job = j /\ mgr'.pc # "dead"
    BY <1>2 DEF Begin
  <2>2. Jobs' = Jobs /\ client'[s].active
    BY <1>1, <1>2 DEF Jobs
  <2> QED BY <2>1, <2>2 DEF CallInv, Stopping
<1> QED BY <1>3, <1>4, <1>5, <1>6, <1>7, <1>8, <1>9, <1>10 DEF IInv

LEMMA ClientKeeps ==
    ASSUME OneEncoder, IInv, NEW s \in Session, ClientStep(s)
    PROVE  IInv'
<1>1. CASE CallAbort(s)
  BY <1>1, BeginKeeps DEF CallAbort
<1>2. CASE CallDestroy(s)
  BY <1>2, BeginKeeps DEF CallDestroy
<1>3. CASE CallClose(s)
  BY <1>3, BeginKeeps DEF CallClose
<1> QED BY <1>1, <1>2, <1>3, StartJobKeeps, StartInactiveKeeps, CreateSessionKeeps DEF ClientStep

\* A job that is taken back: whoever has it open is not its encoder, the manager or the queue.
LEMMA AbortLockedKeeps ==
    ASSUME OneEncoder, IInv, AbortLocked
    PROVE  IInv'
<1>1. /\ call.op = "abort" /\ call.pc = "lock" /\ job_lock = "free" /\ ~HasJob /\ ~HasHandle
      /\ ~Stopping /\ call.job \in Jobs /\ call.job \in Job /\ call.job # EXIT
      /\ call.s \in Session /\ call.job[1] = call.s
      /\ client[call.s].active /\ HasEncoder(call.s) /\ mgr.pc # "dead"
  BY TypesOf DEF AbortLocked, IInv, TypeOK, HasJob, HasHandle, Stopping, CallInv, CallType,
                 ClientInv
<1>2. /\ UNCHANGED <<scene, job_sem, mgr, sess, client, omx, omxThread, started, answers>>
      /\ UNCHANGED Jobs
  BY DEF AbortLocked, Jobs
<1>3. /\ ~(mgr.pc \in {"again", "buffer", "assign", "encode"})
      /\ ~(call.pc \in {"mark", "await", "idle", "load", "loaded", "free"})
  BY <1>1 DEF Stopping, HasJob
<1>4. ClientInv' /\ HandleInv' /\ MgrInv'
  BY <1>1, <1>2
     DEF IInv, ClientInv, HandleInv, MgrInv, HasJob, HasHandle, HasEncoder, Encoder, Chain
<1>5. \A h \in Handle : Running(h) => sess[h].job \in ongoing_job_q
  BY <1>1 DEF IInv, RunInv
<1>6. CASE call.job \notin Range(job_queue) /\ call.job \in ongoing_job_q
  <2>1. /\ ongoing_job_q' = ongoing_job_q \ {call.job} /\ job_lock' = "client"
        /\ call' = [call EXCEPT !.pc = "mark", !.h = Encoder(call.s)]
        /\ UNCHANGED <<job_queue, gone>>
    BY <1>6 DEF AbortLocked, Encoder
  <2>2. /\ call'.pc = "mark" /\ call'.op = "abort" /\ call'.s = call.s /\ call'.job = call.job
        /\ call'.h = Encoder(call.s) /\ CallType' /\ Stopping'
    BY <1>1, <2>1, TypesOf DEF IInv, CallType, Stopping
  <2>3. TypeOK'
    BY <1>2, <1>3, <2>1, <2>2 DEF IInv, TypeOK
  <2>4. FreshInv'
    BY <1>2, <2>1 DEF IInv, FreshInv
  <2>5. QueueInv'
    BY <1>2, <1>1, <1>6, <2>1, <2>2, TypesOf DEF IInv, QueueInv, Open, Running
  <2>6. RunInv'
    BY <1>1, <1>2, <1>5, <2>1, <2>2
       DEF IInv, RunInv, Open, Running, HasEncoder, Encoder, Chain
  <2>7. CallInv'
    BY <1>1, <1>2, <2>1, <2>2 DEF CallInv, HasEncoder, Encoder, Chain
  <2> QED BY <1>4, <2>2, <2>3, <2>4, <2>5, <2>6, <2>7 DEF IInv
<1>7. CASE ~(call.job \notin Range(job_queue) /\ call.job \in ongoing_job_q)
  <2>1. /\ call' = IdleCall /\ gone' = gone \cup {call.job}
        /\ UNCHANGED <<ongoing_job_q, job_lock>>
        /\ IF call.job \in Range(job_queue)
           THEN job_queue' = Without(job_queue, {call.job}) ELSE job_queue' = job_queue
    BY <1>7 DEF AbortLocked, Return
  <2>2. /\ job_queue' \in Seq(Job \cup {EXIT}) /\ Range(job_queue') \subseteq Range(job_queue)
        /\ call.job \notin Range(job_queue') /\ Uniq(job_queue')
    <3>1. job_queue \in Seq(Job \cup {EXIT}) /\ Uniq(job_queue)
      BY TypesOf DEF IInv, QueueInv
    <3>2. CASE call.job \in Range(job_queue)
      BY <2>1, <3>1, <3>2, WithoutKeeps
    <3>3. CASE call.job \notin Range(job_queue)
      BY <2>1, <3>1, <3>3
    <3> QED BY <3>2, <3>3
  <2>3. /\ call'.pc = "none" /\ call'.op = "none" /\ ~Stopping' /\ CallType'
    BY <2>1 DEF IdleCall, Stopping, CallType
  <2>4. TypeOK'
    BY <1>1, <1>2, <1>3, <2>1, <2>2, <2>3 DEF IInv, TypeOK
  <2>5. FreshInv'
    BY <1>1, <1>2, <2>1 DEF IInv, FreshInv
  <2>6. \A h \in Handle : Running(h) => sess[h].job # call.job
    BY <1>1, <1>5, <1>7 DEF IInv, QueueInv
  <2>7. \A j : j # call.job => (Open(j)' <=> Open(j))
    BY <1>2, <2>1 DEF Open
  <2>8. QueueInv'
    BY <1>1, <1>2, <2>2, <2>3, <2>7 DEF IInv, QueueInv, Running
  <2>9. RunInv'
    BY <1>2, <1>5, <2>1, <2>6, <2>7
       DEF IInv, RunInv, Running, HasEncoder, Encoder, Chain
  <2>10. CallInv'
    BY <2>3 DEF CallInv, CallType
  <2> QED BY <1>4, <2>3, <2>4, <2>5, <2>8, <2>9, <2>10 DEF IInv
<1> QED BY <1>6, <1>7


LEMMA DestroyLockedKeeps ==
    ASSUME OneEncoder, IInv, DestroyLocked
    PROVE  IInv'
<1>1. /\ call.op \in {"destroy", "close"} /\ call.pc = "lock" /\ ~HasJob /\ ~HasHandle
      /\ ~Stopping /\ call.job = EXIT /\ call.s \in Session
      /\ client[call.s].active /\ HasEncoder(call.s) /\ Encoder(call.s) \in Handle
      /\ mgr.pc # "dead"
  BY TypesOf DEF DestroyLocked, IInv, TypeOK, HasJob, HasHandle, Stopping, CallInv, CallType,
                 ClientInv
<1>2. /\ UNCHANGED <<scene, job_sem, mgr, sess, client, omx, omxThread, started, answers, gone>>
      /\ UNCHANGED Jobs /\ job_lock' = "client"
      /\ ongoing_job_q' = {j \in ongoing_job_q : j[1] # call.s}
      /\ job_queue' = Without(job_queue, Mine(call.s))
      /\ call' = [call EXCEPT !.pc = "mark", !.h = Encoder(call.s)]
  BY DEF DestroyLocked, Jobs, jobVars, Encoder
<1>3. /\ call'.pc = "mark" /\ call'.op = call.op /\ call'.s = call.s /\ call'.job = EXIT
      /\ call'.h = Encoder(call.s) /\ CallType' /\ Stopping'
  BY <1>1, <1>2 DEF IInv, CallType, Stopping
<1>4. /\ job_queue' \in Seq(Job \cup {EXIT}) /\ Uniq(job_queue')
      /\ Range(job_queue') \subseteq Range(job_queue) \ Mine(call.s)
  <2>1. job_queue \in Seq(Job \cup {EXIT}) /\ Uniq(job_queue)
    BY TypesOf DEF IInv, QueueInv
  <2> QED BY <1>2, <2>1, WithoutKeeps
<1>5. TypeOK'
  <2>1. ~(mgr.pc \in {"again", "buffer", "assign", "encode"})
    BY <1>1 DEF HasJob
  <2> QED BY <1>2, <1>3, <1>4, <2>1 DEF IInv, TypeOK
<1>6. FreshInv' /\ ClientInv' /\ HandleInv' /\ MgrInv'
  BY <1>1, <1>2
     DEF IInv, FreshInv, ClientInv, HandleInv, MgrInv, HasJob, HasHandle, HasEncoder, Encoder, Chain
<1>7. \A j : Open(j)' <=> Open(j)
  BY <1>2 DEF Open
<1>8. QueueInv'
  <2>1. \A j \in Range(job_queue') : j # EXIT => j \in Jobs /\ j[1] # call.s
    BY <1>4 DEF IInv, QueueInv, Open, Mine
  <2> QED BY <1>1, <1>2, <1>3, <1>4, <1>7, <2>1 DEF IInv, QueueInv, Running
<1>9. RunInv'
  <2>1. \A h \in Handle : Running(h) => sess[h].job \in ongoing_job_q
    BY <1>1 DEF IInv, RunInv
  <2> QED BY <1>2, <1>3, <1>7, <2>1 DEF IInv, RunInv, Running, HasEncoder, Encoder, Chain
<1>10. CallInv'
  BY <1>1, <1>2, <1>3 DEF CallInv, HasEncoder, Encoder, Chain
<1> QED BY <1>3, <1>5, <1>6, <1>8, <1>9, <1>10 DEF IInv

\* How a call goes on once the session's encoder is aborted: the abort returns, the
\* destruction comes to its second half or, like a close, gives the session up.
Leaves ==
    \/ /\ call.op = "abort" /\ Return({call.job}) /\ job_lock' = "free"
       /\ UNCHANGED client
    \/ /\ call.op = "destroy" /\ call' = [call EXCEPT !.pc = "idle", !.h = Encoder(call.s)]
       /\ UNCHANGED <<client, job_lock, gone>>
    \/ /\ call.op # "abort" /\ job_lock' = "free"
       /\ client' = [client EXCEPT ![call.s] = NoClient(@.made, FALSE)]
       /\ \/ Return(Mine(call.s))
          \/ call.op = "close" /\ call' = [call EXCEPT !.pc = "exit"] /\ UNCHANGED gone

\* Nothing of the session runs then, and the jobs that are taken back are in nobody's hands.
LEMMA LeaveKeeps ==
    ASSUME OneEncoder, IInv, Stopping,
           UNCHANGED <<scene, job_queue, ongoing_job_q, mgr, omxThread, started, answers>>,
           job_sem' \in Nat, sess' \in [Handle -> SessType], omx' \in [Handle -> OmxType],
           \A h \in Handle : omx'[h].busy = omx[h].busy,
           \A h \in Handle \ {call.h} : sess'[h] = sess[h],
           sess'[call.h].abort # "NONE", sess'[call.h].encoding = sess[call.h].encoding,
           sess' = sess \/ sess[call.h].lock = "free",
           Leaves
    PROVE  IInv'
<1>1. /\ call.s \in Session /\ HasEncoder(call.s) /\ call.h = Encoder(call.s) /\ call.h \in Handle
      /\ job_lock = "client" /\ ~HasJob /\ ~HasHandle /\ client[call.s].active /\ mgr.pc # "dead"
      /\ call.op \in {"abort", "destroy", "close"}
      /\ call.op = "abort" => call.job \in Job /\ call.job # EXIT /\ call.job[1] = call.s
      /\ call.op # "abort" => call.job = EXIT
  BY TypesOf DEF IInv, CallInv, CallType, Stopping, TypeOK, HasJob, HasHandle
<1>2. /\ UNCHANGED Jobs
      /\ gone' \subseteq gone \cup {j \in Job : j[1] = call.s} /\ gone \subseteq gone'
      /\ \A j : Open(j)' => Open(j)
      /\ \A j : Open(j) /\ j \notin gone' => Open(j)'
      /\ \A t : HasEncoder(t)' = HasEncoder(t) /\ Encoder(t)' = Encoder(t)
  BY <1>1, TypesOf DEF Leaves, Return, Mine, Jobs, Open, HasEncoder, Encoder, Chain
<1>3. \A h \in Handle : Running(h)' => /\ Running(h) /\ h # call.h /\ sess'[h] = sess[h]
                                       /\ Open(sess[h].job)' /\ sess[h].job[1] # call.s
                                       /\ sess[h].job \in ongoing_job_q
  BY <1>1, <1>2 DEF IInv, RunInv, Running, Open
<1>4. \A j \in Range(job_queue) : j # EXIT => Open(j)'
  <2>1. SUFFICES ASSUME NEW j \in Range(job_queue), j # EXIT PROVE j \notin gone'
    BY <1>2 DEF IInv, QueueInv
  <2>2. j # call.job /\ (call.op # "abort" => j[1] # call.s) /\ j \notin gone
    BY <2>1 DEF IInv, QueueInv, Open
  <2> QED BY <1>1, <2>2 DEF Leaves, Return, Mine
<1>5. /\ client' \in [Session -> ClientType]
      /\ \A t \in Session :
          /\ client'[t].active => client[t].active /\ client'[t].id
          /\ client'[t].session_handle_q # <<>> => client'[t] = client[t]
          /\ t # call.s => client'[t] = client[t]
  <2> DEFINE none == NoClient(client[call.s].made, FALSE)
  <2>1. client[call.s].made \in 0..2 /\ scene \in Scenes
    BY <1>1, TypesOf DEF ClientType, IInv, TypeOK
  <2>2. none \in ClientType /\ ~none.active /\ none.session_handle_q = <<>>
    BY <1>1, <2>1, NewTypes DEF NoClient
  <2>3. client' = client \/ client' = [client EXCEPT ![call.s] = none]
    BY DEF Leaves
  <2>4. client \in [Session -> ClientType] /\ \A t \in Session : client[t].active => client[t].id
    BY TypesOf DEF IInv, ClientInv
  <2> HIDE DEF none
  <2>5. CASE client' = client
    BY <2>4, <2>5
  <2>6. CASE client' = [client EXCEPT ![call.s] = none]
    BY <1>1, <2>2, <2>4, <2>6
  <2> QED BY <2>3, <2>5, <2>6
<1>7. \A t \in Session \ {call.s} : HasEncoder(t) => Encoder(t) # call.h /\ Encoder(t) \in Handle
  BY <1>1, TypesOf
<1>8. /\ CallType' /\ (job_lock' = "client" <=> Stopping') /\ job_lock' \in {"free", "client"}
      /\ \/ call'.op = "none" /\ call'.pc = "none"
         \/ /\ call'.op = "destroy" /\ call'.pc = "idle" /\ call.op = "destroy"
            /\ call'.s = call.s /\ call'.h = call.h /\ call'.job = call.job /\ client' = client
         \/ /\ call'.op = "close" /\ call'.pc = "exit" /\ call'.s = call.s
            /\ call'.job = call.job /\ call.op = "close" /\ ~client'[call.s].active
  <2>1. CASE call' = IdleCall /\ job_lock' = "free"
    BY <2>1 DEF IdleCall, CallType, Stopping
  <2>2. CASE /\ call.op = "destroy" /\ call' = [call EXCEPT !.pc = "idle", !.h = Encoder(call.s)]
             /\ UNCHANGED <<client, job_lock>>
    BY <1>1, <2>2 DEF IInv, CallType, Stopping
  <2>3. CASE /\ call.op = "close" /\ call' = [call EXCEPT !.pc = "exit"] /\ job_lock' = "free"
             /\ client' = [client EXCEPT ![call.s] = NoClient(@.made, FALSE)]
    <3>1. ~client'[call.s].active
      BY <1>1, <2>3, TypesOf DEF NoClient
    <3> QED BY <1>1, <2>3, <3>1 DEF IInv, CallType, Stopping
  <2> QED BY <2>1, <2>2, <2>3 DEF Leaves, Return
<1>9. TypeOK'
  BY <1>1, <1>2, <1>5, <1>8
     DEF IInv, TypeOK, SessType, ClientType, OmxType, HasJob, Stopping
<1>10. FreshInv'
  <2>1. ASSUME NEW j \in Job, j \notin Jobs PROVE j \notin gone'
    BY <1>1, <2>1 DEF IInv, FreshInv, CallInv, Leaves, Return, Mine
  <2> QED BY <1>2, <2>1 DEF IInv, FreshInv
<1>11. ClientInv'
  BY <1>1, <1>2, <1>5, <1>7 DEF IInv, ClientInv
<1>12. HandleInv'
  <2> SUFFICES ASSUME NEW t \in Session, client'[t].session_handle_q # <<>>
               PROVE  /\ client'[t].active /\ client'[t].session_handle_q = Chain(t)
                      /\ ~sess'[Encoder(t)].encoding /\ omxThread[Encoder(t)] # "requeue"
    BY <1>1, <1>2 DEF HandleInv, HasHandle, Chain
  <2>1. client'[t] = client[t]
    BY <1>5
  <2>2. /\ client[t].active /\ client[t].session_handle_q = Chain(t)
        /\ ~sess[Encoder(t)].encoding /\ omxThread[Encoder(t)] # "requeue"
        /\ Encoder(t) \in Handle
    BY <2>1, TypesOf DEF IInv, HandleInv, ClientInv
  <2> QED BY <2>1, <2>2
<1>13. MgrInv'
  BY <1>1 DEF MgrInv, HasJob, HasHandle
<1>14. QueueInv'
  <2>1. ASSUME NEW j \in Range(job_queue), j # EXIT
        PROVE  /\ Open(j)' /\ client'[j[1]].active
               /\ \A h \in Handle : Running(h)' => sess'[h].job # j
               /\ Stopping' => j # call'.job /\ (call'.op # "abort" => j[1] # call'.s)
    <3>1. /\ Open(j) /\ client[j[1]].active /\ j \in Job
          /\ \A h \in Handle : Running(h) => sess[h].job # j
          /\ j # call.job /\ (call.op # "abort" => j[1] # call.s)
      BY <2>1, TypesOf DEF IInv, QueueInv, Open
    <3>2. client'[j[1]].active
      BY <3>1, <1>5, TypesOf DEF Leaves
    <3> QED BY <1>3, <1>4, <1>8, <2>1, <3>1, <3>2 DEF Stopping
  <2>2. EXIT \notin Range(job_queue) /\ Uniq(job_queue)
    BY DEF IInv, QueueInv, Stopping
  <2> QED BY <2>1, <2>2 DEF QueueInv
<1>15. RunInv'
  <2> SUFFICES ASSUME NEW h \in Handle
               PROVE  /\ Running(h)' =>
                           /\ sess'[h].job \in Job /\ Open(sess[h].job)'
                           /\ HasEncoder(sess'[h].job[1]) /\ h = Encoder(sess'[h].job[1])
                           /\ sess'[h].job \in ongoing_job_q
                      /\ omx'[h].busy => sess'[h].encoding
                      /\ omxThread[h] # "none" =>
                           /\ sess'[h].abort = "NONE" /\ sess'[h].lock = "omx"
                      /\ omxThread[h] = "requeue" =>
                           /\ ~sess'[h].encoding /\ sess'[h].job \in Job
                           /\ HasEncoder(sess'[h].job[1]) /\ h = Encoder(sess'[h].job[1])
    BY DEF RunInv, HasEncoder, Encoder, Chain
  <2>1. CASE sess'[h] = sess[h]
    BY <1>3, <2>1 DEF IInv, RunInv
  <2>2. CASE h = call.h /\ sess[h].lock = "free"
    BY <1>3, <2>2 DEF IInv, RunInv
  <2> QED BY <2>1, <2>2
<1>16. CallInv'
  BY <1>1, <1>2, <1>8 DEF CallInv, Stopping
<1> QED BY <1>8, <1>9, <1>10, <1>11, <1>12, <1>13, <1>14, <1>15, <1>16 DEF IInv


\* A step that tells a component what to do, or lets it do it, on the way of a call.
LEMMA ControlKeeps ==
    ASSUME OneEncoder, IInv,
           UNCHANGED <<scene, job_queue, ongoing_job_q, job_sem, job_lock, mgr, client,
                       omxThread, started, answers, gone>>,
           sess' \in [Handle -> SessType], omx' \in [Handle -> OmxType],
           \A h \in Handle :
               /\ sess'[h].encoding = sess[h].encoding /\ sess'[h].job = sess[h].job
               /\ sess'[h].lock = sess[h].lock /\ (omx'[h].busy => omx[h].busy)
               /\ \/ sess'[h].abort = sess[h].abort
                  \/ sess'[h].abort # "NONE" /\ sess[h].lock = "free",
           CallType', call'.op = call.op, call'.s = call.s, call'.job = call.job,
           call'.h = call.h,
           \/ call'.pc = call.pc
           \/ Stopping /\ Stopping' /\ call'.pc # "mark" /\ sess'[call.h].abort # "NONE"
    PROVE  IInv'
<1>1. /\ \A h \in Handle : Running(h)' => Running(h) /\ sess'[h].job = sess[h].job
      /\ Jobs' = Jobs /\ \A j : Open(j)' = Open(j)
      /\ \A h \in Handle : omxThread[h] # "none" => sess'[h].abort = sess[h].abort
      /\ \A h \in Handle : sess[h].abort # "NONE" => sess'[h].abort # "NONE"
  BY DEF IInv, RunInv, Running, Jobs, Open
<1>2. (Stopping' <=> Stopping) /\ (call.op = "none" <=> call.pc = "none")
      /\ (call'.pc \in {"none", "lock", "exit", "join"} => call'.pc = call.pc)
      /\ (call.pc \in {"none", "join"} => call'.pc = call.pc)
  BY DEF Stopping, IInv, CallType
<1>3. TypeOK'
  BY <1>2 DEF IInv, TypeOK, SessType, OmxType, CallType, Stopping
<1>4. FreshInv'
  BY <1>1 DEF IInv, FreshInv
<1>5. ClientInv'
  BY <1>1, TypesOf DEF IInv, ClientInv, HasEncoder, Encoder, Chain
<1>6. HandleInv'
  BY TypesOf DEF IInv, HandleInv, ClientInv, HasHandle, HasEncoder, Encoder, Chain
<1>7. MgrInv'
  BY <1>1, TypesOf DEF IInv, MgrInv, HasJob, HasHandle, HasEncoder, Encoder, Chain
<1>8. QueueInv'
  BY <1>1, <1>2 DEF IInv, QueueInv
<1>9. CallInv'
  <2>1. Stopping => HasEncoder(call.s) /\ call.h = Encoder(call.s) /\ call.h \in Handle
    BY TypesOf DEF IInv, CallInv, CallType, Stopping
  <2> QED BY <1>1, <1>2, <2>1 DEF IInv, CallInv, HasEncoder, Encoder, Chain
<1>10. RunInv'
  <2>1. ASSUME NEW h \in Handle, Running(h)'
        PROVE  sess[h].job \in ongoing_job_q \/ (call'.pc = "mark" /\ call'.s = sess[h].job[1])
    <3>1. CASE call.pc = "mark" /\ call.s = sess[h].job[1]
      <4>1. h = call.h
        BY <1>1, <2>1, <3>1 DEF IInv, RunInv, CallInv, Stopping
      <4> QED BY <2>1, <3>1, <4>1 DEF Running
    <3> QED BY <1>1, <2>1, <3>1 DEF IInv, RunInv
  <2> QED BY <1>1, <2>1 DEF IInv, RunInv, HasEncoder, Encoder, Chain
<1> QED BY <1>3, <1>4, <1>5, <1>6, <1>7, <1>8, <1>9, <1>10 DEF IInv

LEMMA AfterAbortLeaves ==
    ASSUME OneEncoder, IInv, Stopping
    PROVE  /\ call.s \in Session /\ call.h \in Handle /\ call.h = Encoder(call.s)
           /\ IsLast(call.h)
           /\ LeaveAbort => Leaves
           /\ AfterAbort(call.h) => Leaves
<1>1. /\ call.s \in Session /\ HasEncoder(call.s) /\ call.h = Encoder(call.s)
      /\ call.h \in Handle /\ Last(Chain(call.s)) = Encoder(call.s)
  BY TypesOf DEF IInv, CallInv, CallType, Stopping
<1>2. IsLast(call.h)
  BY <1>1 DEF IsLast
<1>3. LeaveAbort => Leaves
  BY DEF LeaveAbort, Leaves, Encoder
<1>4. AfterAbort(call.h) => Leaves
  BY <1>2, <1>3 DEF AfterAbort
<1> QED BY <1>1, <1>2, <1>3, <1>4

\* An encoder that a call tells to change its state, aborting it or not.
LEMMA PendingIs ==
    ASSUME NEW r \in SessType
    PROVE  LET p == [r EXCEPT !.state_change_pending = TRUE]
               a == [r EXCEPT !.abort = "INIT", !.state_change_pending = TRUE]
           IN  /\ p \in SessType /\ p.encoding = r.encoding /\ p.job = r.job /\ p.lock = r.lock
               /\ p.abort = r.abort
               /\ a \in SessType /\ a.encoding = r.encoding /\ a.job = r.job /\ a.lock = r.lock
               /\ a.abort = "INIT"
BY DEF SessType

LEMMA Pending ==
    ASSUME sess \in [Handle -> SessType], NEW h \in Handle,
           sess' = [sess EXCEPT ![h].state_change_pending = TRUE]
    PROVE  /\ sess' \in [Handle -> SessType]
           /\ \A k \in Handle :
                /\ sess'[k].encoding = sess[k].encoding /\ sess'[k].job = sess[k].job
                /\ sess'[k].lock = sess[k].lock /\ sess'[k].abort = sess[k].abort
<1> DEFINE p == [sess[h] EXCEPT !.state_change_pending = TRUE]
<1>1. sess[h] \in SessType
  OBVIOUS
<1>2. /\ p \in SessType /\ p.encoding = sess[h].encoding /\ p.job = sess[h].job
      /\ p.lock = sess[h].lock /\ p.abort = sess[h].abort
  BY <1>1, PendingIs
<1>3. sess' = [sess EXCEPT ![h] = p]
  OBVIOUS
<1> HIDE DEF p
<1> QED BY <1>2, <1>3

LEMMA Aborting ==
    ASSUME sess \in [Handle -> SessType], NEW h \in Handle,
           sess' = [sess EXCEPT ![h].abort = "INIT", ![h].state_change_pending = TRUE]
    PROVE  /\ sess' \in [Handle -> SessType] /\ sess'[h].abort = "INIT"
           /\ \A k \in Handle \ {h} : sess'[k] = sess[k]
           /\ \A k \in Handle :
                /\ sess'[k].encoding = sess[k].encoding /\ sess'[k].job = sess[k].job
                /\ sess'[k].lock = sess[k].lock
<1> DEFINE a == [sess[h] EXCEPT !.abort = "INIT", !.state_change_pending = TRUE]
<1>1. sess[h] \in SessType
  OBVIOUS
<1>2. /\ a \in SessType /\ a.encoding = sess[h].encoding /\ a.job = sess[h].job
      /\ a.lock = sess[h].lock /\ a.abort = "INIT"
  BY <1>1, PendingIs
<1>3. sess' = [sess EXCEPT ![h] = a]
  OBVIOUS
<1> HIDE DEF a
<1> QED BY <1>2, <1>3

LEMMA Commanded ==
    ASSUME omx \in [Handle -> OmxType], NEW h \in Handle, NEW c \in {"idle", "loaded"},
           omx' = [omx EXCEPT ![h].cmds = Append(@, c)]
    PROVE  omx' \in [Handle -> OmxType] /\ \A k \in Handle : omx'[k].busy = omx[k].busy
<1> DEFINE q == Append(omx[h].cmds, c)
           r == [omx[h] EXCEPT !.cmds = q]
<1>1. q \in Seq({"idle", "loaded"})
  BY DEF OmxType
<1> HIDE DEF q
<1>2. r \in OmxType /\ r.busy = omx[h].busy
  BY <1>1 DEF OmxType
<1>3. omx' = [omx EXCEPT ![h] = r]
  BY DEF q
<1> HIDE DEF r
<1> QED BY <1>2, <1>3

LEMMA SessionAbortKeeps ==
    ASSUME OneEncoder, IInv, SessionAbort
    PROVE  IInv'
<1>1. /\ Stopping /\ call.pc = "mark" /\ sess[call.h].lock = "free"
      /\ UNCHANGED <<scene, job_queue, ongoing_job_q, job_sem, mgr, omxThread, started, answers>>
  BY DEF SessionAbort, Stopping, queues
<1>2. /\ call.s \in Session /\ call.h \in Handle /\ call.h = Encoder(call.s)
      /\ (LeaveAbort => Leaves) /\ (AfterAbort(call.h) => Leaves)
  BY <1>1, AfterAbortLeaves
<1>3. /\ sess \in [Handle -> SessType] /\ omx \in [Handle -> OmxType] /\ job_sem \in Nat
  BY TypesOf DEF IInv, TypeOK
<1>4. CASE sess[call.h].abort # "NONE"
  <2>1. Leaves /\ UNCHANGED <<sess, omx>>
    BY <1>2, <1>4 DEF SessionAbort
  <2> QED BY <1>1, <1>3, <1>4, <2>1, LeaveKeeps
<1>5. CASE sess[call.h].abort = "NONE" /\ sess[call.h].encoding
  <2>1. /\ sess' = [sess EXCEPT ![call.h].abort = "INIT", ![call.h].state_change_pending = TRUE]
        /\ omx' = [omx EXCEPT ![call.h].cmds = Append(@, "idle")]
        /\ call' = [call EXCEPT !.pc = "await"]
        /\ UNCHANGED <<client, job_lock, gone>>
    BY <1>5 DEF SessionAbort
  <2>2. /\ sess' \in [Handle -> SessType] /\ sess'[call.h].abort = "INIT"
        /\ \A h \in Handle \ {call.h} : sess'[h] = sess[h]
        /\ \A h \in Handle :
               /\ sess'[h].encoding = sess[h].encoding /\ sess'[h].job = sess[h].job
               /\ sess'[h].lock = sess[h].lock
    BY <1>2, <1>3, <2>1, Aborting
  <2>3. omx' \in [Handle -> OmxType] /\ \A h \in Handle : omx'[h].busy = omx[h].busy
    BY <1>2, <1>3, <2>1, Commanded
  <2>4. /\ CallType' /\ call'.op = call.op /\ call'.s = call.s /\ call'.job = call.job
        /\ call'.h = call.h /\ call'.pc = "await" /\ Stopping'
    BY <1>1, <2>1 DEF IInv, CallType, Stopping
  <2>5. \A h \in Handle :
               /\ sess'[h].encoding = sess[h].encoding /\ sess'[h].job = sess[h].job
               /\ sess'[h].lock = sess[h].lock /\ (omx'[h].busy => omx[h].busy)
               /\ \/ sess'[h].abort = sess[h].abort
                  \/ sess'[h].abort # "NONE" /\ sess[h].lock = "free"
    BY <1>1, <2>2, <2>3
  <2> QED BY <1>1, <2>1, <2>2, <2>3, <2>4, <2>5, ControlKeeps
<1>6. CASE sess[call.h].abort = "NONE" /\ ~sess[call.h].encoding
  <2>1. sess' = [sess EXCEPT ![call.h].abort = "DONE"] /\ Leaves /\ UNCHANGED omx
    BY <1>2, <1>6 DEF SessionAbort
  <2>2. /\ sess' \in [Handle -> SessType] /\ sess'[call.h].abort # "NONE"
        /\ sess'[call.h].encoding = sess[call.h].encoding
        /\ \A h \in Handle \ {call.h} : sess'[h] = sess[h]
    BY <1>2, <1>3, <2>1 DEF SessType
  <2> QED BY <1>1, <1>3, <2>1, <2>2, LeaveKeeps
<1> QED BY <1>4, <1>5, <1>6

LEMMA AbortWaitedKeeps ==
    ASSUME OneEncoder, IInv, AbortWaited
    PROVE  IInv'
<1>1. /\ Stopping /\ sess[call.h].lock = "free" /\ sess' = [sess EXCEPT ![call.h].abort = "DONE"]
      /\ UNCHANGED <<scene, job_queue, ongoing_job_q, job_sem, mgr, omx, omxThread, started,
                     answers>>
  BY DEF AbortWaited, Stopping, queues
<1>2. call.h \in Handle /\ Leaves
  BY <1>1, AfterAbortLeaves DEF AbortWaited
<1>3. /\ sess \in [Handle -> SessType] /\ omx \in [Handle -> OmxType] /\ job_sem \in Nat
  BY TypesOf DEF IInv, TypeOK
<1>4. /\ sess' \in [Handle -> SessType] /\ sess'[call.h].abort # "NONE"
      /\ sess'[call.h].encoding = sess[call.h].encoding
      /\ \A h \in Handle \ {call.h} : sess'[h] = sess[h]
  BY <1>1, <1>2, <1>3 DEF SessType
<1> QED BY <1>1, <1>2, <1>3, <1>4, LeaveKeeps

LEMMA DestroyKeeps ==
    ASSUME OneEncoder, IInv, DestroyIdle \/ DestroyLoaded
    PROVE  IInv'
<1>1. /\ Stopping /\ call.pc # "mark"
      /\ UNCHANGED <<scene, job_queue, ongoing_job_q, job_sem, job_lock, mgr, client,
                       omxThread, started, answers, gone>>
  BY DEF DestroyIdle, DestroyLoaded, Stopping, queues, mgrVars, jobVars
<1>2. /\ call.h \in Handle /\ sess[call.h].abort # "NONE" /\ call.op = "destroy"
      /\ sess \in [Handle -> SessType] /\ omx \in [Handle -> OmxType]
  BY <1>1, AfterAbortLeaves, TypesOf
     DEF IInv, CallInv, CallType, DestroyIdle, DestroyLoaded
<1>3. /\ call' \in {[call EXCEPT !.pc = x] : x \in {"load", "loaded", "free"}}
      /\ \/ UNCHANGED <<sess, omx>>
         \/ /\ sess' = [sess EXCEPT ![call.h].state_change_pending = TRUE]
            /\ \E c \in {"idle", "loaded"} : omx' = [omx EXCEPT ![call.h].cmds = Append(@, c)]
  BY DEF DestroyIdle, DestroyLoaded, ChangeState
<1>4. /\ CallType' /\ call'.op = call.op /\ call'.s = call.s /\ call'.job = call.job
      /\ call'.h = call.h /\ call'.pc # "mark" /\ Stopping'
  <2>1. PICK x \in {"load", "loaded", "free"} : call' = [call EXCEPT !.pc = x]
    BY <1>3
  <2> QED BY <1>2, <2>1 DEF IInv, CallType, Stopping
<1>5. /\ sess' \in [Handle -> SessType] /\ omx' \in [Handle -> OmxType]
      /\ \A h \in Handle :
           /\ sess'[h].encoding = sess[h].encoding /\ sess'[h].job = sess[h].job
           /\ sess'[h].lock = sess[h].lock /\ (omx'[h].busy => omx[h].busy)
           /\ sess'[h].abort = sess[h].abort
  BY <1>2, <1>3, Pending, Commanded
<1> QED BY <1>1, <1>2, <1>4, <1>5, ControlKeeps

LEMMA DestroyFreeKeeps ==
    ASSUME OneEncoder, IInv, DestroyFree
    PROVE  IInv'
<1>1. /\ Stopping /\ call.pc = "free"
      /\ UNCHANGED <<scene, job_queue, ongoing_job_q, mgr, sess, omxThread, started, answers>>
      /\ omx' = [omx EXCEPT ![call.h].state = "freed"]
  BY DEF DestroyFree, Stopping, queues
<1>2. call.h \in Handle /\ IsLast(call.h)
  BY <1>1, AfterAbortLeaves
<1>3. /\ call.op = "destroy" /\ sess[call.h].abort # "NONE"
      /\ sess \in [Handle -> SessType] /\ omx \in [Handle -> OmxType] /\ job_sem \in Nat
  BY <1>1, TypesOf DEF IInv, CallInv, CallType, TypeOK
<1>4. Leaves /\ job_sem' = job_sem + 1
  BY <1>2, <1>3 DEF DestroyFree, Leaves
<1>5. omx' \in [Handle -> OmxType] /\ \A h \in Handle : omx'[h].busy = omx[h].busy
  BY <1>1, <1>2, <1>3 DEF OmxType
<1>6. job_sem' \in Nat
  BY <1>3, <1>4
<1> QED BY <1>1, <1>3, <1>4, <1>5, <1>6, LeaveKeeps

LEMMA CloseKeeps ==
    ASSUME OneEncoder, IInv, CloseExit \/ CloseJoin
    PROVE  IInv'
<1>1. CASE CloseExit
  <2>1. /\ call.pc = "exit" /\ mgr.pc # "dead" /\ EXIT \notin Range(job_queue) /\ ~Stopping
        /\ job_queue' = Append(job_queue, EXIT) /\ call' = [call EXCEPT !.pc = "join"]
        /\ job_sem' = job_sem + 1
        /\ UNCHANGED <<scene, ongoing_job_q, job_lock, mgr, sess, client, omx, omxThread,
                       started, answers, gone>>
    BY <1>1 DEF CloseExit, IInv, CallInv, QueueInv, Stopping, jobVars
  <2>2. /\ CallType' /\ call'.pc = "join" /\ ~Stopping' /\ call'.op = call.op
        /\ call'.s = call.s /\ call'.job = call.job /\ call.op = "close"
    BY <2>1 DEF IInv, CallType, Stopping
  <2>3. /\ job_queue' \in Seq(Job \cup {EXIT}) /\ Range(job_queue') = Range(job_queue) \cup {EXIT}
        /\ Uniq(job_queue')
    <3>1. job_queue \in Seq(Job \cup {EXIT}) /\ EXIT \in Job \cup {EXIT} /\ Uniq(job_queue)
      BY TypesOf DEF IInv, QueueInv
    <3> QED BY <2>1, <3>1, AppendKeeps
  <2>4. TypeOK'
    BY <2>1, <2>2, <2>3 DEF IInv, TypeOK, Stopping
  <2>5. FreshInv' /\ ClientInv' /\ HandleInv'
    BY <2>1 DEF IInv, FreshInv, ClientInv, HandleInv, HasHandle, HasEncoder, Encoder, Chain, Jobs
  <2>6. MgrInv'
    BY <2>1, <2>3, TypesOf DEF IInv, MgrInv, HasJob, HasHandle, HasEncoder, Encoder, Chain, Open,
                               Jobs, Running
  <2>7. QueueInv'
    BY <2>1, <2>2, <2>3 DEF IInv, QueueInv, Open, Jobs, Running
  <2>8. RunInv'
    BY <2>1, <2>2 DEF IInv, RunInv, HasEncoder, Encoder, Chain, Open, Jobs, Running
  <2>9. CallInv'
    BY <2>1, <2>2 DEF IInv, CallInv
  <2> QED BY <2>2, <2>4, <2>5, <2>6, <2>7, <2>8, <2>9 DEF IInv
<1>2. CASE CloseJoin
  <2>1. /\ call.pc = "join" /\ mgr.pc = "dead" /\ EXIT \notin Range(job_queue)
        /\ ~client[call.s].active /\ call.s \in Session
        /\ call' = IdleCall /\ gone' = gone \cup Mine(call.s)
        /\ UNCHANGED <<scene, job_queue, ongoing_job_q, job_sem, job_lock, mgr, sess, client, omx,
                       omxThread, started, answers>>
    BY <1>2 DEF CloseJoin, Return, IInv, CallInv, CallType, QueueInv, queues, mgrVars
  <2>2. CallType' /\ call'.op = "none" /\ call'.pc = "none" /\ ~Stopping' /\ ~Stopping
    BY <2>1 DEF IdleCall, CallType, Stopping
  <2>3. \A j : Open(j) /\ j[1] # call.s => Open(j)'
    BY <2>1 DEF Open, Mine, Jobs
  <2>4. \A h \in Handle : Running(h) => sess[h].job[1] # call.s
    BY <2>1, TypesOf DEF IInv, RunInv, Running, ClientInv
  <2>5. TypeOK'
    BY <2>1, <2>2, TypesOf DEF IInv, TypeOK, Stopping, Mine
  <2>6. FreshInv' /\ ClientInv' /\ HandleInv' /\ MgrInv'
    BY <2>1 DEF IInv, FreshInv, ClientInv, HandleInv, MgrInv, HasJob, HasHandle, HasEncoder,
                Encoder, Chain, Jobs, Mine
  <2>7. QueueInv'
    BY <2>1, <2>2, <2>3 DEF IInv, QueueInv, Running
  <2>8. RunInv'
    BY <2>1, <2>2, <2>3, <2>4 DEF IInv, RunInv, HasEncoder, Encoder, Chain, Running
  <2>9. CallInv'
    BY <2>2 DEF CallInv, Stopping
  <2> QED BY <2>2, <2>5, <2>6, <2>7, <2>8, <2>9 DEF IInv
<1> QED BY <1>1, <1>2


\* The manager holds job_lock while it has a job, so no call is stopping a session then.
LEMMA MgrWorks ==
    ASSUME OneEncoder, IInv, HasJob
    PROVE  /\ ~Stopping /\ mgr.pc # "dead" /\ mgr.job \in Job /\ mgr.job[1] \in Session
           /\ mgr.job # EXIT
           /\ HasHandle => mgr.h = Encoder(mgr.job[1]) /\ mgr.h \in Handle /\ HasEncoder(mgr.job[1])
                           /\ client[mgr.job[1]].session_handle_q = <<>>
<1>1. ~Stopping /\ mgr.pc # "dead"
  BY DEF IInv, TypeOK, HasJob, Stopping
<1>2. mgr.job \in Job /\ mgr.job[1] \in Session /\ mgr.job # EXIT
  BY TypesOf DEF IInv, MgrInv
<1>3. HasHandle => /\ mgr.h = Encoder(mgr.job[1]) /\ mgr.h \in Handle /\ HasEncoder(mgr.job[1])
                   /\ client[mgr.job[1]].session_handle_q = <<>>
  BY <1>2, TypesOf DEF IInv, MgrInv, HandleInv
<1> QED BY <1>1, <1>2, <1>3

LEMMA WakeKeeps ==
    ASSUME OneEncoder, IInv, Wake
    PROVE  IInv'
<1>1. /\ mgr.pc = "wait" /\ job_sem' \in Nat /\ mgr'.pc \in {"wait", "lock"}
      /\ mgr' = mgr \/ mgr' = [mgr EXCEPT !.pc = "lock"]
      /\ UNCHANGED <<scene, job_queue, ongoing_job_q, job_lock, sess, client, omx, omxThread, call,
                     started, answers, gone>>
  BY DEF Wake, queues, jobVars, IInv, TypeOK
<1>2. ~HasJob /\ ~HasHandle /\ ~HasJob' /\ ~HasHandle' /\ mgr'.pc # "dead"
  BY <1>1 DEF HasJob, HasHandle
<1>3. TypeOK'
  BY <1>1, <1>2 DEF IInv, TypeOK
<1>4. CallType' /\ FreshInv' /\ ClientInv' /\ HandleInv' /\ MgrInv'
  BY <1>1, <1>2 DEF IInv, CallType, FreshInv, ClientInv, HandleInv, MgrInv, HasEncoder, Encoder,
                    Chain, Jobs
<1>5. QueueInv' /\ RunInv' /\ CallInv'
  BY <1>1, <1>2 DEF IInv, QueueInv, RunInv, CallInv, HasEncoder, Encoder, Chain, Jobs, Open,
                    Running, Stopping
<1> QED BY <1>3, <1>4, <1>5 DEF IInv

\* A session whose free encoders change, and an encoder that takes an output buffer or none.
LEMMA PoolIs ==
    ASSUME client \in [Session -> ClientType], NEW s \in Session, NEW q \in Seq(Handle),
           client' = [client EXCEPT ![s].session_handle_q = q]
    PROVE  /\ client' \in [Session -> ClientType] /\ client'[s].session_handle_q = q
           /\ \A t \in Session : client'[t].active = client[t].active /\ client'[t].id = client[t].id
           /\ \A t \in Session : t # s => client'[t] = client[t]
<1> DEFINE r == [client[s] EXCEPT !.session_handle_q = q]
<1>1. client[s] \in ClientType
  OBVIOUS
<1>2. /\ r \in ClientType /\ r.session_handle_q = q /\ r.active = client[s].active
      /\ r.id = client[s].id
  BY <1>1 DEF ClientType
<1>3. client' = [client EXCEPT ![s] = r]
  OBVIOUS
<1> HIDE DEF r
<1> QED BY <1>2, <1>3

LEMMA AutoIs ==
    ASSUME sess \in [Handle -> SessType], NEW h \in Handle, NEW b \in BOOLEAN,
           sess' = [sess EXCEPT ![h].auto = b]
    PROVE  /\ sess' \in [Handle -> SessType]
           /\ \A k \in Handle :
                /\ sess'[k].encoding = sess[k].encoding /\ sess'[k].job = sess[k].job
                /\ sess'[k].lock = sess[k].lock /\ sess'[k].abort = sess[k].abort
<1> DEFINE r == [sess[h] EXCEPT !.auto = b]
<1>1. sess[h] \in SessType
  OBVIOUS
<1>2. /\ r \in SessType /\ r.encoding = sess[h].encoding /\ r.job = sess[h].job
      /\ r.lock = sess[h].lock /\ r.abort = sess[h].abort
  BY <1>1 DEF SessType
<1>3. sess' = [sess EXCEPT ![h] = r]
  OBVIOUS
<1> HIDE DEF r
<1> QED BY <1>2, <1>3

LEMMA TakeJobKeeps ==
    ASSUME OneEncoder, IInv, TakeJob
    PROVE  IInv'
<1> DEFINE j == Head(job_queue)
           free == client[j[1]].session_handle_q
<1>1. /\ mgr.pc = "lock" /\ job_lock = "free" /\ ~HasJob /\ ~HasHandle /\ ~Stopping
      /\ UNCHANGED <<scene, ongoing_job_q, job_sem, omx, omxThread, call, started, answers, gone>>
  BY DEF TakeJob, jobVars, HasJob, HasHandle, Stopping, IInv, TypeOK
<1>2. CallType' /\ FreshInv' /\ ~Stopping' /\ UNCHANGED Jobs /\ \A i : Open(i)' = Open(i)
  BY <1>1 DEF IInv, CallType, FreshInv, Stopping, Jobs, Open
<1>3. CASE job_queue = <<>>
  <2>1. mgr' = IdleMgr /\ UNCHANGED <<job_queue, job_lock, sess, client>>
    BY <1>3 DEF TakeJob
  <2>2. mgr'.pc = "wait" /\ ~HasJob' /\ ~HasHandle'
    BY <2>1 DEF IdleMgr, HasJob, HasHandle
  <2>3. TypeOK'
    BY <1>1, <2>1, <2>2 DEF IInv, TypeOK, IdleMgr
  <2>4. ClientInv' /\ HandleInv' /\ MgrInv' /\ QueueInv' /\ RunInv' /\ CallInv'
    BY <1>1, <1>2, <2>1, <2>2
       DEF IInv, ClientInv, HandleInv, MgrInv, QueueInv, RunInv, CallInv, HasEncoder, Encoder,
           Chain, Running
  <2> QED BY <1>2, <2>3, <2>4 DEF IInv
<1>4. ASSUME job_queue # <<>>
      PROVE  /\ Tail(job_queue) \in Seq(Job \cup {EXIT}) /\ j \in Range(job_queue)
             /\ j \in Job \cup {EXIT} /\ Range(Tail(job_queue)) = Range(job_queue) \ {j}
             /\ Uniq(Tail(job_queue))
  <2>1. job_queue \in Seq(Job \cup {EXIT}) /\ Uniq(job_queue)
    BY TypesOf DEF IInv, QueueInv
  <2> QED BY <1>4, <2>1, TailKeeps
<1>5. CASE job_queue # <<>> /\ j = EXIT
  <2>1. /\ mgr' = [IdleMgr EXCEPT !.pc = "dead"] /\ job_queue' = Tail(job_queue)
        /\ UNCHANGED <<job_lock, sess, client>>
    BY <1>5 DEF TakeJob
  <2>2. mgr'.pc = "dead" /\ ~HasJob' /\ ~HasHandle' /\ call.pc = "join"
        /\ Range(job_queue') = Range(job_queue) \ {EXIT} /\ Uniq(job_queue')
    BY <1>4, <1>5, <2>1 DEF IdleMgr, HasJob, HasHandle, IInv, QueueInv
  <2>3. TypeOK'
    BY <1>1, <1>4, <1>5, <2>1, <2>2 DEF IInv, TypeOK, IdleMgr
  <2>4. ClientInv' /\ HandleInv' /\ MgrInv'
    BY <1>1, <2>1, <2>2
       DEF IInv, ClientInv, HandleInv, MgrInv, HasEncoder, Encoder, Chain
  <2>5. QueueInv' /\ RunInv' /\ CallInv'
    BY <1>1, <1>2, <2>1, <2>2
       DEF IInv, QueueInv, RunInv, CallInv, HasEncoder, Encoder, Chain, Running
  <2> QED BY <1>2, <2>3, <2>4, <2>5 DEF IInv
<1>6. CASE job_queue # <<>> /\ j # EXIT
  <2>1. /\ job_queue' = Tail(job_queue) /\ job_lock' = "mgr"
        /\ IF free = <<>>
           THEN /\ mgr' = [mgr EXCEPT !.pc = "again", !.job = j, !.tail = (job_queue' = <<>>)]
                /\ UNCHANGED <<sess, client>>
           ELSE /\ mgr' = [mgr EXCEPT !.pc = IF scene.auto THEN "buffer" ELSE "assign",
                                      !.job = j, !.h = Head(free)]
                /\ client' = [client EXCEPT ![j[1]].session_handle_q = Tail(free)]
                /\ sess' = [sess EXCEPT ![Head(free)].auto = FALSE]
    BY <1>6 DEF TakeJob
  <2>2. /\ j \in Job /\ Open(j) /\ client[j[1]].active /\ j[1] \in Session
        /\ \A h \in Handle : Running(h) => sess[h].job # j
        /\ j \notin Range(job_queue') /\ Range(job_queue') \subseteq Range(job_queue)
        /\ job_queue' \in Seq(Job \cup {EXIT}) /\ Uniq(job_queue')
    BY <1>4, <1>6, <2>1, TypesOf DEF IInv, QueueInv
  <2>3. mgr \in [pc: {"wait", "lock", "again", "buffer", "assign", "encode", "dead"},
                job: Job \cup {EXIT}, h: Handle \cup {NoHandle}, dst: Nat, tail: BOOLEAN]
    BY DEF IInv, TypeOK
  <2> HIDE DEF j
  <2>4. CASE free = <<>>
    <3>1. /\ mgr' = [mgr EXCEPT !.pc = "again", !.job = j, !.tail = (job_queue' = <<>>)]
          /\ UNCHANGED <<sess, client>>
      BY <2>1, <2>4
    <3>2. /\ mgr'.pc = "again" /\ mgr'.job = j /\ HasJob' /\ ~HasHandle'
          /\ mgr' \in [pc: {"wait", "lock", "again", "buffer", "assign", "encode", "dead"},
                job: Job \cup {EXIT}, h: Handle \cup {NoHandle}, dst: Nat, tail: BOOLEAN]
      BY <2>2, <2>3, <3>1 DEF HasJob, HasHandle
    <3>3. TypeOK'
      BY <1>1, <2>1, <2>2, <3>1, <3>2 DEF IInv, TypeOK
    <3>4. ClientInv' /\ HandleInv'
      BY <1>1, <3>1, <3>2 DEF IInv, ClientInv, HandleInv, HasEncoder, Encoder, Chain
    <3>5. MgrInv'
      BY <1>2, <2>2, <3>1, <3>2 DEF MgrInv, Running
    <3>6. QueueInv' /\ RunInv' /\ CallInv'
      BY <1>1, <1>2, <2>2, <3>1, <3>2
         DEF IInv, QueueInv, RunInv, CallInv, HasEncoder, Encoder, Chain, Running
    <3> QED BY <1>2, <3>3, <3>4, <3>5, <3>6 DEF IInv
  <2>5. CASE free # <<>>
    <3> DEFINE h == Encoder(j[1])
    <3>1. /\ free = <<h>> /\ h \in Handle /\ HasEncoder(j[1])
          /\ ~sess[h].encoding /\ omxThread[h] # "requeue"
      BY <2>2, <2>5, TypesOf DEF IInv, HandleInv, ClientInv
    <3>2. Head(free) = h /\ Tail(free) = <<>>
      BY <3>1
    <3> DEFINE pc == IF scene.auto THEN "buffer" ELSE "assign"
    <3>3. /\ mgr' = [mgr EXCEPT !.pc = pc, !.job = j, !.h = h]
          /\ client' = [client EXCEPT ![j[1]].session_handle_q = <<>>]
          /\ sess' = [sess EXCEPT ![h].auto = FALSE]
      BY <2>1, <2>5, <3>2
    <3>4. pc \in {"buffer", "assign"}
      OBVIOUS
    <3> HIDE DEF h, pc, free
    <3>5. /\ mgr'.pc \in {"buffer", "assign"} /\ mgr'.job = j /\ mgr'.h = h /\ HasJob' /\ HasHandle'
          /\ mgr' \in [pc: {"wait", "lock", "again", "buffer", "assign", "encode", "dead"},
                job: Job \cup {EXIT}, h: Handle \cup {NoHandle}, dst: Nat, tail: BOOLEAN]
      BY <2>2, <2>3, <3>1, <3>3, <3>4 DEF HasJob, HasHandle
    <3>6. /\ sess' \in [Handle -> SessType]
          /\ \A k \in Handle : /\ sess'[k].abort = sess[k].abort /\ sess'[k].job = sess[k].job
                               /\ sess'[k].encoding = sess[k].encoding
                               /\ sess'[k].lock = sess[k].lock
      <4>1. sess \in [Handle -> SessType]
        BY TypesOf
      <4> QED BY <3>1, <3>3, <4>1, AutoIs
    <3>7. /\ client' \in [Session -> ClientType] /\ client'[j[1]].session_handle_q = <<>>
          /\ \A t \in Session : client'[t].active = client[t].active /\ client'[t].id = client[t].id
          /\ \A t \in Session : t # j[1] => client'[t] = client[t]
      <4>1. <<>> \in Seq(Handle)
        OBVIOUS
      <4>2. client \in [Session -> ClientType]
        BY TypesOf
      <4> QED BY <2>2, <3>3, <4>1, <4>2, PoolIs
    <3>8. \A k \in Handle : Running(k)' <=> Running(k)
      BY <3>6 DEF Running
    <3>9. TypeOK'
      BY <1>1, <2>1, <2>2, <3>5, <3>6, <3>7 DEF IInv, TypeOK, SessType, ClientType
    <3>10. ClientInv'
      BY <1>1, <3>6, <3>7, TypesOf DEF IInv, ClientInv, HasEncoder, Encoder, Chain
    <3>11. HandleInv'
      <4> SUFFICES ASSUME NEW t \in Session, client'[t].session_handle_q # <<>>
                   PROVE  /\ client'[t].active /\ client'[t].session_handle_q = Chain(t)
                          /\ ~sess'[Encoder(t)].encoding /\ omxThread[Encoder(t)] # "requeue"
                          /\ mgr'.h # Encoder(t)
        BY <1>1 DEF HandleInv, HasEncoder, Encoder, Chain
      <4>1. t # j[1] /\ client'[t] = client[t]
        BY <3>7
      <4>2. /\ client[t].active /\ client[t].session_handle_q = Chain(t)
            /\ ~sess[Encoder(t)].encoding /\ omxThread[Encoder(t)] # "requeue"
            /\ HasEncoder(t) /\ Encoder(t) \in Handle
        BY <4>1, TypesOf DEF IInv, HandleInv, ClientInv
      <4>3. Encoder(t) # h
        BY <2>2, <3>1, <4>1, <4>2, TypesOf DEF h
      <4> QED BY <3>5, <3>6, <4>1, <4>2, <4>3
    <3>12. MgrInv'
      BY <1>1, <1>2, <2>2, <3>1, <3>5, <3>6, <3>7, <3>8
         DEF MgrInv, h, HasEncoder, Encoder, Chain
    <3>13. QueueInv'
      <4>1. ASSUME NEW i \in Range(job_queue'), i # EXIT
            PROVE  /\ Open(i)' /\ client'[i[1]].active
                   /\ \A k \in Handle : Running(k)' => sess'[k].job # i
        <5>1. /\ Open(i) /\ client[i[1]].active /\ i[1] \in Session
              /\ \A k \in Handle : Running(k) => sess[k].job # i
          BY <2>2, <4>1, TypesOf DEF IInv, QueueInv, Open
        <5> QED BY <1>2, <3>6, <3>7, <3>8, <5>1
      <4>2. EXIT \in Range(job_queue') => call.pc = "join"
        BY <2>2 DEF IInv, QueueInv
      <4>3. mgr'.pc # "dead"
        BY <3>5
      <4> QED BY <1>1, <1>2, <2>2, <4>1, <4>2, <4>3 DEF QueueInv
    <3>14. RunInv'
      BY <1>1, <1>2, <3>6, <3>8 DEF IInv, RunInv, HasEncoder, Encoder, Chain
    <3>15. CallInv'
      BY <1>1, <1>2, <3>5, <3>6, <3>7 DEF IInv, CallInv, CallType, HasEncoder, Encoder, Chain
    <3> QED BY <1>2, <3>9, <3>10, <3>11, <3>12, <3>13, <3>14, <3>15 DEF IInv
  <2> QED BY <2>4, <2>5
<1> QED BY <1>3, <1>5, <1>6

LEMMA EnqHeadKeeps ==
    ASSUME OneEncoder, IInv, EnqHead
    PROVE  IInv'
<1>1. /\ mgr.pc = "again" /\ HasJob /\ ~HasHandle
      /\ job_queue' = IF mgr.tail THEN Append(job_queue, mgr.job) ELSE <<mgr.job>> \o job_queue
      /\ mgr' = IdleMgr /\ job_lock' = "free"
      /\ UNCHANGED <<scene, ongoing_job_q, job_sem, sess, client, omx, omxThread, call, started,
                     answers, gone>>
  BY DEF EnqHead, jobVars, HasJob, HasHandle
<1>2. ~Stopping /\ mgr.job \in Job /\ mgr.job[1] \in Session /\ mgr.job # EXIT /\ mgr.pc # "dead"
  BY <1>1, MgrWorks
<1>3. /\ Open(mgr.job) /\ client[mgr.job[1]].active /\ mgr.job \notin Range(job_queue)
      /\ \A h \in Handle : Running(h) => sess[h].job # mgr.job
  BY <1>1 DEF IInv, MgrInv
<1>4. /\ job_queue' \in Seq(Job \cup {EXIT}) /\ Uniq(job_queue')
      /\ Range(job_queue') = Range(job_queue) \cup {mgr.job}
  <2>1. job_queue \in Seq(Job \cup {EXIT}) /\ Uniq(job_queue) /\ mgr.job \in Job \cup {EXIT}
    BY <1>2, TypesOf DEF IInv, QueueInv
  <2>2. CASE mgr.tail
    BY <1>1, <1>3, <2>1, <2>2, AppendKeeps
  <2>3. CASE ~mgr.tail
    BY <1>1, <1>3, <2>1, <2>3, PrependKeeps
  <2> QED BY <2>2, <2>3
<1>5. mgr'.pc = "wait" /\ ~HasJob' /\ ~HasHandle' /\ ~Stopping'
  BY <1>1, <1>2 DEF IdleMgr, HasJob, HasHandle, Stopping
<1>6. TypeOK'
  BY <1>1, <1>4, <1>5 DEF IInv, TypeOK, IdleMgr, Stopping
<1>7. CallType' /\ FreshInv' /\ ClientInv' /\ HandleInv' /\ MgrInv'
  BY <1>1, <1>5 DEF IInv, CallType, FreshInv, ClientInv, HandleInv, MgrInv, HasEncoder, Encoder,
                    Chain, Jobs
<1>8. QueueInv'
  BY <1>1, <1>2, <1>3, <1>4, <1>5 DEF IInv, QueueInv, Open, Jobs, Running
<1>9. RunInv' /\ CallInv'
  BY <1>1, <1>5 DEF IInv, RunInv, CallInv, HasEncoder, Encoder, Chain, Jobs, Open, Running, Stopping
<1> QED BY <1>6, <1>7, <1>8, <1>9 DEF IInv


LEMMA TakeBufferKeeps ==
    ASSUME OneEncoder, IInv, TakeBuffer
    PROVE  IInv'
<1>1. /\ mgr.pc = "buffer" /\ HasJob /\ HasHandle
      /\ UNCHANGED <<scene, job_queue, ongoing_job_q, job_sem, omx, omxThread, call, started,
                     answers, gone>>
  BY DEF TakeBuffer, HasJob, HasHandle, queues, jobVars
<1>2. /\ ~Stopping /\ mgr.job[1] \in Session /\ mgr.h \in Handle
      /\ sess \in [Handle -> SessType] /\ client \in [Session -> ClientType]
  BY <1>1, MgrWorks, TypesOf
<1>3. /\ ~Stopping' /\ CallType' /\ FreshInv' /\ \A j : Open(j)' = Open(j)
      /\ UNCHANGED Jobs
  BY <1>1, <1>2 DEF IInv, CallType, Stopping, FreshInv, Open, Jobs
<1> DEFINE s == mgr.job[1]
<1>4. CASE client[s].out_buf_q = <<>>
  <2>1. mgr' = IdleMgr /\ job_lock' = "free" /\ UNCHANGED <<sess, client>>
    BY <1>4 DEF TakeBuffer
  <2>2. mgr'.pc = "wait" /\ ~HasJob' /\ ~HasHandle'
    BY <2>1 DEF IdleMgr, HasJob, HasHandle
  <2>3. TypeOK'
    BY <1>1, <1>2, <2>1, <2>2 DEF IInv, TypeOK, IdleMgr, Stopping
  <2>4. ClientInv' /\ HandleInv' /\ MgrInv'
    BY <1>1, <2>1, <2>2 DEF IInv, ClientInv, HandleInv, MgrInv, HasEncoder, Encoder, Chain
  <2>5. QueueInv' /\ RunInv' /\ CallInv'
    BY <1>1, <1>3, <2>1, <2>2
       DEF IInv, QueueInv, RunInv, CallInv, HasEncoder, Encoder, Chain, Running, Stopping
  <2> QED BY <1>3, <2>3, <2>4, <2>5 DEF IInv
<1>5. CASE client[s].out_buf_q # <<>>
  <2> DEFINE q == client[s].out_buf_q
  <2>1. /\ mgr' = [mgr EXCEPT !.pc = "assign", !.dst = Head(q)]
        /\ client' = [client EXCEPT ![s].out_buf_q = Tail(@)]
        /\ sess' = [sess EXCEPT ![mgr.h].auto = TRUE] /\ UNCHANGED job_lock
    BY <1>5 DEF TakeBuffer
  <2>2. Head(q) \in Nat /\ Tail(q) \in Seq(Nat)
    <3>1. q \in Seq(Nat) /\ q # <<>>
      BY <1>2, <1>5 DEF ClientType
    <3> HIDE DEF q
    <3> QED BY <3>1
  <2>3. /\ mgr'.pc = "assign" /\ mgr'.h = mgr.h /\ mgr'.job = mgr.job /\ HasJob' /\ HasHandle'
        /\ mgr' \in [pc: {"wait", "lock", "again", "buffer", "assign", "encode", "dead"},
                job: Job \cup {EXIT}, h: Handle \cup {NoHandle}, dst: Nat, tail: BOOLEAN]
    <3> HIDE DEF q
    <3> QED BY <2>1, <2>2 DEF IInv, TypeOK, HasJob, HasHandle
  <2>4. /\ client' \in [Session -> ClientType]
        /\ \A t \in Session : /\ client'[t].active = client[t].active
                              /\ client'[t].id = client[t].id
                              /\ client'[t].session_handle_q = client[t].session_handle_q
    <3> DEFINE r == [client[s] EXCEPT !.out_buf_q = Tail(q)]
    <3>1. client[s] \in ClientType
      BY <1>2
    <3>2. /\ r \in ClientType /\ r.active = client[s].active /\ r.id = client[s].id
          /\ r.session_handle_q = client[s].session_handle_q
      <4> HIDE DEF q
      <4> QED BY <2>2, <3>1 DEF ClientType
    <3>3. client' = [client EXCEPT ![s] = r]
      BY <2>1
    <3> HIDE DEF r
    <3> QED BY <1>2, <3>2, <3>3
  <2>5. /\ sess' \in [Handle -> SessType]
        /\ \A k \in Handle : /\ sess'[k].abort = sess[k].abort /\ sess'[k].job = sess[k].job
                             /\ sess'[k].encoding = sess[k].encoding
                             /\ sess'[k].lock = sess[k].lock
    BY <1>2, <2>1, AutoIs
  <2>6. \A k \in Handle : Running(k)' <=> Running(k)
    BY <2>5 DEF Running
  <2>7. TypeOK'
    BY <1>1, <1>2, <2>1, <2>3, <2>4, <2>5 DEF IInv, TypeOK, SessType, ClientType
  <2>8. ClientInv'
    BY <1>1, <2>4, <2>5, TypesOf DEF IInv, ClientInv, HasEncoder, Encoder, Chain
  <2>9. HandleInv'
    BY <1>1, <2>3, <2>4, <2>5, TypesOf
       DEF IInv, ClientInv, HandleInv, HasEncoder, Encoder, Chain
  <2>10. MgrInv'
    BY <1>1, <1>2, <1>3, <2>3, <2>4, <2>5, <2>6
       DEF IInv, MgrInv, HasEncoder, Encoder, Chain
  <2>11. QueueInv'
    <3>1. ASSUME NEW i \in Range(job_queue), i # EXIT
          PROVE  /\ Open(i)' /\ client'[i[1]].active
                 /\ \A k \in Handle : Running(k)' => sess'[k].job # i
      <4>1. /\ Open(i) /\ client[i[1]].active /\ i[1] \in Session
            /\ \A k \in Handle : Running(k) => sess[k].job # i
        BY <3>1, TypesOf DEF IInv, QueueInv, Open
      <4> QED BY <1>3, <2>4, <2>5, <2>6, <4>1
    <3> QED BY <1>1, <1>3, <2>3, <3>1 DEF IInv, QueueInv
  <2>12. RunInv'
    BY <1>1, <1>3, <2>5, <2>6 DEF IInv, RunInv, HasEncoder, Encoder, Chain
  <2>13. CallInv'
    BY <1>1, <1>3, <2>3, <2>4 DEF IInv, CallInv, CallType
  <2> QED BY <1>3, <2>7, <2>8, <2>9, <2>10, <2>11, <2>12, <2>13 DEF IInv
<1> QED BY <1>4, <1>5

LEMMA AssignJobKeeps ==
    ASSUME OneEncoder, IInv, AssignJob
    PROVE  IInv'
<1>1. /\ mgr.pc = "assign" /\ HasJob /\ HasHandle
      /\ ongoing_job_q' = ongoing_job_q \cup {mgr.job}
      /\ sess' = [sess EXCEPT ![mgr.h].dst = mgr.dst, ![mgr.h].job = mgr.job]
      /\ mgr' = [mgr EXCEPT !.pc = "encode"]
      /\ UNCHANGED <<scene, job_queue, job_sem, job_lock, client, omx, omxThread, call, started,
                     answers, gone>>
  BY DEF AssignJob, HasJob, HasHandle, jobVars
<1>2. /\ ~Stopping /\ mgr.job \in Job /\ mgr.h \in Handle /\ mgr.h = Encoder(mgr.job[1])
      /\ sess \in [Handle -> SessType]
  BY <1>1, MgrWorks, TypesOf
<1>3. /\ ~Stopping' /\ CallType' /\ FreshInv' /\ (\A j : Open(j)' = Open(j)) /\ UNCHANGED Jobs
  BY <1>1, <1>2 DEF IInv, CallType, Stopping, FreshInv, Open, Jobs
<1>4. /\ mgr'.pc = "encode" /\ mgr'.h = mgr.h /\ mgr'.job = mgr.job /\ HasJob' /\ HasHandle'
      /\ mgr' \in [pc: {"wait", "lock", "again", "buffer", "assign", "encode", "dead"},
                job: Job \cup {EXIT}, h: Handle \cup {NoHandle}, dst: Nat, tail: BOOLEAN]
      /\ mgr.dst \in Nat
  BY <1>1 DEF HasJob, HasHandle, IInv, TypeOK
<1>5. /\ sess' \in [Handle -> SessType] /\ sess'[mgr.h].job = mgr.job
      /\ \A k \in Handle \ {mgr.h} : sess'[k] = sess[k]
      /\ \A k \in Handle : /\ sess'[k].abort = sess[k].abort /\ sess'[k].lock = sess[k].lock
                           /\ sess'[k].encoding = sess[k].encoding
  <2> DEFINE r == [sess[mgr.h] EXCEPT !.dst = mgr.dst, !.job = mgr.job]
  <2>1. sess[mgr.h] \in SessType
    BY <1>2
  <2>2. /\ r \in SessType /\ r.job = mgr.job /\ r.abort = sess[mgr.h].abort
        /\ r.lock = sess[mgr.h].lock /\ r.encoding = sess[mgr.h].encoding
    BY <1>2, <1>4, <2>1 DEF SessType
  <2>3. sess' = [sess EXCEPT ![mgr.h] = r]
    BY <1>1
  <2> HIDE DEF r
  <2> QED BY <1>2, <2>2, <2>3
<1>6. ~sess[mgr.h].encoding /\ omxThread[mgr.h] # "requeue"
  BY <1>1 DEF IInv, MgrInv
<1>7. \A k \in Handle : Running(k)' => Running(k) /\ k # mgr.h /\ sess'[k].job = sess[k].job
  BY <1>5, <1>6 DEF Running
<1>8. TypeOK'
  BY <1>1, <1>2, <1>4, <1>5 DEF IInv, TypeOK, SessType
<1>9. ClientInv'
  BY <1>1, <1>5, TypesOf DEF IInv, ClientInv, HasEncoder, Encoder, Chain
<1>10. HandleInv'
  BY <1>1, <1>4, <1>5, TypesOf DEF IInv, ClientInv, HandleInv, HasEncoder, Encoder, Chain
<1>11. MgrInv'
  BY <1>1, <1>3, <1>4, <1>5, <1>6, <1>7 DEF IInv, MgrInv, HasEncoder, Encoder, Chain
<1>12. QueueInv'
  <2>1. ASSUME NEW i \in Range(job_queue), i # EXIT
        PROVE  /\ Open(i)' /\ client[i[1]].active
               /\ \A k \in Handle : Running(k)' => sess'[k].job # i
    BY <1>3, <1>7, <2>1 DEF IInv, QueueInv
  <2> QED BY <1>1, <1>3, <1>4, <2>1 DEF IInv, QueueInv
<1>13. RunInv'
  <2> SUFFICES ASSUME NEW k \in Handle
               PROVE  /\ Running(k)' =>
                           /\ sess'[k].job \in Job /\ Open(sess[k].job)'
                           /\ HasEncoder(sess'[k].job[1]) /\ k = Encoder(sess'[k].job[1])
                           /\ \/ sess'[k].job \in ongoing_job_q'
                              \/ call.pc = "mark" /\ call.s = sess'[k].job[1]
                      /\ omx[k].busy => sess'[k].encoding
                      /\ omxThread[k] # "none" =>
                           /\ sess'[k].abort = "NONE" /\ sess'[k].lock = "omx"
                      /\ omxThread[k] = "requeue" =>
                           /\ ~sess'[k].encoding /\ sess'[k].job \in Job
                           /\ HasEncoder(sess'[k].job[1]) /\ k = Encoder(sess'[k].job[1])
    BY <1>1 DEF RunInv, HasEncoder, Encoder, Chain
  <2>1. CASE k = mgr.h
    BY <1>5, <1>6, <1>7, <2>1 DEF IInv, RunInv
  <2>2. CASE k # mgr.h
    BY <1>1, <1>3, <1>5, <1>7, <2>2 DEF IInv, RunInv
  <2> QED BY <2>1, <2>2
<1>14. CallInv'
  BY <1>1, <1>3, <1>4 DEF IInv, CallInv
<1> QED BY <1>3, <1>8, <1>9, <1>10, <1>11, <1>12, <1>13, <1>14 DEF IInv


\* An encoder that starts or gives up a job.
LEMMA EncodingIs ==
    ASSUME sess \in [Handle -> SessType], NEW h \in Handle, NEW b \in BOOLEAN,
           sess' = [sess EXCEPT ![h].abort = "NONE", ![h].encoding = b]
    PROVE  /\ sess' \in [Handle -> SessType] /\ \A k \in Handle \ {h} : sess'[k] = sess[k]
           /\ sess'[h].abort = "NONE" /\ sess'[h].encoding = b
           /\ sess'[h].job = sess[h].job /\ sess'[h].lock = sess[h].lock
<1> DEFINE r == [sess[h] EXCEPT !.abort = "NONE", !.encoding = b]
<1>1. sess[h] \in SessType
  OBVIOUS
<1>2. /\ r \in SessType /\ r.abort = "NONE" /\ r.encoding = b
      /\ r.job = sess[h].job /\ r.lock = sess[h].lock
  BY <1>1 DEF SessType
<1>3. sess' = [sess EXCEPT ![h] = r]
  OBVIOUS
<1> HIDE DEF r
<1> QED BY <1>2, <1>3

\* A job that is answered: the answers, and who has what is open still.
LEMMA AnswerIs ==
    ASSUME OneEncoder, IInv, NEW j \in Jobs, NEW status \in {"DONE", "ERROR"}, Answer(j, status),
           UNCHANGED <<started, gone>>
    PROVE  /\ answers' \in [Job -> Seq({"DONE", "ERROR"})] /\ FreshInv' /\ UNCHANGED Jobs
           /\ \A i \in Job : Open(i) /\ i # j => Open(i)'
<1>1. /\ answers \in [Job -> Seq({"DONE", "ERROR"})] /\ j \in Job
      /\ answers' = [answers EXCEPT ![j] = Append(@, status)]
  BY TypesOf DEF IInv, TypeOK, Answer
<1>2. Append(answers[j], status) \in Seq({"DONE", "ERROR"})
  BY <1>1
<1>3. Jobs' = Jobs
  BY DEF Jobs
<1>4. answers' \in [Job -> Seq({"DONE", "ERROR"})] /\ \A i \in Job : i # j => answers'[i] = answers[i]
  BY <1>1, <1>2
<1>5. FreshInv'
  BY <1>3, <1>4 DEF IInv, FreshInv
<1>6. \A i \in Job : Open(i) /\ i # j => Open(i)'
  BY <1>3, <1>4 DEF Open
<1> QED BY <1>3, <1>4, <1>5, <1>6

LEMMA EncodeKeeps ==
    ASSUME OneEncoder, IInv, Encode
    PROVE  IInv'
<1> DEFINE h == mgr.h
           j == mgr.job
<1>1. /\ mgr.pc = "encode" /\ HasJob /\ HasHandle /\ sess[h].lock = "free"
      /\ mgr' = IdleMgr /\ job_lock' = "free"
      /\ UNCHANGED <<scene, job_queue, omxThread, call, started, gone>>
  BY DEF Encode, HasJob, HasHandle
<1>2. /\ ~Stopping /\ j \in Job /\ j[1] \in Session /\ h \in Handle /\ h = Encoder(j[1])
      /\ HasEncoder(j[1]) /\ client[j[1]].session_handle_q = <<>> /\ j # EXIT
      /\ sess \in [Handle -> SessType] /\ client \in [Session -> ClientType]
      /\ omx \in [Handle -> OmxType] /\ job_sem \in Nat
  BY <1>1, MgrWorks, TypesOf DEF IInv, TypeOK
<1>3. /\ Open(j) /\ client[j[1]].active /\ j \notin Range(job_queue) /\ sess[h].job = j
      /\ \A k \in Handle : Running(k) => sess[k].job # j
      /\ ~sess[h].encoding /\ omxThread[h] = "none" /\ j \in ongoing_job_q
  BY <1>1, <1>2 DEF IInv, MgrInv, RunInv
<1>4. /\ mgr'.pc = "wait" /\ ~HasJob' /\ ~HasHandle' /\ ~Stopping' /\ CallType' /\ UNCHANGED Jobs
      /\ mgr' \in [pc: {"wait", "lock", "again", "buffer", "assign", "encode", "dead"},
                job: Job \cup {EXIT}, h: Handle \cup {NoHandle}, dst: Nat, tail: BOOLEAN]
  BY <1>1, <1>2 DEF IdleMgr, HasJob, HasHandle, Stopping, IInv, CallType, Jobs
<1>5. \A t \in Session : HasEncoder(t) /\ Encoder(t) = h => t = j[1]
  BY <1>2, TypesOf
<1>6. \A t : HasEncoder(t)' = HasEncoder(t) /\ Encoder(t)' = Encoder(t) /\ Chain(t)' = Chain(t)
  BY <1>1 DEF HasEncoder, Encoder, Chain
<1> HIDE DEF h, j
<1>7. CASE /\ sess' = [sess EXCEPT ![h].abort = "NONE", ![h].encoding = TRUE]
           /\ omx' = [omx EXCEPT ![h].busy = TRUE]
           /\ UNCHANGED <<ongoing_job_q, job_sem, client, answers>>
  <2>1. /\ sess' \in [Handle -> SessType] /\ (\A k \in Handle \ {h} : sess'[k] = sess[k])
        /\ sess'[h].abort = "NONE" /\ sess'[h].encoding
        /\ sess'[h].job = sess[h].job /\ sess'[h].lock = sess[h].lock
    BY <1>2, <1>7, EncodingIs
  <2>2. omx' \in [Handle -> OmxType] /\ \A k \in Handle \ {h} : omx'[k] = omx[k]
    <3> DEFINE r == [omx[h] EXCEPT !.busy = TRUE]
    <3>1. omx[h] \in OmxType
      BY <1>2
    <3>2. r \in OmxType
      BY <3>1 DEF OmxType
    <3>3. omx' = [omx EXCEPT ![h] = r]
      BY <1>7
    <3> HIDE DEF r
    <3> QED BY <1>2, <3>2, <3>3
  <2>3. \A i : Open(i)' = Open(i)
    BY <1>1, <1>4, <1>7 DEF Open
  <2>4. \A k \in Handle : Running(k)' => IF k = h THEN sess'[k].job = j
                                         ELSE Running(k) /\ sess'[k] = sess[k]
    BY <1>3, <2>1 DEF Running
  <2>5. TypeOK'
    BY <1>1, <1>4, <1>7, <2>1, <2>2 DEF IInv, TypeOK, SessType, OmxType, Stopping
  <2>6. FreshInv'
    BY <1>1, <1>4, <1>7 DEF IInv, FreshInv
  <2>7. ClientInv'
    BY <1>3, <1>5, <1>6, <1>7, <2>1, TypesOf DEF IInv, ClientInv
  <2>8. HandleInv'
    <3> SUFFICES ASSUME NEW t \in Session, client[t].session_handle_q # <<>>
                 PROVE  /\ client[t].active /\ client[t].session_handle_q = Chain(t)
                        /\ ~sess'[Encoder(t)].encoding /\ omxThread[Encoder(t)] # "requeue"
      BY <1>1, <1>4, <1>7 DEF HandleInv, HasEncoder, Encoder, Chain
    <3>1. /\ client[t].active /\ client[t].session_handle_q = Chain(t)
          /\ ~sess[Encoder(t)].encoding /\ omxThread[Encoder(t)] # "requeue"
          /\ HasEncoder(t) /\ Encoder(t) \in Handle
      BY TypesOf DEF IInv, HandleInv, ClientInv
    <3>2. Encoder(t) # h
      BY <1>2, <1>5, <3>1
    <3> QED BY <2>1, <3>1, <3>2
  <2>9. MgrInv'
    BY <1>4 DEF MgrInv, HasHandle
  <2>10. QueueInv'
    <3>1. ASSUME NEW i \in Range(job_queue), i # EXIT
          PROVE  /\ Open(i)' /\ client[i[1]].active
                 /\ \A k \in Handle : Running(k)' => sess'[k].job # i
      BY <1>3, <2>3, <2>4, <3>1 DEF IInv, QueueInv
    <3> QED BY <1>1, <1>4, <1>7, <3>1 DEF IInv, QueueInv
  <2>11. RunInv'
    <3> SUFFICES ASSUME NEW k \in Handle
                 PROVE  /\ Running(k)' =>
                             /\ sess'[k].job \in Job /\ Open(sess[k].job)'
                             /\ HasEncoder(sess'[k].job[1]) /\ k = Encoder(sess'[k].job[1])
                             /\ \/ sess'[k].job \in ongoing_job_q
                                \/ call.pc = "mark" /\ call.s = sess'[k].job[1]
                        /\ omx'[k].busy => sess'[k].encoding
                        /\ omxThread[k] # "none" =>
                             /\ sess'[k].abort = "NONE" /\ sess'[k].lock = "omx"
                        /\ omxThread[k] = "requeue" =>
                             /\ ~sess'[k].encoding /\ sess'[k].job \in Job
                             /\ HasEncoder(sess'[k].job[1]) /\ k = Encoder(sess'[k].job[1])
      BY <1>1, <1>7 DEF RunInv, HasEncoder, Encoder, Chain
    <3>1. CASE k = h
      BY <1>2, <1>3, <2>1, <2>3, <2>4, <3>1
    <3>2. CASE k # h
      BY <2>1, <2>2, <2>3, <2>4, <3>2 DEF IInv, RunInv
    <3> QED BY <3>1, <3>2
  <2>12. CallInv'
    BY <1>1, <1>4, <1>7 DEF IInv, CallInv
  <2> QED BY <1>4, <2>5, <2>6, <2>7, <2>8, <2>9, <2>10, <2>11, <2>12 DEF IInv
<1>8. CASE /\ Answer(j, "ERROR") /\ ongoing_job_q' = ongoing_job_q \ {sess[h].job}
           /\ sess' = [sess EXCEPT ![h].abort = "NONE", ![h].encoding = FALSE]
           /\ client' = [client EXCEPT ![j[1]].session_handle_q = Append(@, h),
                 ![j[1]].out_buf_q = IF sess[h].auto THEN Append(@, sess[h].dst) ELSE @]
           /\ job_sem' = job_sem + 1
           /\ UNCHANGED omx
  <2>1. /\ sess' \in [Handle -> SessType] /\ (\A k \in Handle \ {h} : sess'[k] = sess[k])
        /\ sess'[h].abort = "NONE" /\ ~sess'[h].encoding
        /\ sess'[h].job = sess[h].job /\ sess'[h].lock = sess[h].lock
    BY <1>2, <1>8, EncodingIs
  <2>2. /\ client' \in [Session -> ClientType] /\ client'[j[1]].session_handle_q = <<h>>
        /\ client'[j[1]].active
        /\ \A t \in Session : /\ client'[t].active = client[t].active
                              /\ client'[t].id = client[t].id
        /\ \A t \in Session : t # j[1] => client'[t] = client[t]
    <3> DEFINE c == client[j[1]]
               q == IF sess[h].auto THEN Append(c.out_buf_q, sess[h].dst) ELSE c.out_buf_q
               r == [c EXCEPT !.session_handle_q = <<h>>, !.out_buf_q = q]
    <3>1. c \in ClientType /\ sess[h].dst \in Nat
      BY <1>2 DEF SessType
    <3>2. q \in Seq(Nat)
      BY <3>1 DEF ClientType
    <3>3. Append(c.session_handle_q, h) = <<h>> /\ <<h>> \in Seq(Handle)
      BY <1>2
    <3>4. client' = [client EXCEPT ![j[1]] = r]
      <4> DEFINE r0 == [c EXCEPT !.session_handle_q = Append(@, h), !.out_buf_q = q]
      <4>1. client' = [client EXCEPT ![j[1]] = r0]
        BY <1>8
      <4>2. r0 = r
        <5> HIDE DEF q
        <5> QED BY <3>3
      <4> QED BY <4>1, <4>2
    <3>5. /\ r \in ClientType /\ r.session_handle_q = <<h>> /\ r.active = c.active /\ r.id = c.id
      <4> HIDE DEF c, q
      <4> QED BY <3>1, <3>2, <3>3 DEF ClientType
    <3>6. r.active = client[j[1]].active /\ r.id = client[j[1]].id /\ r.session_handle_q = <<h>>
          /\ r \in ClientType
      BY <3>5
    <3> HIDE DEF r
    <3> QED BY <1>2, <1>3, <3>4, <3>6
  <2>3. /\ answers' \in [Job -> Seq({"DONE", "ERROR"})] /\ FreshInv'
        /\ \A i \in Job : Open(i) /\ i # j => Open(i)'
    BY <1>1, <1>3, <1>8, AnswerIs DEF Open
  <2>4. \A k \in Handle : Running(k)' => Running(k) /\ k # h /\ sess'[k] = sess[k]
    BY <2>1 DEF Running
  <2>5. ongoing_job_q' = ongoing_job_q \ {j} /\ job_sem' \in Nat
    BY <1>2, <1>3, <1>8
  <2>6. TypeOK'
    BY <1>1, <1>4, <1>8, <2>1, <2>2, <2>3, <2>5
       DEF IInv, TypeOK, SessType, ClientType, Stopping
  <2>7. ClientInv'
    BY <1>3, <1>5, <1>6, <2>1, <2>2, TypesOf DEF IInv, ClientInv
  <2>8. HandleInv'
    <3> SUFFICES ASSUME NEW t \in Session, client'[t].session_handle_q # <<>>
                 PROVE  /\ client'[t].active /\ client'[t].session_handle_q = Chain(t)
                        /\ ~sess'[Encoder(t)].encoding /\ omxThread[Encoder(t)] # "requeue"
      BY <1>1, <1>4 DEF HandleInv, HasEncoder, Encoder, Chain
    <3>1. CASE t = j[1]
      BY <1>2, <1>3, <2>1, <2>2, <3>1, TypesOf
    <3>2. CASE t # j[1]
      <4>1. /\ client[t].active /\ client[t].session_handle_q = Chain(t)
            /\ ~sess[Encoder(t)].encoding /\ omxThread[Encoder(t)] # "requeue"
            /\ HasEncoder(t) /\ Encoder(t) \in Handle /\ client'[t] = client[t]
        BY <2>2, <3>2, TypesOf DEF IInv, HandleInv, ClientInv
      <4>2. Encoder(t) # h
        BY <1>2, <1>5, <3>2, <4>1
      <4> QED BY <2>1, <4>1, <4>2
    <3> QED BY <3>1, <3>2
  <2>9. MgrInv'
    BY <1>4 DEF MgrInv, HasHandle
  <2>10. QueueInv'
    <3>1. ASSUME NEW i \in Range(job_queue), i # EXIT
          PROVE  /\ Open(i)' /\ client'[i[1]].active
                 /\ \A k \in Handle : Running(k)' => sess'[k].job # i
      <4>1. /\ Open(i) /\ client[i[1]].active /\ i \in Job /\ i[1] \in Session /\ i # j
            /\ \A k \in Handle : Running(k) => sess[k].job # i
        BY <1>3, <3>1, TypesOf DEF IInv, QueueInv, Open
      <4> QED BY <2>2, <2>3, <2>4, <4>1
    <3> QED BY <1>1, <1>4, <3>1 DEF IInv, QueueInv
  <2>11. RunInv'
    <3> SUFFICES ASSUME NEW k \in Handle
                 PROVE  /\ Running(k)' =>
                             /\ sess'[k].job \in Job /\ Open(sess[k].job)'
                             /\ HasEncoder(sess'[k].job[1]) /\ k = Encoder(sess'[k].job[1])
                             /\ \/ sess'[k].job \in ongoing_job_q'
                                \/ call.pc = "mark" /\ call.s = sess'[k].job[1]
                        /\ omx[k].busy => sess'[k].encoding
                        /\ omxThread[k] # "none" =>
                             /\ sess'[k].abort = "NONE" /\ sess'[k].lock = "omx"
                        /\ omxThread[k] = "requeue" =>
                             /\ ~sess'[k].encoding /\ sess'[k].job \in Job
                             /\ HasEncoder(sess'[k].job[1]) /\ k = Encoder(sess'[k].job[1])
      BY <1>1, <1>8 DEF RunInv, HasEncoder, Encoder, Chain
    <3>1. CASE k = h
      BY <1>3, <2>4, <3>1 DEF IInv, RunInv
    <3>2. CASE k # h
      BY <1>3, <2>1, <2>3, <2>4, <2>5, <3>2 DEF IInv, RunInv
    <3> QED BY <3>1, <3>2
  <2>12. CallInv'
    BY <1>1, <1>4, <2>2 DEF IInv, CallInv, CallType
  <2> QED BY <1>4, <2>3, <2>6, <2>7, <2>8, <2>9, <2>10, <2>11, <2>12 DEF IInv
<1> QED BY <1>7, <1>8 DEF Encode, h, j


LEMMA FinishKeeps ==
    ASSUME OneEncoder, IInv, NEW h \in Handle, NEW status \in {"DONE", "ERROR"},
           omx[h].busy, sess[h].abort = "NONE", omxThread[h] = "none", Finish(h, status),
           UNCHANGED <<scene, job_queue, job_sem, job_lock, mgr, client, call, started, gone>>
    PROVE  IInv'
<1> DEFINE j == sess[h].job
<1>1. /\ omx' = [omx EXCEPT ![h].busy = FALSE] /\ Answer(j, status)
      /\ ongoing_job_q' = ongoing_job_q \ {j}
      /\ sess' = [sess EXCEPT ![h].encoding = FALSE, ![h].lock = "omx"]
      /\ omxThread' = [omxThread EXCEPT ![h] = "requeue"]
  BY DEF Finish
<1>2. /\ Running(h) /\ j \in Job /\ Open(j) /\ HasEncoder(j[1]) /\ h = Encoder(j[1])
      /\ j[1] \in Session /\ j \in Jobs
      /\ sess \in [Handle -> SessType] /\ omx \in [Handle -> OmxType]
      /\ omxThread \in [Handle -> {"none", "requeue", "return"}]
  BY TypesOf DEF IInv, RunInv, Running, Open, TypeOK
<1>3. /\ sess' \in [Handle -> SessType] /\ (\A k \in Handle \ {h} : sess'[k] = sess[k])
      /\ sess'[h].abort = "NONE" /\ ~sess'[h].encoding /\ sess'[h].job = j /\ sess'[h].lock = "omx"
  <2> DEFINE r == [sess[h] EXCEPT !.encoding = FALSE, !.lock = "omx"]
  <2>1. sess[h] \in SessType /\ sess[h].abort = "NONE"
    BY <1>2
  <2>2. r \in SessType /\ r.abort = "NONE" /\ ~r.encoding /\ r.job = j /\ r.lock = "omx"
    BY <2>1 DEF SessType
  <2>3. sess' = [sess EXCEPT ![h] = r]
    BY <1>1
  <2> HIDE DEF r, j
  <2> QED BY <1>2, <2>2, <2>3
<1>4. omx' \in [Handle -> OmxType] /\ \A k \in Handle : omx'[k].busy => omx[k].busy /\ k # h
  <2> DEFINE r == [omx[h] EXCEPT !.busy = FALSE]
  <2>1. omx[h] \in OmxType
    BY <1>2
  <2>2. r \in OmxType /\ ~r.busy
    BY <2>1 DEF OmxType
  <2>3. omx' = [omx EXCEPT ![h] = r]
    BY <1>1
  <2> HIDE DEF r
  <2> QED BY <1>2, <2>2, <2>3
<1>5. /\ omxThread' \in [Handle -> {"none", "requeue", "return"}] /\ omxThread'[h] = "requeue"
      /\ \A k \in Handle \ {h} : omxThread'[k] = omxThread[k]
  BY <1>1, <1>2
<1>6. /\ answers' \in [Job -> Seq({"DONE", "ERROR"})] /\ FreshInv' /\ UNCHANGED Jobs
      /\ \A i \in Job : Open(i) /\ i # j => Open(i)'
  BY <1>1, <1>2, AnswerIs
<1>7. /\ \A t : HasEncoder(t)' = HasEncoder(t) /\ Encoder(t)' = Encoder(t) /\ Chain(t)' = Chain(t)
      /\ Stopping' = Stopping /\ HasJob' = HasJob /\ HasHandle' = HasHandle
  BY DEF HasEncoder, Encoder, Chain, Stopping, HasJob, HasHandle
<1> HIDE DEF j
<1>8. \A k \in Handle : Running(k)' => Running(k) /\ k # h /\ sess'[k] = sess[k]
  BY <1>3 DEF Running
<1>9. \A k \in Handle : Running(k) /\ k # h => sess[k].job # j
  BY <1>2 DEF IInv, RunInv
<1>10. TypeOK' /\ CallType'
  <2>1. CallType'
    BY DEF IInv, CallType
  <2>2. ongoing_job_q' \subseteq Job
    BY <1>1 DEF IInv, TypeOK
  <2>3. TypeOK
    BY DEF IInv
  <2>4. /\ sess' \in [Handle -> SessType] /\ omx' \in [Handle -> OmxType]
        /\ omxThread' \in [Handle -> {"none", "requeue", "return"}]
        /\ answers' \in [Job -> Seq({"DONE", "ERROR"})]
    BY <1>3, <1>4, <1>5, <1>6
  <2>5. TypeOK'
    BY <2>2, <2>3, <2>4 DEF TypeOK, SessType, OmxType
  <2> QED BY <2>1, <2>5
<1>11. ClientInv'
  <2> SUFFICES ASSUME NEW t \in Session
               PROVE  /\ client[t].active => HasEncoder(t) /\ client[t].id
                      /\ ~client[t].active /\ HasEncoder(t) => sess'[Encoder(t)].abort # "NONE"
    BY DEF ClientInv, HasEncoder, Encoder, Chain
  <2>1. ~client[t].active /\ HasEncoder(t) => Encoder(t) # h /\ Encoder(t) \in Handle
    BY TypesOf DEF IInv, ClientInv
  <2> QED BY <1>3, <2>1 DEF IInv, ClientInv
<1>12. HandleInv'
  <2> SUFFICES ASSUME NEW t \in Session, client[t].session_handle_q # <<>>
               PROVE  /\ client[t].active /\ client[t].session_handle_q = Chain(t)
                      /\ ~sess'[Encoder(t)].encoding /\ omxThread'[Encoder(t)] # "requeue"
                      /\ ~(HasHandle /\ mgr.h = Encoder(t))
    BY DEF HandleInv, HasHandle, HasEncoder, Encoder, Chain
  <2>1. /\ client[t].active /\ client[t].session_handle_q = Chain(t)
        /\ ~sess[Encoder(t)].encoding /\ omxThread[Encoder(t)] # "requeue"
        /\ Encoder(t) \in Handle /\ ~(HasHandle /\ mgr.h = Encoder(t))
    BY TypesOf DEF IInv, HandleInv, ClientInv
  <2>2. Encoder(t) # h
    BY <1>2, <2>1 DEF Running
  <2> QED BY <1>3, <1>5, <2>1, <2>2
<1>13. MgrInv'
  <2>1. ASSUME HasJob
        PROVE  /\ mgr.job \in Job /\ Open(mgr.job)' /\ client[mgr.job[1]].active
               /\ mgr.job \notin Range(job_queue)
               /\ \A k \in Handle : Running(k)' => sess'[k].job # mgr.job
               /\ mgr.job # j
    BY <1>2, <1>6, <1>8, <2>1 DEF IInv, MgrInv, j
  <2>2. ASSUME HasHandle
        PROVE  /\ HasEncoder(mgr.job[1]) /\ mgr.h = Encoder(mgr.job[1]) /\ mgr.h # h
               /\ mgr.h \in Handle
    BY <1>2, <2>2, MgrWorks DEF IInv, MgrInv, Running, HasHandle, HasJob
  <2>3. ASSUME HasHandle
        PROVE  ~sess'[mgr.h].encoding /\ omxThread'[mgr.h] # "requeue"
    BY <1>3, <1>5, <2>2, <2>3 DEF IInv, MgrInv
  <2>4. ASSUME mgr.pc = "encode"
        PROVE  sess'[mgr.h].job = mgr.job /\ mgr.job \in ongoing_job_q'
    BY <1>1, <1>3, <2>1, <2>2, <2>4 DEF IInv, MgrInv, HasJob, HasHandle, j
  <2> QED BY <2>1, <2>2, <2>3, <2>4 DEF MgrInv, HasJob, HasHandle, HasEncoder, Encoder, Chain
<1>14. QueueInv'
  <2>1. ASSUME NEW i \in Range(job_queue), i # EXIT
        PROVE  /\ Open(i)' /\ client[i[1]].active
               /\ \A k \in Handle : Running(k)' => sess'[k].job # i
    <3>1. /\ Open(i) /\ client[i[1]].active /\ i \in Job /\ i # j
          /\ \A k \in Handle : Running(k) => sess[k].job # i
      BY <1>2, <2>1, TypesOf DEF IInv, QueueInv, Open, j
    <3> QED BY <1>6, <1>8, <3>1
  <2> QED BY <1>7, <2>1 DEF IInv, QueueInv
<1>15. RunInv'
  <2> SUFFICES ASSUME NEW k \in Handle
               PROVE  /\ Running(k)' =>
                           /\ sess'[k].job \in Job /\ Open(sess[k].job)'
                           /\ HasEncoder(sess'[k].job[1]) /\ k = Encoder(sess'[k].job[1])
                           /\ \/ sess'[k].job \in ongoing_job_q'
                              \/ call.pc = "mark" /\ call.s = sess'[k].job[1]
                      /\ omx'[k].busy => sess'[k].encoding
                      /\ omxThread'[k] # "none" =>
                           /\ sess'[k].abort = "NONE" /\ sess'[k].lock = "omx"
                      /\ omxThread'[k] = "requeue" =>
                           /\ ~sess'[k].encoding /\ sess'[k].job \in Job
                           /\ HasEncoder(sess'[k].job[1]) /\ k = Encoder(sess'[k].job[1])
    BY DEF RunInv, HasEncoder, Encoder, Chain
  <2>1. CASE k = h
    BY <1>2, <1>3, <1>4, <1>8, <2>1
  <2>2. CASE k # h
    BY <1>1, <1>3, <1>4, <1>5, <1>6, <1>8, <1>9, <2>2 DEF IInv, RunInv
  <2> QED BY <2>1, <2>2
<1>16. CallInv'
  <2>1. Stopping /\ call.pc # "mark" => sess'[call.h].abort # "NONE"
    <3> SUFFICES ASSUME Stopping, call.pc # "mark" PROVE sess'[call.h].abort # "NONE"
      OBVIOUS
    <3>1. sess[call.h].abort # "NONE" /\ call.h \in Handle
      BY AfterAbortLeaves DEF IInv, CallInv
    <3> QED BY <1>3, <3>1
  <2> QED BY <1>6, <2>1 DEF IInv, CallInv, Stopping, HasEncoder, Encoder, Chain
<1> QED BY <1>6, <1>10, <1>11, <1>12, <1>13, <1>14, <1>15, <1>16 DEF IInv

LEMMA FillBufferDoneKeeps ==
    ASSUME OneEncoder, IInv, NEW h \in Handle, FillBufferDone(h) \/ EventError(h)
    PROVE  IInv'
<1>1. /\ omx[h].busy /\ sess[h].lock = "free" /\ omxThread[h] = "none"
      /\ UNCHANGED <<scene, job_queue, job_sem, job_lock, mgr, client, call, started, gone>>
  BY DEF FillBufferDone, EventError, mgrVars
<1>2. CASE sess[h].abort = "NONE"
  <2>1. Finish(h, "DONE") \/ Finish(h, "ERROR")
    BY <1>2 DEF FillBufferDone, EventError
  <2> QED BY <1>1, <1>2, <2>1, FinishKeeps
<1>3. CASE sess[h].abort # "NONE"
  <2>1. omx' = [omx EXCEPT ![h].busy = FALSE] /\ UNCHANGED <<sess, answers, ongoing_job_q, omxThread>>
    BY <1>3 DEF FillBufferDone, EventError
  <2>2. /\ omx' \in [Handle -> OmxType] /\ \A k \in Handle : omx'[k].busy => omx[k].busy
        /\ sess \in [Handle -> SessType]
    <3> DEFINE r == [omx[h] EXCEPT !.busy = FALSE]
    <3>1. omx \in [Handle -> OmxType] /\ omx[h] \in OmxType /\ sess \in [Handle -> SessType]
      BY TypesOf
    <3>2. r \in OmxType /\ ~r.busy
      BY <3>1 DEF OmxType
    <3>3. omx' = [omx EXCEPT ![h] = r]
      BY <2>1
    <3> HIDE DEF r
    <3> QED BY <3>1, <3>2, <3>3
  <2>3. CallType'
    BY <1>1 DEF IInv, CallType
  <2> QED BY <1>1, <2>1, <2>2, <2>3, ControlKeeps
<1> QED BY <1>2, <1>3

LEMMA CmdCompleteKeeps ==
    ASSUME OneEncoder, IInv, NEW h \in Handle, CmdComplete(h)
    PROVE  IInv'
<1>1. /\ omx[h].cmds # <<>> /\ ~omx[h].busy /\ sess[h].lock = "free"
      /\ omx' = [omx EXCEPT ![h].state = Head(omx[h].cmds), ![h].cmds = Tail(@)]
      /\ sess' = IF sess[h].abort = "INIT"
                 THEN [sess EXCEPT ![h].abort = "DONE"]
                 ELSE [sess EXCEPT ![h].state_change_pending = FALSE]
      /\ UNCHANGED <<scene, job_queue, ongoing_job_q, job_sem, job_lock, mgr, client,
                     omxThread, call, started, answers, gone>>
  BY DEF CmdComplete, queues, mgrVars, jobVars
<1>2. /\ sess \in [Handle -> SessType] /\ omx \in [Handle -> OmxType]
      /\ sess[h] \in SessType /\ omx[h] \in OmxType
  BY TypesOf
<1>3. omx' \in [Handle -> OmxType] /\ \A k \in Handle : omx'[k].busy = omx[k].busy
  <2> DEFINE q == omx[h].cmds
             r == [omx[h] EXCEPT !.state = Head(q), !.cmds = Tail(q)]
  <2>1. Head(q) \in {"idle", "loaded"} /\ Tail(q) \in Seq({"idle", "loaded"})
    <3>1. q \in Seq({"idle", "loaded"}) /\ q # <<>>
      BY <1>1, <1>2 DEF OmxType
    <3> HIDE DEF q
    <3> QED BY <3>1
  <2>2. omx' = [omx EXCEPT ![h] = r]
    BY <1>1
  <2>3. r \in OmxType /\ r.busy = omx[h].busy
    <3> HIDE DEF q
    <3> QED BY <1>2, <2>1 DEF OmxType
  <2> HIDE DEF r
  <2> QED BY <1>2, <2>2, <2>3
<1>4. /\ sess' \in [Handle -> SessType]
      /\ \A k \in Handle :
           /\ sess'[k].encoding = sess[k].encoding /\ sess'[k].job = sess[k].job
           /\ sess'[k].lock = sess[k].lock
           /\ \/ sess'[k].abort = sess[k].abort
              \/ sess'[k].abort # "NONE" /\ sess[k].lock = "free"
  <2> DEFINE r == IF sess[h].abort = "INIT" THEN [sess[h] EXCEPT !.abort = "DONE"]
                  ELSE [sess[h] EXCEPT !.state_change_pending = FALSE]
  <2>1. /\ r \in SessType /\ r.encoding = sess[h].encoding /\ r.job = sess[h].job
        /\ r.lock = sess[h].lock /\ (r.abort = sess[h].abort \/ r.abort = "DONE")
    <3>1. CASE sess[h].abort = "INIT"
      BY <1>2, <3>1 DEF SessType
    <3>2. CASE sess[h].abort # "INIT"
      BY <1>2, <3>2 DEF SessType
    <3> QED BY <3>1, <3>2
  <2>2. sess' = [sess EXCEPT ![h] = r]
    BY <1>1
  <2> HIDE DEF r
  <2> QED BY <1>1, <1>2, <2>1, <2>2
<1>5. CallType'
  BY <1>1 DEF IInv, CallType
<1> QED BY <1>1, <1>3, <1>4, <1>5, ControlKeeps


LEMMA RequeueKeeps ==
    ASSUME OneEncoder, IInv, NEW h \in Handle, Requeue(h)
    PROVE  IInv'
<1> DEFINE s == sess[h].job[1]
<1>1. /\ omxThread[h] = "requeue" /\ omxThread' = [omxThread EXCEPT ![h] = "return"]
      /\ client' = [client EXCEPT ![s].session_handle_q = Append(@, h)]
      /\ UNCHANGED <<scene, job_queue, ongoing_job_q, job_sem, job_lock, mgr, sess, omx, call,
                     started, answers, gone>>
  BY DEF Requeue, queues, mgrVars, jobVars
<1>2. /\ sess[h].abort = "NONE" /\ sess[h].lock = "omx" /\ ~sess[h].encoding
      /\ s \in Session /\ HasEncoder(s) /\ h = Encoder(s) /\ Chain(s) = <<h>>
      /\ client \in [Session -> ClientType]
      /\ omxThread \in [Handle -> {"none", "requeue", "return"}]
  <2>1. /\ sess[h].abort = "NONE" /\ sess[h].lock = "omx" /\ ~sess[h].encoding
        /\ sess[h].job \in Job /\ HasEncoder(s) /\ h = Encoder(s)
    BY <1>1 DEF IInv, RunInv
  <2>2. s \in Session
    BY <2>1, TypesOf
  <2>3. omxThread \in [Handle -> {"none", "requeue", "return"}]
    BY DEF IInv, TypeOK
  <2> QED BY <2>1, <2>2, <2>3, TypesOf
<1> HIDE DEF s
<1>3. client[s].active /\ client[s].session_handle_q = <<>>
  BY <1>1, <1>2 DEF IInv, ClientInv, HandleInv
<1>4. /\ client' \in [Session -> ClientType] /\ client'[s].session_handle_q = <<h>>
      /\ \A t \in Session : client'[t].active = client[t].active /\ client'[t].id = client[t].id
      /\ \A t \in Session : t # s => client'[t] = client[t]
  <2>1. Append(client[s].session_handle_q, h) = <<h>> /\ <<h>> \in Seq(Handle)
    BY <1>3
  <2>2. client' = [client EXCEPT ![s].session_handle_q = <<h>>]
    BY <1>1, <2>1
  <2> QED BY <1>2, <2>1, <2>2, PoolIs
<1>5. /\ omxThread' \in [Handle -> {"none", "requeue", "return"}] /\ omxThread'[h] = "return"
      /\ \A k \in Handle \ {h} : omxThread'[k] = omxThread[k]
  BY <1>1, <1>2
<1>6. /\ CallType' /\ FreshInv' /\ (\A i : Open(i)' = Open(i)) /\ UNCHANGED Jobs
      /\ \A k \in Handle : Running(k)' = Running(k)
  BY <1>1 DEF IInv, CallType, FreshInv, Open, Jobs, Running
<1>7. TypeOK'
  BY <1>1, <1>4, <1>5 DEF IInv, TypeOK, ClientType
<1>8. ClientInv'
  BY <1>1, <1>4 DEF IInv, ClientInv, HasEncoder, Encoder, Chain
<1>9. HandleInv'
  <2> SUFFICES ASSUME NEW t \in Session, client'[t].session_handle_q # <<>>
               PROVE  /\ client'[t].active /\ client'[t].session_handle_q = Chain(t)
                      /\ ~sess[Encoder(t)].encoding /\ omxThread'[Encoder(t)] # "requeue"
                      /\ ~(HasHandle /\ mgr.h = Encoder(t))
    BY <1>1 DEF HandleInv, HasHandle, HasEncoder, Encoder, Chain
  <2>1. CASE t = s
    BY <1>1, <1>2, <1>3, <1>4, <1>5, <2>1 DEF IInv, MgrInv
  <2>2. CASE t # s
    <3>1. /\ client[t].active /\ client[t].session_handle_q = Chain(t)
          /\ ~sess[Encoder(t)].encoding /\ omxThread[Encoder(t)] # "requeue"
          /\ Encoder(t) \in Handle /\ ~(HasHandle /\ mgr.h = Encoder(t)) /\ HasEncoder(t)
          /\ client'[t] = client[t]
      BY <1>4, <2>2, TypesOf DEF IInv, HandleInv, ClientInv
    <3>2. Encoder(t) # h
      BY <1>1, <3>1
    <3> QED BY <1>5, <3>1, <3>2
  <2> QED BY <2>1, <2>2
<1>10. MgrInv'
  <2>1. ASSUME HasJob PROVE client'[mgr.job[1]].active
    BY <1>4, <2>1, TypesOf DEF IInv, MgrInv
  <2>2. ASSUME HasHandle PROVE omxThread'[mgr.h] # "requeue"
    BY <1>5, <2>2, MgrWorks DEF IInv, MgrInv, HasJob, HasHandle
  <2> QED BY <1>1, <1>6, <2>1, <2>2
          DEF IInv, MgrInv, HasJob, HasHandle, HasEncoder, Encoder, Chain
<1>11. QueueInv'
  <2>1. ASSUME NEW i \in Range(job_queue), i # EXIT
        PROVE  client'[i[1]].active
    BY <1>4, <2>1, TypesOf DEF IInv, QueueInv, Open
  <2> QED BY <1>1, <1>6, <2>1 DEF IInv, QueueInv, Stopping
<1>12. RunInv'
  BY <1>1, <1>2, <1>5, <1>6 DEF IInv, RunInv, HasEncoder, Encoder, Chain
<1>13. CallInv'
  BY <1>1, <1>4, <1>6 DEF IInv, CallInv, CallType, Stopping, HasEncoder, Encoder, Chain
<1> QED BY <1>6, <1>7, <1>8, <1>9, <1>10, <1>11, <1>12, <1>13 DEF IInv

LEMMA ReturnBufferKeeps ==
    ASSUME OneEncoder, IInv, NEW h \in Handle, ReturnBuffer(h)
    PROVE  IInv'
<1> DEFINE s == sess[h].job[1]
           q(c) == IF sess[h].auto THEN Append(c.out_buf_q, sess[h].dst) ELSE c.out_buf_q
<1>1. /\ omxThread[h] = "return" /\ omxThread' = [omxThread EXCEPT ![h] = "none"]
      /\ client' = [client EXCEPT ![s].out_buf_q =
                      IF sess[h].auto THEN Append(@, sess[h].dst) ELSE @]
      /\ sess' = [sess EXCEPT ![h].lock = "free"] /\ job_sem' = job_sem + 1
      /\ UNCHANGED <<scene, job_queue, ongoing_job_q, job_lock, mgr, omx, call,
                     started, answers, gone>>
  BY DEF ReturnBuffer, queues, jobVars
<1>2. /\ client \in [Session -> ClientType] /\ sess \in [Handle -> SessType]
      /\ omxThread \in [Handle -> {"none", "requeue", "return"}] /\ job_sem' \in Nat
  BY <1>1, TypesOf DEF IInv, TypeOK
<1>3. /\ client' \in [Session -> ClientType]
      /\ \A t \in Session : /\ client'[t].active = client[t].active
                            /\ client'[t].id = client[t].id
                            /\ client'[t].session_handle_q = client[t].session_handle_q
  <2>1. CASE s \in Session
    <3> DEFINE p == q(client[s])
               r == [client[s] EXCEPT !.out_buf_q = p]
    <3>1. client[s] \in ClientType /\ sess[h].dst \in Nat
      BY <1>2, <2>1 DEF SessType
    <3>2. p \in Seq(Nat)
      BY <3>1 DEF ClientType
    <3>3. client' = [client EXCEPT ![s] = r]
      BY <1>1
    <3>4. /\ r \in ClientType /\ r.active = client[s].active /\ r.id = client[s].id
          /\ r.session_handle_q = client[s].session_handle_q
      <4> HIDE DEF p, s
      <4> QED BY <3>1, <3>2 DEF ClientType
    <3> HIDE DEF r, s
    <3> QED BY <1>2, <2>1, <3>3, <3>4
  <2>2. CASE s \notin Session
    <3>1. client' = client
      <4> HIDE DEF s
      <4> QED BY <1>1, <1>2, <2>2
    <3> QED BY <1>2, <3>1
  <2> QED BY <2>1, <2>2
<1>4. /\ sess' \in [Handle -> SessType]
      /\ \A k \in Handle : /\ sess'[k].abort = sess[k].abort /\ sess'[k].job = sess[k].job
                           /\ sess'[k].encoding = sess[k].encoding
                           /\ k # h => sess'[k].lock = sess[k].lock
  <2> DEFINE r == [sess[h] EXCEPT !.lock = "free"]
  <2>1. sess[h] \in SessType
    BY <1>2
  <2>2. /\ r \in SessType /\ r.abort = sess[h].abort /\ r.job = sess[h].job
        /\ r.encoding = sess[h].encoding
    BY <2>1 DEF SessType
  <2>3. sess' = [sess EXCEPT ![h] = r]
    BY <1>1
  <2> HIDE DEF r
  <2> QED BY <1>2, <2>2, <2>3
<1> HIDE DEF s, q
<1>5. /\ omxThread' \in [Handle -> {"none", "requeue", "return"}] /\ omxThread'[h] = "none"
      /\ \A k \in Handle \ {h} : omxThread'[k] = omxThread[k]
  BY <1>1, <1>2
<1>6. /\ CallType' /\ FreshInv' /\ (\A i : Open(i)' = Open(i)) /\ UNCHANGED Jobs
      /\ \A k \in Handle : Running(k)' = Running(k)
  BY <1>1, <1>4 DEF IInv, CallType, FreshInv, Open, Jobs, Running
<1>7. TypeOK'
  BY <1>1, <1>2, <1>3, <1>4, <1>5 DEF IInv, TypeOK, ClientType, SessType
<1>8. ClientInv'
  BY <1>1, <1>3, <1>4, TypesOf DEF IInv, ClientInv, HasEncoder, Encoder, Chain
<1>9. HandleInv'
  <2> SUFFICES ASSUME NEW t \in Session, client'[t].session_handle_q # <<>>
               PROVE  /\ client'[t].active /\ client'[t].session_handle_q = Chain(t)
                      /\ ~sess'[Encoder(t)].encoding /\ omxThread'[Encoder(t)] # "requeue"
                      /\ ~(HasHandle /\ mgr.h = Encoder(t))
    BY <1>1 DEF HandleInv, HasHandle, HasEncoder, Encoder, Chain
  <2>1. /\ client[t].active /\ client[t].session_handle_q = Chain(t)
        /\ ~sess[Encoder(t)].encoding /\ omxThread[Encoder(t)] # "requeue"
        /\ Encoder(t) \in Handle /\ ~(HasHandle /\ mgr.h = Encoder(t))
    BY <1>3, TypesOf DEF IInv, HandleInv, ClientInv
  <2> QED BY <1>3, <1>4, <1>5, <2>1
<1>10. MgrInv'
  <2>1. ASSUME HasJob PROVE client'[mgr.job[1]].active
    BY <1>3, <2>1, TypesOf DEF IInv, MgrInv
  <2>2. ASSUME HasHandle PROVE omxThread'[mgr.h] # "requeue" /\ mgr.h \in Handle
    BY <1>5, <2>2, MgrWorks DEF IInv, MgrInv, HasJob, HasHandle
  <2> QED BY <1>1, <1>4, <1>6, <2>1, <2>2
          DEF IInv, MgrInv, HasJob, HasHandle, HasEncoder, Encoder, Chain
<1>11. QueueInv'
  <2>1. ASSUME NEW i \in Range(job_queue), i # EXIT
        PROVE  client'[i[1]].active
    BY <1>3, <2>1, TypesOf DEF IInv, QueueInv, Open
  <2> QED BY <1>1, <1>4, <1>6, <2>1 DEF IInv, QueueInv, Stopping
<1>12. RunInv'
  BY <1>1, <1>2, <1>4, <1>5, <1>6 DEF IInv, RunInv, HasEncoder, Encoder, Chain
<1>13. CallInv'
  <2>1. Stopping => call.h \in Handle
    BY AfterAbortLeaves
  <2> QED BY <1>1, <1>3, <1>4, <1>6, <2>1
          DEF IInv, CallInv, CallType, Stopping, HasEncoder, Encoder, Chain
<1> QED BY <1>6, <1>7, <1>8, <1>9, <1>10, <1>11, <1>12, <1>13 DEF IInv

-----------------------------------------------------------------------------
(* The theorems.                                                           *)

LEMMA NextKeeps == OneEncoder /\ IInv /\ [Next]_vars => IInv'
<1> SUFFICES ASSUME OneEncoder, IInv, [Next]_vars PROVE IInv'
  OBVIOUS
<1>1. CASE CallStep
  BY <1>1, AbortLockedKeeps, DestroyLockedKeeps, SessionAbortKeeps, AbortWaitedKeeps,
     DestroyKeeps, DestroyFreeKeeps, CloseKeeps DEF CallStep
<1>2. CASE MgrStep
  BY <1>2, WakeKeeps, TakeJobKeeps, EnqHeadKeeps, TakeBufferKeeps, AssignJobKeeps, EncodeKeeps
     DEF MgrStep
<1>3. ASSUME NEW h \in Handle, OmxStep(h) PROVE IInv'
  BY <1>3, FillBufferDoneKeeps, RequeueKeeps, ReturnBufferKeeps, CmdCompleteKeeps DEF OmxStep
<1>4. ASSUME NEW s \in Session, ClientStep(s) PROVE IInv'
  BY <1>4, ClientKeeps
<1>5. CASE UNCHANGED vars
  BY <1>5, StutterKeeps
<1> QED BY <1>1, <1>2, <1>3, <1>4, <1>5 DEF Next

\* With one encoder a session, the job manager's state keeps its shape: the locks are held by
\* whom the steps say, and jobs, encoders and calls stand in the relations above.
THEOREM JobsInvariant == ASSUME OneEncoder PROVE Spec => []IInv
<1>1. Init => IInv
  BY InitInv
<1>2. IInv /\ [Next]_vars => IInv'
  BY NextKeeps
<1> QED BY <1>1, <1>2, PTL DEF Spec

\* Jobs, sessions, encoders and calls have the values that the code gives them, and job_lock
\* is held by the manager exactly while it has a job and by a call exactly while it stops
\* a session (mm_jpeg.c: mm_jpeg_jobmgr_thread, mm_jpeg_abort_job, mm_jpeg_destroy_session).
THEOREM JobsTypeCorrect == ASSUME OneEncoder PROVE Spec => []TypeOK
<1>1. IInv => TypeOK
  BY DEF IInv
<1> QED BY <1>1, JobsInvariant, PTL

\* A step that answers a job answers one that is open, once.
LEMMA AnswersOpen ==
    ASSUME OneEncoder, IInv, [Next]_vars
    PROVE  \A j \in Job : answers'[j] # answers[j] =>
                /\ answers[j] = <<>> /\ Len(answers'[j]) = 1 /\ j \notin gone
<1>1. ASSUME NEW i, Open(i), i \in Job, NEW status, Answer(i, status)
      PROVE  \A j \in Job : answers'[j] # answers[j] =>
                /\ answers[j] = <<>> /\ Len(answers'[j]) = 1 /\ j \notin gone
  <2>1. answers \in [Job -> Seq({"DONE", "ERROR"})] /\ answers[i] = <<>> /\ i \notin gone
    BY <1>1 DEF IInv, TypeOK, Open
  <2>2. answers' = [answers EXCEPT ![i] = Append(@, status)]
    BY <1>1 DEF Answer
  <2>3. answers'[i] = <<status>> /\ Len(<<status>>) = 1
    BY <1>1, <2>1, <2>2
  <2> QED BY <2>1, <2>2, <2>3
<1>2. CASE UNCHANGED answers
  BY <1>2
<1>3. CASE Encode
  <2>1. UNCHANGED answers \/ Answer(mgr.job, "ERROR")
    BY <1>3 DEF Encode
  <2>2. Open(mgr.job) /\ mgr.job \in Job
    BY <1>3 DEF Encode, IInv, MgrInv, HasJob
  <2> QED BY <1>1, <1>2, <2>1, <2>2
<1>4. ASSUME NEW h \in Handle, FillBufferDone(h) \/ EventError(h)
      PROVE  \A j \in Job : answers'[j] # answers[j] =>
                /\ answers[j] = <<>> /\ Len(answers'[j]) = 1 /\ j \notin gone
  <2>1. UNCHANGED answers \/ (sess[h].abort = "NONE" /\ omx[h].busy
                              /\ \E status \in {"DONE", "ERROR"} : Answer(sess[h].job, status))
    BY <1>4 DEF FillBufferDone, EventError, Finish
  <2>2. sess[h].abort = "NONE" /\ omx[h].busy => Open(sess[h].job) /\ sess[h].job \in Job
    BY DEF IInv, RunInv, Running
  <2> QED BY <1>1, <1>2, <2>1, <2>2
<1>5. CASE UNCHANGED vars
  BY <1>2, <1>5 DEF vars
<1>6. CASE CallStep
  <2>1. UNCHANGED answers
    BY <1>6 DEF CallStep, AbortLocked, DestroyLocked, SessionAbort, AbortWaited, DestroyIdle,
                DestroyLoaded, DestroyFree, CloseExit, CloseJoin, jobVars
  <2> QED BY <1>2, <2>1
<1>7. CASE MgrStep
  <2>1. UNCHANGED answers \/ Encode
    BY <1>7 DEF MgrStep, Wake, TakeJob, EnqHead, TakeBuffer, AssignJob, jobVars
  <2> QED BY <1>2, <1>3, <2>1
<1>8. ASSUME NEW h \in Handle, OmxStep(h)
      PROVE  \A j \in Job : answers'[j] # answers[j] =>
                /\ answers[j] = <<>> /\ Len(answers'[j]) = 1 /\ j \notin gone
  <2>1. UNCHANGED answers \/ FillBufferDone(h) \/ EventError(h)
    BY <1>8 DEF OmxStep, Requeue, ReturnBuffer, CmdComplete, jobVars
  <2> QED BY <1>2, <1>4, <2>1
<1>9. ASSUME NEW s \in Session, ClientStep(s)
      PROVE  UNCHANGED answers
  BY <1>9 DEF ClientStep, StartJob, StartInactive, CreateSession, CallAbort, CallDestroy,
              CallClose, Begin, jobVars
<1> QED BY <1>2, <1>5, <1>6, <1>7, <1>8, <1>9 DEF Next

\* A job gets at most one callback, and none once the client took it back by an abort, the
\* destruction of its session or a close (mm_jpeg.c: mm_jpeg_fbd, mm_jpeg_event_handler,
\* mm_jpeg_abort_job), however the manager, the encoders and the calls interleave.
THEOREM AnsweredOnce == ASSUME OneEncoder PROVE Spec => AnswerOnce
<1>1. IInv /\ [Next]_vars =>
        [\A j \in Job : answers'[j] # answers[j] =>
            /\ answers[j] = <<>> /\ Len(answers'[j]) = 1
            /\ j \notin gone]_vars
  BY AnswersOpen
<1> QED BY <1>1, JobsInvariant, PTL DEF Spec, AnswerOnce

-----------------------------------------------------------------------------
(* The pools.                                                              *)

\* A client names the output buffer of each job: bursts, which let the library choose one,
\* are off unless a property asks for them (QCameraPostProc.cpp:476).
NamedBuffers == \A sc \in Scenes : ~sc.auto

\* An encoder is free, the manager's, encoding, or about to be freed.
HandInv == /\ mgr.h # NoHandle => HasHandle
           /\ \A s \in Session : client[s].active =>
                \/ client[s].session_handle_q # <<>> \/ mgr.h = Encoder(s)
                \/ sess[Encoder(s)].encoding \/ omxThread[Encoder(s)] = "requeue"

\* Nothing takes an output buffer from the queue.
NamedInv == /\ \A h \in Handle : ~sess[h].auto
            /\ mgr.pc # "buffer" /\ mgr.dst = 0
            /\ \A s \in Session : client[s].active =>
                    client[s].out_buf_q = [i \in 1..scene.ndst |-> i]

RunningHandles == {h \in Handle : Running(h)}

\* The manager that saw room on the ongoing queue still has it when it adds its job.
LimitInv ==
    /\ IsFiniteSet(ongoing_job_q) /\ Cardinality(ongoing_job_q) <= scene.limit
    /\ mgr.pc \in {"lock", "again", "buffer", "assign"} => Cardinality(ongoing_job_q) < scene.limit
    /\ IsFiniteSet(RunningHandles) /\ Cardinality(RunningHandles) <= scene.limit

PoolInv == HandInv /\ NamedInv /\ LimitInv

\* What leaves encoders where they are, or ends their session.
LEMMA HandFrame ==
    ASSUME HandInv, UNCHANGED <<scene, omxThread>>, mgr'.h = mgr.h, HasHandle => HasHandle',
           \A s \in Session : client[s].active /\ sess[Encoder(s)].encoding => sess'[Encoder(s)].encoding,
           \A s \in Session : client'[s].active =>
                client[s].active /\ client'[s].session_handle_q = client[s].session_handle_q
    PROVE  HandInv'
BY DEF HandInv, Encoder, Chain

LEMMA NoClientIs ==
    ASSUME OneEncoder, IInv, NEW s \in Session, NEW n, NEW id,
           client' = [client EXCEPT ![s] = NoClient(n, id)]
    PROVE  \A t \in Session : client'[t].active => /\ client'[t] = client[t]
BY TypesOf DEF NoClient, ClientType

\* Abort, destroy and close leave an encoder in its place until its session ends.
LEMMA LeaveHand ==
    ASSUME OneEncoder, IInv, NEW h, AfterAbort(h) \/ LeaveAbort
    PROVE  /\ \A s \in Session : client'[s].active => client'[s] = client[s]
           /\ call.op = "close" \/ UNCHANGED client
<1>1. UNCHANGED client \/ \E n, id : client' = [client EXCEPT ![call.s] = NoClient(n, id)]
                                     /\ call.op = "close"
  BY DEF AfterAbort, LeaveAbort
<1>2. call.op = "close" => call.s \in Session
  BY DEF IInv, CallType
<1>3. CASE UNCHANGED client
  BY <1>3, <1>1 DEF AfterAbort, LeaveAbort
<1>4. CASE \E n, id : client' = [client EXCEPT ![call.s] = NoClient(n, id)] /\ call.op = "close"
  <2>1. PICK n, id : client' = [client EXCEPT ![call.s] = NoClient(n, id)] /\ call.op = "close"
    BY <1>4
  <2> QED BY <2>1, <1>2, NoClientIs
<1> QED BY <1>1, <1>3, <1>4

LEMMA CallHand ==
    ASSUME OneEncoder, IInv, HandInv, CallStep
    PROVE  /\ UNCHANGED <<scene, omxThread, mgr>>
           /\ \A k \in Handle : /\ sess'[k].encoding <=> sess[k].encoding
                                /\ sess'[k].auto <=> sess[k].auto
                                /\ Running(k)' => Running(k)
           /\ \A s \in Session : client'[s].active => client'[s] = client[s]
           /\ ongoing_job_q' \subseteq ongoing_job_q
<1>1. /\ UNCHANGED <<scene, omxThread, mgr>>
  BY DEF CallStep, AbortLocked, DestroyLocked, SessionAbort, AbortWaited, DestroyIdle,
         DestroyLoaded, DestroyFree, CloseExit, CloseJoin, jobVars, mgrVars
<1>2. ongoing_job_q' \subseteq ongoing_job_q
  BY DEF CallStep, AbortLocked, DestroyLocked, SessionAbort, AbortWaited, DestroyIdle,
         DestroyLoaded, DestroyFree, CloseExit, CloseJoin, jobVars, mgrVars, queues
<1>3. sess \in [Handle -> SessType]
  BY TypesOf
<1>4. ASSUME UNCHANGED sess
      PROVE  \A k \in Handle : /\ sess'[k].encoding <=> sess[k].encoding
                               /\ sess'[k].auto <=> sess[k].auto
                               /\ Running(k)' => Running(k)
  BY <1>4 DEF Running
<1>5. \A k \in Handle : /\ sess'[k].encoding <=> sess[k].encoding
                        /\ sess'[k].auto <=> sess[k].auto
                        /\ Running(k)' => Running(k)
  <2>1. CASE SessionAbort
    <3>1. \/ UNCHANGED sess
          \/ sess' = [sess EXCEPT ![call.h].abort = "INIT", ![call.h].state_change_pending = TRUE]
          \/ sess' = [sess EXCEPT ![call.h].abort = "DONE"]
      BY <2>1 DEF SessionAbort
    <3> QED BY <1>3, <1>4, <3>1 DEF SessType, Running
  <2>2. CASE AbortWaited
    <3>1. sess' = [sess EXCEPT ![call.h].abort = "DONE"]
      BY <2>2 DEF AbortWaited
    <3> QED BY <1>3, <3>1 DEF SessType, Running
  <2>3. CASE DestroyIdle \/ DestroyLoaded
    <3>1. UNCHANGED sess \/ sess' = [sess EXCEPT ![call.h].state_change_pending = TRUE]
      BY <2>3 DEF DestroyIdle, DestroyLoaded, ChangeState
    <3> QED BY <1>3, <1>4, <3>1 DEF SessType, Running
  <2>4. CASE AbortLocked \/ DestroyLocked \/ DestroyFree \/ CloseExit \/ CloseJoin
    BY <1>4, <2>4 DEF AbortLocked, DestroyLocked, DestroyFree, CloseExit, CloseJoin
  <2> QED BY <2>1, <2>2, <2>3, <2>4 DEF CallStep
<1>6. \A s \in Session : client'[s].active => client'[s] = client[s]
  <2>1. CASE SessionAbort \/ AbortWaited
    <3>1. UNCHANGED client \/ \E h : AfterAbort(h) \/ LeaveAbort
      BY <2>1 DEF SessionAbort, AbortWaited
    <3> QED BY <3>1, LeaveHand
  <2>2. CASE DestroyFree
    <3>1. UNCHANGED client \/ \E n, id : client' = [client EXCEPT ![call.s] = NoClient(n, id)]
      BY <2>2 DEF DestroyFree
    <3>2. call.s \in Session
      BY <2>2 DEF DestroyFree, IInv, CallType
    <3> QED BY <3>1, <3>2, NoClientIs
  <2>3. CASE AbortLocked \/ DestroyLocked \/ DestroyIdle \/ DestroyLoaded \/ CloseExit \/ CloseJoin
    BY <2>3 DEF AbortLocked, DestroyLocked, DestroyIdle, DestroyLoaded, CloseExit, CloseJoin
  <2> QED BY <2>1, <2>2, <2>3 DEF CallStep
<1> QED BY <1>1, <1>2, <1>5, <1>6

\* Fewer jobs under way and fewer encoders at work are within the limit.
LEMMA LimitFrame ==
    ASSUME LimitInv, UNCHANGED scene, ongoing_job_q' \subseteq ongoing_job_q, scene.limit \in Nat,
           \A k \in Handle : Running(k)' => Running(k),
           mgr'.pc \in {"lock", "again", "buffer", "assign"} =>
                mgr.pc \in {"lock", "again", "buffer", "assign"}
                \/ Cardinality(ongoing_job_q') < scene.limit
    PROVE  LimitInv'
<1>1. RunningHandles' \subseteq RunningHandles
  BY DEF RunningHandles
<1>2. /\ IsFiniteSet(ongoing_job_q') /\ Cardinality(ongoing_job_q') <= Cardinality(ongoing_job_q)
      /\ IsFiniteSet(RunningHandles') /\ Cardinality(RunningHandles') <= Cardinality(RunningHandles)
  BY <1>1, FS_Subset DEF LimitInv
<1>3. /\ Cardinality(ongoing_job_q') \in Nat /\ Cardinality(ongoing_job_q) \in Nat
      /\ Cardinality(RunningHandles') \in Nat /\ Cardinality(RunningHandles) \in Nat
  BY <1>2, FS_CardinalityType DEF LimitInv
<1> QED BY <1>2, <1>3 DEF LimitInv

LEMMA SceneIs ==
    ASSUME IInv
    PROVE  scene \in Scenes /\ scene.limit \in Nat /\ scene.ndst \in Nat
<1>1. scene \in SceneType /\ scene \in Scenes
  BY ScenesAssumption DEF IInv, TypeOK
<1>2. scene.limit \in 1..2 /\ scene.ndst \in Nat
  BY <1>1, Zenon DEF SceneType
<1> QED BY <1>1, <1>2

LEMMA CallPool ==
    ASSUME OneEncoder, NamedBuffers, IInv, PoolInv, CallStep
    PROVE  PoolInv'
<1>1. /\ UNCHANGED <<scene, omxThread, mgr>>
      /\ \A k \in Handle : /\ sess'[k].encoding <=> sess[k].encoding
                           /\ sess'[k].auto <=> sess[k].auto
                           /\ Running(k)' => Running(k)
      /\ \A s \in Session : client'[s].active => client'[s] = client[s]
      /\ ongoing_job_q' \subseteq ongoing_job_q
  BY CallHand DEF PoolInv
<1>2. scene.limit \in Nat
  BY SceneIs
<1>3. \A s \in Session : client[s].active => Encoder(s) \in Handle
  BY TypesOf DEF IInv, ClientInv
<1>4. HandInv'
  <2>1. mgr'.h = mgr.h /\ (HasHandle => HasHandle') /\ HandInv
    BY <1>1 DEF HasHandle, PoolInv
  <2>2. \A s \in Session : client[s].active /\ sess[Encoder(s)].encoding => sess'[Encoder(s)].encoding
    BY <1>1, <1>3
  <2>3. \A s \in Session : client'[s].active =>
             client[s].active /\ client'[s].session_handle_q = client[s].session_handle_q
    BY <1>1
  <2> QED BY <1>1, <2>1, <2>2, <2>3, HandFrame
<1>5. NamedInv'
  <2>1. scene' = scene /\ mgr' = mgr
    BY <1>1
  <2>2. \A s \in Session : client'[s].active =>
             client[s].active /\ client'[s].out_buf_q = client[s].out_buf_q
    BY <1>1
  <2>3. \A k \in Handle : ~sess'[k].auto
    BY <1>1 DEF PoolInv, NamedInv
  <2> QED BY <2>1, <2>2, <2>3 DEF PoolInv, NamedInv
<1>6. LimitInv'
  <2>1. mgr' = mgr /\ scene' = scene /\ LimitInv /\ \A k \in Handle : Running(k)' => Running(k)
    BY <1>1, Zenon DEF PoolInv
  <2> QED BY <1>1, <1>2, <2>1, LimitFrame
<1> QED BY <1>4, <1>5, <1>6 DEF PoolInv

LEMMA ClientPool ==
    ASSUME OneEncoder, NamedBuffers, IInv, PoolInv, NEW s \in Session, ClientStep(s)
    PROVE  PoolInv'
<1>1. scene.limit \in Nat /\ client \in [Session -> ClientType] /\ sess \in [Handle -> SessType]
  BY SceneIs, TypesOf
<1>2. UNCHANGED <<scene, omxThread, mgr, ongoing_job_q>>
  BY DEF ClientStep, StartJob, StartInactive, CreateSession, CallAbort, CallDestroy, CallClose,
         Begin, jobVars, queues, mgrVars
<1>3. CASE ~CreateSession(s)
  <2>1. /\ UNCHANGED sess
        /\ UNCHANGED client \/ client' = [client EXCEPT ![s].stopping = TRUE]
    BY <1>3 DEF ClientStep, StartJob, StartInactive, CallAbort, CallDestroy, CallClose, Begin
  <2>2. \A t \in Session : /\ client'[t].active = client[t].active
                           /\ client'[t].session_handle_q = client[t].session_handle_q
                           /\ client'[t].out_buf_q = client[t].out_buf_q
    <3>1. CASE UNCHANGED client
      BY <3>1
    <3>2. CASE client' = [client EXCEPT ![s].stopping = TRUE]
      <4>1. \A t \in Session : t # s => client'[t] = client[t]
        BY <1>1, <3>2
      <4>2. client'[s] = [client[s] EXCEPT !.stopping = TRUE] /\ client[s] \in ClientType
        BY <1>1, <3>2
      <4> QED BY <4>1, <4>2 DEF ClientType
    <3> QED BY <2>1, <3>1, <3>2
  <2>3. HandInv'
    BY <1>2, <2>1, <2>2, HandFrame DEF PoolInv, HasHandle
  <2>4. NamedInv'
    BY <1>2, <2>1, <2>2 DEF PoolInv, NamedInv
  <2>5. LimitInv'
    BY <1>1, <1>2, <2>1, LimitFrame DEF PoolInv, Running
  <2> QED BY <2>3, <2>4, <2>5 DEF PoolInv
<1>4. CASE CreateSession(s)
  <2>1. HasEncoder(s) /\ Chain(s) # <<>> /\ Chain(s) = <<Encoder(s)>> /\ Encoder(s) \in Handle
        /\ Range(Chain(s)) = {Encoder(s)}
    BY <1>4, TypesOf DEF CreateSession
  <2>2. ~client[s].active
    BY <1>4 DEF CreateSession, IInv, ClientInv
  <2>3. /\ \A t \in Session : t # s => client'[t] = client[t]
        /\ client'[s] = NewClient(s, client[s].made + 1) \/ client'[s] = NoClient(client[s].made + 1, TRUE)
    <3>1. \/ client' = [client EXCEPT ![s] = NewClient(s, client[s].made + 1)]
          \/ client' = [client EXCEPT ![s] = NoClient(client[s].made + 1, TRUE)]
      BY <1>4 DEF CreateSession
    <3> QED BY <1>1, <3>1
  <2>4. /\ client'[s].active => /\ client'[s].session_handle_q = Chain(s)
                                /\ client'[s].out_buf_q = [i \in 1..scene.ndst |-> i]
    <3>1. ASSUME client'[s] = NoClient(client[s].made + 1, TRUE) PROVE ~client'[s].active
      BY <3>1 DEF NoClient
    <3>2. ASSUME client'[s] = NewClient(s, client[s].made + 1)
          PROVE  /\ client'[s].session_handle_q = Chain(s)
                 /\ client'[s].out_buf_q = [i \in 1..scene.ndst |-> i]
      BY <3>2 DEF NewClient
    <3> QED BY <2>3, <3>1, <3>2
  <2>5. \A k \in Handle : /\ k # Encoder(s) => sess'[k] = sess[k]
                          /\ sess'[k] = sess[k] \/ sess'[k] = NewSess
    BY <1>4, <2>1 DEF CreateSession
  <2>6. \A k \in Handle : ~sess'[k].auto /\ (Running(k)' => Running(k))
    BY <2>5 DEF PoolInv, NamedInv, NewSess, Running
  <2>7. HandInv'
    <3>1. \A t \in Session : t # s /\ client[t].active =>
              sess'[Encoder(t)] = sess[Encoder(t)]
      BY <2>1, <2>5, TypesOf DEF IInv, ClientInv
    <3>2. (mgr.h # NoHandle => HasHandle)'
      BY <1>2 DEF PoolInv, HandInv, HasHandle
    <3>3. \A t \in Session : Encoder(t)' = Encoder(t)
      BY <1>2 DEF Encoder, Chain
    <3>4. ASSUME NEW t \in Session, client'[t].active
          PROVE  \/ client'[t].session_handle_q # <<>> \/ mgr.h = Encoder(t)
                 \/ sess'[Encoder(t)].encoding \/ omxThread[Encoder(t)] = "requeue"
      <4>1. CASE t = s
        BY <2>1, <2>4, <3>4, <4>1
      <4>2. CASE t # s
        BY <2>3, <3>1, <3>4, <4>2 DEF PoolInv, HandInv
      <4> QED BY <4>1, <4>2
    <3> QED BY <1>2, <3>2, <3>3, <3>4 DEF HandInv
  <2>8. NamedInv'
    BY <1>2, <2>3, <2>4, <2>6 DEF PoolInv, NamedInv
  <2>9. LimitInv'
    BY <1>1, <1>2, <2>6, LimitFrame DEF PoolInv
  <2> QED BY <2>7, <2>8, <2>9 DEF PoolInv
<1> QED BY <1>3, <1>4

\* An encoder that changes hands, the others left where they are.
LEMMA HandMoves ==
    ASSUME OneEncoder, IInv, HandInv, UNCHANGED scene, NEW s \in Session, HasEncoder(s),
           mgr'.h # NoHandle => HasHandle',
           \A k \in Handle \ {Encoder(s)} :
                /\ mgr.h = k => mgr'.h = k
                /\ sess[k].encoding => sess'[k].encoding
                /\ omxThread[k] = "requeue" => omxThread'[k] = "requeue",
           \A t \in Session \ {s} : client'[t].active =>
                client[t].active /\ client'[t].session_handle_q = client[t].session_handle_q,
           client'[s].active =>
                \/ client'[s].session_handle_q # <<>> \/ mgr'.h = Encoder(s)
                \/ sess'[Encoder(s)].encoding \/ omxThread'[Encoder(s)] = "requeue"
    PROVE  HandInv'
<1>1. ASSUME NEW t \in Session, client'[t].active
      PROVE  \/ client'[t].session_handle_q # <<>> \/ mgr'.h = Encoder(t)
             \/ sess'[Encoder(t)].encoding \/ omxThread'[Encoder(t)] = "requeue"
  <2>1. CASE t = s
    BY <1>1, <2>1
  <2>2. CASE t # s
    <3>1. client[t].active /\ client'[t].session_handle_q = client[t].session_handle_q
      BY <1>1, <2>2
    <3>2. HasEncoder(t) /\ Encoder(t) \in Handle /\ Encoder(t) # Encoder(s)
      BY <2>2, <3>1, TypesOf DEF IInv, ClientInv
    <3>3. \/ client[t].session_handle_q # <<>> \/ mgr.h = Encoder(t)
          \/ sess[Encoder(t)].encoding \/ omxThread[Encoder(t)] = "requeue"
      BY <3>1 DEF HandInv
    <3> QED BY <3>1, <3>2, <3>3
  <2> QED BY <2>1, <2>2
<1>2. \A t : Encoder(t)' = Encoder(t)
  BY DEF Encoder, Chain
<1> QED BY <1>1, <1>2 DEF HandInv

LEMMA RunningFrame ==
    ASSUME \A k \in Handle : sess'[k].encoding = sess[k].encoding /\ sess'[k].abort = sess[k].abort
    PROVE  \A k \in Handle : Running(k)' <=> Running(k)
BY DEF Running

LEMMA WakePool ==
    ASSUME OneEncoder, NamedBuffers, IInv, PoolInv, Wake
    PROVE  PoolInv'
<1>1. /\ mgr.pc = "wait" /\ UNCHANGED <<scene, ongoing_job_q, sess, client, omxThread>>
      /\ \/ UNCHANGED mgr
         \/ mgr' = [mgr EXCEPT !.pc = "lock"] /\ ~(Cardinality(ongoing_job_q) >= scene.limit)
  BY DEF Wake, queues
<1>2. /\ mgr'.h = mgr.h /\ mgr'.dst = mgr.dst /\ mgr'.pc # "buffer" /\ ~HasHandle
      /\ mgr'.pc \in {"lock", "again", "buffer", "assign"} => ~(Cardinality(ongoing_job_q) >= scene.limit)
  BY <1>1 DEF IInv, TypeOK, HasHandle
<1>3. HandInv'
  BY <1>1, <1>2, HandFrame DEF PoolInv
<1>4. NamedInv'
  BY <1>1, <1>2 DEF PoolInv, NamedInv
<1>5. LimitInv'
  <2>1. Cardinality(ongoing_job_q) \in Nat /\ scene.limit \in Nat
    BY SceneIs, FS_CardinalityType DEF PoolInv, LimitInv
  <2>2. mgr'.pc \in {"lock", "again", "buffer", "assign"} => Cardinality(ongoing_job_q') < scene.limit
    BY <1>1, <1>2, <2>1
  <2>3. \A k \in Handle : Running(k)' => Running(k)
    BY <1>1 DEF Running
  <2> QED BY <1>1, <2>1, <2>2, <2>3, LimitFrame DEF PoolInv
<1> QED BY <1>3, <1>4, <1>5 DEF PoolInv

LEMMA TakeJobPool ==
    ASSUME OneEncoder, NamedBuffers, IInv, PoolInv, TakeJob
    PROVE  PoolInv'
<1> DEFINE j == Head(job_queue)
           free == client[j[1]].session_handle_q
<1>1. /\ mgr.pc = "lock" /\ ~HasHandle /\ mgr.h = NoHandle
      /\ UNCHANGED <<scene, ongoing_job_q, omxThread>>
  BY DEF TakeJob, HasHandle, PoolInv, HandInv
<1>2. scene.limit \in Nat /\ ~scene.auto /\ sess \in [Handle -> SessType]
      /\ client \in [Session -> ClientType]
      /\ mgr \in [pc: {"wait", "lock", "again", "buffer", "assign", "encode", "dead"},
                job: Job \cup {EXIT}, h: Handle \cup {NoHandle}, dst: Nat, tail: BOOLEAN]
  BY SceneIs, TypesOf DEF NamedBuffers, IInv, TypeOK
<1>3. ASSUME UNCHANGED <<sess, client>>, mgr'.h = NoHandle, mgr'.pc # "buffer", mgr'.dst = 0
      PROVE  PoolInv'
  <2>1. HandInv'
    BY <1>1, <1>3, HandFrame DEF PoolInv
  <2>2. NamedInv'
    BY <1>1, <1>3 DEF PoolInv, NamedInv
  <2>3. \A k \in Handle : Running(k)' => Running(k)
    BY <1>3 DEF Running
  <2>4. LimitInv'
    BY <1>1, <1>2, <2>3, LimitFrame DEF PoolInv
  <2> QED BY <2>1, <2>2, <2>4 DEF PoolInv
<1>4. CASE job_queue = <<>> \/ j = EXIT
  <2>1. UNCHANGED <<sess, client>> /\ (mgr' = IdleMgr \/ mgr' = [IdleMgr EXCEPT !.pc = "dead"])
    BY <1>4 DEF TakeJob
  <2> QED BY <1>3, <2>1 DEF IdleMgr
<1>5. CASE job_queue # <<>> /\ j # EXIT
  <2>1. IF free = <<>>
        THEN /\ mgr' = [mgr EXCEPT !.pc = "again", !.job = j, !.tail = (job_queue' = <<>>)]
             /\ UNCHANGED <<sess, client>>
        ELSE /\ mgr' = [mgr EXCEPT !.pc = "assign", !.job = j, !.h = Head(free)]
             /\ client' = [client EXCEPT ![j[1]].session_handle_q = Tail(free)]
             /\ sess' = [sess EXCEPT ![Head(free)].auto = FALSE]
    BY <1>2, <1>5 DEF TakeJob
  <2>2. j[1] \in Session /\ client[j[1]].active /\ HasEncoder(j[1])
    <3>1. j \in Range(job_queue)
      BY <1>5, TypesOf, TailKeeps DEF IInv, QueueInv
    <3> QED BY <1>5, <3>1, TypesOf DEF IInv, QueueInv, ClientInv
  <2> HIDE DEF j
  <2>3. CASE free = <<>>
    <3>1. mgr'.h = mgr.h /\ mgr'.pc # "buffer" /\ mgr'.dst = mgr.dst /\ UNCHANGED <<sess, client>>
      BY <1>2, <2>1, <2>3
    <3> QED BY <1>1, <1>3, <3>1 DEF PoolInv, NamedInv
  <2>4. CASE free # <<>>
    <3>1. free = <<Encoder(j[1])>> /\ Head(free) = Encoder(j[1]) /\ Encoder(j[1]) \in Handle
          /\ Tail(free) = <<>> /\ Tail(free) \in Seq(Handle)
      <4>1. /\ Chain(j[1]) = <<Encoder(j[1])>> /\ Encoder(j[1]) \in Handle
        BY <2>2, TypesOf
      <4>2. free = Chain(j[1])
        BY <2>2, <2>4 DEF IInv, HandleInv
      <4>3. \A x \in Handle : Head(<<x>>) = x /\ Tail(<<x>>) = <<>> /\ <<>> \in Seq(Handle)
        OBVIOUS
      <4> HIDE DEF free
      <4> QED BY <4>1, <4>2, <4>3
    <3> DEFINE h == Encoder(j[1])
    <3>2. mgr'.h = h /\ mgr'.pc = "assign" /\ mgr'.dst = mgr.dst /\ HasHandle'
      BY <1>2, <2>1, <2>4, <3>1 DEF HasHandle
    <3>3. /\ \A t \in Session : client'[t].active = client[t].active
          /\ \A t \in Session \ {j[1]} : client'[t] = client[t]
      BY <1>2, <2>1, <2>2, <2>4, <3>1, PoolIs
    <3>4. \A k \in Handle : /\ sess'[k].encoding = sess[k].encoding /\ sess'[k].abort = sess[k].abort
      BY <1>2, <2>1, <2>4, <3>1, AutoIs
    <3>5. HandInv'
      <4>1. \A t \in Session \ {j[1]} : client'[t].active =>
                client[t].active /\ client'[t].session_handle_q = client[t].session_handle_q
        BY <3>3
      <4>2. \A k \in Handle \ {h} : /\ mgr.h = k => mgr'.h = k
                                    /\ sess[k].encoding => sess'[k].encoding
                                    /\ omxThread[k] = "requeue" => omxThread'[k] = "requeue"
        BY <1>1, <3>4, HandlesAssumption
      <4> QED BY <1>1, <2>2, <3>2, <4>1, <4>2, HandMoves DEF PoolInv
    <3>6. NamedInv'
      <4>1. \A t \in Session : client'[t].out_buf_q = client[t].out_buf_q
        <5>1. /\ client'[j[1]] = [client[j[1]] EXCEPT !.session_handle_q = Tail(free)]
              /\ client[j[1]] \in ClientType
          BY <1>2, <2>1, <2>2, <2>4
        <5>2. client'[j[1]].out_buf_q = client[j[1]].out_buf_q
          BY <5>1 DEF ClientType
        <5> QED BY <3>3, <5>2
      <4>2. \A k \in Handle : ~sess'[k].auto
        BY <1>2, <2>1, <2>4, <3>1 DEF PoolInv, NamedInv, SessType
      <4> QED BY <1>1, <3>2, <3>3, <4>1, <4>2 DEF PoolInv, NamedInv
    <3>7. LimitInv'
      BY <1>1, <1>2, <3>2, <3>4, RunningFrame, LimitFrame DEF PoolInv
    <3> QED BY <3>5, <3>6, <3>7 DEF PoolInv
  <2> QED BY <2>3, <2>4
<1> QED BY <1>4, <1>5

LEMMA IdleIs == IdleMgr.h = NoHandle /\ IdleMgr.pc = "wait" /\ IdleMgr.dst = 0
BY DEF IdleMgr

LEMMA EnqHeadPool ==
    ASSUME OneEncoder, NamedBuffers, IInv, PoolInv, EnqHead
    PROVE  PoolInv'
<1>1. /\ mgr.pc = "again" /\ mgr' = IdleMgr
      /\ UNCHANGED <<scene, ongoing_job_q, sess, client, omxThread>>
  BY DEF EnqHead
<1>2. mgr'.h = NoHandle /\ mgr'.pc = "wait" /\ mgr'.dst = 0 /\ mgr.h = NoHandle /\ ~HasHandle
  BY <1>1, IdleIs DEF PoolInv, HandInv, HasHandle
<1>3. HandInv'
  BY <1>1, <1>2, HandFrame DEF PoolInv
<1>4. NamedInv'
  BY <1>1, <1>2 DEF PoolInv, NamedInv
<1>5. LimitInv'
  <2>1. \A k \in Handle : Running(k)' => Running(k)
    BY <1>1 DEF Running
  <2> QED BY <1>1, <1>2, <2>1, SceneIs, LimitFrame DEF PoolInv
<1> QED BY <1>3, <1>4, <1>5 DEF PoolInv

LEMMA AssignJobPool ==
    ASSUME OneEncoder, NamedBuffers, IInv, PoolInv, AssignJob
    PROVE  PoolInv'
<1>1. /\ mgr.pc = "assign" /\ HasHandle /\ HasJob
      /\ mgr' = [mgr EXCEPT !.pc = "encode"] /\ ongoing_job_q' = ongoing_job_q \cup {mgr.job}
      /\ sess' = [sess EXCEPT ![mgr.h].dst = mgr.dst, ![mgr.h].job = mgr.job]
      /\ UNCHANGED <<scene, client, omxThread>>
  BY DEF AssignJob, HasHandle, HasJob
<1>2. /\ mgr.h \in Handle /\ sess \in [Handle -> SessType]
      /\ mgr \in [pc: {"wait", "lock", "again", "buffer", "assign", "encode", "dead"},
                job: Job \cup {EXIT}, h: Handle \cup {NoHandle}, dst: Nat, tail: BOOLEAN]
  BY <1>1, MgrWorks, TypesOf DEF IInv, TypeOK
<1>3. mgr'.pc = "encode" /\ mgr'.h = mgr.h /\ mgr'.dst = mgr.dst /\ HasHandle'
  BY <1>1, <1>2 DEF HasHandle
<1>4. \A k \in Handle : /\ sess'[k].encoding = sess[k].encoding /\ sess'[k].abort = sess[k].abort
                        /\ sess'[k].auto = sess[k].auto
  <2> DEFINE r == [sess[mgr.h] EXCEPT !.dst = mgr.dst, !.job = mgr.job]
  <2>1. r.encoding = sess[mgr.h].encoding /\ r.abort = sess[mgr.h].abort /\ r.auto = sess[mgr.h].auto
    BY <1>2 DEF SessType
  <2>2. sess' = [sess EXCEPT ![mgr.h] = r]
    BY <1>1, <1>2
  <2> HIDE DEF r
  <2> QED BY <1>2, <2>1, <2>2
<1>5. HandInv'
  <2>1. \A s \in Session : client[s].active => Encoder(s) \in Handle
    BY TypesOf DEF IInv, ClientInv
  <2> QED BY <1>1, <1>3, <1>4, <2>1, HandFrame DEF PoolInv
<1>6. NamedInv'
  BY <1>1, <1>3, <1>4 DEF PoolInv, NamedInv
<1>7. LimitInv'
  <2>1. IsFiniteSet(ongoing_job_q) /\ Cardinality(ongoing_job_q) \in Nat /\ scene.limit \in Nat
        /\ Cardinality(ongoing_job_q) < scene.limit
    BY <1>1, SceneIs, FS_CardinalityType DEF PoolInv, LimitInv
  <2>2. /\ IsFiniteSet(ongoing_job_q')
        /\ Cardinality(ongoing_job_q') <= Cardinality(ongoing_job_q) + 1
        /\ Cardinality(ongoing_job_q') \in Nat
    <3>1. /\ IsFiniteSet(ongoing_job_q \cup {mgr.job})
          /\ \/ Cardinality(ongoing_job_q \cup {mgr.job}) = Cardinality(ongoing_job_q)
             \/ Cardinality(ongoing_job_q \cup {mgr.job}) = Cardinality(ongoing_job_q) + 1
      BY <2>1, FS_AddElement, Zenon
    <3>2. Cardinality(ongoing_job_q \cup {mgr.job}) \in Nat
      BY <3>1, FS_CardinalityType, Zenon
    <3> QED BY <1>1, <2>1, <3>1, <3>2
  <2>3. RunningHandles' = RunningHandles
    BY <1>4, RunningFrame DEF RunningHandles
  <2> QED BY <1>1, <1>3, <2>1, <2>2, <2>3 DEF PoolInv, LimitInv
<1> QED BY <1>5, <1>6, <1>7 DEF PoolInv

\* The encoders at work are as many as their jobs, which are under way.
LEMMA RoomForOne ==
    ASSUME OneEncoder, NamedBuffers, IInv, PoolInv, mgr.pc = "encode",
           NEW S \in SUBSET Handle, \A k \in S : Running(k) \/ k = mgr.h
    PROVE  IsFiniteSet(S) /\ Cardinality(S) <= scene.limit
<1>1. /\ ~Stopping /\ sess[mgr.h].job = mgr.job /\ mgr.job \in ongoing_job_q /\ mgr.h \in Handle
      /\ mgr.job \in Job /\ mgr.h = Encoder(mgr.job[1])
  BY MgrWorks DEF HasJob, HasHandle, IInv, MgrInv
<1>2. \A k \in S : sess[k].job \in ongoing_job_q /\ k = Encoder(sess[k].job[1])
  BY <1>1 DEF IInv, RunInv, Stopping
<1> DEFINE f == [k \in S |-> sess[k].job]
<1>3. f \in [S -> ongoing_job_q]
  BY <1>2
<1>4. \A k, l \in S : f[k] = f[l] => k = l
  BY <1>2
<1>5. f \in Injection(S, ongoing_job_q)
  BY <1>3, <1>4, Fun_IsInj
<1>6. /\ IsFiniteSet(ongoing_job_q) /\ Cardinality(ongoing_job_q) \in Nat /\ scene.limit \in Nat
      /\ Cardinality(ongoing_job_q) <= scene.limit
  BY SceneIs, FS_CardinalityType DEF PoolInv, LimitInv
<1>7. IsFiniteSet(S) /\ Cardinality(S) <= Cardinality(ongoing_job_q) /\ Cardinality(S) \in Nat
  <2> HIDE DEF f
  <2> QED BY <1>5, <1>6, FS_Injection, FS_CardinalityType
<1> QED BY <1>6, <1>7

LEMMA EncodePool ==
    ASSUME OneEncoder, NamedBuffers, IInv, PoolInv, Encode
    PROVE  PoolInv'
<1> DEFINE h == mgr.h
           s == mgr.job[1]
<1>1. /\ mgr.pc = "encode" /\ HasHandle /\ HasJob /\ mgr' = IdleMgr
      /\ UNCHANGED <<scene, omxThread>>
  BY DEF Encode, HasHandle, HasJob
<1>2. /\ h \in Handle /\ h = Encoder(s) /\ s \in Session /\ HasEncoder(s)
      /\ sess \in [Handle -> SessType] /\ client \in [Session -> ClientType]
      /\ client[s].session_handle_q = <<>> /\ ongoing_job_q' \subseteq ongoing_job_q
      /\ mgr'.h = NoHandle /\ mgr'.pc = "wait" /\ mgr'.dst = 0
  BY <1>1, MgrWorks, TypesOf, IdleIs DEF Encode
<1>3. PICK b \in BOOLEAN : /\ sess' = [sess EXCEPT ![h].abort = "NONE", ![h].encoding = b]
                           /\ b => UNCHANGED client
                           /\ ~b => client' = [client EXCEPT ![s].session_handle_q = Append(@, h),
                                ![s].out_buf_q = IF sess[h].auto THEN Append(@, sess[h].dst) ELSE @]
  <2>1. TRUE \in BOOLEAN /\ FALSE \in BOOLEAN
    OBVIOUS
  <2> QED BY <2>1 DEF Encode
<1>4. ~sess[h].auto
  BY <1>2 DEF PoolInv, NamedInv
<1>5. /\ sess'[h].encoding = b /\ sess'[h].auto = sess[h].auto
      /\ \A k \in Handle \ {h} : sess'[k] = sess[k]
  <2> DEFINE r == [sess[h] EXCEPT !.abort = "NONE", !.encoding = b]
  <2>1. r.encoding = b /\ r.auto = sess[h].auto
    BY <1>2 DEF SessType
  <2>2. sess' = [sess EXCEPT ![h] = r]
    BY <1>2, <1>3
  <2> HIDE DEF r
  <2> QED BY <1>2, <2>1, <2>2
<1>6. /\ \A t \in Session \ {s} : client'[t] = client[t]
      /\ client'[s].out_buf_q = client[s].out_buf_q /\ client'[s].active = client[s].active
      /\ ~b => client'[s].session_handle_q = <<h>>
  <2>1. CASE b
    BY <1>3, <2>1
  <2>2. CASE ~b
    <3> DEFINE r == [client[s] EXCEPT !.session_handle_q = <<h>>]
    <3>1. client' = [client EXCEPT ![s] = r]
      <4>1. Append(client[s].session_handle_q, h) = <<h>> /\ client[s] \in ClientType
        BY <1>2
      <4> QED BY <1>2, <1>3, <1>4, <2>2, <4>1 DEF ClientType
    <3>2. /\ r.session_handle_q = <<h>> /\ r.active = client[s].active
          /\ r.out_buf_q = client[s].out_buf_q
      BY <1>2 DEF ClientType
    <3> HIDE DEF r
    <3> QED BY <1>2, <3>1, <3>2
  <2> QED BY <2>1, <2>2
<1>7. HandInv'
  <2>1. client'[s].active => client'[s].session_handle_q # <<>> \/ sess'[Encoder(s)].encoding
    <3>1. CASE b
      BY <1>2, <1>5, <3>1
    <3>2. CASE ~b
      <4>1. \A x : <<x>> # <<>>
        OBVIOUS
      <4> QED BY <1>6, <3>2, <4>1, Zenon
    <3> QED BY <3>1, <3>2
  <2>2. \A k \in Handle \ {Encoder(s)} :
            /\ mgr.h = k => mgr'.h = k
            /\ sess[k].encoding => sess'[k].encoding
            /\ omxThread[k] = "requeue" => omxThread'[k] = "requeue"
    BY <1>1, <1>2, <1>5
  <2>3. \A t \in Session \ {s} : client'[t].active =>
            client[t].active /\ client'[t].session_handle_q = client[t].session_handle_q
    BY <1>6
  <2>4. (mgr'.h # NoHandle => HasHandle') /\ scene' = scene /\ HandInv
    BY <1>1, <1>2 DEF PoolInv
  <2>5. s \in Session /\ HasEncoder(s)
    BY <1>2
  <2> HIDE DEF h, s
  <2> QED BY <2>1, <2>2, <2>3, <2>4, <2>5, HandMoves
<1>8. NamedInv'
  <2>1. \A k \in Handle : ~sess'[k].auto
    BY <1>4, <1>5 DEF PoolInv, NamedInv
  <2>2. \A t \in Session : client'[t].out_buf_q = client[t].out_buf_q
                           /\ client'[t].active = client[t].active
    BY <1>6
  <2> QED BY <1>1, <1>2, <2>1, <2>2 DEF PoolInv, NamedInv
<1>9. LimitInv'
  <2>1. /\ IsFiniteSet(ongoing_job_q') /\ Cardinality(ongoing_job_q') <= Cardinality(ongoing_job_q)
        /\ IsFiniteSet(ongoing_job_q)
    BY <1>2, FS_Subset DEF PoolInv, LimitInv
  <2>2. /\ Cardinality(ongoing_job_q') \in Nat /\ Cardinality(ongoing_job_q) \in Nat
        /\ scene.limit \in Nat /\ Cardinality(ongoing_job_q) <= scene.limit
    BY <2>1, FS_CardinalityType, SceneIs DEF PoolInv, LimitInv
  <2>3. IsFiniteSet(RunningHandles') /\ Cardinality(RunningHandles') <= scene.limit
    <3>1. \A k \in RunningHandles' : k \in Handle /\ (Running(k) \/ k = mgr.h)
      BY <1>5 DEF RunningHandles, Running
    <3> QED BY <1>1, <3>1, RoomForOne
  <2> QED BY <1>1, <1>2, <2>1, <2>2, <2>3 DEF LimitInv
<1> QED BY <1>7, <1>8, <1>9 DEF PoolInv

LEMMA MgrPool ==
    ASSUME OneEncoder, NamedBuffers, IInv, PoolInv, MgrStep
    PROVE  PoolInv'
<1>1. ~TakeBuffer
  BY DEF TakeBuffer, PoolInv, NamedInv
<1> QED BY <1>1, WakePool, TakeJobPool, EnqHeadPool, AssignJobPool, EncodePool DEF MgrStep

LEMMA OmxPool ==
    ASSUME OneEncoder, NamedBuffers, IInv, PoolInv, NEW h \in Handle, OmxStep(h)
    PROVE  PoolInv'
<1>1. /\ sess \in [Handle -> SessType] /\ client \in [Session -> ClientType]
      /\ omxThread \in [Handle -> {"none", "requeue", "return"}]
      /\ scene.limit \in Nat
      /\ \A s \in Session : client[s].active => HasEncoder(s) /\ Encoder(s) \in Handle
  BY TypesOf, SceneIs DEF IInv, TypeOK, ClientInv
<1>2. UNCHANGED <<scene, mgr>> /\ ongoing_job_q' \subseteq ongoing_job_q
  BY DEF OmxStep, FillBufferDone, EventError, Finish, Requeue, ReturnBuffer, CmdComplete, queues,
         mgrVars
<1>3. ASSUME \A k \in Handle : /\ sess'[k].auto = sess[k].auto
                               /\ sess'[k].encoding => sess[k].encoding
                               /\ sess'[k].abort = "NONE" => sess[k].abort = "NONE",
             \A s \in Session : client'[s].active = client[s].active
                                /\ client'[s].out_buf_q = client[s].out_buf_q
      PROVE  NamedInv' /\ LimitInv'
  <2>1. NamedInv'
    BY <1>2, <1>3 DEF PoolInv, NamedInv
  <2>2. \A k \in Handle : Running(k)' => Running(k)
    BY <1>3 DEF Running
  <2> QED BY <1>1, <1>2, <2>1, <2>2, LimitFrame DEF PoolInv
<1>4. ASSUME \A k \in Handle : sess'[k].encoding = sess[k].encoding, UNCHANGED omxThread,
             \A s \in Session : client'[s].active = client[s].active
                                /\ client'[s].session_handle_q = client[s].session_handle_q
      PROVE  HandInv'
  BY <1>1, <1>2, <1>4, HandFrame DEF PoolInv, HasHandle
<1>5. ASSUME NEW status, Finish(h, status), UNCHANGED client, omx[h].busy, sess[h].abort = "NONE"
      PROVE  PoolInv'
  <2>1. /\ sess' = [sess EXCEPT ![h].encoding = FALSE, ![h].lock = "omx"]
        /\ omxThread' = [omxThread EXCEPT ![h] = "requeue"]
    BY <1>5 DEF Finish
  <2>2. /\ sess'[h].auto = sess[h].auto /\ ~sess'[h].encoding /\ sess'[h].abort = sess[h].abort
        /\ \A k \in Handle \ {h} : sess'[k] = sess[k]
    <3> DEFINE r == [sess[h] EXCEPT !.encoding = FALSE, !.lock = "omx"]
    <3>1. r.auto = sess[h].auto /\ ~r.encoding /\ r.abort = sess[h].abort
      BY <1>1 DEF SessType
    <3>2. sess' = [sess EXCEPT ![h] = r]
      BY <1>1, <2>1
    <3> HIDE DEF r
    <3> QED BY <1>1, <3>1, <3>2
  <2>3. omxThread'[h] = "requeue" /\ \A k \in Handle \ {h} : omxThread'[k] = omxThread[k]
    BY <1>1, <2>1
  <2>4. PICK s \in Session : HasEncoder(s) /\ h = Encoder(s)
    BY <1>5, TypesOf DEF IInv, RunInv, Running
  <2>5. HandInv'
    <3>1. (mgr'.h # NoHandle => HasHandle') /\ scene' = scene /\ HandInv
      BY <1>2 DEF PoolInv, HandInv, HasHandle
    <3> QED BY <1>2, <1>5, <2>2, <2>3, <2>4, <3>1, HandMoves
  <2>6. NamedInv' /\ LimitInv'
    BY <1>3, <1>5, <2>2
  <2> QED BY <2>5, <2>6 DEF PoolInv
<1>6. CASE FillBufferDone(h)
  <2>1. CASE sess[h].abort = "NONE"
    BY <1>5, <1>6, <2>1 DEF FillBufferDone
  <2>2. CASE sess[h].abort # "NONE"
    <3>1. UNCHANGED <<sess, client, omxThread>>
      BY <1>6, <2>2 DEF FillBufferDone
    <3> QED BY <1>3, <1>4, <3>1 DEF PoolInv
  <2> QED BY <2>1, <2>2
<1>7. CASE EventError(h)
  BY <1>5, <1>7 DEF EventError
<1>8. CASE Requeue(h)
  <2> DEFINE s == sess[h].job[1]
  <2>1. /\ omxThread[h] = "requeue" /\ omxThread' = [omxThread EXCEPT ![h] = "return"]
        /\ client' = [client EXCEPT ![s].session_handle_q = Append(@, h)]
        /\ UNCHANGED sess
    BY <1>8 DEF Requeue
  <2>2. s \in Session /\ HasEncoder(s) /\ h = Encoder(s) /\ Chain(s) = <<h>>
    BY <2>1, TypesOf DEF IInv, RunInv
  <2> HIDE DEF s
  <2>3. /\ Append(client[s].session_handle_q, h) \in Seq(Handle)
        /\ Append(client[s].session_handle_q, h) # <<>>
    <3>1. client[s].session_handle_q \in Seq(Handle)
      BY <1>1, <2>2 DEF ClientType
    <3>2. ASSUME NEW q \in Seq(Handle)
          PROVE  Append(q, h) \in Seq(Handle) /\ Append(q, h) # <<>>
      <4>1. Len(Append(q, h)) = Len(q) + 1 /\ Len(q) \in Nat /\ Append(q, h) \in Seq(Handle)
        OBVIOUS
      <4>2. Len(<<>>) = 0
        OBVIOUS
      <4> QED BY <4>1, <4>2
    <3> QED BY <3>1, <3>2
  <2>4. /\ client'[s].session_handle_q # <<>>
        /\ \A t \in Session : client'[t].active = client[t].active
        /\ \A t \in Session : t # s => client'[t] = client[t]
    <3> HIDE DEF s
    <3>1. client' = [client EXCEPT ![s].session_handle_q = Append(client[s].session_handle_q, h)]
      BY <1>1, <2>1, <2>2
    <3> QED BY <1>1, <2>2, <2>3, <3>1, PoolIs
  <2>5. client'[s].out_buf_q = client[s].out_buf_q
    <3>1. /\ client'[s] = [client[s] EXCEPT !.session_handle_q = Append(@, h)]
          /\ client[s] \in ClientType
      BY <1>1, <2>1, <2>2
    <3> QED BY <3>1 DEF ClientType
  <2>6. NamedInv' /\ LimitInv'
    BY <1>3, <2>1, <2>4, <2>5
  <2>7. HandInv'
    <3>1. (mgr'.h # NoHandle => HasHandle') /\ scene' = scene /\ HandInv
      BY <1>2 DEF PoolInv, HandInv, HasHandle
    <3>2. \A k \in Handle \ {h} : omxThread'[k] = omxThread[k]
      BY <1>1, <2>1
    <3> QED BY <1>2, <2>1, <2>2, <2>4, <3>1, <3>2, HandMoves
  <2> QED BY <2>6, <2>7 DEF PoolInv
<1>9. CASE ReturnBuffer(h)
  <2> DEFINE s == sess[h].job[1]
  <2>1. /\ omxThread[h] = "return" /\ omxThread' = [omxThread EXCEPT ![h] = "none"]
        /\ client' = [client EXCEPT ![s].out_buf_q =
                          IF sess[h].auto THEN Append(@, sess[h].dst) ELSE @]
        /\ sess' = [sess EXCEPT ![h].lock = "free"]
    BY <1>9 DEF ReturnBuffer
  <2>2. ~sess[h].auto
    BY DEF PoolInv, NamedInv
  <2>3. \A t \in Session : client'[t] = client[t]
    BY <1>1, <2>1, <2>2 DEF ClientType
  <2>4. \A k \in Handle : /\ sess'[k].auto = sess[k].auto /\ sess'[k].encoding = sess[k].encoding
                          /\ sess'[k].abort = sess[k].abort
    BY <1>1, <2>1 DEF SessType
  <2>5. NamedInv' /\ LimitInv'
    BY <1>3, <2>3, <2>4
  <2>6. HandInv'
    <3>1. (mgr'.h # NoHandle => HasHandle') /\ scene' = scene /\ HandInv
      BY <1>2 DEF PoolInv, HandInv, HasHandle
    <3>2. \A k \in Handle : omxThread[k] = "requeue" => omxThread'[k] = "requeue"
      BY <1>1, <2>1
    <3>3. \A t \in Session : client'[t].active =>
              /\ \/ client'[t].session_handle_q # <<>> \/ mgr'.h = Encoder(t)
                 \/ sess'[Encoder(t)].encoding \/ omxThread'[Encoder(t)] = "requeue"
      BY <1>1, <1>2, <2>3, <2>4, <3>2 DEF PoolInv, HandInv
    <3>4. \A t : Encoder(t)' = Encoder(t)
      BY <1>2 DEF Encoder, Chain
    <3> QED BY <3>1, <3>3, <3>4 DEF HandInv
  <2> QED BY <2>5, <2>6 DEF PoolInv
<1>10. CASE CmdComplete(h)
  <2>1. /\ UNCHANGED <<client, omxThread>>
        /\ \/ sess[h].abort = "INIT" /\ sess' = [sess EXCEPT ![h].abort = "DONE"]
           \/ sess' = [sess EXCEPT ![h].state_change_pending = FALSE]
    BY <1>10 DEF CmdComplete
  <2>2. \A k \in Handle : /\ sess'[k].auto = sess[k].auto /\ sess'[k].encoding = sess[k].encoding
                          /\ sess'[k].abort = "NONE" => sess[k].abort = "NONE"
    BY <1>1, <2>1 DEF SessType
  <2> QED BY <1>3, <1>4, <2>1, <2>2 DEF PoolInv
<1> QED BY <1>6, <1>7, <1>8, <1>9, <1>10 DEF OmxStep

LEMMA InitPool == OneEncoder /\ NamedBuffers /\ Init => PoolInv
<1> SUFFICES ASSUME OneEncoder, NamedBuffers, Init PROVE PoolInv
  OBVIOUS
<1>1. IInv
  BY InitInv
<1>2. \A s \in Session : client[s].active => client[s].session_handle_q # <<>>
  BY DEF Init, NewClient, NoClient
<1>3. \A s \in Session : client[s].active => client[s].out_buf_q = [i \in 1..scene.ndst |-> i]
  BY DEF Init, NewClient, NoClient
<1>4. HandInv
  BY <1>2, IdleIs DEF Init, HandInv
<1>5. NamedInv
  BY <1>3, IdleIs DEF Init, NamedInv, NewSess
<1>6. LimitInv
  <2>1. RunningHandles = {} /\ ongoing_job_q = {} /\ mgr.pc = "wait"
    BY IdleIs DEF Init, RunningHandles, Running, NewSess
  <2>2. scene.limit \in Nat /\ 0 <= scene.limit
    BY <1>1, SceneIs
  <2> QED BY <2>1, <2>2, FS_EmptySet DEF LimitInv
<1> QED BY <1>4, <1>5, <1>6 DEF PoolInv

LEMMA PoolStep == OneEncoder /\ NamedBuffers /\ IInv /\ PoolInv /\ [Next]_vars => PoolInv'
<1> SUFFICES ASSUME OneEncoder, NamedBuffers, IInv, PoolInv, [Next]_vars PROVE PoolInv'
  OBVIOUS
<1>1. CASE CallStep
  BY <1>1, CallPool
<1>2. CASE MgrStep
  BY <1>2, MgrPool
<1>3. ASSUME NEW h \in Handle, OmxStep(h) PROVE PoolInv'
  BY <1>3, OmxPool
<1>4. ASSUME NEW s \in Session, ClientStep(s) PROVE PoolInv'
  BY <1>4, ClientPool
<1>5. CASE UNCHANGED vars
  BY <1>5 DEF vars, PoolInv, HandInv, NamedInv, LimitInv, HasHandle, Encoder, Chain, Running,
              RunningHandles
<1> QED BY <1>1, <1>2, <1>3, <1>4, <1>5 DEF Next

LEMMA CountOne ==
    ASSUME NEW x
    PROVE  Count(<<>>, x) = 0 /\ Count(<<x>>, x) = 1
<1>1. {i \in DOMAIN <<>> : <<>>[i] = x} = {}
  OBVIOUS
<1>2. {i \in DOMAIN <<x>> : <<x>>[i] = x} = {1}
  OBVIOUS
<1> QED BY <1>1, <1>2, FS_EmptySet, FS_Singleton DEF Count

LEMMA CountIndex ==
    ASSUME NEW n \in Nat, NEW i \in 1..n
    PROVE  Count([k \in 1..n |-> k], i) = 1
<1> DEFINE q == [k \in 1..n |-> k]
<1>1. {k \in DOMAIN q : q[k] = i} = {i}
  OBVIOUS
<1> HIDE DEF q
<1>2. Count(q, i) = 1
  BY <1>1, FS_Singleton DEF Count
<1> QED BY <1>2 DEF q

LEMMA PoolsFollow == OneEncoder /\ IInv /\ PoolInv => PoolsExact
<1> SUFFICES ASSUME OneEncoder, IInv, PoolInv PROVE PoolsExact
  OBVIOUS
<1>1. HandlesExact
  <2> SUFFICES ASSUME NEW s \in Session, client[s].active, NEW h \in Range(Chain(s))
               PROVE  Count(client[s].session_handle_q, h) + One(mgr.h = h) + One(sess[h].encoding)
                          + One(omxThread[h] = "requeue") = 1
    BY DEF HandlesExact
  <2>1. HasEncoder(s) /\ h = Encoder(s) /\ h \in Handle /\ h # NoHandle /\ Chain(s) = <<h>>
    BY TypesOf, HandlesAssumption DEF IInv, ClientInv
  <2>2. mgr.h = h => HasHandle /\ ~sess[h].encoding /\ omxThread[h] # "requeue"
    BY <2>1 DEF PoolInv, HandInv, IInv, MgrInv
  <2>3. omxThread[h] = "requeue" => ~sess[h].encoding
    BY <2>1 DEF IInv, RunInv
  <2>4. CASE client[s].session_handle_q # <<>>
    <3>1. client[s].session_handle_q = <<h>> /\ ~sess[h].encoding /\ omxThread[h] # "requeue"
          /\ mgr.h # h
      BY <2>1, <2>2, <2>4 DEF IInv, HandleInv
    <3> QED BY <3>1, CountOne DEF One
  <2>5. CASE client[s].session_handle_q = <<>>
    <3>1. mgr.h = h \/ sess[h].encoding \/ omxThread[h] = "requeue"
      BY <2>1, <2>5 DEF PoolInv, HandInv
    <3>2. Count(client[s].session_handle_q, h) = 0
      BY <2>5, CountOne
    <3>3. CASE mgr.h = h
      BY <2>2, <3>2, <3>3 DEF One
    <3>4. CASE mgr.h # h /\ sess[h].encoding
      BY <2>3, <3>2, <3>4 DEF One
    <3>5. CASE mgr.h # h /\ ~sess[h].encoding
      BY <3>1, <3>2, <3>5 DEF One
    <3> QED BY <3>3, <3>4, <3>5
  <2> QED BY <2>4, <2>5
<1>2. BuffersExact
  <2> SUFFICES ASSUME NEW s \in Session, client[s].active, NEW i \in 1..scene.ndst
               PROVE  Count(client[s].out_buf_q, i)
                          + One(mgr.pc = "assign" /\ mgr.dst = i /\ mgr.job[1] = s)
                          + Cardinality({h \in Range(Chain(s)) : UsesBuffer(h, i)}) = 1
    BY DEF BuffersExact
  <2>1. Count(client[s].out_buf_q, i) = 1
    <3>1. client[s].out_buf_q = [k \in 1..scene.ndst |-> k] /\ scene.ndst \in Nat
      BY SceneIs DEF PoolInv, NamedInv
    <3> QED BY <3>1, CountIndex
  <2>2. ~(mgr.pc = "assign" /\ mgr.dst = i /\ mgr.job[1] = s)
    <3>1. mgr.dst = 0 /\ i # 0
      BY SceneIs DEF PoolInv, NamedInv
    <3> QED BY <3>1
  <2>3. {h \in Range(Chain(s)) : UsesBuffer(h, i)} = {}
    <3>1. \A h \in Range(Chain(s)) : h \in Handle
      BY TypesOf DEF IInv, ClientInv
    <3> QED BY <3>1 DEF UsesBuffer, PoolInv, NamedInv
  <2> QED BY <2>1, <2>2, <2>3, FS_EmptySet DEF One
<1>3. WithinLimit
  BY DEF PoolInv, LimitInv, WithinLimit, RunningHandles, Running
<1> QED BY <1>1, <1>2, <1>3 DEF PoolsExact, IInv

\* For clients that name their output buffers, every encoder of a session is in one place at
\* any time, free, in the manager's hands, encoding or on its way back, every output buffer is
\* free, and OMX never has more jobs than it may have, whatever is aborted or destroyed
\* meanwhile (mm_jpeg.c: mm_jpeg_process_encoding_job, mm_jpegenc_job_done).
THEOREM PoolsStayExact == ASSUME OneEncoder, NamedBuffers PROVE Spec => []PoolsExact
<1>1. Init => IInv /\ PoolInv
  BY InitInv, InitPool
<1>2. (IInv /\ PoolInv) /\ [Next]_vars => (IInv /\ PoolInv)'
  BY NextKeeps, PoolStep
<1>3. IInv /\ PoolInv => PoolsExact
  BY PoolsFollow
<1> QED BY <1>1, <1>2, <1>3, PTL DEF Spec

===============================================================================
