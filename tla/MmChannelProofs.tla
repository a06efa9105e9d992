--------------------------- MODULE MmChannelProofs ---------------------------
(***************************************************************************)
(* Start and stop move all of a channel or nothing, for any channels,      *)
(* streams, threads and clients.                                           *)
(***************************************************************************)
EXTENDS MmChannel, FiniteSetTheorems, WellFoundedInduction, TLAPS

-----------------------------------------------------------------------------
(* The order in which the streams of a table are started and stopped *)

\* What holds of 0 and passes on to the next number holds of all.
LEMMA Induction ==
    ASSUME NEW T \in SUBSET Nat, 0 \in T, \A n \in T : n + 1 \in T
    PROVE  T = Nat
<1> SUFFICES ASSUME Nat \ T # {} PROVE FALSE
  OBVIOUS
<1>1. PICK n \in Nat \ T : \A k \in Nat \ T : <<k, n>> \notin OpToRel(<, Nat)
  BY NatLessThanWellFounded, WFMin, Nat \ T \subseteq Nat, Zenon
<1>2. n \in Nat /\ n - 1 \in Nat /\ n - 1 < n /\ n = (n - 1) + 1
  BY n # 0
<1>3. n - 1 \notin T
  BY <1>2
<1>4. <<n - 1, n>> \in OpToRel(<, Nat)
  BY <1>2, Zenon DEF OpToRel
<1> QED BY <1>1, <1>2, <1>3, <1>4

LEMMA Finite ==
    ASSUME NEW N \in Nat, NEW S \in SUBSET (1..N)
    PROVE  /\ IsFiniteSet(S) /\ Cardinality(S) \in Nat
           /\ \A i : Rank(S, i) \in Nat /\ Rank(S, i) <= Cardinality(S)
<1>1. IsFiniteSet(1..N)
  BY FS_Interval
<1>2. IsFiniteSet(S) /\ Cardinality(S) \in Nat
  BY <1>1, FS_Subset, FS_CardinalityType
<1>3. ASSUME NEW i PROVE Rank(S, i) \in Nat /\ Rank(S, i) <= Cardinality(S)
  <2>1. {j \in S : j <= i} \in SUBSET S
    OBVIOUS
  <2> HIDE DEF Rank
  <2>2. IsFiniteSet({j \in S : j <= i}) /\ Cardinality({j \in S : j <= i}) <= Cardinality(S)
    BY <1>2, <2>1, FS_Subset
  <2> QED BY <2>2, FS_CardinalityType DEF Rank
<1> QED BY <1>2, <1>3

LEMMA RankGrows ==
    ASSUME NEW N \in Nat, NEW S \in SUBSET (1..N), NEW i \in Nat, NEW j \in S, i < j
    PROVE  Rank(S, i) < Rank(S, j)
<1> DEFINE low == {k \in S : k <= i}
           high == {k \in S : k <= j}
<1>0. \A k \in S : k \in Nat
  OBVIOUS
<1>9. ASSUME NEW k \in S, k <= i PROVE k <= j
  <2>1. k \in Nat /\ j \in Nat
    BY <1>0
  <2> QED BY <1>9, <2>1
<1>8. j \in Nat /\ ~(j <= i) /\ j <= j
  BY <1>0
<1>1. low \in SUBSET high /\ j \in high /\ j \notin low /\ high \in SUBSET S
  BY <1>8, <1>9, Zenon
<1>2. IsFiniteSet(high)
  BY <1>1, Finite, FS_Subset
<1>3. Cardinality(low) <= Cardinality(high) /\ Cardinality(low) # Cardinality(high)
  BY <1>1, <1>2, FS_Subset
<1>4. Rank(S, i) \in Nat /\ Rank(S, j) \in Nat
  BY Finite
<1>5. Rank(S, i) <= Rank(S, j) /\ Rank(S, i) # Rank(S, j)
  BY <1>3, Zenon DEF Rank
<1> QED BY <1>4, <1>5

LEMMA RankHit ==
    ASSUME NEW N \in Nat, NEW S \in SUBSET (1..N), NEW k \in 1..Cardinality(S)
    PROVE  \E i \in S : Rank(S, i) = k
<1> DEFINE Hits(n) == \A l \in 1..Rank(S, n) : \E i \in S : Rank(S, i) = l
           T == {n \in Nat : Hits(n)}
<1>1. Rank(S, 0) = 0
  <2>0. \A j \in S : ~(j <= 0)
    OBVIOUS
  <2>1. {j \in S : j <= 0} = {}
    BY <2>0, Zenon
  <2> QED BY <2>1, FS_EmptySet DEF Rank
<1>2. 0 \in T
  BY <1>1
<1>3. ASSUME NEW n \in T PROVE n + 1 \in T
  <2> DEFINE low == {j \in S : j <= n}
             high == {j \in S : j <= n + 1}
  <2>1. n \in Nat /\ Hits(n)
    BY <1>3
  <2>0. \A j \in S : j \in Nat /\ (j <= n + 1 <=> j <= n \/ j = n + 1)
    <3>1. \A j \in S : j \in Nat
      OBVIOUS
    <3> QED BY <2>1, <3>1
  <2>2. CASE n + 1 \in S
    <3>0. ~(n + 1 <= n)
      BY <2>1
    <3>1. high = low \cup {n + 1} /\ n + 1 \notin low /\ low \in SUBSET S
      BY <2>0, <2>2, <3>0, Zenon
    <3>2. IsFiniteSet(low)
      BY <3>1, Finite, FS_Subset
    <3>3. Cardinality(high) = Cardinality(low) + 1
      BY <3>1, <3>2, FS_AddElement
    <3>4. Rank(S, n + 1) = Rank(S, n) + 1
      BY <3>3 DEF Rank
    <3>5. Rank(S, n) \in Nat
      BY Finite
    <3>6. ASSUME NEW l \in 1..Rank(S, n + 1) PROVE \E i \in S : Rank(S, i) = l
      <4>1. l \in 1..Rank(S, n) \/ l = Rank(S, n + 1)
        BY <3>4, <3>5
      <4> QED BY <2>1, <2>2, <4>1
    <3> QED BY <2>1, <3>6
  <2>3. CASE n + 1 \notin S
    <3>1. high = low
      BY <2>0, <2>1, <2>3
    <3>2. Rank(S, n + 1) = Rank(S, n)
      BY <3>1 DEF Rank
    <3> QED BY <2>1, <3>2
  <2> QED BY <2>2, <2>3
<1>4. T = Nat
  <2> HIDE DEF T
  <2>1. T \in SUBSET Nat
    BY DEF T
  <2> QED BY <1>2, <1>3, <2>1, Induction
<1>5. Hits(N)
  BY <1>4
<1>6. Rank(S, N) = Cardinality(S)
  <2>0. \A j \in S : j <= N
    OBVIOUS
  <2>1. {j \in S : j <= N} = S
    BY <2>0
  <2> QED BY <2>1 DEF Rank
<1> QED BY <1>5, <1>6

\* A list of the streams of a channel's table: all of them, each once.
Lists(c, ord) ==
    /\ ord \in Seq(Streams)
    /\ \A k, l \in DOMAIN ord : ord[k] = ord[l] => k = l
    /\ \A s \in Streams : Has(c, s) <=> s \in Range(ord)

Distinct(table) == \A i, k \in 1..MaxStreams : table[i] = table[k] /\ table[i] # None => i = k

LEMMA InTableLists ==
    ASSUME NEW c, ch[c].table \in [1..MaxStreams -> Streams \cup {None}], Distinct(ch[c].table)
    PROVE  Lists(c, InTable(c))
<1> DEFINE used == Used(ch[c].table)
           n == Cardinality(used)
           q == InTable(c)
<1> USE ChannelConstantsOK
<1>1. MaxStreams \in Nat /\ used \in SUBSET (1..MaxStreams)
  BY DEF Used
<1>2. n \in Nat
  BY <1>1, Finite
<1>3. ASSUME NEW k \in 1..n PROVE Place(used, k) \in used /\ Rank(used, Place(used, k)) = k
  <2> HIDE DEF used
  <2>1. \E i \in used : Rank(used, i) = k
    BY <1>1, RankHit
  <2> QED BY <2>1 DEF Place
<1>4. ASSUME NEW i \in used PROVE Rank(used, i) \in 1..n /\ Place(used, Rank(used, i)) = i
  <2> HIDE DEF used
  <2>1. i \in Nat /\ 0 < i
    BY <1>1
  <2>2. Rank(used, 0) < Rank(used, i) /\ Rank(used, i) <= n /\ Rank(used, i) \in Nat
        /\ Rank(used, 0) \in Nat
    BY <1>1, <2>1, RankGrows, Finite
  <2>3. Rank(used, i) \in 1..n
    BY <1>2, <2>2
  <2> DEFINE p == Place(used, Rank(used, i))
  <2>4. p \in used /\ Rank(used, p) = Rank(used, i)
    BY <1>3, <2>3
  <2> HIDE DEF p
  <2>11. p \in 1..MaxStreams
    BY <1>1, <2>4, Zenon
  <2>7. p \in Nat
    BY <1>1, <2>11
  <2>8. p < i => Rank(used, p) < Rank(used, i)
    BY <1>1, <2>7, RankGrows
  <2>9. i < p => Rank(used, i) < Rank(used, p)
    BY <1>1, <2>1, <2>4, RankGrows
  <2>5. ~(p < i) /\ ~(i < p)
    BY <2>2, <2>4, <2>8, <2>9
  <2>6. p = i
    BY <2>1, <2>5, <2>7
  <2> QED BY <2>3, <2>6 DEF p
<1>5. \A i \in used : i \in 1..MaxStreams /\ ch[c].table[i] \in Streams /\ ch[c].table[i] # None
  BY DEF Used
<1>6. q = [k \in 1..n |-> ch[c].table[Place(used, k)]]
  BY DEF InTable
<1> HIDE DEF used, n, q
<1>7. \A k \in 1..n : q[k] \in Streams /\ q[k] = ch[c].table[Place(used, k)]
  BY <1>3, <1>5, <1>6, Zenon
<1>11. DOMAIN q = 1..n /\ q = [k \in 1..n |-> q[k]]
  BY <1>6, Zenon
<1>12. q \in [1..n -> Streams]
  BY <1>7, <1>11
<1>8. q \in Seq(Streams) /\ DOMAIN q = 1..n
  BY <1>2, <1>12
<1>9. ASSUME NEW k \in DOMAIN q, NEW l \in DOMAIN q, q[k] = q[l] PROVE k = l
  <2>1. k \in 1..n /\ l \in 1..n
    BY <1>8, <1>9
  <2>2. Place(used, k) = Place(used, l)
    BY <1>3, <1>5, <1>7, <1>9, <2>1 DEF Distinct
  <2> QED BY <1>3, <2>1, <2>2
<1>10. ASSUME NEW s \in Streams PROVE Has(c, s) <=> s \in Range(q)
  <2>1. ASSUME Has(c, s) PROVE s \in Range(q)
    <3>1. PICK i \in 1..MaxStreams : ch[c].table[i] = s
      BY <2>1 DEF Has, Range
    <3>2. i \in used
      BY <3>1 DEF used, Used
    <3>3. Rank(used, i) \in DOMAIN q /\ q[Rank(used, i)] = s
      BY <1>4, <1>7, <1>8, <3>1, <3>2
    <3> QED BY <3>3 DEF Range
  <2>2. ASSUME s \in Range(q) PROVE Has(c, s)
    <3>1. PICK k \in DOMAIN q : q[k] = s
      BY <2>2 DEF Range
    <3>2. ch[c].table[Place(used, k)] = s /\ Place(used, k) \in 1..MaxStreams
      BY <1>3, <1>5, <1>7, <1>8, <3>1
    <3> QED BY <3>2 DEF Has, Range
  <2> QED BY <2>1, <2>2
<1> QED BY <1>8, <1>9, <1>10 DEF Lists, q

LEMMA SwapLists ==
    ASSUME NEW c, NEW q, Lists(c, q), NEW i \in DOMAIN q, NEW j \in DOMAIN q
    PROVE  Lists(c, Swap(q, i, j))
<1> DEFINE r == Swap(q, i, j)
<1>1. q \in Seq(Streams)
  BY DEF Lists
<1>2. DOMAIN r = DOMAIN q /\ \A k \in DOMAIN q : r[k] = IF k = j THEN q[i] ELSE IF k = i THEN q[j] ELSE q[k]
  BY <1>1 DEF Swap
<1>3. r \in Seq(Streams)
  BY <1>1 DEF Swap
<1> HIDE DEF r
<1>4. \A k, l \in DOMAIN q : q[k] = q[l] => k = l
  BY DEF Lists
<1>5. \A k, l \in DOMAIN r : r[k] = r[l] => k = l
  BY <1>2, <1>4
<1>6. Range(r) = Range(q)
  BY <1>2 DEF Range
<1> QED BY <1>3, <1>5, <1>6 DEF Lists, r

LEMMA OrdersList ==
    ASSUME NEW c, ch[c].table \in [1..MaxStreams -> Streams \cup {None}], Distinct(ch[c].table)
    PROVE  Lists(c, StartOrder(c)) /\ Lists(c, StopOrder(c))
<1> DEFINE q == InTable(c)
<1>1. Lists(c, q)
  BY InTableLists
<1> HIDE DEF q
<1>2. CASE q = <<>>
  <2>1. \A i, j : Swap(q, i, j) = q
    BY <1>2 DEF Swap
  <2> QED BY <1>1, <2>1 DEF StartOrder, StopOrder, q
<1>3. CASE q # <<>>
  <2>1. q \in Seq(Streams)
    BY <1>1 DEF Lists
  <2>2. 1 \in DOMAIN q /\ Len(q) \in DOMAIN q
    BY <1>3, <2>1
  <2>3. MetaIndex(c) \in DOMAIN q
    <3>1. CASE MetaStream \in Own(c)
      <4>1. MetaStream \in Range(q)
        BY <1>1, <3>1 DEF Own, Lists
      <4>2. \E i \in DOMAIN q : q[i] = MetaStream
        BY <4>1 DEF Range
      <4> QED BY <3>1, <4>2 DEF MetaIndex, Index, q
    <3>2. CASE MetaStream \notin Own(c)
      BY <2>2, <3>2 DEF MetaIndex
    <3> QED BY <3>1, <3>2
  <2> QED BY <1>1, <2>2, <2>3, SwapLists DEF StartOrder, StopOrder, q
<1> QED BY <1>2, <1>3

\* How the HAL uses channels: it does not add a channel while it deletes one, and links
\* a stream into one channel only, which is a bundle (QCamera2HWI.cpp:3153, 4771).
Orderly ==
    \A sc \in Scenes : \A c \in Channels :
       /\ ~sc.reuses
       /\ sc.links[c] # None => c \in sc.bundles
       /\ \A d \in Channels : sc.links[c] = sc.links[d] /\ sc.links[c] # None => c = d

-----------------------------------------------------------------------------
(* Calls and locks *)

In(t, c) == InChannel(t) /\ call[t].c = c

Undoing == {"undo_links", "undo_ack", "undo_copies", "undo_streams"}
Ending == {"cmd_join", "cb_join", "put"}
Starting == {"link", "streams"} \cup Undoing
StoppingAt == {"off", "ack", "threads"}
PCs == {"idle", "ch_wait", "zero", "flush_ack"} \cup Starting \cup StoppingAt \cup Ending

CallType == [op : Ops \cup {"none"}, c : Channels \cup {None}, s : Streams \cup {None},
             pc : PCs, ord : Seq(Streams), i : Nat, j : Nat]

\* Where a call can be, by its kind, and the state of its channel meanwhile.
Places(op) == {"ch_wait"} \cup
              CASE op = "start" -> Starting \cup Ending
                [] op = "stop" -> StoppingAt \cup Ending
                [] op = "flush" -> {"flush_ack"}
                [] op = "delete" -> {"zero"}
                [] OTHER -> {}
StateIn(j) == IF j.pc \in {"flush_ack"} \cup StoppingAt \/ (j.pc \in Ending /\ j.op = "stop")
              THEN "ACTIVE" ELSE "STOPPED"

\* What the client has made sure of before it calls.
Subject(j) ==
    CASE j.op = "add" -> j.s \in Streams /\ Owner[j.s] = j.c
      [] j.op = "link" -> j.s \in Streams /\ j.s = scene.links[j.c]
      [] j.op = "del" -> j.s \in Streams /\ Owner[j.s] = j.c
      [] j.op = "unlink" -> j.s \in Streams /\ Owner[j.s] # j.c
      [] j.op \in {"request", "cancel", "flush"} -> IsBundle(j.c)
      [] OTHER -> TRUE

CallInv ==
    \A t \in Threads :
       /\ call[t].op = "none" <=> call[t] = NoCall
       /\ call[t].op # "none" =>
            /\ call[t].c \in Channels /\ call[t].pc \in Places(call[t].op)
            /\ Subject(call[t])
       /\ InChannel(t) => ch[call[t].c].state = StateIn(call[t])

\* One thread has ch_lock, one waits for it with cam_lock; a channel that is deleted is
\* nobody else's.
LockInv ==
    \A t, u \in Threads : t # u =>
       /\ \A c \in Channels : ~(In(t, c) /\ In(u, c))
       /\ ~(call[t].pc = "ch_wait" /\ call[u].pc = "ch_wait")
       /\ call[t].op = "delete" => call[u].c # call[t].c

Empty(c) == Used(ch[c].table) = {}
DeleteInv ==
    /\ \A t \in Threads : call[t].op = "delete" =>
          /\ Empty(call[t].c)
          /\ ch[call[t].c].state = IF call[t].pc = "zero" THEN "NOTUSED" ELSE "STOPPED"
    /\ \A c \in Channels : ch[c].state = "NOTUSED" => Empty(c)

TypeInv == TypeOK /\ call \in [Threads -> CallType] /\ CallInv /\ LockInv /\ DeleteInv

-----------------------------------------------------------------------------
(* Tables *)

\* Another channel links a stream while the stream's own channel runs and nobody starts
\* or stops it.
Steady(s) ==
    /\ ch[Owner[s]].state = "ACTIVE" /\ Has(Owner[s], s)
    /\ \A t \in Threads : call[t].c = Owner[s] => call[t].op \notin {"start", "stop", "delete"}

TableInv ==
    /\ \A c \in Channels : Distinct(ch[c].table)
    /\ \A c \in Channels, s \in Streams : Has(c, s) /\ Owner[s] # c =>
          s = scene.links[c] /\ Steady(s)
    /\ \A t \in Threads : call[t].op = "link" => Steady(call[t].s)

\* The streams a start or stop works on are those of the table, each once.
Undoes(j) == j.pc \in Undoing \/ (j.pc \in Ending /\ j.op = "start")
ListOK(j, table) ==
    /\ \A k, l \in DOMAIN j.ord : j.ord[k] = j.ord[l] => k = l
    /\ \A s \in Streams : Owner[s] = j.c => (s \in Range(table) <=> s \in Range(j.ord))
    /\ j.i \in 1..Len(j.ord) + 1
    /\ j.pc = "link" => j.i = 1
    /\ Undoes(j) => j.i \in DOMAIN j.ord /\ Owner[j.ord[j.i]] = j.c
    /\ j.pc = "undo_streams" => j.j \in 1..j.i + 1

Listing == Starting \cup StoppingAt \cup Ending
ListInv ==
    \A t \in Threads : call[t].pc \in Listing => ListOK(call[t], ch[call[t].c].table)

BaseInv == TypeInv /\ TableInv /\ ListInv

-----------------------------------------------------------------------------
(* The states of the streams, the links and the threads *)

\* The call that has ch_lock, or what is left by the last one.
Job(c) == IF ChFree(c) THEN [NoCall EXCEPT !.pc = ch[c].state]
          ELSE call[CHOOSE t \in Threads : In(t, c)]
At(c) == Job(c).pc

Before(ord, i) == {ord[k] : k \in {l \in DOMAIN ord : l < i}}

\* The states a stream of the channel can be in while the call j is in it.
States(j, s) ==
    CASE j.pc \in {"STOPPED", "link"} -> {"CFG"}
      [] j.pc \in {"ACTIVE", "flush_ack"} -> {"ACTIVE"}
      [] j.pc = "streams" -> IF s \in Before(j.ord, j.i) THEN {"ACTIVE"} ELSE {"CFG"}
      [] j.pc \in Undoing ->
            IF j.pc = "undo_streams" /\ s \in Before(j.ord, j.j) THEN {"CFG"}
            ELSE IF s \in Before(j.ord, j.i) THEN {"ACTIVE"}
            ELSE IF s = j.ord[j.i] THEN {"CFG", "BUFFED", "REG"} ELSE {"CFG"}
      [] j.pc = "off" -> IF s \in Before(j.ord, j.i) THEN {"BUFFED"} ELSE {"ACTIVE"}
      [] j.pc \in {"ack", "threads"} -> {"BUFFED"}
      [] j.pc \in Ending -> IF j.op = "start" THEN {"CFG"} ELSE {"BUFFED"}
      [] OTHER -> {}

StateInv ==
    \A s \in Streams :
       st[s].state \in IF Has(Owner[s], s) THEN States(Job(Owner[s]), s) ELSE {"NOTUSED"}

Linked == {"ACTIVE", "flush_ack", "streams", "undo_links", "off"}
LinkInv ==
    \A s \in Streams, c \in Channels :
       st[s].link = c <=> s \in Links(c) /\ At(c) \in Linked

\* Both threads run from the start's first step to the EXIT, which only the end sends.
NoExit(q) == \A i \in DOMAIN q : q[i].cmd # "EXIT"
Runs(thread) == thread.up /\ ~thread.bye /\ NoExit(thread.q)
Up == {"ACTIVE", "flush_ack"} \cup Starting \cup StoppingAt
ThreadsOK(k, bundle, at) ==
    /\ bundle /\ at \in Up => Runs(k.cmd) /\ Runs(k.cb)
    /\ bundle /\ at = "cmd_join" => Runs(k.cb) /\ (~k.cmd.up => k.cmd.q = <<>>)
    /\ at \in {"cmd_join", "cb_join"} => bundle
    /\ at = "cb_join" => k.cmd = Thread /\ (~k.cb.up => k.cb.q = <<>> /\ k.cur = {})
    /\ ~bundle \/ at \in {"NOTUSED", "STOPPED", "put"} =>
          k.cmd = Thread /\ k.cb = Thread /\ k.que = NoFrames /\ k.cur = {}
    /\ k.found \in k.cur \cup {None}
ThreadInv == \A c \in Channels : ThreadsOK(ch[c], IsBundle(c), At(c))

AgreeInv == StateInv /\ LinkInv /\ ThreadInv

\* Whose frames a bundle can have: those of its own streams, and of one that it links.
Feeds(c) == {s \in Streams : (Owner[s] = c /\ IsBundle(c)) \/ s = scene.links[c]}

-----------------------------------------------------------------------------
(* Typing *)

LEMMA NewChannelTyped == NewChannel \in ChannelType /\ Used(NewChannel.table) = {}
<1>1. Thread.q \in Seq(CmdNodes) /\ Thread.q \in Seq(CbNodes)
  BY DEF Thread
<1> QED BY <1>1 DEF NewChannel, ChannelType, Thread, NoFrames, Used

\* What a command appended to a command queue changes.
Posted(c, node, k) ==
    /\ k.state = ch[c].state /\ k.table = ch[c].table /\ k.cb = ch[c].cb /\ k.ack = ch[c].ack
    /\ k.bundled = ch[c].bundled /\ k.que = ch[c].que /\ k.pending = ch[c].pending
    /\ k.cur = ch[c].cur /\ k.found = ch[c].found
    /\ k.cmd.up = ch[c].cmd.up /\ k.cmd.bye = ch[c].cmd.bye
    /\ k.cmd.q = Append(ch[c].cmd.q, node)

LEMMA PostIs ==
    ASSUME ch \in [Channels -> ChannelType], NEW c \in Channels, NEW node \in CmdNodes
    PROVE  \E k \in ChannelType : Post(c, node) = [ch EXCEPT ![c] = k] /\ Posted(c, node, k)
<1> DEFINE k == [ch[c] EXCEPT !.cmd.q = Append(@, node)]
<1>1. ch[c] \in ChannelType /\ Append(ch[c].cmd.q, node) \in Seq(CmdNodes)
  BY DEF ChannelType
<1>2. k \in ChannelType
  BY <1>1 DEF ChannelType
<1>3. Posted(c, node, k)
  BY <1>1 DEF Posted, ChannelType
<1>4. Post(c, node) = [ch EXCEPT ![c] = k]
  BY DEF Post
<1> QED BY <1>2, <1>3, <1>4

LEMMA TypeFacts ==
    ASSUME TypeOK
    PROVE  /\ \A c \in Channels : ch[c] \in ChannelType
           /\ \A s \in Streams : st[s] \in StreamType
           /\ \A c \in Channels, s \in Streams : hold[c][s] \in Nat
BY DEF TypeOK

\* One channel, and the references of its streams, change.
LEMMA Retyped ==
    ASSUME TypeOK, NEW c \in Channels, NEW k \in ChannelType,
           ch' = [ch EXCEPT ![c] = k], st' \in [Streams -> StreamType], hold' = hold,
           scene' = scene
    PROVE  TypeOK'
BY DEF TypeOK

\* Giving references back changes nothing but their number.
SameLife(streams) ==
    /\ streams \in [Streams -> StreamType]
    /\ \A s \in Streams : streams[s].state = st[s].state /\ streams[s].link = st[s].link

LEMMA DoneLife ==
    ASSUME st \in [Streams -> StreamType], NEW c \in Channels, NEW s \in Streams, NEW n \in Nat
    PROVE  /\ SameLife(Qbuf(c, s, n))
           /\ \A x \in Streams \ {s} : Qbuf(c, s, n)[x] = st[x]
           /\ Qbuf(c, s, n)[s].lost = st[s].lost
           /\ Qbuf(c, s, n)[s].out = IF ~Has(c, s) \/ st[s].state # "ACTIVE" THEN st[s].out
                                     ELSE IF st[s].out < n THEN 0 ELSE st[s].out - n
<1> DEFINE o == IF st[s].state # "ACTIVE" THEN st[s].out
                ELSE IF st[s].out < n THEN 0 ELSE st[s].out - n
           r == [st[s] EXCEPT !.out = o]
<1>1. st[s] \in StreamType /\ o \in Nat
  BY DEF StreamType
<1>2. r \in StreamType /\ r.state = st[s].state /\ r.link = st[s].link /\ r.lost = st[s].lost
      /\ r.out = o
  BY <1>1 DEF StreamType
<1>3. Done(st, s, n) = [st EXCEPT ![s] = r]
  BY DEF Done
<1> HIDE DEF r
<1> QED BY <1>1, <1>2, <1>3 DEF Qbuf, SameLife
-----------------------------------------------------------------------------
(* The command thread *)

LEMMA TailIs ==
    ASSUME NEW S, NEW q \in Seq(S), q # <<>>
    PROVE  /\ 1 \in DOMAIN q /\ Head(q) = q[1] /\ Head(q) \in S /\ Tail(q) \in Seq(S)
           /\ Len(q) \in Nat /\ Len(Tail(q)) = Len(q) - 1
           /\ DOMAIN q = 1..Len(q) /\ DOMAIN Tail(q) = 1..(Len(q) - 1)
           /\ \A i \in DOMAIN Tail(q) : i + 1 \in DOMAIN q /\ i + 1 # 1 /\ i \in Nat /\ Tail(q)[i] = q[i + 1]
OBVIOUS

LEMMA AppendIs ==
    ASSUME NEW S, NEW q \in Seq(S), NEW x \in S
    PROVE  /\ Append(q, x) \in Seq(S) /\ Len(q) \in Nat /\ DOMAIN q = 1..Len(q)
           /\ DOMAIN Append(q, x) = 1..(Len(q) + 1)
           /\ \A i \in 1..Len(q) : Append(q, x)[i] = q[i]
           /\ Append(q, x)[Len(q) + 1] = x
OBVIOUS

LEMMA FlushedLife ==
    ASSUME TypeOK, NEW c \in Channels, NEW s \in Streams \cup {None}
    PROVE  SameLife(Flushed(c, s))
<1> DEFINE E(x) == IF ch[c].que[x] = 0 THEN st[x]
                   ELSE IF s \in {None, x} THEN Qbuf(c, x, ch[c].que[x])[x]
                   ELSE [st[x] EXCEPT !.lost = @ + ch[c].que[x]]
<1>1. ASSUME NEW x \in Streams
      PROVE  E(x) \in StreamType /\ E(x).state = st[x].state /\ E(x).link = st[x].link
  <2>1. ch[c].que[x] \in Nat /\ st[x] \in StreamType
    BY TypeFacts DEF ChannelType
  <2>2. SameLife(Qbuf(c, x, ch[c].que[x]))
    BY <2>1, DoneLife DEF TypeOK
  <2>3. Qbuf(c, x, ch[c].que[x])[x] \in StreamType
        /\ Qbuf(c, x, ch[c].que[x])[x].state = st[x].state
        /\ Qbuf(c, x, ch[c].que[x])[x].link = st[x].link
    BY <2>2 DEF SameLife
  <2> DEFINE r == [st[x] EXCEPT !.lost = @ + ch[c].que[x]]
  <2>4. r \in StreamType /\ r.state = st[x].state /\ r.link = st[x].link
    BY <2>1 DEF StreamType
  <2>5. E(x) \in {st[x], Qbuf(c, x, ch[c].que[x])[x], r}
    OBVIOUS
  <2> QED BY <2>1, <2>3, <2>4, <2>5
<1>2. Flushed(c, s) = [x \in Streams |-> E(x)]
  BY DEF Flushed
<1> HIDE DEF E
<1> QED BY <1>1, <1>2 DEF SameLife

\* What the settling of a command leaves of the queue que of channel c, whose record becomes k.
Sends(c, que, k) ==
    /\ \A x \in ch[c].bundled : que[x] > 0
    /\ k.que = [x \in Streams |-> IF x \in ch[c].bundled THEN que[x] - 1 ELSE que[x]]
    /\ k.cb.q = Append(ch[c].cb.q, [cmd |-> "SUPER_BUF", bufs |-> ch[c].bundled])
    /\ ch[c].bundled # {} /\ st' = st
Drops(c, que, k, s) ==
    /\ s # None /\ que[s] > Keep /\ k.que = [que EXCEPT ![s] = @ - 1]
    /\ k.cb.q = ch[c].cb.q /\ st' = Qbuf(c, s, 1)
Keeps(c, que, k) == k.que = que /\ k.cb.q = ch[c].cb.q /\ st' = st
Settles(c, que, k, s) == Sends(c, que, k) \/ Drops(c, que, k, s) \/ Keeps(c, que, k)

\* The command thread only changes its channel's queues.
Worked(c, k) ==
    /\ k.state = ch[c].state /\ k.table = ch[c].table /\ k.bundled = ch[c].bundled
    /\ k.cur = ch[c].cur /\ k.found = ch[c].found
    /\ k.cb.up = ch[c].cb.up /\ k.cb.bye = ch[c].cb.bye
    /\ k.cmd.up = ch[c].cmd.up
    /\ k.cmd.q = Tail(ch[c].cmd.q)

Arrived(c, s) == [ch[c].que EXCEPT ![s] = @ + 1]

WorkData(c, k) ==
    /\ Head(ch[c].cmd.q).cmd = "DATA_CB" /\ k.ack = ch[c].ack /\ k.cmd.bye = ch[c].cmd.bye
    /\ Head(ch[c].cmd.q).s \in Streams
    /\ Settles(c, Arrived(c, Head(ch[c].cmd.q).s), k, Head(ch[c].cmd.q).s)
WorkRequest(c, k) ==
    /\ Head(ch[c].cmd.q).cmd = "REQ_DATA_CB" /\ k.ack = ch[c].ack /\ k.cmd.bye = ch[c].cmd.bye
    /\ Settles(c, ch[c].que, k, None)
WorkFlush(c, k) ==
    /\ Head(ch[c].cmd.q).cmd = "FLUSH_QUEUE" /\ k.cmd.bye = ch[c].cmd.bye
    /\ Head(ch[c].cmd.q).s \in Streams \cup {None}
    /\ k.ack = ch[c].ack + 1 /\ k.que = NoFrames /\ k.cb.q = ch[c].cb.q
    /\ st' = Flushed(c, Head(ch[c].cmd.q).s)
WorkExit(c, k) ==
    /\ Head(ch[c].cmd.q).cmd = "EXIT" /\ k.ack = ch[c].ack
    /\ k.que = ch[c].que /\ k.cb.q = ch[c].cb.q /\ st' = st

LEMMA SettleIs ==
    ASSUME NEW c \in Channels, NEW k \in ChannelType, NEW s \in Streams \cup {None},
           ch \in [Channels -> ChannelType], st \in [Streams -> StreamType],
           Settle(c, k, s), k.table = ch[c].table, k.bundled = ch[c].bundled, k.cb = ch[c].cb
    PROVE  \E m \in ChannelType :
              /\ ch' = [ch EXCEPT ![c] = m]
              /\ m.state = k.state /\ m.table = k.table /\ m.bundled = k.bundled
              /\ m.cur = k.cur /\ m.found = k.found /\ m.cmd = k.cmd
              /\ m.cb.up = k.cb.up /\ m.cb.bye = k.cb.bye /\ m.ack = k.ack
              /\ Settles(c, k.que, m, s)
<1> DEFINE send == k.pending > 0 /\ Complete(k)
           over == ~send /\ s # None /\ k.que[s] > Keep
           node == [cmd |-> "SUPER_BUF", bufs |-> k.bundled]
           sent == [k EXCEPT !.pending = @ - 1,
                             !.que = [x \in Streams |-> IF x \in k.bundled THEN @[x] - 1
                                                                           ELSE @[x]],
                             !.cb.q = Append(@, node)]
           dropped == [k EXCEPT !.que[s] = @ - 1]
<1> USE ChannelConstantsOK
<1>1. /\ k.pending \in 0..1 /\ k.que \in [Streams -> Nat] /\ k.bundled \in SUBSET Streams
      /\ k.cb.q \in Seq(CbNodes)
  BY DEF ChannelType
<1>2. CASE send
  <2>1. node \in CbNodes /\ Append(k.cb.q, node) \in Seq(CbNodes)
    BY <1>1 DEF CbNodes
  <2>2. k.pending - 1 \in 0..1 /\ \A x \in k.bundled : k.que[x] > 0 /\ k.que[x] - 1 \in Nat
    BY <1>1, <1>2 DEF Complete
  <2>3. [x \in Streams |-> IF x \in k.bundled THEN k.que[x] - 1 ELSE k.que[x]] \in [Streams -> Nat]
    BY <1>1, <2>2
  <2>4. /\ sent \in ChannelType
        /\ sent.state = k.state /\ sent.table = k.table /\ sent.bundled = k.bundled
        /\ sent.cur = k.cur /\ sent.found = k.found /\ sent.cmd = k.cmd
        /\ sent.cb.up = k.cb.up /\ sent.cb.bye = k.cb.bye /\ sent.ack = k.ack
        /\ sent.cb.q = Append(k.cb.q, node)
        /\ sent.que = [x \in Streams |-> IF x \in k.bundled THEN k.que[x] - 1 ELSE k.que[x]]
    BY <2>1, <2>2, <2>3 DEF ChannelType
  <2>5. ch' = [ch EXCEPT ![c] = sent] /\ st' = st
    BY <1>2 DEF Settle
  <2>6. k.bundled # {}
    BY <1>2 DEF Complete
  <2> HIDE DEF sent
  <2>7. Sends(c, k.que, sent)
    BY <2>2, <2>4, <2>5, <2>6 DEF Sends
  <2> QED BY <2>4, <2>5, <2>7 DEF Settles
<1>3. CASE over
  <2>1. s \in Streams /\ k.que[s] - 1 \in Nat
    BY <1>1, <1>3
  <2>2. /\ dropped \in ChannelType
        /\ dropped.state = k.state /\ dropped.table = k.table /\ dropped.bundled = k.bundled
        /\ dropped.cur = k.cur /\ dropped.found = k.found /\ dropped.cmd = k.cmd
        /\ dropped.cb = k.cb /\ dropped.ack = k.ack
        /\ dropped.que = [k.que EXCEPT ![s] = @ - 1]
    BY <1>1, <2>1 DEF ChannelType
  <2>3. ch' = [ch EXCEPT ![c] = dropped] /\ st' = Qbuf(c, s, 1)
    BY <1>3 DEF Settle
  <2> HIDE DEF dropped
  <2>4. Drops(c, k.que, dropped, s)
    BY <1>3, <2>2, <2>3 DEF Drops
  <2> QED BY <2>2, <2>3, <2>4 DEF Settles
<1>4. CASE ~send /\ ~over
  <2>1. ch' = [ch EXCEPT ![c] = k] /\ st' = st
    BY <1>4 DEF Settle
  <2> QED BY <2>1 DEF Settles, Keeps
<1> QED BY <1>2, <1>3, <1>4

LEMMA CmdStepIs ==
    ASSUME TypeOK, NEW c \in Channels, CmdStep(c)
    PROVE  \E k \in ChannelType :
              /\ ch[c].cmd.up /\ ch[c].cmd.q # <<>> /\ ch[c].cmd.q \in Seq(CmdNodes)
              /\ ch' = [ch EXCEPT ![c] = k] /\ SameLife(st')
              /\ UNCHANGED <<scene, call, hold>>
              /\ Worked(c, k)
              /\ WorkData(c, k) \/ WorkRequest(c, k) \/ WorkFlush(c, k) \/ WorkExit(c, k)
<1> DEFINE node == Head(ch[c].cmd.q)
           k == [ch[c] EXCEPT !.cmd.q = Tail(@)]
<1>1. ch[c] \in ChannelType /\ ch[c].cmd.q \in Seq(CmdNodes) /\ ch[c].cmd.up /\ ch[c].cmd.q # <<>>
  BY TypeFacts DEF CmdStep, ChannelType
<1>2. node \in CmdNodes /\ Tail(ch[c].cmd.q) \in Seq(CmdNodes)
  BY <1>1, TailIs
<1>3. /\ k \in ChannelType /\ Worked(c, k) /\ k.cb = ch[c].cb /\ k.que = ch[c].que
      /\ k.ack = ch[c].ack /\ k.cmd.bye = ch[c].cmd.bye /\ k.pending = ch[c].pending
  BY <1>1, <1>2 DEF ChannelType, Worked
<1>4. ch \in [Channels -> ChannelType] /\ st \in [Streams -> StreamType] /\ SameLife(st)
  BY DEF TypeOK, SameLife
<1>5. UNCHANGED <<scene, call, hold>>
  BY DEF CmdStep
<1> HIDE DEF k
<1>6. CASE node.cmd = "DATA_CB"
  <2> DEFINE d == [k EXCEPT !.que = Arrived(c, node.s)]
  <2>1. node.s \in Streams
    BY <1>2, <1>6 DEF CmdNodes
  <2>2. Arrived(c, node.s) \in [Streams -> Nat]
    BY <1>1, <2>1 DEF ChannelType, Arrived
  <2>3. /\ d \in ChannelType /\ Worked(c, d) /\ d.cb = ch[c].cb /\ d.ack = ch[c].ack /\ d.cmd = k.cmd
        /\ d.que = Arrived(c, node.s)
    BY <1>3, <2>1, <2>2 DEF ChannelType, Worked
  <2>10. d = [k EXCEPT !.que[node.s] = @ + 1]
    BY <1>3 DEF Arrived
  <2>4. Settle(c, d, node.s)
    BY <1>6, <2>10 DEF CmdStep, k
  <2> HIDE DEF d
  <2>5. PICK m \in ChannelType :
              /\ ch' = [ch EXCEPT ![c] = m]
              /\ m.state = d.state /\ m.table = d.table /\ m.bundled = d.bundled
              /\ m.cur = d.cur /\ m.found = d.found /\ m.cmd = d.cmd
              /\ m.cb.up = d.cb.up /\ m.cb.bye = d.cb.bye /\ m.ack = d.ack
              /\ Settles(c, d.que, m, node.s)
    BY <1>4, <2>1, <2>3, <2>4, SettleIs DEF Worked
  <2>6. Worked(c, m) /\ WorkData(c, m)
    BY <1>3, <1>6, <2>1, <2>3, <2>5 DEF Worked, WorkData
  <2>7. SameLife(st')
    BY <1>4, <2>1, <2>5, DoneLife DEF Settles, Sends, Drops, Keeps
  <2> QED BY <1>1, <1>5, <2>5, <2>6, <2>7
<1>7. CASE node.cmd = "REQ_DATA_CB"
  <2> DEFINE d == [k EXCEPT !.pending = node.n]
  <2>1. node.n \in 0..1
    BY <1>2, <1>7 DEF CmdNodes
  <2>3. /\ d \in ChannelType /\ Worked(c, d) /\ d.cb = ch[c].cb /\ d.ack = ch[c].ack /\ d.cmd = k.cmd
        /\ d.que = ch[c].que
    BY <1>3, <2>1 DEF ChannelType, Worked
  <2>4. Settle(c, d, None)
    BY <1>7 DEF CmdStep, k
  <2> HIDE DEF d
  <2>5. PICK m \in ChannelType :
              /\ ch' = [ch EXCEPT ![c] = m]
              /\ m.state = d.state /\ m.table = d.table /\ m.bundled = d.bundled
              /\ m.cur = d.cur /\ m.found = d.found /\ m.cmd = d.cmd
              /\ m.cb.up = d.cb.up /\ m.cb.bye = d.cb.bye /\ m.ack = d.ack
              /\ Settles(c, d.que, m, None)
    BY <1>4, <2>1, <2>3, <2>4, SettleIs DEF Worked
  <2>6. Worked(c, m) /\ WorkRequest(c, m)
    BY <1>3, <1>7, <2>1, <2>3, <2>5 DEF Worked, WorkRequest
  <2>7. SameLife(st')
    BY <1>4, <2>5 DEF Settles, Sends, Drops, Keeps
  <2> QED BY <1>1, <1>5, <2>5, <2>6, <2>7
<1>8. CASE node.cmd = "FLUSH_QUEUE"
  <2> DEFINE m == [k EXCEPT !.que = NoFrames, !.ack = @ + 1]
  <2>1. node.s \in Streams \cup {None}
    BY <1>2, <1>8 DEF CmdNodes
  <2>2. NoFrames \in [Streams -> Nat] /\ k.ack + 1 \in Nat
    BY <1>3 DEF NoFrames, ChannelType
  <2>3. m \in ChannelType /\ Worked(c, m) /\ m.ack = ch[c].ack + 1 /\ m.que = NoFrames
        /\ m.cb = ch[c].cb /\ m.cmd = k.cmd
    BY <1>3, <2>2 DEF ChannelType, Worked
  <2>4. ch' = [ch EXCEPT ![c] = m] /\ st' = Flushed(c, node.s)
    BY <1>8 DEF CmdStep, k
  <2>5. WorkFlush(c, m)
    BY <1>3, <1>8, <2>1, <2>3, <2>4 DEF WorkFlush
  <2>6. SameLife(st')
    BY <2>1, <2>4, FlushedLife
  <2> QED BY <1>1, <1>5, <2>3, <2>4, <2>5, <2>6
<1>9. CASE node.cmd = "EXIT"
  <2> DEFINE m == [k EXCEPT !.cmd.bye = TRUE]
  <2>1. m \in ChannelType /\ Worked(c, m) /\ m.ack = ch[c].ack /\ m.que = ch[c].que
        /\ m.cb = ch[c].cb
    BY <1>3 DEF ChannelType, Worked
  <2>2. ch' = [ch EXCEPT ![c] = m] /\ st' = st
    BY <1>9 DEF CmdStep, k
  <2>3. WorkExit(c, m)
    BY <1>9, <2>1, <2>2 DEF WorkExit
  <2> QED BY <1>1, <1>4, <1>5, <2>1, <2>2, <2>3
<1>10. node.cmd \in {"DATA_CB", "REQ_DATA_CB", "FLUSH_QUEUE", "EXIT"}
  BY <1>2 DEF CmdNodes
<1> QED BY <1>6, <1>7, <1>8, <1>9, <1>10

-----------------------------------------------------------------------------
(* What the steps of a call do *)

Typed == TypeOK /\ call \in [Threads -> CallType] /\ CallInv

\* A step of the call of thread t: only its channel, and the streams, change.
Step(t, k, j) ==
    /\ k \in ChannelType /\ j \in CallType /\ call[t].c \in Channels
    /\ ch' = [ch EXCEPT ![call[t].c] = k] /\ call' = [call EXCEPT ![t] = j]
    /\ st' \in [Streams -> StreamType] /\ UNCHANGED <<scene, hold>>

\* The call ends, or goes on at pc.
Ends(j) == j = NoCall
Goes(t, j, pc) == /\ j.op = call[t].op /\ j.c = call[t].c /\ j.s = call[t].s /\ j.pc = pc
Counts(t, j) == j.ord = call[t].ord /\ j.i = call[t].i /\ j.j = call[t].j

SameTable(c, k) == k.state = ch[c].state /\ k.table = ch[c].table
SameThreads(c, k) == k.cmd = ch[c].cmd /\ k.cb = ch[c].cb /\ k.ack = ch[c].ack
                     /\ k.cur = ch[c].cur /\ k.found = ch[c].found
SameQueue(c, k) == k.bundled = ch[c].bundled /\ k.que = ch[c].que /\ k.pending = ch[c].pending

\* Only stream s changes, to a state without references; only its state does.
Restarted(s, state) ==
    /\ \A x \in Streams \ {s} : st'[x] = st[x]
    /\ st'[s].state = state /\ st'[s].link = st[s].link /\ st'[s].out = 0 /\ st'[s].lost = 0
Restated(s, state) ==
    /\ \A x \in Streams \ {s} : st'[x] = st[x]
    /\ st'[s].state = state /\ st'[s].link = st[s].link
    /\ st'[s].out = st[s].out /\ st'[s].lost = st[s].lost
Relinked(c, link) ==
    \A x \in Streams : /\ st'[x].state = st[x].state
                       /\ st'[x].out = st[x].out /\ st'[x].lost = st[x].lost
                       /\ st'[x].link = IF x \in Links(c) THEN link ELSE st[x].link

LEMMA CallTypes ==
    ASSUME Typed, NEW t \in Threads, call[t].op # "none"
    PROVE  /\ call[t] \in CallType /\ call[t].c \in Channels /\ call[t].pc # "idle"
           /\ ch[call[t].c] \in ChannelType /\ NoCall \in CallType
           /\ st \in [Streams -> StreamType] /\ ch \in [Channels -> ChannelType]
<1>1. call[t] \in CallType /\ call[t].c \in Channels /\ call[t].pc \in Places(call[t].op)
  BY DEF Typed, CallInv
<1>2. call[t].pc # "idle"
  BY <1>1 DEF Places, Starting, Undoing, Ending, StoppingAt
<1>3. NoCall \in CallType
  BY DEF NoCall, CallType, PCs
<1> QED BY <1>1, <1>2, <1>3 DEF Typed, TypeOK

LEMMA StepTypes ==
    ASSUME TypeOK, NEW t \in Threads, NEW k, NEW j, Step(t, k, j), call \in [Threads -> CallType]
    PROVE  TypeOK' /\ call' \in [Threads -> CallType]
BY DEF Step, TypeOK

LEMMA IgnoredIs ==
    ASSUME Typed, NEW t \in Threads, call[t].op # "none", Ignored(t)
    PROVE  Step(t, ch[call[t].c], NoCall) /\ st' = st
BY CallTypes DEF Ignored, Return, Step

LEMMA GoTyped ==
    ASSUME NEW t \in Threads, NEW pc \in PCs, call[t] \in CallType
    PROVE  /\ [call[t] EXCEPT !.pc = pc] \in CallType
           /\ Goes(t, [call[t] EXCEPT !.pc = pc], pc) /\ Counts(t, [call[t] EXCEPT !.pc = pc])
BY DEF CallType, Goes, Counts

LEMMA FreeSlotIs ==
    ASSUME NEW c \in Channels, ch[c] \in ChannelType, FreeSlots(c) # {}
    PROVE  FreeSlot(c) \in FreeSlots(c) /\ FreeSlot(c) \in 1..MaxStreams
<1> DEFINE F == FreeSlots(c)
<1>1. F \in SUBSET (1..MaxStreams) /\ MaxStreams \in Nat
  BY ChannelConstantsOK DEF FreeSlots, ChannelType
<1> HIDE DEF F
<1>2. PICK i \in F : TRUE
  BY DEF F
<1>3. F \in SUBSET Nat
  BY <1>1
<1>4. PICK n \in F : \A k \in F : <<k, n>> \notin OpToRel(<, Nat)
  BY <1>2, <1>3, NatLessThanWellFounded, WFMin, Zenon
<1>5. ASSUME NEW k \in F PROVE n <= k
  <2>1. k \in Nat /\ n \in Nat
    BY <1>3
  <2>2. ~(k < n)
    BY <1>4, <2>1 DEF OpToRel
  <2> QED BY <2>1, <2>2
<1>6. FreeSlot(c) \in F
  BY <1>5 DEF FreeSlot, F
<1> QED BY <1>1, <1>6 DEF F

\* The table of the call's channel takes its stream at a free place, or nothing happens.
LEMMA AddOrLinkIs ==
    ASSUME Typed, NEW t \in Threads, call[t].op # "none", AddOrLink(t)
    PROVE  LET c == call[t].c s == call[t].s IN
           /\ call[t].op \in {"add", "link"} /\ ch[c].state = "STOPPED" /\ s \in Streams
           /\ \/ Step(t, ch[c], NoCall) /\ st' = st
              \/ \E k \in ChannelType, i \in 1..MaxStreams :
                    /\ Step(t, k, NoCall)
                    /\ k.state = ch[c].state /\ SameThreads(c, k) /\ SameQueue(c, k)
                    /\ ch[c].table[i] = None /\ k.table = [ch[c].table EXCEPT ![i] = s]
                    /\ ~Has(c, s)
                    /\ IF Owner[s] = c THEN Restated(s, "CFG") ELSE st' = st
<1> DEFINE c == call[t].c
           s == call[t].s
           i == FreeSlot(c)
           k == [ch[c] EXCEPT !.table[i] = s]
<1>1. /\ call[t] \in CallType /\ c \in Channels /\ ch[c] \in ChannelType /\ NoCall \in CallType
      /\ st \in [Streams -> StreamType] /\ ch \in [Channels -> ChannelType]
  BY CallTypes
<1>2. call[t].op \in {"add", "link"} /\ ch[c].state = "STOPPED"
  BY DEF AddOrLink, Handled, Waits, State
<1>3. s \in Streams
  BY <1>1, <1>2 DEF Typed, CallInv, Subject
<1>4. call' = [call EXCEPT ![t] = NoCall] /\ UNCHANGED <<scene, hold>>
  BY DEF AddOrLink, Return
<1>5. CASE FreeSlots(c) = {} \/ Has(c, s)
  <2>1. ch' = ch /\ st' = st
    BY <1>5 DEF AddOrLink
  <2> QED BY <1>1, <1>2, <1>3, <1>4, <2>1 DEF Step
<1>6. CASE ~(FreeSlots(c) = {} \/ Has(c, s))
  <2>1. i \in 1..MaxStreams /\ ch[c].table[i] = None
    BY <1>1, <1>6, FreeSlotIs DEF FreeSlots
  <2>2. k \in ChannelType /\ k.state = ch[c].state /\ SameThreads(c, k) /\ SameQueue(c, k)
        /\ k.table = [ch[c].table EXCEPT ![i] = s]
    BY <1>1, <1>3, <2>1 DEF ChannelType, SameThreads, SameQueue
  <2>3. ch' = [ch EXCEPT ![c] = k]
    BY <1>6 DEF AddOrLink
  <2>4. k.table # ch[c].table
    BY <1>1, <1>3, <2>1, <2>2, ChannelConstantsOK DEF ChannelType
  <2> HIDE DEF k
  <2>5. ch' # ch
    BY <1>1, <2>3, <2>4
  <2>6. st' = IF Owner[s] = c THEN [st EXCEPT ![s].state = "CFG"] ELSE st
    BY <2>5 DEF AddOrLink
  <2>7. st' \in [Streams -> StreamType] /\ IF Owner[s] = c THEN Restated(s, "CFG") ELSE st' = st
    BY <1>1, <1>3, <2>6 DEF StreamType, Restated
  <2>8. Step(t, k, NoCall)
    BY <1>1, <1>4, <2>2, <2>3, <2>7 DEF Step
  <2> QED BY <1>2, <1>3, <1>6, <2>1, <2>2, <2>7, <2>8
<1> QED BY <1>5, <1>6

LEMMA DeleteIs ==
    ASSUME Typed, NEW t \in Threads, call[t].op # "none", Delete(t)
    PROVE  LET c == call[t].c s == call[t].s IN
           /\ call[t].op \in {"del", "unlink"} /\ ch[c].state = "STOPPED" /\ s \in Streams
           /\ \E k \in ChannelType :
                 /\ Step(t, k, NoCall)
                 /\ k.state = ch[c].state /\ SameThreads(c, k) /\ SameQueue(c, k)
                 /\ k.table = Cleared(ch[c].table, s)
                 /\ \/ ~Has(c, s) /\ st' = st
                    \/ Has(c, s) /\ Owner[s] = c /\ Restated(s, "NOTUSED")
                    \/ /\ Has(c, s) /\ Owner[s] # c
                       /\ \A x \in Streams \ {s} : st'[x] = st[x]
                       /\ st'[s].state = st[s].state /\ st'[s].link = None
                       /\ st'[s].out = st[s].out /\ st'[s].lost = st[s].lost
<1> DEFINE c == call[t].c
           s == call[t].s
           k == [ch[c] EXCEPT !.table = Cleared(@, s)]
<1>1. /\ call[t] \in CallType /\ c \in Channels /\ ch[c] \in ChannelType /\ NoCall \in CallType
      /\ st \in [Streams -> StreamType] /\ ch \in [Channels -> ChannelType]
  BY CallTypes
<1>2. call[t].op \in {"del", "unlink"} /\ ch[c].state = "STOPPED"
  BY DEF Delete, Handled, Waits, State
<1>3. s \in Streams
  BY <1>1, <1>2 DEF Typed, CallInv, Subject
<1>4. call' = [call EXCEPT ![t] = NoCall] /\ UNCHANGED <<scene, hold>> /\ ch' = [ch EXCEPT ![c] = k]
  BY DEF Delete, Return
<1>5. Cleared(ch[c].table, s) \in [1..MaxStreams -> Streams \cup {None}]
  BY <1>1 DEF ChannelType, Cleared
<1>6. k \in ChannelType /\ k.state = ch[c].state /\ SameThreads(c, k) /\ SameQueue(c, k)
      /\ k.table = Cleared(ch[c].table, s)
  BY <1>1, <1>5 DEF ChannelType, SameThreads, SameQueue
<1>7. st' = IF ~Has(c, s) THEN st
            ELSE IF Owner[s] = c THEN [st EXCEPT ![s].state = "NOTUSED"]
            ELSE [st EXCEPT ![s].link = None]
  BY DEF Delete
<1> HIDE DEF k
<1>8. /\ st' \in [Streams -> StreamType]
      /\ \/ ~Has(c, s) /\ st' = st
         \/ Has(c, s) /\ Owner[s] = c /\ Restated(s, "NOTUSED")
         \/ /\ Has(c, s) /\ Owner[s] # c
            /\ \A x \in Streams \ {s} : st'[x] = st[x]
            /\ st'[s].state = st[s].state /\ st'[s].link = None
            /\ st'[s].out = st[s].out /\ st'[s].lost = st[s].lost
  BY <1>1, <1>3, <1>7 DEF StreamType, Restated
<1>9. Step(t, k, NoCall)
  BY <1>1, <1>4, <1>6, <1>8 DEF Step
<1> QED BY <1>2, <1>3, <1>6, <1>8, <1>9

LEMMA DeleteChannelIs ==
    ASSUME Typed, NEW t \in Threads, call[t].op # "none", DeleteChannel(t)
    PROVE  LET c == call[t].c IN
           /\ call[t].op = "delete" /\ st' = st
           /\ \E k \in ChannelType, j \in CallType :
                 /\ Step(t, k, j) /\ Goes(t, j, "zero")
                 /\ k.state = "NOTUSED" /\ k.table = ch[c].table
                 /\ SameThreads(c, k) /\ SameQueue(c, k)
<1> DEFINE c == call[t].c
           k == [ch[c] EXCEPT !.state = "NOTUSED"]
           j == [call[t] EXCEPT !.pc = "zero"]
<1>1. /\ call[t] \in CallType /\ c \in Channels /\ ch[c] \in ChannelType
      /\ st \in [Streams -> StreamType]
  BY CallTypes
<1>2. k \in ChannelType /\ k.state = "NOTUSED" /\ k.table = ch[c].table
      /\ SameThreads(c, k) /\ SameQueue(c, k)
  BY <1>1 DEF ChannelType, SameThreads, SameQueue
<1>3. j \in CallType /\ Goes(t, j, "zero")
  BY <1>1, GoTyped DEF PCs
<1>4. Step(t, k, j) /\ call[t].op = "delete" /\ st' = st
  BY <1>1, <1>2, <1>3 DEF DeleteChannel, Handled, Waits, Go, Step
<1> QED BY <1>2, <1>3, <1>4

LEMMA ZeroChannelIs ==
    ASSUME Typed, NEW t \in Threads, call[t].op # "none", ZeroChannel(t)
    PROVE  Step(t, NewChannel, NoCall) /\ st' = st /\ call[t].op = "delete"
<1>1. call[t].op = "delete"
  BY DEF ZeroChannel, Typed, CallInv, Places, Starting, Undoing, StoppingAt, Ending
<1> QED BY <1>1, CallTypes, NewChannelTyped DEF ZeroChannel, Return, Step

LEMMA RequestIs ==
    ASSUME Typed, NEW t \in Threads, call[t].op # "none", Request(t)
    PROVE  LET c == call[t].c IN
           /\ call[t].op \in {"request", "cancel"} /\ ch[c].state = "ACTIVE" /\ st' = st
           /\ \E k \in ChannelType, n \in 0..1 :
                 Step(t, k, NoCall) /\ Posted(c, [cmd |-> "REQ_DATA_CB", n |-> n], k)
<1> DEFINE c == call[t].c
           n == IF call[t].op = "request" THEN 1 ELSE 0
           node == [cmd |-> "REQ_DATA_CB", n |-> n]
<1>1. node \in CmdNodes
  BY DEF CmdNodes
<1>2. PICK k \in ChannelType : Post(c, node) = [ch EXCEPT ![c] = k] /\ Posted(c, node, k)
  BY <1>1, CallTypes, PostIs
<1>3. /\ call[t].op \in {"request", "cancel"} /\ ch[c].state = "ACTIVE" /\ st' = st
      /\ ch' = Post(c, node) /\ call' = [call EXCEPT ![t] = NoCall] /\ UNCHANGED <<scene, hold>>
  BY DEF Request, Handled, Waits, State, Return
<1>4. Step(t, k, NoCall)
  BY <1>2, <1>3, CallTypes DEF Step
<1> QED BY <1>2, <1>3, <1>4

LEMMA FlushIs ==
    ASSUME Typed, NEW t \in Threads, call[t].op # "none", Flush(t)
    PROVE  LET c == call[t].c IN
           /\ call[t].op = "flush" /\ ch[c].state = "ACTIVE" /\ st' = st
           /\ \E k \in ChannelType, j \in CallType :
                 /\ Step(t, k, j) /\ Goes(t, j, "flush_ack")
                 /\ Posted(c, [cmd |-> "FLUSH_QUEUE", s |-> None], k)
<1> DEFINE c == call[t].c
           node == [cmd |-> "FLUSH_QUEUE", s |-> None]
           j == [call[t] EXCEPT !.pc = "flush_ack"]
<1>1. node \in CmdNodes
  BY DEF CmdNodes
<1>2. PICK k \in ChannelType : Post(c, node) = [ch EXCEPT ![c] = k] /\ Posted(c, node, k)
  BY <1>1, CallTypes, PostIs
<1>3. /\ call[t].op = "flush" /\ ch[c].state = "ACTIVE" /\ st' = st
      /\ ch' = Post(c, node) /\ call' = [call EXCEPT ![t].pc = "flush_ack"] /\ UNCHANGED <<scene, hold>>
  BY DEF Flush, Handled, Waits, State, Go
<1>4. j \in CallType /\ Goes(t, j, "flush_ack")
  BY CallTypes, GoTyped DEF PCs
<1>5. Step(t, k, j)
  BY <1>2, <1>3, <1>4, CallTypes DEF Step
<1> QED BY <1>2, <1>3, <1>4, <1>5

\* The acknowledgement of a flush is taken.
Acknowledged(c, k) ==
    /\ SameTable(c, k) /\ SameQueue(c, k) /\ ch[c].ack > 0 /\ k.ack = ch[c].ack - 1
    /\ k.cmd = ch[c].cmd /\ k.cb = ch[c].cb /\ k.cur = ch[c].cur /\ k.found = ch[c].found

LEMMA AckedIs ==
    ASSUME NEW c \in Channels, ch[c] \in ChannelType, ch[c].ack > 0
    PROVE  /\ [ch[c] EXCEPT !.ack = @ - 1] \in ChannelType
           /\ Acknowledged(c, [ch[c] EXCEPT !.ack = @ - 1])
<1>1. ch[c].ack - 1 \in Nat
  BY DEF ChannelType
<1> QED BY <1>1 DEF ChannelType, Acknowledged, SameTable, SameQueue

LEMMA FlushAckedIs ==
    ASSUME Typed, NEW t \in Threads, call[t].op # "none", FlushAcked(t)
    PROVE  /\ call[t].pc = "flush_ack" /\ st' = st
           /\ \E k \in ChannelType : Step(t, k, NoCall) /\ Acknowledged(call[t].c, k)
<1> DEFINE c == call[t].c
           k == [ch[c] EXCEPT !.ack = @ - 1]
<1>1. call[t].pc = "flush_ack" /\ ch[c].ack > 0 /\ ch' = [ch EXCEPT ![c] = k]
  BY DEF FlushAcked
<1>2. k \in ChannelType /\ Acknowledged(c, k)
  BY <1>1, CallTypes, AckedIs
<1>3. Step(t, k, NoCall) /\ st' = st
  BY <1>1, <1>2, CallTypes DEF FlushAcked, Return, Step
<1> QED BY <1>1, <1>2, <1>3

LEMMA WaitAckedIs ==
    ASSUME Typed, NEW t \in Threads, call[t].op # "none", NEW pc, NEW next \in PCs,
           Acked(t, pc, next)
    PROVE  /\ call[t].pc = pc /\ st' = st
           /\ \E k \in ChannelType, j \in CallType :
                 /\ Step(t, k, j) /\ Goes(t, j, next) /\ Counts(t, j)
                 /\ Acknowledged(call[t].c, k)
<1> DEFINE c == call[t].c
           k == [ch[c] EXCEPT !.ack = @ - 1]
           j == [call[t] EXCEPT !.pc = next]
<1>1. call[t].pc = pc /\ ch[c].ack > 0 /\ ch' = [ch EXCEPT ![c] = k]
  BY DEF Acked
<1>2. k \in ChannelType /\ Acknowledged(c, k)
  BY <1>1, CallTypes, AckedIs
<1>3. j \in CallType /\ Goes(t, j, next) /\ Counts(t, j)
  BY CallTypes, GoTyped
<1>4. Step(t, k, j) /\ st' = st
  BY <1>1, <1>2, <1>3, CallTypes DEF Acked, Go, Step
<1> QED BY <1>1, <1>2, <1>3, <1>4

-----------------------------------------------------------------------------
(* The steps of a start *)

LEMMA StartBeginIs ==
    ASSUME Typed, NEW t \in Threads, call[t].op # "none", StartBegin(t),
           Distinct(ch[call[t].c].table)
    PROVE  LET c == call[t].c IN
           /\ call[t].op = "start" /\ ch[c].state = "STOPPED" /\ st' = st
           /\ \E k \in ChannelType, j \in CallType :
                 /\ Step(t, k, j) /\ Goes(t, j, "link") /\ j.i = 1 /\ Lists(c, j.ord)
                 /\ SameTable(c, k) /\ k.cur = ch[c].cur /\ k.found = ch[c].found
                 /\ ~IsBundle(c) => SameThreads(c, k) /\ SameQueue(c, k)
                 /\ IsBundle(c) => /\ k.cb = Launched /\ k.cmd = Launched /\ k.ack = 0
                                   /\ k.que = NoFrames /\ k.bundled = Own(c) \cup Links(c)
<1> DEFINE c == call[t].c
           j == [call[t] EXCEPT !.pc = "link", !.ord = StartOrder(c), !.i = 1]
           k == [ch[c] EXCEPT !.cb = Launched, !.cmd = Launched, !.ack = 0, !.que = NoFrames,
                              !.bundled = Own(c) \cup Links(c)]
<1>1. /\ call[t] \in CallType /\ c \in Channels /\ ch[c] \in ChannelType
      /\ st \in [Streams -> StreamType] /\ ch \in [Channels -> ChannelType]
  BY CallTypes
<1>2. Lists(c, StartOrder(c))
  BY <1>1, OrdersList DEF ChannelType
<1>3. j \in CallType /\ Goes(t, j, "link") /\ j.i = 1 /\ j.ord = StartOrder(c)
  BY <1>1, <1>2 DEF CallType, Goes, PCs, Starting, Lists
<1>4. /\ call[t].op = "start" /\ ch[c].state = "STOPPED" /\ st' = st
      /\ call' = [call EXCEPT ![t] = j] /\ UNCHANGED <<scene, hold>>
      /\ ch' = IF ~IsBundle(c) THEN ch ELSE [ch EXCEPT ![c] = k]
  BY DEF StartBegin, Handled, Waits, State
<1>5. /\ Launched \in [up : BOOLEAN, bye : BOOLEAN, q : Seq(CmdNodes)]
      /\ Launched \in [up : BOOLEAN, bye : BOOLEAN, q : Seq(CbNodes)]
      /\ NoFrames \in [Streams -> Nat] /\ Own(c) \cup Links(c) \in SUBSET Streams
  <2>1. <<>> \in Seq(CmdNodes) /\ <<>> \in Seq(CbNodes)
    OBVIOUS
  <2> QED BY <2>1 DEF Launched, Thread, NoFrames, Own, Links
<1>6. /\ k \in ChannelType /\ SameTable(c, k) /\ k.cur = ch[c].cur /\ k.found = ch[c].found
      /\ k.cb = Launched /\ k.cmd = Launched /\ k.ack = 0
      /\ k.que = NoFrames /\ k.bundled = Own(c) \cup Links(c)
  <2> DEFINE own == Own(c) \cup Links(c)
  <2> HIDE DEF own
  <2> QED BY <1>1, <1>5 DEF ChannelType, SameTable, own
<1> HIDE DEF j, k
<1>7. CASE IsBundle(c)
  <2>1. Step(t, k, j)
    BY <1>1, <1>3, <1>4, <1>6, <1>7 DEF Step
  <2> QED BY <1>2, <1>3, <1>4, <1>6, <1>7, <2>1
<1>8. CASE ~IsBundle(c)
  <2>1. Step(t, ch[c], j)
    BY <1>1, <1>3, <1>4, <1>8 DEF Step
  <2> QED BY <1>1, <1>2, <1>3, <1>4, <1>8, <2>1 DEF SameTable, SameThreads, SameQueue
<1> QED BY <1>7, <1>8

LEMMA RelinkedIs ==
    ASSUME TypeOK, NEW c \in Channels, NEW link \in Channels \cup {None},
           st' = [s \in Streams |-> IF s \in Links(c) THEN [st[s] EXCEPT !.link = link] ELSE st[s]]
    PROVE  st' \in [Streams -> StreamType] /\ Relinked(c, link)
<1>1. ASSUME NEW s \in Streams
      PROVE  LET r == IF s \in Links(c) THEN [st[s] EXCEPT !.link = link] ELSE st[s] IN
             /\ r \in StreamType /\ r.state = st[s].state /\ r.out = st[s].out
             /\ r.lost = st[s].lost /\ r.link = IF s \in Links(c) THEN link ELSE st[s].link
  BY DEF TypeOK, StreamType
<1> QED BY <1>1 DEF Relinked

LEMMA StartLinksIs ==
    ASSUME Typed, NEW t \in Threads, call[t].op # "none", StartLinks(t)
    PROVE  LET c == call[t].c IN
           /\ call[t].pc = "link" /\ Relinked(c, c)
           /\ \E j \in CallType : Step(t, ch[c], j) /\ Goes(t, j, "streams") /\ Counts(t, j)
<1> DEFINE c == call[t].c
           j == [call[t] EXCEPT !.pc = "streams"]
<1>1. j \in CallType /\ Goes(t, j, "streams") /\ Counts(t, j)
  BY CallTypes, GoTyped DEF PCs, Starting
<1>2. st' \in [Streams -> StreamType] /\ Relinked(c, c)
  BY CallTypes, RelinkedIs DEF StartLinks, Typed
<1>3. Step(t, ch[c], j) /\ call[t].pc = "link"
  BY <1>1, <1>2, CallTypes DEF StartLinks, Go, Step
<1> QED BY <1>1, <1>2, <1>3

\* The call goes on with the next stream.
Advances(t, j) == Goes(t, j, call[t].pc) /\ j.ord = call[t].ord /\ j.i = call[t].i + 1

LEMMA StartStreamIs ==
    ASSUME Typed, NEW t \in Threads, call[t].op # "none", StartStream(t), call[t].i \in 1..Len(call[t].ord) + 1
    PROVE  LET c == call[t].c s == Current(t) IN
           /\ call[t].pc = "streams" /\ call[t].i \in DOMAIN call[t].ord /\ s \in Streams
           /\ \E j \in CallType :
                 /\ Step(t, ch[c], j)
                 /\ \/ /\ Advances(t, j)
                       /\ IF Owner[s] = c THEN Restarted(s, "ACTIVE") ELSE st' = st
                    \/ /\ Goes(t, j, "undo_links") /\ Counts(t, j) /\ Owner[s] = c
                       /\ \E where \in {"CFG", "BUFFED", "REG"} : Restated(s, where)
<1> DEFINE c == call[t].c
           s == Current(t)
           u == [call[t] EXCEPT !.pc = "undo_links"]
           a == [call[t] EXCEPT !.i = @ + 1]
<1>1. /\ call[t] \in CallType /\ c \in Channels /\ ch[c] \in ChannelType
      /\ st \in [Streams -> StreamType] /\ ch \in [Channels -> ChannelType]
  BY CallTypes
<1>2. call[t].pc = "streams" /\ call[t].i \in DOMAIN call[t].ord /\ s \in Streams
  <2>1. call[t].pc = "streams" /\ call[t].i <= Len(call[t].ord) /\ call[t].ord \in Seq(Streams)
    BY <1>1 DEF StartStream, CallType
  <2> QED BY <2>1 DEF Current
<1>3. /\ u \in CallType /\ Goes(t, u, "undo_links") /\ Counts(t, u)
      /\ a \in CallType /\ Advances(t, a)
  BY <1>1 DEF CallType, Goes, Counts, Advances, PCs, Starting, Undoing
<1>4. ch' = ch /\ scene' = scene /\ hold' = hold
  BY DEF StartStream
<1>5. CASE /\ st' = IF Owner[s] = c
                    THEN [st EXCEPT ![s].state = "ACTIVE", ![s].out = 0, ![s].lost = 0] ELSE st
           /\ call' = [call EXCEPT ![t] = a]
  <2>1. st' \in [Streams -> StreamType] /\ IF Owner[s] = c THEN Restarted(s, "ACTIVE") ELSE st' = st
    BY <1>1, <1>2, <1>5 DEF StreamType, Restarted
  <2>2. Step(t, ch[c], a)
    BY <1>1, <1>3, <1>4, <1>5, <2>1 DEF Step
  <2> QED BY <1>2, <1>3, <2>1, <2>2
<1>6. CASE \E where \in {"CFG", "BUFFED", "REG"} :
              Owner[s] = c /\ st' = [st EXCEPT ![s].state = where] /\ call' = [call EXCEPT ![t] = u]
  <2>1. PICK where \in {"CFG", "BUFFED", "REG"} :
              Owner[s] = c /\ st' = [st EXCEPT ![s].state = where] /\ call' = [call EXCEPT ![t] = u]
    BY <1>6
  <2>2. st' \in [Streams -> StreamType] /\ Restated(s, where)
    BY <1>1, <1>2, <2>1 DEF StreamType, Restated
  <2>3. Step(t, ch[c], u)
    BY <1>1, <1>3, <1>4, <2>1, <2>2 DEF Step
  <2> QED BY <1>2, <1>3, <2>1, <2>2, <2>3
<1> QED BY <1>5, <1>6 DEF StartStream, Go

LEMMA StartEndsIs ==
    ASSUME Typed, NEW t \in Threads, call[t].op # "none", StartEnds(t)
    PROVE  LET c == call[t].c IN
           /\ call[t].pc = "streams" /\ call[t].i > Len(call[t].ord) /\ st' = st
           /\ \E k \in ChannelType :
                 /\ Step(t, k, NoCall) /\ k.state = "ACTIVE" /\ k.table = ch[c].table
                 /\ SameThreads(c, k) /\ SameQueue(c, k)
<1> DEFINE c == call[t].c
           k == [ch[c] EXCEPT !.state = "ACTIVE"]
<1>1. k \in ChannelType /\ k.state = "ACTIVE" /\ k.table = ch[c].table
      /\ SameThreads(c, k) /\ SameQueue(c, k)
  BY CallTypes DEF ChannelType, SameThreads, SameQueue
<1>2. Step(t, k, NoCall)
  BY <1>1, CallTypes DEF StartEnds, Return, Step
<1> QED BY <1>1, <1>2 DEF StartEnds

\* Links are undone, with a flush if there are any.
LEMMA UnlinkIs ==
    ASSUME Typed, NEW t \in Threads, call[t].op # "none", NEW p \in PCs, NEW q \in PCs,
           NEW s \in Streams \cup {None}, Unlink(t, <<p, q>>, s)
    PROVE  LET c == call[t].c IN
           /\ Relinked(c, None)
           /\ \E k \in ChannelType, j \in CallType :
                 /\ Step(t, k, j) /\ Counts(t, j)
                 /\ \/ /\ Links(c) # {} /\ IsBundle(c) /\ Goes(t, j, p)
                       /\ Posted(c, [cmd |-> "FLUSH_QUEUE", s |-> s], k)
                    \/ (Links(c) = {} \/ ~IsBundle(c)) /\ Goes(t, j, q) /\ k = ch[c]
<1> DEFINE c == call[t].c
           node == [cmd |-> "FLUSH_QUEUE", s |-> s]
           jp == [call[t] EXCEPT !.pc = p]
           jq == [call[t] EXCEPT !.pc = q]
<1>1. st' \in [Streams -> StreamType] /\ Relinked(c, None)
  BY CallTypes, RelinkedIs DEF Unlink, Typed
<1>2. jp \in CallType /\ Goes(t, jp, p) /\ Counts(t, jp) /\ jq \in CallType /\ Goes(t, jq, q) /\ Counts(t, jq)
  BY CallTypes, GoTyped
<1>3. UNCHANGED <<scene, hold>>
  BY DEF Unlink
<1>4. CASE Links(c) # {} /\ IsBundle(c)
  <2>1. node \in CmdNodes
    BY DEF CmdNodes
  <2>2. PICK k \in ChannelType : Post(c, node) = [ch EXCEPT ![c] = k] /\ Posted(c, node, k)
    BY <2>1, CallTypes, PostIs
  <2>3. ch' = Post(c, node) /\ call' = [call EXCEPT ![t] = jp]
    BY <1>4 DEF Unlink, Go
  <2>4. Step(t, k, jp)
    BY <1>1, <1>2, <1>3, <2>2, <2>3, CallTypes DEF Step
  <2> QED BY <1>1, <1>2, <1>4, <2>2, <2>4
<1>5. CASE ~(Links(c) # {} /\ IsBundle(c))
  <2>1. ch' = ch /\ call' = [call EXCEPT ![t] = jq]
    BY <1>5 DEF Unlink, Go
  <2>2. Step(t, ch[c], jq)
    BY <1>1, <1>2, <1>3, <2>1, CallTypes DEF Step
  <2> QED BY <1>1, <1>2, <1>5, <2>2, CallTypes
<1> QED BY <1>4, <1>5

LEMMA UndoLinksIs ==
    ASSUME Typed, NEW t \in Threads, call[t].op # "none", UndoLinks(t),
           call[t].i \in DOMAIN call[t].ord
    PROVE  LET c == call[t].c IN
           /\ call[t].pc = "undo_links" /\ Relinked(c, None) /\ Current(t) \in Streams
           /\ \E k \in ChannelType, j \in CallType :
                 /\ Step(t, k, j) /\ Counts(t, j)
                 /\ \/ /\ Links(c) # {} /\ IsBundle(c) /\ Goes(t, j, "undo_ack")
                       /\ Posted(c, [cmd |-> "FLUSH_QUEUE", s |-> Current(t)], k)
                    \/ (Links(c) = {} \/ ~IsBundle(c)) /\ Goes(t, j, "undo_copies") /\ k = ch[c]
<1>1. Current(t) \in Streams /\ "undo_ack" \in PCs /\ "undo_copies" \in PCs
  BY CallTypes DEF Current, CallType, PCs, Starting, Undoing
<1>2. call[t].pc = "undo_links" /\ Unlink(t, <<"undo_ack", "undo_copies">>, Current(t))
  BY DEF UndoLinks
<1> QED BY <1>1, <1>2, UnlinkIs

WithoutIs(c, table) ==
    /\ DOMAIN table = DOMAIN ch[c].table
    /\ \A i \in DOMAIN ch[c].table : table[i] = IF ch[c].table[i] \in Links(c) THEN None
                                                ELSE ch[c].table[i]

LEMMA WithoutTyped ==
    ASSUME NEW c \in Channels, ch[c] \in ChannelType
    PROVE  WithoutLinks(c) \in [1..MaxStreams -> Streams \cup {None}] /\ WithoutIs(c, WithoutLinks(c))
BY DEF WithoutLinks, ChannelType, WithoutIs

LEMMA UndoCopiesIs ==
    ASSUME Typed, NEW t \in Threads, call[t].op # "none", UndoCopies(t)
    PROVE  LET c == call[t].c IN
           /\ call[t].pc = "undo_copies" /\ st' = st
           /\ \E k \in ChannelType, j \in CallType :
                 /\ Step(t, k, j) /\ Goes(t, j, "undo_streams")
                 /\ j.ord = call[t].ord /\ j.i = call[t].i /\ j.j = 1
                 /\ k.state = ch[c].state /\ WithoutIs(c, k.table)
                 /\ SameThreads(c, k) /\ SameQueue(c, k)
<1> DEFINE c == call[t].c
           k == [ch[c] EXCEPT !.table = WithoutLinks(c)]
           j == [call[t] EXCEPT !.pc = "undo_streams", !.j = 1]
<1>1. /\ k \in ChannelType /\ k.state = ch[c].state /\ WithoutIs(c, k.table)
      /\ SameThreads(c, k) /\ SameQueue(c, k)
  BY CallTypes, WithoutTyped DEF ChannelType, SameThreads, SameQueue
<1>2. /\ j \in CallType /\ Goes(t, j, "undo_streams")
      /\ j.ord = call[t].ord /\ j.i = call[t].i /\ j.j = 1
  BY CallTypes DEF CallType, Goes, PCs, Starting, Undoing
<1>3. Step(t, k, j) /\ call[t].pc = "undo_copies" /\ st' = st
  BY <1>1, <1>2, CallTypes DEF UndoCopies, Step
<1> QED BY <1>1, <1>2, <1>3

LEMMA UndoStreamIs ==
    ASSUME Typed, NEW t \in Threads, call[t].op # "none", UndoStream(t),
           call[t].i \in DOMAIN call[t].ord, call[t].j \in 1..call[t].i + 1
    PROVE  LET c == call[t].c s == call[t].ord[call[t].j] IN
           /\ call[t].pc = "undo_streams" /\ call[t].j \in 1..call[t].i /\ s \in Streams
           /\ IF Owner[s] = c THEN Restarted(s, "CFG") ELSE st' = st
           /\ \E j \in CallType :
                 /\ Step(t, ch[c], j) /\ Goes(t, j, "undo_streams")
                 /\ j.ord = call[t].ord /\ j.i = call[t].i /\ j.j = call[t].j + 1
<1> DEFINE c == call[t].c
           s == call[t].ord[call[t].j]
           j == [call[t] EXCEPT !.j = @ + 1]
<1>1. /\ call[t] \in CallType /\ c \in Channels /\ ch[c] \in ChannelType
      /\ st \in [Streams -> StreamType] /\ ch \in [Channels -> ChannelType]
  BY CallTypes
<1>2. call[t].pc = "undo_streams" /\ call[t].j <= call[t].i
  BY DEF UndoStream
<1>3. call[t].j \in 1..call[t].i /\ s \in Streams
  BY <1>1, <1>2 DEF CallType
<1>8. call[t].j + 1 \in Nat
  BY <1>1 DEF CallType
<1>9. j \in CallType
  BY <1>1, <1>8 DEF CallType
<1>4. /\ j \in CallType /\ Goes(t, j, "undo_streams")
      /\ j.ord = call[t].ord /\ j.i = call[t].i /\ j.j = call[t].j + 1
  BY <1>1, <1>2, <1>9 DEF CallType, Goes
<1>5. /\ st' = IF Owner[s] = c THEN [st EXCEPT ![s].state = "CFG", ![s].out = 0, ![s].lost = 0] ELSE st
      /\ call' = [call EXCEPT ![t] = j] /\ UNCHANGED <<scene, ch, hold>>
  BY DEF UndoStream
<1> HIDE DEF j
<1>6. st' \in [Streams -> StreamType] /\ IF Owner[s] = c THEN Restarted(s, "CFG") ELSE st' = st
  BY <1>1, <1>3, <1>5 DEF StreamType, Restarted
<1>7. Step(t, ch[c], j)
  BY <1>1, <1>4, <1>5, <1>6 DEF Step
<1> QED BY <1>2, <1>3, <1>4, <1>6, <1>7

-----------------------------------------------------------------------------
(* The steps of a stop, and of the end of both *)

LEMMA StopBeginIs ==
    ASSUME Typed, NEW t \in Threads, call[t].op # "none", StopBegin(t),
           Distinct(ch[call[t].c].table)
    PROVE  LET c == call[t].c IN
           /\ call[t].op = "stop" /\ ch[c].state = "ACTIVE" /\ st' = st
           /\ \E j \in CallType :
                 /\ Step(t, ch[c], j) /\ Goes(t, j, "off") /\ j.i = 1 /\ Lists(c, j.ord)
<1> DEFINE c == call[t].c
           j == [call[t] EXCEPT !.pc = "off", !.ord = StopOrder(c), !.i = 1]
<1>1. /\ call[t] \in CallType /\ c \in Channels /\ ch[c] \in ChannelType
      /\ st \in [Streams -> StreamType] /\ ch \in [Channels -> ChannelType]
  BY CallTypes
<1>2. Lists(c, StopOrder(c))
  BY <1>1, OrdersList DEF ChannelType
<1>3. j \in CallType /\ Goes(t, j, "off") /\ j.i = 1 /\ j.ord = StopOrder(c)
  BY <1>1, <1>2 DEF CallType, Goes, PCs, StoppingAt, Lists
<1>4. /\ call[t].op = "stop" /\ ch[c].state = "ACTIVE" /\ st' = st
      /\ call' = [call EXCEPT ![t] = j] /\ UNCHANGED <<scene, ch, hold>>
  BY DEF StopBegin, Handled, Waits, State
<1> HIDE DEF j
<1>5. Step(t, ch[c], j)
  BY <1>1, <1>3, <1>4 DEF Step
<1> QED BY <1>2, <1>3, <1>4, <1>5

LEMMA StopStreamIs ==
    ASSUME Typed, NEW t \in Threads, call[t].op # "none", StopStream(t), call[t].i \in 1..Len(call[t].ord) + 1
    PROVE  LET c == call[t].c s == Current(t) IN
           /\ call[t].pc = "off" /\ call[t].i \in DOMAIN call[t].ord /\ s \in Streams
           /\ IF Owner[s] = c THEN Restarted(s, "BUFFED") ELSE st' = st
           /\ \E j \in CallType : Step(t, ch[c], j) /\ Advances(t, j)
<1> DEFINE c == call[t].c
           s == Current(t)
           j == [call[t] EXCEPT !.i = @ + 1]
<1>1. /\ call[t] \in CallType /\ c \in Channels /\ ch[c] \in ChannelType
      /\ st \in [Streams -> StreamType] /\ ch \in [Channels -> ChannelType]
  BY CallTypes
<1>2. call[t].pc = "off" /\ call[t].i \in DOMAIN call[t].ord /\ s \in Streams
  <2>1. call[t].pc = "off" /\ call[t].i <= Len(call[t].ord) /\ call[t].ord \in Seq(Streams)
    BY <1>1 DEF StopStream, CallType
  <2> QED BY <2>1 DEF Current
<1>3. j \in CallType /\ Advances(t, j)
  BY <1>1 DEF CallType, Goes, Advances
<1>4. /\ st' = IF Owner[s] = c
               THEN [st EXCEPT ![s].state = "BUFFED", ![s].out = 0, ![s].lost = 0] ELSE st
      /\ call' = [call EXCEPT ![t] = j] /\ UNCHANGED <<scene, ch, hold>>
  BY DEF StopStream
<1> HIDE DEF j
<1>5. st' \in [Streams -> StreamType] /\ IF Owner[s] = c THEN Restarted(s, "BUFFED") ELSE st' = st
  BY <1>1, <1>2, <1>4 DEF StreamType, Restarted
<1>6. Step(t, ch[c], j)
  BY <1>1, <1>3, <1>4, <1>5 DEF Step
<1> QED BY <1>2, <1>3, <1>5, <1>6

LEMMA StopLinksIs ==
    ASSUME Typed, NEW t \in Threads, call[t].op # "none", StopLinks(t)
    PROVE  LET c == call[t].c IN
           /\ call[t].pc = "off" /\ call[t].i > Len(call[t].ord) /\ Relinked(c, None)
           /\ \E k \in ChannelType, j \in CallType, s \in Streams \cup {None} :
                 /\ Step(t, k, j) /\ Counts(t, j)
                 /\ \/ /\ Links(c) # {} /\ IsBundle(c) /\ Goes(t, j, "ack") /\ s \in Links(c)
                       /\ Posted(c, [cmd |-> "FLUSH_QUEUE", s |-> s], k)
                    \/ (Links(c) = {} \/ ~IsBundle(c)) /\ Goes(t, j, "threads") /\ k = ch[c]
<1> DEFINE c == call[t].c
           s == IF Links(c) = {} THEN None ELSE CHOOSE x \in Links(c) : TRUE
<1>1. s \in Streams \cup {None} /\ (Links(c) # {} => s \in Links(c))
  BY DEF Links
<1>2. "ack" \in PCs /\ "threads" \in PCs
  BY DEF PCs, StoppingAt
<1>3. call[t].pc = "off" /\ call[t].i > Len(call[t].ord) /\ Unlink(t, <<"ack", "threads">>, s)
  BY DEF StopLinks
<1> HIDE DEF s
<1> QED BY <1>1, <1>2, <1>3, UnlinkIs

LEMMA ReleaseThreadsIs ==
    ASSUME Typed, NEW t \in Threads, call[t].op # "none", ReleaseThreads(t)
    PROVE  LET c == call[t].c IN
           /\ \/ call[t].pc = "threads"
              \/ call[t].pc = "undo_streams" /\ call[t].j > call[t].i
           /\ st' = st
           /\ \E k \in ChannelType, j \in CallType :
                 /\ Step(t, k, j) /\ Counts(t, j)
                 /\ \/ IsBundle(c) /\ Goes(t, j, "cmd_join") /\ Posted(c, [cmd |-> "EXIT"], k)
                    \/ ~IsBundle(c) /\ Goes(t, j, "put") /\ k = ch[c]
<1> DEFINE c == call[t].c
           node == [cmd |-> "EXIT"]
           jc == [call[t] EXCEPT !.pc = "cmd_join"]
           jp == [call[t] EXCEPT !.pc = "put"]
<1>1. /\ jc \in CallType /\ Goes(t, jc, "cmd_join") /\ Counts(t, jc)
      /\ jp \in CallType /\ Goes(t, jp, "put") /\ Counts(t, jp)
  BY CallTypes, GoTyped DEF PCs, Ending
<1>2. /\ \/ call[t].pc = "threads"
         \/ call[t].pc = "undo_streams" /\ call[t].j > call[t].i
      /\ UNCHANGED <<scene, st, hold>>
  BY DEF ReleaseThreads
<1>3. CASE IsBundle(c)
  <2>1. node \in CmdNodes
    BY DEF CmdNodes
  <2>2. PICK k \in ChannelType : Post(c, node) = [ch EXCEPT ![c] = k] /\ Posted(c, node, k)
    BY <2>1, CallTypes, PostIs
  <2>3. ch' = Post(c, node) /\ call' = [call EXCEPT ![t] = jc]
    BY <1>3 DEF ReleaseThreads, Go
  <2>4. Step(t, k, jc)
    BY <1>1, <1>2, <2>2, <2>3, CallTypes DEF Step
  <2> QED BY <1>1, <1>2, <1>3, <2>2, <2>4
<1>4. CASE ~IsBundle(c)
  <2>1. ch' = ch /\ call' = [call EXCEPT ![t] = jp]
    BY <1>4 DEF ReleaseThreads, Go
  <2>2. Step(t, ch[c], jp)
    BY <1>1, <1>2, <2>1, CallTypes DEF Step
  <2> QED BY <1>1, <1>2, <1>4, <2>2, CallTypes
<1> QED BY <1>3, <1>4

LEMMA CmdJoinedIs ==
    ASSUME Typed, NEW t \in Threads, call[t].op # "none", CmdJoined(t)
    PROVE  LET c == call[t].c IN
           /\ call[t].pc = "cmd_join" /\ ~ch[c].cmd.up /\ st' = st
           /\ \E k \in ChannelType, j \in CallType :
                 /\ Step(t, k, j) /\ Goes(t, j, "cb_join") /\ Counts(t, j)
                 /\ SameTable(c, k) /\ SameQueue(c, k)
                 /\ k.cmd = Thread /\ k.ack = ch[c].ack
                 /\ k.cb.up = ch[c].cb.up /\ k.cb.bye = ch[c].cb.bye
                 /\ k.cb.q = Append(ch[c].cb.q, [cmd |-> "EXIT"])
                 /\ k.cur = ch[c].cur /\ k.found = ch[c].found
<1> DEFINE c == call[t].c
           node == [cmd |-> "EXIT"]
           k == [ch[c] EXCEPT !.cmd = Thread, !.cb.q = Append(@, node)]
           j == [call[t] EXCEPT !.pc = "cb_join"]
<1>1. /\ call[t] \in CallType /\ c \in Channels /\ ch[c] \in ChannelType
      /\ st \in [Streams -> StreamType] /\ ch \in [Channels -> ChannelType]
  BY CallTypes
<1>2. j \in CallType /\ Goes(t, j, "cb_join") /\ Counts(t, j)
  BY CallTypes, GoTyped DEF PCs, Ending
<1>3. Thread \in [up : BOOLEAN, bye : BOOLEAN, q : Seq(CmdNodes)]
  <2>1. <<>> \in Seq(CmdNodes)
    OBVIOUS
  <2> QED BY <2>1 DEF Thread
<1>4. node \in CbNodes /\ Append(ch[c].cb.q, node) \in Seq(CbNodes)
  <2>1. node \in CbNodes /\ ch[c].cb.q \in Seq(CbNodes)
    BY <1>1 DEF CbNodes, ChannelType
  <2> QED BY <2>1
<1>5. /\ k \in ChannelType /\ SameTable(c, k) /\ SameQueue(c, k)
      /\ k.cmd = Thread /\ k.ack = ch[c].ack
      /\ k.cb.up = ch[c].cb.up /\ k.cb.bye = ch[c].cb.bye /\ k.cb.q = Append(ch[c].cb.q, node)
      /\ k.cur = ch[c].cur /\ k.found = ch[c].found
  <2> DEFINE th == Thread
             q == Append(ch[c].cb.q, node)
  <2>1. k = [ch[c] EXCEPT !.cmd = th, !.cb.q = q]
    OBVIOUS
  <2> HIDE DEF th, q
  <2>2. /\ [ch[c] EXCEPT !.cmd = th, !.cb.q = q] \in ChannelType /\ SameTable(c, [ch[c] EXCEPT !.cmd = th, !.cb.q = q])
        /\ SameQueue(c, [ch[c] EXCEPT !.cmd = th, !.cb.q = q])
    BY <1>1, <1>3, <1>4 DEF ChannelType, SameTable, SameQueue, th, q
  <2> QED BY <1>1, <2>1, <2>2 DEF ChannelType, th, q
<1>6. /\ call[t].pc = "cmd_join" /\ ~ch[c].cmd.up /\ st' = st /\ ch' = [ch EXCEPT ![c] = k]
      /\ call' = [call EXCEPT ![t] = j] /\ UNCHANGED <<scene, hold>>
  BY DEF CmdJoined, Go
<1> HIDE DEF k, j
<1>7. Step(t, k, j)
  BY <1>1, <1>2, <1>5, <1>6 DEF Step
<1> QED BY <1>2, <1>5, <1>6, <1>7

LEMMA CbJoinedIs ==
    ASSUME Typed, NEW t \in Threads, call[t].op # "none", CbJoined(t)
    PROVE  LET c == call[t].c IN
           /\ call[t].pc = "cb_join" /\ ~ch[c].cb.up /\ st' = st
           /\ \E k \in ChannelType, j \in CallType :
                 /\ Step(t, k, j) /\ Goes(t, j, "put") /\ Counts(t, j)
                 /\ SameTable(c, k) /\ k.cmd = ch[c].cmd /\ k.cb = Thread /\ k.ack = ch[c].ack
                 /\ k.bundled = ch[c].bundled /\ k.que = NoFrames
                 /\ k.cur = ch[c].cur /\ k.found = ch[c].found
<1> DEFINE c == call[t].c
           k == [ch[c] EXCEPT !.cb = Thread, !.que = NoFrames]
           j == [call[t] EXCEPT !.pc = "put"]
<1>1. /\ call[t] \in CallType /\ c \in Channels /\ ch[c] \in ChannelType
      /\ st \in [Streams -> StreamType] /\ ch \in [Channels -> ChannelType]
  BY CallTypes
<1>2. j \in CallType /\ Goes(t, j, "put") /\ Counts(t, j)
  BY CallTypes, GoTyped DEF PCs, Ending
<1>3. Thread \in [up : BOOLEAN, bye : BOOLEAN, q : Seq(CbNodes)] /\ NoFrames \in [Streams -> Nat]
  <2>1. <<>> \in Seq(CbNodes)
    OBVIOUS
  <2> QED BY <2>1 DEF Thread, NoFrames
<1>5. /\ k \in ChannelType
      /\ SameTable(c, k) /\ k.cmd = ch[c].cmd /\ k.cb = Thread /\ k.ack = ch[c].ack
      /\ k.bundled = ch[c].bundled /\ k.que = NoFrames
      /\ k.cur = ch[c].cur /\ k.found = ch[c].found
  BY <1>1, <1>3 DEF ChannelType, SameTable
<1>6. /\ call[t].pc = "cb_join" /\ ~ch[c].cb.up /\ st' = st /\ ch' = [ch EXCEPT ![c] = k]
      /\ call' = [call EXCEPT ![t] = j] /\ UNCHANGED <<scene, hold>>
  BY DEF CbJoined, Go
<1> HIDE DEF k, j
<1>7. Step(t, k, j)
  BY <1>1, <1>2, <1>5, <1>6 DEF Step
<1> QED BY <1>2, <1>5, <1>6, <1>7

LEMMA PutBufsIs ==
    ASSUME Typed, NEW t \in Threads, call[t].op # "none", PutBufs(t)
    PROVE  LET c == call[t].c IN
           /\ call[t].pc = "put"
           /\ \A s \in Streams :
                 /\ st'[s].state = IF s \in Own(c) /\ st[s].state = "BUFFED" THEN "CFG" ELSE st[s].state
                 /\ st'[s].link = st[s].link /\ st'[s].out = st[s].out /\ st'[s].lost = st[s].lost
           /\ \E k \in ChannelType :
                 /\ Step(t, k, NoCall) /\ k.state = "STOPPED" /\ WithoutIs(c, k.table)
                 /\ SameThreads(c, k) /\ SameQueue(c, k)
<1> DEFINE c == call[t].c
           k == [ch[c] EXCEPT !.state = "STOPPED", !.table = WithoutLinks(c)]
           R(s) == IF s \in Own(c) /\ st[s].state = "BUFFED" THEN [st[s] EXCEPT !.state = "CFG"] ELSE st[s]
<1>1. /\ call[t] \in CallType /\ c \in Channels /\ ch[c] \in ChannelType /\ NoCall \in CallType
      /\ st \in [Streams -> StreamType] /\ ch \in [Channels -> ChannelType]
  BY CallTypes
<1>2. /\ k \in ChannelType /\ k.state = "STOPPED" /\ WithoutIs(c, k.table)
      /\ SameThreads(c, k) /\ SameQueue(c, k)
  BY <1>1, WithoutTyped DEF ChannelType, SameThreads, SameQueue
<1>3. \A s \in Streams :
         /\ R(s) \in StreamType
         /\ R(s).state = IF s \in Own(c) /\ st[s].state = "BUFFED" THEN "CFG" ELSE st[s].state
         /\ R(s).link = st[s].link /\ R(s).out = st[s].out /\ R(s).lost = st[s].lost
  BY <1>1 DEF StreamType
<1>4. /\ call[t].pc = "put" /\ st' = [s \in Streams |-> R(s)] /\ ch' = [ch EXCEPT ![c] = k]
      /\ call' = [call EXCEPT ![t] = NoCall] /\ UNCHANGED <<scene, hold>>
  BY DEF PutBufs, Return
<1> HIDE DEF k, R
<1>5. Step(t, k, NoCall)
  BY <1>1, <1>2, <1>3, <1>4 DEF Step
<1>6. \A s \in Streams : st'[s] = R(s)
  BY <1>4
<1> QED BY <1>2, <1>3, <1>4, <1>5, <1>6

-----------------------------------------------------------------------------
(* The steps of the threads and of the client *)

\* A step that is no call's: one channel's record becomes k, streams keep state and links.
Work(c, k) ==
    /\ k \in ChannelType /\ ch' = [ch EXCEPT ![c] = k] /\ SameLife(st')
    /\ hold' \in [Channels -> [Streams -> Nat]] /\ UNCHANGED <<scene, call>>

SameUse(c, k) == k.cmd = ch[c].cmd /\ k.ack = ch[c].ack /\ SameQueue(c, k)

LEMMA SameLifeNow == ASSUME TypeOK PROVE SameLife(st)
BY DEF TypeOK, SameLife

LEMMA FrameIs ==
    ASSUME TypeOK, NEW s \in Streams, Frame(s)
    PROVE  LET c == Target(s) IN
           /\ c \in Channels /\ st[s].state = "ACTIVE" /\ hold' = hold
           /\ \A x \in Streams \ {s} : st'[x] = st[x]
           /\ st'[s].out = st[s].out + 1 /\ st'[s].lost = st[s].lost
           /\ \E k \in ChannelType : Work(c, k) /\ Posted(c, [cmd |-> "DATA_CB", s |-> s], k)
<1> DEFINE c == Target(s)
           node == [cmd |-> "DATA_CB", s |-> s]
           r == [st[s] EXCEPT !.out = @ + 1]
<1>1. st[s] \in StreamType
  BY TypeFacts
<1>2. c \in Channels
  BY <1>1, ChannelConstantsOK DEF Frame, Target, StreamType
<1>3. node \in CmdNodes
  BY DEF CmdNodes
<1>4. PICK k \in ChannelType : Post(c, node) = [ch EXCEPT ![c] = k] /\ Posted(c, node, k)
  BY <1>2, <1>3, PostIs DEF TypeOK
<1>5. /\ st[s].state = "ACTIVE" /\ st' = [st EXCEPT ![s] = r] /\ ch' = Post(c, node)
      /\ UNCHANGED <<scene, call, hold>>
  BY DEF Frame
<1>6. r \in StreamType /\ r.state = st[s].state /\ r.link = st[s].link /\ r.out = st[s].out + 1
      /\ r.lost = st[s].lost
  BY <1>1 DEF StreamType
<1> HIDE DEF r
<1>7. /\ SameLife(st') /\ \A x \in Streams \ {s} : st'[x] = st[x]
      /\ st'[s].out = st[s].out + 1 /\ st'[s].lost = st[s].lost
  BY <1>5, <1>6 DEF SameLife, TypeOK
<1>8. Work(c, k)
  BY <1>4, <1>5, <1>7 DEF Work, TypeOK
<1> QED BY <1>2, <1>4, <1>5, <1>7, <1>8

LEMMA AddChannelIs ==
    ASSUME TypeOK, NEW c \in Channels, AddChannel(c)
    PROVE  /\ ch[c].state = "NOTUSED" /\ st' = st /\ hold' = hold /\ (scene.reuses \/ Calls(c) = {})
           /\ \E k \in ChannelType : /\ Work(c, k) /\ k.state = "STOPPED" /\ k.table = ch[c].table
                                     /\ SameThreads(c, k) /\ SameQueue(c, k)
<1> DEFINE k == [ch[c] EXCEPT !.state = "STOPPED"]
<1>1. /\ k \in ChannelType /\ k.state = "STOPPED" /\ k.table = ch[c].table
      /\ SameThreads(c, k) /\ SameQueue(c, k)
  BY DEF TypeOK, ChannelType, SameThreads, SameQueue
<1>2. Work(c, k)
  BY <1>1, SameLifeNow DEF AddChannel, Work, TypeOK
<1> QED BY <1>1, <1>2 DEF AddChannel

LEMMA CmdEndsIs ==
    ASSUME TypeOK, NEW c \in Channels, CmdEnds(c)
    PROVE  /\ ch[c].cmd.up /\ ch[c].cmd.bye /\ ch[c].cmd.q = <<>> /\ st' = st /\ hold' = hold
           /\ \E k \in ChannelType :
                 /\ Work(c, k) /\ SameTable(c, k) /\ SameQueue(c, k) /\ ~k.cmd.up
                 /\ k.cmd.q = ch[c].cmd.q /\ k.cb = ch[c].cb /\ k.ack = ch[c].ack
                 /\ k.cur = ch[c].cur /\ k.found = ch[c].found
<1> DEFINE th == [ch[c].cmd EXCEPT !.up = FALSE]
           k == [ch[c] EXCEPT !.cmd = th]
<1>3. ch[c] \in ChannelType
  BY TypeFacts
<1>4. th \in [up : BOOLEAN, bye : BOOLEAN, q : Seq(CmdNodes)] /\ ~th.up /\ th.q = ch[c].cmd.q
  BY <1>3 DEF ChannelType
<1> HIDE DEF th
<1>1. /\ k \in ChannelType /\ SameTable(c, k) /\ SameQueue(c, k) /\ ~k.cmd.up
      /\ k.cmd.q = ch[c].cmd.q /\ k.cb = ch[c].cb /\ k.ack = ch[c].ack
      /\ k.cur = ch[c].cur /\ k.found = ch[c].found
  BY <1>3, <1>4 DEF ChannelType, SameTable, SameQueue
<1>2. Work(c, k)
  BY <1>1, SameLifeNow DEF CmdEnds, Work, TypeOK, th
<1> QED BY <1>1, <1>2 DEF CmdEnds

LEMMA CbStepIs ==
    ASSUME TypeOK, NEW c \in Channels, CbStep(c)
    PROVE  /\ ch[c].cb.up /\ ch[c].cb.q \in Seq(CbNodes) /\ ch[c].cb.q # <<>> /\ ch[c].cur = {}
           /\ st' = st /\ hold' = hold
           /\ \E k \in ChannelType :
                 /\ Work(c, k) /\ SameTable(c, k) /\ SameUse(c, k) /\ k.found = ch[c].found
                 /\ k.cb.up = ch[c].cb.up /\ k.cb.q = Tail(ch[c].cb.q)
                 /\ \/ Head(ch[c].cb.q).cmd = "EXIT" /\ k.cur = {}
                    \/ /\ Head(ch[c].cb.q).cmd = "SUPER_BUF" /\ k.cb.bye = ch[c].cb.bye
                       /\ k.cur = Head(ch[c].cb.q).bufs
<1> DEFINE node == Head(ch[c].cb.q)
           k == [ch[c] EXCEPT !.cb.q = Tail(@)]
           e == [k EXCEPT !.cb.bye = TRUE]
           b == [k EXCEPT !.cur = node.bufs]
<1>1. /\ ch[c] \in ChannelType /\ ch[c].cb.q \in Seq(CbNodes) /\ ch[c].cb.up /\ ch[c].cb.q # <<>>
      /\ ch[c].cur = {}
  BY TypeFacts DEF CbStep, ChannelType
<1>2. node \in CbNodes /\ Tail(ch[c].cb.q) \in Seq(CbNodes)
  BY <1>1, TailIs
<1>3. /\ k \in ChannelType /\ SameTable(c, k) /\ SameUse(c, k) /\ k.found = ch[c].found
      /\ k.cb.up = ch[c].cb.up /\ k.cb.q = Tail(ch[c].cb.q) /\ k.cur = {} /\ k.cb.bye = ch[c].cb.bye
  BY <1>1, <1>2 DEF ChannelType, SameTable, SameUse, SameQueue
<1>4. ch' = [ch EXCEPT ![c] = IF node.cmd = "EXIT" THEN e ELSE b] /\ UNCHANGED <<scene, st, call, hold>>
  BY DEF CbStep
<1> HIDE DEF k
<1>5. CASE node.cmd = "EXIT"
  <2>1. /\ e \in ChannelType /\ SameTable(c, e) /\ SameUse(c, e) /\ e.found = ch[c].found
        /\ e.cb.up = ch[c].cb.up /\ e.cb.q = Tail(ch[c].cb.q) /\ e.cur = {}
    BY <1>3 DEF ChannelType, SameTable, SameUse, SameQueue
  <2>2. Work(c, e)
    BY <1>4, <1>5, <2>1, SameLifeNow DEF Work, TypeOK
  <2> QED BY <1>1, <1>4, <1>5, <2>1, <2>2
<1>6. CASE node.cmd # "EXIT"
  <2>0. node.cmd = "SUPER_BUF" /\ node.bufs \in SUBSET Streams
    BY <1>2, <1>6 DEF CbNodes
  <2>1. /\ b \in ChannelType /\ SameTable(c, b) /\ SameUse(c, b) /\ b.found = ch[c].found
        /\ b.cb.up = ch[c].cb.up /\ b.cb.q = Tail(ch[c].cb.q) /\ b.cur = node.bufs
        /\ b.cb.bye = ch[c].cb.bye
    BY <1>3, <2>0 DEF ChannelType, SameTable, SameUse, SameQueue
  <2>2. Work(c, b)
    BY <1>4, <1>6, <2>1, SameLifeNow DEF Work, TypeOK
  <2> QED BY <1>1, <1>4, <2>0, <2>1, <2>2
<1> QED BY <1>5, <1>6

LEMMA CbEndsIs ==
    ASSUME TypeOK, NEW c \in Channels, CbEnds(c)
    PROVE  /\ ch[c].cb.up /\ ch[c].cb.bye /\ ch[c].cb.q = <<>> /\ ch[c].cur = {} /\ st' = st /\ hold' = hold
           /\ \E k \in ChannelType :
                 /\ Work(c, k) /\ SameTable(c, k) /\ SameUse(c, k) /\ ~k.cb.up
                 /\ k.cb.q = ch[c].cb.q /\ k.cur = ch[c].cur /\ k.found = ch[c].found
<1> DEFINE th == [ch[c].cb EXCEPT !.up = FALSE]
           k == [ch[c] EXCEPT !.cb = th]
<1>3. ch[c] \in ChannelType
  BY TypeFacts
<1>4. th \in [up : BOOLEAN, bye : BOOLEAN, q : Seq(CbNodes)] /\ ~th.up /\ th.q = ch[c].cb.q
  BY <1>3 DEF ChannelType
<1> HIDE DEF th
<1>1. /\ k \in ChannelType /\ SameTable(c, k) /\ SameUse(c, k) /\ ~k.cb.up
      /\ k.cb.q = ch[c].cb.q /\ k.cur = ch[c].cur /\ k.found = ch[c].found
  BY <1>3, <1>4 DEF ChannelType, SameTable, SameQueue, SameUse
<1>2. Work(c, k)
  BY <1>1, SameLifeNow DEF CbEnds, Work, TypeOK, th
<1> QED BY <1>1, <1>2 DEF CbEnds

LEMMA ClientKeepsIs ==
    ASSUME TypeOK, NEW c \in Channels, ClientKeeps(c)
    PROVE  /\ ch[c].cur # {} /\ ch[c].found = None /\ ~Stopping(c) /\ st' = st
           /\ \A d \in Channels \ {c} : hold'[d] = hold[d]
           /\ \A s \in Streams : hold'[c][s] = IF s \in ch[c].cur THEN hold[c][s] + 1 ELSE hold[c][s]
           /\ \E k \in ChannelType :
                 /\ Work(c, k) /\ SameTable(c, k) /\ SameUse(c, k) /\ k.cb = ch[c].cb
                 /\ k.cur = {} /\ k.found = ch[c].found
<1> DEFINE k == [ch[c] EXCEPT !.cur = {}]
           h == [s \in Streams |-> IF s \in ch[c].cur THEN hold[c][s] + 1 ELSE hold[c][s]]
<1>1. /\ k \in ChannelType /\ SameTable(c, k) /\ SameUse(c, k) /\ k.cb = ch[c].cb
      /\ k.cur = {} /\ k.found = ch[c].found
  BY DEF TypeOK, ChannelType, SameTable, SameQueue, SameUse
<1>2. h \in [Streams -> Nat]
  BY TypeFacts
<1>3. hold' = [hold EXCEPT ![c] = h] /\ ch' = [ch EXCEPT ![c] = k] /\ UNCHANGED <<scene, st, call>>
  BY DEF ClientKeeps
<1>4. \A s \in Streams : h[s] = IF s \in ch[c].cur THEN hold[c][s] + 1 ELSE hold[c][s]
  OBVIOUS
<1> HIDE DEF h, k
<1>5. hold' \in [Channels -> [Streams -> Nat]] /\ hold'[c] = h /\ \A d \in Channels \ {c} : hold'[d] = hold[d]
  BY <1>2, <1>3 DEF TypeOK
<1>6. Work(c, k)
  BY <1>1, <1>3, <1>5, SameLifeNow DEF Work
<1> QED BY <1>1, <1>3, <1>4, <1>5, <1>6 DEF ClientKeeps

LEMMA LookUpIs ==
    ASSUME TypeOK, NEW c \in Channels, NEW s \in Streams, LookUp(c, s)
    PROVE  /\ s \in ch[c].cur /\ ch[c].found = None /\ st' = st /\ hold' = hold
           /\ \E k \in ChannelType :
                 /\ Work(c, k) /\ SameTable(c, k) /\ SameUse(c, k) /\ k.cb = ch[c].cb
                 /\ k.cur = ch[c].cur /\ k.found = s
<1> DEFINE k == [ch[c] EXCEPT !.found = s]
<1>1. /\ k \in ChannelType /\ SameTable(c, k) /\ SameUse(c, k) /\ k.cb = ch[c].cb
      /\ k.cur = ch[c].cur /\ k.found = s
  BY DEF TypeOK, ChannelType, SameTable, SameQueue, SameUse
<1>2. Work(c, k)
  BY <1>1, SameLifeNow DEF LookUp, Work, TypeOK
<1> QED BY <1>1, <1>2 DEF LookUp

LEMMA CallbackQbufIs ==
    ASSUME TypeOK, NEW c \in Channels, CallbackQbuf(c)
    PROVE  LET s == ch[c].found IN
           /\ s \in Streams /\ st' = Qbuf(c, s, 1) /\ hold' = hold
           /\ \E k \in ChannelType :
                 /\ Work(c, k) /\ SameTable(c, k) /\ SameUse(c, k) /\ k.cb = ch[c].cb
                 /\ k.cur = ch[c].cur \ {s} /\ k.found = None
<1> DEFINE s == ch[c].found
           k == [ch[c] EXCEPT !.found = None, !.cur = @ \ {s}]
<1>1. s \in Streams
  BY DEF CallbackQbuf, TypeOK, ChannelType
<1>2. /\ k \in ChannelType /\ SameTable(c, k) /\ SameUse(c, k) /\ k.cb = ch[c].cb
      /\ k.cur = ch[c].cur \ {s} /\ k.found = None
  BY <1>1 DEF TypeOK, ChannelType, SameTable, SameQueue, SameUse
<1>3. /\ st' = Qbuf(c, s, 1) /\ ch' = [ch EXCEPT ![c] = k] /\ UNCHANGED <<scene, call, hold>>
  BY DEF CallbackQbuf
<1>4. SameLife(st')
  BY <1>1, <1>3, DoneLife DEF TypeOK
<1> HIDE DEF k
<1>5. Work(c, k)
  BY <1>2, <1>3, <1>4 DEF Work, TypeOK
<1> QED BY <1>1, <1>2, <1>3, <1>5

LEMMA ClientQbufIs ==
    ASSUME TypeOK, NEW c \in Channels, NEW s \in Streams, ClientQbuf(c, s)
    PROVE  /\ hold[c][s] > 0 /\ st' = Qbuf(c, s, 1) /\ Work(c, ch[c])
           /\ \A d \in Channels \ {c} : hold'[d] = hold[d]
           /\ \A x \in Streams : hold'[c][x] = IF x = s THEN hold[c][s] - 1 ELSE hold[c][x]
<1>1. hold[c] \in [Streams -> Nat] /\ hold[c][s] - 1 \in Nat
  BY DEF ClientQbuf, TypeOK
<1>2. st' = Qbuf(c, s, 1) /\ UNCHANGED <<scene, ch, call>>
  BY DEF ClientQbuf
<1> DEFINE h == [hold[c] EXCEPT ![s] = hold[c][s] - 1]
<1>3. h \in [Streams -> Nat] /\ \A x \in Streams : h[x] = IF x = s THEN hold[c][s] - 1 ELSE hold[c][x]
  BY <1>1
<1>4. hold' = [hold EXCEPT ![c] = h]
  BY DEF ClientQbuf
<1> HIDE DEF h
<1>5. hold' \in [Channels -> [Streams -> Nat]] /\ hold'[c] = h /\ \A d \in Channels \ {c} : hold'[d] = hold[d]
  BY <1>3, <1>4 DEF TypeOK
<1>6. SameLife(st')
  BY <1>2, DoneLife DEF TypeOK
<1>7. Work(c, ch[c])
  BY <1>2, <1>5, <1>6 DEF Work, TypeOK
<1> QED BY <1>2, <1>3, <1>5, <1>7 DEF ClientQbuf

-----------------------------------------------------------------------------
(* Types, calls and locks *)

LEMMA NoCallIs ==
    /\ NoCall.op = "none" /\ NoCall.pc = "idle" /\ NoCall.c = None /\ NoCall.s = None
BY DEF NoCall

LEMMA WorkTypeInv ==
    ASSUME TypeInv, NEW c \in Channels, NEW k, Work(c, k), k.table = ch[c].table,
           k.state = ch[c].state \/ (Calls(c) = {} /\ k.state # "NOTUSED")
    PROVE  TypeInv'
<1>1. TypeOK' /\ call' = call /\ scene' = scene
  BY DEF TypeInv, TypeOK, Work, SameLife
<1>2. /\ \A d \in Channels : ch'[d].table = ch[d].table
      /\ \A d \in Channels : ch'[d].state = ch[d].state \/ (Calls(d) = {} /\ ch'[d].state # "NOTUSED")
  BY DEF TypeInv, TypeOK, Work
<1>3. \A t \in Threads : call[t].op # "none" => call[t].c \in Channels /\ ch'[call[t].c].state = ch[call[t].c].state
                                               /\ ch'[call[t].c].table = ch[call[t].c].table
  BY <1>2 DEF TypeInv, CallInv, Calls
<1>4. \A t \in Threads : InChannel(t) => call[t].op # "none"
  BY NoCallIs DEF InChannel, TypeInv, CallInv
<1>5. CallInv'
  BY <1>1, <1>3, <1>4 DEF TypeInv, CallInv, InChannel, Subject, IsBundle
<1>6. LockInv'
  BY <1>1 DEF TypeInv, LockInv, In, InChannel
<1>7. DeleteInv'
  <2>1. ASSUME NEW t \in Threads, call[t].op = "delete"
        PROVE  /\ Empty(call[t].c)'
               /\ ch'[call[t].c].state = IF call[t].pc = "zero" THEN "NOTUSED" ELSE "STOPPED"
    BY <1>1, <1>3, <2>1 DEF TypeInv, DeleteInv, Empty
  <2>2. ASSUME NEW d \in Channels, ch'[d].state = "NOTUSED" PROVE Empty(d)'
    BY <1>2, <2>2 DEF TypeInv, DeleteInv, Empty
  <2> QED BY <1>1, <2>1, <2>2 DEF DeleteInv
<1> QED BY <1>1, <1>5, <1>6, <1>7 DEF TypeInv

\* The call of t has the lock, or can have it.
Acts(t) ==
    /\ call[t].op # "none"
    /\ InChannel(t) \/ call[t].pc = "zero" \/ (call[t].pc = "ch_wait" /\ ChFree(call[t].c))

\* How a call goes on: it keeps what it is, and the state of its channel fits.
Fits(t, k, j) ==
    /\ \/ Ends(j)
       \/ /\ Goes(t, j, j.pc) /\ j.pc \in Places(call[t].op) \ {"ch_wait"}
          /\ j.pc # "zero" => k.state = StateIn(j)
          /\ j.pc = "zero" => k.state = "NOTUSED"
    /\ k.state = "NOTUSED" => Used(k.table) = {}
    /\ call[t].op = "delete" => Ends(j) \/ j.pc = "zero"

LEMMA StepTypeInv ==
    ASSUME TypeInv, NEW t \in Threads, Acts(t), NEW k, NEW j, Step(t, k, j), Fits(t, k, j)
    PROVE  TypeInv'
<1> DEFINE c == call[t].c
<1>1. TypeOK' /\ call' \in [Threads -> CallType] /\ scene' = scene
  BY StepTypes DEF TypeInv, Step
<1>2. /\ c \in Channels /\ ch'[c] = k /\ \A d \in Channels \ {c} : ch'[d] = ch[d]
      /\ call'[t] = j /\ \A u \in Threads \ {t} : call'[u] = call[u]
      /\ call[t].op # "none"
  BY DEF TypeInv, TypeOK, Step, Acts
<1>3. \A u \in Threads \ {t} : InChannel(u) => call[u].c \in Channels \ {c}
  BY <1>2, NoCallIs DEF TypeInv, LockInv, CallInv, Acts, In, InChannel, ChFree, Places, Starting, Undoing, StoppingAt, Ending
<1>4. \A u \in Threads \ {t} : call[u].op = "delete" => call[u].c \in Channels \ {c}
  BY <1>2 DEF TypeInv, LockInv, CallInv
<1>5. j.op \in {"none", call[t].op} /\ (j.op = "none" <=> j = NoCall) /\ (j.op # "none" => Goes(t, j, j.pc))
  BY <1>2, NoCallIs DEF Fits, Ends, Goes
<1>6. CallInv'
  <2>1. ASSUME NEW u \in Threads \ {t}
        PROVE  /\ call'[u].op = "none" <=> call'[u] = NoCall
               /\ call'[u].op # "none" =>
                    /\ call'[u].c \in Channels /\ call'[u].pc \in Places(call'[u].op)
                    /\ Subject(call[u])'
               /\ InChannel(u)' => ch'[call'[u].c].state = StateIn(call'[u])
    BY <1>1, <1>2, <1>3 DEF TypeInv, CallInv, Subject, IsBundle, InChannel
  <2>2. /\ call'[t].op = "none" <=> call'[t] = NoCall
        /\ call'[t].op # "none" => call'[t].c \in Channels /\ call'[t].pc \in Places(call'[t].op)
    BY <1>2, <1>5 DEF Fits, Goes, Ends
  <2>3. call'[t].op # "none" => Subject(call[t])'
    <3>1. Subject(call[t])
      BY <1>2 DEF TypeInv, CallInv
    <3>2. j.op # "none" => j.op = call[t].op /\ j.c = call[t].c /\ j.s = call[t].s
      BY <1>5 DEF Goes
    <3> QED BY <1>1, <1>2, <3>1, <3>2 DEF Subject, IsBundle
  <2>4. InChannel(t)' => ch'[call'[t].c].state = StateIn(call'[t])
    BY <1>2, NoCallIs DEF Fits, Goes, Ends, InChannel
  <2>5. ASSUME NEW u \in Threads
        PROVE  /\ call'[u].op = "none" <=> call'[u] = NoCall
               /\ call'[u].op # "none" =>
                    /\ call'[u].c \in Channels /\ call'[u].pc \in Places(call'[u].op)
                    /\ Subject(call[u])'
               /\ InChannel(u)' => ch'[call'[u].c].state = StateIn(call'[u])
    BY <2>1, <2>2, <2>3, <2>4
  <2> QED BY <2>5 DEF CallInv
<1>7. LockInv'
  <2>1. InChannel(t)' => call'[t].c = c
    BY <1>2, NoCallIs DEF Fits, Goes, Ends, InChannel
  <2>2. call'[t].pc # "ch_wait"
    BY <1>2, NoCallIs DEF Fits, Ends
  <2>3. \A u \in Threads \ {t} : InChannel(u)' = InChannel(u)
    BY <1>2 DEF InChannel
  <2>4. call'[t].op \in {"none", call[t].op} /\ (call'[t].op # "none" => call'[t].c = c)
    BY <1>2, <1>5 DEF Goes
  <2>7. call'[t].op = "none" => call'[t].c = None
    BY <1>2, <1>5, NoCallIs
  <2>8. \A u \in Threads : call[u].op = "delete" => call[u].c # None
    BY ChannelConstantsOK DEF TypeInv, CallInv
  <2>5. ASSUME NEW u \in Threads, NEW v \in Threads, u # v
        PROVE  /\ \A d \in Channels : ~(In(u, d) /\ In(v, d))'
               /\ ~(call'[u].pc = "ch_wait" /\ call'[v].pc = "ch_wait")
    BY <1>2, <1>3, <2>1, <2>2, <2>3, <2>5 DEF TypeInv, LockInv, In
  <2>6. ASSUME NEW u \in Threads, NEW v \in Threads, u # v, call'[u].op = "delete"
        PROVE  call'[v].c # call'[u].c
    <3>1. CASE u = t
      BY <1>2, <2>4, <2>6, <3>1 DEF TypeInv, LockInv
    <3>2. CASE v = t
      BY <1>2, <1>4, <2>4, <2>6, <2>7, <2>8, <3>2 DEF TypeInv, LockInv
    <3>3. CASE u # t /\ v # t
      BY <1>2, <2>6, <3>3 DEF TypeInv, LockInv
    <3> QED BY <3>1, <3>2, <3>3
  <2> QED BY <2>5, <2>6 DEF LockInv
<1>8. DeleteInv'
  <2>1. ASSUME NEW u \in Threads, call'[u].op = "delete"
        PROVE  /\ Empty(call[u].c)'
               /\ ch'[call'[u].c].state = IF call'[u].pc = "zero" THEN "NOTUSED" ELSE "STOPPED"
    <3>1. CASE u # t
      BY <1>2, <1>4, <2>1, <3>1 DEF TypeInv, DeleteInv, Empty
    <3>2. CASE u = t
      BY <1>2, <1>5, <2>1, <3>2, NoCallIs DEF Fits, Goes, Ends, Empty
    <3> QED BY <3>1, <3>2
  <2>2. ASSUME NEW d \in Channels, ch'[d].state = "NOTUSED" PROVE Empty(d)'
    BY <1>2, <2>2 DEF TypeInv, DeleteInv, Empty, Fits
  <2> QED BY <2>1, <2>2 DEF DeleteInv
<1> QED BY <1>1, <1>6, <1>7, <1>8 DEF TypeInv

\* What a client has seen to when it calls.
Entered(t, op, c, s, j) ==
    /\ j \in CallType /\ j.op = op /\ j.c = c /\ j.s = s /\ j.pc = "ch_wait"
    /\ call[t] = NoCall /\ CamFree /\ ch[c].state # "NOTUSED" /\ Polite(op, c, s)
    /\ call' = [call EXCEPT ![t] = j] /\ UNCHANGED <<scene, ch, st, hold>>

LEMMA EnterIs ==
    ASSUME TypeInv, NEW t \in Threads, NEW op \in Ops, NEW c \in Channels,
           NEW s \in Streams \cup {None}, Enter(t, op, c, s)
    PROVE  \E j : Entered(t, op, c, s, j)
<1> DEFINE j == [NoCall EXCEPT !.op = op, !.c = c, !.s = s, !.pc = "ch_wait"]
<1>1. j \in CallType /\ j.op = op /\ j.c = c /\ j.s = s /\ j.pc = "ch_wait"
  <2>1. NoCall \in CallType
    BY DEF NoCall, CallType, PCs
  <2> HIDE DEF j
  <2>2. /\ j = [NoCall EXCEPT !.op = op, !.c = c, !.s = s, !.pc = "ch_wait"]
        /\ op \in Ops \cup {"none"} /\ c \in Channels \cup {None}
    BY DEF j
  <2> QED BY <2>1, <2>2 DEF CallType, PCs
<1> QED BY <1>1 DEF Enter, Entered

LEMMA EnterTypeInv ==
    ASSUME TypeInv, NEW t \in Threads, NEW op \in Ops, NEW c \in Channels,
           NEW s \in Streams \cup {None}, NEW j, Entered(t, op, c, s, j)
    PROVE  TypeInv'
<1>1. TypeOK' /\ call' \in [Threads -> CallType] /\ UNCHANGED <<scene, ch>>
  BY DEF TypeInv, TypeOK, Entered
<1>2. /\ call'[t] = j /\ \A u \in Threads \ {t} : call'[u] = call[u]
      /\ call[t] = NoCall /\ CamFree /\ ch[c].state # "NOTUSED" /\ Polite(op, c, s)
      /\ j.op = op /\ j.c = c /\ j.s = s /\ j.pc = "ch_wait" /\ op # "none"
  BY DEF TypeInv, Entered, Ops
<1>3. Subject(j)
  BY <1>2, ChannelConstantsOK DEF Subject, Polite, Ops
<1>4. CallInv'
  <2>1. ASSUME NEW u \in Threads
        PROVE  /\ call'[u].op = "none" <=> call'[u] = NoCall
               /\ call'[u].op # "none" =>
                    /\ call'[u].c \in Channels /\ call'[u].pc \in Places(call'[u].op)
                    /\ Subject(call[u])'
               /\ InChannel(u)' => ch'[call'[u].c].state = StateIn(call'[u])
    <3>1. CASE u = t
      BY <1>1, <1>2, <1>3, <3>1, NoCallIs DEF Places, InChannel, Subject, IsBundle
    <3>2. CASE u # t
      BY <1>1, <1>2, <3>2 DEF TypeInv, CallInv, InChannel, Subject, IsBundle
    <3> QED BY <3>1, <3>2
  <2> QED BY <2>1 DEF CallInv
<1>5. \A u \in Threads \ {t} : call[u].pc # "ch_wait"
  BY <1>2 DEF CamFree
<1>6. op = "delete" => \A u \in Threads : call[u].c # c
  BY <1>2 DEF Polite, Calls
<1>7. \A u \in Threads \ {t} : call[u].op = "delete" => call[u].c # c
  <2>1. ASSUME NEW u \in Threads \ {t}, call[u].op = "delete" PROVE call[u].pc = "zero"
    BY <1>5, <2>1 DEF TypeInv, CallInv, Places
  <2> QED BY <1>2, <2>1 DEF TypeInv, DeleteInv
<1>8. LockInv'
  <2>1. ~InChannel(t)' /\ \A u \in Threads \ {t} : InChannel(u)' = InChannel(u)
    BY <1>2 DEF InChannel
  <2>2. ASSUME NEW u \in Threads, NEW v \in Threads, u # v
        PROVE  /\ \A d \in Channels : ~(In(u, d) /\ In(v, d))'
               /\ ~(call'[u].pc = "ch_wait" /\ call'[v].pc = "ch_wait")
               /\ call'[u].op = "delete" => call'[v].c # call'[u].c
    <3>1. CASE u = t
      BY <1>2, <1>5, <1>6, <2>1, <2>2, <3>1 DEF In
    <3>2. CASE v = t
      BY <1>2, <1>5, <1>7, <2>1, <2>2, <3>2 DEF In
    <3>3. CASE u # t /\ v # t
      BY <1>2, <2>1, <2>2, <3>3 DEF TypeInv, LockInv, In
    <3> QED BY <3>1, <3>2, <3>3
  <2> QED BY <2>2 DEF LockInv
<1>9. DeleteInv'
  <2>1. ASSUME NEW u \in Threads, call'[u].op = "delete"
        PROVE  /\ Empty(call[u].c)'
               /\ ch'[call'[u].c].state = IF call'[u].pc = "zero" THEN "NOTUSED" ELSE "STOPPED"
    <3>1. CASE u = t
      BY <1>1, <1>2, <2>1, <3>1 DEF Polite, Empty
    <3>2. CASE u # t
      BY <1>1, <1>2, <2>1, <3>2 DEF TypeInv, DeleteInv, Empty
    <3> QED BY <3>1, <3>2
  <2> QED BY <1>1, <2>1 DEF TypeInv, DeleteInv, Empty
<1> QED BY <1>1, <1>4, <1>8, <1>9 DEF TypeInv

-----------------------------------------------------------------------------
(* Tables and lists *)

\* A step leaves a channel in use as it is, its table without doubles, and its list right.
Sound(t, k, j) ==
    /\ Acts(t) /\ Step(t, k, j) /\ Fits(t, k, j) /\ Distinct(k.table)
    /\ ch[call[t].c].state = "ACTIVE" /\ call[t].op \notin {"start", "stop", "delete"} =>
          k.state = "ACTIVE" /\ k.table = ch[call[t].c].table
    /\ \A s \in Streams : s \in Range(k.table) =>
          Has(call[t].c, s) \/ (call[t].op \in {"add", "link"} /\ s = call[t].s)
    /\ j.pc \in Listing => ListOK(j, k.table)

LEMMA HasUsed ==
    ASSUME NEW c, NEW s, Has(c, s), s # None
    PROVE  ~Empty(c)
BY DEF Has, Empty, Used, Range

LEMMA SteadyStep ==
    ASSUME TypeInv, NEW t \in Threads, NEW k, NEW j, Sound(t, k, j), NEW s \in Streams, Steady(s)
    PROVE  Steady(s)'
<1> DEFINE c == call[t].c
           o == Owner[s]
<1>1. /\ c \in Channels /\ ch'[c] = k /\ \A d \in Channels \ {c} : ch'[d] = ch[d]
      /\ call'[t] = j /\ \A u \in Threads \ {t} : call'[u] = call[u]
      /\ o \in Channels
  BY ChannelConstantsOK DEF TypeInv, TypeOK, Sound, Step
<1>2. j.op = "none" \/ (j.op = call[t].op /\ j.c = c)
  BY NoCallIs DEF Sound, Fits, Ends, Goes
<1>3. ch'[o].state = "ACTIVE" /\ ch'[o].table = ch[o].table
  BY <1>1 DEF Steady, Sound
<1>4. ASSUME NEW u \in Threads, call'[u].c = o PROVE call'[u].op \notin {"start", "stop", "delete"}
  BY <1>1, <1>2, <1>4 DEF Steady
<1> QED BY <1>3, <1>4 DEF Steady, Has

LEMMA StepBase ==
    ASSUME BaseInv, NEW t \in Threads, NEW k, NEW j, Sound(t, k, j)
    PROVE  BaseInv'
<1> DEFINE c == call[t].c
<1>1. /\ c \in Channels /\ ch'[c] = k /\ \A d \in Channels \ {c} : ch'[d] = ch[d]
      /\ call'[t] = j /\ \A u \in Threads \ {t} : call'[u] = call[u]
      /\ scene' = scene
  BY DEF BaseInv, TypeInv, TypeOK, Sound, Step
<1>2. TypeInv'
  BY StepTypeInv DEF BaseInv, Sound
<1>3. TableInv'
  <2>1. ASSUME NEW d \in Channels PROVE Distinct(ch'[d].table)
    BY <1>1 DEF BaseInv, TableInv, Sound
  <2>2. ASSUME NEW d \in Channels, NEW s \in Streams, Has(d, s)', Owner[s] # d
        PROVE  s = scene.links[d] /\ Steady(s)
    <3>1. Has(d, s) \/ (d = c /\ call[t].op \in {"add", "link"} /\ s = call[t].s)
      BY <1>1, <2>2 DEF Sound, Has
    <3>2. CASE Has(d, s)
      BY <2>2, <3>2 DEF BaseInv, TableInv
    <3>3. CASE d = c /\ call[t].op \in {"add", "link"} /\ s = call[t].s
      BY <2>2, <3>3 DEF BaseInv, TableInv, TypeInv, CallInv, Subject
    <3> QED BY <3>1, <3>2, <3>3
  <2>3. ASSUME NEW u \in Threads, call'[u].op = "link"
        PROVE  call'[u].s \in Streams /\ Steady(call'[u].s)
    <3>1. call[u].op = "link" /\ call'[u].s = call[u].s
      BY <1>1, <2>3, NoCallIs DEF Sound, Fits, Goes, Ends
    <3> QED BY <3>1 DEF BaseInv, TableInv, TypeInv, CallInv, Subject
  <2>4. \A s \in Streams : Steady(s) => Steady(s)'
    BY SteadyStep DEF BaseInv
  <2>5. \A d \in Channels, s \in Streams : Has(d, s)' /\ Owner[s] # d => s = scene.links[d] /\ Steady(s)'
    BY <2>2, <2>4
  <2>6. \A u \in Threads : call'[u].op = "link" => Steady(call[u].s)'
    <3>1. ASSUME NEW u \in Threads, call'[u].op = "link", NEW s, s = call'[u].s PROVE Steady(s)'
      BY <2>3, <2>4, <3>1
    <3> QED BY <3>1 DEF Steady
  <2>7. \A d \in Channels : Distinct(ch[d].table)'
    BY <2>1
  <2>8. \A d \in Channels, s \in Streams : (Has(d, s) /\ Owner[s] # d => s = scene.links[d] /\ Steady(s))'
    BY <1>1, <2>5
  <2> QED BY <2>6, <2>7, <2>8 DEF TableInv
<1>4. ListInv'
  <2>1. ASSUME NEW u \in Threads, call'[u].pc \in Listing
        PROVE  ListOK(call'[u], ch'[call'[u].c].table)
    <3>1. CASE u = t
      <4>1. ListOK(j, k.table) /\ j.c = c
        BY <1>1, <2>1, <3>1, NoCallIs DEF Sound, Fits, Ends, Goes, Listing, Starting, StoppingAt, Ending, Undoing
      <4> QED BY <1>1, <3>1, <4>1
    <3>2. CASE u # t
      <4>1. InChannel(u) /\ call[u].c \in Channels
        BY <1>1, <2>1, <3>2, NoCallIs DEF BaseInv, TypeInv, CallInv, InChannel, Listing, Starting, StoppingAt, Ending, Undoing
      <4>2. call[u].c # c
        BY <3>2, <4>1 DEF BaseInv, TypeInv, LockInv, In, Sound, Acts, ChFree, InChannel, CallInv, Places, Starting, StoppingAt, Ending, Undoing
      <4> QED BY <1>1, <2>1, <3>2, <4>1, <4>2 DEF BaseInv, ListInv
    <3> QED BY <3>1, <3>2
  <2> QED BY <2>1 DEF ListInv
<1> QED BY <1>2, <1>3, <1>4 DEF BaseInv

LEMMA WorkBase ==
    ASSUME BaseInv, NEW c \in Channels, NEW k, Work(c, k), k.table = ch[c].table,
           k.state = ch[c].state \/ (Calls(c) = {} /\ ch[c].state = "NOTUSED" /\ k.state # "NOTUSED")
    PROVE  BaseInv'
<1>1. TypeInv'
  BY WorkTypeInv DEF BaseInv
<1>2. /\ call' = call /\ scene' = scene /\ \A d \in Channels : ch'[d].table = ch[d].table
      /\ \A d \in Channels : ch[d].state = "ACTIVE" => ch'[d].state = "ACTIVE"
  BY DEF BaseInv, TypeInv, TypeOK, Work
<1>3. \A s \in Streams : Steady(s) => Steady(s)'
  BY <1>2, ChannelConstantsOK DEF Steady, Has
<1>4. TableInv'
  <2>1. \A t \in Threads : call[t].op = "link" => call[t].s \in Streams
    BY DEF BaseInv, TypeInv, CallInv, Subject
  <2>2. \A d \in Channels, s \in Streams : Has(d, s)' = Has(d, s)
    BY <1>2 DEF Has
  <2>3. \A t \in Threads : call'[t].op = "link" => Steady(call[t].s)'
    <3>1. ASSUME NEW t \in Threads, call[t].op = "link", NEW s, s = call[t].s PROVE Steady(s)'
      BY <1>3, <2>1, <3>1 DEF BaseInv, TableInv
    <3> QED BY <1>2, <3>1 DEF Steady
  <2> QED BY <1>2, <1>3, <2>1, <2>2, <2>3 DEF BaseInv, TableInv
<1>5. ListInv'
  BY <1>2, NoCallIs DEF BaseInv, TypeInv, CallInv, ListInv, Listing, Starting, StoppingAt, Ending, Undoing
<1> QED BY <1>1, <1>4, <1>5 DEF BaseInv

LEMMA EnterBase ==
    ASSUME BaseInv, NEW t \in Threads, NEW op \in Ops, NEW c \in Channels,
           NEW s \in Streams \cup {None}, NEW j, Entered(t, op, c, s, j)
    PROVE  BaseInv'
<1>1. TypeInv'
  BY EnterTypeInv DEF BaseInv
<1>2. /\ call'[t] = j /\ \A u \in Threads \ {t} : call'[u] = call[u]
      /\ call[t] = NoCall /\ ch[c].state # "NOTUSED" /\ Polite(op, c, s)
      /\ j.op = op /\ j.c = c /\ j.s = s /\ j.pc = "ch_wait" /\ UNCHANGED <<scene, ch>>
  BY DEF BaseInv, TypeInv, Entered
<1>3. ASSUME NEW x \in Streams, Steady(x),
             (\E d \in Channels : Has(d, x) /\ Owner[x] # d /\ x = scene.links[d])
             \/ (\E u \in Threads : call[u].op = "link" /\ call[u].s = x)
      PROVE  Steady(x)'
  <2>1. op \in {"start", "stop", "delete"} => c # Owner[x]
    <3>1. CASE op = "delete" /\ c = Owner[x]
      BY <1>2, <1>3, <3>1 DEF Polite, Steady
    <3>2. CASE op \in {"start", "stop"} /\ c = Owner[x]
      <4>1. \A d \in Channels \ {c} : (scene.links[d] = x => Calls(d) = {}) /\ ~Has(d, x)
        BY <1>2, <1>3, <3>2 DEF Polite, Steady, Own
      <4>2. PICK u \in Threads : call[u].op = "link" /\ call[u].s = x
        BY <1>3, <3>2, <4>1
      <4>3. call[u].c \in Channels /\ scene.links[call[u].c] = x
        BY <4>2 DEF BaseInv, TypeInv, CallInv, Subject
      <4>4. call[u].c # Owner[x]
        BY <4>3, ChannelConstantsOK DEF BaseInv, TypeInv, TypeOK
      <4> QED BY <3>2, <4>1, <4>2, <4>3, <4>4 DEF Calls
    <3> QED BY <3>1, <3>2
  <2> QED BY <1>2, <1>3, <2>1 DEF Steady, Has
<1>4. op = "link" => s \in Streams /\ Steady(s)'
  <2>1. ASSUME op = "link" PROVE s \in Streams /\ Steady(s)'
    <3>1. s \in Streams /\ s = scene.links[c] /\ ch[Owner[s]].state = "ACTIVE" /\ Has(Owner[s], s)
          /\ Calls(Owner[s]) = {}
      BY <1>2, <2>1 DEF Polite
    <3>2. Owner[s] # c
      BY <3>1, ChannelConstantsOK DEF BaseInv, TypeInv, TypeOK
    <3> QED BY <1>2, <3>1, <3>2 DEF Steady, Has, Calls
  <2> QED BY <2>1
<1>5. TableInv'
  <2>1. \A d \in Channels, x \in Streams : Has(d, x)' = Has(d, x)
    BY <1>2 DEF Has
  <2>2. ASSUME NEW d \in Channels, NEW x \in Streams, Has(d, x), Owner[x] # d
        PROVE  x = scene.links[d] /\ Steady(x)'
    BY <1>3, <2>2 DEF BaseInv, TableInv
  <2>3. ASSUME NEW u \in Threads, call'[u].op = "link", NEW x, x = call'[u].s PROVE Steady(x)'
    <3>1. CASE u = t
      BY <1>2, <1>4, <2>3, <3>1
    <3>2. CASE u # t
      <4>1. call[u].op = "link" /\ x = call[u].s /\ x \in Streams /\ Steady(x)
        BY <1>2, <2>3, <3>2 DEF BaseInv, TableInv, TypeInv, CallInv, Subject
      <4> QED BY <1>3, <4>1
    <3> QED BY <3>1, <3>2
  <2>4. \A u \in Threads : call'[u].op = "link" => Steady(call[u].s)'
    BY <2>3 DEF Steady
  <2> QED BY <1>2, <2>1, <2>2, <2>4 DEF BaseInv, TableInv
<1>6. ListInv'
  <2>1. \A u \in Threads : call'[u].pc \in Listing => u # t
    BY <1>2 DEF Listing, Starting, StoppingAt, Ending, Undoing
  <2> QED BY <1>2, <2>1 DEF BaseInv, ListInv
<1> QED BY <1>1, <1>5, <1>6 DEF BaseInv

-----------------------------------------------------------------------------
(* What a call does to the call, the record k of its channel c, and the streams *)

SameRecord(c, k) == SameTable(c, k) /\ SameThreads(c, k) /\ SameQueue(c, k)
InTableNow(k, x) == x \in Range(k.table)

ByIgnored(t, c, k, j) == call[t].pc = "ch_wait" /\ k = ch[c] /\ Ends(j) /\ st' = st
ByAdded(t, c, k, j) ==
    /\ call[t].pc = "ch_wait" /\ call[t].op \in {"add", "link"} /\ ch[c].state = "STOPPED"
    /\ call[t].s \in Streams /\ ~Has(c, call[t].s) /\ Ends(j)
    /\ k.state = ch[c].state /\ SameThreads(c, k) /\ SameQueue(c, k)
    /\ \A x \in Streams : InTableNow(k, x) <=> Has(c, x) \/ x = call[t].s
    /\ IF Owner[call[t].s] = c THEN Restated(call[t].s, "CFG") ELSE st' = st
ByRemoved(t, c, k, j) ==
    /\ call[t].pc = "ch_wait" /\ call[t].op \in {"del", "unlink"} /\ ch[c].state = "STOPPED"
    /\ call[t].s \in Streams /\ Ends(j)
    /\ k.state = ch[c].state /\ SameThreads(c, k) /\ SameQueue(c, k)
    /\ \A x \in Streams : InTableNow(k, x) <=> Has(c, x) /\ x # call[t].s
    /\ \/ ~Has(c, call[t].s) /\ st' = st
       \/ Has(c, call[t].s) /\ Owner[call[t].s] = c /\ Restated(call[t].s, "NOTUSED")
       \/ /\ Has(c, call[t].s) /\ Owner[call[t].s] # c
          /\ \A x \in Streams \ {call[t].s} : st'[x] = st[x]
          /\ st'[call[t].s].state = st[call[t].s].state /\ st'[call[t].s].link = None
          /\ st'[call[t].s].out = st[call[t].s].out /\ st'[call[t].s].lost = st[call[t].s].lost
ByDisposed(t, c, k, j) ==
    /\ call[t].pc = "ch_wait" /\ call[t].op = "delete" /\ ch[c].state = "STOPPED"
    /\ j.pc = "zero" /\ st' = st
    /\ k.state = "NOTUSED" /\ k.table = ch[c].table /\ SameThreads(c, k) /\ SameQueue(c, k)
ByZeroed(t, c, k, j) == call[t].pc = "zero" /\ k = NewChannel /\ Ends(j) /\ st' = st
ByRequested(t, c, k, j) ==
    /\ call[t].pc = "ch_wait" /\ call[t].op \in {"request", "cancel"} /\ ch[c].state = "ACTIVE"
    /\ Ends(j) /\ st' = st /\ \E n \in 0..1 : Posted(c, [cmd |-> "REQ_DATA_CB", n |-> n], k)
ByFlushed(t, c, k, j) ==
    /\ call[t].pc = "ch_wait" /\ call[t].op = "flush" /\ ch[c].state = "ACTIVE" /\ st' = st
    /\ Goes(t, j, "flush_ack") /\ Posted(c, [cmd |-> "FLUSH_QUEUE", s |-> None], k)
ByAcked(t, c, k, j) ==
    /\ Acknowledged(c, k) /\ st' = st
    /\ \/ call[t].pc = "flush_ack" /\ Ends(j)
       \/ call[t].pc = "undo_ack" /\ Goes(t, j, "undo_copies") /\ Counts(t, j)
       \/ call[t].pc = "ack" /\ Goes(t, j, "threads") /\ Counts(t, j)
ByBegun(t, c, k, j) ==
    /\ call[t].pc = "ch_wait" /\ call[t].op = "start" /\ ch[c].state = "STOPPED" /\ st' = st
    /\ Goes(t, j, "link") /\ j.i = 1 /\ SameTable(c, k) /\ k.cur = ch[c].cur /\ k.found = ch[c].found
    /\ ~IsBundle(c) => SameThreads(c, k) /\ SameQueue(c, k)
    /\ IsBundle(c) => /\ k.cb = Launched /\ k.cmd = Launched /\ k.ack = 0
                      /\ k.que = NoFrames /\ k.bundled = Own(c) \cup Links(c)
ByLinked(t, c, k, j) ==
    call[t].pc = "link" /\ Relinked(c, c) /\ k = ch[c] /\ Goes(t, j, "streams") /\ Counts(t, j)
ByStarted(t, c, k, j) ==
    /\ call[t].pc = "streams" /\ call[t].i \in DOMAIN call[t].ord /\ Current(t) \in Streams
    /\ k = ch[c] /\ Advances(t, j)
    /\ IF Owner[Current(t)] = c THEN Restarted(Current(t), "ACTIVE") ELSE st' = st
ByFailed(t, c, k, j) ==
    /\ call[t].pc = "streams" /\ call[t].i \in DOMAIN call[t].ord /\ Current(t) \in Streams
    /\ k = ch[c] /\ Goes(t, j, "undo_links") /\ Counts(t, j) /\ Owner[Current(t)] = c
    /\ \E where \in {"CFG", "BUFFED", "REG"} : Restated(Current(t), where)
ByActive(t, c, k, j) ==
    /\ call[t].pc = "streams" /\ call[t].i > Len(call[t].ord) /\ st' = st /\ Ends(j)
    /\ k.state = "ACTIVE" /\ k.table = ch[c].table /\ SameThreads(c, k) /\ SameQueue(c, k)
\* Links are undone, and a flush waited for at pc, if there are any; the next step is at next.
ByUnlinked(t, c, k, j, pc, next) ==
    /\ Relinked(c, None) /\ Counts(t, j)
    /\ \/ /\ Links(c) # {} /\ IsBundle(c) /\ Goes(t, j, pc)
          /\ \E s \in Streams : Posted(c, [cmd |-> "FLUSH_QUEUE", s |-> s], k)
                                /\ (s = Current(t) \/ s \in Links(c))
       \/ (Links(c) = {} \/ ~IsBundle(c)) /\ Goes(t, j, next) /\ k = ch[c]
ByUndoLinks(t, c, k, j) ==
    call[t].pc = "undo_links" /\ ByUnlinked(t, c, k, j, "undo_ack", "undo_copies")
ByStopLinks(t, c, k, j) ==
    /\ call[t].pc = "off" /\ call[t].i > Len(call[t].ord)
    /\ ByUnlinked(t, c, k, j, "ack", "threads")
ByCleared(t, c, k, j) ==
    /\ call[t].pc = "undo_copies" /\ st' = st /\ Goes(t, j, "undo_streams")
    /\ j.ord = call[t].ord /\ j.i = call[t].i /\ j.j = 1
    /\ k.state = ch[c].state /\ SameThreads(c, k) /\ SameQueue(c, k)
    /\ \A x \in Streams : InTableNow(k, x) <=> x \in Own(c)
ByUndone(t, c, k, j) ==
    /\ call[t].pc = "undo_streams" /\ call[t].j \in 1..call[t].i
    /\ call[t].ord[call[t].j] \in Streams /\ call[t].j \in DOMAIN call[t].ord
    /\ IF Owner[call[t].ord[call[t].j]] = c THEN Restarted(call[t].ord[call[t].j], "CFG")
                                            ELSE st' = st
    /\ k = ch[c] /\ Goes(t, j, "undo_streams")
    /\ j.ord = call[t].ord /\ j.i = call[t].i /\ j.j = call[t].j + 1
ByStopBegun(t, c, k, j) ==
    /\ call[t].pc = "ch_wait" /\ call[t].op = "stop" /\ ch[c].state = "ACTIVE" /\ st' = st
    /\ k = ch[c] /\ Goes(t, j, "off") /\ j.i = 1
ByStopped(t, c, k, j) ==
    /\ call[t].pc = "off" /\ call[t].i \in DOMAIN call[t].ord /\ Current(t) \in Streams
    /\ IF Owner[Current(t)] = c THEN Restarted(Current(t), "BUFFED") ELSE st' = st
    /\ k = ch[c] /\ Advances(t, j)
ByReleased(t, c, k, j) ==
    /\ \/ call[t].pc = "threads"
       \/ call[t].pc = "undo_streams" /\ call[t].j = call[t].i + 1
    /\ st' = st /\ Counts(t, j)
    /\ \/ IsBundle(c) /\ Goes(t, j, "cmd_join") /\ Posted(c, [cmd |-> "EXIT"], k)
       \/ ~IsBundle(c) /\ Goes(t, j, "put") /\ k = ch[c]
ByCmdJoined(t, c, k, j) ==
    /\ call[t].pc = "cmd_join" /\ ~ch[c].cmd.up /\ st' = st
    /\ Goes(t, j, "cb_join") /\ Counts(t, j) /\ SameTable(c, k) /\ SameQueue(c, k)
    /\ k.cmd = Thread /\ k.ack = ch[c].ack
    /\ k.cb.up = ch[c].cb.up /\ k.cb.bye = ch[c].cb.bye
    /\ k.cb.q = Append(ch[c].cb.q, [cmd |-> "EXIT"])
    /\ k.cur = ch[c].cur /\ k.found = ch[c].found
ByCbJoined(t, c, k, j) ==
    /\ call[t].pc = "cb_join" /\ ~ch[c].cb.up /\ st' = st
    /\ Goes(t, j, "put") /\ Counts(t, j) /\ SameTable(c, k)
    /\ k.cmd = ch[c].cmd /\ k.cb = Thread /\ k.ack = ch[c].ack
    /\ k.bundled = ch[c].bundled /\ k.que = NoFrames
    /\ k.cur = ch[c].cur /\ k.found = ch[c].found
ByPut(t, c, k, j) ==
    /\ call[t].pc = "put" /\ Ends(j) /\ k.state = "STOPPED"
    /\ SameThreads(c, k) /\ SameQueue(c, k)
    /\ \A x \in Streams : InTableNow(k, x) <=> x \in Own(c)
    /\ \A s \in Streams :
          /\ st'[s].state = IF s \in Own(c) /\ st[s].state = "BUFFED" THEN "CFG" ELSE st[s].state
          /\ st'[s].link = st[s].link /\ st'[s].out = st[s].out /\ st'[s].lost = st[s].lost

BySimple(t, c, k, j) ==
    \/ ByIgnored(t, c, k, j) \/ ByAdded(t, c, k, j) \/ ByRemoved(t, c, k, j)
    \/ ByDisposed(t, c, k, j) \/ ByZeroed(t, c, k, j) \/ ByRequested(t, c, k, j)
    \/ ByFlushed(t, c, k, j) \/ ByAcked(t, c, k, j)
ByStart(t, c, k, j) ==
    \/ ByBegun(t, c, k, j) \/ ByLinked(t, c, k, j) \/ ByStarted(t, c, k, j)
    \/ ByFailed(t, c, k, j) \/ ByActive(t, c, k, j) \/ ByUndoLinks(t, c, k, j)
    \/ ByCleared(t, c, k, j) \/ ByUndone(t, c, k, j)
ByStop(t, c, k, j) ==
    \/ ByStopBegun(t, c, k, j) \/ ByStopped(t, c, k, j) \/ ByStopLinks(t, c, k, j)
    \/ ByReleased(t, c, k, j) \/ ByCmdJoined(t, c, k, j) \/ ByCbJoined(t, c, k, j)
    \/ ByPut(t, c, k, j)
By(t, k, j) ==
    \/ BySimple(t, call[t].c, k, j) \/ ByStart(t, call[t].c, k, j) \/ ByStop(t, call[t].c, k, j)

\* What the lemmas about the calls start from.
Calling(t) == BaseInv /\ t \in Threads /\ call[t].op # "none"

LEMMA CallingFacts ==
    ASSUME NEW t, Calling(t)
    PROVE  /\ Typed /\ t \in Threads /\ call[t] \in CallType /\ call[t].c \in Channels
           /\ ch[call[t].c] \in ChannelType /\ call[t].pc \in Places(call[t].op)
           /\ Distinct(ch[call[t].c].table) /\ NoCall \in CallType
           /\ ch[call[t].c].state = "NOTUSED" => Used(ch[call[t].c].table) = {}
           /\ InChannel(t) => ch[call[t].c].state = StateIn(call[t])
           /\ call[t].pc \in Listing => ListOK(call[t], ch[call[t].c].table)
           /\ call[t].op = "delete" => Used(ch[call[t].c].table) = {}
<1>1. Typed
  BY DEF Calling, BaseInv, TypeInv, Typed
<1>2. call[t] \in CallType /\ call[t].c \in Channels /\ ch[call[t].c] \in ChannelType /\ NoCall \in CallType
  BY <1>1, CallTypes DEF Calling
<1> QED BY <1>1, <1>2 DEF Calling, BaseInv, TypeInv, CallInv, TableInv, ListInv, DeleteInv, Empty

\* The call ends, or goes on, with the table of the channel as it is.
LEMMA SameSound ==
    ASSUME NEW t, Calling(t), Acts(t), NEW k, NEW j, Step(t, k, j), SameTable(call[t].c, k),
           Ends(j) \/ /\ Goes(t, j, j.pc) /\ j.pc \in Places(call[t].op) \ {"ch_wait", "zero"}
                      /\ ch[call[t].c].state = StateIn(j)
                      /\ j.pc \in Listing => ListOK(j, k.table),
           call[t].op = "delete" => Ends(j)
    PROVE  Sound(t, k, j)
<1>1. j.pc = "zero" => FALSE
  BY NoCallIs DEF Ends
<1>2. j.pc \in Listing => ~Ends(j)
  BY NoCallIs DEF Ends, Listing, Starting, StoppingAt, Ending, Undoing
<1>3. Fits(t, k, j)
  BY <1>1, CallingFacts DEF Fits, SameTable
<1> QED BY <1>1, <1>2, <1>3, CallingFacts DEF Sound, SameTable, Has

-----------------------------------------------------------------------------
(* Every step of a call is one of them *)

Does(t) == \E k, j : Sound(t, k, j) /\ By(t, k, j)

LEMMA IgnoredBy ==
    ASSUME NEW t, Calling(t), Ignored(t)
    PROVE  Does(t)
<1> DEFINE c == call[t].c
<1>1. Step(t, ch[c], NoCall) /\ st' = st
  BY CallingFacts, IgnoredIs DEF Calling
<1>2. Acts(t) /\ call[t].pc = "ch_wait"
  BY DEF Ignored, Waits, Acts, Calling
<1>3. Sound(t, ch[c], NoCall)
  BY <1>1, <1>2, SameSound DEF SameTable, Ends
<1>4. ByIgnored(t, c, ch[c], NoCall)
  BY <1>1, <1>2 DEF ByIgnored, Ends
<1> QED BY <1>3, <1>4 DEF Does, By, BySimple

LEMMA AddedBy ==
    ASSUME NEW t, Calling(t), AddOrLink(t)
    PROVE  Does(t)
<1> DEFINE c == call[t].c
           s == call[t].s
<1> USE ChannelConstantsOK
<1>1. Acts(t) /\ call[t].pc = "ch_wait"
  BY DEF AddOrLink, Handled, Waits, Acts, Calling
<1>2. call[t].op \in {"add", "link"} /\ ch[c].state = "STOPPED" /\ s \in Streams
  BY CallingFacts, AddOrLinkIs DEF Calling
<1>3. CASE Step(t, ch[c], NoCall) /\ st' = st
  <2>1. Sound(t, ch[c], NoCall)
    BY <1>1, <1>3, SameSound DEF SameTable, Ends
  <2>2. ByIgnored(t, c, ch[c], NoCall)
    BY <1>1, <1>3 DEF ByIgnored, Ends
  <2> QED BY <2>1, <2>2 DEF Does, By, BySimple
<1>4. ASSUME NEW k \in ChannelType, NEW i \in 1..MaxStreams,
             Step(t, k, NoCall), k.state = ch[c].state, SameThreads(c, k), SameQueue(c, k),
             ch[c].table[i] = None, k.table = [ch[c].table EXCEPT ![i] = s], ~Has(c, s),
             IF Owner[s] = c THEN Restated(s, "CFG") ELSE st' = st
      PROVE  Does(t)
  <2>0. ch[c].table \in [1..MaxStreams -> Streams \cup {None}]
    BY CallingFacts DEF ChannelType
  <2>9. DOMAIN k.table = 1..MaxStreams /\ k.table[i] = s
        /\ \A l \in 1..MaxStreams \ {i} : k.table[l] = ch[c].table[l]
    BY <1>4, <2>0
  <2>1. ASSUME NEW x \in Streams PROVE InTableNow(k, x) <=> Has(c, x) \/ x = s
    <3>1. x = s => InTableNow(k, x)
      BY <2>9 DEF InTableNow, Range
    <3>2. Has(c, x) => InTableNow(k, x)
      <4>1. ASSUME NEW l \in 1..MaxStreams, ch[c].table[l] = x PROVE InTableNow(k, x)
        BY <1>4, <2>9, <4>1 DEF InTableNow, Range
      <4> QED BY <2>0, <4>1 DEF Has, Range
    <3>3. InTableNow(k, x) => Has(c, x) \/ x = s
      BY <2>0, <2>9 DEF InTableNow, Has, Range
    <3> QED BY <3>1, <3>2, <3>3
  <2>2. Distinct(k.table)
    <3>1. \A l \in 1..MaxStreams : ch[c].table[l] # s
      BY <1>4, <2>0 DEF Has, Range
    <3>2. Distinct(ch[c].table)
      BY CallingFacts
    <3> QED BY <2>9, <3>1, <3>2 DEF Distinct
  <2>3. Fits(t, k, NoCall)
    BY <1>2, <1>4 DEF Fits, Ends
  <2>4. Sound(t, k, NoCall)
    <3>1. \A x \in Streams : x \in Range(k.table) => Has(c, x) \/ (call[t].op \in {"add", "link"} /\ x = s)
      BY <1>2, <2>1 DEF InTableNow
    <3>2. NoCall.pc \notin Listing
      BY NoCallIs DEF Listing, Starting, StoppingAt, Ending, Undoing
    <3> QED BY <1>1, <1>2, <1>4, <2>2, <2>3, <3>1, <3>2 DEF Sound
  <2>5. ByAdded(t, c, k, NoCall)
    BY <1>1, <1>2, <1>4, <2>1 DEF ByAdded, Ends
  <2> QED BY <2>4, <2>5 DEF Does, By, BySimple
<1> QED BY <1>3, <1>4, CallingFacts, AddOrLinkIs DEF Calling

LEMMA RemovedBy ==
    ASSUME NEW t, Calling(t), Delete(t)
    PROVE  Does(t)
<1> DEFINE c == call[t].c
           s == call[t].s
<1> USE ChannelConstantsOK
<1>1. Acts(t) /\ call[t].pc = "ch_wait"
  BY DEF Delete, Handled, Waits, Acts, Calling
<1>2. call[t].op \in {"del", "unlink"} /\ ch[c].state = "STOPPED" /\ s \in Streams
  BY CallingFacts, DeleteIs DEF Calling
<1>3. PICK k \in ChannelType :
                 /\ Step(t, k, NoCall)
                 /\ k.state = ch[c].state /\ SameThreads(c, k) /\ SameQueue(c, k)
                 /\ k.table = Cleared(ch[c].table, s)
                 /\ \/ ~Has(c, s) /\ st' = st
                    \/ Has(c, s) /\ Owner[s] = c /\ Restated(s, "NOTUSED")
                    \/ /\ Has(c, s) /\ Owner[s] # c
                       /\ \A x \in Streams \ {s} : st'[x] = st[x]
                       /\ st'[s].state = st[s].state /\ st'[s].link = None
                       /\ st'[s].out = st[s].out /\ st'[s].lost = st[s].lost
  BY CallingFacts, DeleteIs DEF Calling
<1>4. ch[c].table \in [1..MaxStreams -> Streams \cup {None}]
  BY CallingFacts DEF ChannelType
<1>5. DOMAIN k.table = 1..MaxStreams
      /\ \A l \in 1..MaxStreams : k.table[l] = IF ch[c].table[l] = s THEN None ELSE ch[c].table[l]
  BY <1>3, <1>4 DEF Cleared
<1>6. ASSUME NEW x \in Streams PROVE InTableNow(k, x) <=> Has(c, x) /\ x # s
  <2>1. InTableNow(k, x) => Has(c, x) /\ x # s
    BY <1>4, <1>5 DEF InTableNow, Has, Range
  <2>2. ASSUME NEW l \in 1..MaxStreams, ch[c].table[l] = x, x # s PROVE InTableNow(k, x)
    BY <1>5, <2>2 DEF InTableNow, Range
  <2> QED BY <1>4, <2>1, <2>2 DEF Has, Range
<1>7. Distinct(k.table)
  <2>1. Distinct(ch[c].table)
    BY CallingFacts
  <2> QED BY <1>5, <2>1 DEF Distinct
<1>8. Sound(t, k, NoCall)
  <2>1. Fits(t, k, NoCall)
    BY <1>2, <1>3 DEF Fits, Ends
  <2>2. NoCall.pc \notin Listing
    BY NoCallIs DEF Listing, Starting, StoppingAt, Ending, Undoing
  <2> QED BY <1>1, <1>2, <1>3, <1>6, <1>7, <2>1, <2>2 DEF Sound, InTableNow
<1>9. ByRemoved(t, c, k, NoCall)
  BY <1>1, <1>2, <1>3, <1>6 DEF ByRemoved, Ends
<1> QED BY <1>8, <1>9 DEF Does, By, BySimple

LEMMA DisposedBy ==
    ASSUME NEW t, Calling(t), DeleteChannel(t)
    PROVE  Does(t)
<1> DEFINE c == call[t].c
<1>1. Acts(t) /\ call[t].pc = "ch_wait" /\ ch[c].state = "STOPPED"
  BY DEF DeleteChannel, Handled, Waits, Acts, Calling, State
<1>2. call[t].op = "delete" /\ st' = st
  BY CallingFacts, DeleteChannelIs DEF Calling
<1>3. PICK k \in ChannelType, j \in CallType :
                 /\ Step(t, k, j) /\ Goes(t, j, "zero")
                 /\ k.state = "NOTUSED" /\ k.table = ch[c].table
                 /\ SameThreads(c, k) /\ SameQueue(c, k)
  BY CallingFacts, DeleteChannelIs DEF Calling
<1>4. Sound(t, k, j)
  <2>1. Fits(t, k, j)
    BY <1>2, <1>3, CallingFacts DEF Fits, Goes, Places
  <2>2. j.pc \notin Listing
    BY <1>3 DEF Goes, Listing, Starting, StoppingAt, Ending, Undoing
  <2> QED BY <1>1, <1>2, <1>3, <2>1, <2>2, CallingFacts DEF Sound, Has
<1>5. ByDisposed(t, c, k, j)
  BY <1>1, <1>2, <1>3 DEF ByDisposed, Goes
<1> QED BY <1>4, <1>5 DEF Does, By, BySimple

LEMMA ZeroedBy ==
    ASSUME NEW t, Calling(t), ZeroChannel(t)
    PROVE  Does(t)
<1> DEFINE c == call[t].c
<1>1. Acts(t) /\ call[t].pc = "zero"
  BY DEF ZeroChannel, Acts, Calling
<1>2. Step(t, NewChannel, NoCall) /\ st' = st /\ call[t].op = "delete"
  BY CallingFacts, ZeroChannelIs DEF Calling
<1>3. Sound(t, NewChannel, NoCall)
  <2>1. Used(NewChannel.table) = {} /\ \A i \in 1..MaxStreams : NewChannel.table[i] = None
    BY NewChannelTyped DEF NewChannel
  <2>2. \A s \in Streams : s \notin Range(NewChannel.table)
    BY ChannelConstantsOK DEF NewChannel, Range
  <2>3. Fits(t, NewChannel, NoCall)
    BY <2>1 DEF Fits, Ends
  <2>4. NoCall.pc \notin Listing
    BY NoCallIs DEF Listing, Starting, StoppingAt, Ending, Undoing
  <2> QED BY <1>1, <1>2, <2>1, <2>2, <2>3, <2>4 DEF Sound, Distinct
<1>4. ByZeroed(t, c, NewChannel, NoCall)
  BY <1>1, <1>2 DEF ByZeroed, Ends
<1> QED BY <1>3, <1>4 DEF Does, By, BySimple

LEMMA RequestedBy ==
    ASSUME NEW t, Calling(t), Request(t)
    PROVE  Does(t)
<1> DEFINE c == call[t].c
<1>1. Acts(t) /\ call[t].pc = "ch_wait"
  BY DEF Request, Handled, Waits, Acts, Calling
<1>2. call[t].op \in {"request", "cancel"} /\ ch[c].state = "ACTIVE" /\ st' = st
  BY CallingFacts, RequestIs DEF Calling
<1>3. PICK k \in ChannelType, n \in 0..1 :
          Step(t, k, NoCall) /\ Posted(c, [cmd |-> "REQ_DATA_CB", n |-> n], k)
  BY CallingFacts, RequestIs DEF Calling
<1>4. Sound(t, k, NoCall)
  BY <1>1, <1>2, <1>3, SameSound DEF SameTable, Ends, Posted
<1>5. ByRequested(t, c, k, NoCall)
  BY <1>1, <1>2, <1>3 DEF ByRequested, Ends
<1> QED BY <1>4, <1>5 DEF Does, By, BySimple

LEMMA FlushedBy ==
    ASSUME NEW t, Calling(t), Flush(t)
    PROVE  Does(t)
<1> DEFINE c == call[t].c
<1>1. Acts(t) /\ call[t].pc = "ch_wait"
  BY DEF Flush, Handled, Waits, Acts, Calling
<1>2. call[t].op = "flush" /\ ch[c].state = "ACTIVE" /\ st' = st
  BY CallingFacts, FlushIs DEF Calling
<1>3. PICK k \in ChannelType, j \in CallType :
          Step(t, k, j) /\ Goes(t, j, "flush_ack") /\ Posted(c, [cmd |-> "FLUSH_QUEUE", s |-> None], k)
  BY CallingFacts, FlushIs DEF Calling
<1>4. Sound(t, k, j)
  <2>1. j.pc = "flush_ack" /\ j.pc \in Places(call[t].op) /\ StateIn(j) = "ACTIVE" /\ j.pc \notin Listing
    BY <1>2, <1>3 DEF Goes, Places, StateIn, Listing, Starting, StoppingAt, Ending, Undoing
  <2> QED BY <1>1, <1>2, <1>3, <2>1, SameSound DEF SameTable, Posted
<1>5. ByFlushed(t, c, k, j)
  BY <1>1, <1>2, <1>3 DEF ByFlushed
<1> QED BY <1>4, <1>5 DEF Does, By, BySimple

LEMMA AckedBy ==
    ASSUME NEW t, Calling(t), FlushAcked(t) \/ UndoAcked(t) \/ StopAcked(t)
    PROVE  Does(t)
<1> DEFINE c == call[t].c
<1>1. Acts(t)
  BY DEF FlushAcked, UndoAcked, StopAcked, Acked, Acts, Calling, InChannel
<1>2. CASE FlushAcked(t)
  <2>1. PICK k \in ChannelType : Step(t, k, NoCall) /\ Acknowledged(c, k)
    BY <1>2, CallingFacts, FlushAckedIs DEF Calling
  <2>2. call[t].pc = "flush_ack" /\ st' = st
    BY <1>2, CallingFacts, FlushAckedIs DEF Calling
  <2>3. Sound(t, k, NoCall)
    BY <1>1, <2>1, SameSound DEF Ends, Acknowledged
  <2>4. ByAcked(t, c, k, NoCall)
    BY <2>1, <2>2 DEF ByAcked, Ends
  <2> QED BY <2>3, <2>4 DEF Does, By, BySimple
<1>3. ASSUME NEW pc, NEW next,
             (pc = "undo_ack" /\ next = "undo_copies") \/ (pc = "ack" /\ next = "threads"),
             Acked(t, pc, next)
      PROVE  Does(t)
  <2>0. (pc = "undo_ack" /\ next = "undo_copies") \/ (pc = "ack" /\ next = "threads")
    BY <1>3
  <2>9. next \in PCs
    BY <2>0 DEF PCs, Starting, Undoing, StoppingAt
  <2>1. PICK k \in ChannelType, j \in CallType :
                 /\ Step(t, k, j) /\ Goes(t, j, next) /\ Counts(t, j)
                 /\ Acknowledged(call[t].c, k)
    BY <1>3, <2>9, CallingFacts, WaitAckedIs DEF Calling
  <2>2. call[t].pc = pc /\ st' = st
    BY <1>3, <2>9, CallingFacts, WaitAckedIs DEF Calling
  <2>3. Sound(t, k, j)
    <3>1. /\ j.pc \in Places(call[t].op) \ {"ch_wait", "zero"} /\ StateIn(j) = StateIn(call[t])
          /\ call[t].pc \in Listing /\ InChannel(t) /\ call[t].op # "delete"
      BY <2>0, <2>1, <2>2, CallingFacts DEF Goes, Places, StateIn, Listing, Starting, StoppingAt, Ending, Undoing, InChannel
    <3>2. ListOK(j, k.table)
      BY <2>0, <2>1, <2>2, <3>1, CallingFacts DEF ListOK, Goes, Counts, Undoes, Acknowledged, SameTable, Undoing, Ending
    <3> QED BY <1>1, <2>1, <3>1, <3>2, CallingFacts, SameSound DEF Acknowledged, Goes
  <2>4. ByAcked(t, c, k, j)
    BY <2>0, <2>1, <2>2 DEF ByAcked
  <2> QED BY <2>3, <2>4 DEF Does, By, BySimple
<1> QED BY <1>2, <1>3 DEF UndoAcked, StopAcked

-----------------------------------------------------------------------------

LEMMA ListBegins ==
    ASSUME NEW t, NEW j, NEW k, Lists(call[t].c, j.ord), j.i = 1, j.pc \in {"link", "off"},
           j.c = call[t].c, SameTable(call[t].c, k)
    PROVE  ListOK(j, k.table)
<1>1. Len(j.ord) \in Nat
  BY DEF Lists
<1> QED BY <1>1 DEF ListOK, Lists, Has, Undoes, Undoing, Ending, SameTable

LEMMA BegunBy ==
    ASSUME NEW t, Calling(t), StartBegin(t)
    PROVE  Does(t)
<1> DEFINE c == call[t].c
<1>1. Acts(t) /\ call[t].pc = "ch_wait"
  BY DEF StartBegin, Handled, Waits, Acts, Calling
<1>2. call[t].op = "start" /\ ch[c].state = "STOPPED" /\ st' = st
  BY CallingFacts, StartBeginIs DEF Calling
<1>3. PICK k \in ChannelType, j \in CallType :
                 /\ Step(t, k, j) /\ Goes(t, j, "link") /\ j.i = 1 /\ Lists(c, j.ord)
                 /\ SameTable(c, k) /\ k.cur = ch[c].cur /\ k.found = ch[c].found
                 /\ ~IsBundle(c) => SameThreads(c, k) /\ SameQueue(c, k)
                 /\ IsBundle(c) => /\ k.cb = Launched /\ k.cmd = Launched /\ k.ack = 0
                                   /\ k.que = NoFrames /\ k.bundled = Own(c) \cup Links(c)
  BY CallingFacts, StartBeginIs DEF Calling
<1>4. Sound(t, k, j)
  <2>1. j.pc = "link" /\ j.pc \in Places(call[t].op) \ {"ch_wait", "zero"} /\ StateIn(j) = "STOPPED"
    BY <1>2, <1>3 DEF Goes, Places, StateIn, Starting, StoppingAt, Ending, Undoing
  <2>2. ListOK(j, k.table)
    BY <1>3, <2>1, ListBegins DEF Goes
  <2> QED BY <1>1, <1>2, <1>3, <2>1, <2>2, SameSound
<1>5. ByBegun(t, c, k, j)
  BY <1>1, <1>2, <1>3 DEF ByBegun
<1> QED BY <1>4, <1>5 DEF Does, By, ByStart

LEMMA StopBegunBy ==
    ASSUME NEW t, Calling(t), StopBegin(t)
    PROVE  Does(t)
<1> DEFINE c == call[t].c
<1>1. Acts(t) /\ call[t].pc = "ch_wait"
  BY DEF StopBegin, Handled, Waits, Acts, Calling
<1>2. call[t].op = "stop" /\ ch[c].state = "ACTIVE" /\ st' = st
  BY CallingFacts, StopBeginIs DEF Calling
<1>3. PICK j \in CallType :
          Step(t, ch[c], j) /\ Goes(t, j, "off") /\ j.i = 1 /\ Lists(c, j.ord)
  BY CallingFacts, StopBeginIs DEF Calling
<1>4. Sound(t, ch[c], j)
  <2>1. j.pc = "off" /\ j.pc \in Places(call[t].op) \ {"ch_wait", "zero"} /\ StateIn(j) = "ACTIVE"
    BY <1>2, <1>3 DEF Goes, Places, StateIn, Starting, StoppingAt, Ending, Undoing
  <2>3. SameTable(c, ch[c])
    BY DEF SameTable
  <2>2. ListOK(j, ch[c].table)
    BY <1>3, <2>1, <2>3, ListBegins DEF Goes
  <2> QED BY <1>1, <1>2, <1>3, <2>1, <2>2, <2>3, SameSound
<1>5. ByStopBegun(t, c, ch[c], j)
  BY <1>1, <1>2, <1>3 DEF ByStopBegun
<1> QED BY <1>4, <1>5 DEF Does, By, ByStop

\* The call goes on among the steps of its start or stop.
LEMMA GoesSound ==
    ASSUME NEW t, Calling(t), call[t].pc \in Listing, NEW k, NEW j, Step(t, k, j),
           SameTable(call[t].c, k), Goes(t, j, j.pc), j.pc \in Listing,
           j.pc \in Places(call[t].op), StateIn(j) = StateIn(call[t]), ListOK(j, k.table)
    PROVE  Sound(t, k, j)
<1>1. InChannel(t) /\ call[t].op # "delete" /\ j.pc \notin {"ch_wait", "zero"}
  BY CallingFacts DEF Listing, Starting, StoppingAt, Ending, Undoing, InChannel, Places
<1>2. Acts(t) /\ ch[call[t].c].state = StateIn(j)
  BY <1>1, CallingFacts DEF Acts, Calling
<1> QED BY <1>1, <1>2, SameSound

\* What stays of a list when the call goes on with it.
LEMMA ListStays ==
    ASSUME NEW t, NEW k, NEW j, ListOK(call[t], ch[call[t].c].table), SameTable(call[t].c, k),
           Goes(t, j, j.pc), Counts(t, j), j.pc \notin {"link", "undo_streams"},
           Undoes(j) => Undoes(call[t])
    PROVE  ListOK(j, k.table)
BY DEF ListOK, Goes, Counts, SameTable

LEMMA OpOf ==
    ASSUME NEW t, Calling(t), call[t].pc \in Listing
    PROVE  /\ call[t].op \in {"start", "stop"}
           /\ call[t].pc \in Starting => call[t].op = "start"
           /\ call[t].pc \in StoppingAt => call[t].op = "stop"
           /\ StateIn(call[t]) = IF call[t].op = "start" THEN "STOPPED" ELSE "ACTIVE"
BY CallingFacts DEF Listing, Starting, StoppingAt, Ending, Undoing, Places, StateIn

LEMMA LinkedBy ==
    ASSUME NEW t, Calling(t), StartLinks(t)
    PROVE  Does(t)
<1> DEFINE c == call[t].c
<1>1. call[t].pc = "link" /\ Relinked(c, c)
  BY CallingFacts, StartLinksIs DEF Calling
<1>2. PICK j \in CallType : Step(t, ch[c], j) /\ Goes(t, j, "streams") /\ Counts(t, j)
  BY CallingFacts, StartLinksIs DEF Calling
<1>3. /\ call[t].pc \in Listing /\ call[t].op = "start" /\ j.pc \in Listing
      /\ j.pc \in Places(call[t].op) /\ StateIn(j) = StateIn(call[t]) /\ ~Undoes(j)
      /\ j.pc = "streams" /\ j.op = "start"
  BY <1>1, <1>2, OpOf DEF Listing, Starting, StoppingAt, Ending, Undoing, Places, StateIn, Undoes, Goes
<1>4. SameTable(c, ch[c])
  BY DEF SameTable
<1>5. ListOK(j, ch[c].table)
  BY <1>2, <1>3, <1>4, CallingFacts, ListStays
<1>6. Sound(t, ch[c], j)
  BY <1>2, <1>3, <1>4, <1>5, GoesSound
<1>7. ByLinked(t, c, ch[c], j)
  BY <1>1, <1>2 DEF ByLinked
<1> QED BY <1>6, <1>7 DEF Does, By, ByStart

LEMMA StartedBy ==
    ASSUME NEW t, Calling(t), StartStream(t)
    PROVE  Does(t)
<1> DEFINE c == call[t].c
           s == Current(t)
<1>1. call[t].pc \in Listing /\ ListOK(call[t], ch[c].table)
  BY CallingFacts DEF StartStream, Listing, Starting
<1>2. call[t].pc = "streams" /\ call[t].i \in DOMAIN call[t].ord /\ s \in Streams
  BY <1>1, CallingFacts, StartStreamIs DEF Calling, ListOK
<1>3. PICK j \in CallType :
                 /\ Step(t, ch[c], j)
                 /\ \/ /\ Advances(t, j)
                       /\ IF Owner[s] = c THEN Restarted(s, "ACTIVE") ELSE st' = st
                    \/ /\ Goes(t, j, "undo_links") /\ Counts(t, j) /\ Owner[s] = c
                       /\ \E where \in {"CFG", "BUFFED", "REG"} : Restated(s, where)
  BY <1>1, CallingFacts, StartStreamIs DEF Calling, ListOK
<1>4. SameTable(c, ch[c])
  BY DEF SameTable
<1>5. /\ call[t].op = "start" /\ j.op = "start" /\ j.pc \in {"streams", "undo_links"} /\ Goes(t, j, j.pc)
      /\ j.pc \in Listing /\ j.pc \in Places(call[t].op) /\ StateIn(j) = StateIn(call[t])
  BY <1>1, <1>2, <1>3, OpOf DEF Listing, Starting, StoppingAt, Ending, Undoing, Places, StateIn, Goes, Advances
<1>6. ListOK(j, ch[c].table)
  <2>1. call[t].i \in 1..Len(call[t].ord) /\ Len(call[t].ord) \in Nat /\ j.ord = call[t].ord /\ j.c = c
    BY <1>2, <1>3, CallingFacts DEF CallType, Advances, Counts, Goes
  <2>2. CASE Advances(t, j)
    BY <1>1, <1>2, <2>1, <2>2 DEF ListOK, Advances, Goes, Undoes, Undoing, Ending
  <2>3. CASE Goes(t, j, "undo_links") /\ Counts(t, j) /\ Owner[s] = c
    BY <1>1, <1>2, <2>1, <2>3 DEF ListOK, Goes, Counts, Current
  <2> QED BY <1>3, <2>2, <2>3
<1>7. Sound(t, ch[c], j)
  BY <1>1, <1>3, <1>4, <1>5, <1>6, GoesSound
<1>8. ByStarted(t, c, ch[c], j) \/ ByFailed(t, c, ch[c], j)
  BY <1>2, <1>3 DEF ByStarted, ByFailed
<1> QED BY <1>7, <1>8 DEF Does, By, ByStart

LEMMA ActiveBy ==
    ASSUME NEW t, Calling(t), StartEnds(t)
    PROVE  Does(t)
<1> DEFINE c == call[t].c
<1>1. call[t].pc = "streams" /\ call[t].i > Len(call[t].ord) /\ st' = st
  BY CallingFacts, StartEndsIs DEF Calling
<1>2. PICK k \in ChannelType :
                 /\ Step(t, k, NoCall) /\ k.state = "ACTIVE" /\ k.table = ch[c].table
                 /\ SameThreads(c, k) /\ SameQueue(c, k)
  BY CallingFacts, StartEndsIs DEF Calling
<1>3. call[t].op = "start" /\ Acts(t)
  BY <1>1, OpOf DEF Listing, Starting, Acts, InChannel, Calling
<1>4. Fits(t, k, NoCall)
  BY <1>2, <1>3 DEF Fits, Ends
<1>5. NoCall.pc \notin Listing
  BY NoCallIs DEF Listing, Starting, StoppingAt, Ending, Undoing
<1>6. Sound(t, k, NoCall)
  BY <1>2, <1>3, <1>4, <1>5, CallingFacts DEF Sound, Has
<1>7. ByActive(t, c, k, NoCall)
  BY <1>1, <1>2 DEF ByActive, Ends
<1> QED BY <1>6, <1>7 DEF Does, By, ByStart

LEMMA UndoLinksBy ==
    ASSUME NEW t, Calling(t), UndoLinks(t)
    PROVE  Does(t)
<1> DEFINE c == call[t].c
<1>1. call[t].pc = "undo_links"
  BY DEF UndoLinks
<1>2. call[t].pc \in Listing /\ ListOK(call[t], ch[c].table) /\ call[t].i \in DOMAIN call[t].ord
      /\ Undoes(call[t])
  BY <1>1, CallingFacts DEF ListOK, Listing, Starting, Undoing, Undoes
<1>3. Relinked(c, None) /\ Current(t) \in Streams
  BY <1>2, CallingFacts, UndoLinksIs DEF Calling
<1>4. PICK k \in ChannelType, j \in CallType :
                 /\ Step(t, k, j) /\ Counts(t, j)
                 /\ \/ /\ Links(c) # {} /\ IsBundle(c) /\ Goes(t, j, "undo_ack")
                       /\ Posted(c, [cmd |-> "FLUSH_QUEUE", s |-> Current(t)], k)
                    \/ (Links(c) = {} \/ ~IsBundle(c)) /\ Goes(t, j, "undo_copies") /\ k = ch[c]
  BY <1>2, CallingFacts, UndoLinksIs DEF Calling
<1>5. SameTable(c, k)
  BY <1>4 DEF SameTable, Posted
<1>6. /\ call[t].op = "start" /\ j.op = "start" /\ j.pc \in {"undo_ack", "undo_copies"} /\ Goes(t, j, j.pc)
      /\ j.pc \in Listing /\ j.pc \in Places(call[t].op) /\ StateIn(j) = StateIn(call[t])
  BY <1>1, <1>2, <1>4, OpOf DEF Listing, Starting, StoppingAt, Ending, Undoing, Places, StateIn, Goes
<1>7. ListOK(j, k.table)
  BY <1>2, <1>4, <1>5, <1>6, ListStays
<1>8. Sound(t, k, j)
  BY <1>2, <1>4, <1>5, <1>6, <1>7, GoesSound
<1>9. ByUndoLinks(t, c, k, j)
  BY <1>1, <1>3, <1>4 DEF ByUndoLinks, ByUnlinked
<1> QED BY <1>8, <1>9 DEF Does, By, ByStart

LEMMA StopLinksBy ==
    ASSUME NEW t, Calling(t), StopLinks(t)
    PROVE  Does(t)
<1> DEFINE c == call[t].c
<1>1. call[t].pc = "off" /\ call[t].i > Len(call[t].ord) /\ Relinked(c, None)
  BY CallingFacts, StopLinksIs DEF Calling
<1>2. call[t].pc \in Listing /\ ListOK(call[t], ch[c].table)
  BY <1>1, CallingFacts DEF Listing, StoppingAt
<1>4. PICK k \in ChannelType, j \in CallType, s \in Streams \cup {None} :
                 /\ Step(t, k, j) /\ Counts(t, j)
                 /\ \/ /\ Links(c) # {} /\ IsBundle(c) /\ Goes(t, j, "ack") /\ s \in Links(c)
                       /\ Posted(c, [cmd |-> "FLUSH_QUEUE", s |-> s], k)
                    \/ (Links(c) = {} \/ ~IsBundle(c)) /\ Goes(t, j, "threads") /\ k = ch[c]
  BY CallingFacts, StopLinksIs DEF Calling
<1>5. SameTable(c, k)
  BY <1>4 DEF SameTable, Posted
<1>6. /\ call[t].op = "stop" /\ j.op = "stop" /\ j.pc \in {"ack", "threads"} /\ Goes(t, j, j.pc)
      /\ j.pc \in Listing /\ j.pc \in Places(call[t].op) /\ StateIn(j) = StateIn(call[t]) /\ ~Undoes(j)
  BY <1>1, <1>2, <1>4, OpOf DEF Listing, Starting, StoppingAt, Ending, Undoing, Places, StateIn, Goes, Undoes
<1>7. ListOK(j, k.table)
  BY <1>2, <1>4, <1>5, <1>6, ListStays
<1>8. Sound(t, k, j)
  BY <1>2, <1>4, <1>5, <1>6, <1>7, GoesSound
<1>10. \A x \in Links(c) : x \in Streams
  BY DEF Links
<1>9. ByStopLinks(t, c, k, j)
  BY <1>1, <1>4, <1>10 DEF ByStopLinks, ByUnlinked
<1> QED BY <1>8, <1>9 DEF Does, By, ByStop

LEMMA WithoutHas ==
    ASSUME NEW c \in Channels, ch[c] \in ChannelType, Distinct(ch[c].table), NEW k, WithoutIs(c, k.table)
    PROVE  /\ \A x \in Streams : InTableNow(k, x) <=> x \in Own(c)
           /\ Distinct(k.table)
<1> USE ChannelConstantsOK
<1>1. /\ ch[c].table \in [1..MaxStreams -> Streams \cup {None}] /\ DOMAIN k.table = 1..MaxStreams
      /\ \A i \in 1..MaxStreams : k.table[i] = IF ch[c].table[i] \in Links(c) THEN None
                                               ELSE ch[c].table[i]
  BY DEF ChannelType, WithoutIs
<1>2. ASSUME NEW x \in Streams, InTableNow(k, x) PROVE x \in Own(c)
  <2>1. PICK i \in 1..MaxStreams : k.table[i] = x
    BY <1>1, <1>2 DEF InTableNow, Range
  <2>2. ch[c].table[i] = x /\ x \notin Links(c)
    BY <1>1, <1>2, <2>1
  <2> QED BY <1>1, <2>2 DEF Own, Links, Has, Range
<1>3. ASSUME NEW x \in Own(c) PROVE InTableNow(k, x)
  <2>1. PICK i \in 1..MaxStreams : ch[c].table[i] = x
    BY <1>1 DEF Own, Has, Range
  <2>2. k.table[i] = x
    BY <1>1, <2>1 DEF Own, Links
  <2> QED BY <1>1, <2>2 DEF InTableNow, Range
<1>4. Distinct(k.table)
  BY <1>1 DEF Distinct
<1> QED BY <1>2, <1>3, <1>4

-----------------------------------------------------------------------------

LEMMA ClearedBy ==
    ASSUME NEW t, Calling(t), UndoCopies(t)
    PROVE  Does(t)
<1> DEFINE c == call[t].c
<1>1. call[t].pc = "undo_copies" /\ st' = st
  BY CallingFacts, UndoCopiesIs DEF Calling
<1>2. PICK k \in ChannelType, j \in CallType :
                 /\ Step(t, k, j) /\ Goes(t, j, "undo_streams")
                 /\ j.ord = call[t].ord /\ j.i = call[t].i /\ j.j = 1
                 /\ k.state = ch[c].state /\ WithoutIs(c, k.table)
                 /\ SameThreads(c, k) /\ SameQueue(c, k)
  BY CallingFacts, UndoCopiesIs DEF Calling
<1>3. (\A x \in Streams : InTableNow(k, x) <=> x \in Own(c)) /\ Distinct(k.table)
  BY <1>2, CallingFacts, WithoutHas
<1>4. call[t].pc \in Listing /\ ListOK(call[t], ch[c].table) /\ Undoes(call[t])
  BY <1>1, CallingFacts DEF Listing, Starting, Undoing, Undoes
<1>5. /\ call[t].op = "start" /\ j.pc = "undo_streams" /\ Goes(t, j, j.pc) /\ InChannel(t) /\ Acts(t)
      /\ j.pc \in Places(call[t].op) \ {"ch_wait"} /\ k.state = StateIn(j) /\ k.state = "STOPPED"
  BY <1>1, <1>2, <1>4, OpOf, CallingFacts DEF Listing, Starting, StoppingAt, Ending, Undoing, Places, StateIn,
     Goes, InChannel, Acts, Calling
<1>6. ListOK(j, k.table)
  <2>1. call[t].i \in DOMAIN call[t].ord /\ call[t].ord \in Seq(Streams)
    BY <1>4, CallingFacts DEF ListOK, CallType
  <2>3. 1 \in 1..call[t].i + 1
    BY <2>1
  <2>2. \A x \in Streams : Owner[x] = c => (x \in Range(k.table) <=> x \in Range(ch[c].table))
    BY <1>3 DEF InTableNow, Own, Has
  <2> QED BY <1>2, <1>4, <1>5, <2>2, <2>3 DEF ListOK, Goes
<1>7. Sound(t, k, j)
  <2>1. \A x \in Streams : x \in Range(k.table) => Has(c, x)
    BY <1>3 DEF InTableNow, Own
  <2>2. Fits(t, k, j)
    BY <1>5 DEF Fits
  <2> QED BY <1>2, <1>3, <1>5, <1>6, <2>1, <2>2, CallingFacts DEF Sound
<1>8. ByCleared(t, c, k, j)
  BY <1>1, <1>2, <1>3 DEF ByCleared
<1> QED BY <1>7, <1>8 DEF Does, By, ByStart

LEMMA UndoneBy ==
    ASSUME NEW t, Calling(t), UndoStream(t)
    PROVE  Does(t)
<1> DEFINE c == call[t].c
           s == call[t].ord[call[t].j]
<1>0. call[t].pc = "undo_streams" /\ call[t].j <= call[t].i
  BY DEF UndoStream
<1>4. call[t].pc \in Listing /\ ListOK(call[t], ch[c].table) /\ Undoes(call[t])
  BY <1>0, CallingFacts DEF Listing, Starting, Undoing, Undoes
<1>5. call[t].i \in DOMAIN call[t].ord /\ call[t].j \in 1..call[t].i + 1
      /\ call[t].ord \in Seq(Streams)
  BY <1>0, <1>4, CallingFacts DEF ListOK, CallType
<1>1. /\ call[t].j \in 1..call[t].i /\ s \in Streams
      /\ IF Owner[s] = c THEN Restarted(s, "CFG") ELSE st' = st
  BY <1>5, CallingFacts, UndoStreamIs DEF Calling
<1>2. PICK j \in CallType :
                 /\ Step(t, ch[c], j) /\ Goes(t, j, "undo_streams")
                 /\ j.ord = call[t].ord /\ j.i = call[t].i /\ j.j = call[t].j + 1
  BY <1>5, CallingFacts, UndoStreamIs DEF Calling
<1>3. SameTable(c, ch[c])
  BY DEF SameTable
<1>6. /\ j.pc = "undo_streams" /\ Goes(t, j, j.pc) /\ j.pc \in Listing
      /\ j.pc \in Places(call[t].op) /\ StateIn(j) = StateIn(call[t])
  BY <1>0, <1>2, <1>4, CallingFacts DEF Goes, StateIn, Ending, StoppingAt
<1>7. ListOK(j, ch[c].table)
  <2>1. call[t].j \in Nat /\ call[t].i \in Nat
    BY CallingFacts DEF CallType
  <2>2. j.j \in 1..j.i + 1
    BY <1>1, <1>2, <2>1
  <2> QED BY <1>2, <1>4, <1>6, <2>2 DEF ListOK, Goes
<1>8. Sound(t, ch[c], j)
  BY <1>2, <1>3, <1>4, <1>6, <1>7, GoesSound
<1>10. call[t].j \in DOMAIN call[t].ord
  BY <1>1, <1>5
<1>9. ByUndone(t, c, ch[c], j)
  BY <1>0, <1>1, <1>2, <1>10 DEF ByUndone
<1> QED BY <1>8, <1>9 DEF Does, By, ByStart

LEMMA StoppedBy ==
    ASSUME NEW t, Calling(t), StopStream(t)
    PROVE  Does(t)
<1> DEFINE c == call[t].c
           s == Current(t)
<1>1. call[t].pc \in Listing /\ ListOK(call[t], ch[c].table)
  BY CallingFacts DEF StopStream, Listing, StoppingAt
<1>2. /\ call[t].pc = "off" /\ call[t].i \in DOMAIN call[t].ord /\ s \in Streams
      /\ IF Owner[s] = c THEN Restarted(s, "BUFFED") ELSE st' = st
  BY <1>1, CallingFacts, StopStreamIs DEF Calling, ListOK
<1>3. PICK j \in CallType : Step(t, ch[c], j) /\ Advances(t, j)
  BY <1>1, CallingFacts, StopStreamIs DEF Calling, ListOK
<1>4. SameTable(c, ch[c])
  BY DEF SameTable
<1>5. /\ j.pc = "off" /\ Goes(t, j, j.pc)
      /\ j.pc \in Listing /\ j.pc \in Places(call[t].op) /\ StateIn(j) = StateIn(call[t])
  BY <1>1, <1>2, <1>3, CallingFacts DEF StateIn, Goes, Advances, StoppingAt
<1>6. ListOK(j, ch[c].table)
  <2>1. call[t].i \in 1..Len(call[t].ord) /\ Len(call[t].ord) \in Nat
    BY <1>2, CallingFacts DEF CallType
  <2> QED BY <1>1, <1>2, <1>3, <1>5, <2>1 DEF ListOK, Advances, Goes, Undoes, Undoing, Ending
<1>7. Sound(t, ch[c], j)
  BY <1>1, <1>3, <1>4, <1>5, <1>6, GoesSound
<1>8. ByStopped(t, c, ch[c], j)
  BY <1>2, <1>3 DEF ByStopped
<1> QED BY <1>7, <1>8 DEF Does, By, ByStop

LEMMA ReleasedBy ==
    ASSUME NEW t, Calling(t), ReleaseThreads(t)
    PROVE  Does(t)
<1> DEFINE c == call[t].c
<1>1. /\ \/ call[t].pc = "threads"
         \/ call[t].pc = "undo_streams" /\ call[t].j > call[t].i
      /\ st' = st
  BY CallingFacts, ReleaseThreadsIs DEF Calling
<1>2. PICK k \in ChannelType, j \in CallType :
                 /\ Step(t, k, j) /\ Counts(t, j)
                 /\ \/ IsBundle(c) /\ Goes(t, j, "cmd_join") /\ Posted(c, [cmd |-> "EXIT"], k)
                    \/ ~IsBundle(c) /\ Goes(t, j, "put") /\ k = ch[c]
  BY CallingFacts, ReleaseThreadsIs DEF Calling
<1>3. call[t].pc \in Listing /\ ListOK(call[t], ch[c].table)
  BY <1>1, CallingFacts DEF Listing, Starting, Undoing, StoppingAt
<1>4. SameTable(c, k)
  BY <1>2 DEF SameTable, Posted
<1>5. /\ j.pc \in {"cmd_join", "put"} /\ Goes(t, j, j.pc) /\ j.op = call[t].op
      /\ j.pc \in Listing /\ j.pc \in Places(call[t].op) /\ StateIn(j) = StateIn(call[t])
  BY <1>1, <1>2, <1>3, OpOf DEF Listing, Starting, StoppingAt, Ending, Undoing, Places, StateIn, Goes
<1>6. Undoes(j) => Undoes(call[t])
  BY <1>1, <1>3, <1>5, OpOf DEF Undoes, Starting, StoppingAt, Ending, Undoing
<1>7. ListOK(j, k.table)
  BY <1>2, <1>3, <1>4, <1>5, <1>6, ListStays
<1>8. Sound(t, k, j)
  BY <1>2, <1>3, <1>4, <1>5, <1>7, GoesSound
<1>10. call[t].pc = "undo_streams" => (call[t].j > call[t].i => call[t].j = call[t].i + 1)
  BY <1>3, CallingFacts DEF ListOK, CallType
<1>9. ByReleased(t, c, k, j)
  BY <1>1, <1>2, <1>10 DEF ByReleased
<1> QED BY <1>8, <1>9 DEF Does, By, ByStop

LEMMA CmdJoinedBy ==
    ASSUME NEW t, Calling(t), CmdJoined(t)
    PROVE  Does(t)
<1> DEFINE c == call[t].c
<1>1. call[t].pc = "cmd_join" /\ ~ch[c].cmd.up /\ st' = st
  BY CallingFacts, CmdJoinedIs DEF Calling
<1>2. PICK k \in ChannelType, j \in CallType :
                 /\ Step(t, k, j) /\ Goes(t, j, "cb_join") /\ Counts(t, j)
                 /\ SameTable(c, k) /\ SameQueue(c, k)
                 /\ k.cmd = Thread /\ k.ack = ch[c].ack
                 /\ k.cb.up = ch[c].cb.up /\ k.cb.bye = ch[c].cb.bye
                 /\ k.cb.q = Append(ch[c].cb.q, [cmd |-> "EXIT"])
                 /\ k.cur = ch[c].cur /\ k.found = ch[c].found
  BY CallingFacts, CmdJoinedIs DEF Calling
<1>3. call[t].pc \in Listing /\ ListOK(call[t], ch[c].table)
  BY <1>1, CallingFacts DEF Listing, Ending
<1>5. /\ j.pc = "cb_join" /\ Goes(t, j, j.pc) /\ j.op = call[t].op
      /\ j.pc \in Listing /\ j.pc \in Places(call[t].op) /\ StateIn(j) = StateIn(call[t])
  BY <1>1, <1>2, <1>3, OpOf DEF Listing, Starting, StoppingAt, Ending, Undoing, Places, StateIn, Goes
<1>6. Undoes(j) => Undoes(call[t])
  BY <1>1, <1>5 DEF Undoes, Ending, Undoing
<1>7. ListOK(j, k.table)
  BY <1>2, <1>3, <1>5, <1>6, ListStays
<1>8. Sound(t, k, j)
  BY <1>2, <1>3, <1>5, <1>7, GoesSound
<1>9. ByCmdJoined(t, c, k, j)
  BY <1>1, <1>2 DEF ByCmdJoined
<1> QED BY <1>8, <1>9 DEF Does, By, ByStop

LEMMA CbJoinedBy ==
    ASSUME NEW t, Calling(t), CbJoined(t)
    PROVE  Does(t)
<1> DEFINE c == call[t].c
<1>1. call[t].pc = "cb_join" /\ ~ch[c].cb.up /\ st' = st
  BY CallingFacts, CbJoinedIs DEF Calling
<1>2. PICK k \in ChannelType, j \in CallType :
                 /\ Step(t, k, j) /\ Goes(t, j, "put") /\ Counts(t, j)
                 /\ SameTable(c, k) /\ k.cmd = ch[c].cmd /\ k.cb = Thread /\ k.ack = ch[c].ack
                 /\ k.bundled = ch[c].bundled /\ k.que = NoFrames
                 /\ k.cur = ch[c].cur /\ k.found = ch[c].found
  BY CallingFacts, CbJoinedIs DEF Calling
<1>3. call[t].pc \in Listing /\ ListOK(call[t], ch[c].table)
  BY <1>1, CallingFacts DEF Listing, Ending
<1>5. /\ j.pc = "put" /\ Goes(t, j, j.pc) /\ j.op = call[t].op
      /\ j.pc \in Listing /\ j.pc \in Places(call[t].op) /\ StateIn(j) = StateIn(call[t])
  BY <1>1, <1>2, <1>3, OpOf DEF Listing, Starting, StoppingAt, Ending, Undoing, Places, StateIn, Goes
<1>6. Undoes(j) => Undoes(call[t])
  BY <1>1, <1>5 DEF Undoes, Ending, Undoing
<1>7. ListOK(j, k.table)
  BY <1>2, <1>3, <1>5, <1>6, ListStays
<1>8. Sound(t, k, j)
  BY <1>2, <1>3, <1>5, <1>7, GoesSound
<1>9. ByCbJoined(t, c, k, j)
  BY <1>1, <1>2 DEF ByCbJoined
<1> QED BY <1>8, <1>9 DEF Does, By, ByStop

LEMMA PutBy ==
    ASSUME NEW t, Calling(t), PutBufs(t)
    PROVE  Does(t)
<1> DEFINE c == call[t].c
<1>1. /\ call[t].pc = "put"
      /\ \A s \in Streams :
            /\ st'[s].state = IF s \in Own(c) /\ st[s].state = "BUFFED" THEN "CFG" ELSE st[s].state
            /\ st'[s].link = st[s].link /\ st'[s].out = st[s].out /\ st'[s].lost = st[s].lost
  BY CallingFacts, PutBufsIs DEF Calling
<1>2. PICK k \in ChannelType :
                 /\ Step(t, k, NoCall) /\ k.state = "STOPPED" /\ WithoutIs(c, k.table)
                 /\ SameThreads(c, k) /\ SameQueue(c, k)
  BY CallingFacts, PutBufsIs DEF Calling
<1>3. (\A x \in Streams : InTableNow(k, x) <=> x \in Own(c)) /\ Distinct(k.table)
  BY <1>2, CallingFacts, WithoutHas
<1>4. call[t].op \in {"start", "stop"} /\ Acts(t)
  BY <1>1, OpOf DEF Listing, Ending, Acts, InChannel, Calling
<1>5. Fits(t, k, NoCall)
  BY <1>2, <1>4 DEF Fits, Ends
<1>6. NoCall.pc \notin Listing
  BY NoCallIs DEF Listing, Starting, StoppingAt, Ending, Undoing
<1>7. Sound(t, k, NoCall)
  <2>1. \A x \in Streams : x \in Range(k.table) => Has(c, x)
    BY <1>3 DEF InTableNow, Own
  <2> QED BY <1>2, <1>3, <1>4, <1>5, <1>6, <2>1 DEF Sound
<1>8. ByPut(t, c, k, NoCall)
  BY <1>1, <1>2, <1>3 DEF ByPut, Ends
<1> QED BY <1>7, <1>8 DEF Does, By, ByStop

LEMMA CallStepBy ==
    ASSUME BaseInv, NEW t \in Threads, CallStep(t)
    PROVE  Does(t)
<1>1. Calling(t)
  BY DEF Calling, CallStep
<1>2. \/ SimpleCall(t) \/ FlushCall(t) \/ StartCall(t) \/ UndoCall(t) \/ StopCall(t) \/ EndCall(t)
  BY DEF CallStep
<1>3. CASE SimpleCall(t) \/ FlushCall(t)
  BY <1>1, <1>3, IgnoredBy, AddedBy, RemovedBy, DisposedBy, ZeroedBy, RequestedBy, FlushedBy, AckedBy
     DEF SimpleCall, FlushCall
<1>4. CASE StartCall(t) \/ UndoCall(t)
  BY <1>1, <1>4, BegunBy, LinkedBy, StartedBy, ActiveBy, UndoLinksBy, AckedBy, ClearedBy, UndoneBy
     DEF StartCall, UndoCall
<1>5. CASE StopCall(t) \/ EndCall(t)
  BY <1>1, <1>5, StopBegunBy, StoppedBy, StopLinksBy, AckedBy, ReleasedBy, CmdJoinedBy, CbJoinedBy, PutBy
     DEF StopCall, EndCall
<1> QED BY <1>2, <1>3, <1>4, <1>5

-----------------------------------------------------------------------------
(* What the threads and the client do to the record k of channel c *)

ByFrame(c, k) ==
    \E s \in Streams :
       /\ st[s].state = "ACTIVE" /\ c = Target(s) /\ hold' = hold
       /\ \A x \in Streams \ {s} : st'[x] = st[x]
       /\ st'[s].out = st[s].out + 1 /\ st'[s].lost = st[s].lost
       /\ Posted(c, [cmd |-> "DATA_CB", s |-> s], k)
ByOpened(c, k) ==
    /\ ch[c].state = "NOTUSED" /\ Calls(c) = {} /\ st' = st /\ hold' = hold
    /\ k.state = "STOPPED" /\ k.table = ch[c].table /\ SameThreads(c, k) /\ SameQueue(c, k)
ByCommand(c, k) ==
    /\ ch[c].cmd.up /\ ch[c].cmd.q # <<>> /\ ch[c].cmd.q \in Seq(CmdNodes)
    /\ hold' = hold /\ Worked(c, k)
    /\ WorkData(c, k) \/ WorkRequest(c, k) \/ WorkFlush(c, k) \/ WorkExit(c, k)
ByCmdEnd(c, k) ==
    /\ ch[c].cmd.up /\ ch[c].cmd.bye /\ ch[c].cmd.q = <<>> /\ st' = st /\ hold' = hold
    /\ SameTable(c, k) /\ SameQueue(c, k) /\ ~k.cmd.up
    /\ k.cmd.q = ch[c].cmd.q /\ k.cb = ch[c].cb /\ k.ack = ch[c].ack
    /\ k.cur = ch[c].cur /\ k.found = ch[c].found
ByCallback(c, k) ==
    /\ ch[c].cb.up /\ ch[c].cb.q \in Seq(CbNodes) /\ ch[c].cb.q # <<>> /\ ch[c].cur = {}
    /\ st' = st /\ hold' = hold /\ SameTable(c, k) /\ SameUse(c, k) /\ k.found = ch[c].found
    /\ k.cb.up = ch[c].cb.up /\ k.cb.q = Tail(ch[c].cb.q)
    /\ \/ Head(ch[c].cb.q).cmd = "EXIT" /\ k.cur = {}
       \/ /\ Head(ch[c].cb.q).cmd = "SUPER_BUF" /\ k.cb.bye = ch[c].cb.bye
          /\ k.cur = Head(ch[c].cb.q).bufs
ByCbEnd(c, k) ==
    /\ ch[c].cb.up /\ ch[c].cb.bye /\ ch[c].cb.q = <<>> /\ ch[c].cur = {} /\ st' = st /\ hold' = hold
    /\ SameTable(c, k) /\ SameUse(c, k) /\ ~k.cb.up
    /\ k.cb.q = ch[c].cb.q /\ k.cur = ch[c].cur /\ k.found = ch[c].found
ByKept(c, k) ==
    /\ ch[c].cur # {} /\ ch[c].found = None /\ ~Stopping(c) /\ st' = st
    /\ \A d \in Channels \ {c} : hold'[d] = hold[d]
    /\ \A s \in Streams : hold'[c][s] = IF s \in ch[c].cur THEN hold[c][s] + 1 ELSE hold[c][s]
    /\ SameTable(c, k) /\ SameUse(c, k) /\ k.cb = ch[c].cb /\ k.cur = {} /\ k.found = ch[c].found
ByLookUp(c, k) ==
    /\ ch[c].found = None /\ st' = st /\ hold' = hold
    /\ SameTable(c, k) /\ SameUse(c, k) /\ k.cb = ch[c].cb
    /\ k.cur = ch[c].cur /\ k.found \in ch[c].cur
ByGivenBack(c, k) ==
    /\ ch[c].found \in Streams /\ st' = Qbuf(c, ch[c].found, 1) /\ hold' = hold
    /\ SameTable(c, k) /\ SameUse(c, k) /\ k.cb = ch[c].cb
    /\ k.cur = ch[c].cur \ {ch[c].found} /\ k.found = None
ByReturned(c, k) ==
    \E s \in Streams :
       /\ hold[c][s] > 0 /\ st' = Qbuf(c, s, 1) /\ k = ch[c]
       /\ \A d \in Channels \ {c} : hold'[d] = hold[d]
       /\ \A x \in Streams : hold'[c][x] = IF x = s THEN hold[c][s] - 1 ELSE hold[c][x]
ByWork(c, k) ==
    \/ ByFrame(c, k) \/ ByOpened(c, k) \/ ByCommand(c, k) \/ ByCmdEnd(c, k)
    \/ ByCallback(c, k) \/ ByCbEnd(c, k) \/ ByKept(c, k) \/ ByLookUp(c, k)
    \/ ByGivenBack(c, k) \/ ByReturned(c, k)

Works(c) == \E k : Work(c, k) /\ ByWork(c, k)

LEMMA FrameBy ==
    ASSUME TypeOK, NEW s \in Streams, Frame(s)
    PROVE  \E c \in Channels : Works(c)
<1> DEFINE c == Target(s)
<1>1. /\ c \in Channels /\ st[s].state = "ACTIVE" /\ hold' = hold
      /\ \A x \in Streams \ {s} : st'[x] = st[x]
      /\ st'[s].out = st[s].out + 1 /\ st'[s].lost = st[s].lost
  BY FrameIs
<1>2. PICK k \in ChannelType : Work(c, k) /\ Posted(c, [cmd |-> "DATA_CB", s |-> s], k)
  BY FrameIs
<1>3. ByFrame(c, k)
  BY <1>1, <1>2 DEF ByFrame
<1> QED BY <1>1, <1>2, <1>3 DEF Works, ByWork

LEMMA WorksBy ==
    ASSUME TypeOK, NEW c \in Channels, ~scene.reuses,
           \/ AddChannel(c) \/ CmdStep(c) \/ CmdEnds(c) \/ CbStep(c) \/ CbEnds(c)
           \/ ClientKeeps(c) \/ CallbackQbuf(c)
           \/ \E s \in Streams : LookUp(c, s) \/ ClientQbuf(c, s)
    PROVE  Works(c)
<1>1. CASE AddChannel(c)
  <2>1. ch[c].state = "NOTUSED" /\ st' = st /\ hold' = hold /\ Calls(c) = {}
    BY <1>1, AddChannelIs
  <2>2. PICK k \in ChannelType : /\ Work(c, k) /\ k.state = "STOPPED" /\ k.table = ch[c].table
                                 /\ SameThreads(c, k) /\ SameQueue(c, k)
    BY <1>1, AddChannelIs
  <2>3. ByOpened(c, k)
    BY <2>1, <2>2 DEF ByOpened
  <2> QED BY <2>2, <2>3 DEF Works, ByWork
<1>2. CASE CmdStep(c)
  <2>1. PICK k \in ChannelType :
              /\ ch[c].cmd.up /\ ch[c].cmd.q # <<>> /\ ch[c].cmd.q \in Seq(CmdNodes)
              /\ ch' = [ch EXCEPT ![c] = k] /\ SameLife(st')
              /\ UNCHANGED <<scene, call, hold>>
              /\ Worked(c, k)
              /\ WorkData(c, k) \/ WorkRequest(c, k) \/ WorkFlush(c, k) \/ WorkExit(c, k)
    BY <1>2, CmdStepIs
  <2>2. Work(c, k)
    BY <2>1 DEF Work, TypeOK
  <2>3. ByCommand(c, k)
    BY <2>1 DEF ByCommand
  <2> QED BY <2>2, <2>3 DEF Works, ByWork
<1>3. CASE CmdEnds(c)
  <2>1. /\ ch[c].cmd.up /\ ch[c].cmd.bye /\ ch[c].cmd.q = <<>> /\ st' = st /\ hold' = hold
    BY <1>3, CmdEndsIs
  <2>2. PICK k \in ChannelType :
                 /\ Work(c, k) /\ SameTable(c, k) /\ SameQueue(c, k) /\ ~k.cmd.up
                 /\ k.cmd.q = ch[c].cmd.q /\ k.cb = ch[c].cb /\ k.ack = ch[c].ack
                 /\ k.cur = ch[c].cur /\ k.found = ch[c].found
    BY <1>3, CmdEndsIs
  <2>3. ByCmdEnd(c, k)
    BY <2>1, <2>2 DEF ByCmdEnd
  <2> QED BY <2>2, <2>3 DEF Works, ByWork
<1>4. CASE CbStep(c)
  <2>1. /\ ch[c].cb.up /\ ch[c].cb.q \in Seq(CbNodes) /\ ch[c].cb.q # <<>> /\ ch[c].cur = {}
        /\ st' = st /\ hold' = hold
    BY <1>4, CbStepIs
  <2>2. PICK k \in ChannelType :
                 /\ Work(c, k) /\ SameTable(c, k) /\ SameUse(c, k) /\ k.found = ch[c].found
                 /\ k.cb.up = ch[c].cb.up /\ k.cb.q = Tail(ch[c].cb.q)
                 /\ \/ Head(ch[c].cb.q).cmd = "EXIT" /\ k.cur = {}
                    \/ /\ Head(ch[c].cb.q).cmd = "SUPER_BUF" /\ k.cb.bye = ch[c].cb.bye
                       /\ k.cur = Head(ch[c].cb.q).bufs
    BY <1>4, CbStepIs
  <2>3. ByCallback(c, k)
    BY <2>1, <2>2 DEF ByCallback
  <2> QED BY <2>2, <2>3 DEF Works, ByWork
<1>5. CASE CbEnds(c)
  <2>1. /\ ch[c].cb.up /\ ch[c].cb.bye /\ ch[c].cb.q = <<>> /\ ch[c].cur = {} /\ st' = st /\ hold' = hold
    BY <1>5, CbEndsIs
  <2>2. PICK k \in ChannelType :
                 /\ Work(c, k) /\ SameTable(c, k) /\ SameUse(c, k) /\ ~k.cb.up
                 /\ k.cb.q = ch[c].cb.q /\ k.cur = ch[c].cur /\ k.found = ch[c].found
    BY <1>5, CbEndsIs
  <2>3. ByCbEnd(c, k)
    BY <2>1, <2>2 DEF ByCbEnd
  <2> QED BY <2>2, <2>3 DEF Works, ByWork
<1>6. CASE ClientKeeps(c)
  <2>1. /\ ch[c].cur # {} /\ ch[c].found = None /\ ~Stopping(c) /\ st' = st
        /\ \A d \in Channels \ {c} : hold'[d] = hold[d]
        /\ \A s \in Streams : hold'[c][s] = IF s \in ch[c].cur THEN hold[c][s] + 1 ELSE hold[c][s]
    BY <1>6, ClientKeepsIs
  <2>2. PICK k \in ChannelType :
                 /\ Work(c, k) /\ SameTable(c, k) /\ SameUse(c, k) /\ k.cb = ch[c].cb
                 /\ k.cur = {} /\ k.found = ch[c].found
    BY <1>6, ClientKeepsIs
  <2>3. ByKept(c, k)
    BY <2>1, <2>2 DEF ByKept
  <2> QED BY <2>2, <2>3 DEF Works, ByWork
<1>7. CASE CallbackQbuf(c)
  <2>1. /\ ch[c].found \in Streams /\ st' = Qbuf(c, ch[c].found, 1) /\ hold' = hold
    BY <1>7, CallbackQbufIs
  <2>2. PICK k \in ChannelType :
                 /\ Work(c, k) /\ SameTable(c, k) /\ SameUse(c, k) /\ k.cb = ch[c].cb
                 /\ k.cur = ch[c].cur \ {ch[c].found} /\ k.found = None
    BY <1>7, CallbackQbufIs
  <2>3. ByGivenBack(c, k)
    BY <2>1, <2>2 DEF ByGivenBack
  <2> QED BY <2>2, <2>3 DEF Works, ByWork
<1>8. ASSUME NEW s \in Streams, LookUp(c, s) PROVE Works(c)
  <2>1. s \in ch[c].cur /\ ch[c].found = None /\ st' = st /\ hold' = hold
    BY <1>8, LookUpIs
  <2>2. PICK k \in ChannelType :
                 /\ Work(c, k) /\ SameTable(c, k) /\ SameUse(c, k) /\ k.cb = ch[c].cb
                 /\ k.cur = ch[c].cur /\ k.found = s
    BY <1>8, LookUpIs
  <2>3. ByLookUp(c, k)
    BY <2>1, <2>2 DEF ByLookUp
  <2> QED BY <2>2, <2>3 DEF Works, ByWork
<1>9. ASSUME NEW s \in Streams, ClientQbuf(c, s) PROVE Works(c)
  <2>1. /\ hold[c][s] > 0 /\ st' = Qbuf(c, s, 1) /\ Work(c, ch[c])
        /\ \A d \in Channels \ {c} : hold'[d] = hold[d]
        /\ \A x \in Streams : hold'[c][x] = IF x = s THEN hold[c][s] - 1 ELSE hold[c][x]
    BY <1>9, ClientQbufIs
  <2>2. ByReturned(c, ch[c])
    BY <2>1 DEF ByReturned
  <2> QED BY <2>1, <2>2 DEF Works, ByWork
<1> QED BY <1>1, <1>2, <1>3, <1>4, <1>5, <1>6, <1>7, <1>8, <1>9

\* A step is a call that begins, a step of a call, or one of the threads and the client.
Steps ==
    \/ \E t \in Threads, op \in Ops, c \in Channels, s \in Streams \cup {None}, j \in CallType :
          Entered(t, op, c, s, j)
    \/ \E t \in Threads : Does(t)
    \/ \E c \in Channels : Works(c)
    \/ UNCHANGED vars

LEMMA NextIs ==
    ASSUME BaseInv, ~scene.reuses, [Next]_vars
    PROVE  Steps
<1>0. TypeInv /\ TypeOK
  BY DEF BaseInv, TypeInv
<1>1. ASSUME NEW t \in Threads, NEW op \in Ops, NEW c \in Channels, NEW s \in Streams \cup {None},
             Enter(t, op, c, s)
      PROVE  Steps
  <2>1. PICK j : Entered(t, op, c, s, j)
    BY <1>0, <1>1, EnterIs
  <2>2. j \in CallType
    BY <2>1 DEF Entered
  <2> QED BY <2>1, <2>2 DEF Steps
<1>2. ASSUME NEW t \in Threads, CallStep(t) PROVE Steps
  BY <1>2, CallStepBy DEF Steps
<1>3. ASSUME NEW s \in Streams, Frame(s) PROVE Steps
  BY <1>0, <1>3, FrameBy DEF Steps
<1>4. ASSUME NEW c \in Channels,
             \/ AddChannel(c) \/ CmdStep(c) \/ CmdEnds(c) \/ CbStep(c) \/ CbEnds(c)
             \/ ClientKeeps(c) \/ CallbackQbuf(c)
             \/ \E s \in Streams : LookUp(c, s) \/ ClientQbuf(c, s)
      PROVE  Steps
  BY <1>0, <1>4, WorksBy DEF Steps
<1>5. CASE UNCHANGED vars
  BY <1>5 DEF Steps
<1>6. CASE Next
  BY <1>1, <1>2, <1>3, <1>4, <1>6 DEF Next
<1> QED BY <1>5, <1>6

LEMMA WorksSame ==
    ASSUME TypeOK, NEW c \in Channels, NEW k, Work(c, k), ByWork(c, k)
    PROVE  /\ k.table = ch[c].table
           /\ k.state = ch[c].state \/ ByOpened(c, k)
BY DEF ByWork, ByFrame, ByOpened, ByCommand, ByCmdEnd, ByCallback, ByCbEnd, ByKept, ByLookUp,
       ByGivenBack, ByReturned, SameTable, Posted, Worked

LEMMA BaseStep ==
    ASSUME BaseInv, Steps
    PROVE  BaseInv'
<1>1. ASSUME NEW t \in Threads, NEW op \in Ops, NEW c \in Channels, NEW s \in Streams \cup {None},
             NEW j \in CallType, Entered(t, op, c, s, j)
      PROVE  BaseInv'
  BY <1>1, EnterBase
<1>2. ASSUME NEW t \in Threads, Does(t) PROVE BaseInv'
  BY <1>2, StepBase DEF Does
<1>3. ASSUME NEW c \in Channels, Works(c) PROVE BaseInv'
  <2>1. PICK k : Work(c, k) /\ ByWork(c, k)
    BY <1>3 DEF Works
  <2>2. TypeOK
    BY DEF BaseInv, TypeInv
  <2>3. k.table = ch[c].table /\ (k.state = ch[c].state \/ ByOpened(c, k))
    BY <2>1, <2>2, WorksSame
  <2> QED BY <2>1, <2>3, WorkBase DEF ByOpened
<1>4. CASE UNCHANGED vars
  <2>1. ch' = ch /\ st' = st /\ call' = call /\ hold' = hold /\ scene' = scene
    BY <1>4 DEF vars
  <2>2. TypeOK' /\ CallInv'
    BY <2>1 DEF BaseInv, TypeInv, TypeOK, CallInv, InChannel, Subject, IsBundle
  <2>3. LockInv' /\ DeleteInv' /\ call' \in [Threads -> CallType]
    BY <2>1 DEF BaseInv, TypeInv, LockInv, In, InChannel, DeleteInv, Empty
  <2>4. TableInv'
    <3>1. (\A s \in Streams : Steady(s)' = Steady(s)) /\ (\A d \in Channels, s \in Streams : Has(d, s)' = Has(d, s))
      BY <2>1 DEF Steady, Has
    <3>2. \A t \in Threads : call[t].op = "link" => call[t].s \in Streams
      BY DEF BaseInv, TypeInv, CallInv, Subject
    <3>3. \A t \in Threads : call'[t].op = "link" => Steady(call[t].s)'
      <4>1. ASSUME NEW t \in Threads, call[t].op = "link", NEW s, s = call[t].s PROVE Steady(s)'
        BY <3>1, <3>2, <4>1 DEF BaseInv, TableInv
      <4> QED BY <2>1, <4>1 DEF Steady
    <3> QED BY <2>1, <3>1, <3>3 DEF BaseInv, TableInv
  <2>5. ListInv'
    BY <2>1 DEF BaseInv, ListInv
  <2> QED BY <2>2, <2>3, <2>4, <2>5 DEF BaseInv, TypeInv
<1> QED BY <1>1, <1>2, <1>3, <1>4 DEF Steps

LEMMA BaseInit ==
    ASSUME Init
    PROVE  BaseInv
<1>1. ch \in [Channels -> ChannelType] /\ \A c \in Channels : ch[c] = NewChannel
  BY NewChannelTyped DEF Init
<1>2. st \in [Streams -> StreamType] /\ hold \in [Channels -> [Streams -> Nat]]
  BY DEF Init, StreamType, NoFrames
<1>3. call \in [Threads -> CallType] /\ \A t \in Threads : call[t] = NoCall
  BY DEF Init, NoCall, CallType, PCs
<1>4. \A c \in Channels, s \in Streams : ~Has(c, s)
  BY <1>1, ChannelConstantsOK DEF Has, NewChannel, Range
<1>5. \A c \in Channels : Distinct(ch[c].table)
  <2>1. \A i \in 1..MaxStreams : NewChannel.table[i] = None
    BY DEF NewChannel
  <2> QED BY <1>1, <2>1 DEF Distinct
<1>6. TypeInv
  <2>1. TypeOK
    BY <1>1, <1>2 DEF TypeOK, Init
  <2>2. CallInv /\ LockInv
    BY <1>3, NoCallIs DEF CallInv, LockInv, In, InChannel
  <2>3. DeleteInv
    BY <1>1, <1>3, NoCallIs, NewChannelTyped DEF DeleteInv, Empty
  <2> QED BY <1>3, <2>1, <2>2, <2>3 DEF TypeInv
<1>7. TableInv
  BY <1>3, <1>4, <1>5, NoCallIs DEF TableInv
<1>8. ListInv
  BY <1>3, NoCallIs DEF ListInv, Listing, Starting, StoppingAt, Ending, Undoing
<1> QED BY <1>6, <1>7, <1>8 DEF BaseInv

-----------------------------------------------------------------------------
(* The job of a channel *)

Idle(state) == [NoCall EXCEPT !.pc = state]

LEMMA IdleIs ==
    ASSUME NEW state
    PROVE  Idle(state).pc = state /\ Idle(state).op = "none" /\ Idle(state).c = None
BY DEF Idle, NoCall

\* One thread at most is in a channel, before and after a step.
LEMMA JobIs ==
    ASSUME BaseInv, NEW c \in Channels
    PROVE  /\ ChFree(c) => Job(c) = Idle(ch[c].state)
           /\ \A t \in Threads : In(t, c) => ~ChFree(c) /\ Job(c) = call[t]
<1>1. ASSUME NEW t \in Threads, In(t, c) PROVE ~ChFree(c) /\ Job(c) = call[t]
  <2>1. ~ChFree(c)
    BY <1>1 DEF In, ChFree
  <2> DEFINE u == CHOOSE u \in Threads : In(u, c)
  <2>2. u \in Threads /\ In(u, c)
    BY <1>1
  <2> HIDE DEF u
  <2>3. u = t
    BY <1>1, <2>2 DEF BaseInv, TypeInv, LockInv
  <2>4. Job(c) = call[u]
    BY <2>1 DEF Job, u
  <2> QED BY <2>1, <2>3, <2>4
<1> QED BY <1>1 DEF Job, Idle

LEMMA JobIsThen ==
    ASSUME BaseInv', NEW c \in Channels
    PROVE  /\ ChFree(c)' => Job(c)' = Idle(ch'[c].state)
           /\ \A t \in Threads : In(t, c)' => ~ChFree(c)' /\ Job(c)' = call'[t]
<1>1. ASSUME NEW t \in Threads, In(t, c)' PROVE ~ChFree(c)' /\ Job(c)' = call'[t]
  <2>1. ~ChFree(c)'
    BY <1>1 DEF In, ChFree
  <2> DEFINE holder == CHOOSE v \in Threads : In(v, c)
  <2>5. PICK u : u = holder'
    OBVIOUS
  <2>2. u \in Threads /\ In(u, c)'
    BY <1>1, <2>5 DEF In, InChannel
  <2>3. u = t
    BY <1>1, <2>2 DEF BaseInv, TypeInv, LockInv
  <2>4. Job(c)' = call'[u]
    BY <2>1, <2>5 DEF Job
  <2> QED BY <2>1, <2>3, <2>4
<1> QED BY <1>1 DEF Job, Idle

LEMMA JobSame ==
    ASSUME BaseInv, BaseInv', NEW c \in Channels, ch'[c].state = ch[c].state,
           \A t \in Threads : In(t, c)' <=> In(t, c),
           \A t \in Threads : In(t, c) => call'[t] = call[t]
    PROVE  Job(c)' = Job(c)
<1>1. ChFree(c) <=> \A t \in Threads : ~In(t, c)
  BY DEF ChFree, In
<1>2. ChFree(c)' <=> \A t \in Threads : ~In(t, c)'
  BY DEF ChFree, In
<1>3. CASE ChFree(c)
  BY <1>1, <1>2, <1>3, JobIs, JobIsThen
<1>4. CASE ~ChFree(c)
  <2>1. PICK t \in Threads : In(t, c)
    BY <1>1, <1>4
  <2> QED BY <2>1, JobIs, JobIsThen
<1> QED BY <1>3, <1>4

LEMMA JobStep ==
    ASSUME BaseInv, NEW t \in Threads, NEW k, NEW j, Sound(t, k, j), NEW c, c = call[t].c
    PROVE  /\ c \in Channels /\ ch'[c] = k
           /\ \A d \in Channels \ {c} : ch'[d] = ch[d] /\ Job(d)' = Job(d)
           /\ Job(c) = IF InChannel(t) THEN call[t] ELSE Idle(ch[c].state)
           /\ Job(c)' = IF Ends(j) \/ j.pc = "zero" THEN Idle(k.state) ELSE j
<1>1. /\ c \in Channels /\ ch'[c] = k /\ \A d \in Channels \ {c} : ch'[d] = ch[d]
  BY DEF BaseInv, TypeInv, TypeOK, Sound, Step
<1>2. call'[t] = j /\ \A u \in Threads \ {t} : call'[u] = call[u]
  BY DEF BaseInv, TypeInv, Sound, Step
<1>3. BaseInv'
  BY StepBase
<1>4. InChannel(t) => In(t, c)
  BY DEF In
<1>5. \A u \in Threads \ {t} : In(u, c) => FALSE
  <2>1. ASSUME NEW u \in Threads \ {t}, In(u, c) PROVE FALSE
    <3>1. call[t].op # "none" /\ (InChannel(t) \/ call[t].pc = "zero" \/ (call[t].pc = "ch_wait" /\ ChFree(c)))
      BY DEF Sound, Acts
    <3>2. CASE InChannel(t)
      BY <1>1, <1>4, <2>1, <3>2 DEF BaseInv, TypeInv, LockInv
    <3>3. CASE call[t].pc = "zero"
      <4>1. call[t].op = "delete"
        BY <3>1, <3>3 DEF BaseInv, TypeInv, CallInv, Places, Starting, Undoing, StoppingAt, Ending
      <4> QED BY <2>1, <4>1 DEF BaseInv, TypeInv, LockInv, In
    <3>4. CASE ChFree(c)
      BY <2>1, <3>4 DEF ChFree, In
    <3> QED BY <3>1, <3>2, <3>3, <3>4
  <2> QED BY <2>1
<1>6. \A u \in Threads \ {t}, d \in Channels : In(u, d)' <=> In(u, d)
  BY <1>2 DEF In, InChannel
<1>7. In(t, c)' <=> ~(Ends(j) \/ j.pc = "zero")
  <2>1. Ends(j) \/ (j.c = c /\ j.pc \in Places(call[t].op) \ {"ch_wait"})
    BY DEF Sound, Fits, Goes
  <2>2. j.pc \in Places(call[t].op) => j.pc # "idle"
    BY DEF Places, Starting, Undoing, StoppingAt, Ending
  <2>3. Ends(j) => j.pc = "idle"
    BY NoCallIs DEF Ends
  <2> QED BY <1>2, <2>1, <2>2, <2>3 DEF In, InChannel
<1>8. \A d \in Channels \ {c} : ~In(t, d) /\ ~In(t, d)'
  BY <1>2, NoCallIs, ChannelConstantsOK DEF In, Sound, Fits, Ends, Goes
<1>9. ASSUME NEW d \in Channels \ {c} PROVE Job(d)' = Job(d)
  <2>1. \A u \in Threads : In(u, d)' <=> In(u, d)
    BY <1>6, <1>8
  <2>2. \A u \in Threads : In(u, d) => call'[u] = call[u]
    BY <1>2, <1>8
  <2> QED BY <1>1, <1>3, <2>1, <2>2, JobSame
<1>10. Job(c) = IF InChannel(t) THEN call[t] ELSE Idle(ch[c].state)
  <2>1. CASE InChannel(t)
    BY <1>1, <1>4, <2>1, JobIs
  <2>2. CASE ~InChannel(t)
    <3>1. ChFree(c)
      BY <1>5, <2>2 DEF ChFree, In
    <3> QED BY <1>1, <2>2, <3>1, JobIs
  <2> QED BY <2>1, <2>2
<1>11. Job(c)' = IF Ends(j) \/ j.pc = "zero" THEN Idle(k.state) ELSE j
  <2>1. CASE In(t, c)'
    BY <1>1, <1>2, <1>3, <1>7, <2>1, JobIsThen
  <2>2. CASE ~In(t, c)'
    <3>1. \A u \in Threads : ~In(u, c)'
      BY <1>1, <1>5, <1>6, <2>2
    <3>2. ChFree(c)'
      BY <3>1 DEF ChFree, In
    <3> QED BY <1>1, <1>3, <1>7, <2>2, <3>2, JobIsThen
  <2> QED BY <2>1, <2>2
<1> QED BY <1>1, <1>9, <1>10, <1>11

LEMMA JobWork ==
    ASSUME BaseInv, BaseInv', NEW c \in Channels, NEW k, Work(c, k), ByWork(c, k)
    PROVE  /\ ch'[c] = k /\ \A d \in Channels \ {c} : ch'[d] = ch[d]
           /\ scene' = scene /\ \A d \in Channels : \A s \in Streams : Has(d, s)' <=> Has(d, s)
           /\ \A d \in Channels \ {c} : Job(d)' = Job(d)
           /\ Job(c)' = Job(c) \/ (ByOpened(c, k) /\ Job(c) = Idle("NOTUSED") /\ Job(c)' = Idle("STOPPED"))
<1>1. /\ ch'[c] = k /\ \A d \in Channels \ {c} : ch'[d] = ch[d]
  BY DEF BaseInv, TypeInv, TypeOK, Work
<1>2. call' = call /\ scene' = scene
  BY DEF Work
<1>3. \A d \in Channels, t \in Threads : (In(t, d)' <=> In(t, d)) /\ call'[t] = call[t]
  BY <1>2 DEF In, InChannel
<1>4. \A d \in Channels : \A s \in Streams : Has(d, s)' <=> Has(d, s)
  BY <1>1, WorksSame DEF Has, BaseInv, TypeInv
<1>5. \A d \in Channels \ {c} : Job(d)' = Job(d)
  BY <1>1, <1>3, JobSame
<1>6. CASE k.state = ch[c].state
  <2>1. Job(c)' = Job(c)
    BY <1>1, <1>3, <1>6, JobSame
  <2> QED BY <1>1, <1>2, <1>4, <1>5, <2>1
<1>7. CASE ByOpened(c, k)
  <2>1. ch[c].state = "NOTUSED" /\ k.state = "STOPPED" /\ \A t \in Threads : ~In(t, c)
    BY <1>7 DEF ByOpened, Calls, In
  <2>2. ChFree(c) /\ ChFree(c)'
    BY <1>3, <2>1 DEF ChFree, In
  <2>3. Job(c) = Idle("NOTUSED") /\ Job(c)' = Idle("STOPPED")
    BY <1>1, <2>1, <2>2, JobIs, JobIsThen
  <2> QED BY <1>1, <1>2, <1>4, <1>5, <1>7, <2>3
<1>8. k.state = ch[c].state \/ ByOpened(c, k)
  BY WorksSame DEF BaseInv, TypeInv
<1> QED BY <1>6, <1>7, <1>8

LEMMA JobEnter ==
    ASSUME BaseInv, BaseInv', NEW t \in Threads, NEW op \in Ops, NEW c \in Channels,
           NEW s \in Streams \cup {None}, NEW j, Entered(t, op, c, s, j)
    PROVE  \A d \in Channels : Job(d)' = Job(d)
<1>1. call[t] = NoCall /\ j.pc = "ch_wait" /\ ch' = ch
      /\ call'[t] = j /\ \A u \in Threads \ {t} : call'[u] = call[u]
  BY DEF BaseInv, TypeInv, Entered
<1>2. \A u \in Threads, d \in Channels : (In(u, d)' <=> In(u, d)) /\ (In(u, d) => call'[u] = call[u])
  BY <1>1, NoCallIs DEF In, InChannel
<1> QED BY <1>1, <1>2, JobSame

-----------------------------------------------------------------------------
(* The states of the streams *)

LEMMA BeforeIs ==
    ASSUME NEW ord \in Seq(Streams), NEW i \in 1..Len(ord) + 1, NEW s
    PROVE  /\ s \notin Before(ord, 1)
           /\ i \in DOMAIN ord => (s \in Before(ord, i + 1) <=> s \in Before(ord, i) \/ s = ord[i])
           /\ i > Len(ord) => (s \in Before(ord, i) <=> s \in Range(ord))
           /\ s \in Before(ord, i) => s \in Range(ord)
           /\ i \in DOMAIN ord => ord[i] \in Range(ord)
           /\ (\A k, l \in DOMAIN ord : ord[k] = ord[l] => k = l) /\ i \in DOMAIN ord =>
                 ord[i] \notin Before(ord, i)
<1>1. DOMAIN ord = 1..Len(ord) /\ Len(ord) \in Nat /\ \A k \in DOMAIN ord : k \in Nat /\ 1 <= k /\ k <= Len(ord)
  OBVIOUS
<1>2. s \notin Before(ord, 1)
  BY <1>1 DEF Before
<1>3. ASSUME i \in DOMAIN ord PROVE s \in Before(ord, i + 1) <=> s \in Before(ord, i) \/ s = ord[i]
  <2>1. \A l \in DOMAIN ord : l < i + 1 <=> l < i \/ l = i
    BY <1>1
  <2>2. s \in Before(ord, i + 1) <=> \E l \in DOMAIN ord : l < i + 1 /\ s = ord[l]
    BY DEF Before
  <2>3. s \in Before(ord, i) <=> \E l \in DOMAIN ord : l < i /\ s = ord[l]
    BY DEF Before
  <2> QED BY <1>3, <2>1, <2>2, <2>3
<1>4. ASSUME i > Len(ord) PROVE s \in Before(ord, i) <=> s \in Range(ord)
  <2>1. \A l \in DOMAIN ord : l < i
    BY <1>1, <1>4
  <2> QED BY <2>1 DEF Before, Range
<1>5. s \in Before(ord, i) => s \in Range(ord)
  BY DEF Before, Range
<1>6. i \in DOMAIN ord => ord[i] \in Range(ord)
  BY DEF Range
<1>7. ASSUME \A k, l \in DOMAIN ord : ord[k] = ord[l] => k = l, i \in DOMAIN ord
      PROVE  ord[i] \notin Before(ord, i)
  BY <1>1, <1>7 DEF Before
<1> QED BY <1>2, <1>3, <1>4, <1>5, <1>6, <1>7

\* The state that stream s of a channel may have, with the job of the channel.
Fit(s, has, job) == IF has THEN States(job, s) ELSE {"NOTUSED"}

Was(t, c) == IF InChannel(t) THEN call[t] ELSE Idle(ch[c].state)
Then(k, j) == IF Ends(j) \/ j.pc = "zero" THEN Idle(k.state) ELSE j

LEMMA StatesAt ==
    ASSUME NEW j, NEW s
    PROVE  /\ j.pc \in {"STOPPED", "link"} => States(j, s) = {"CFG"}
           /\ j.pc \in {"ACTIVE", "flush_ack"} => States(j, s) = {"ACTIVE"}
           /\ j.pc = "streams" => States(j, s) = IF s \in Before(j.ord, j.i) THEN {"ACTIVE"} ELSE {"CFG"}
           /\ j.pc \in {"undo_links", "undo_ack", "undo_copies"} =>
                 States(j, s) = IF s \in Before(j.ord, j.i) THEN {"ACTIVE"}
                                ELSE IF s = j.ord[j.i] THEN {"CFG", "BUFFED", "REG"} ELSE {"CFG"}
           /\ j.pc = "undo_streams" =>
                 States(j, s) = IF s \in Before(j.ord, j.j) THEN {"CFG"}
                                ELSE IF s \in Before(j.ord, j.i) THEN {"ACTIVE"}
                                ELSE IF s = j.ord[j.i] THEN {"CFG", "BUFFED", "REG"} ELSE {"CFG"}
           /\ j.pc = "off" => States(j, s) = IF s \in Before(j.ord, j.i) THEN {"BUFFED"} ELSE {"ACTIVE"}
           /\ j.pc \in {"ack", "threads"} => States(j, s) = {"BUFFED"}
           /\ j.pc \in Ending => States(j, s) = IF j.op = "start" THEN {"CFG"} ELSE {"BUFFED"}
<1>1. j.pc \in {"STOPPED", "link"} => States(j, s) = {"CFG"}
  BY DEF States, Undoing, Ending
<1>2. j.pc \in {"ACTIVE", "flush_ack"} => States(j, s) = {"ACTIVE"}
  BY DEF States, Undoing, Ending
<1>3. j.pc = "streams" => States(j, s) = IF s \in Before(j.ord, j.i) THEN {"ACTIVE"} ELSE {"CFG"}
  BY DEF States, Undoing, Ending
<1>4. j.pc \in {"undo_links", "undo_ack", "undo_copies"} =>
                 States(j, s) = IF s \in Before(j.ord, j.i) THEN {"ACTIVE"}
                                ELSE IF s = j.ord[j.i] THEN {"CFG", "BUFFED", "REG"} ELSE {"CFG"}
  BY DEF States, Undoing, Ending
<1>5. j.pc = "undo_streams" =>
                 States(j, s) = IF s \in Before(j.ord, j.j) THEN {"CFG"}
                                ELSE IF s \in Before(j.ord, j.i) THEN {"ACTIVE"}
                                ELSE IF s = j.ord[j.i] THEN {"CFG", "BUFFED", "REG"} ELSE {"CFG"}
  BY DEF States, Undoing, Ending
<1>6. j.pc = "off" => States(j, s) = IF s \in Before(j.ord, j.i) THEN {"BUFFED"} ELSE {"ACTIVE"}
  BY DEF States, Undoing, Ending
<1>7. j.pc \in {"ack", "threads"} => States(j, s) = {"BUFFED"}
  BY DEF States, Undoing, Ending
<1>8. j.pc \in Ending => States(j, s) = IF j.op = "start" THEN {"CFG"} ELSE {"BUFFED"}
  BY DEF States, Undoing, Ending
<1> QED BY <1>1, <1>2, <1>3, <1>4, <1>5, <1>6, <1>7, <1>8

\* What the lemmas on the steps of a call start from.
Stepping(t, c, k, j) == BaseInv /\ t \in Threads /\ Sound(t, k, j) /\ c = call[t].c

LEMMA SteppingFacts ==
    ASSUME NEW t, NEW c, NEW k, NEW j, Stepping(t, c, k, j)
    PROVE  /\ c \in Channels /\ ch[c] \in ChannelType /\ k \in ChannelType /\ j \in CallType
           /\ call[t] \in CallType /\ st \in [Streams -> StreamType] /\ st' \in [Streams -> StreamType]
           /\ hold' = hold /\ scene' = scene /\ ch'[c] = k
           /\ \A d \in Channels \ {c} : ch'[d] = ch[d] /\ Job(d)' = Job(d)
           /\ Job(c) = Was(t, c) /\ Job(c)' = Then(k, j)
           /\ InChannel(t) => ch[c].state = StateIn(call[t])
           /\ call[t].pc \in Listing => InChannel(t) /\ ListOK(call[t], ch[c].table)
           /\ ~Ends(j) /\ j.pc # "zero" => k.state = StateIn(j)
           /\ call[t].op = "delete" => \A s \in Streams : ~Has(c, s)
           /\ call[t].pc \in Places(call[t].op)
           /\ call[t].pc \in {"ch_wait", "zero"} => ~InChannel(t)
           /\ call[t].pc = "flush_ack" => InChannel(t)
<1>1. Calling(t)
  BY DEF Stepping, Sound, Acts, Calling
<1>2. c \in Channels /\ ch'[c] = k
      /\ (\A d \in Channels \ {c} : ch'[d] = ch[d] /\ Job(d)' = Job(d))
      /\ Job(c) = Was(t, c) /\ Job(c)' = Then(k, j)
  BY JobStep DEF Stepping, Was, Then
<1>3. /\ k \in ChannelType /\ j \in CallType /\ st' \in [Streams -> StreamType] /\ hold' = hold /\ scene' = scene
  BY DEF Stepping, Sound, Step
<1>4. /\ ch[c] \in ChannelType /\ call[t] \in CallType /\ st \in [Streams -> StreamType]
  BY <1>2 DEF Stepping, BaseInv, TypeInv, TypeOK
<1>5. call[t].pc \in Listing => InChannel(t) /\ ListOK(call[t], ch[c].table)
  BY <1>1, CallingFacts DEF Stepping, InChannel, Listing, Starting, StoppingAt, Ending, Undoing
<1>6. ~Ends(j) /\ j.pc # "zero" => k.state = StateIn(j)
  BY DEF Stepping, Sound, Fits, Goes
<1>7. call[t].op = "delete" => \A s \in Streams : ~Has(c, s)
  BY <1>1, CallingFacts, HasUsed, ChannelConstantsOK DEF Stepping, Empty
<1>8. InChannel(t) => ch[c].state = StateIn(call[t])
  BY <1>1, CallingFacts DEF Stepping
<1>9. /\ call[t].pc \in {"ch_wait", "zero"} => ~InChannel(t)
      /\ call[t].pc = "flush_ack" => InChannel(t)
  BY DEF InChannel
<1> QED BY <1>1, <1>2, <1>3, <1>4, <1>5, <1>6, <1>7, <1>8, <1>9, CallingFacts

LEMMA OthersKeep ==
    ASSUME NEW t, NEW c, NEW k, NEW j, Stepping(t, c, k, j), By(t, k, j)
    PROVE  \A s \in Streams : Owner[s] # c => st'[s].state = st[s].state
<1>1. CASE BySimple(t, c, k, j)
  BY <1>1 DEF BySimple, ByIgnored, ByAdded, ByRemoved, ByDisposed, ByZeroed, ByRequested, ByFlushed, ByAcked, Restated
<1>2. CASE ByStart(t, c, k, j)
  BY <1>2 DEF ByStart, ByBegun, ByLinked, ByStarted, ByFailed, ByActive, ByUndoLinks, ByUnlinked, ByCleared, ByUndone,
     Restated, Restarted, Relinked
<1>3. CASE ByStop(t, c, k, j)
  BY <1>3 DEF ByStop, ByStopBegun, ByStopped, ByStopLinks, ByUnlinked, ByReleased, ByCmdJoined, ByCbJoined, ByPut, Own,
     Restarted, Relinked
<1> QED BY <1>1, <1>2, <1>3 DEF By, Stepping

LEMMA SimpleStates ==
    ASSUME NEW t, NEW c, NEW k, NEW j, Stepping(t, c, k, j), BySimple(t, c, k, j),
           NEW s \in Streams, Owner[s] = c, st[s].state \in Fit(s, Has(c, s), Was(t, c))
    PROVE  st'[s].state \in Fit(s, InTableNow(k, s), Then(k, j))
<1>0. SameTable(c, k) => InTableNow(k, s) = Has(c, s)
  BY DEF SameTable, InTableNow, Has
<1>1. CASE ByIgnored(t, c, k, j)
  BY <1>0, <1>1, SteppingFacts DEF ByIgnored, Was, Then, SameTable
<1>2. CASE ByAdded(t, c, k, j) \/ ByRemoved(t, c, k, j)
  <2>1. ~InChannel(t) /\ k.state = "STOPPED" /\ ch[c].state = "STOPPED" /\ Ends(j)
    BY <1>2, SteppingFacts DEF ByAdded, ByRemoved
  <2>2. Was(t, c) = Idle("STOPPED") /\ Then(k, j) = Idle("STOPPED") /\ States(Idle("STOPPED"), s) = {"CFG"}
    BY <2>1, IdleIs, StatesAt DEF Was, Then
  <2>3. st[s].state = IF Has(c, s) THEN "CFG" ELSE "NOTUSED"
    BY <2>2 DEF Fit
  <2>4. st'[s].state = IF InTableNow(k, s) THEN "CFG" ELSE "NOTUSED"
    BY <1>2, <2>3 DEF ByAdded, ByRemoved, Restated
  <2> QED BY <2>2, <2>4 DEF Fit
<1>3. CASE ByDisposed(t, c, k, j) \/ ByZeroed(t, c, k, j)
  <2>1. call[t].op = "delete" /\ st' = st
    BY <1>3, SteppingFacts DEF ByDisposed, ByZeroed, Places, Starting, Undoing, StoppingAt, Ending
  <2>2. ~Has(c, s)
    BY <2>1, SteppingFacts
  <2>3. ~InTableNow(k, s)
    <3>1. CASE ByDisposed(t, c, k, j)
      BY <2>2, <3>1 DEF ByDisposed, InTableNow, Has
    <3>2. CASE ByZeroed(t, c, k, j)
      BY <3>2, ChannelConstantsOK DEF ByZeroed, InTableNow, NewChannel, Range
    <3> QED BY <1>3, <3>1, <3>2
  <2> QED BY <2>1, <2>2, <2>3 DEF Fit
<1>4. CASE ByRequested(t, c, k, j)
  <2>1. k.state = ch[c].state /\ SameTable(c, k) /\ Ends(j) /\ st' = st /\ ~InChannel(t)
    BY <1>4, SteppingFacts DEF ByRequested, Posted, SameTable
  <2> QED BY <1>0, <2>1 DEF Was, Then
<1>5. CASE ByFlushed(t, c, k, j)
  <2>1. ch[c].state = "ACTIVE" /\ SameTable(c, k) /\ st' = st /\ ~InChannel(t) /\ j.pc = "flush_ack"
    BY <1>5, SteppingFacts DEF ByFlushed, Posted, SameTable, Goes
  <2>2. Was(t, c) = Idle("ACTIVE") /\ Then(k, j) = j
    BY <2>1, NoCallIs DEF Was, Then, Ends
  <2>3. States(Idle("ACTIVE"), s) = {"ACTIVE"} /\ States(j, s) = {"ACTIVE"}
    BY <2>1, IdleIs, StatesAt
  <2> QED BY <1>0, <2>1, <2>2, <2>3 DEF Fit
<1>6. CASE ByAcked(t, c, k, j)
  <2>1. SameTable(c, k) /\ st' = st
    BY <1>6 DEF ByAcked, Acknowledged
  <2>2. InChannel(t)
    BY <1>6 DEF ByAcked, InChannel
  <2>5. Was(t, c) = call[t]
    BY <2>2 DEF Was
  <2>3. CASE call[t].pc = "flush_ack" /\ Ends(j)
    <3>1. Then(k, j) = Idle("ACTIVE")
      BY <2>1, <2>2, <2>3, SteppingFacts DEF Then, StateIn, SameTable
    <3>2. States(Idle("ACTIVE"), s) = {"ACTIVE"} /\ States(call[t], s) = {"ACTIVE"}
      BY <2>3, IdleIs, StatesAt
    <3> QED BY <1>0, <2>1, <2>5, <3>1, <3>2 DEF Fit
  <2>4. CASE \/ call[t].pc = "undo_ack" /\ Goes(t, j, "undo_copies") /\ Counts(t, j)
             \/ call[t].pc = "ack" /\ Goes(t, j, "threads") /\ Counts(t, j)
    <3>1. Then(k, j) = j
      BY <2>4, NoCallIs DEF Then, Ends, Goes
    <3>2. States(j, s) = States(call[t], s)
      BY <2>4, StatesAt DEF Goes, Counts
    <3> QED BY <1>0, <2>1, <2>5, <3>1, <3>2 DEF Fit
  <2> QED BY <1>6, <2>3, <2>4 DEF ByAcked
<1> QED BY <1>1, <1>2, <1>3, <1>4, <1>5, <1>6 DEF BySimple

-----------------------------------------------------------------------------

\* The list of a start or stop, as the states of the streams need it.
LEMMA WorkList ==
    ASSUME NEW t, NEW c, NEW k, NEW j, Stepping(t, c, k, j), call[t].pc \in Listing
    PROVE  /\ Was(t, c) = call[t] /\ call[t].ord \in Seq(Streams)
           /\ call[t].i \in 1..Len(call[t].ord) + 1
           /\ call[t].pc = "link" => call[t].i = 1
           /\ \A k1, l1 \in DOMAIN call[t].ord : call[t].ord[k1] = call[t].ord[l1] => k1 = l1
           /\ \A s \in Streams : Owner[s] = c => (Has(c, s) <=> s \in Range(call[t].ord))
           /\ Undoes(call[t]) => call[t].i \in DOMAIN call[t].ord
                                 /\ Owner[call[t].ord[call[t].i]] = c
           /\ call[t].op \in {"start", "stop"}
           /\ call[t].pc \in Starting => call[t].op = "start"
           /\ call[t].pc \in StoppingAt => call[t].op = "stop"
<1>1. InChannel(t) /\ ListOK(call[t], ch[c].table) /\ call[t] \in CallType /\ call[t].c = c
  BY SteppingFacts DEF Stepping
<1>2. Calling(t)
  BY DEF Stepping, Sound, Acts, Calling
<1> QED BY <1>1, <1>2, OpOf DEF Was, CallType, ListOK, Has

LEMMA StartStates ==
    ASSUME NEW t, NEW c, NEW k, NEW j, Stepping(t, c, k, j), ByStart(t, c, k, j),
           NEW s \in Streams, Owner[s] = c, st[s].state \in Fit(s, Has(c, s), Was(t, c))
    PROVE  st'[s].state \in Fit(s, InTableNow(k, s), Then(k, j))
<1>0. k.table = ch[c].table => InTableNow(k, s) = Has(c, s)
  BY DEF InTableNow, Has
<1>1. CASE ByBegun(t, c, k, j)
  <2>1. ~InChannel(t) /\ ch[c].state = "STOPPED" /\ SameTable(c, k) /\ st' = st /\ j.pc = "link"
    BY <1>1, SteppingFacts DEF ByBegun, Goes
  <2>2. Was(t, c) = Idle("STOPPED") /\ Then(k, j) = j
    BY <2>1, NoCallIs DEF Was, Then, Ends
  <2>3. States(Idle("STOPPED"), s) = {"CFG"} /\ States(j, s) = {"CFG"}
    BY <2>1, IdleIs, StatesAt
  <2> QED BY <1>0, <2>1, <2>2, <2>3 DEF Fit, SameTable
<1>2. CASE ByLinked(t, c, k, j)
  <2>1. call[t].pc = "link" /\ call[t].pc \in Listing /\ k = ch[c] /\ j.pc = "streams" /\ j.ord = call[t].ord
        /\ st'[s].state = st[s].state /\ j.i = call[t].i
    BY <1>2 DEF ByLinked, Goes, Counts, Relinked, Listing, Starting
  <2>2. Was(t, c) = call[t] /\ Then(k, j) = j /\ j.i = 1 /\ call[t].ord \in Seq(Streams)
    BY <2>1, NoCallIs, WorkList DEF Then, Ends
  <2>3. s \notin Before(j.ord, j.i)
    BY <2>1, <2>2, BeforeIs
  <2>4. States(call[t], s) = {"CFG"} /\ States(j, s) = {"CFG"}
    BY <2>1, <2>3, StatesAt
  <2> QED BY <1>0, <2>1, <2>2, <2>4 DEF Fit
<1>3. CASE ByStarted(t, c, k, j)
  <2>1. call[t].pc = "streams" /\ call[t].pc \in Listing /\ k = ch[c] /\ j.pc = "streams" /\ j.ord = call[t].ord
        /\ j.i = call[t].i + 1 /\ call[t].i \in DOMAIN call[t].ord
    BY <1>3 DEF ByStarted, Advances, Goes, Counts, Listing, Starting
  <2>2. Was(t, c) = call[t] /\ Then(k, j) = j
    BY <2>1, NoCallIs, WorkList DEF Then, Ends
  <2>3. s \in Before(j.ord, j.i) <=> s \in Before(call[t].ord, call[t].i) \/ s = Current(t)
    BY <2>1, WorkList, BeforeIs DEF Current
  <2>4. States(call[t], s) = IF s \in Before(call[t].ord, call[t].i) THEN {"ACTIVE"} ELSE {"CFG"}
    BY <2>1, StatesAt
  <2>5. States(j, s) = IF s \in Before(j.ord, j.i) THEN {"ACTIVE"} ELSE {"CFG"}
    BY <2>1, StatesAt
  <2>6. s = Current(t) => Has(c, s) /\ st'[s].state = "ACTIVE"
    <3>1. ASSUME s = Current(t) PROVE Has(c, s) /\ st'[s].state = "ACTIVE"
      <4>1. s \in Range(call[t].ord)
        BY <2>1, <3>1 DEF Range, Current
      <4>2. Has(c, s)
        BY <2>1, <4>1, WorkList
      <4> QED BY <1>3, <3>1, <4>2 DEF ByStarted, Restarted
    <3> QED BY <3>1
  <2>7. s # Current(t) => st'[s].state = st[s].state
    BY <1>3 DEF ByStarted, Restarted
  <2> QED BY <1>0, <2>1, <2>2, <2>3, <2>4, <2>5, <2>6, <2>7 DEF Fit
<1>4. CASE ByFailed(t, c, k, j)
  <2>1. call[t].pc = "streams" /\ call[t].pc \in Listing /\ k = ch[c] /\ j.pc = "undo_links" /\ j.ord = call[t].ord
        /\ j.i = call[t].i /\ call[t].i \in DOMAIN call[t].ord
    BY <1>4 DEF ByFailed, Goes, Counts, Listing, Starting
  <2>2. Was(t, c) = call[t] /\ Then(k, j) = j
    BY <2>1, NoCallIs, WorkList DEF Then, Ends
  <2>4. States(call[t], s) = IF s \in Before(call[t].ord, call[t].i) THEN {"ACTIVE"} ELSE {"CFG"}
    BY <2>1, StatesAt
  <2>5. States(j, s) = IF s \in Before(j.ord, j.i) THEN {"ACTIVE"}
                                ELSE IF s = Current(t) THEN {"CFG", "BUFFED", "REG"} ELSE {"CFG"}
    BY <2>1, StatesAt DEF Current
  <2>6. s = Current(t) => Has(c, s) /\ st'[s].state \in {"CFG", "BUFFED", "REG"} /\ s \notin Before(j.ord, j.i)
    <3>1. ASSUME s = Current(t) PROVE Has(c, s) /\ st'[s].state \in {"CFG", "BUFFED", "REG"}
      <4>1. s \in Range(call[t].ord)
        BY <2>1, <3>1 DEF Range, Current
      <4>2. Has(c, s)
        BY <2>1, <4>1, WorkList
      <4> QED BY <1>4, <3>1, <4>2 DEF ByFailed, Restated
    <3>2. Current(t) \notin Before(call[t].ord, call[t].i)
      BY <2>1, WorkList, BeforeIs DEF Current
    <3> QED BY <2>1, <3>1, <3>2
  <2>7. s # Current(t) => st'[s].state = st[s].state
    BY <1>4 DEF ByFailed, Restated
  <2> QED BY <1>0, <2>1, <2>2, <2>4, <2>5, <2>6, <2>7 DEF Fit
<1>5. CASE ByActive(t, c, k, j)
  <2>1. call[t].pc = "streams" /\ call[t].pc \in Listing /\ k.table = ch[c].table /\ st' = st /\ Ends(j)
        /\ k.state = "ACTIVE" /\ call[t].i > Len(call[t].ord)
    BY <1>5 DEF ByActive, Listing, Starting
  <2>2. Was(t, c) = call[t] /\ Then(k, j) = Idle("ACTIVE")
    BY <2>1, WorkList DEF Then
  <2>4. States(call[t], s) = IF s \in Before(call[t].ord, call[t].i) THEN {"ACTIVE"} ELSE {"CFG"}
    BY <2>1, StatesAt
  <2>5. States(Idle("ACTIVE"), s) = {"ACTIVE"}
    BY IdleIs, StatesAt
  <2>6. Has(c, s) => s \in Before(call[t].ord, call[t].i)
    BY <2>1, WorkList, BeforeIs
  <2> QED BY <1>0, <2>1, <2>2, <2>4, <2>5, <2>6 DEF Fit
<1>6. CASE ByUndoLinks(t, c, k, j)
  <2>1. call[t].pc = "undo_links" /\ call[t].pc \in Listing /\ k.table = ch[c].table
        /\ j.pc \in {"undo_ack", "undo_copies"} /\ j.ord = call[t].ord
        /\ j.i = call[t].i /\ st'[s].state = st[s].state
    BY <1>6 DEF ByUndoLinks, ByUnlinked, Posted, Relinked, Goes, Counts, Listing, Starting, Undoing
  <2>2. Was(t, c) = call[t] /\ Then(k, j) = j
    BY <2>1, NoCallIs, WorkList DEF Then, Ends
  <2>4. States(call[t], s) = States(j, s)
    <3>1. States(call[t], s) = IF s \in Before(call[t].ord, call[t].i) THEN {"ACTIVE"}
                                ELSE IF s = call[t].ord[call[t].i] THEN {"CFG", "BUFFED", "REG"} ELSE {"CFG"}
      BY <2>1, StatesAt
    <3>2. States(j, s) = IF s \in Before(call[t].ord, call[t].i) THEN {"ACTIVE"}
                                ELSE IF s = call[t].ord[call[t].i] THEN {"CFG", "BUFFED", "REG"} ELSE {"CFG"}
      BY <2>1, StatesAt
    <3> QED BY <3>1, <3>2
  <2> QED BY <1>0, <2>1, <2>2, <2>4 DEF Fit
<1>7. CASE ByCleared(t, c, k, j)
  <2>1. call[t].pc = "undo_copies" /\ call[t].pc \in Listing /\ j.pc = "undo_streams" /\ j.ord = call[t].ord
        /\ j.i = call[t].i /\ j.j = 1 /\ st' = st
    BY <1>7 DEF ByCleared, Goes, Counts, Listing, Starting, Undoing
  <2>2. Was(t, c) = call[t] /\ Then(k, j) = j /\ call[t].ord \in Seq(Streams)
    BY <2>1, NoCallIs, WorkList DEF Then, Ends
  <2>3. s \notin Before(j.ord, j.j)
    BY <2>1, <2>2, BeforeIs
  <2>4. States(call[t], s) = States(j, s)
    <3>1. States(call[t], s) = IF s \in Before(call[t].ord, call[t].i) THEN {"ACTIVE"}
                                ELSE IF s = call[t].ord[call[t].i] THEN {"CFG", "BUFFED", "REG"} ELSE {"CFG"}
      BY <2>1, StatesAt
    <3>2. States(j, s) = IF s \in Before(call[t].ord, call[t].i) THEN {"ACTIVE"}
                                ELSE IF s = call[t].ord[call[t].i] THEN {"CFG", "BUFFED", "REG"} ELSE {"CFG"}
      BY <2>1, <2>3, StatesAt
    <3> QED BY <3>1, <3>2
  <2>5. InTableNow(k, s) <=> Has(c, s)
    BY <1>7 DEF ByCleared, Own
  <2> QED BY <2>1, <2>2, <2>4, <2>5 DEF Fit
<1>8. CASE ByUndone(t, c, k, j)
  <2> DEFINE x == call[t].ord[call[t].j]
  <2>1. call[t].pc = "undo_streams" /\ call[t].pc \in Listing /\ k = ch[c] /\ j.pc = "undo_streams"
        /\ j.ord = call[t].ord /\ j.i = call[t].i /\ j.j = call[t].j + 1 /\ call[t].j \in DOMAIN call[t].ord
    BY <1>8 DEF ByUndone, Goes, Listing, Starting, Undoing
  <2>2. Was(t, c) = call[t] /\ Then(k, j) = j
    BY <2>1, NoCallIs, WorkList DEF Then, Ends
  <2>9. call[t].ord \in Seq(Streams) /\ call[t].j \in 1..Len(call[t].ord) + 1
    BY <2>1, WorkList
  <2>3. s \in Before(j.ord, j.j) <=> s \in Before(call[t].ord, call[t].j) \/ s = x
    BY <2>1, <2>9, BeforeIs
  <2>4. s # x => States(call[t], s) = States(j, s)
    <3>1. States(call[t], s) = IF s \in Before(call[t].ord, call[t].j) THEN {"CFG"}
                                ELSE IF s \in Before(call[t].ord, call[t].i) THEN {"ACTIVE"}
                                ELSE IF s = call[t].ord[call[t].i] THEN {"CFG", "BUFFED", "REG"} ELSE {"CFG"}
      BY <2>1, StatesAt
    <3>2. States(j, s) = IF s \in Before(call[t].ord, j.j) THEN {"CFG"}
                                ELSE IF s \in Before(call[t].ord, call[t].i) THEN {"ACTIVE"}
                                ELSE IF s = call[t].ord[call[t].i] THEN {"CFG", "BUFFED", "REG"} ELSE {"CFG"}
      BY <2>1, StatesAt
    <3> QED BY <2>1, <2>3, <3>1, <3>2
  <2>5. s = x => Has(c, s) /\ st'[s].state = "CFG" /\ States(j, s) = {"CFG"}
    <3>1. ASSUME s = x PROVE Has(c, s) /\ st'[s].state = "CFG"
      <4>1. s \in Range(call[t].ord)
        BY <2>1, <3>1 DEF Range
      <4>2. Has(c, s)
        BY <2>1, <4>1, WorkList
      <4> QED BY <1>8, <3>1, <4>2 DEF ByUndone, Restarted
    <3> QED BY <2>1, <2>3, <3>1, StatesAt
  <2>7. s # x => st'[s].state = st[s].state
    BY <1>8 DEF ByUndone, Restarted
  <2> QED BY <1>0, <2>1, <2>2, <2>4, <2>5, <2>7 DEF Fit
<1> QED BY <1>1, <1>2, <1>3, <1>4, <1>5, <1>6, <1>7, <1>8 DEF ByStart

LEMMA StopStates ==
    ASSUME NEW t, NEW c, NEW k, NEW j, Stepping(t, c, k, j), ByStop(t, c, k, j),
           NEW s \in Streams, Owner[s] = c, st[s].state \in Fit(s, Has(c, s), Was(t, c))
    PROVE  st'[s].state \in Fit(s, InTableNow(k, s), Then(k, j))
<1>0. k.table = ch[c].table => InTableNow(k, s) = Has(c, s)
  BY DEF InTableNow, Has
<1>1. CASE ByStopBegun(t, c, k, j)
  <2>1. ~InChannel(t) /\ ch[c].state = "ACTIVE" /\ k = ch[c] /\ st' = st /\ j.pc = "off" /\ j.i = 1
    BY <1>1, SteppingFacts DEF ByStopBegun, Goes
  <2>2. Was(t, c) = Idle("ACTIVE") /\ Then(k, j) = j
    BY <2>1, NoCallIs DEF Was, Then, Ends
  <2>3. j.ord \in Seq(Streams)
    BY SteppingFacts DEF CallType
  <2>4. s \notin Before(j.ord, j.i)
    <3>1. 1 \in 1..Len(j.ord) + 1
      BY <2>3
    <3> QED BY <2>1, <2>3, <3>1, BeforeIs
  <2>5. States(Idle("ACTIVE"), s) = {"ACTIVE"} /\ States(j, s) = {"ACTIVE"}
    BY <2>1, <2>4, IdleIs, StatesAt
  <2> QED BY <1>0, <2>1, <2>2, <2>5 DEF Fit
<1>2. CASE ByStopped(t, c, k, j)
  <2>1. call[t].pc = "off" /\ call[t].pc \in Listing /\ k = ch[c] /\ j.pc = "off" /\ j.ord = call[t].ord
        /\ j.i = call[t].i + 1 /\ call[t].i \in DOMAIN call[t].ord
    BY <1>2 DEF ByStopped, Advances, Goes, Counts, Listing, StoppingAt
  <2>2. Was(t, c) = call[t] /\ Then(k, j) = j
    BY <2>1, NoCallIs, WorkList DEF Then, Ends
  <2>3. s \in Before(j.ord, j.i) <=> s \in Before(call[t].ord, call[t].i) \/ s = Current(t)
    BY <2>1, WorkList, BeforeIs DEF Current
  <2>4. States(call[t], s) = IF s \in Before(call[t].ord, call[t].i) THEN {"BUFFED"} ELSE {"ACTIVE"}
    BY <2>1, StatesAt
  <2>5. States(j, s) = IF s \in Before(j.ord, j.i) THEN {"BUFFED"} ELSE {"ACTIVE"}
    BY <2>1, StatesAt
  <2>6. s = Current(t) => Has(c, s) /\ st'[s].state = "BUFFED"
    <3>1. ASSUME s = Current(t) PROVE Has(c, s) /\ st'[s].state = "BUFFED"
      <4>1. s \in Range(call[t].ord)
        BY <2>1, <3>1 DEF Range, Current
      <4>2. Has(c, s)
        BY <2>1, <4>1, WorkList
      <4> QED BY <1>2, <3>1, <4>2 DEF ByStopped, Restarted
    <3> QED BY <3>1
  <2>7. s # Current(t) => st'[s].state = st[s].state
    BY <1>2 DEF ByStopped, Restarted
  <2> QED BY <1>0, <2>1, <2>2, <2>3, <2>4, <2>5, <2>6, <2>7 DEF Fit
<1>3. CASE ByStopLinks(t, c, k, j)
  <2>1. call[t].pc = "off" /\ call[t].pc \in Listing /\ k.table = ch[c].table
        /\ j.pc \in {"ack", "threads"} /\ call[t].i > Len(call[t].ord) /\ st'[s].state = st[s].state
    BY <1>3 DEF ByStopLinks, ByUnlinked, Posted, Relinked, Goes, Counts, Listing, StoppingAt
  <2>2. Was(t, c) = call[t] /\ Then(k, j) = j
    BY <2>1, NoCallIs, WorkList DEF Then, Ends
  <2>3. Has(c, s) => s \in Before(call[t].ord, call[t].i)
    BY <2>1, WorkList, BeforeIs
  <2>4. States(call[t], s) = (IF s \in Before(call[t].ord, call[t].i) THEN {"BUFFED"} ELSE {"ACTIVE"})
        /\ States(j, s) = {"BUFFED"}
    BY <2>1, StatesAt
  <2> QED BY <1>0, <2>1, <2>2, <2>3, <2>4 DEF Fit
<1>4. CASE ByReleased(t, c, k, j)
  <2>1. k.table = ch[c].table /\ st' = st /\ j.pc \in Ending /\ j.op = call[t].op /\ call[t].pc \in Listing
        /\ j.pc \notin {"idle", "zero"}
    BY <1>4 DEF ByReleased, Posted, Goes, Ending, Listing, Starting, Undoing, StoppingAt
  <2>2. Was(t, c) = call[t] /\ Then(k, j) = j
    BY <2>1, NoCallIs, WorkList DEF Then, Ends
  <2>3. CASE call[t].pc = "threads"
    <3>1. States(call[t], s) = {"BUFFED"} /\ States(j, s) = {"BUFFED"}
      BY <2>1, <2>3, StatesAt, WorkList DEF StoppingAt
    <3> QED BY <1>0, <2>1, <2>2, <3>1 DEF Fit
  <2>4. CASE call[t].pc = "undo_streams" /\ call[t].j = call[t].i + 1
    <3>1. call[t].i \in DOMAIN call[t].ord
      BY <2>1, <2>4, WorkList DEF Undoes, Undoing
    <3>2. s \in Before(call[t].ord, call[t].j) <=> s \in Before(call[t].ord, call[t].i) \/ s = call[t].ord[call[t].i]
      BY <2>1, <2>4, <3>1, WorkList, BeforeIs
    <3>3. States(call[t], s) = {"CFG"} /\ States(j, s) = {"CFG"}
      BY <2>1, <2>4, <3>2, StatesAt, WorkList DEF Starting, Undoing
    <3> QED BY <1>0, <2>1, <2>2, <3>3 DEF Fit
  <2> QED BY <1>4, <2>3, <2>4 DEF ByReleased
<1>5. CASE ByCmdJoined(t, c, k, j) \/ ByCbJoined(t, c, k, j)
  <2>1. k.table = ch[c].table /\ st' = st /\ j.pc \in Ending /\ j.op = call[t].op /\ call[t].pc \in Listing
        /\ j.pc \notin {"idle", "zero"} /\ call[t].pc \in Ending
    BY <1>5 DEF ByCmdJoined, ByCbJoined, SameTable, Goes, Ending, Listing
  <2>2. Was(t, c) = call[t] /\ Then(k, j) = j
    BY <2>1, NoCallIs, WorkList DEF Then, Ends
  <2>3. States(call[t], s) = States(j, s)
    <3>1. States(call[t], s) = IF call[t].op = "start" THEN {"CFG"} ELSE {"BUFFED"}
      BY <2>1, StatesAt
    <3>2. States(j, s) = IF j.op = "start" THEN {"CFG"} ELSE {"BUFFED"}
      BY <2>1, StatesAt
    <3> QED BY <2>1, <3>1, <3>2
  <2> QED BY <1>0, <2>1, <2>2, <2>3 DEF Fit
<1>6. CASE ByPut(t, c, k, j)
  <2>1. call[t].pc \in Ending /\ call[t].pc \in Listing /\ Ends(j) /\ k.state = "STOPPED"
        /\ (InTableNow(k, s) <=> Has(c, s))
        /\ st'[s].state = IF Has(c, s) /\ st[s].state = "BUFFED" THEN "CFG" ELSE st[s].state
    BY <1>6 DEF ByPut, Own, Ending, Listing
  <2>2. Was(t, c) = call[t] /\ Then(k, j) = Idle("STOPPED")
    BY <2>1, WorkList DEF Then
  <2>3. States(call[t], s) \in {{"BUFFED"}, {"CFG"}} /\ States(Idle("STOPPED"), s) = {"CFG"}
    BY <2>1, IdleIs, StatesAt
  <2> QED BY <2>1, <2>2, <2>3 DEF Fit
<1> QED BY <1>1, <1>2, <1>3, <1>4, <1>5, <1>6 DEF ByStop

LEMMA StateStep ==
    ASSUME NEW t, NEW c, NEW k, NEW j, Stepping(t, c, k, j), By(t, k, j), StateInv
    PROVE  StateInv'
<1>1. \A s \in Streams : st[s].state \in Fit(s, Has(Owner[s], s), Job(Owner[s]))
  BY DEF StateInv, Fit
<1>2. ASSUME NEW s \in Streams PROVE st'[s].state \in Fit(s, Has(Owner[s], s)', Job(Owner[s])')
  <2>0. Owner[s] \in Channels
    BY ChannelConstantsOK
  <2>1. CASE Owner[s] = c
    <3>1. Has(Owner[s], s)' = InTableNow(k, s) /\ Job(Owner[s])' = Then(k, j) /\ Job(Owner[s]) = Was(t, c)
      BY <2>1, SteppingFacts DEF Has, InTableNow
    <3>2. st[s].state \in Fit(s, Has(c, s), Was(t, c))
      BY <1>1, <2>1, <3>1
    <3>3. st'[s].state \in Fit(s, InTableNow(k, s), Then(k, j))
      BY <2>1, <3>2, SimpleStates, StartStates, StopStates DEF By, Stepping
    <3> QED BY <3>1, <3>3
  <2>2. CASE Owner[s] # c
    <3>1. st'[s].state = st[s].state
      BY <2>2, OthersKeep
    <3>2. Has(Owner[s], s)' = Has(Owner[s], s) /\ Job(Owner[s])' = Job(Owner[s])
      BY <2>0, <2>2, SteppingFacts DEF Has
    <3> QED BY <1>1, <3>1, <3>2
  <2> QED BY <2>1, <2>2
<1> QED BY <1>2 DEF StateInv, Fit

-----------------------------------------------------------------------------
(* The links *)

LEMMA AtIn ==
    ASSUME BaseInv, NEW c \in Channels
    PROVE  At(c) \in {"NOTUSED", "STOPPED", "ACTIVE", "flush_ack"} \cup Starting \cup StoppingAt \cup Ending
<1>1. CASE ChFree(c)
  <2>1. ch[c].state \in {"NOTUSED", "STOPPED", "ACTIVE"}
    BY DEF BaseInv, TypeInv, TypeOK, ChannelType
  <2> QED BY <1>1, <2>1, JobIs, IdleIs DEF At
<1>2. CASE ~ChFree(c)
  <2>1. PICK t \in Threads : In(t, c)
    BY <1>2 DEF ChFree, In
  <2>2. call[t].pc \in PCs \ {"idle", "ch_wait", "zero"}
    BY <2>1 DEF In, InChannel, BaseInv, TypeInv, CallType
  <2> QED BY <2>1, <2>2, JobIs DEF At, PCs
<1> QED BY <1>1, <1>2

\* What a step of a call makes of the links to its channel.
Relinks(t, c, k, j) ==
    \/ /\ \A s \in Streams : st'[s].link = st[s].link
       /\ Was(t, c).pc \in Linked <=> Then(k, j).pc \in Linked
       /\ Was(t, c).pc \in Linked => k.table = ch[c].table
    \/ /\ \A s \in Streams : st'[s].link = st[s].link \/ (s \in Links(c) /\ st'[s].link = None)
       /\ Was(t, c).pc \notin Linked /\ Then(k, j).pc \notin Linked
    \/ /\ Relinked(c, c) /\ k.table = ch[c].table
       /\ Was(t, c).pc \notin Linked /\ Then(k, j).pc \in Linked
    \/ /\ Relinked(c, None) /\ k.table = ch[c].table
       /\ Then(k, j).pc \notin Linked

LEMMA GoesThen ==
    ASSUME NEW t, NEW k, NEW j, NEW pc, Goes(t, j, pc), pc \notin {"idle", "zero"}
    PROVE  Then(k, j) = j /\ j.pc = pc
BY NoCallIs DEF Then, Ends, Goes

LEMMA RelinksIs ==
    ASSUME NEW t, NEW c, NEW k, NEW j, Stepping(t, c, k, j), By(t, k, j)
    PROVE  Relinks(t, c, k, j)
<1>0. /\ ~InChannel(t) => Was(t, c).pc = ch[c].state
      /\ InChannel(t) => Was(t, c).pc = call[t].pc
      /\ Ends(j) \/ j.pc = "zero" => Then(k, j).pc = k.state
  BY IdleIs DEF Was, Then
<1>1. CASE BySimple(t, c, k, j)
  <2>1. CASE ByIgnored(t, c, k, j)
    BY <1>0, <2>1, SteppingFacts DEF ByIgnored, Relinks
  <2>2. CASE ByAdded(t, c, k, j) \/ ByRemoved(t, c, k, j)
    <3>1. Was(t, c).pc = "STOPPED" /\ Then(k, j).pc = "STOPPED"
      BY <1>0, <2>2, SteppingFacts DEF ByAdded, ByRemoved
    <3>2. \A s \in Streams : st'[s].link = st[s].link \/ (s \in Links(c) /\ st'[s].link = None)
      BY <2>2 DEF ByAdded, ByRemoved, Restated, Links
    <3> QED BY <3>1, <3>2 DEF Relinks, Linked
  <2>3. CASE ByDisposed(t, c, k, j) \/ ByZeroed(t, c, k, j)
    <3>1. st' = st /\ ~InChannel(t) /\ ch[c].state # "ACTIVE" /\ k.state = "NOTUSED" /\ (Ends(j) \/ j.pc = "zero")
      <4>1. CASE ByDisposed(t, c, k, j)
        BY <4>1, SteppingFacts DEF ByDisposed
      <4>2. CASE ByZeroed(t, c, k, j)
        <5>1. call[t].op = "delete" /\ call[t].pc = "zero"
          BY <4>2, SteppingFacts DEF ByZeroed, Places, Starting, Undoing, StoppingAt, Ending
        <5> QED BY <4>2, <5>1, SteppingFacts DEF ByZeroed, NewChannel, Stepping, BaseInv, TypeInv, DeleteInv
      <4> QED BY <2>3, <4>1, <4>2
    <3>2. Was(t, c).pc \in {"NOTUSED", "STOPPED"} /\ Then(k, j).pc = "NOTUSED"
      BY <1>0, <3>1, SteppingFacts DEF ChannelType
    <3> QED BY <3>1, <3>2 DEF Relinks, Linked
  <2>4. CASE ByRequested(t, c, k, j)
    <3>1. Was(t, c).pc = "ACTIVE" /\ Then(k, j).pc = "ACTIVE" /\ k.table = ch[c].table /\ st' = st
      BY <1>0, <2>4, SteppingFacts DEF ByRequested, Posted
    <3> QED BY <3>1 DEF Relinks, Linked
  <2>5. CASE ByFlushed(t, c, k, j)
    <3>1. Was(t, c).pc = "ACTIVE" /\ Then(k, j).pc = "flush_ack" /\ k.table = ch[c].table /\ st' = st
      BY <1>0, <2>5, SteppingFacts, GoesThen DEF ByFlushed, Posted
    <3> QED BY <3>1 DEF Relinks, Linked
  <2>6. CASE ByAcked(t, c, k, j)
    <3>1. InChannel(t) /\ k.table = ch[c].table /\ k.state = ch[c].state /\ st' = st
      BY <2>6 DEF ByAcked, Acknowledged, SameTable, InChannel
    <3>2. CASE call[t].pc = "flush_ack" /\ Ends(j)
      <4>1. Was(t, c).pc = "flush_ack" /\ Then(k, j).pc = "ACTIVE"
        BY <1>0, <3>1, <3>2, SteppingFacts DEF StateIn
      <4> QED BY <3>1, <4>1 DEF Relinks, Linked
    <3>3. CASE call[t].pc = "undo_ack" /\ Goes(t, j, "undo_copies") /\ Counts(t, j)
      <4>1. Was(t, c).pc = "undo_ack" /\ Then(k, j).pc = "undo_copies"
        BY <1>0, <3>1, <3>3, GoesThen
      <4> QED BY <3>1, <4>1 DEF Relinks, Linked
    <3>4. CASE call[t].pc = "ack" /\ Goes(t, j, "threads") /\ Counts(t, j)
      <4>1. Was(t, c).pc = "ack" /\ Then(k, j).pc = "threads"
        BY <1>0, <3>1, <3>4, GoesThen
      <4> QED BY <3>1, <4>1 DEF Relinks, Linked
    <3> QED BY <2>6, <3>2, <3>3, <3>4 DEF ByAcked
  <2> QED BY <1>1, <2>1, <2>2, <2>3, <2>4, <2>5, <2>6 DEF BySimple
<1>2. CASE ByStart(t, c, k, j)
  <2>1. CASE ByBegun(t, c, k, j)
    <3>1. Was(t, c).pc = "STOPPED" /\ Then(k, j).pc = "link" /\ st' = st
      BY <1>0, <2>1, SteppingFacts, GoesThen DEF ByBegun
    <3> QED BY <3>1 DEF Relinks, Linked
  <2>2. CASE ByLinked(t, c, k, j)
    <3>1. Was(t, c).pc = "link" /\ Then(k, j).pc = "streams" /\ k.table = ch[c].table /\ Relinked(c, c)
      BY <1>0, <2>2, SteppingFacts, GoesThen DEF ByLinked, Listing, Starting
    <3> QED BY <3>1 DEF Relinks, Linked
  <2>3. CASE ByStarted(t, c, k, j) \/ ByFailed(t, c, k, j)
    <3>1. Was(t, c).pc = "streams" /\ Then(k, j).pc \in {"streams", "undo_links"} /\ k.table = ch[c].table
      BY <1>0, <2>3, SteppingFacts, GoesThen DEF ByStarted, ByFailed, Advances, Listing, Starting
    <3>2. \A s \in Streams : st'[s].link = st[s].link
      BY <2>3 DEF ByStarted, ByFailed, Restarted, Restated
    <3> QED BY <3>1, <3>2 DEF Relinks, Linked
  <2>4. CASE ByActive(t, c, k, j)
    <3>1. Was(t, c).pc = "streams" /\ Then(k, j).pc = "ACTIVE" /\ k.table = ch[c].table /\ st' = st
      BY <1>0, <2>4, SteppingFacts DEF ByActive, Listing, Starting
    <3> QED BY <3>1 DEF Relinks, Linked
  <2>5. CASE ByUndoLinks(t, c, k, j)
    <3>0. Goes(t, j, "undo_ack") \/ Goes(t, j, "undo_copies")
      BY <2>5 DEF ByUndoLinks, ByUnlinked
    <3>2. k.table = ch[c].table /\ Relinked(c, None)
      BY <2>5 DEF ByUndoLinks, ByUnlinked, Posted
    <3>1. Then(k, j).pc \in {"undo_ack", "undo_copies"} /\ k.table = ch[c].table /\ Relinked(c, None)
      BY <3>0, <3>2, GoesThen
    <3> QED BY <3>1 DEF Relinks, Linked
  <2>6. CASE ByCleared(t, c, k, j) \/ ByUndone(t, c, k, j)
    <3>1. Was(t, c).pc \in {"undo_copies", "undo_streams"} /\ Then(k, j).pc = "undo_streams"
      BY <1>0, <2>6, SteppingFacts, GoesThen DEF ByCleared, ByUndone, Listing, Starting, Undoing
    <3>2. \A s \in Streams : st'[s].link = st[s].link
      BY <2>6 DEF ByCleared, ByUndone, Restarted
    <3> QED BY <3>1, <3>2 DEF Relinks, Linked
  <2> QED BY <1>2, <2>1, <2>2, <2>3, <2>4, <2>5, <2>6 DEF ByStart
<1>3. CASE ByStop(t, c, k, j)
  <2>1. CASE ByStopBegun(t, c, k, j)
    <3>1. Was(t, c).pc = "ACTIVE" /\ Then(k, j).pc = "off" /\ k = ch[c] /\ st' = st
      BY <1>0, <2>1, SteppingFacts, GoesThen DEF ByStopBegun
    <3> QED BY <3>1 DEF Relinks, Linked
  <2>2. CASE ByStopped(t, c, k, j)
    <3>1. Was(t, c).pc = "off" /\ Then(k, j).pc = "off" /\ k = ch[c]
      BY <1>0, <2>2, SteppingFacts, GoesThen DEF ByStopped, Advances, Listing, StoppingAt
    <3>2. \A s \in Streams : st'[s].link = st[s].link
      BY <2>2 DEF ByStopped, Restarted
    <3> QED BY <3>1, <3>2 DEF Relinks, Linked
  <2>3. CASE ByStopLinks(t, c, k, j)
    <3>0. Goes(t, j, "ack") \/ Goes(t, j, "threads")
      BY <2>3 DEF ByStopLinks, ByUnlinked
    <3>2. k.table = ch[c].table /\ Relinked(c, None)
      BY <2>3 DEF ByStopLinks, ByUnlinked, Posted
    <3>1. Then(k, j).pc \in {"ack", "threads"} /\ k.table = ch[c].table /\ Relinked(c, None)
      BY <3>0, <3>2, GoesThen
    <3> QED BY <3>1 DEF Relinks, Linked
  <2>4. CASE ByReleased(t, c, k, j) \/ ByCmdJoined(t, c, k, j) \/ ByCbJoined(t, c, k, j)
    <3>1. /\ call[t].pc \in {"threads", "undo_streams", "cmd_join", "cb_join"} /\ st' = st
          /\ Then(k, j).pc \in {"cmd_join", "cb_join", "put"}
      BY <2>4, GoesThen DEF ByReleased, ByCmdJoined, ByCbJoined
    <3>2. Was(t, c).pc = call[t].pc
      BY <1>0, <3>1 DEF InChannel
    <3> QED BY <3>1, <3>2 DEF Relinks, Linked
  <2>5. CASE ByPut(t, c, k, j)
    <3>1. call[t].pc = "put" /\ Then(k, j).pc = "STOPPED" /\ \A s \in Streams : st'[s].link = st[s].link
      BY <1>0, <2>5 DEF ByPut
    <3>2. Was(t, c).pc = "put"
      BY <1>0, <3>1 DEF InChannel
    <3> QED BY <3>1, <3>2 DEF Relinks, Linked
  <2> QED BY <1>3, <2>1, <2>2, <2>3, <2>4, <2>5 DEF ByStop
<1> QED BY <1>1, <1>2, <1>3 DEF By, Stepping

LEMMA OneLink ==
    ASSUME BaseInv, Orderly, NEW s \in Streams, NEW c \in Channels, NEW d \in Channels,
           s \in Links(c), s \in Links(d)
    PROVE  c = d
<1>1. s = scene.links[c] /\ s = scene.links[d] /\ scene \in Scenes
  BY DEF BaseInv, TableInv, Links, TypeInv, TypeOK
<1>2. s # None
  BY ChannelConstantsOK
<1>3. scene.links[c] = scene.links[d] /\ scene.links[c] # None => c = d
  BY <1>1 DEF Orderly
<1> QED BY <1>1, <1>2, <1>3

LEMMA LinkStep ==
    ASSUME NEW t, NEW c, NEW k, NEW j, Stepping(t, c, k, j), By(t, k, j), Orderly, LinkInv
    PROVE  LinkInv'
<1>0. BaseInv /\ c \in Channels
  BY SteppingFacts DEF Stepping
<1>1. ASSUME NEW s \in Streams, NEW d \in Channels \ {c}
      PROVE  st'[s].link = d <=> (s \in Links(d))' /\ At(d)' \in Linked
  <2>1. /\ Links(d)' = Links(d) /\ At(d)' = At(d)
    BY SteppingFacts DEF Links, Has, At
  <2>2. st'[s].link = st[s].link \/ (s \in Links(c) /\ st'[s].link \in {c, None})
    BY RelinksIs DEF Relinks, Relinked
  <2>3. st[s].link = d => s \in Links(d)
    BY DEF LinkInv
  <2>4. s \in Links(c) => st[s].link # d /\ d # None
    BY <1>0, <2>3, OneLink, ChannelConstantsOK
  <2> QED BY <2>1, <2>2, <2>4 DEF LinkInv
<1>2. ASSUME NEW s \in Streams
      PROVE  st'[s].link = c <=> (s \in Links(c))' /\ At(c)' \in Linked
  <2>1. At(c) = Was(t, c).pc /\ At(c)' = Then(k, j).pc
    BY SteppingFacts DEF At
  <2>2. k.table = ch[c].table => (s \in Links(c))' = (s \in Links(c))
    BY SteppingFacts DEF Links, Has
  <2>3. st[s].link = c <=> s \in Links(c) /\ At(c) \in Linked
    BY <1>0 DEF LinkInv
  <2>4. c # None
    BY <1>0, ChannelConstantsOK
  <2> QED BY <2>1, <2>2, <2>3, <2>4, RelinksIs DEF Relinks, Relinked
<1> QED BY <1>1, <1>2 DEF LinkInv

-----------------------------------------------------------------------------
(* States and links, when a thread or the client does something *)

LEMMA StateWork ==
    ASSUME BaseInv, BaseInv', NEW c \in Channels, NEW k, Work(c, k), ByWork(c, k), StateInv
    PROVE  StateInv'
<1>1. ASSUME NEW s \in Streams
      PROVE  st'[s].state \in IF Has(Owner[s], s)' THEN States(Job(Owner[s])', s) ELSE {"NOTUSED"}
  <2>1. Owner[s] \in Channels /\ s # None
    BY ChannelConstantsOK
  <2>2. st'[s].state = st[s].state
    BY DEF Work, SameLife
  <2>3. Has(Owner[s], s)' <=> Has(Owner[s], s)
    BY <2>1, JobWork
  <2>4. CASE Job(Owner[s])' = Job(Owner[s])
    BY <2>2, <2>3, <2>4 DEF StateInv
  <2>5. CASE Owner[s] = c /\ ByOpened(c, k)
    <3>1. ~Has(c, s)
      BY <2>1, <2>5, HasUsed DEF ByOpened, BaseInv, TypeInv, DeleteInv
    <3> QED BY <2>2, <2>3, <2>5, <3>1 DEF StateInv
  <2> QED BY <2>1, <2>4, <2>5, JobWork
<1> QED BY <1>1 DEF StateInv

LEMMA LinkWork ==
    ASSUME BaseInv, BaseInv', NEW c \in Channels, NEW k, Work(c, k), ByWork(c, k), LinkInv
    PROVE  LinkInv'
<1>1. ASSUME NEW s \in Streams, NEW d \in Channels
      PROVE  st'[s].link = d <=> (s \in Links(d))' /\ At(d)' \in Linked
  <2>1. st'[s].link = st[s].link
    BY DEF Work, SameLife
  <2>2. (s \in Links(d))' <=> s \in Links(d)
    BY JobWork DEF Links
  <2>3. At(d)' \in Linked <=> At(d) \in Linked
    <3>1. CASE Job(d)' = Job(d)
      BY <3>1 DEF At
    <3>2. CASE Job(d) = Idle("NOTUSED") /\ Job(d)' = Idle("STOPPED")
      BY <3>2, IdleIs DEF At, Linked
    <3> QED BY <3>1, <3>2, JobWork
  <2> QED BY <2>1, <2>2, <2>3 DEF LinkInv
<1> QED BY <1>1 DEF LinkInv
-----------------------------------------------------------------------------
(* The threads *)

\* A stream runs only while a bundle of its own, or one that links it, has its threads.
LEMMA ActiveAt ==
    ASSUME BaseInv, StateInv, NEW s \in Streams, st[s].state = "ACTIVE"
    PROVE  /\ Owner[s] \in Channels /\ Has(Owner[s], s)
           /\ At(Owner[s]) \in {"ACTIVE", "flush_ack", "streams", "off"} \cup Undoing
<1> DEFINE c == Owner[s]
           j == Job(c)
<1>1. c \in Channels
  BY ChannelConstantsOK
<1>2. Has(c, s) /\ "ACTIVE" \in States(j, s)
  BY DEF StateInv
<1>3. j.pc \in {"NOTUSED", "STOPPED", "ACTIVE", "flush_ack"} \cup Starting \cup StoppingAt \cup Ending
  BY <1>1, AtIn DEF At
<1>4. j.pc # "NOTUSED"
  BY <1>2 DEF States, Undoing, Ending
<1>5. j.pc \notin {"STOPPED", "link", "ack", "threads"} \cup Ending
  BY <1>2, StatesAt
<1> QED BY <1>1, <1>2, <1>3, <1>4, <1>5 DEF At, Starting, StoppingAt

LEMMA FrameAt ==
    ASSUME BaseInv, Orderly, StateInv, LinkInv, NEW s \in Streams, st[s].state = "ACTIVE",
           NEW c \in Channels, c = Target(s)
    PROVE  IsBundle(c) /\ At(c) \in Up /\ Has(c, s) /\ s \in Feeds(c)
<1>1. CASE IsBundle(Owner[s])
  <2>1. c = Owner[s]
    BY <1>1 DEF Target
  <2> QED BY <1>1, <2>1, ActiveAt DEF Up, Starting, StoppingAt, Undoing, Feeds
<1>2. CASE ~IsBundle(Owner[s])
  <2>1. st[s].link = c
    BY <1>2 DEF Target
  <2>2. s \in Links(c) /\ At(c) \in Linked
    BY <2>1 DEF LinkInv
  <2>3. s = scene.links[c] /\ scene \in Scenes /\ s # None /\ Has(c, s)
    BY <2>2, ChannelConstantsOK DEF Links, BaseInv, TableInv, TypeInv, TypeOK
  <2>4. IsBundle(c)
    BY <2>3 DEF Orderly, IsBundle
  <2> QED BY <2>2, <2>3, <2>4 DEF Linked, Up, Starting, StoppingAt, Undoing, Feeds
<1> QED BY <1>1, <1>2

LEMMA NoExitAppend ==
    ASSUME NEW S, NEW q \in Seq(S), NEW x \in S, NoExit(q), x.cmd # "EXIT"
    PROVE  NoExit(Append(q, x))
<1>1. \A i \in DOMAIN Append(q, x) : i \in 1..Len(q) \/ i = Len(q) + 1
  BY AppendIs
<1> QED BY <1>1, AppendIs DEF NoExit

LEMMA NoExitTail ==
    ASSUME NEW S, NEW q \in Seq(S), q # <<>>, NoExit(q)
    PROVE  NoExit(Tail(q)) /\ Head(q).cmd # "EXIT"
BY TailIs DEF NoExit

LEMMA NoExitEmpty == NoExit(<<>>)
BY DEF NoExit

\* The threads stay as they are.
LEMMA ThreadsStay ==
    ASSUME NEW k, NEW m, NEW bundle, NEW at, NEW next, ThreadsOK(k, bundle, at),
           m.cmd = k.cmd, m.cb = k.cb, m.cur = k.cur, m.found = k.found, m.que = k.que,
           \/ at = next \/ (at \in Up /\ next \in Up)
           \/ (at \in {"NOTUSED", "STOPPED", "put"} /\ next \in {"NOTUSED", "STOPPED", "put"})
    PROVE  ThreadsOK(m, bundle, next)
<1>1. CASE at = next
  BY <1>1 DEF ThreadsOK
<1>2. CASE at \in Up /\ next \in Up
  BY <1>2 DEF ThreadsOK, Up, Starting, StoppingAt, Undoing
<1>3. CASE at \in {"NOTUSED", "STOPPED", "put"} /\ next \in {"NOTUSED", "STOPPED", "put"}
  BY <1>3 DEF ThreadsOK, Up, Starting, StoppingAt, Undoing
<1> QED BY <1>1, <1>2, <1>3

\* A command other than EXIT is appended while the threads run.
LEMMA ThreadsPost ==
    ASSUME NEW c \in Channels, ch[c] \in ChannelType, NEW k, NEW bundle, NEW at, NEW next, NEW node \in CmdNodes,
           ThreadsOK(ch[c], bundle, at), Posted(c, node, k), node.cmd # "EXIT", bundle,
           at \in Up, next \in Up
    PROVE  ThreadsOK(k, bundle, next)
<1>1. Runs(ch[c].cmd) /\ Runs(ch[c].cb) /\ ch[c].cmd.q \in Seq(CmdNodes)
  BY DEF ThreadsOK, ChannelType
<1>2. NoExit(k.cmd.q)
  BY <1>1, NoExitAppend DEF Posted, Runs
<1>3. Runs(k.cmd) /\ Runs(k.cb)
  BY <1>1, <1>2 DEF Posted, Runs
<1>4. next \notin {"cmd_join", "cb_join", "NOTUSED", "STOPPED", "put"}
  BY DEF Up, Starting, StoppingAt, Undoing
<1>5. k.found \in k.cur \cup {None}
  BY DEF ThreadsOK, Posted
<1> QED BY <1>3, <1>4, <1>5 DEF ThreadsOK

-----------------------------------------------------------------------------

LEMMA ThreadSimple ==
    ASSUME NEW t, NEW c, NEW k, NEW j, Stepping(t, c, k, j), BySimple(t, c, k, j),
           ThreadsOK(ch[c], IsBundle(c), Was(t, c).pc)
    PROVE  ThreadsOK(k, IsBundle(c), Then(k, j).pc)
<1>0. /\ ~InChannel(t) => Was(t, c).pc = ch[c].state
      /\ InChannel(t) => Was(t, c).pc = call[t].pc
      /\ Ends(j) \/ j.pc = "zero" => Then(k, j).pc = k.state
  BY IdleIs DEF Was, Then
<1>9. c \in Channels /\ ch[c] \in ChannelType
  BY SteppingFacts
<1>1. CASE ByIgnored(t, c, k, j)
  BY <1>0, <1>1, SteppingFacts DEF ByIgnored
<1>2. CASE ByAdded(t, c, k, j) \/ ByRemoved(t, c, k, j)
  <2>1. Was(t, c).pc = Then(k, j).pc /\ SameThreads(c, k) /\ SameQueue(c, k)
    BY <1>0, <1>2, SteppingFacts DEF ByAdded, ByRemoved
  <2> QED BY <2>1, ThreadsStay DEF SameThreads, SameQueue
<1>3. CASE ByDisposed(t, c, k, j)
  <2>1. Was(t, c).pc = "STOPPED" /\ Then(k, j).pc = "NOTUSED" /\ SameThreads(c, k) /\ SameQueue(c, k)
    BY <1>0, <1>3, SteppingFacts DEF ByDisposed
  <2> QED BY <2>1, ThreadsStay DEF SameThreads, SameQueue
<1>4. CASE ByZeroed(t, c, k, j)
  <2>1. Then(k, j).pc = "NOTUSED" /\ k = NewChannel
    BY <1>0, <1>4 DEF ByZeroed, NewChannel
  <2> QED BY <2>1 DEF ThreadsOK, NewChannel, Up, Starting, StoppingAt, Undoing
<1>5. CASE ByRequested(t, c, k, j)
  <2>1. PICK n \in 0..1 : Posted(c, [cmd |-> "REQ_DATA_CB", n |-> n], k)
    BY <1>5 DEF ByRequested
  <2>2. Was(t, c).pc = "ACTIVE" /\ Then(k, j).pc = "ACTIVE"
    BY <1>0, <1>5, <2>1, SteppingFacts DEF ByRequested, Posted
  <2>3. IsBundle(c)
    BY <1>5 DEF ByRequested, Stepping, BaseInv, TypeInv, CallInv, Subject
  <2>4. [cmd |-> "REQ_DATA_CB", n |-> n] \in CmdNodes
    BY DEF CmdNodes
  <2>5. [cmd |-> "REQ_DATA_CB", n |-> n].cmd # "EXIT" /\ "ACTIVE" \in Up
    BY DEF Up
  <2> DEFINE node == [cmd |-> "REQ_DATA_CB", n |-> n]
  <2>6. Posted(c, node, k) /\ node \in CmdNodes /\ node.cmd # "EXIT"
    BY <2>1, <2>4, <2>5
  <2> HIDE DEF node
  <2>7. ThreadsOK(k, IsBundle(c), "ACTIVE")
    BY <1>9, <2>2, <2>3, <2>5, <2>6, ThreadsPost
  <2> QED BY <2>2, <2>7
<1>6. CASE ByFlushed(t, c, k, j)
  <2>1. Posted(c, [cmd |-> "FLUSH_QUEUE", s |-> None], k)
    BY <1>6 DEF ByFlushed
  <2>2. Was(t, c).pc = "ACTIVE" /\ Then(k, j).pc = "flush_ack"
    BY <1>0, <1>6, SteppingFacts, GoesThen DEF ByFlushed
  <2>3. IsBundle(c)
    BY <1>6 DEF ByFlushed, Stepping, BaseInv, TypeInv, CallInv, Subject
  <2>4. [cmd |-> "FLUSH_QUEUE", s |-> None] \in CmdNodes
    BY DEF CmdNodes
  <2>5. [cmd |-> "FLUSH_QUEUE", s |-> None].cmd # "EXIT" /\ "ACTIVE" \in Up /\ "flush_ack" \in Up
    BY DEF Up
  <2> DEFINE node == [cmd |-> "FLUSH_QUEUE", s |-> None]
  <2>6. Posted(c, node, k) /\ node \in CmdNodes /\ node.cmd # "EXIT"
    BY <2>1, <2>4, <2>5
  <2> HIDE DEF node
  <2>7. ThreadsOK(k, IsBundle(c), "flush_ack")
    BY <1>9, <2>2, <2>3, <2>5, <2>6, ThreadsPost
  <2> QED BY <2>2, <2>7
<1>7. CASE ByAcked(t, c, k, j)
  <2>1. InChannel(t) /\ k.state = ch[c].state /\ k.cmd = ch[c].cmd /\ k.cb = ch[c].cb
        /\ k.cur = ch[c].cur /\ k.found = ch[c].found /\ k.que = ch[c].que
    BY <1>7 DEF ByAcked, Acknowledged, SameTable, SameQueue, InChannel
  <2>2. Was(t, c).pc \in Up
    BY <1>0, <1>7, <2>1 DEF ByAcked, Up, Starting, StoppingAt, Undoing
  <2>3. CASE call[t].pc = "flush_ack" /\ Ends(j)
    <3>1. Then(k, j).pc = "ACTIVE"
      BY <1>0, <2>1, <2>3, SteppingFacts DEF StateIn
    <3> QED BY <2>1, <2>2, <3>1, ThreadsStay DEF Up
  <2>4. CASE Goes(t, j, "undo_copies") \/ Goes(t, j, "threads")
    <3>1. Then(k, j).pc \in {"undo_copies", "threads"}
      BY <2>4, GoesThen
    <3> QED BY <2>1, <2>2, <3>1, ThreadsStay DEF Up, Starting, StoppingAt, Undoing
  <2> QED BY <1>7, <2>3, <2>4 DEF ByAcked
<1> QED BY <1>1, <1>2, <1>3, <1>4, <1>5, <1>6, <1>7 DEF BySimple

\* A flush is posted, or nothing is.
LEMMA ThreadUnlink ==
    ASSUME NEW t, NEW c, NEW k, NEW j, Stepping(t, c, k, j), NEW pc, NEW next,
           ByUnlinked(t, c, k, j, pc, next), pc \in Up \ {"idle", "zero"}, next \in Up \ {"idle", "zero"},
           call[t].pc \in Up, call[t].pc \in Listing, Was(t, c).pc = call[t].pc,
           ThreadsOK(ch[c], IsBundle(c), Was(t, c).pc)
    PROVE  ThreadsOK(k, IsBundle(c), Then(k, j).pc)
<1>9. c \in Channels /\ ch[c] \in ChannelType
  BY SteppingFacts
<1>1. CASE Links(c) # {} /\ IsBundle(c) /\ Goes(t, j, pc)
  <2>1. PICK s \in Streams : Posted(c, [cmd |-> "FLUSH_QUEUE", s |-> s], k)
    BY <1>1 DEF ByUnlinked, Goes
  <2>2. [cmd |-> "FLUSH_QUEUE", s |-> s] \in CmdNodes /\ [cmd |-> "FLUSH_QUEUE", s |-> s].cmd # "EXIT"
    BY DEF CmdNodes
  <2>3. Then(k, j).pc = pc
    BY <1>1, GoesThen
  <2> QED BY <1>1, <1>9, <2>1, <2>2, <2>3, ThreadsPost
<1>2. CASE Goes(t, j, next) /\ k = ch[c]
  <2>1. Then(k, j).pc = next
    BY <1>2, GoesThen
  <2> QED BY <1>2, <2>1, ThreadsStay
<1>3. CASE \E s \in Streams : Posted(c, [cmd |-> "FLUSH_QUEUE", s |-> s], k)
  BY <1>1, <1>2 DEF ByUnlinked
<1> QED BY <1>1, <1>2 DEF ByUnlinked

LEMMA ThreadStart ==
    ASSUME NEW t, NEW c, NEW k, NEW j, Stepping(t, c, k, j), ByStart(t, c, k, j),
           ThreadsOK(ch[c], IsBundle(c), Was(t, c).pc)
    PROVE  ThreadsOK(k, IsBundle(c), Then(k, j).pc)
<1>0. /\ ~InChannel(t) => Was(t, c).pc = ch[c].state
      /\ InChannel(t) => Was(t, c).pc = call[t].pc
      /\ Ends(j) \/ j.pc = "zero" => Then(k, j).pc = k.state
  BY IdleIs DEF Was, Then
<1>1. CASE ByBegun(t, c, k, j)
  <2>1. Was(t, c).pc = "STOPPED" /\ Then(k, j).pc = "link"
    BY <1>0, <1>1, SteppingFacts, GoesThen DEF ByBegun
  <2>2. ch[c].cur = {} /\ k.cur = {} /\ k.found = None
    BY <1>1, <2>1 DEF ThreadsOK, ByBegun
  <2>3. CASE IsBundle(c)
    <3>1. Runs(k.cmd) /\ Runs(k.cb)
      BY <1>1, <2>3, NoExitEmpty DEF ByBegun, Runs, Launched, Thread
    <3> QED BY <2>1, <2>2, <2>3, <3>1 DEF ThreadsOK
  <2>4. CASE ~IsBundle(c)
    <3>1. SameThreads(c, k) /\ SameQueue(c, k)
      BY <1>1, <2>4 DEF ByBegun
    <3> QED BY <2>1, <2>2, <2>4, <3>1 DEF ThreadsOK, SameThreads, SameQueue
  <2> QED BY <2>3, <2>4
<1>2. CASE ByLinked(t, c, k, j) \/ ByStarted(t, c, k, j) \/ ByFailed(t, c, k, j)
  <2>1. call[t].pc \in {"link", "streams"} /\ k = ch[c] /\ InChannel(t)
    BY <1>2 DEF ByLinked, ByStarted, ByFailed, InChannel
  <2>2. Goes(t, j, "streams") \/ Goes(t, j, "undo_links")
    BY <1>2 DEF ByLinked, ByStarted, ByFailed, Advances
  <2>3. Then(k, j).pc \in {"streams", "undo_links"}
    BY <2>2, GoesThen
  <2> QED BY <1>0, <2>1, <2>3, ThreadsStay DEF Up, Starting, Undoing
<1>3. CASE ByActive(t, c, k, j)
  <2>1. call[t].pc = "streams" /\ InChannel(t) /\ Then(k, j).pc = "ACTIVE" /\ SameThreads(c, k) /\ SameQueue(c, k)
    BY <1>0, <1>3 DEF ByActive, InChannel
  <2> QED BY <1>0, <2>1, ThreadsStay DEF Up, Starting, Undoing, SameThreads, SameQueue
<1>4. CASE ByUndoLinks(t, c, k, j)
  <2>1. call[t].pc = "undo_links" /\ InChannel(t) /\ ByUnlinked(t, c, k, j, "undo_ack", "undo_copies")
    BY <1>4 DEF ByUndoLinks, InChannel
  <2>2. "undo_links" \in Up /\ "undo_links" \in Listing
        /\ {"undo_ack", "undo_copies"} \subseteq Up \ {"idle", "zero"}
    BY DEF Up, Starting, Undoing, Listing
  <2> QED BY <1>0, <2>1, <2>2, ThreadUnlink
<1>5. CASE ByCleared(t, c, k, j) \/ ByUndone(t, c, k, j)
  <2>1. call[t].pc \in {"undo_copies", "undo_streams"} /\ InChannel(t) /\ SameThreads(c, k) /\ SameQueue(c, k)
        /\ Goes(t, j, "undo_streams")
    BY <1>5 DEF ByCleared, ByUndone, InChannel, SameThreads, SameQueue
  <2>2. Then(k, j).pc = "undo_streams"
    BY <2>1, GoesThen
  <2> QED BY <1>0, <2>1, <2>2, ThreadsStay DEF Up, Starting, Undoing, SameThreads, SameQueue
<1> QED BY <1>1, <1>2, <1>3, <1>4, <1>5 DEF ByStart

LEMMA ThreadStop ==
    ASSUME NEW t, NEW c, NEW k, NEW j, Stepping(t, c, k, j), ByStop(t, c, k, j),
           ThreadsOK(ch[c], IsBundle(c), Was(t, c).pc)
    PROVE  ThreadsOK(k, IsBundle(c), Then(k, j).pc)
<1>0. /\ ~InChannel(t) => Was(t, c).pc = ch[c].state
      /\ InChannel(t) => Was(t, c).pc = call[t].pc
      /\ Ends(j) \/ j.pc = "zero" => Then(k, j).pc = k.state
  BY IdleIs DEF Was, Then
<1>9. c \in Channels /\ ch[c] \in ChannelType
  BY SteppingFacts
<1>1. CASE ByStopBegun(t, c, k, j) \/ ByStopped(t, c, k, j)
  <2>1. Was(t, c).pc \in {"ACTIVE", "off"} /\ k = ch[c] /\ Goes(t, j, "off")
    BY <1>0, <1>1, SteppingFacts DEF ByStopBegun, ByStopped, Advances, InChannel
  <2>2. Then(k, j).pc = "off"
    BY <2>1, GoesThen
  <2> QED BY <2>1, <2>2, ThreadsStay DEF Up, StoppingAt
<1>2. CASE ByStopLinks(t, c, k, j)
  <2>1. call[t].pc = "off" /\ InChannel(t) /\ ByUnlinked(t, c, k, j, "ack", "threads")
    BY <1>2 DEF ByStopLinks, InChannel
  <2>2. "off" \in Up /\ "off" \in Listing /\ {"ack", "threads"} \subseteq Up \ {"idle", "zero"}
    BY DEF Up, StoppingAt, Listing
  <2> QED BY <1>0, <2>1, <2>2, ThreadUnlink
<1>3. CASE ByReleased(t, c, k, j)
  <2>1. call[t].pc \in {"threads", "undo_streams"} /\ InChannel(t)
    BY <1>3 DEF ByReleased, InChannel
  <2>2. Was(t, c).pc \in Up
    BY <1>0, <2>1 DEF Up, Starting, Undoing, StoppingAt
  <2>3. CASE IsBundle(c) /\ Goes(t, j, "cmd_join") /\ Posted(c, [cmd |-> "EXIT"], k)
    <3>1. Then(k, j).pc = "cmd_join"
      BY <2>3, GoesThen
    <3>2. Runs(k.cb) /\ k.cmd.up /\ k.found \in k.cur \cup {None}
      BY <2>2, <2>3 DEF ThreadsOK, Posted, Runs
    <3> QED BY <2>3, <3>1, <3>2 DEF ThreadsOK, Up, Starting, Undoing, StoppingAt
  <2>4. CASE ~IsBundle(c) /\ Goes(t, j, "put") /\ k = ch[c]
    <3>1. Then(k, j).pc = "put"
      BY <2>4, GoesThen
    <3> QED BY <2>4, <3>1 DEF ThreadsOK
  <2> QED BY <1>3, <2>3, <2>4 DEF ByReleased
<1>4. CASE ByCmdJoined(t, c, k, j)
  <2>1. Was(t, c).pc = "cmd_join" /\ Then(k, j).pc = "cb_join"
    BY <1>0, <1>4, GoesThen DEF ByCmdJoined, InChannel
  <2>2. IsBundle(c) /\ k.cmd = Thread /\ k.cb.up /\ k.found \in k.cur \cup {None}
    BY <1>4, <2>1 DEF ByCmdJoined, ThreadsOK, Runs
  <2> QED BY <2>1, <2>2 DEF ThreadsOK, Up, Starting, Undoing, StoppingAt
<1>5. CASE ByCbJoined(t, c, k, j)
  <2>1. Was(t, c).pc = "cb_join" /\ Then(k, j).pc = "put"
    BY <1>0, <1>5, GoesThen DEF ByCbJoined, InChannel
  <2>2. IsBundle(c) /\ k.cmd = Thread /\ k.cb = Thread /\ k.que = NoFrames /\ k.cur = {} /\ k.found = None
    BY <1>5, <2>1 DEF ByCbJoined, ThreadsOK
  <2> QED BY <2>1, <2>2 DEF ThreadsOK, Up, Starting, Undoing, StoppingAt
<1>6. CASE ByPut(t, c, k, j)
  <2>1. Was(t, c).pc = "put" /\ Then(k, j).pc = "STOPPED" /\ SameThreads(c, k) /\ SameQueue(c, k)
    BY <1>0, <1>6 DEF ByPut, InChannel
  <2> QED BY <2>1, ThreadsStay DEF SameThreads, SameQueue
<1> QED BY <1>1, <1>2, <1>3, <1>4, <1>5, <1>6 DEF ByStop

LEMMA ThreadStep ==
    ASSUME NEW t, NEW c, NEW k, NEW j, Stepping(t, c, k, j), By(t, k, j), ThreadInv
    PROVE  ThreadInv'
<1>1. c \in Channels /\ ch'[c] = k /\ scene' = scene /\ At(c) = Was(t, c).pc /\ At(c)' = Then(k, j).pc
  BY SteppingFacts DEF At
<1>2. ThreadsOK(ch[c], IsBundle(c), Was(t, c).pc)
  BY <1>1 DEF ThreadInv
<1>3. ThreadsOK(k, IsBundle(c), Then(k, j).pc)
  BY <1>2, ThreadSimple, ThreadStart, ThreadStop DEF By, Stepping
<1>4. \A d \in Channels \ {c} : ch'[d] = ch[d] /\ At(d)' = At(d)
  BY SteppingFacts DEF At
<1>5. \A d \in Channels : ThreadsOK(ch'[d], IsBundle(d), At(d)')
  BY <1>1, <1>3, <1>4 DEF ThreadInv
<1> QED BY <1>1, <1>5 DEF ThreadInv, IsBundle

-----------------------------------------------------------------------------

\* What the callback thread's queue gets from a command: at most a superbuf.
LEMMA CommandCb ==
    ASSUME NEW c \in Channels, ch[c] \in ChannelType, NEW k, ByCommand(c, k)
    PROVE  /\ \/ k.cb.q = ch[c].cb.q
              \/ k.cb.q = Append(ch[c].cb.q, [cmd |-> "SUPER_BUF", bufs |-> ch[c].bundled])
           /\ k.cb.up = ch[c].cb.up /\ k.cb.bye = ch[c].cb.bye
           /\ k.cur = ch[c].cur /\ k.found = ch[c].found /\ k.cmd.up = ch[c].cmd.up
           /\ k.cmd.q = Tail(ch[c].cmd.q)
           /\ Head(ch[c].cmd.q).cmd = "EXIT" \/ k.cmd.bye = ch[c].cmd.bye
BY DEF ByCommand, Worked, WorkData, WorkRequest, WorkFlush, WorkExit, Settles, Sends, Drops, Keeps

LEMMA ThreadWork ==
    ASSUME BaseInv, BaseInv', Orderly, NEW c \in Channels, NEW k, Work(c, k), ByWork(c, k),
           StateInv, LinkInv, ThreadInv
    PROVE  ThreadInv'
<1> DEFINE at == At(c)
<1>1. /\ ch'[c] = k /\ scene' = scene /\ ch[c] \in ChannelType
      /\ \A d \in Channels \ {c} : ch'[d] = ch[d] /\ At(d)' = At(d)
  BY JobWork DEF At, BaseInv, TypeInv, TypeOK
<1>2. ThreadsOK(ch[c], IsBundle(c), at) /\ ch[c].cb.q \in Seq(CbNodes)
  BY <1>1 DEF ThreadInv, ChannelType
<1>3. at' = at \/ (ByOpened(c, k) /\ at = "NOTUSED" /\ at' = "STOPPED")
  BY JobWork, IdleIs DEF At
<1> SUFFICES ThreadsOK(k, IsBundle(c), at')
  <2>1. \A d \in Channels : ThreadsOK(ch'[d], IsBundle(d), At(d)')
    BY <1>1 DEF ThreadInv
  <2> QED BY <1>1, <2>1 DEF ThreadInv, IsBundle
<1>20. PICK then : then = at'
  OBVIOUS
<1> HIDE DEF at
<1>21. at = then \/ (ByOpened(c, k) /\ at = "NOTUSED" /\ then = "STOPPED")
  BY <1>3, <1>20
<1>22. /\ at \in Up => at \notin {"cmd_join", "cb_join", "NOTUSED", "STOPPED", "put"}
  BY DEF Up, Starting, Undoing, StoppingAt
<1>23. ch[c].cmd.up => IsBundle(c) /\ at \notin {"NOTUSED", "STOPPED", "put", "cb_join"}
  BY <1>2 DEF ThreadsOK, Thread
<1>24. ch[c].cb.up \/ ch[c].cur # {} => IsBundle(c) /\ at \notin {"NOTUSED", "STOPPED", "put"}
  BY <1>2 DEF ThreadsOK, Thread
<1>25. at \in {"NOTUSED", "STOPPED", "put", "cmd_join", "cb_join"} \cup Up
  BY AtIn DEF at, Up, Ending
<1>4. CASE ByFrame(c, k)
  <2>1. PICK s \in Streams : st[s].state = "ACTIVE" /\ c = Target(s) /\ Posted(c, [cmd |-> "DATA_CB", s |-> s], k)
    BY <1>4 DEF ByFrame
  <2>2. IsBundle(c) /\ at \in Up
    BY <2>1, FrameAt DEF at
  <2> DEFINE node == [cmd |-> "DATA_CB", s |-> s]
  <2>3. node \in CmdNodes /\ node.cmd # "EXIT" /\ Posted(c, node, k)
    BY <2>1 DEF CmdNodes
  <2>4. then = at
    BY <1>21, <1>22, <2>2
  <2> HIDE DEF node
  <2> QED BY <1>1, <1>2, <1>20, <2>2, <2>3, <2>4, ThreadsPost
<1>5. CASE ByOpened(c, k)
  <2>1. SameThreads(c, k) /\ SameQueue(c, k)
    BY <1>5 DEF ByOpened
  <2> QED BY <1>2, <1>20, <1>21, <2>1, ThreadsStay DEF SameThreads, SameQueue
<1>6. CASE ByCommand(c, k)
  <2>1. ch[c].cmd.up /\ ch[c].cmd.q # <<>> /\ ch[c].cmd.q \in Seq(CmdNodes)
    BY <1>6 DEF ByCommand
  <2>2. IsBundle(c) /\ at \in Up \cup {"cmd_join"} /\ then = at
    BY <1>21, <1>23, <1>25, <2>1
  <2>3. Runs(ch[c].cb) /\ k.found \in k.cur \cup {None}
    BY <1>1, <1>2, <1>6, <2>2, CommandCb DEF ThreadsOK
  <2>4. Runs(k.cb)
    <3>1. CASE k.cb.q = ch[c].cb.q
      BY <1>1, <1>6, <2>3, <3>1, CommandCb DEF Runs
    <3>2. CASE k.cb.q = Append(ch[c].cb.q, [cmd |-> "SUPER_BUF", bufs |-> ch[c].bundled])
      <4> DEFINE node == [cmd |-> "SUPER_BUF", bufs |-> ch[c].bundled]
      <4>1. node \in CbNodes /\ node.cmd # "EXIT"
        BY <1>1 DEF CbNodes, ChannelType
      <4>2. k.cb.q = Append(ch[c].cb.q, node)
        BY <3>2
      <4> HIDE DEF node
      <4>3. NoExit(k.cb.q)
        BY <1>2, <2>3, <4>1, <4>2, NoExitAppend DEF Runs
      <4> QED BY <1>1, <1>6, <2>3, <4>3, CommandCb DEF Runs
    <3> QED BY <1>1, <1>6, <3>1, <3>2, CommandCb
  <2>5. CASE at \in Up
    <3>1. Runs(ch[c].cmd)
      BY <1>2, <2>2, <2>5 DEF ThreadsOK
    <3>2. NoExit(k.cmd.q) /\ Head(ch[c].cmd.q).cmd # "EXIT"
      <4>1. NoExit(Tail(ch[c].cmd.q)) /\ Head(ch[c].cmd.q).cmd # "EXIT"
        BY <2>1, <3>1, NoExitTail DEF Runs
      <4> QED BY <1>1, <1>6, <4>1, CommandCb
    <3>3. Runs(k.cmd)
      BY <1>1, <1>6, <3>1, <3>2, CommandCb DEF Runs
    <3> QED BY <1>20, <1>22, <2>2, <2>3, <2>4, <2>5, <3>3 DEF ThreadsOK
  <2>6. CASE at = "cmd_join"
    <3>1. k.cmd.up
      BY <1>1, <1>6, <2>1, CommandCb
    <3> QED BY <1>20, <2>2, <2>3, <2>4, <2>6, <3>1 DEF ThreadsOK, Up, Starting, Undoing, StoppingAt
  <2> QED BY <2>2, <2>5, <2>6
<1>7. CASE ByCmdEnd(c, k)
  <2>1. IsBundle(c) /\ at = "cmd_join" /\ then = at
    BY <1>2, <1>7, <1>21, <1>23, <1>25 DEF ByCmdEnd, ThreadsOK, Runs
  <2> QED BY <1>2, <1>7, <1>20, <2>1 DEF ByCmdEnd, ThreadsOK, Up, Starting, Undoing, StoppingAt
<1>8. CASE ByCallback(c, k)
  <2>1. /\ ch[c].cb.up /\ ch[c].cb.q # <<>> /\ ch[c].cur = {} /\ k.found = ch[c].found /\ k.cmd = ch[c].cmd
        /\ k.cb.up = ch[c].cb.up /\ k.cb.q = Tail(ch[c].cb.q)
    BY <1>8 DEF ByCallback, SameUse
  <2>2. IsBundle(c) /\ at \in Up \cup {"cmd_join", "cb_join"} /\ then = at
    BY <1>21, <1>24, <1>25, <2>1
  <2>3. k.found \in k.cur \cup {None}
    BY <1>2, <2>1 DEF ThreadsOK
  <2>4. CASE at \in Up \cup {"cmd_join"}
    <3>1. Runs(ch[c].cb)
      BY <1>2, <2>2, <2>4 DEF ThreadsOK
    <3>2. NoExit(k.cb.q) /\ k.cb.bye = ch[c].cb.bye
      BY <1>2, <1>8, <2>1, <3>1, NoExitTail DEF ByCallback, Runs
    <3>3. Runs(k.cb)
      BY <2>1, <3>1, <3>2 DEF Runs
    <3> QED BY <1>2, <1>20, <1>22, <2>1, <2>2, <2>3, <2>4, <3>3 DEF ThreadsOK
  <2>5. CASE at = "cb_join"
    BY <1>2, <1>20, <1>22, <2>1, <2>2, <2>3, <2>5 DEF ThreadsOK
  <2> QED BY <2>2, <2>4, <2>5
<1>9. CASE ByCbEnd(c, k)
  <2>1. /\ ch[c].cb.up /\ ch[c].cb.bye /\ ch[c].cb.q = <<>> /\ ch[c].cur = {} /\ k.cmd = ch[c].cmd
        /\ k.cb.q = <<>> /\ k.cur = {} /\ k.found = ch[c].found
    BY <1>9 DEF ByCbEnd, SameUse
  <2>2. IsBundle(c) /\ at = "cb_join" /\ then = at
    BY <1>2, <1>21, <1>24, <1>25, <2>1 DEF ThreadsOK, Runs
  <2> QED BY <1>2, <1>20, <2>1, <2>2 DEF ThreadsOK, Up, Starting, Undoing, StoppingAt
<1>10. CASE ByKept(c, k) \/ ByLookUp(c, k) \/ ByGivenBack(c, k)
  <2>1. k.cmd = ch[c].cmd /\ k.cb = ch[c].cb /\ k.found \in k.cur \cup {None} /\ k.cur \subseteq ch[c].cur
    BY <1>2, <1>10 DEF ByKept, ByLookUp, ByGivenBack, SameUse, ThreadsOK
  <2>2. ch[c].cur # {}
    BY <1>2, <1>10, ChannelConstantsOK DEF ByKept, ByLookUp, ByGivenBack, ThreadsOK
  <2>3. IsBundle(c) /\ at \in Up \cup {"cmd_join", "cb_join"} /\ then = at
    BY <1>21, <1>24, <1>25, <2>2
  <2> QED BY <1>2, <1>20, <1>22, <2>1, <2>2, <2>3 DEF ThreadsOK
<1>11. CASE ByReturned(c, k)
  <2>1. k = ch[c]
    BY <1>11 DEF ByReturned
  <2>2. then = at
    BY <1>3, <1>20, <2>1, <1>5, <1>21 DEF ByOpened
  <2> QED BY <1>2, <1>20, <2>1, <2>2
<1> QED BY <1>4, <1>5, <1>6, <1>7, <1>8, <1>9, <1>10, <1>11 DEF ByWork

\* A call that begins changes neither channels nor streams.
LEMMA EnterAgrees ==
    ASSUME AgreeInv, ch' = ch, st' = st, scene' = scene, \A c \in Channels : Job(c)' = Job(c)
    PROVE  AgreeInv'
<1>1. \A s \in Streams : Owner[s] \in Channels
  BY ChannelConstantsOK
<1>2. StateInv'
  BY <1>1 DEF AgreeInv, StateInv, Has
<1>3. LinkInv'
  BY DEF AgreeInv, LinkInv, Links, Has, At
<1>4. ThreadInv'
  BY DEF AgreeInv, ThreadInv, At, IsBundle
<1> QED BY <1>2, <1>3, <1>4 DEF AgreeInv

LEMMA AgreeStep ==
    ASSUME BaseInv, AgreeInv, Orderly, Steps
    PROVE  AgreeInv'
<1>0. BaseInv'
  BY BaseStep
<1>1. ASSUME NEW t \in Threads, NEW op \in Ops, NEW c \in Channels, NEW s \in Streams \cup {None},
             NEW j \in CallType, Entered(t, op, c, s, j)
      PROVE  AgreeInv'
  <2>1. ch' = ch /\ st' = st /\ scene' = scene
    BY <1>1 DEF Entered
  <2>2. \A d \in Channels : Job(d)' = Job(d)
    BY <1>0, <1>1, JobEnter
  <2> QED BY <2>1, <2>2, EnterAgrees
<1>2. ASSUME NEW t \in Threads, Does(t) PROVE AgreeInv'
  <2>1. PICK k, j : Sound(t, k, j) /\ By(t, k, j)
    BY <1>2 DEF Does
  <2>2. PICK c : c = call[t].c
    OBVIOUS
  <2>3. Stepping(t, c, k, j)
    BY <2>1, <2>2 DEF Stepping
  <2>4. StateInv'
    BY <2>1, <2>3, StateStep DEF AgreeInv
  <2>5. LinkInv'
    BY <2>1, <2>3, LinkStep DEF AgreeInv
  <2>6. ThreadInv'
    BY <2>1, <2>3, ThreadStep DEF AgreeInv
  <2> QED BY <2>4, <2>5, <2>6 DEF AgreeInv
<1>3. ASSUME NEW c \in Channels, Works(c) PROVE AgreeInv'
  <2>1. PICK k : Work(c, k) /\ ByWork(c, k)
    BY <1>3 DEF Works
  <2>2. StateInv'
    BY <1>0, <2>1, StateWork DEF AgreeInv
  <2>3. LinkInv'
    BY <1>0, <2>1, LinkWork DEF AgreeInv
  <2>4. ThreadInv'
    BY <1>0, <2>1, ThreadWork DEF AgreeInv
  <2> QED BY <2>2, <2>3, <2>4 DEF AgreeInv
<1>4. CASE UNCHANGED vars
  <2>1. ch' = ch /\ st' = st /\ scene' = scene /\ call' = call
    BY <1>4 DEF vars
  <2>2. \A d \in Channels : Job(d)' = Job(d)
    BY <1>0, <2>1, JobSame DEF In, InChannel
  <2> QED BY <2>1, <2>2, EnterAgrees
<1> QED BY <1>1, <1>2, <1>3, <1>4 DEF Steps

LEMMA AgreeInit ==
    ASSUME Init
    PROVE  AgreeInv
<1>1. BaseInv /\ \A c \in Channels : ch[c] = NewChannel
  BY BaseInit DEF Init
<1>2. \A t \in Threads, c \in Channels : ~In(t, c)
  BY NoCallIs DEF Init, In, InChannel
<1>3. \A c \in Channels : At(c) = "NOTUSED"
  <2>1. \A c \in Channels : ChFree(c)
    BY <1>2 DEF ChFree, In
  <2> QED BY <1>1, <2>1, JobIs, IdleIs DEF At, NewChannel
<1>4. \A c \in Channels, s \in Streams : ~Has(c, s)
  <2>1. \A c \in Channels : ch[c] = NewChannel
    BY <1>1
  <2>2. NewChannel.table = [i \in 1..MaxStreams |-> None]
    BY DEF NewChannel
  <2>3. None \notin Streams
    BY ChannelConstantsOK
  <2> QED BY <2>1, <2>2, <2>3 DEF Has, Range
<1>5. \A s \in Streams : st[s].state = "NOTUSED" /\ st[s].link = None
  BY DEF Init
<1>6. StateInv
  BY <1>4, <1>5, ChannelConstantsOK DEF StateInv
<1>7. LinkInv
  BY <1>3, <1>4, <1>5, ChannelConstantsOK DEF LinkInv, Links, Linked
<1>8. ThreadInv
  <2>1. ASSUME NEW c \in Channels PROVE ThreadsOK(ch[c], IsBundle(c), At(c))
    BY <1>1, <1>3 DEF ThreadsOK, NewChannel, Up, Starting, Undoing, StoppingAt
  <2> QED BY <2>1 DEF ThreadInv
<1> QED BY <1>6, <1>7, <1>8 DEF AgreeInv

LEMMA AgreesAllOrNothing ==
    ASSUME BaseInv, AgreeInv
    PROVE  AllOrNothing
<1> SUFFICES ASSUME NEW c \in Channels, ChFree(c)
             PROVE  /\ ch[c].state = "ACTIVE" =>
                          /\ \A s \in Own(c) : st[s].state = "ACTIVE"
                          /\ \A s \in Links(c) : st[s].link = c
                          /\ IsBundle(c) => ch[c].cmd.up /\ ch[c].cb.up
                    /\ ch[c].state = "STOPPED" =>
                          /\ \A s \in Own(c) : st[s].state = "CFG"
                          /\ \A s \in Streams : st[s].link # c
                          /\ ch[c].cmd = Thread /\ ch[c].cb = Thread /\ ch[c].que = NoFrames
  BY DEF AllOrNothing
<1>1. Job(c) = Idle(ch[c].state) /\ Job(c).pc = ch[c].state /\ At(c) = ch[c].state
  BY JobIs, IdleIs DEF At
<1>2. \A s \in Own(c) : st[s].state \in States(Job(c), s)
  BY DEF Own, AgreeInv, StateInv
<1>3. ThreadsOK(ch[c], IsBundle(c), At(c))
  BY DEF AgreeInv, ThreadInv
<1>4. CASE ch[c].state = "ACTIVE"
  <2>1. \A s \in Own(c) : st[s].state = "ACTIVE"
    BY <1>1, <1>2, <1>4, StatesAt
  <2>2. \A s \in Links(c) : st[s].link = c
    BY <1>1, <1>4 DEF AgreeInv, LinkInv, Linked, Links
  <2>3. IsBundle(c) => ch[c].cmd.up /\ ch[c].cb.up
    BY <1>1, <1>3, <1>4 DEF ThreadsOK, Runs, Up
  <2> QED BY <1>4, <2>1, <2>2, <2>3
<1>5. CASE ch[c].state = "STOPPED"
  <2>1. \A s \in Own(c) : st[s].state = "CFG"
    BY <1>1, <1>2, <1>5, StatesAt
  <2>2. \A s \in Streams : st[s].link # c
    BY <1>1, <1>5 DEF AgreeInv, LinkInv, Linked, Starting, StoppingAt, Undoing
  <2>3. ch[c].cmd = Thread /\ ch[c].cb = Thread /\ ch[c].que = NoFrames
    BY <1>1, <1>3, <1>5 DEF ThreadsOK
  <2> QED BY <1>5, <2>1, <2>2, <2>3
<1> QED BY <1>4, <1>5

\* Every field of the channels and streams, the links, calls and counts keeps its type.
THEOREM TypeCorrect ==
    ASSUME Orderly
    PROVE  Spec => []TypeOK
<1>1. Init => BaseInv
  BY BaseInit
<1>2. BaseInv /\ [Next]_vars => BaseInv'
  <2>1. BaseInv => ~scene.reuses
    <3>1. Owner[MetaStream] \in Channels
      BY ChannelConstantsOK
    <3> QED BY <3>1 DEF BaseInv, TypeInv, TypeOK, Orderly
  <2> QED BY <2>1, NextIs, BaseStep
<1>3. BaseInv => TypeOK
  BY DEF BaseInv, TypeInv
<1> QED BY <1>1, <1>2, <1>3, PTL DEF Spec

\* A start or stop that has returned has moved all of a channel, or nothing.
THEOREM MovesAllOrNothing ==
    ASSUME Orderly
    PROVE  Spec => []AllOrNothing
<1>1. Init => BaseInv /\ AgreeInv
  BY BaseInit, AgreeInit
<1>2. BaseInv /\ AgreeInv /\ [Next]_vars => BaseInv' /\ AgreeInv'
  <2>1. BaseInv => ~scene.reuses
    <3>1. Owner[MetaStream] \in Channels
      BY ChannelConstantsOK
    <3> QED BY <3>1 DEF BaseInv, TypeInv, TypeOK, Orderly
  <2> QED BY <2>1, NextIs, BaseStep, AgreeStep
<1>3. BaseInv /\ AgreeInv => AllOrNothing
  BY AgreesAllOrNothing
<1> QED BY <1>1, <1>2, <1>3, PTL DEF Spec
=============================================================================
