--------------------------- MODULE MmChannelFrames ---------------------------
(***************************************************************************)
(* The references of every stream are exact: the frames in the queues, in  *)
(* the callbacks and with the client of a channel, and those a stream      *)
(* counts, for any channels, streams, threads and clients.                 *)
(***************************************************************************)
EXTENDS MmChannelProofs

-----------------------------------------------------------------------------
(* The frames *)

\* The frames of s that a channel with record k has, h of them with the client.
Count(k, h, s) == h[s] + CountNodes(k.cmd.q, s) + k.que[s] + CountNodes(k.cb.q, s)
                      + IF s \in k.cur THEN 1 ELSE 0

Flushes(k) == {i \in DOMAIN k.cmd.q : k.cmd.q[i].cmd = "FLUSH_QUEUE"}
DataOf(k, s) == {i \in DOMAIN k.cmd.q : s \in FramesIn(k.cmd.q[i])}

\* A flush takes the frames of a linked stream with it: they are in front of it.
FlushOK(k, c, at) ==
    /\ k.ack \in 0..1
    /\ \A i, l \in Flushes(k) : i = l
    /\ k.ack = 1 => Flushes(k) = {}
    /\ Flushes(k) # {} \/ k.ack = 1 => at \in {"flush_ack", "undo_ack", "ack"}
    /\ \A s \in Streams : Owner[s] # c =>
          /\ at \in {"undo_ack", "ack"} =>
                /\ \A i \in DataOf(k, s) : \E l \in Flushes(k) : i < l
                /\ k.que[s] > 0 => Flushes(k) # {}
          /\ at \in {"undo_copies", "undo_streams", "threads"} \cup Ending =>
                DataOf(k, s) = {} /\ k.que[s] = 0

\* No superbuf is complete before the last stream of the bundle has started.
Silent(k, h) ==
    /\ \A i \in DOMAIN k.cb.q : k.cb.q[i].cmd # "SUPER_BUF"
    /\ k.cur = {} /\ h = NoFrames
Yet(j) == \E l \in DOMAIN j.ord : l >= j.i /\ Owner[j.ord[l]] = j.c
StarveOK(k, h, j) ==
    /\ j.pc \in {"link", "streams"} => \A s \in Streams : InTableNow(k, s) => s \in k.bundled
    /\ j.pc = "link" => Silent(k, h) /\ \A s \in Streams : Count(k, h, s) = 0
    /\ j.pc = "streams" /\ Yet(j) => Silent(k, h)
    /\ Undoes(j) => /\ j.ord[j.i] \in k.bundled /\ Count(k, h, j.ord[j.i]) = 0
                    /\ Silent(k, h)

FlushInv == \A c \in Channels : FlushOK(ch[c], c, At(c))
StarveInv == \A c \in Channels : IsBundle(c) => StarveOK(ch[c], hold[c], Job(c))

\* The client has frames of a bundle that runs only, and none when it stops one.
HoldAt == {"ACTIVE", "flush_ack", "streams"}
HoldInv ==
    /\ \A c \in Channels : hold[c] # NoFrames => IsBundle(c) /\ At(c) \in HoldAt
    /\ \A t \in Threads : call[t].op = "stop" => hold[call[t].c] = NoFrames

\* Where frames are and what is counted.
PlaceInv == \A c \in Channels, s \in Streams : InBundle(c, s) # 0 => s \in Feeds(c) /\ Has(c, s)
YetInv ==
    \A c \in Channels, s \in Streams :
       Owner[s] = c /\ st[s].state # "ACTIVE" /\ At(c) \in {"link", "streams"} =>
          InBundle(c, s) = 0
CountInv ==
    \A s \in Streams : st[s].state = "ACTIVE" =>
       /\ \A c \in Channels : s \in Feeds(c) => st[s].out = InBundle(c, s) + st[s].lost
       /\ (\A c \in Channels : s \notin Feeds(c)) => st[s].out = st[s].lost

FrameInv == FlushInv /\ StarveInv /\ HoldInv /\ PlaceInv /\ YetInv /\ CountInv
-----------------------------------------------------------------------------
(* Counting *)

LEMMA CountNat ==
    ASSUME NEW S, NEW q \in Seq(S), NEW s
    PROVE  /\ CountNodes(q, s) \in Nat /\ IsFiniteSet({i \in DOMAIN q : s \in FramesIn(q[i])})
           /\ CountNodes(q, s) = 0 <=> \A i \in DOMAIN q : s \notin FramesIn(q[i])
<1> DEFINE in == {i \in DOMAIN q : s \in FramesIn(q[i])}
<1>1. DOMAIN q = 1..Len(q) /\ Len(q) \in Int /\ 1 \in Int
  OBVIOUS
<1>2. IsFiniteSet(1..Len(q))
  BY <1>1, FS_Interval
<1>3. in \in SUBSET (1..Len(q))
  BY <1>1
<1>4. IsFiniteSet(in)
  BY <1>2, <1>3, FS_Subset
<1>5. Cardinality(in) \in Nat /\ (Cardinality(in) = 0 <=> in = {})
  BY <1>4, FS_CardinalityType, FS_EmptySet
<1> QED BY <1>4, <1>5 DEF CountNodes

LEMMA CountAppend ==
    ASSUME NEW S, NEW q \in Seq(S), NEW x \in S, NEW s
    PROVE  CountNodes(Append(q, x), s) = CountNodes(q, s) + (IF s \in FramesIn(x) THEN 1 ELSE 0)
<1> DEFINE in(qq) == {i \in DOMAIN qq : s \in FramesIn(qq[i])}
           old == in(q)
           new == in(Append(q, x))
           one == Len(q) + 1
<1>1. /\ Append(q, x) \in Seq(S) /\ Len(q) \in Nat /\ DOMAIN q = 1..Len(q)
      /\ DOMAIN Append(q, x) = 1..(Len(q) + 1)
      /\ \A i \in 1..Len(q) : Append(q, x)[i] = q[i]
      /\ Append(q, x)[Len(q) + 1] = x
  BY AppendIs
<1>2. IsFiniteSet(old) /\ Cardinality(old) = CountNodes(q, s) /\ CountNodes(q, s) \in Nat
      /\ Cardinality(new) = CountNodes(Append(q, x), s)
  BY CountNat DEF CountNodes
<1>3. \A i : i \in 1..(Len(q) + 1) <=> i \in 1..Len(q) \/ i = one
  BY <1>1
<1>4. one \notin old
  BY <1>1
<1>5. \A i : i \in new <=> i \in old \/ (i = one /\ s \in FramesIn(x))
  BY <1>1, <1>3
<1>6. CASE s \in FramesIn(x)
  <2>1. new = old \cup {one}
    BY <1>5, <1>6
  <2> HIDE DEF old, new, one
  <2>2. Cardinality(new) = Cardinality(old) + 1
    BY <1>2, <1>4, <2>1, FS_AddElement
  <2> QED BY <1>2, <1>6, <2>2
<1>7. CASE s \notin FramesIn(x)
  <2>1. new = old
    BY <1>5, <1>7
  <2> HIDE DEF old, new, one
  <2> QED BY <1>2, <1>7, <2>1
<1> QED BY <1>6, <1>7

LEMMA CountTail ==
    ASSUME NEW S, NEW q \in Seq(S), q # <<>>, NEW s
    PROVE  CountNodes(q, s) = CountNodes(Tail(q), s) + (IF s \in FramesIn(Head(q)) THEN 1 ELSE 0)
<1> DEFINE in(qq) == {i \in DOMAIN qq : s \in FramesIn(qq[i])}
           all == in(q)
           rest == in(Tail(q))
           moved == {i \in all : i # 1}
           f == [i \in rest |-> i + 1]
<1>1. /\ 1 \in DOMAIN q /\ Head(q) = q[1] /\ Tail(q) \in Seq(S) /\ Len(q) \in Nat
      /\ DOMAIN q = 1..Len(q) /\ DOMAIN Tail(q) = 1..(Len(q) - 1)
      /\ \A i \in DOMAIN Tail(q) : i + 1 \in DOMAIN q /\ i + 1 # 1 /\ i \in Nat /\ Tail(q)[i] = q[i + 1]
  BY TailIs
<1>2. /\ IsFiniteSet(all) /\ Cardinality(all) = CountNodes(q, s)
      /\ IsFiniteSet(rest) /\ Cardinality(rest) = CountNodes(Tail(q), s) /\ CountNodes(Tail(q), s) \in Nat
  BY <1>1, CountNat DEF CountNodes
<1>3. f \in Bijection(rest, moved)
  <2>1. \A i \in rest : f[i] \in moved
    BY <1>1
  <2>2. \A i, l \in rest : f[i] = f[l] => i = l
    BY <1>1
  <2>3. ASSUME NEW i \in moved PROVE \E l \in rest : f[l] = i
    <3>1. i - 1 \in DOMAIN Tail(q) /\ (i - 1) + 1 = i
      BY <1>1
    <3>2. i - 1 \in rest
      BY <1>1, <3>1
    <3> QED BY <3>1, <3>2
  <2>4. f \in [rest -> moved]
    BY <2>1
  <2> QED BY <2>2, <2>3, <2>4 DEF Bijection, Injection, Surjection, IsInjective
<1>4. Cardinality(moved) = Cardinality(rest) /\ IsFiniteSet(moved)
  <2> HIDE DEF f, moved, rest
  <2>1. ExistsBijection(rest, moved)
    BY <1>3 DEF ExistsBijection
  <2> QED BY <1>2, <2>1, FS_Bijection
<1>5. CASE s \in FramesIn(Head(q))
  <2>1. 1 \in all /\ 1 \notin moved /\ all = moved \cup {1}
    BY <1>1, <1>5
  <2> HIDE DEF all, moved, rest
  <2>2. Cardinality(all) = Cardinality(moved) + 1
    BY <1>4, <2>1, FS_AddElement
  <2> QED BY <1>2, <1>4, <1>5, <2>2
<1>6. CASE s \notin FramesIn(Head(q))
  <2>1. all = moved
    BY <1>1, <1>6
  <2> HIDE DEF all, moved, rest
  <2> QED BY <1>2, <1>4, <1>6, <2>1
<1> QED BY <1>5, <1>6

LEMMA FramesAre ==
    ASSUME NEW s
    PROVE  /\ \A x : FramesIn([cmd |-> "DATA_CB", s |-> x]) = {x}
           /\ \A b : FramesIn([cmd |-> "SUPER_BUF", bufs |-> b]) = b
           /\ \A n : n.cmd \in {"FLUSH_QUEUE", "REQ_DATA_CB", "EXIT"} => FramesIn(n) = {}
BY DEF FramesIn

LEMMA CountTyped ==
    ASSUME NEW k \in ChannelType, NEW h \in [Streams -> Nat], NEW s \in Streams
    PROVE  /\ Count(k, h, s) \in Nat /\ h[s] \in Nat /\ k.que[s] \in Nat
           /\ CountNodes(k.cmd.q, s) \in Nat /\ CountNodes(k.cb.q, s) \in Nat
           /\ Count(k, h, s) = 0 <=> /\ h[s] = 0 /\ k.que[s] = 0 /\ s \notin k.cur
                                     /\ CountNodes(k.cmd.q, s) = 0 /\ CountNodes(k.cb.q, s) = 0
<1>1. k.que \in [Streams -> Nat] /\ k.cmd.q \in Seq(CmdNodes) /\ k.cb.q \in Seq(CbNodes)
  BY DEF ChannelType
<1>2. CountNodes(k.cmd.q, s) \in Nat /\ CountNodes(k.cb.q, s) \in Nat /\ h[s] \in Nat /\ k.que[s] \in Nat
  BY <1>1, CountNat
<1>3. /\ s \in k.cur => Count(k, h, s) = h[s] + CountNodes(k.cmd.q, s) + k.que[s] + CountNodes(k.cb.q, s) + 1
      /\ s \notin k.cur => Count(k, h, s) = h[s] + CountNodes(k.cmd.q, s) + k.que[s] + CountNodes(k.cb.q, s) + 0
  BY DEF Count
<1>4. \A a, b, d, e \in Nat : /\ a + b + d + e + 1 \in Nat /\ a + b + d + e + 1 # 0
                            /\ a + b + d + e + 0 \in Nat
                            /\ a + b + d + e + 0 = 0 <=> a = 0 /\ b = 0 /\ d = 0 /\ e = 0
  OBVIOUS
<1>5. CASE s \in k.cur
  <2>1. Count(k, h, s) \in Nat /\ Count(k, h, s) # 0
    BY <1>2, <1>3, <1>4, <1>5
  <2> QED BY <1>2, <1>5, <2>1
<1>6. CASE s \notin k.cur
  <2>1. Count(k, h, s) \in Nat
    BY <1>2, <1>3, <1>4, <1>6
  <2>2. Count(k, h, s) = 0 <=> h[s] = 0 /\ CountNodes(k.cmd.q, s) = 0 /\ k.que[s] = 0 /\ CountNodes(k.cb.q, s) = 0
    <3> DEFINE a == h[s]
               b == CountNodes(k.cmd.q, s)
               d == k.que[s]
               e == CountNodes(k.cb.q, s)
    <3>1. a \in Nat /\ b \in Nat /\ d \in Nat /\ e \in Nat
      BY <1>2
    <3>2. Count(k, h, s) = a + b + d + e + 0
      BY <1>3, <1>6
    <3> HIDE DEF a, b, d, e
    <3>3. Count(k, h, s) = 0 <=> a = 0 /\ b = 0 /\ d = 0 /\ e = 0
      BY <3>1, <3>2
    <3> QED BY <3>3 DEF a, b, d, e
  <2> QED BY <1>2, <1>6, <2>1, <2>2
<1> QED BY <1>5, <1>6

-----------------------------------------------------------------------------
(* What the threads and the client do to the frames *)

\* Some n frames of s leave channel c, and are given back or forgotten.
Leave(c, k, s, n) ==
    /\ Count(k, hold'[c], s) + n = Count(ch[c], hold[c], s)
    /\ n = 0 => st'[s].out = st[s].out /\ st'[s].lost = st[s].lost
    /\ Has(c, s) /\ st[s].state = "ACTIVE" /\ n <= st[s].out =>
          st'[s].out + st[s].lost + n = st[s].out + st'[s].lost
Moves(c, k, s) == \E n \in Nat : Leave(c, k, s, n)

\* What is the same for the lemmas on the moves.
Handling(c, k) == BaseInv /\ c \in Channels /\ Work(c, k)

LEMMA HandlingFacts ==
    ASSUME NEW c, NEW k, Handling(c, k), NEW s \in Streams
    PROVE  /\ c \in Channels /\ ch[c] \in ChannelType /\ k \in ChannelType
           /\ ch[c].cmd.q \in Seq(CmdNodes) /\ ch[c].cb.q \in Seq(CbNodes)
           /\ hold[c] \in [Streams -> Nat] /\ hold'[c] \in [Streams -> Nat]
           /\ st \in [Streams -> StreamType] /\ st' \in [Streams -> StreamType]
           /\ st[s].out \in Nat /\ st[s].lost \in Nat /\ st'[s].out \in Nat /\ st'[s].lost \in Nat
           /\ st'[s].state = st[s].state /\ st'[s].link = st[s].link
           /\ ch[c].que \in [Streams -> Nat] /\ ch[c].bundled \in SUBSET Streams
           /\ ch'[c] = k /\ \A d \in Channels \ {c} : ch'[d] = ch[d]
<1>1. TypeOK /\ SameLife(st') /\ k \in ChannelType /\ ch' = [ch EXCEPT ![c] = k] /\ c \in Channels
      /\ hold' \in [Channels -> [Streams -> Nat]]
  BY DEF Handling, BaseInv, TypeInv, Work
<1>2. ch \in [Channels -> ChannelType] /\ hold \in [Channels -> [Streams -> Nat]] /\ st \in [Streams -> StreamType]
      /\ st' \in [Streams -> StreamType] /\ st'[s].state = st[s].state /\ st'[s].link = st[s].link
  BY <1>1 DEF TypeOK, SameLife
<1>3. ch[c] \in ChannelType /\ st[s] \in StreamType /\ st'[s] \in StreamType
  BY <1>1, <1>2
<1> QED BY <1>1, <1>2, <1>3 DEF ChannelType, StreamType

\* The frames of s that a channel has, by place.
Cur(k, s) == IF s \in k.cur THEN 1 ELSE 0

LEMMA CountParts ==
    ASSUME NEW k \in ChannelType, NEW h \in [Streams -> Nat], NEW s \in Streams
    PROVE  /\ Count(k, h, s) = h[s] + CountNodes(k.cmd.q, s) + k.que[s] + CountNodes(k.cb.q, s) + Cur(k, s)
           /\ h[s] \in Nat /\ CountNodes(k.cmd.q, s) \in Nat /\ k.que[s] \in Nat
           /\ CountNodes(k.cb.q, s) \in Nat /\ Cur(k, s) \in Nat
           /\ s \in k.cur => Cur(k, s) = 1
           /\ s \notin k.cur => Cur(k, s) = 0
<1>1. Cur(k, s) \in Nat /\ (s \in k.cur => Cur(k, s) = 1) /\ (s \notin k.cur => Cur(k, s) = 0)
  BY DEF Cur
<1> QED BY <1>1, CountTyped DEF Count, Cur

\* The same frames are somewhere else.
LEMMA Stays ==
    ASSUME NEW c, NEW k, Handling(c, k), NEW s \in Streams,
           st'[s].out = st[s].out, st'[s].lost = st[s].lost,
           Count(k, hold'[c], s) = Count(ch[c], hold[c], s)
    PROVE  Moves(c, k, s)
<1>1. Count(ch[c], hold[c], s) \in Nat
  BY HandlingFacts, CountTyped
<1>2. Leave(c, k, s, 0)
  BY <1>1, HandlingFacts DEF Leave
<1> QED BY <1>2 DEF Moves

\* n frames are given back.
LEMMA GivesBack ==
    ASSUME NEW c, NEW k, Handling(c, k), NEW s \in Streams, NEW n \in Nat, st'[s] = Qbuf(c, s, n)[s],
           Count(k, hold'[c], s) + n = Count(ch[c], hold[c], s)
    PROVE  Moves(c, k, s)
<1>1. /\ st'[s].lost = st[s].lost
      /\ st'[s].out = IF ~Has(c, s) \/ st[s].state # "ACTIVE" THEN st[s].out
                      ELSE IF st[s].out < n THEN 0 ELSE st[s].out - n
  BY HandlingFacts, DoneLife
<1>2. st[s].out \in Nat /\ st[s].lost \in Nat
  BY HandlingFacts
<1>3. n = 0 => st'[s].out = st[s].out
  BY <1>1, <1>2
<1>4. Has(c, s) /\ st[s].state = "ACTIVE" /\ n <= st[s].out =>
          st'[s].out + st[s].lost + n = st[s].out + st'[s].lost
  BY <1>1, <1>2
<1>5. Leave(c, k, s, n)
  BY <1>1, <1>3, <1>4 DEF Leave
<1> QED BY <1>5 DEF Moves

LEMMA SettleMoves ==
    ASSUME NEW c, NEW k, Handling(c, k), NEW s \in Streams, NEW que \in [Streams -> Nat],
           NEW x \in Streams \cup {None}, Settles(c, que, k, x),
           CountNodes(k.cmd.q, s) + que[s] = CountNodes(ch[c].cmd.q, s) + ch[c].que[s],
           k.cur = ch[c].cur, hold' = hold
    PROVE  Moves(c, k, s)
<1> DEFINE a == hold[c][s]
           b == CountNodes(ch[c].cmd.q, s)
           b2 == CountNodes(k.cmd.q, s)
           q == ch[c].que[s]
           p == que[s]
           q2 == k.que[s]
           d == CountNodes(ch[c].cb.q, s)
           d2 == CountNodes(k.cb.q, s)
           e == Cur(ch[c], s)
<1>0. /\ ch[c] \in ChannelType /\ k \in ChannelType /\ hold[c] \in [Streams -> Nat]
      /\ hold'[c] = hold[c] /\ Cur(k, s) = e
  BY HandlingFacts DEF Cur
<1>1. /\ Count(ch[c], hold[c], s) = a + b + q + d + e
      /\ a \in Nat /\ b \in Nat /\ q \in Nat /\ d \in Nat /\ e \in Nat /\ p \in Nat
  BY <1>0, CountParts
<1>2. /\ Count(k, hold'[c], s) = a + b2 + q2 + d2 + e
      /\ b2 \in Nat /\ q2 \in Nat /\ d2 \in Nat
  <2>1. /\ Count(k, hold[c], s) = a + b2 + q2 + d2 + Cur(k, s)
        /\ b2 \in Nat /\ q2 \in Nat /\ d2 \in Nat
    BY <1>0, CountParts
  <2> QED BY <1>0, <2>1
<1>3. b2 + p = b + q
  OBVIOUS
<1>4. CASE Sends(c, que, k)
  <2>1. q2 = (IF s \in ch[c].bundled THEN p - 1 ELSE p)
    BY <1>4 DEF Sends
  <2>2. d2 = d + (IF s \in ch[c].bundled THEN 1 ELSE 0)
    <3> DEFINE node == [cmd |-> "SUPER_BUF", bufs |-> ch[c].bundled]
    <3>1. node \in CbNodes /\ FramesIn(node) = ch[c].bundled
      BY HandlingFacts, FramesAre DEF CbNodes
    <3>2. k.cb.q = Append(ch[c].cb.q, node)
      BY <1>4 DEF Sends
    <3> HIDE DEF node
    <3> QED BY <3>1, <3>2, HandlingFacts, CountAppend
  <2> HIDE DEF a, b, b2, q, p, q2, d, d2, e
  <2>3. Count(k, hold'[c], s) = Count(ch[c], hold[c], s)
    <3>1. CASE s \in ch[c].bundled
      BY <1>1, <1>2, <1>3, <2>1, <2>2, <3>1
    <3>2. CASE s \notin ch[c].bundled
      BY <1>1, <1>2, <1>3, <2>1, <2>2, <3>2
    <3> QED BY <3>1, <3>2
  <2> QED BY <1>4, <2>3, Stays DEF Sends
<1>5. CASE Drops(c, que, k, x)
  <2>0. x \in Streams /\ st' = Qbuf(c, x, 1) /\ d2 = d /\ k.que = [que EXCEPT ![x] = @ - 1]
    BY <1>5 DEF Drops
  <2>1. CASE s = x
    <3>1. q2 = p - 1 /\ st'[s] = Qbuf(c, s, 1)[s]
      BY <2>0, <2>1
    <3> HIDE DEF a, b, b2, q, p, q2, d, d2, e
    <3>2. Count(k, hold'[c], s) + 1 = Count(ch[c], hold[c], s)
      BY <1>1, <1>2, <1>3, <2>0, <3>1
    <3> QED BY <3>1, <3>2, GivesBack
  <2>2. CASE s # x
    <3>1. q2 = p
      BY <2>0, <2>2
    <3>3. st'[s] = st[s]
      BY <2>0, <2>2, HandlingFacts, DoneLife
    <3> HIDE DEF a, b, b2, q, p, q2, d, d2, e
    <3>2. Count(k, hold'[c], s) = Count(ch[c], hold[c], s)
      BY <1>1, <1>2, <1>3, <2>0, <3>1
    <3> QED BY <3>2, <3>3, Stays
  <2> QED BY <2>1, <2>2
<1>6. CASE Keeps(c, que, k)
  <2>1. q2 = p /\ d2 = d /\ st' = st
    BY <1>6 DEF Keeps
  <2> HIDE DEF a, b, b2, q, p, q2, d, d2, e
  <2>2. Count(k, hold'[c], s) = Count(ch[c], hold[c], s)
    BY <1>1, <1>2, <1>3, <2>1
  <2> QED BY <2>1, <2>2, Stays
<1> QED BY <1>4, <1>5, <1>6 DEF Settles

LEMMA CommandMoves ==
    ASSUME NEW c, NEW k, Handling(c, k), NEW s \in Streams, ByCommand(c, k)
    PROVE  Moves(c, k, s)
<1> DEFINE node == Head(ch[c].cmd.q)
<1>1. /\ ch[c].cmd.q # <<>> /\ k.cmd.q = Tail(ch[c].cmd.q) /\ k.cur = ch[c].cur /\ hold' = hold
  BY DEF ByCommand, Worked
<1>2. CountNodes(ch[c].cmd.q, s) = CountNodes(k.cmd.q, s) + (IF s \in FramesIn(node) THEN 1 ELSE 0)
  BY <1>1, HandlingFacts, CountTail
<1>0. /\ ch[c] \in ChannelType /\ k \in ChannelType /\ hold[c] \in [Streams -> Nat]
      /\ hold'[c] = hold[c] /\ Cur(k, s) = Cur(ch[c], s) /\ ch[c].que \in [Streams -> Nat]
  BY <1>1, HandlingFacts DEF Cur
<1>3. CountNodes(k.cmd.q, s) \in Nat /\ CountNodes(ch[c].cmd.q, s) \in Nat /\ ch[c].que[s] \in Nat
      /\ Count(ch[c], hold[c], s) \in Nat
  BY <1>0, CountTyped
<1>4. CASE WorkData(c, k)
  <2>1. node.cmd = "DATA_CB" /\ node.s \in Streams /\ FramesIn(node) = {node.s}
    BY <1>4 DEF WorkData, FramesIn
  <2>2. /\ Arrived(c, node.s) \in [Streams -> Nat]
        /\ Arrived(c, node.s)[s] = IF s = node.s THEN ch[c].que[s] + 1 ELSE ch[c].que[s]
    BY <1>0, <2>1 DEF Arrived
  <2>3. CountNodes(k.cmd.q, s) + Arrived(c, node.s)[s] = CountNodes(ch[c].cmd.q, s) + ch[c].que[s]
    <3> DEFINE a == CountNodes(k.cmd.q, s)
               b == CountNodes(ch[c].cmd.q, s)
               p == Arrived(c, node.s)[s]
               q == ch[c].que[s]
    <3>1. CASE s = node.s
      <4>1. b = a + 1 /\ p = q + 1
        BY <1>2, <2>1, <2>2, <3>1
      <4>2. a \in Nat /\ q \in Nat
        BY <1>3
      <4> HIDE DEF a, b, p, q
      <4>3. a + p = b + q
        BY <4>1, <4>2
      <4> QED BY <4>3 DEF a, b, p, q
    <3>2. CASE s # node.s
      <4>1. b = a + 0 /\ p = q
        BY <1>2, <2>1, <2>2, <3>2
      <4>2. a \in Nat /\ q \in Nat
        BY <1>3
      <4> HIDE DEF a, b, p, q
      <4>3. a + p = b + q
        BY <4>1, <4>2
      <4> QED BY <4>3 DEF a, b, p, q
    <3> QED BY <3>1, <3>2
  <2>4. Settles(c, Arrived(c, node.s), k, node.s)
    BY <1>4 DEF WorkData
  <2> HIDE DEF node
  <2> QED BY <1>1, <2>1, <2>2, <2>3, <2>4, SettleMoves
<1>5. CASE WorkRequest(c, k)
  <2>1. FramesIn(node) = {}
    BY <1>5, FramesAre DEF WorkRequest
  <2>2. CountNodes(k.cmd.q, s) + ch[c].que[s] = CountNodes(ch[c].cmd.q, s) + ch[c].que[s]
    BY <1>2, <1>3, <2>1
  <2> QED BY <1>1, <1>5, <2>2, HandlingFacts, SettleMoves DEF WorkRequest
<1>6. CASE WorkFlush(c, k)
  <2> DEFINE n == ch[c].que[s]
  <2>1. FramesIn(node) = {} /\ node.s \in Streams \cup {None}
    BY <1>6, FramesAre DEF WorkFlush
  <2>2. CountNodes(k.cmd.q, s) = CountNodes(ch[c].cmd.q, s)
    BY <1>2, <1>3, <2>1
  <2>3. k.que[s] = 0 /\ k.cb.q = ch[c].cb.q
    BY <1>6 DEF WorkFlush, NoFrames
  <2>4. Count(k, hold'[c], s) + n = Count(ch[c], hold[c], s) /\ n \in Nat
    <3> DEFINE a == hold[c][s]
               b == CountNodes(ch[c].cmd.q, s)
               d == CountNodes(ch[c].cb.q, s)
               e == Cur(ch[c], s)
    <3>1. /\ Count(ch[c], hold[c], s) = a + b + n + d + e
          /\ a \in Nat /\ b \in Nat /\ n \in Nat /\ d \in Nat /\ e \in Nat
      BY <1>0, CountParts
    <3>3. Count(k, hold[c], s) = a + CountNodes(k.cmd.q, s) + k.que[s] + CountNodes(k.cb.q, s) + Cur(k, s)
      BY <1>0, CountParts
    <3>2. Count(k, hold'[c], s) = a + b + 0 + d + e
      BY <1>0, <2>2, <2>3, <3>3
    <3> HIDE DEF a, b, d, e, n
    <3> QED BY <3>1, <3>2
  <2>5. st'[s] = IF n = 0 THEN st[s] ELSE IF node.s \in {None, s} THEN Qbuf(c, s, n)[s]
                 ELSE [st[s] EXCEPT !.lost = @ + n]
    BY <1>6 DEF WorkFlush, Flushed
  <2>6. CASE n = 0
    <3>1. Count(k, hold'[c], s) = Count(ch[c], hold[c], s)
      <4>1. Count(k, hold'[c], s) \in Nat
        BY <1>0, CountTyped
      <4> QED BY <2>4, <2>6, <4>1
    <3>2. st'[s].out = st[s].out /\ st'[s].lost = st[s].lost
      BY <2>5, <2>6
    <3> QED BY <3>1, <3>2, Stays
  <2>7. CASE n # 0 /\ node.s \in {None, s}
    BY <2>4, <2>5, <2>7, GivesBack
  <2>8. CASE n # 0 /\ node.s \notin {None, s}
    <3>1. st[s] \in StreamType
      BY HandlingFacts
    <3>2. st'[s] = [st[s] EXCEPT !.lost = @ + n]
      BY <2>5, <2>8
    <3>3. st'[s].out = st[s].out /\ st'[s].lost = st[s].lost + n
      BY <3>1, <3>2 DEF StreamType
    <3> HIDE DEF n
    <3>4. st'[s].out + st[s].lost + n = st[s].out + st'[s].lost
      BY <2>4, <3>3, HandlingFacts
    <3>5. Leave(c, k, s, n)
      BY <2>4, <2>8, <3>4 DEF Leave
    <3> QED BY <2>4, <3>5 DEF Moves
  <2> QED BY <2>6, <2>7, <2>8
<1>7. CASE WorkExit(c, k)
  <2>1. FramesIn(node) = {}
    BY <1>7, FramesAre DEF WorkExit
  <2>2. Count(k, hold'[c], s) = Count(ch[c], hold[c], s)
    <3>1. CountNodes(k.cmd.q, s) = CountNodes(ch[c].cmd.q, s) /\ k.que = ch[c].que /\ k.cb.q = ch[c].cb.q
      BY <1>2, <1>3, <1>7, <2>1 DEF WorkExit
    <3>2. Count(k, hold[c], s) = hold[c][s] + CountNodes(k.cmd.q, s) + k.que[s] + CountNodes(k.cb.q, s) + Cur(k, s)
      BY <1>0, CountParts
    <3>3. Count(ch[c], hold[c], s) = hold[c][s] + CountNodes(ch[c].cmd.q, s) + ch[c].que[s]
                                     + CountNodes(ch[c].cb.q, s) + Cur(ch[c], s)
      BY <1>0, CountParts
    <3> QED BY <1>0, <3>1, <3>2, <3>3
  <2> QED BY <1>7, <2>2, Stays DEF WorkExit
<1> QED BY <1>4, <1>5, <1>6, <1>7 DEF ByCommand

-----------------------------------------------------------------------------
(* The frames of one channel after a step of its threads or its client *)

\* Commands and the queue are the same.
LEMMA CountAs ==
    ASSUME NEW c, NEW k, Handling(c, k), NEW s \in Streams, NEW n \in Nat,
           k.cmd.q = ch[c].cmd.q, k.que = ch[c].que,
           hold'[c][s] + CountNodes(k.cb.q, s) + Cur(k, s) + n
              = hold[c][s] + CountNodes(ch[c].cb.q, s) + Cur(ch[c], s)
    PROVE  Count(k, hold'[c], s) + n = Count(ch[c], hold[c], s)
<1> DEFINE a == hold[c][s]
           a2 == hold'[c][s]
           b == CountNodes(ch[c].cmd.q, s)
           q == ch[c].que[s]
           d == CountNodes(ch[c].cb.q, s)
           d2 == CountNodes(k.cb.q, s)
           e == Cur(ch[c], s)
           e2 == Cur(k, s)
<1>1. /\ ch[c] \in ChannelType /\ k \in ChannelType /\ hold[c] \in [Streams -> Nat]
      /\ hold'[c] \in [Streams -> Nat]
  BY HandlingFacts
<1>2. /\ Count(ch[c], hold[c], s) = a + b + q + d + e
      /\ a \in Nat /\ b \in Nat /\ q \in Nat /\ d \in Nat /\ e \in Nat
  BY <1>1, CountParts
<1>3. /\ Count(k, hold'[c], s) = a2 + b + q + d2 + e2
      /\ a2 \in Nat /\ d2 \in Nat /\ e2 \in Nat
  <2>1. /\ Count(k, hold'[c], s) = a2 + CountNodes(k.cmd.q, s) + k.que[s] + d2 + e2
        /\ a2 \in Nat /\ d2 \in Nat /\ e2 \in Nat
    BY <1>1, CountParts
  <2> QED BY <2>1
<1>4. a2 + d2 + e2 + n = a + d + e
  OBVIOUS
<1> HIDE DEF a, a2, b, q, d, d2, e, e2
<1> QED BY <1>2, <1>3, <1>4

LEMMA PartTypes ==
    ASSUME NEW c, NEW k, Handling(c, k), NEW s \in Streams
    PROVE  /\ hold[c][s] \in Nat /\ hold'[c][s] \in Nat
           /\ CountNodes(k.cb.q, s) \in Nat /\ CountNodes(ch[c].cb.q, s) \in Nat
           /\ Cur(k, s) \in Nat /\ Cur(ch[c], s) \in Nat
<1>1. /\ ch[c] \in ChannelType /\ k \in ChannelType /\ hold[c] \in [Streams -> Nat]
      /\ hold'[c] \in [Streams -> Nat]
  BY HandlingFacts
<1>2. hold[c][s] \in Nat /\ CountNodes(ch[c].cb.q, s) \in Nat /\ Cur(ch[c], s) \in Nat
  BY <1>1, CountParts
<1>3. hold'[c][s] \in Nat /\ CountNodes(k.cb.q, s) \in Nat /\ Cur(k, s) \in Nat
  BY <1>1, CountParts
<1> QED BY <1>2, <1>3

LEMMA SameMoves ==
    ASSUME NEW c, NEW k, Handling(c, k), NEW s \in Streams, hold' = hold, st' = st,
           k.cmd.q = ch[c].cmd.q, k.que = ch[c].que, k.cb.q = ch[c].cb.q, k.cur = ch[c].cur
    PROVE  Moves(c, k, s)
<1>1. Cur(k, s) = Cur(ch[c], s)
  BY DEF Cur
<1>2. hold'[c][s] + CountNodes(k.cb.q, s) + Cur(k, s) + 0
              = hold[c][s] + CountNodes(ch[c].cb.q, s) + Cur(ch[c], s)
  BY <1>1, PartTypes
<1>3. Count(k, hold'[c], s) + 0 = Count(ch[c], hold[c], s)
  BY <1>2, CountAs
<1>4. Count(k, hold'[c], s) \in Nat
  BY HandlingFacts, CountTyped
<1>5. Count(k, hold'[c], s) = Count(ch[c], hold[c], s)
  BY <1>3, <1>4
<1> QED BY <1>5, Stays

LEMMA CallbackMoves ==
    ASSUME NEW c, NEW k, Handling(c, k), NEW s \in Streams, ByCallback(c, k)
    PROVE  Moves(c, k, s)
<1> DEFINE node == Head(ch[c].cb.q)
<1>1. /\ ch[c].cb.q # <<>> /\ k.cb.q = Tail(ch[c].cb.q) /\ ch[c].cur = {} /\ hold' = hold /\ st' = st
      /\ k.cmd.q = ch[c].cmd.q /\ k.que = ch[c].que /\ ch[c].cb.q \in Seq(CbNodes)
  BY DEF ByCallback, SameUse, SameQueue
<1>2. CountNodes(ch[c].cb.q, s) = CountNodes(k.cb.q, s) + (IF s \in FramesIn(node) THEN 1 ELSE 0)
  BY <1>1, CountTail
<1>3. s \in FramesIn(node) <=> s \in k.cur
  <2>1. CASE node.cmd = "EXIT" /\ k.cur = {}
    BY <2>1, FramesAre
  <2>2. CASE node.cmd = "SUPER_BUF" /\ k.cur = node.bufs
    BY <2>2 DEF FramesIn
  <2> QED BY <2>1, <2>2 DEF ByCallback
<1>4. Cur(k, s) = (IF s \in FramesIn(node) THEN 1 ELSE 0) /\ Cur(ch[c], s) = 0
  BY <1>1, <1>3 DEF Cur
<1>5. hold'[c][s] + CountNodes(k.cb.q, s) + Cur(k, s) + 0
              = hold[c][s] + CountNodes(ch[c].cb.q, s) + Cur(ch[c], s)
  BY <1>1, <1>2, <1>4, PartTypes
<1>6. Count(k, hold'[c], s) + 0 = Count(ch[c], hold[c], s)
  BY <1>1, <1>5, CountAs
<1>7. Count(k, hold'[c], s) \in Nat
  BY HandlingFacts, CountTyped
<1>8. Count(k, hold'[c], s) = Count(ch[c], hold[c], s)
  BY <1>6, <1>7
<1> QED BY <1>1, <1>8, Stays

LEMMA KeptMoves ==
    ASSUME NEW c, NEW k, Handling(c, k), NEW s \in Streams, ByKept(c, k)
    PROVE  Moves(c, k, s)
<1>1. /\ k.cb.q = ch[c].cb.q /\ k.cur = {} /\ st' = st
      /\ k.cmd.q = ch[c].cmd.q /\ k.que = ch[c].que
      /\ hold'[c][s] = IF s \in ch[c].cur THEN hold[c][s] + 1 ELSE hold[c][s]
  BY DEF ByKept, SameUse, SameQueue
<1>4. Cur(ch[c], s) = (IF s \in ch[c].cur THEN 1 ELSE 0) /\ Cur(k, s) = 0
  BY <1>1 DEF Cur
<1>5. hold'[c][s] + CountNodes(k.cb.q, s) + Cur(k, s) + 0
              = hold[c][s] + CountNodes(ch[c].cb.q, s) + Cur(ch[c], s)
  <2>1. CASE s \in ch[c].cur
    BY <1>1, <1>4, <2>1, PartTypes
  <2>2. CASE s \notin ch[c].cur
    BY <1>1, <1>4, <2>2, PartTypes
  <2> QED BY <2>1, <2>2
<1>6. Count(k, hold'[c], s) + 0 = Count(ch[c], hold[c], s)
  BY <1>1, <1>5, CountAs
<1>7. Count(k, hold'[c], s) \in Nat
  BY HandlingFacts, CountTyped
<1>8. Count(k, hold'[c], s) = Count(ch[c], hold[c], s)
  BY <1>6, <1>7
<1> QED BY <1>1, <1>8, Stays

LEMMA GivenBackMoves ==
    ASSUME NEW c, NEW k, Handling(c, k), NEW s \in Streams, ByGivenBack(c, k), ch[c].found \in ch[c].cur
    PROVE  Moves(c, k, s)
<1> DEFINE x == ch[c].found
<1>1. /\ k.cb.q = ch[c].cb.q /\ k.cur = ch[c].cur \ {x} /\ st' = Qbuf(c, x, 1) /\ x \in Streams
      /\ k.cmd.q = ch[c].cmd.q /\ k.que = ch[c].que /\ hold' = hold
  BY DEF ByGivenBack, SameUse, SameQueue
<1>2. CASE s = x
  <2>1. Cur(ch[c], s) = 1 /\ Cur(k, s) = 0
    BY <1>1, <1>2 DEF Cur
  <2>2. hold'[c][s] + CountNodes(k.cb.q, s) + Cur(k, s) + 1
              = hold[c][s] + CountNodes(ch[c].cb.q, s) + Cur(ch[c], s)
    BY <1>1, <2>1, PartTypes
  <2>3. Count(k, hold'[c], s) + 1 = Count(ch[c], hold[c], s)
    BY <1>1, <2>2, CountAs
  <2>4. st'[s] = Qbuf(c, s, 1)[s]
    BY <1>1, <1>2
  <2> QED BY <2>3, <2>4, GivesBack
<1>3. CASE s # x
  <2>1. Cur(ch[c], s) = Cur(k, s)
    BY <1>1, <1>3 DEF Cur
  <2>2. hold'[c][s] + CountNodes(k.cb.q, s) + Cur(k, s) + 0
              = hold[c][s] + CountNodes(ch[c].cb.q, s) + Cur(ch[c], s)
    BY <1>1, <2>1, PartTypes
  <2>3. Count(k, hold'[c], s) + 0 = Count(ch[c], hold[c], s)
    BY <1>1, <2>2, CountAs
  <2>6. Count(k, hold'[c], s) \in Nat
    BY HandlingFacts, CountTyped
  <2>4. Count(k, hold'[c], s) = Count(ch[c], hold[c], s)
    BY <2>3, <2>6
  <2>5. st'[s] = st[s]
    <3>1. c \in Channels /\ st \in [Streams -> StreamType] /\ 1 \in Nat
      BY HandlingFacts
    <3>2. \A y \in Streams \ {x} : Qbuf(c, x, 1)[y] = st[y]
      BY <1>1, <3>1, DoneLife
    <3> QED BY <1>1, <1>3, <3>2
  <2> QED BY <2>4, <2>5, Stays
<1> QED BY <1>2, <1>3

LEMMA ReturnedMoves ==
    ASSUME NEW c, NEW k, Handling(c, k), NEW s \in Streams, ByReturned(c, k)
    PROVE  Moves(c, k, s)
<1>0. PICK x \in Streams : /\ hold[c][x] > 0 /\ st' = Qbuf(c, x, 1) /\ k = ch[c]
                           /\ \A y \in Streams : hold'[c][y] = IF y = x THEN hold[c][x] - 1 ELSE hold[c][y]
  BY DEF ByReturned
<1>1. k.cb.q = ch[c].cb.q /\ k.cmd.q = ch[c].cmd.q /\ k.que = ch[c].que /\ Cur(k, s) = Cur(ch[c], s)
  BY <1>0 DEF Cur
<1>2. CASE s = x
  <2>1. hold'[c][s] + 1 = hold[c][s]
    BY <1>0, <1>2, PartTypes
  <2>2. hold'[c][s] + CountNodes(k.cb.q, s) + Cur(k, s) + 1
              = hold[c][s] + CountNodes(ch[c].cb.q, s) + Cur(ch[c], s)
    BY <1>1, <2>1, PartTypes
  <2>3. Count(k, hold'[c], s) + 1 = Count(ch[c], hold[c], s)
    BY <1>1, <2>2, CountAs
  <2>4. st'[s] = Qbuf(c, s, 1)[s]
    BY <1>0, <1>2
  <2> QED BY <2>3, <2>4, GivesBack
<1>3. CASE s # x
  <2>1. hold'[c][s] = hold[c][s]
    BY <1>0, <1>3
  <2>2. hold'[c][s] + CountNodes(k.cb.q, s) + Cur(k, s) + 0
              = hold[c][s] + CountNodes(ch[c].cb.q, s) + Cur(ch[c], s)
    BY <1>1, <2>1, PartTypes
  <2>3. Count(k, hold'[c], s) + 0 = Count(ch[c], hold[c], s)
    BY <1>1, <2>2, CountAs
  <2>6. Count(k, hold'[c], s) \in Nat
    BY HandlingFacts, CountTyped
  <2>4. Count(k, hold'[c], s) = Count(ch[c], hold[c], s)
    BY <2>3, <2>6
  <2>5. st'[s] = st[s]
    <3>1. c \in Channels /\ st \in [Streams -> StreamType] /\ 1 \in Nat
      BY HandlingFacts
    <3>2. \A y \in Streams \ {x} : Qbuf(c, x, 1)[y] = st[y]
      BY <3>1, DoneLife
    <3> QED BY <1>0, <1>3, <3>2
  <2> QED BY <2>4, <2>5, Stays
<1> QED BY <1>2, <1>3

LEMMA WorkMoves ==
    ASSUME NEW c, NEW k, Handling(c, k), NEW s \in Streams, ThreadInv, ByWork(c, k), ~ByFrame(c, k)
    PROVE  Moves(c, k, s)
<1>1. CASE ByOpened(c, k) \/ ByCmdEnd(c, k) \/ ByCbEnd(c, k) \/ ByLookUp(c, k)
  <2>1. /\ hold' = hold /\ st' = st /\ k.cmd.q = ch[c].cmd.q /\ k.que = ch[c].que
        /\ k.cb.q = ch[c].cb.q /\ k.cur = ch[c].cur
    BY <1>1 DEF ByOpened, ByCmdEnd, ByCbEnd, ByLookUp, SameThreads, SameQueue, SameUse
  <2> QED BY <2>1, SameMoves
<1>2. CASE ByGivenBack(c, k)
  <2>1. ch[c].found \in ch[c].cur
    <3>1. ch[c].found \in ch[c].cur \cup {None} /\ ch[c].found \in Streams
      BY <1>2 DEF ThreadInv, ThreadsOK, Handling, ByGivenBack
    <3> QED BY <3>1, ChannelConstantsOK
  <2> QED BY <1>2, <2>1, GivenBackMoves
<1> QED BY <1>1, <1>2, CommandMoves, CallbackMoves, KeptMoves, ReturnedMoves DEF ByWork

-----------------------------------------------------------------------------
(* Where the frames are, after a step of the threads or the client *)

\* A frame that comes from the driver is one more with its bundle.
LEMMA FrameCounts ==
    ASSUME NEW c, NEW k, Handling(c, k), NEW x \in Streams, hold' = hold,
           Posted(c, [cmd |-> "DATA_CB", s |-> x], k)
    PROVE  \A s \in Streams :
              Count(k, hold'[c], s) = Count(ch[c], hold[c], s) + IF s = x THEN 1 ELSE 0
<1> DEFINE node == [cmd |-> "DATA_CB", s |-> x]
<1>1. /\ k.cmd.q = Append(ch[c].cmd.q, node) /\ k.que = ch[c].que /\ k.cb.q = ch[c].cb.q
      /\ k.cur = ch[c].cur
  BY DEF Posted
<1>2. node \in CmdNodes /\ FramesIn(node) = {x}
  BY FramesAre DEF CmdNodes
<1> HIDE DEF node
<1> SUFFICES ASSUME NEW s \in Streams
             PROVE  Count(k, hold'[c], s) = Count(ch[c], hold[c], s) + IF s = x THEN 1 ELSE 0
  OBVIOUS
<1> DEFINE a == hold[c][s]
           b == CountNodes(ch[c].cmd.q, s)
           q == ch[c].que[s]
           d == CountNodes(ch[c].cb.q, s)
           e == Cur(ch[c], s)
           n == IF s = x THEN 1 ELSE 0
<1>3. /\ ch[c] \in ChannelType /\ k \in ChannelType /\ hold[c] \in [Streams -> Nat]
      /\ hold'[c] = hold[c] /\ Cur(k, s) = e /\ ch[c].cmd.q \in Seq(CmdNodes)
  BY <1>1, HandlingFacts DEF Cur
<1>4. CountNodes(k.cmd.q, s) = b + n
  <2>1. CountNodes(k.cmd.q, s) = b + (IF s \in FramesIn(node) THEN 1 ELSE 0)
    BY <1>1, <1>2, <1>3, CountAppend
  <2> QED BY <1>2, <2>1
<1>5. /\ Count(ch[c], hold[c], s) = a + b + q + d + e
      /\ a \in Nat /\ b \in Nat /\ q \in Nat /\ d \in Nat /\ e \in Nat
  BY <1>3, CountParts
<1>6. Count(k, hold[c], s) = a + CountNodes(k.cmd.q, s) + k.que[s] + CountNodes(k.cb.q, s) + Cur(k, s)
  BY <1>3, CountParts
<1>7. Count(k, hold'[c], s) = a + (b + n) + q + d + e
  BY <1>1, <1>3, <1>4, <1>6
<1>8. n \in Nat
  OBVIOUS
<1> HIDE DEF a, b, q, d, e, n
<1>9. Count(k, hold'[c], s) = Count(ch[c], hold[c], s) + n
  BY <1>5, <1>7, <1>8
<1> QED BY <1>9 DEF n

\* What a step of channel c starts from, and comes to.
Working(c, k) ==
    /\ Orderly /\ BaseInv /\ BaseInv' /\ AgreeInv /\ c \in Channels /\ Work(c, k) /\ ByWork(c, k)

LEMMA WorkingFacts ==
    ASSUME NEW c, NEW k, Working(c, k)
    PROVE  /\ Handling(c, k) /\ c \in Channels /\ ch'[c] = k /\ scene' = scene
           /\ k.table = ch[c].table /\ hold' \in [Channels -> [Streams -> Nat]]
           /\ \A d \in Channels \ {c} : ch'[d] = ch[d] /\ hold'[d] = hold[d] /\ Job(d)' = Job(d)
           /\ Job(c)' = Job(c) \/ (ByOpened(c, k) /\ Job(c) = Idle("NOTUSED") /\ Job(c)' = Idle("STOPPED"))
           /\ \A s \in Streams : st'[s].state = st[s].state
           /\ \A d \in Channels, s \in Streams : Has(d, s)' <=> Has(d, s)
           /\ \A d \in Channels : Feeds(d)' = Feeds(d) /\ IsBundle(d)' = IsBundle(d)
<1>1. Handling(c, k) /\ TypeOK /\ c \in Channels /\ hold' \in [Channels -> [Streams -> Nat]] /\ scene' = scene
      /\ hold \in [Channels -> [Streams -> Nat]]
  BY DEF Working, Handling, BaseInv, TypeInv, Work, TypeOK
<1>2. k.table = ch[c].table
  BY <1>1, WorksSame DEF Working
<1>3. /\ ch'[c] = k /\ \A d \in Channels \ {c} : ch'[d] = ch[d]
      /\ \A d \in Channels : \A s \in Streams : Has(d, s)' <=> Has(d, s)
      /\ \A d \in Channels \ {c} : Job(d)' = Job(d)
      /\ Job(c)' = Job(c) \/ (ByOpened(c, k) /\ Job(c) = Idle("NOTUSED") /\ Job(c)' = Idle("STOPPED"))
  BY JobWork DEF Working
<1>4. \A d \in Channels \ {c} : hold'[d] = hold[d]
  BY <1>1 DEF Working, ByWork, ByFrame, ByOpened, ByCommand, ByCmdEnd, ByCallback, ByCbEnd, ByKept,
              ByLookUp, ByGivenBack, ByReturned
<1>5. \A s \in Streams : st'[s].state = st[s].state
  BY DEF Working, Work, SameLife
<1>6. \A d \in Channels : Feeds(d)' = Feeds(d) /\ IsBundle(d)' = IsBundle(d)
  BY <1>1 DEF Feeds, IsBundle
<1> QED BY <1>1, <1>2, <1>3, <1>4, <1>5, <1>6

\* Only the frames of one running stream of the bundle can become more.
LEMMA WorkFewer ==
    ASSUME NEW c, NEW k, Working(c, k), NEW s \in Streams
    PROVE  \/ Moves(c, k, s)
           \/ /\ st[s].state = "ACTIVE" /\ s \in Feeds(c) /\ Has(c, s) /\ IsBundle(c) /\ c = Target(s)
              /\ ByFrame(c, k) /\ st'[s].out = st[s].out + 1 /\ st'[s].lost = st[s].lost
              /\ Count(k, hold'[c], s) = Count(ch[c], hold[c], s) + 1
<1>1. Handling(c, k)
  BY WorkingFacts
<1>2. CASE ~ByFrame(c, k)
  BY <1>1, <1>2, WorkMoves DEF Working, AgreeInv
<1>3. CASE ByFrame(c, k)
  <2>1. PICK x \in Streams :
               /\ st[x].state = "ACTIVE" /\ c = Target(x) /\ hold' = hold
               /\ \A y \in Streams \ {x} : st'[y] = st[y]
               /\ st'[x].out = st[x].out + 1 /\ st'[x].lost = st[x].lost
               /\ Posted(c, [cmd |-> "DATA_CB", s |-> x], k)
    BY <1>3 DEF ByFrame
  <2>2. Count(k, hold'[c], s) = Count(ch[c], hold[c], s) + IF s = x THEN 1 ELSE 0
    BY <1>1, <2>1, FrameCounts
  <2>3. CASE s = x
    <3>1. IsBundle(c) /\ Has(c, s) /\ s \in Feeds(c)
      BY <2>1, <2>3, FrameAt DEF Working, AgreeInv
    <3> QED BY <1>3, <2>1, <2>2, <2>3, <3>1
  <2>4. CASE s # x
    <3>1. Count(ch[c], hold[c], s) \in Nat
      BY <1>1, HandlingFacts, CountTyped
    <3>2. Count(k, hold'[c], s) = Count(ch[c], hold[c], s) /\ st'[s] = st[s]
      BY <2>1, <2>2, <2>4, <3>1
    <3> QED BY <1>1, <3>2, Stays
  <2> QED BY <2>3, <2>4
<1> QED BY <1>2, <1>3

LEMMA MovesDown ==
    ASSUME NEW c, NEW k, Handling(c, k), NEW s \in Streams, Moves(c, k, s)
    PROVE  Count(ch[c], hold[c], s) = 0 =>
              Count(k, hold'[c], s) = 0 /\ st'[s].out = st[s].out /\ st'[s].lost = st[s].lost
<1>1. PICK n \in Nat : Leave(c, k, s, n)
  BY DEF Moves
<1>2. Count(k, hold'[c], s) \in Nat
  BY HandlingFacts, CountTyped
<1>3. Count(k, hold'[c], s) + n = Count(ch[c], hold[c], s)
      /\ (n = 0 => st'[s].out = st[s].out /\ st'[s].lost = st[s].lost)
  BY <1>1 DEF Leave
<1> QED BY <1>2, <1>3

LEMMA BundleIs ==
    ASSUME NEW c, NEW s
    PROVE  /\ InBundle(c, s) = Count(ch[c], hold[c], s)
           /\ InBundle(c, s)' = Count(ch'[c], hold'[c], s)
BY DEF InBundle, Count

LEMMA PlaceWork ==
    ASSUME NEW c, NEW k, Working(c, k), PlaceInv
    PROVE  PlaceInv'
<1> SUFFICES ASSUME NEW d \in Channels, NEW s \in Streams, InBundle(d, s)' # 0
             PROVE  s \in Feeds(d)' /\ Has(d, s)'
  BY DEF PlaceInv
<1>1. s \in Feeds(d) /\ Has(d, s)
  <2>1. CASE d = c
    <3>1. CASE Moves(c, k, s)
      <4>1. Count(k, hold'[c], s) # 0
        BY <2>1, WorkingFacts, BundleIs
      <4>2. InBundle(c, s) # 0
        BY <3>1, <4>1, WorkingFacts, MovesDown, BundleIs
      <4> QED BY <2>1, <4>2 DEF PlaceInv
    <3> QED BY <2>1, <3>1, WorkFewer
  <2>2. CASE d # c
    <3>1. InBundle(d, s)' = InBundle(d, s)
      BY <2>2, WorkingFacts, BundleIs
    <3> QED BY <3>1 DEF PlaceInv
  <2> QED BY <2>1, <2>2
<1> QED BY <1>1, WorkingFacts

LEMMA YetWork ==
    ASSUME NEW c, NEW k, Working(c, k), YetInv
    PROVE  YetInv'
<1> SUFFICES ASSUME NEW d \in Channels, NEW s \in Streams, Owner[s] = d,
                    st'[s].state # "ACTIVE", At(d)' \in {"link", "streams"}
             PROVE  InBundle(d, s)' = 0
  BY DEF YetInv
<1>1. st[s].state # "ACTIVE" /\ At(d) \in {"link", "streams"}
  <2>1. Job(d)' = Job(d) \/ Job(d)' = Idle("STOPPED")
    BY WorkingFacts
  <2>2. Idle("STOPPED").pc = "STOPPED"
    BY IdleIs
  <2> QED BY <2>1, <2>2, WorkingFacts DEF At
<1>2. InBundle(d, s) = 0
  BY <1>1 DEF YetInv
<1>3. CASE d = c
  <2>1. Moves(c, k, s)
    BY <1>1, WorkFewer
  <2>2. Count(k, hold'[c], s) = 0
    BY <1>2, <1>3, <2>1, WorkingFacts, MovesDown, BundleIs
  <2> QED BY <1>3, <2>2, WorkingFacts, BundleIs
<1>4. CASE d # c
  BY <1>2, <1>4, WorkingFacts, BundleIs
<1> QED BY <1>3, <1>4

-----------------------------------------------------------------------------
(* The references, after a step of the threads or the client *)

\* A stream has one bundle: its own channel, or the one that links it.
LEMMA OneFeeder ==
    ASSUME TypeOK, Orderly, NEW s \in Streams, NEW c \in Channels, NEW d \in Channels,
           s \in Feeds(c), s \in Feeds(d)
    PROVE  c = d
<1> USE ChannelConstantsOK
<1>1. scene \in Scenes /\ s # None
  BY DEF TypeOK
<1>2. \A e \in Channels : scene.links[e] = s => Owner[s] \notin scene.bundles
  BY <1>1
<1>3. scene.links[c] = s /\ scene.links[d] = s => c = d
  BY <1>1 DEF Orderly
<1> QED BY <1>2, <1>3 DEF Feeds, IsBundle

LEMMA CountWork ==
    ASSUME NEW c, NEW k, Working(c, k), PlaceInv, CountInv
    PROVE  CountInv'
<1> SUFFICES ASSUME NEW s \in Streams, st'[s].state = "ACTIVE"
             PROVE  /\ \A d \in Channels : s \in Feeds(d) =>
                          st'[s].out = InBundle(d, s)' + st'[s].lost
                    /\ (\A d \in Channels : s \notin Feeds(d)) => st'[s].out = st'[s].lost
  BY WorkingFacts DEF CountInv
<1>0. Handling(c, k) /\ c \in Channels /\ ch'[c] = k /\ TypeOK /\ Orderly
      /\ st[s].state = "ACTIVE"
  BY WorkingFacts DEF Working, BaseInv, TypeInv
<1> DEFINE n0 == Count(ch[c], hold[c], s)
           n1 == Count(k, hold'[c], s)
           o0 == st[s].out
           o1 == st'[s].out
           l0 == st[s].lost
           l1 == st'[s].lost
<1>1. n0 \in Nat /\ n1 \in Nat /\ o0 \in Nat /\ o1 \in Nat /\ l0 \in Nat /\ l1 \in Nat
  BY <1>0, HandlingFacts, CountTyped
<1>2. InBundle(c, s) = n0 /\ InBundle(c, s)' = n1
  BY <1>0, BundleIs
<1>3. CASE s \in Feeds(c)
  <2>1. o0 = n0 + l0
    BY <1>0, <1>2, <1>3 DEF CountInv
  <2>2. o1 = n1 + l1
    <3>1. CASE Moves(c, k, s)
      <4>1. PICK n \in Nat : Leave(c, k, s, n)
        BY <3>1 DEF Moves
      <4>2. n1 + n = n0 /\ (n = 0 => o1 = o0 /\ l1 = l0)
            /\ (Has(c, s) /\ n <= o0 => o1 + l0 + n = o0 + l1)
        BY <1>0, <4>1 DEF Leave
      <4>3. n # 0 => Has(c, s)
        <5>1. n # 0 => n0 # 0
          <6> HIDE DEF n0, n1
          <6> QED BY <1>1, <4>2
        <5> QED BY <1>0, <1>2, <5>1 DEF PlaceInv
      <4> HIDE DEF n0, n1, o0, o1, l0, l1
      <4>4. n <= o0
        BY <1>1, <2>1, <4>2
      <4> QED BY <1>1, <2>1, <4>2, <4>3, <4>4
    <3>2. CASE o1 = o0 + 1 /\ l1 = l0 /\ n1 = n0 + 1
      <4> HIDE DEF n0, n1, o0, o1, l0, l1
      <4> QED BY <1>1, <2>1, <3>2
    <3> QED BY <3>1, <3>2, WorkFewer
  <2>3. \A d \in Channels : s \in Feeds(d) => d = c
    BY <1>0, <1>3, OneFeeder
  <2> QED BY <1>0, <1>2, <1>3, <2>2, <2>3
<1>4. CASE s \notin Feeds(c)
  <2>1. n0 = 0
    BY <1>0, <1>2, <1>4 DEF PlaceInv
  <2>2. o1 = o0 /\ l1 = l0
    <3>1. Moves(c, k, s)
      BY <1>4, WorkFewer
    <3> QED BY <1>0, <2>1, <3>1, MovesDown
  <2>3. \A d \in Channels : s \in Feeds(d) => InBundle(d, s)' = InBundle(d, s)
    BY <1>4, WorkingFacts, BundleIs
  <2> QED BY <1>0, <2>2, <2>3 DEF CountInv
<1> QED BY <1>3, <1>4

-----------------------------------------------------------------------------
(* Superbufs, after a step of the threads or the client *)

LEMMA NodeCmds ==
    ASSUME NEW n \in CmdNodes
    PROVE  n.cmd \in {"DATA_CB", "FLUSH_QUEUE", "REQ_DATA_CB", "EXIT"}
BY DEF CmdNodes

\* A stream that a channel has no frame of lets no superbuf be complete.
LEMMA NoSend ==
    ASSUME NEW c, NEW k, Handling(c, k), ByCommand(c, k), NEW x \in ch[c].bundled,
           Count(ch[c], hold[c], x) = 0
    PROVE  k.cb.q = ch[c].cb.q
<1>0. x \in Streams
  <2>1. ch[c] \in ChannelType
    BY TypeFacts DEF Handling, BaseInv, TypeInv
  <2> QED BY <2>1 DEF ChannelType
<1>1. ch[c] \in ChannelType /\ hold[c] \in [Streams -> Nat] /\ x \in Streams
      /\ ch[c].cmd.q \in Seq(CmdNodes) /\ ch[c].que \in [Streams -> Nat]
  BY <1>0, HandlingFacts
<1>2. ch[c].que[x] = 0 /\ CountNodes(ch[c].cmd.q, x) = 0
  <2> DEFINE record == ch[c]
             held == hold[c]
  <2>1. record \in ChannelType /\ held \in [Streams -> Nat] /\ Count(record, held, x) = 0
    BY <1>1
  <2> HIDE DEF record, held
  <2>2. record.que[x] = 0 /\ CountNodes(record.cmd.q, x) = 0
    BY <1>0, <2>1, CountTyped
  <2> QED BY <2>2 DEF record
<1>3. \A i \in DOMAIN ch[c].cmd.q : x \notin FramesIn(ch[c].cmd.q[i])
  BY <1>1, <1>2, CountNat
<1>4. ch[c].cmd.q # <<>>
  BY DEF ByCommand
<1>5. x \notin FramesIn(Head(ch[c].cmd.q))
  BY <1>1, <1>3, <1>4, TailIs
<1>6. CASE WorkData(c, k)
  <2> DEFINE y == Head(ch[c].cmd.q).s
  <2>1. y \in Streams /\ x # y
    BY <1>5, <1>6 DEF WorkData, FramesIn
  <2>2. Arrived(c, y)[x] = 0
    BY <1>1, <1>2, <2>1 DEF Arrived
  <2>3. ~Sends(c, Arrived(c, y), k)
    BY <2>2 DEF Sends
  <2> QED BY <1>6, <2>3 DEF WorkData, Settles, Drops, Keeps
<1>7. CASE WorkRequest(c, k)
  <2>1. ~Sends(c, ch[c].que, k)
    BY <1>2 DEF Sends
  <2> QED BY <1>7, <2>1 DEF WorkRequest, Settles, Drops, Keeps
<1> QED BY <1>6, <1>7 DEF ByCommand, WorkFlush, WorkExit

LEMMA NoSendEmpty ==
    ASSUME NEW c, NEW k, ByCommand(c, k), ch[c].bundled = {}
    PROVE  k.cb.q = ch[c].cb.q
BY DEF ByCommand, WorkData, WorkRequest, WorkFlush, WorkExit, Settles, Sends, Drops, Keeps

LEMMA SilentWork ==
    ASSUME NEW c, NEW k, Working(c, k), Silent(ch[c], hold[c]),
           \/ ch[c].bundled = {}
           \/ \E x \in ch[c].bundled : Count(ch[c], hold[c], x) = 0
    PROVE  Silent(k, hold'[c])
<1>1. /\ \A i \in DOMAIN ch[c].cb.q : ch[c].cb.q[i].cmd # "SUPER_BUF"
      /\ ch[c].cur = {} /\ hold[c] = NoFrames
  BY DEF Silent
<1>2. Handling(c, k) /\ hold' \in [Channels -> [Streams -> Nat]] /\ c \in Channels
  BY WorkingFacts
<1>3. CASE ByFrame(c, k) \/ ByOpened(c, k) \/ ByCmdEnd(c, k) \/ ByCbEnd(c, k)
  <2>1. k.cb.q = ch[c].cb.q /\ k.cur = ch[c].cur /\ hold' = hold
    BY <1>3 DEF ByFrame, ByOpened, ByCmdEnd, ByCbEnd, Posted, SameThreads
  <2> QED BY <1>1, <2>1 DEF Silent
<1>4. CASE ByCommand(c, k)
  <2>1. k.cb.q = ch[c].cb.q
    BY <1>2, <1>4, NoSend, NoSendEmpty
  <2>2. k.cur = ch[c].cur /\ hold' = hold
    BY <1>4 DEF ByCommand, Worked
  <2> QED BY <1>1, <2>1, <2>2 DEF Silent
<1>5. CASE ByCallback(c, k)
  <2>1. ch[c].cb.q \in Seq(CbNodes) /\ ch[c].cb.q # <<>> /\ k.cb.q = Tail(ch[c].cb.q) /\ hold' = hold
    BY <1>5 DEF ByCallback
  <2>2. /\ Head(ch[c].cb.q).cmd # "SUPER_BUF"
        /\ \A i \in DOMAIN k.cb.q : k.cb.q[i].cmd # "SUPER_BUF"
    BY <1>1, <2>1, TailIs
  <2>3. k.cur = {}
    BY <1>5, <2>2 DEF ByCallback
  <2> QED BY <1>1, <2>1, <2>2, <2>3 DEF Silent
<1>6. CASE ByGivenBack(c, k) \/ ByLookUp(c, k)
  <2>1. k.cb.q = ch[c].cb.q /\ k.cur = {} /\ hold' = hold
    BY <1>1, <1>6 DEF ByGivenBack, ByLookUp
  <2> QED BY <1>1, <2>1 DEF Silent
<1>7. ~ByKept(c, k)
  BY <1>1 DEF ByKept
<1>8. ~ByReturned(c, k)
  BY <1>1 DEF ByReturned, NoFrames
<1> QED BY <1>3, <1>4, <1>5, <1>6, <1>7, <1>8 DEF Working, ByWork

-----------------------------------------------------------------------------

\* The call that is in a channel, and its list.
LEMMA JobThread ==
    ASSUME BaseInv, NEW c \in Channels, At(c) \in Listing
    PROVE  /\ \E t \in Threads : In(t, c) /\ Job(c) = call[t]
           /\ ListOK(Job(c), ch[c].table) /\ Job(c).c = c /\ Job(c) \in CallType
           /\ Job(c).pc \in Places(Job(c).op)
<1>1. CASE ChFree(c)
  <2>1. At(c) = ch[c].state
    BY <1>1, JobIs, IdleIs DEF At
  <2>2. ch[c].state \in {"NOTUSED", "STOPPED", "ACTIVE"}
    BY TypeFacts DEF BaseInv, TypeInv, ChannelType
  <2> QED BY <2>1, <2>2 DEF Listing, Starting, Undoing, StoppingAt, Ending
<1>2. CASE ~ChFree(c)
  <2>1. PICK t \in Threads : In(t, c)
    BY <1>2 DEF ChFree, In
  <2>2. Job(c) = call[t] /\ call[t].c = c
    BY <2>1, JobIs DEF In
  <2>3. call[t].pc \in Listing /\ call[t] \in CallType
    BY <2>2 DEF At, BaseInv, TypeInv
  <2>4. ListOK(call[t], ch[c].table)
    BY <2>2, <2>3 DEF BaseInv, ListInv
  <2>5. call[t].op # "none"
    <3>1. call[t].pc # "idle"
      BY <2>1 DEF In, InChannel
    <3> QED BY <3>1, NoCallIs DEF BaseInv, TypeInv, CallInv
  <2>6. call[t].pc \in Places(call[t].op)
    BY <2>5 DEF BaseInv, TypeInv, CallInv
  <2> QED BY <2>1, <2>2, <2>3, <2>4, <2>6
<1> QED BY <1>1, <1>2

\* Frames of another channel's stream come while the channel is linked to it only.
LEMMA FramesOf ==
    ASSUME AgreeInv, NEW s \in Streams, NEW c \in Channels, c = Target(s), Owner[s] # c
    PROVE  s \in Links(c) /\ At(c) \in Linked
<1>1. st[s].link = c
  BY DEF Target
<1> QED BY <1>1 DEF AgreeInv, LinkInv

\* The streams of a start that have not started do not run, nor does the one that failed.
LEMMA NotYet ==
    ASSUME BaseInv, AgreeInv, NEW c \in Channels, NEW l \in DOMAIN Job(c).ord,
           Owner[Job(c).ord[l]] = c,
           \/ At(c) = "streams" /\ l >= Job(c).i
           \/ Undoes(Job(c)) /\ l = Job(c).i
    PROVE  LET s == Job(c).ord[l] IN
           s \in Streams /\ Has(c, s) /\ st[s].state # "ACTIVE"
<1> DEFINE j == Job(c)
           s == j.ord[l]
<1>1. At(c) \in Listing /\ At(c) = j.pc
  BY DEF Undoes, Listing, Starting, At
<1>2. ListOK(j, ch[c].table) /\ j \in CallType /\ j.c = c
  BY <1>1, JobThread
<1> HIDE DEF j
<1>3. j.ord \in Seq(Streams) /\ j.i \in Nat /\ j.j \in Nat /\ l \in DOMAIN j.ord
  BY <1>2 DEF CallType, j
<1>4. s \in Streams /\ s \in Range(j.ord)
  BY <1>3 DEF Range
<1>5. Has(c, s)
  BY <1>2, <1>4 DEF ListOK, Has, j
<1>6. \A k1, k2 \in DOMAIN j.ord : j.ord[k1] = j.ord[k2] => k1 = k2
  BY <1>2 DEF ListOK
<1>7. l \in Nat
  BY <1>3
<1>8. st[s].state \in States(j, s)
  BY <1>4, <1>5 DEF AgreeInv, StateInv, j
<1>9. l >= j.i => s \notin Before(j.ord, j.i)
  <2> SUFFICES ASSUME l >= j.i, NEW k1 \in DOMAIN j.ord, k1 < j.i, j.ord[k1] = s PROVE FALSE
    BY DEF Before
  <2>1. k1 = l
    BY <1>3, <1>6
  <2> QED BY <1>3, <1>7, <2>1
<1>10. CASE At(c) = "streams" /\ l >= j.i
  <2>1. States(j, s) = {"CFG"}
    BY <1>1, <1>9, <1>10, StatesAt
  <2> QED BY <1>4, <1>5, <1>8, <2>1 DEF j
<1>11. CASE Undoes(j) /\ l = j.i
  <2>1. s \notin Before(j.ord, j.i)
    BY <1>3, <1>9, <1>11
  <2>2. States(j, s) \subseteq {"CFG", "BUFFED", "REG"}
    BY <1>11, <2>1 DEF States, Undoes, Undoing, Ending
  <2> QED BY <1>4, <1>5, <1>8, <2>2 DEF j
<1> QED BY <1>10, <1>11 DEF j

LEMMA BundledSame ==
    ASSUME NEW c, NEW k, ByWork(c, k)
    PROVE  k.bundled = ch[c].bundled
BY DEF ByWork, ByFrame, ByOpened, ByCommand, ByCmdEnd, ByCallback, ByCbEnd, ByKept, ByLookUp, ByGivenBack,
       ByReturned, Posted, SameQueue, SameUse, Worked

LEMMA StarveIdle ==
    ASSUME NEW k, NEW h, NEW j, j.pc \in {"NOTUSED", "STOPPED", "ACTIVE", "flush_ack"} \cup StoppingAt
    PROVE  StarveOK(k, h, j)
BY DEF StarveOK, Undoes, Undoing, Ending, StoppingAt

LEMMA StarveWork ==
    ASSUME NEW c, NEW k, Working(c, k), StarveInv, YetInv
    PROVE  StarveInv'
<1> SUFFICES ASSUME NEW d \in Channels, IsBundle(d)'
             PROVE  StarveOK(ch'[d], hold'[d], Job(d)')
  BY DEF StarveInv
<1>0. IsBundle(d) /\ c \in Channels /\ Handling(c, k) /\ BaseInv /\ AgreeInv /\ ByWork(c, k)
  BY WorkingFacts DEF Working
<1>1. StarveOK(ch[d], hold[d], Job(d))
  BY <1>0 DEF StarveInv
<1>2. CASE d # c
  BY <1>1, <1>2, WorkingFacts
<1>3. CASE d = c /\ Job(c)' = Idle("STOPPED")
  BY <1>3, IdleIs, StarveIdle
<1>4. CASE d = c /\ Job(c)' = Job(c)
  <2> DEFINE j == Job(c)
  <2>1. StarveOK(ch[c], hold[c], j) /\ ch'[c] = k
    BY <1>1, <1>4, WorkingFacts
  <2>2. k.bundled = ch[c].bundled /\ k.table = ch[c].table
    BY <1>0, BundledSame, WorkingFacts
  <2>3. \A s \in Streams : Count(ch[c], hold[c], s) = 0 /\ st[s].state # "ACTIVE" => Count(k, hold'[c], s) = 0
    BY <1>0, WorkFewer, MovesDown
  <2>4. ch[c].bundled \in SUBSET Streams
    BY <1>0, TypeFacts DEF BaseInv, TypeInv, ChannelType
  <2>5. j.pc \in {"link", "streams"} => \A s \in Streams : InTableNow(k, s) => s \in k.bundled
    BY <2>1, <2>2 DEF StarveOK, InTableNow
  <2>6. j.pc = "link" => Silent(k, hold'[c]) /\ \A s \in Streams : Count(k, hold'[c], s) = 0
    <3> SUFFICES ASSUME j.pc = "link"
                 PROVE  Silent(k, hold'[c]) /\ \A s \in Streams : Count(k, hold'[c], s) = 0
      OBVIOUS
    <3>1. Silent(ch[c], hold[c]) /\ \A s \in Streams : Count(ch[c], hold[c], s) = 0
      BY <2>1 DEF StarveOK
    <3>2. Silent(k, hold'[c])
      BY <2>4, <3>1, SilentWork
    <3>3. ASSUME NEW s \in Streams PROVE Count(k, hold'[c], s) = 0
      <4>1. CASE Moves(c, k, s)
        BY <1>0, <3>1, <4>1, MovesDown
      <4>2. CASE st[s].state = "ACTIVE" /\ Has(c, s) /\ c = Target(s)
        <5>1. CASE Owner[s] = c
          <6>1. st[s].state \in States(j, s)
            BY <1>0, <4>2, <5>1 DEF AgreeInv, StateInv
          <6> QED BY <4>2, <6>1, StatesAt
        <5>2. CASE Owner[s] # c
          <6>1. At(c) \in Linked
            BY <1>0, <4>2, <5>2, FramesOf
          <6> QED BY <6>1 DEF At, Linked
        <5> QED BY <5>1, <5>2
      <4> QED BY <4>1, <4>2, WorkFewer
    <3> QED BY <3>2, <3>3
  <2>7. j.pc = "streams" /\ Yet(j) => Silent(k, hold'[c])
    <3> SUFFICES ASSUME j.pc = "streams", Yet(j) PROVE Silent(k, hold'[c])
      OBVIOUS
    <3>1. Silent(ch[c], hold[c]) /\ \A s \in Streams : InTableNow(ch[c], s) => s \in ch[c].bundled
      BY <2>1 DEF StarveOK
    <3>2. PICK l \in DOMAIN j.ord : l >= j.i /\ Owner[j.ord[l]] = j.c
      BY DEF Yet
    <3>3. j.c = c
      BY <1>0, JobThread DEF At, Listing, Starting
    <3> DEFINE s == j.ord[l]
    <3>4. s \in Streams /\ Has(c, s) /\ st[s].state # "ACTIVE"
      BY <1>0, <3>2, <3>3, NotYet DEF At
    <3>5. InBundle(c, s) = 0
      BY <1>0, <3>2, <3>3, <3>4 DEF YetInv, At
    <3>6. Count(ch[c], hold[c], s) = 0 /\ s \in ch[c].bundled
      BY <3>1, <3>4, <3>5, BundleIs DEF Has, InTableNow
    <3> HIDE DEF s, j
    <3> QED BY <3>1, <3>6, SilentWork
  <2>8. Undoes(j) => /\ j.ord[j.i] \in k.bundled /\ Count(k, hold'[c], j.ord[j.i]) = 0
                     /\ Silent(k, hold'[c])
    <3> SUFFICES ASSUME Undoes(j)
                 PROVE  /\ j.ord[j.i] \in k.bundled /\ Count(k, hold'[c], j.ord[j.i]) = 0
                        /\ Silent(k, hold'[c])
      OBVIOUS
    <3>1. Silent(ch[c], hold[c]) /\ j.ord[j.i] \in ch[c].bundled /\ Count(ch[c], hold[c], j.ord[j.i]) = 0
      BY <2>1 DEF StarveOK
    <3>2. At(c) \in Listing
      BY DEF Undoes, Listing, Starting, At
    <3>3. j.i \in DOMAIN j.ord /\ Owner[j.ord[j.i]] = c
      BY <1>0, <3>2, JobThread DEF ListOK
    <3>4. j.ord[j.i] \in Streams /\ st[j.ord[j.i]].state # "ACTIVE"
      BY <1>0, <3>3, NotYet
    <3> HIDE DEF j
    <3>5. Count(k, hold'[c], j.ord[j.i]) = 0
      BY <2>3, <3>1, <3>4
    <3>6. Silent(k, hold'[c])
      BY <3>1, SilentWork
    <3> QED BY <2>2, <3>1, <3>5, <3>6
  <2> HIDE DEF j
  <2>9. StarveOK(k, hold'[c], j)
    BY <2>5, <2>6, <2>7, <2>8 DEF StarveOK
  <2> QED BY <1>4, <2>1, <2>9 DEF j
<1> QED BY <1>2, <1>3, <1>4, WorkingFacts

-----------------------------------------------------------------------------
(* What the client holds, and the flushes, after a step of the threads or the client *)

LEMMA KeptAt ==
    ASSUME BaseInv, AgreeInv, StarveInv, NEW c \in Channels, ch[c].cur # {}, ~Stopping(c)
    PROVE  IsBundle(c) /\ At(c) \in HoldAt
<1>1. IsBundle(c) /\ At(c) \notin {"NOTUSED", "STOPPED", "put"}
  BY DEF AgreeInv, ThreadInv, ThreadsOK
<1>2. At(c) # "link" /\ ~Undoes(Job(c))
  BY <1>1 DEF StarveInv, StarveOK, Silent, At
<1>3. At(c) \notin StoppingAt /\ (At(c) \in Ending => Job(c).op = "start")
  <2> SUFFICES ASSUME At(c) \in StoppingAt \cup Ending, Job(c).op # "start" PROVE FALSE
    <3>1. Job(c).op = "start" => At(c) \notin StoppingAt
      <4>1. ASSUME Job(c).op = "start", At(c) \in StoppingAt PROVE FALSE
        <5>1. At(c) \in Listing
          BY <4>1 DEF Listing
        <5>2. At(c) \in Places("start")
          BY <4>1, <5>1, JobThread DEF At
        <5> QED BY <4>1, <5>2 DEF Places, StoppingAt, Starting, Undoing, Ending
      <4> QED BY <4>1
    <3> QED BY <3>1
  <2>1. At(c) \in Listing
    BY DEF Listing
  <2>2. PICK t \in Threads : In(t, c) /\ Job(c) = call[t]
    BY <2>1, JobThread
  <2>3. call[t].pc \in Places(call[t].op) /\ call[t].c = c /\ call[t].pc = At(c) /\ call[t].op # "start"
    BY <2>1, <2>2, JobThread DEF At, In
  <2>4. call[t].op = "stop"
    BY <2>3 DEF Places, StoppingAt, Ending
  <2> QED BY <2>3, <2>4 DEF Stopping
<1> QED BY <1>1, <1>2, <1>3, AtIn DEF Undoes, HoldAt, At, Starting

LEMMA HoldWork ==
    ASSUME NEW c, NEW k, Working(c, k), HoldInv, StarveInv
    PROVE  HoldInv'
<1>0. /\ c \in Channels /\ BaseInv /\ AgreeInv /\ ByWork(c, k) /\ call' = call
      /\ hold \in [Channels -> [Streams -> Nat]] /\ hold' \in [Channels -> [Streams -> Nat]]
      /\ \A t \in Threads : call[t].op = "stop" => call[t].c \in Channels
  BY WorkingFacts DEF Working, Work, BaseInv, TypeInv, TypeOK, CallInv
<1>1. \/ hold'[c] = hold[c]
      \/ ch[c].cur # {} /\ ~Stopping(c)
      \/ hold[c] # NoFrames
  <2>1. CASE ByKept(c, k)
    BY <2>1 DEF ByKept
  <2>2. CASE ByReturned(c, k)
    BY <2>2 DEF ByReturned, NoFrames
  <2> QED BY <1>0, <2>1, <2>2 DEF ByWork, ByFrame, ByOpened, ByCommand, ByCmdEnd, ByCallback, ByCbEnd,
                                  ByLookUp, ByGivenBack
<1>2. ASSUME NEW d \in Channels, hold'[d] # NoFrames PROVE IsBundle(d)' /\ At(d)' \in HoldAt
  <2>1. IsBundle(d) /\ At(d) \in HoldAt
    <3>1. CASE d # c \/ hold[d] # NoFrames
      BY <1>2, <3>1, WorkingFacts DEF HoldInv
    <3>2. CASE d = c /\ hold[d] = NoFrames
      BY <1>0, <1>1, <1>2, <3>2, KeptAt
    <3> QED BY <3>1, <3>2
  <2>2. At(d)' = At(d)
    <3>1. Job(d)' = Job(d) \/ Job(d) = Idle("NOTUSED")
      BY WorkingFacts
    <3> QED BY <2>1, <3>1, IdleIs DEF At, HoldAt
  <2> QED BY <2>1, <2>2, WorkingFacts
<1>3. ASSUME NEW t \in Threads, call[t].op = "stop" PROVE hold'[call[t].c] = NoFrames
  <2>1. hold[call[t].c] = NoFrames
    BY <1>3 DEF HoldInv
  <2>2. call[t].c = c => Stopping(c)
    BY <1>3 DEF Stopping
  <2> QED BY <1>0, <1>1, <1>3, <2>1, <2>2, WorkingFacts
<1> QED BY <1>0, <1>2, <1>3 DEF HoldInv

\* The frames of a stream in the commands.
LEMMA DataNone ==
    ASSUME NEW k \in ChannelType, NEW s \in Streams
    PROVE  DataOf(k, s) = {} <=> CountNodes(k.cmd.q, s) = 0
<1>1. k.cmd.q \in Seq(CmdNodes)
  BY DEF ChannelType
<1> QED BY <1>1, CountNat DEF DataOf

LEMMA FlushSame ==
    ASSUME NEW c, NEW k, NEW m, NEW at, FlushOK(k, c, at), m.cmd.q = k.cmd.q, m.ack = k.ack, m.que = k.que
    PROVE  FlushOK(m, c, at)
BY DEF FlushOK, Flushes, DataOf

\* A command is worked off: what is left of the queue moves up.
LEMMA TailSets ==
    ASSUME NEW k \in ChannelType, NEW m, k.cmd.q # <<>>, m.cmd.q = Tail(k.cmd.q)
    PROVE  /\ \A i \in Flushes(m) : i \in Nat /\ i + 1 \in Flushes(k)
           /\ \A i \in Flushes(k) : i \in Nat /\ (i = 1 \/ i - 1 \in Flushes(m))
           /\ \A s : \A i \in DataOf(m, s) : i \in Nat /\ i + 1 \in DataOf(k, s)
           /\ Head(k.cmd.q) = k.cmd.q[1] /\ 1 \in DOMAIN k.cmd.q
           /\ 1 \in Flushes(k) <=> Head(k.cmd.q).cmd = "FLUSH_QUEUE"
           /\ \A s : 1 \in DataOf(k, s) <=> s \in FramesIn(Head(k.cmd.q))
<1> DEFINE q == k.cmd.q
<1>1. q \in Seq(CmdNodes)
  BY DEF ChannelType
<1>2. /\ 1 \in DOMAIN q /\ Head(q) = q[1] /\ Len(q) \in Nat
      /\ DOMAIN q = 1..Len(q) /\ DOMAIN Tail(q) = 1..(Len(q) - 1)
      /\ \A i \in DOMAIN Tail(q) : i + 1 \in DOMAIN q /\ i \in Nat /\ Tail(q)[i] = q[i + 1]
  BY <1>1, TailIs
<1>3. \A i \in DOMAIN q : i \in Nat /\ (i = 1 \/ (i - 1 \in DOMAIN Tail(q) /\ q[i] = Tail(q)[i - 1]))
  <2> SUFFICES ASSUME NEW i \in DOMAIN q, i # 1 PROVE i - 1 \in DOMAIN Tail(q) /\ q[i] = Tail(q)[i - 1]
    BY <1>2
  <2>1. i - 1 \in DOMAIN Tail(q) /\ (i - 1) + 1 = i
    BY <1>2
  <2> QED BY <1>2, <2>1
<1> HIDE DEF q
<1>4. Flushes(k) = {i \in DOMAIN q : q[i].cmd = "FLUSH_QUEUE"}
      /\ Flushes(m) = {i \in DOMAIN Tail(q) : Tail(q)[i].cmd = "FLUSH_QUEUE"}
      /\ \A s : /\ DataOf(k, s) = {i \in DOMAIN q : s \in FramesIn(q[i])}
                /\ DataOf(m, s) = {i \in DOMAIN Tail(q) : s \in FramesIn(Tail(q)[i])}
  BY DEF Flushes, DataOf, q
<1>5. \A i \in Flushes(m) : i \in Nat /\ i + 1 \in Flushes(k)
  BY <1>2, <1>4
<1>6. \A i \in Flushes(k) : i \in Nat /\ (i = 1 \/ i - 1 \in Flushes(m))
  BY <1>3, <1>4
<1>7. \A s : \A i \in DataOf(m, s) : i \in Nat /\ i + 1 \in DataOf(k, s)
  BY <1>2, <1>4
<1>8. 1 \in Flushes(k) <=> Head(q).cmd = "FLUSH_QUEUE"
  BY <1>2, <1>4
<1>9. \A s : 1 \in DataOf(k, s) <=> s \in FramesIn(Head(q))
  BY <1>2, <1>4
<1> QED BY <1>2, <1>5, <1>6, <1>7, <1>8, <1>9 DEF q

-----------------------------------------------------------------------------

\* The queue gets only what the command brings.
LEMMA QueueFrom ==
    ASSUME NEW c, NEW k, Handling(c, k), ByCommand(c, k), NEW s \in Streams, k.que[s] > 0
    PROVE  ch[c].que[s] > 0 \/ s \in FramesIn(Head(ch[c].cmd.q))
<1>1. ch[c].que \in [Streams -> Nat] /\ k \in ChannelType
  BY HandlingFacts
<1>2. k.que \in [Streams -> Nat]
  BY <1>1 DEF ChannelType
<1>3. ASSUME NEW que \in [Streams -> Nat], NEW x \in Streams \cup {None}, Settles(c, que, k, x)
      PROVE  que[s] > 0
  <2>1. k.que[s] \in Nat /\ que[s] \in Nat
    BY <1>2
  <2>2. CASE Sends(c, que, k)
    <3>1. k.que[s] = IF s \in ch[c].bundled THEN que[s] - 1 ELSE que[s]
      BY <2>2 DEF Sends
    <3> QED BY <2>1, <3>1
  <2>3. CASE Drops(c, que, k, x)
    <3>1. k.que[s] = IF s = x THEN que[s] - 1 ELSE que[s]
      BY <2>3 DEF Drops
    <3> QED BY <2>1, <3>1
  <2>4. CASE Keeps(c, que, k)
    BY <2>4 DEF Keeps
  <2> QED BY <1>3, <2>2, <2>3, <2>4 DEF Settles
<1>8. ASSUME NEW y \in Streams
      PROVE  Arrived(c, y) \in [Streams -> Nat] /\ (s # y => Arrived(c, y)[s] = ch[c].que[s])
  <2>1. ch[c].que[y] + 1 \in Nat
    BY <1>1
  <2> QED BY <1>1, <2>1 DEF Arrived
<1>4. CASE WorkData(c, k)
  <2> DEFINE x == Head(ch[c].cmd.q).s
  <2>1. x \in Streams /\ FramesIn(Head(ch[c].cmd.q)) = {x} /\ Settles(c, Arrived(c, x), k, x)
    BY <1>4 DEF WorkData, FramesIn
  <2>2. Arrived(c, x) \in [Streams -> Nat] /\ (s # x => Arrived(c, x)[s] = ch[c].que[s])
    BY <1>8, <2>1
  <2> HIDE DEF x
  <2>3. Arrived(c, x)[s] > 0
    BY <1>3, <2>1, <2>2
  <2> QED BY <2>1, <2>2, <2>3
<1>5. CASE WorkRequest(c, k)
  BY <1>1, <1>3, <1>5 DEF WorkRequest
<1>6. CASE WorkFlush(c, k)
  BY <1>6 DEF WorkFlush, NoFrames
<1>7. CASE WorkExit(c, k)
  BY <1>7 DEF WorkExit
<1> QED BY <1>4, <1>5, <1>6, <1>7 DEF ByCommand

LEMMA FlushCommand ==
    ASSUME NEW c, NEW k, Handling(c, k), ByCommand(c, k), NEW at, FlushOK(ch[c], c, at)
    PROVE  FlushOK(k, c, at)
<1> DEFINE o == ch[c]
           node == Head(o.cmd.q)
<1>1. o \in ChannelType /\ k \in ChannelType /\ o.cmd.q # <<>> /\ k.cmd.q = Tail(o.cmd.q)
  <2>1. o \in ChannelType /\ k \in ChannelType
    BY TypeFacts DEF Handling, BaseInv, TypeInv, Work
  <2> QED BY <2>1 DEF ByCommand, Worked
<1>2. /\ \A i \in Flushes(k) : i \in Nat /\ i + 1 \in Flushes(o)
      /\ \A i \in Flushes(o) : i \in Nat /\ (i = 1 \/ i - 1 \in Flushes(k))
      /\ \A s : \A i \in DataOf(k, s) : i \in Nat /\ i + 1 \in DataOf(o, s)
      /\ 1 \in Flushes(o) <=> node.cmd = "FLUSH_QUEUE"
      /\ \A s : 1 \in DataOf(o, s) <=> s \in FramesIn(node)
  BY <1>1, TailSets
<1>3. /\ o.ack \in 0..1
      /\ \A i, l \in Flushes(o) : i = l
      /\ o.ack = 1 => Flushes(o) = {}
      /\ Flushes(o) # {} \/ o.ack = 1 => at \in {"flush_ack", "undo_ack", "ack"}
  BY DEF FlushOK
<1>4. \A s \in Streams : Owner[s] # c =>
          /\ at \in {"undo_ack", "ack"} =>
                /\ \A i \in DataOf(o, s) : \E l \in Flushes(o) : i < l
                /\ o.que[s] > 0 => Flushes(o) # {}
          /\ at \in {"undo_copies", "undo_streams", "threads"} \cup Ending =>
                DataOf(o, s) = {} /\ o.que[s] = 0
  BY DEF FlushOK
<1>5. \A s \in Streams : k.que[s] \in Nat /\ (k.que[s] > 0 => o.que[s] > 0 \/ s \in FramesIn(node))
  <2>1. \A s \in Streams : k.que[s] \in Nat
    BY <1>1 DEF ChannelType
  <2> QED BY <2>1, QueueFrom
<1>11. \A i, l \in Flushes(k) : i = l
  <2> SUFFICES ASSUME NEW i \in Flushes(k), NEW l \in Flushes(k) PROVE i = l
    OBVIOUS
  <2>1. i + 1 = l + 1
    BY <1>2, <1>3
  <2>2. i \in Nat /\ l \in Nat
    BY <1>2
  <2> QED BY <2>1, <2>2
<1>6. CASE WorkFlush(c, k)
  <2>1. 1 \in Flushes(o) /\ k.ack = o.ack + 1 /\ k.que = NoFrames
    BY <1>2, <1>6 DEF WorkFlush
  <2>2. o.ack = 0 /\ k.ack = 1
    BY <1>3, <2>1
  <2>3. Flushes(k) = {}
    <3> SUFFICES ASSUME NEW i \in Flushes(k) PROVE FALSE
      OBVIOUS
    <3>1. i + 1 = 1 /\ i \in Nat
      BY <1>2, <1>3, <2>1
    <3>2. i = 0
      BY <3>1
    <3>3. k.cmd.q \in Seq(CmdNodes) /\ i \in DOMAIN k.cmd.q
      BY <1>1 DEF Flushes, ChannelType
    <3> QED BY <3>2, <3>3
  <2>4. at \in {"flush_ack", "undo_ack", "ack"}
    BY <1>3, <2>1
  <2>5. ASSUME NEW s \in Streams, Owner[s] # c, at \in {"undo_ack", "ack"}
        PROVE  DataOf(k, s) = {} /\ k.que[s] = 0
    <3>1. k.que[s] = 0
      BY <2>1 DEF NoFrames
    <3>2. ASSUME NEW i \in DataOf(k, s) PROVE FALSE
      <4>1. i \in Nat /\ i + 1 \in DataOf(o, s)
        BY <1>2
      <4>2. PICK l \in Flushes(o) : i + 1 < l
        BY <1>4, <2>5, <4>1
      <4>3. l = 1
        BY <1>3, <2>1
      <4> QED BY <4>1, <4>2, <4>3
    <3> QED BY <3>1, <3>2
  <2> HIDE DEF o, node
  <2> QED BY <1>11, <2>2, <2>3, <2>4, <2>5 DEF FlushOK, Ending
<1>7. CASE ~WorkFlush(c, k)
  <2>1. node.cmd # "FLUSH_QUEUE" /\ k.ack = o.ack
    BY <1>7 DEF ByCommand, WorkData, WorkRequest, WorkExit
  <2>2. 1 \notin Flushes(o)
    BY <1>2, <2>1
  <2>3. \A l \in Flushes(o) : l \in Nat /\ l - 1 \in Flushes(k)
    BY <1>2, <2>2
  <2>4. Flushes(k) # {} <=> Flushes(o) # {}
    BY <1>2, <2>3
  <2>5. ASSUME NEW s \in Streams, Owner[s] # c
        PROVE  /\ at \in {"undo_ack", "ack"} =>
                     /\ \A i \in DataOf(k, s) : \E l \in Flushes(k) : i < l
                     /\ k.que[s] > 0 => Flushes(k) # {}
               /\ at \in {"undo_copies", "undo_streams", "threads"} \cup Ending =>
                     DataOf(k, s) = {} /\ k.que[s] = 0
    <3>1. ASSUME at \in {"undo_ack", "ack"}, NEW i \in DataOf(k, s)
          PROVE  \E l \in Flushes(k) : i < l
      <4>1. i \in Nat /\ i + 1 \in DataOf(o, s)
        BY <1>2
      <4>2. PICK l \in Flushes(o) : i + 1 < l
        BY <1>4, <2>5, <3>1, <4>1
      <4>3. l \in Nat /\ l - 1 \in Flushes(k)
        BY <2>3
      <4>4. i < l - 1
        BY <4>1, <4>2, <4>3
      <4> QED BY <4>3, <4>4
    <3>2. ASSUME at \in {"undo_ack", "ack"}, k.que[s] > 0 PROVE Flushes(k) # {}
      <4>1. o.que[s] > 0 \/ 1 \in DataOf(o, s)
        BY <1>2, <1>5, <3>2
      <4>2. Flushes(o) # {}
        BY <1>4, <2>5, <3>2, <4>1
      <4> QED BY <2>4, <4>2
    <3>3. ASSUME at \in {"undo_copies", "undo_streams", "threads"} \cup Ending
          PROVE  DataOf(k, s) = {} /\ k.que[s] = 0
      <4>1. DataOf(o, s) = {} /\ o.que[s] = 0
        BY <1>4, <2>5, <3>3
      <4>2. s \notin FramesIn(node)
        BY <1>2, <4>1
      <4>3. ~(o.que[s] > 0)
        BY <4>1
      <4>4. k.que[s] = 0
        BY <1>5, <4>2, <4>3
      <4>5. DataOf(k, s) = {}
        BY <1>2, <4>1
      <4> QED BY <4>4, <4>5
    <3> QED BY <3>1, <3>2, <3>3
  <2> HIDE DEF o, node
  <2>6. k.ack \in 0..1 /\ (k.ack = 1 => Flushes(k) = {})
    BY <1>3, <2>1, <2>4
  <2>7. Flushes(k) # {} \/ k.ack = 1 => at \in {"flush_ack", "undo_ack", "ack"}
    BY <1>3, <2>1, <2>4
  <2> QED BY <1>11, <2>5, <2>6, <2>7 DEF FlushOK
<1> QED BY <1>6, <1>7

-----------------------------------------------------------------------------

\* A command is queued: what is there stays in front of it.
LEMMA AppendSets ==
    ASSUME NEW k \in ChannelType, NEW m, NEW node \in CmdNodes, m.cmd.q = Append(k.cmd.q, node)
    PROVE  LET last == Len(k.cmd.q) + 1 IN
           /\ \A i \in Flushes(k) : i \in Flushes(m) /\ i \in Nat /\ i < last
           /\ \A i \in Flushes(m) : i \in Flushes(k) \/ (i = last /\ node.cmd = "FLUSH_QUEUE")
           /\ node.cmd = "FLUSH_QUEUE" => last \in Flushes(m)
           /\ \A s : \A i \in DataOf(k, s) : i \in Nat /\ i < last
           /\ \A s : \A i \in DataOf(m, s) : i \in DataOf(k, s) \/ (i = last /\ s \in FramesIn(node))
<1>1. k.cmd.q \in Seq(CmdNodes)
  BY DEF ChannelType
<1>2. /\ Len(k.cmd.q) \in Nat /\ DOMAIN k.cmd.q = 1..Len(k.cmd.q)
      /\ DOMAIN m.cmd.q = 1..(Len(k.cmd.q) + 1)
      /\ \A i \in 1..Len(k.cmd.q) : m.cmd.q[i] = k.cmd.q[i]
      /\ m.cmd.q[Len(k.cmd.q) + 1] = node
  BY <1>1, AppendIs
<1>3. \A i : i \in 1..(Len(k.cmd.q) + 1) <=> i \in 1..Len(k.cmd.q) \/ i = Len(k.cmd.q) + 1
  BY <1>2
<1>4. \A i \in 1..Len(k.cmd.q) : i \in Nat /\ i < Len(k.cmd.q) + 1
  BY <1>2
<1>5. /\ \A i : i \in Flushes(k) <=> i \in DOMAIN k.cmd.q /\ k.cmd.q[i].cmd = "FLUSH_QUEUE"
      /\ \A i : i \in Flushes(m) <=> i \in DOMAIN m.cmd.q /\ m.cmd.q[i].cmd = "FLUSH_QUEUE"
      /\ \A s : \A i : i \in DataOf(k, s) <=> i \in DOMAIN k.cmd.q /\ s \in FramesIn(k.cmd.q[i])
      /\ \A s : \A i : i \in DataOf(m, s) <=> i \in DOMAIN m.cmd.q /\ s \in FramesIn(m.cmd.q[i])
  BY DEF Flushes, DataOf
<1>6. /\ \A i \in Flushes(k) : i \in Flushes(m) /\ i \in Nat /\ i < Len(k.cmd.q) + 1
      /\ \A i \in Flushes(m) : i \in Flushes(k) \/ (i = Len(k.cmd.q) + 1 /\ node.cmd = "FLUSH_QUEUE")
      /\ node.cmd = "FLUSH_QUEUE" => Len(k.cmd.q) + 1 \in Flushes(m)
  BY <1>2, <1>3, <1>4, <1>5
<1>7. \A s : \A i \in DataOf(k, s) : i \in Nat /\ i < Len(k.cmd.q) + 1
  BY <1>2, <1>4, <1>5
<1>8. \A s : \A i \in DataOf(m, s) : i \in DataOf(k, s) \/ (i = Len(k.cmd.q) + 1 /\ s \in FramesIn(node))
  BY <1>2, <1>3, <1>5
<1> QED BY <1>6, <1>7, <1>8

\* A frame of another channel's stream does not come behind the flush.
LEMMA FlushFrame ==
    ASSUME NEW c, NEW k, Working(c, k), ByFrame(c, k), FlushOK(ch[c], c, At(c))
    PROVE  FlushOK(k, c, At(c))
<1> DEFINE o == ch[c]
           pos == At(c)
<1>1. o \in ChannelType
  BY TypeFacts DEF Working, BaseInv, TypeInv
<1>2. PICK x \in Streams : c = Target(x) /\ Posted(c, [cmd |-> "DATA_CB", s |-> x], k)
  BY DEF ByFrame
<1>3. [cmd |-> "DATA_CB", s |-> x] \in CmdNodes
  BY DEF CmdNodes
<1>4. /\ k.cmd.q = Append(o.cmd.q, [cmd |-> "DATA_CB", s |-> x]) /\ k.ack = o.ack /\ k.que = o.que
      /\ [cmd |-> "DATA_CB", s |-> x].cmd # "FLUSH_QUEUE"
  BY <1>2 DEF Posted
<1>5. /\ \A i \in Flushes(o) : i \in Flushes(k)
      /\ \A i \in Flushes(k) : i \in Flushes(o)
      /\ \A s : \A i \in DataOf(k, s) : i \in DataOf(o, s) \/ s \in FramesIn([cmd |-> "DATA_CB", s |-> x])
  <2> DEFINE node == [cmd |-> "DATA_CB", s |-> x]
  <2>1. node \in CmdNodes /\ k.cmd.q = Append(o.cmd.q, node) /\ node.cmd # "FLUSH_QUEUE"
    BY <1>3, <1>4
  <2> HIDE DEF node, o
  <2>2. /\ \A i \in Flushes(o) : i \in Flushes(k)
        /\ \A i \in Flushes(k) : i \in Flushes(o) \/ node.cmd = "FLUSH_QUEUE"
        /\ \A s : \A i \in DataOf(k, s) : i \in DataOf(o, s) \/ s \in FramesIn(node)
    BY <1>1, <2>1, AppendSets
  <2> QED BY <2>1, <2>2 DEF node
<1>6. \A s : s \in FramesIn([cmd |-> "DATA_CB", s |-> x]) => s = x
  BY FramesAre
<1>7. ASSUME NEW s \in Streams, Owner[s] # c, pos \in {"undo_ack", "ack"} \cup {"undo_copies", "undo_streams", "threads"} \cup Ending
      PROVE  \A i \in DataOf(k, s) : i \in DataOf(o, s)
  <2>1. s # x
    <3> SUFFICES ASSUME s = x PROVE FALSE
      OBVIOUS
    <3>1. pos \in Linked
      BY <1>2, <1>7, FramesOf DEF Working
    <3> HIDE DEF pos
    <3> QED BY <1>7, <3>1 DEF Linked, Ending
  <2> QED BY <1>5, <1>6, <2>1
<1> HIDE DEF o, pos
<1>8. /\ o.ack \in 0..1
      /\ \A i, l \in Flushes(o) : i = l
      /\ o.ack = 1 => Flushes(o) = {}
      /\ Flushes(o) # {} \/ o.ack = 1 => pos \in {"flush_ack", "undo_ack", "ack"}
  BY DEF FlushOK, o, pos
<1>9. \A s \in Streams : Owner[s] # c =>
          /\ pos \in {"undo_ack", "ack"} =>
                /\ \A i \in DataOf(o, s) : \E l \in Flushes(o) : i < l
                /\ o.que[s] > 0 => Flushes(o) # {}
          /\ pos \in {"undo_copies", "undo_streams", "threads"} \cup Ending =>
                DataOf(o, s) = {} /\ o.que[s] = 0
  BY DEF FlushOK, o, pos
<1>10.
      /\ k.ack \in 0..1
      /\ \A i, l \in Flushes(k) : i = l
      /\ k.ack = 1 => Flushes(k) = {}
      /\ Flushes(k) # {} \/ k.ack = 1 => pos \in {"flush_ack", "undo_ack", "ack"}
  BY <1>4, <1>5, <1>8
<1>11. ASSUME NEW s \in Streams, Owner[s] # c
       PROVE  /\ pos \in {"undo_ack", "ack"} =>
                /\ \A i \in DataOf(k, s) : \E l \in Flushes(k) : i < l
                /\ k.que[s] > 0 => Flushes(k) # {}
              /\ pos \in {"undo_copies", "undo_streams", "threads"} \cup Ending =>
                DataOf(k, s) = {} /\ k.que[s] = 0
  <2>1. CASE pos \in {"undo_ack", "ack"}
    <3>1. \A i \in DataOf(k, s) : i \in DataOf(o, s)
      BY <1>7, <1>11, <2>1
    <3>2. \A i \in DataOf(k, s) : \E l \in Flushes(k) : i < l
      BY <1>5, <1>9, <1>11, <2>1, <3>1
    <3>3. k.que[s] > 0 => Flushes(k) # {}
      BY <1>4, <1>5, <1>9, <1>11, <2>1
    <3>4. pos \notin {"undo_copies", "undo_streams", "threads"} \cup Ending
      BY <2>1 DEF Ending
    <3> QED BY <3>2, <3>3, <3>4
  <2>2. CASE pos \in {"undo_copies", "undo_streams", "threads"} \cup Ending
    <3>1. \A i \in DataOf(k, s) : i \in DataOf(o, s)
      BY <1>7, <1>11, <2>2
    <3>2. DataOf(k, s) = {} /\ k.que[s] = 0
      BY <1>4, <1>9, <1>11, <2>2, <3>1
    <3>3. pos \notin {"undo_ack", "ack"}
      BY <2>2 DEF Ending
    <3> QED BY <3>2, <3>3
  <2> QED BY <2>1, <2>2
<1>12. FlushOK(k, c, pos)
  <2>1. k.ack \in 0..1 /\ (\A i, l \in Flushes(k) : i = l) /\ (k.ack = 1 => Flushes(k) = {})
    BY <1>10
  <2>2. Flushes(k) # {} \/ k.ack = 1 => pos \in {"flush_ack", "undo_ack", "ack"}
    BY <1>10
  <2>3. ASSUME NEW s \in Streams, Owner[s] # c, pos \in {"undo_ack", "ack"}
        PROVE  (\A i \in DataOf(k, s) : \E l \in Flushes(k) : i < l) /\ (k.que[s] > 0 => Flushes(k) # {})
    BY <1>11, <2>3
  <2>4. ASSUME NEW s \in Streams, Owner[s] # c, pos \in {"undo_copies", "undo_streams", "threads"} \cup Ending
        PROVE  DataOf(k, s) = {} /\ k.que[s] = 0
    BY <1>11, <2>4
  <2> QED BY <2>1, <2>2, <2>3, <2>4 DEF FlushOK
<1> QED BY <1>12 DEF pos

LEMMA FlushWork ==
    ASSUME NEW c, NEW k, Working(c, k), FlushInv
    PROVE  FlushInv'
<1>1. /\ Handling(c, k) /\ c \in Channels /\ ch'[c] = k
      /\ \A d \in Channels \ {c} : ch'[d] = ch[d] /\ Job(d)' = Job(d)
      /\ Job(c)' = Job(c) \/ (ByOpened(c, k) /\ Job(c) = Idle("NOTUSED") /\ Job(c)' = Idle("STOPPED"))
  BY WorkingFacts
<1>2. FlushOK(k, c, At(c))
  <2>1. FlushOK(ch[c], c, At(c))
    BY <1>1 DEF FlushInv
  <2>2. CASE ByFrame(c, k)
    BY <2>1, <2>2, FlushFrame
  <2>3. CASE ByCommand(c, k)
    BY <1>1, <2>1, <2>3, FlushCommand
  <2>4. CASE ~ByFrame(c, k) /\ ~ByCommand(c, k)
    <3>1. k.cmd.q = ch[c].cmd.q /\ k.ack = ch[c].ack /\ k.que = ch[c].que
      BY <2>4 DEF Working, ByWork, ByOpened, ByCmdEnd, ByCallback, ByCbEnd, ByKept, ByLookUp,
                  ByGivenBack, ByReturned, SameUse, SameQueue, SameThreads
    <3> QED BY <2>1, <3>1, FlushSame
  <2> QED BY <2>2, <2>3, <2>4
<1>3. FlushOK(k, c, At(c)')
  <2>1. CASE Job(c)' = Job(c)
    BY <1>2, <2>1 DEF At
  <2>2. CASE Job(c) = Idle("NOTUSED") /\ Job(c)' = Idle("STOPPED")
    <3>1. At(c) = "NOTUSED" /\ At(c)' = "STOPPED"
      BY <2>2, IdleIs DEF At
    <3>2. FlushOK(k, c, "NOTUSED")
      BY <1>2, <3>1
    <3>3. FlushOK(k, c, "STOPPED")
      BY <3>2 DEF FlushOK, Ending
    <3> QED BY <3>1, <3>3
  <2> QED BY <1>1, <2>1, <2>2
<1> SUFFICES ASSUME NEW d \in Channels PROVE FlushOK(ch'[d], d, At(d)')
  BY DEF FlushInv, FlushOK, Flushes, DataOf
<1>4. CASE d = c
  BY <1>1, <1>3, <1>4
<1>5. CASE d # c
  <2>1. ch'[d] = ch[d] /\ At(d)' = At(d) /\ FlushOK(ch[d], d, At(d))
    BY <1>1, <1>5 DEF At, FlushInv
  <2> QED BY <2>1
<1> QED BY <1>4, <1>5

-----------------------------------------------------------------------------
(* The frames, after a step of a call *)

\* What a step of a call starts from.
Going(t, c, k, j) == Orderly /\ AgreeInv /\ FrameInv /\ Stepping(t, c, k, j) /\ By(t, k, j)

LEMMA GoingFacts ==
    ASSUME NEW t, NEW c, NEW k, NEW j, Going(t, c, k, j)
    PROVE  /\ Stepping(t, c, k, j) /\ By(t, k, j) /\ BaseInv /\ BaseInv' /\ AgreeInv /\ Orderly
           /\ BySimple(t, c, k, j) \/ ByStart(t, c, k, j) \/ ByStop(t, c, k, j)
           /\ c \in Channels /\ t \in Threads /\ c = call[t].c
           /\ ch[c] \in ChannelType /\ k \in ChannelType /\ ch'[c] = k
           /\ hold' = hold /\ scene' = scene /\ hold[c] \in [Streams -> Nat]
           /\ \A d \in Channels \ {c} : ch'[d] = ch[d] /\ Job(d)' = Job(d)
           /\ Job(c) = Was(t, c) /\ Job(c)' = Then(k, j)
           /\ At(c) = Was(t, c).pc /\ At(c)' = Then(k, j).pc
           /\ ~InChannel(t) => Was(t, c).pc = ch[c].state
           /\ InChannel(t) => Was(t, c) = call[t]
           /\ Ends(j) \/ j.pc = "zero" => Then(k, j).pc = k.state
           /\ ThreadsOK(ch[c], IsBundle(c), At(c)) /\ FlushOK(ch[c], c, At(c))
           /\ IsBundle(c) => StarveOK(ch[c], hold[c], Was(t, c))
           /\ \A d \in Channels : Feeds(d)' = Feeds(d) /\ (IsBundle(d)' <=> IsBundle(d))
<1>1. Stepping(t, c, k, j) /\ By(t, k, j) /\ BaseInv /\ AgreeInv /\ Orderly
  BY DEF Going, Stepping
<1>2. BaseInv'
  BY <1>1, StepBase DEF Stepping
<1>3. /\ c \in Channels /\ t \in Threads /\ c = call[t].c
      /\ ch[c] \in ChannelType /\ k \in ChannelType /\ ch'[c] = k
      /\ hold' = hold /\ scene' = scene
      /\ \A d \in Channels \ {c} : ch'[d] = ch[d] /\ Job(d)' = Job(d)
      /\ Job(c) = Was(t, c) /\ Job(c)' = Then(k, j)
  BY <1>1, SteppingFacts DEF Stepping
<1>4. hold[c] \in [Streams -> Nat]
  BY <1>1, <1>3 DEF BaseInv, TypeInv, TypeOK
<1>5. At(c) = Was(t, c).pc /\ At(c)' = Then(k, j).pc
  BY <1>3 DEF At
<1>6. /\ ~InChannel(t) => Was(t, c).pc = ch[c].state
      /\ InChannel(t) => Was(t, c) = call[t]
      /\ Ends(j) \/ j.pc = "zero" => Then(k, j).pc = k.state
  BY IdleIs DEF Was, Then
<1>7. ThreadsOK(ch[c], IsBundle(c), At(c)) /\ FlushOK(ch[c], c, At(c))
  BY <1>3 DEF Going, AgreeInv, ThreadInv, FrameInv, FlushInv
<1>8. IsBundle(c) => StarveOK(ch[c], hold[c], Was(t, c))
  BY <1>3 DEF Going, FrameInv, StarveInv
<1>9. \A d \in Channels : Feeds(d)' = Feeds(d) /\ (IsBundle(d)' <=> IsBundle(d))
  BY <1>3 DEF Feeds, IsBundle
<1>10. BySimple(t, c, k, j) \/ ByStart(t, c, k, j) \/ ByStop(t, c, k, j)
  BY <1>1, <1>3 DEF By
<1> QED BY <1>1, <1>2, <1>3, <1>4, <1>5, <1>6, <1>7, <1>8, <1>9, <1>10

\* Nothing is queued, and nothing held.
Bare(k) == k.cmd.q = <<>> /\ k.cb.q = <<>> /\ k.que = NoFrames /\ k.cur = {}

LEMMA BareCounts ==
    ASSUME NEW k \in ChannelType, NEW h \in [Streams -> Nat], Bare(k), NEW s \in Streams, h[s] = 0
    PROVE  Count(k, h, s) = 0 /\ DataOf(k, s) = {} /\ k.que[s] = 0
<1>1. <<>> \in Seq(CmdNodes) /\ <<>> \in Seq(CbNodes) /\ DOMAIN <<>> = {}
  OBVIOUS
<1>2. CountNodes(<<>>, s) = 0
  BY <1>1, CountNat
<1>3. k.que[s] = 0 /\ s \notin k.cur /\ CountNodes(k.cmd.q, s) = 0 /\ CountNodes(k.cb.q, s) = 0
  BY <1>2 DEF Bare, NoFrames
<1>4. Count(k, h, s) = 0
  BY <1>3, CountTyped
<1> QED BY <1>3, <1>4, DataNone

\* A channel that does not run, or is no bundle, has no frame.
LEMMA Quiet ==
    ASSUME BaseInv, AgreeInv, HoldInv, NEW c \in Channels,
           ~IsBundle(c) \/ At(c) \in {"NOTUSED", "STOPPED", "put"}
    PROVE  /\ Bare(ch[c]) /\ hold[c] = NoFrames
           /\ \A s \in Streams : Count(ch[c], hold[c], s) = 0 /\ DataOf(ch[c], s) = {} /\ ch[c].que[s] = 0
<1>1. ch[c].cmd = Thread /\ ch[c].cb = Thread /\ ch[c].que = NoFrames /\ ch[c].cur = {}
  BY DEF AgreeInv, ThreadInv, ThreadsOK
<1>2. Bare(ch[c])
  BY <1>1 DEF Bare, Thread
<1>3. hold[c] = NoFrames
  BY DEF HoldInv, HoldAt
<1>4. ch[c] \in ChannelType /\ hold[c] \in [Streams -> Nat]
  BY DEF BaseInv, TypeInv, TypeOK
<1>5. \A s \in Streams : hold[c][s] = 0
  BY <1>3 DEF NoFrames
<1> QED BY <1>2, <1>3, <1>4, <1>5, BareCounts

SameFrames(c, k) ==
    /\ k.cmd.q = ch[c].cmd.q /\ k.cb.q = ch[c].cb.q /\ k.que = ch[c].que /\ k.cur = ch[c].cur
    /\ k.bundled = ch[c].bundled
Notes == {"FLUSH_QUEUE", "REQ_DATA_CB", "EXIT"}
Noted(c, k) == \E node \in CmdNodes : node.cmd \in Notes /\ Posted(c, node, k)

\* A call moves no frame: it may queue a command, and it ends the threads.
LEMMA QueuesAfter ==
    ASSUME NEW t, NEW c, NEW k, NEW j, Going(t, c, k, j)
    PROVE  \/ SameFrames(c, k) \/ Noted(c, k)
           \/ ByZeroed(t, c, k, j) \/ (IsBundle(c) /\ ByBegun(t, c, k, j))
           \/ ByCmdJoined(t, c, k, j) \/ ByCbJoined(t, c, k, j)
<1>0. BySimple(t, c, k, j) \/ ByStart(t, c, k, j) \/ ByStop(t, c, k, j)
  BY GoingFacts
<1>1. CASE \/ ByIgnored(t, c, k, j) \/ ByLinked(t, c, k, j) \/ ByStarted(t, c, k, j) \/ ByFailed(t, c, k, j)
           \/ ByUndone(t, c, k, j) \/ ByStopBegun(t, c, k, j) \/ ByStopped(t, c, k, j) \/ k = ch[c]
  <2>1. k = ch[c]
    BY <1>1 DEF ByIgnored, ByLinked, ByStarted, ByFailed, ByUndone, ByStopBegun, ByStopped
  <2> QED BY <2>1 DEF SameFrames
<1>2. CASE \/ ByAdded(t, c, k, j) \/ ByRemoved(t, c, k, j) \/ ByDisposed(t, c, k, j) \/ ByAcked(t, c, k, j)
           \/ ByActive(t, c, k, j) \/ ByCleared(t, c, k, j) \/ ByPut(t, c, k, j)
           \/ (~IsBundle(c) /\ ByBegun(t, c, k, j))
  <2>1. k.cmd = ch[c].cmd /\ k.cb = ch[c].cb /\ k.que = ch[c].que /\ k.cur = ch[c].cur /\ k.bundled = ch[c].bundled
    BY <1>2 DEF ByAdded, ByRemoved, ByDisposed, ByAcked, Acknowledged, ByActive, ByCleared, ByPut, ByBegun,
                SameThreads, SameQueue
  <2> QED BY <2>1 DEF SameFrames
<1>3. CASE ByRequested(t, c, k, j)
  <2>1. PICK n \in 0..1 : Posted(c, [cmd |-> "REQ_DATA_CB", n |-> n], k)
    BY <1>3 DEF ByRequested
  <2>2. [cmd |-> "REQ_DATA_CB", n |-> n] \in CmdNodes /\ [cmd |-> "REQ_DATA_CB", n |-> n].cmd \in Notes
    BY DEF CmdNodes, Notes
  <2> QED BY <2>1, <2>2 DEF Noted
<1>4. ASSUME NEW s \in Streams \cup {None}, Posted(c, [cmd |-> "FLUSH_QUEUE", s |-> s], k) PROVE Noted(c, k)
  <2>1. [cmd |-> "FLUSH_QUEUE", s |-> s] \in CmdNodes /\ [cmd |-> "FLUSH_QUEUE", s |-> s].cmd \in Notes
    BY DEF CmdNodes, Notes
  <2> QED BY <1>4, <2>1 DEF Noted
<1>5. CASE ByFlushed(t, c, k, j)
  BY <1>4, <1>5 DEF ByFlushed
<1>6. CASE ByUndoLinks(t, c, k, j) \/ ByStopLinks(t, c, k, j)
  BY <1>1, <1>4, <1>6 DEF ByUndoLinks, ByStopLinks, ByUnlinked
<1>7. CASE ByReleased(t, c, k, j)
  <2>1. [cmd |-> "EXIT"] \in CmdNodes /\ [cmd |-> "EXIT"].cmd \in Notes
    BY DEF CmdNodes, Notes
  <2> QED BY <1>1, <1>7, <2>1 DEF ByReleased, Noted
<1> QED BY <1>0, <1>1, <1>2, <1>3, <1>5, <1>6, <1>7 DEF BySimple, ByStart, ByStop

LEMMA BegunBare ==
    ASSUME NEW t, NEW c, NEW k, NEW j, Going(t, c, k, j), IsBundle(c), ByBegun(t, c, k, j)
    PROVE  Bare(k) /\ k.ack = 0 /\ Bare(ch[c]) /\ hold[c] = NoFrames
<1>1. At(c) = "STOPPED"
  BY GoingFacts, SteppingFacts DEF ByBegun
<1>2. Bare(ch[c]) /\ hold[c] = NoFrames
  BY <1>1, GoingFacts, Quiet DEF Going, FrameInv
<1> QED BY <1>2 DEF ByBegun, Bare, Launched, Thread

LEMMA ZeroedBare ==
    ASSUME NEW t, NEW c, NEW k, NEW j, Going(t, c, k, j), ByZeroed(t, c, k, j)
    PROVE  Bare(k) /\ k.ack = 0 /\ Bare(ch[c]) /\ hold[c] = NoFrames
<1>1. At(c) = "NOTUSED"
  <2>1. call[t].op = "delete"
    BY GoingFacts, SteppingFacts DEF ByZeroed, Places, Starting, StoppingAt, Ending, Undoing
  <2>2. ch[c].state = "NOTUSED"
    BY <2>1, GoingFacts DEF ByZeroed, BaseInv, TypeInv, DeleteInv
  <2>3. ~InChannel(t)
    BY GoingFacts, SteppingFacts DEF ByZeroed
  <2> QED BY <2>2, <2>3, GoingFacts
<1>2. Bare(ch[c]) /\ hold[c] = NoFrames
  BY <1>1, GoingFacts, Quiet DEF Going, FrameInv
<1> QED BY <1>2 DEF ByZeroed, Bare, NewChannel, Thread

-----------------------------------------------------------------------------

LEMMA CountEqual ==
    ASSUME NEW k \in ChannelType, NEW m \in ChannelType, NEW h \in [Streams -> Nat], NEW s \in Streams,
           CountNodes(m.cmd.q, s) = CountNodes(k.cmd.q, s), CountNodes(m.cb.q, s) = CountNodes(k.cb.q, s),
           m.que[s] = k.que[s], m.cur = k.cur
    PROVE  Count(m, h, s) = Count(k, h, s)
BY DEF Count

LEMMA NoteNoFrame ==
    ASSUME NEW S, NEW q \in Seq(S), NEW node \in S, NEW s, node.cmd \in Notes
    PROVE  CountNodes(Append(q, node), s) = CountNodes(q, s)
<1>1. s \notin FramesIn(node)
  BY FramesAre DEF Notes
<1>2. CountNodes(q, s) \in Nat
  BY CountNat
<1>3. CountNodes(Append(q, node), s) = CountNodes(q, s) + (IF s \in FramesIn(node) THEN 1 ELSE 0)
  BY CountAppend
<1> QED BY <1>1, <1>2, <1>3

LEMMA ChannelQueues ==
    ASSUME NEW k \in ChannelType
    PROVE  k.cmd.q \in Seq(CmdNodes) /\ k.cb.q \in Seq(CbNodes) /\ k.que \in [Streams -> Nat]
           /\ k.ack \in Nat /\ k.bundled \in SUBSET Streams /\ k.cur \in SUBSET Streams
BY DEF ChannelType

\* The queues of a bundle at the ends of its threads.
LEMMA CmdJoinedQueues ==
    ASSUME NEW t, NEW c, NEW k, NEW j, Going(t, c, k, j), ByCmdJoined(t, c, k, j)
    PROVE  /\ At(c) = "cmd_join" /\ Was(t, c) = call[t] /\ Then(k, j) = j /\ j.pc = "cb_join" /\ IsBundle(c)
           /\ ch[c].cmd.q = <<>> /\ k.cmd.q = <<>> /\ k.que = ch[c].que /\ k.cur = ch[c].cur
           /\ k.ack = ch[c].ack /\ k.bundled = ch[c].bundled
           /\ k.cb.q = Append(ch[c].cb.q, [cmd |-> "EXIT"])
<1>1. InChannel(t)
  BY DEF ByCmdJoined, InChannel
<1>2. At(c) = "cmd_join" /\ Was(t, c) = call[t]
  BY <1>1, GoingFacts DEF ByCmdJoined
<1>3. IsBundle(c) /\ ch[c].cmd.q = <<>>
  BY <1>2, GoingFacts DEF ThreadsOK, ByCmdJoined
<1>4. Then(k, j) = j /\ j.pc = "cb_join"
  BY GoesThen DEF ByCmdJoined
<1> QED BY <1>2, <1>3, <1>4 DEF ByCmdJoined, SameQueue, Thread

LEMMA CbJoinedQueues ==
    ASSUME NEW t, NEW c, NEW k, NEW j, Going(t, c, k, j), ByCbJoined(t, c, k, j)
    PROVE  /\ At(c) = "cb_join" /\ Was(t, c) = call[t] /\ Then(k, j) = j /\ j.pc = "put" /\ IsBundle(c)
           /\ Bare(k) /\ ch[c].cmd.q = <<>> /\ ch[c].cb.q = <<>> /\ ch[c].cur = {} /\ hold[c] = NoFrames
           /\ k.ack = ch[c].ack /\ k.bundled = ch[c].bundled
<1>1. InChannel(t)
  BY DEF ByCbJoined, InChannel
<1>2. At(c) = "cb_join" /\ Was(t, c) = call[t]
  BY <1>1, GoingFacts DEF ByCbJoined
<1>3. IsBundle(c) /\ ch[c].cmd = Thread /\ ch[c].cb.q = <<>> /\ ch[c].cur = {}
  BY <1>2, GoingFacts DEF ThreadsOK, ByCbJoined
<1>4. Then(k, j) = j /\ j.pc = "put"
  BY GoesThen DEF ByCbJoined
<1>5. hold[c] = NoFrames
  BY <1>2, GoingFacts DEF Going, FrameInv, HoldInv, HoldAt
<1> QED BY <1>2, <1>3, <1>4, <1>5 DEF ByCbJoined, Thread, Bare

\* The frames of a channel stay, except that the end of a start or stop forgets those of its
\* own streams.
LEMMA CallCounts ==
    ASSUME NEW t, NEW c, NEW k, NEW j, Going(t, c, k, j), NEW s \in Streams
    PROVE  \/ Count(k, hold'[c], s) = Count(ch[c], hold[c], s)
           \/ ByCbJoined(t, c, k, j) /\ Owner[s] = c /\ Count(k, hold'[c], s) = 0
<1>1. /\ ch[c] \in ChannelType /\ k \in ChannelType /\ hold'[c] = hold[c] /\ hold[c] \in [Streams -> Nat]
      /\ c \in Channels /\ FlushOK(ch[c], c, At(c))
  BY GoingFacts
<1>2. ch[c].cmd.q \in Seq(CmdNodes) /\ ch[c].cb.q \in Seq(CbNodes)
  BY <1>1, ChannelQueues
<1>3. SUFFICES \/ Count(k, hold[c], s) = Count(ch[c], hold[c], s)
               \/ ByCbJoined(t, c, k, j) /\ Owner[s] = c /\ Count(k, hold[c], s) = 0
  BY <1>1
<1>4. CASE SameFrames(c, k)
  BY <1>1, <1>4, CountEqual DEF SameFrames
<1>5. CASE Noted(c, k)
  <2>1. PICK node \in CmdNodes : node.cmd \in Notes /\ Posted(c, node, k)
    BY <1>5 DEF Noted
  <2>2. CountNodes(Append(ch[c].cmd.q, node), s) = CountNodes(ch[c].cmd.q, s)
    BY <1>2, <2>1, NoteNoFrame
  <2>3. CountNodes(k.cmd.q, s) = CountNodes(ch[c].cmd.q, s) /\ k.cb.q = ch[c].cb.q /\ k.que = ch[c].que /\ k.cur = ch[c].cur
    BY <2>1, <2>2 DEF Posted
  <2>4. Count(k, hold[c], s) = Count(ch[c], hold[c], s)
    BY <1>1, <2>3, CountEqual
  <2> QED BY <2>4
<1>6. CASE ByZeroed(t, c, k, j) \/ (IsBundle(c) /\ ByBegun(t, c, k, j))
  <2>1. Bare(k) /\ Bare(ch[c]) /\ hold[c] = NoFrames
    BY <1>6, BegunBare, ZeroedBare
  <2>2. hold[c][s] = 0
    BY <2>1 DEF NoFrames
  <2>3. Count(k, hold[c], s) = 0
    BY <1>1, <2>1, <2>2, BareCounts
  <2>4. Count(ch[c], hold[c], s) = 0
    BY <1>1, <2>1, <2>2, BareCounts
  <2> QED BY <2>3, <2>4
<1>7. CASE ByCmdJoined(t, c, k, j)
  <2>1. /\ ch[c].cmd.q = k.cmd.q /\ k.que = ch[c].que /\ k.cur = ch[c].cur
        /\ k.cb.q = Append(ch[c].cb.q, [cmd |-> "EXIT"])
    BY <1>7, CmdJoinedQueues
  <2>2. [cmd |-> "EXIT"] \in CbNodes /\ [cmd |-> "EXIT"].cmd \in Notes
    BY DEF CbNodes, Notes
  <2>3. CountNodes(Append(ch[c].cb.q, [cmd |-> "EXIT"]), s) = CountNodes(ch[c].cb.q, s)
    BY <1>2, <2>2, NoteNoFrame
  <2>4. CountNodes(k.cb.q, s) = CountNodes(ch[c].cb.q, s)
    BY <2>1, <2>3
  <2>5. Count(k, hold[c], s) = Count(ch[c], hold[c], s)
    BY <1>1, <2>1, <2>4, CountEqual
  <2> QED BY <2>5
<1>8. CASE ByCbJoined(t, c, k, j)
  <2>1. /\ At(c) = "cb_join" /\ Bare(k) /\ ch[c].cmd.q = <<>> /\ ch[c].cb.q = <<>> /\ ch[c].cur = {}
        /\ hold[c] = NoFrames
    BY <1>8, CbJoinedQueues
  <2>2. hold[c][s] = 0
    BY <2>1 DEF NoFrames
  <2>3. Count(k, hold[c], s) = 0 /\ CountNodes(k.cmd.q, s) = CountNodes(ch[c].cmd.q, s) /\ k.cb.q = ch[c].cb.q /\ k.que[s] = 0
        /\ k.cur = ch[c].cur
    BY <1>1, <2>1, <2>2, BareCounts DEF Bare
  <2>4. CASE Owner[s] = c
    BY <1>8, <2>3, <2>4
  <2>5. CASE Owner[s] # c
    <3>1. ch[c].que[s] = 0
      BY <1>1, <2>1, <2>5 DEF FlushOK, Ending
    <3>2. Count(k, hold[c], s) = Count(ch[c], hold[c], s)
      BY <1>1, <2>3, <3>1, CountEqual
    <3> QED BY <3>2
  <2> QED BY <2>4, <2>5
<1> QED BY <1>4, <1>5, <1>6, <1>7, <1>8, QueuesAfter

-----------------------------------------------------------------------------

\* The references of a stream that runs change when it is started only.
LEMMA RunsAfter ==
    ASSUME NEW t, NEW c, NEW k, NEW j, Going(t, c, k, j), NEW s \in Streams, st'[s].state = "ACTIVE"
    PROVE  \/ st[s].state = "ACTIVE" /\ st'[s].out = st[s].out /\ st'[s].lost = st[s].lost
           \/ /\ ByStarted(t, c, k, j) /\ s = Current(t) /\ Owner[s] = c
              /\ st'[s].out = 0 /\ st'[s].lost = 0
<1>0. BySimple(t, c, k, j) \/ ByStart(t, c, k, j) \/ ByStop(t, c, k, j)
  BY GoingFacts
<1>1. CASE st'[s] = st[s]
  BY <1>1
<1>2. ASSUME NEW x, NEW state, Restated(x, state), state # "ACTIVE" PROVE st'[s] = st[s]
  BY <1>2 DEF Restated
<1>3. ASSUME NEW x, NEW state, Restarted(x, state), state # "ACTIVE" PROVE st'[s] = st[s]
  BY <1>3 DEF Restarted
<1>4. CASE BySimple(t, c, k, j)
  <2>1. CASE ByRemoved(t, c, k, j)
    BY <1>1, <1>2, <2>1 DEF ByRemoved
  <2>2. CASE ByAdded(t, c, k, j)
    BY <1>1, <1>2, <2>2 DEF ByAdded
  <2>3. CASE st' = st
    BY <1>1, <2>3
  <2> QED BY <1>4, <2>1, <2>2, <2>3 DEF BySimple, ByIgnored, ByDisposed, ByZeroed, ByRequested, ByFlushed, ByAcked
<1>5. ASSUME NEW link, Relinked(c, link)
      PROVE  st[s].state = "ACTIVE" /\ st'[s].out = st[s].out /\ st'[s].lost = st[s].lost
  BY <1>5 DEF Relinked
<1>6. CASE ByStart(t, c, k, j)
  <2>1. CASE ByStarted(t, c, k, j)
    <3>1. CASE Owner[Current(t)] = c
      BY <1>1, <2>1, <3>1 DEF ByStarted, Restarted
    <3>2. CASE Owner[Current(t)] # c
      BY <1>1, <2>1, <3>2 DEF ByStarted
    <3> QED BY <3>1, <3>2
  <2>2. CASE ByFailed(t, c, k, j)
    BY <1>1, <1>2, <2>2 DEF ByFailed
  <2>3. CASE ByUndone(t, c, k, j)
    BY <1>1, <1>3, <2>3 DEF ByUndone
  <2>4. CASE ByLinked(t, c, k, j) \/ ByUndoLinks(t, c, k, j)
    BY <1>5, <2>4 DEF ByLinked, ByUndoLinks, ByUnlinked
  <2>5. CASE st' = st
    BY <1>1, <2>5
  <2> QED BY <1>6, <2>1, <2>2, <2>3, <2>4, <2>5 DEF ByStart, ByBegun, ByActive, ByCleared
<1>7. CASE ByStop(t, c, k, j)
  <2>1. CASE ByStopped(t, c, k, j)
    BY <1>1, <1>3, <2>1 DEF ByStopped
  <2>2. CASE ByStopLinks(t, c, k, j)
    BY <1>5, <2>2 DEF ByStopLinks, ByUnlinked
  <2>3. CASE ByPut(t, c, k, j)
    BY <2>3 DEF ByPut
  <2>4. CASE st' = st
    BY <1>1, <2>4
  <2> QED BY <1>7, <2>1, <2>2, <2>3, <2>4 DEF ByStop, ByStopBegun, ByReleased, ByCmdJoined, ByCbJoined
<1> QED BY <1>0, <1>4, <1>6, <1>7

\* A stream that the start comes to does not run yet.
LEMMA StartedOne ==
    ASSUME NEW t, NEW c, NEW k, NEW j, Going(t, c, k, j), ByStarted(t, c, k, j) \/ ByFailed(t, c, k, j),
           Owner[Current(t)] = c
    PROVE  /\ Current(t) \in Streams /\ Has(c, Current(t)) /\ st[Current(t)].state # "ACTIVE"
           /\ At(c) = "streams" /\ Was(t, c) = call[t] /\ call[t].i \in DOMAIN call[t].ord
           /\ call[t].c = c /\ call[t].i \in Nat /\ k = ch[c]
<1>1. call[t].pc = "streams" /\ call[t].i \in DOMAIN call[t].ord /\ k = ch[c]
  BY DEF ByStarted, ByFailed
<1>2. InChannel(t)
  BY <1>1 DEF InChannel
<1>3. Was(t, c) = call[t] /\ Job(c) = call[t] /\ At(c) = "streams" /\ c \in Channels /\ BaseInv /\ AgreeInv
  BY <1>1, <1>2, GoingFacts DEF At
<1>4. call[t] \in CallType
  BY GoingFacts, SteppingFacts
<1>5. call[t].i \in Nat
  BY <1>4 DEF CallType
<1>6. Current(t) \in Streams /\ Has(c, Current(t)) /\ st[Current(t)].state # "ACTIVE"
  <2>1. call[t].i \in DOMAIN Job(c).ord /\ Owner[Job(c).ord[call[t].i]] = c /\ call[t].i >= Job(c).i
        /\ Current(t) = Job(c).ord[call[t].i]
    BY <1>1, <1>3, <1>5 DEF Current
  <2> QED BY <1>3, <2>1, NotYet
<1> QED BY <1>1, <1>3, <1>5, <1>6, GoingFacts

\* A stream leaves the table without frames.
LEMMA TableAfter ==
    ASSUME NEW t, NEW c, NEW k, NEW j, Going(t, c, k, j), NEW s \in Streams, Has(c, s)
    PROVE  InTableNow(k, s) \/ Count(ch[c], hold[c], s) = 0
<1>0. /\ BySimple(t, c, k, j) \/ ByStart(t, c, k, j) \/ ByStop(t, c, k, j)
      /\ c \in Channels /\ BaseInv /\ AgreeInv /\ HoldInv
      /\ ch[c] \in ChannelType /\ hold[c] \in [Streams -> Nat]
  BY GoingFacts DEF Going, FrameInv
<1>1. CASE k.table = ch[c].table
  BY <1>1 DEF Has, InTableNow
<1>2. CASE At(c) \in {"NOTUSED", "STOPPED", "put"} \/ ~IsBundle(c)
  BY <1>0, <1>2, Quiet
<1>3. CASE ByAdded(t, c, k, j)
  BY <1>3 DEF ByAdded
<1>4. CASE ByRemoved(t, c, k, j)
  <2>1. At(c) = "STOPPED"
    BY <1>4, GoingFacts, SteppingFacts DEF ByRemoved
  <2> QED BY <1>2, <2>1
<1>5. CASE ByZeroed(t, c, k, j)
  <2>1. Bare(ch[c]) /\ hold[c] = NoFrames
    BY <1>5, ZeroedBare
  <2>2. hold[c][s] = 0
    BY <2>1 DEF NoFrames
  <2> QED BY <1>0, <2>1, <2>2, BareCounts
<1>6. CASE ByPut(t, c, k, j)
  <2>1. InChannel(t)
    BY <1>6 DEF ByPut, InChannel
  <2>2. At(c) = "put"
    BY <1>6, <2>1, GoingFacts DEF ByPut
  <2> QED BY <1>2, <2>2
<1>7. CASE ByCleared(t, c, k, j)
  <2>1. InChannel(t)
    BY <1>7 DEF ByCleared, InChannel
  <2>2. At(c) = "undo_copies" /\ Was(t, c) = call[t]
    BY <1>7, <2>1, GoingFacts DEF ByCleared
  <2>3. CASE Owner[s] = c
    BY <1>7, <2>3 DEF ByCleared, Own
  <2>4. CASE Owner[s] # c /\ IsBundle(c)
    <3>1. DataOf(ch[c], s) = {} /\ ch[c].que[s] = 0
      BY <2>2, <2>4, GoingFacts DEF FlushOK
    <3>2. Undoes(Was(t, c))
      BY <1>7, <2>2 DEF ByCleared, Undoes, Undoing
    <3>3. Silent(ch[c], hold[c])
      BY <2>4, <3>2, GoingFacts DEF StarveOK
    <3>4. CountNodes(ch[c].cmd.q, s) = 0
      BY <1>0, <3>1, DataNone
    <3>5. CountNodes(ch[c].cb.q, s) = 0
      <4>1. ch[c].cb.q \in Seq(CbNodes)
        BY <1>0, ChannelQueues
      <4>2. \A n \in CbNodes : n.cmd # "SUPER_BUF" => FramesIn(n) = {}
        BY FramesAre DEF CbNodes
      <4>3. \A i \in DOMAIN ch[c].cb.q : ch[c].cb.q[i] \in CbNodes /\ ch[c].cb.q[i].cmd # "SUPER_BUF"
        BY <3>3, <4>1 DEF Silent
      <4>4. \A i \in DOMAIN ch[c].cb.q : s \notin FramesIn(ch[c].cb.q[i])
        BY <4>2, <4>3
      <4> QED BY <4>1, <4>4, CountNat
    <3>6. hold[c][s] = 0 /\ s \notin ch[c].cur
      BY <3>3 DEF Silent, NoFrames
    <3> QED BY <1>0, <3>1, <3>4, <3>5, <3>6, CountTyped
  <2> QED BY <1>2, <2>3, <2>4
<1>8. CASE BySimple(t, c, k, j)
  BY <1>1, <1>3, <1>4, <1>5, <1>8 DEF BySimple, ByIgnored, ByDisposed, ByRequested, ByFlushed, ByAcked,
                                      Posted, Acknowledged, SameTable
<1>9. CASE ByStart(t, c, k, j)
  BY <1>1, <1>7, <1>9 DEF ByStart, ByBegun, ByLinked, ByStarted, ByFailed, ByActive, ByUndoLinks, ByUnlinked,
                          ByUndone, Posted, SameTable
<1>10. CASE ByStop(t, c, k, j)
  BY <1>1, <1>6, <1>10 DEF ByStop, ByStopBegun, ByStopped, ByStopLinks, ByUnlinked, ByReleased, ByCmdJoined,
                           ByCbJoined, Posted, SameTable
<1> QED BY <1>0, <1>8, <1>9, <1>10

-----------------------------------------------------------------------------
(* Where a step takes a call *)

LEMMA PassSimple ==
    ASSUME NEW t, NEW c, NEW k, NEW j, Going(t, c, k, j)
    PROVE  /\ ByIgnored(t, c, k, j) => At(c)' = At(c) /\ At(c) \in {"NOTUSED", "STOPPED", "ACTIVE"}
           /\ ByAdded(t, c, k, j) \/ ByRemoved(t, c, k, j) => At(c) = "STOPPED" /\ At(c)' = "STOPPED"
           /\ ByDisposed(t, c, k, j) => At(c) = "STOPPED" /\ At(c)' = "NOTUSED"
           /\ ByZeroed(t, c, k, j) => At(c)' = "NOTUSED"
           /\ ByRequested(t, c, k, j) => At(c) = "ACTIVE" /\ At(c)' = "ACTIVE"
           /\ ByFlushed(t, c, k, j) => At(c) = "ACTIVE" /\ At(c)' = "flush_ack"
           /\ ByAcked(t, c, k, j) => \/ At(c) = "flush_ack" /\ At(c)' = "ACTIVE"
                                     \/ /\ At(c) = "undo_ack" /\ At(c)' = "undo_copies"
                                        /\ Counts(t, j) /\ Was(t, c) = call[t] /\ Then(k, j) = j
                                     \/ At(c) = "ack" /\ At(c)' = "threads"
<1>0. /\ ~InChannel(t) => Was(t, c).pc = ch[c].state
      /\ InChannel(t) => Was(t, c) = call[t]
      /\ Ends(j) \/ j.pc = "zero" => Then(k, j).pc = k.state
      /\ At(c) = Was(t, c).pc /\ At(c)' = Then(k, j).pc /\ ch[c] \in ChannelType
      /\ Stepping(t, c, k, j)
  BY GoingFacts
<1>1. call[t].pc = "ch_wait" => ~InChannel(t)
  BY DEF InChannel
<1>2. ByIgnored(t, c, k, j) => At(c)' = At(c) /\ At(c) \in {"NOTUSED", "STOPPED", "ACTIVE"}
  BY <1>0, <1>1 DEF ByIgnored, ChannelType
<1>3. ByAdded(t, c, k, j) \/ ByRemoved(t, c, k, j) => At(c) = "STOPPED" /\ At(c)' = "STOPPED"
  BY <1>0, <1>1 DEF ByAdded, ByRemoved
<1>4. ByDisposed(t, c, k, j) => At(c) = "STOPPED" /\ At(c)' = "NOTUSED"
  BY <1>0, <1>1 DEF ByDisposed
<1>5. ByZeroed(t, c, k, j) => At(c)' = "NOTUSED"
  BY <1>0 DEF ByZeroed, NewChannel
<1>6. ByRequested(t, c, k, j) => At(c) = "ACTIVE" /\ At(c)' = "ACTIVE"
  BY <1>0, <1>1 DEF ByRequested, Posted
<1>7. ByFlushed(t, c, k, j) => At(c) = "ACTIVE" /\ At(c)' = "flush_ack"
  BY <1>0, <1>1, GoesThen DEF ByFlushed
<1>8. ASSUME ByAcked(t, c, k, j)
      PROVE  \/ At(c) = "flush_ack" /\ At(c)' = "ACTIVE"
             \/ /\ At(c) = "undo_ack" /\ At(c)' = "undo_copies"
                /\ Counts(t, j) /\ Was(t, c) = call[t] /\ Then(k, j) = j
             \/ At(c) = "ack" /\ At(c)' = "threads"
  <2>1. InChannel(t)
    BY <1>8 DEF ByAcked, InChannel
  <2>2. Was(t, c) = call[t] /\ At(c) = call[t].pc /\ ch[c].state = StateIn(call[t]) /\ k.state = ch[c].state
    BY <1>0, <1>8, <2>1, SteppingFacts DEF ByAcked, Acknowledged, SameTable
  <2>3. CASE call[t].pc = "flush_ack" /\ Ends(j)
    BY <1>0, <2>2, <2>3 DEF StateIn
  <2>4. CASE call[t].pc = "undo_ack" /\ Goes(t, j, "undo_copies") /\ Counts(t, j)
    BY <1>0, <2>2, <2>4, GoesThen
  <2>5. CASE call[t].pc = "ack" /\ Goes(t, j, "threads")
    BY <1>0, <2>2, <2>5, GoesThen
  <2> QED BY <1>8, <2>3, <2>4, <2>5 DEF ByAcked
<1> QED BY <1>2, <1>3, <1>4, <1>5, <1>6, <1>7, <1>8

\* What goes on from a place inside.
Inside(t, c, k, j) == Was(t, c) = call[t] /\ Then(k, j) = j /\ At(c) = call[t].pc /\ At(c)' = j.pc

LEMMA InsideIs ==
    ASSUME NEW t, NEW c, NEW k, NEW j, Going(t, c, k, j), NEW pc, Goes(t, j, pc), pc \notin {"idle", "zero"},
           call[t].pc \notin {"idle", "ch_wait", "zero"}
    PROVE  Inside(t, c, k, j) /\ j.pc = pc
<1>1. InChannel(t)
  BY DEF InChannel
<1>2. Then(k, j) = j /\ j.pc = pc
  BY GoesThen
<1> QED BY <1>1, <1>2, GoingFacts DEF Inside

LEMMA PassStart ==
    ASSUME NEW t, NEW c, NEW k, NEW j, Going(t, c, k, j)
    PROVE  /\ ByBegun(t, c, k, j) => At(c) = "STOPPED" /\ At(c)' = "link" /\ Then(k, j) = j
           /\ ByLinked(t, c, k, j) => Inside(t, c, k, j) /\ At(c) = "link" /\ At(c)' = "streams"
           /\ ByStarted(t, c, k, j) => Inside(t, c, k, j) /\ At(c) = "streams" /\ At(c)' = "streams"
           /\ ByFailed(t, c, k, j) => Inside(t, c, k, j) /\ At(c) = "streams" /\ At(c)' = "undo_links"
           /\ ByActive(t, c, k, j) => At(c) = "streams" /\ At(c)' = "ACTIVE"
           /\ ByUndoLinks(t, c, k, j) => /\ Inside(t, c, k, j) /\ At(c) = "undo_links"
                                         /\ At(c)' \in {"undo_ack", "undo_copies"}
           /\ ByCleared(t, c, k, j) => Inside(t, c, k, j) /\ At(c) = "undo_copies" /\ At(c)' = "undo_streams"
           /\ ByUndone(t, c, k, j) => Inside(t, c, k, j) /\ At(c) = "undo_streams" /\ At(c)' = "undo_streams"
<1>1. ASSUME ByBegun(t, c, k, j) PROVE At(c) = "STOPPED" /\ At(c)' = "link" /\ Then(k, j) = j
  <2>1. ~InChannel(t) /\ ch[c].state = "STOPPED" /\ Goes(t, j, "link")
    BY <1>1 DEF ByBegun, InChannel
  <2>2. Then(k, j) = j /\ j.pc = "link"
    BY <2>1, GoesThen
  <2> QED BY <2>1, <2>2, GoingFacts
<1>2. ByLinked(t, c, k, j) => Inside(t, c, k, j) /\ At(c) = "link" /\ At(c)' = "streams"
  BY InsideIs DEF ByLinked, Inside
<1>3. ByStarted(t, c, k, j) => Inside(t, c, k, j) /\ At(c) = "streams" /\ At(c)' = "streams"
  BY InsideIs DEF ByStarted, Advances, Inside
<1>4. ByFailed(t, c, k, j) => Inside(t, c, k, j) /\ At(c) = "streams" /\ At(c)' = "undo_links"
  BY InsideIs DEF ByFailed, Inside
<1>5. ASSUME ByActive(t, c, k, j) PROVE At(c) = "streams" /\ At(c)' = "ACTIVE"
  <2>1. InChannel(t) /\ k.state = "ACTIVE" /\ Ends(j) /\ call[t].pc = "streams"
    BY <1>5 DEF ByActive, InChannel
  <2> QED BY <2>1, GoingFacts
<1>6. ByUndoLinks(t, c, k, j) => /\ Inside(t, c, k, j) /\ At(c) = "undo_links"
                                 /\ At(c)' \in {"undo_ack", "undo_copies"}
  BY InsideIs DEF ByUndoLinks, ByUnlinked, Inside
<1>7. ByCleared(t, c, k, j) => Inside(t, c, k, j) /\ At(c) = "undo_copies" /\ At(c)' = "undo_streams"
  BY InsideIs DEF ByCleared, Inside
<1>8. ByUndone(t, c, k, j) => Inside(t, c, k, j) /\ At(c) = "undo_streams" /\ At(c)' = "undo_streams"
  BY InsideIs DEF ByUndone, Inside
<1> QED BY <1>1, <1>2, <1>3, <1>4, <1>5, <1>6, <1>7, <1>8

LEMMA PassStop ==
    ASSUME NEW t, NEW c, NEW k, NEW j, Going(t, c, k, j)
    PROVE  /\ ByStopBegun(t, c, k, j) => At(c) = "ACTIVE" /\ At(c)' = "off" /\ Then(k, j) = j
           /\ ByStopped(t, c, k, j) => Inside(t, c, k, j) /\ At(c) = "off" /\ At(c)' = "off"
           /\ ByStopLinks(t, c, k, j) => Inside(t, c, k, j) /\ At(c) = "off" /\ At(c)' \in {"ack", "threads"}
           /\ ByReleased(t, c, k, j) => /\ Inside(t, c, k, j) /\ At(c) \in {"threads", "undo_streams"}
                                        /\ At(c)' \in {"cmd_join", "put"}
           /\ ByCmdJoined(t, c, k, j) => Inside(t, c, k, j) /\ At(c) = "cmd_join" /\ At(c)' = "cb_join"
           /\ ByCbJoined(t, c, k, j) => Inside(t, c, k, j) /\ At(c) = "cb_join" /\ At(c)' = "put"
           /\ ByPut(t, c, k, j) => At(c) = "put" /\ At(c)' = "STOPPED"
<1>1. ASSUME ByStopBegun(t, c, k, j) PROVE At(c) = "ACTIVE" /\ At(c)' = "off" /\ Then(k, j) = j
  <2>1. ~InChannel(t) /\ ch[c].state = "ACTIVE" /\ Goes(t, j, "off")
    BY <1>1 DEF ByStopBegun, InChannel
  <2>2. Then(k, j) = j /\ j.pc = "off"
    BY <2>1, GoesThen
  <2> QED BY <2>1, <2>2, GoingFacts
<1>2. ByStopped(t, c, k, j) => Inside(t, c, k, j) /\ At(c) = "off" /\ At(c)' = "off"
  BY InsideIs DEF ByStopped, Advances, Inside
<1>3. ByStopLinks(t, c, k, j) => Inside(t, c, k, j) /\ At(c) = "off" /\ At(c)' \in {"ack", "threads"}
  BY InsideIs DEF ByStopLinks, ByUnlinked, Inside
<1>4. ByReleased(t, c, k, j) => /\ Inside(t, c, k, j) /\ At(c) \in {"threads", "undo_streams"}
                                /\ At(c)' \in {"cmd_join", "put"}
  BY InsideIs DEF ByReleased, Inside
<1>5. ByCmdJoined(t, c, k, j) => Inside(t, c, k, j) /\ At(c) = "cmd_join" /\ At(c)' = "cb_join"
  BY InsideIs DEF ByCmdJoined, Inside
<1>6. ByCbJoined(t, c, k, j) => Inside(t, c, k, j) /\ At(c) = "cb_join" /\ At(c)' = "put"
  BY InsideIs DEF ByCbJoined, Inside
<1>7. ASSUME ByPut(t, c, k, j) PROVE At(c) = "put" /\ At(c)' = "STOPPED"
  <2>1. InChannel(t) /\ k.state = "STOPPED" /\ Ends(j) /\ call[t].pc = "put"
    BY <1>7 DEF ByPut, InChannel
  <2> QED BY <2>1, GoingFacts
<1> QED BY <1>1, <1>2, <1>3, <1>4, <1>5, <1>6, <1>7

-----------------------------------------------------------------------------

\* Another channel's frames are not touched.
LEMMA OthersCount ==
    ASSUME NEW t, NEW c, NEW k, NEW j, Going(t, c, k, j), NEW d \in Channels, d # c, NEW s \in Streams
    PROVE  InBundle(d, s)' = InBundle(d, s) /\ At(d)' = At(d) /\ (Has(d, s)' <=> Has(d, s))
<1>1. ch'[d] = ch[d] /\ hold'[d] = hold[d] /\ Job(d)' = Job(d)
  BY GoingFacts
<1> QED BY <1>1, BundleIs DEF At, Has

LEMMA PlaceCall ==
    ASSUME NEW t, NEW c, NEW k, NEW j, Going(t, c, k, j)
    PROVE  PlaceInv'
<1> SUFFICES ASSUME NEW d \in Channels, NEW s \in Streams, InBundle(d, s)' # 0
             PROVE  s \in Feeds(d)' /\ Has(d, s)'
  BY DEF PlaceInv
<1>0. PlaceInv
  BY DEF Going, FrameInv
<1>1. CASE d = c
  <2>1. Count(k, hold'[c], s) # 0
    BY <1>1, GoingFacts, BundleIs
  <2>2. Count(ch[c], hold[c], s) # 0
    BY <2>1, CallCounts
  <2>3. InBundle(c, s) # 0
    BY <2>2, BundleIs
  <2>4. s \in Feeds(c) /\ Has(c, s)
    BY <1>0, <1>1, <2>3 DEF PlaceInv
  <2>5. InTableNow(k, s)
    BY <2>2, <2>4, TableAfter
  <2>6. Has(c, s)' <=> InTableNow(k, s)
    BY GoingFacts DEF Has, InTableNow
  <2> QED BY <1>1, <2>4, <2>5, <2>6, GoingFacts
<1>2. CASE d # c
  <2>1. s \in Feeds(d) /\ Has(d, s)
    BY <1>0, <1>2, OthersCount DEF PlaceInv
  <2> QED BY <1>2, <2>1, OthersCount, GoingFacts
<1> QED BY <1>1, <1>2

LEMMA YetCall ==
    ASSUME NEW t, NEW c, NEW k, NEW j, Going(t, c, k, j)
    PROVE  YetInv'
<1> SUFFICES ASSUME NEW d \in Channels, NEW s \in Streams, Owner[s] = d,
                    st'[s].state # "ACTIVE", At(d)' \in {"link", "streams"}
             PROVE  InBundle(d, s)' = 0
  BY DEF YetInv
<1>0. YetInv
  BY DEF Going, FrameInv
<1>1. CASE d = c
  <2>1. ByBegun(t, c, k, j) \/ ByLinked(t, c, k, j) \/ ByStarted(t, c, k, j)
    <3>1. ~BySimple(t, c, k, j)
      BY <1>1, PassSimple DEF BySimple
    <3>2. ~ByStop(t, c, k, j)
      BY <1>1, PassStop DEF ByStop
    <3> QED BY <1>1, <3>1, <3>2, GoingFacts, PassStart DEF ByStart
  <2>2. Count(ch[c], hold[c], s) = 0
    <3>1. CASE ByBegun(t, c, k, j)
      <4>1. At(c) = "STOPPED"
        BY <3>1, PassStart
      <4> QED BY <4>1, Quiet, GoingFacts DEF Going, FrameInv
    <3>2. CASE ByLinked(t, c, k, j)
      <4>1. st[s].state # "ACTIVE" /\ At(c) = "link"
        BY <3>2, PassStart DEF ByLinked, Relinked
      <4> QED BY <1>0, <1>1, <4>1, BundleIs DEF YetInv
    <3>3. CASE ByStarted(t, c, k, j)
      <4>1. st[s].state # "ACTIVE"
        <5>1. CASE Owner[Current(t)] = c
          BY <3>3, <5>1, StartedOne DEF ByStarted, Restarted
        <5>2. CASE Owner[Current(t)] # c
          BY <3>3, <5>2 DEF ByStarted
        <5> QED BY <5>1, <5>2
      <4>2. At(c) = "streams"
        BY <3>3, PassStart
      <4> QED BY <1>0, <1>1, <4>1, <4>2, BundleIs DEF YetInv
    <3> QED BY <2>1, <3>1, <3>2, <3>3
  <2>3. Count(k, hold'[c], s) = 0
    BY <2>2, CallCounts
  <2> QED BY <1>1, <2>3, GoingFacts, BundleIs
<1>2. CASE d # c
  <2>1. st[s].state # "ACTIVE"
    BY <1>2, GoingFacts, OthersKeep
  <2>2. At(d) \in {"link", "streams"}
    BY <1>2, OthersCount
  <2>3. InBundle(d, s) = 0
    BY <1>0, <2>1, <2>2 DEF YetInv
  <2> QED BY <1>2, <2>3, OthersCount
<1> QED BY <1>1, <1>2

LEMMA CountCall ==
    ASSUME NEW t, NEW c, NEW k, NEW j, Going(t, c, k, j)
    PROVE  CountInv'
<1> SUFFICES ASSUME NEW s \in Streams, st'[s].state = "ACTIVE"
             PROVE  /\ \A d \in Channels : s \in Feeds(d) =>
                          st'[s].out = InBundle(d, s)' + st'[s].lost
                    /\ (\A d \in Channels : s \notin Feeds(d)) => st'[s].out = st'[s].lost
  BY GoingFacts DEF CountInv
<1>0. CountInv /\ PlaceInv /\ YetInv /\ c \in Channels /\ BaseInv
  BY GoingFacts DEF Going, FrameInv
<1>1. CASE st[s].state = "ACTIVE" /\ st'[s].out = st[s].out /\ st'[s].lost = st[s].lost
  <2>1. ASSUME NEW d \in Channels, s \in Feeds(d) PROVE InBundle(d, s)' = InBundle(d, s)
    <3>1. CASE d = c
      <4>1. ~(ByCbJoined(t, c, k, j) /\ Owner[s] = c)
        <5> SUFFICES ASSUME ByCbJoined(t, c, k, j), Owner[s] = c PROVE FALSE
          OBVIOUS
        <5>1. At(c) = "cb_join"
          BY CbJoinedQueues
        <5>2. At(c) \in {"ACTIVE", "flush_ack", "streams", "off"} \cup Undoing
          BY <1>1, GoingFacts, ActiveAt DEF AgreeInv
        <5> QED BY <5>1, <5>2 DEF Undoing
      <4>2. Count(k, hold'[c], s) = Count(ch[c], hold[c], s)
        BY <4>1, CallCounts
      <4> QED BY <3>1, <4>2, GoingFacts, BundleIs
    <3>2. CASE d # c
      BY <3>2, OthersCount
    <3> QED BY <3>1, <3>2
  <2> QED BY <1>0, <1>1, <2>1 DEF CountInv
<1>2. CASE ByStarted(t, c, k, j) /\ s = Current(t) /\ Owner[s] = c /\ st'[s].out = 0 /\ st'[s].lost = 0
  <2>1. st[s].state # "ACTIVE" /\ At(c) = "streams"
    BY <1>2, StartedOne
  <2>2. InBundle(c, s) = 0
    BY <1>0, <1>2, <2>1 DEF YetInv
  <2>3. InBundle(c, s)' = 0
    <3>1. Count(k, hold'[c], s) = 0
      BY <2>2, BundleIs, CallCounts
    <3> QED BY <3>1, GoingFacts, BundleIs
  <2>4. ASSUME NEW d \in Channels, d # c PROVE InBundle(d, s)' = 0
    <3> SUFFICES ASSUME InBundle(d, s) # 0 PROVE FALSE
      BY <2>4, OthersCount
    <3>1. Has(d, s)
      BY <1>0 DEF PlaceInv
    <3>2. ch[c].state = "ACTIVE"
      BY <1>0, <1>2, <2>4, <3>1 DEF BaseInv, TableInv, Steady
    <3>3. call[t].op = "start"
      BY <1>2, GoingFacts, WorkList DEF ByStarted, Listing, Starting
    <3>4. \A u \in Threads : call[u].c = c => call[u].op \notin {"start", "stop", "delete"}
      BY <1>0, <1>2, <2>4, <3>1 DEF BaseInv, TableInv, Steady
    <3> QED BY <3>3, <3>4, GoingFacts
  <2>5. \A d \in Channels : InBundle(d, s)' = 0
    BY <2>3, <2>4
  <2> QED BY <1>2, <2>5
<1> QED BY <1>1, <1>2, RunsAfter

-----------------------------------------------------------------------------

\* A start that fails has left no superbuf.
LEMMA FailedSilent ==
    ASSUME NEW t, NEW c, NEW k, NEW j, Going(t, c, k, j), ByFailed(t, c, k, j), IsBundle(c)
    PROVE  /\ Silent(ch[c], hold[c]) /\ Current(t) \in ch[c].bundled
           /\ Count(ch[c], hold[c], Current(t)) = 0
<1>0. /\ Owner[Current(t)] = c /\ StarveOK(ch[c], hold[c], call[t]) /\ call[t].pc = "streams"
      /\ At(c) = "streams"
  BY GoingFacts, PassStart DEF ByFailed, Inside
<1>1. /\ Current(t) \in Streams /\ Has(c, Current(t)) /\ st[Current(t)].state # "ACTIVE"
      /\ call[t].i \in DOMAIN call[t].ord /\ call[t].c = c /\ call[t].i \in Nat
  BY <1>0, StartedOne
<1>2. Yet(call[t])
  BY <1>0, <1>1 DEF Yet, Current
<1>3. Silent(ch[c], hold[c])
  BY <1>0, <1>2 DEF StarveOK
<1>4. Current(t) \in ch[c].bundled
  BY <1>0, <1>1 DEF StarveOK, InTableNow, Has
<1>5. InBundle(c, Current(t)) = 0
  BY <1>0, <1>1, GoingFacts DEF Going, FrameInv, YetInv
<1> QED BY <1>3, <1>4, <1>5, BundleIs

LEMMA SilentCall ==
    ASSUME NEW t, NEW c, NEW k, NEW j, Going(t, c, k, j), Silent(ch[c], hold[c]),
           SameFrames(c, k) \/ Noted(c, k) \/ ByCmdJoined(t, c, k, j) \/ ByCbJoined(t, c, k, j)
    PROVE  Silent(k, hold[c]) /\ k.bundled = ch[c].bundled
<1>0. /\ \A i \in DOMAIN ch[c].cb.q : ch[c].cb.q[i].cmd # "SUPER_BUF"
      /\ ch[c].cur = {} /\ hold[c] = NoFrames
  BY DEF Silent
<1>1. CASE SameFrames(c, k)
  BY <1>0, <1>1 DEF SameFrames, Silent
<1>2. CASE Noted(c, k)
  BY <1>0, <1>2 DEF Noted, Posted, Silent
<1>3. CASE ByCmdJoined(t, c, k, j)
  <2>1. ch[c].cb.q \in Seq(CbNodes) /\ [cmd |-> "EXIT"] \in CbNodes
    BY GoingFacts, ChannelQueues DEF CbNodes
  <2>2. k.cur = ch[c].cur /\ k.bundled = ch[c].bundled /\ k.cb.q = Append(ch[c].cb.q, [cmd |-> "EXIT"])
    BY <1>3, CmdJoinedQueues
  <2>3. \A i \in DOMAIN k.cb.q : k.cb.q[i].cmd # "SUPER_BUF"
    <3>1. /\ Len(ch[c].cb.q) \in Nat /\ DOMAIN ch[c].cb.q = 1..Len(ch[c].cb.q)
          /\ DOMAIN k.cb.q = 1..(Len(ch[c].cb.q) + 1)
          /\ \A i \in 1..Len(ch[c].cb.q) : k.cb.q[i] = ch[c].cb.q[i]
          /\ k.cb.q[Len(ch[c].cb.q) + 1] = [cmd |-> "EXIT"]
      BY <2>1, <2>2, AppendIs
    <3>2. \A i \in 1..(Len(ch[c].cb.q) + 1) : i \in 1..Len(ch[c].cb.q) \/ i = Len(ch[c].cb.q) + 1
      BY <3>1
    <3>3. \A i \in 1..Len(ch[c].cb.q) : k.cb.q[i].cmd # "SUPER_BUF"
      BY <1>0, <3>1
    <3>4. k.cb.q[Len(ch[c].cb.q) + 1].cmd # "SUPER_BUF"
      BY <3>1
    <3> QED BY <3>1, <3>2, <3>3, <3>4
  <2> QED BY <1>0, <2>2, <2>3 DEF Silent
<1>4. CASE ByCbJoined(t, c, k, j)
  <2>1. Bare(k) /\ hold[c] = NoFrames /\ k.bundled = ch[c].bundled
    BY <1>4, CbJoinedQueues
  <2>2. DOMAIN <<>> = {}
    OBVIOUS
  <2> QED BY <2>1, <2>2 DEF Bare, Silent
<1> QED BY <1>1, <1>2, <1>3, <1>4

LEMMA StarveElse ==
    ASSUME NEW k, NEW h, NEW j, j.pc \notin {"link", "streams"}, ~Undoes(j)
    PROVE  StarveOK(k, h, j)
BY DEF StarveOK

\* The undoing of a start keeps what the failure left.
LEMMA StarveUndo ==
    ASSUME NEW t, NEW c, NEW k, NEW j, Going(t, c, k, j), IsBundle(c), Inside(t, c, k, j),
           j.ord = call[t].ord, j.i = call[t].i, j.pc \notin {"link", "streams"},
           Undoes(j) => Undoes(call[t]),
           SameFrames(c, k) \/ Noted(c, k) \/ ByCmdJoined(t, c, k, j) \/ ByCbJoined(t, c, k, j)
    PROVE  StarveOK(k, hold[c], Then(k, j))
<1>0. Then(k, j) = j /\ Was(t, c) = call[t]
  BY DEF Inside
<1>1. CASE ~Undoes(j)
  BY <1>0, <1>1, StarveElse
<1>2. CASE Undoes(j)
  <2>1. /\ call[t].ord[call[t].i] \in ch[c].bundled /\ Count(ch[c], hold[c], call[t].ord[call[t].i]) = 0
        /\ Silent(ch[c], hold[c])
    BY <1>0, <1>2, GoingFacts DEF StarveOK
  <2>2. Silent(k, hold[c]) /\ k.bundled = ch[c].bundled
    BY <2>1, SilentCall
  <2>3. call[t].ord[call[t].i] \in Streams /\ hold'[c] = hold[c]
    BY <2>1, GoingFacts, ChannelQueues
  <2>4. Count(k, hold[c], call[t].ord[call[t].i]) = 0
    BY <2>1, <2>3, CallCounts
  <2>5. StarveOK(k, hold[c], j)
    BY <2>2, <2>1, <2>4 DEF StarveOK
  <2> QED BY <1>0, <2>5
<1> QED BY <1>1, <1>2

LEMMA StarveBegun ==
    ASSUME NEW t, NEW c, NEW k, NEW j, Going(t, c, k, j), IsBundle(c), ByBegun(t, c, k, j)
    PROVE  StarveOK(k, hold[c], j)
<1>1. Bare(k) /\ hold[c] = NoFrames /\ k \in ChannelType /\ hold[c] \in [Streams -> Nat]
  BY BegunBare, GoingFacts
<1>2. j.pc = "link" /\ ~Undoes(j)
  BY DEF ByBegun, Goes, Undoes, Undoing, Ending
<1>3. Silent(k, hold[c])
  <2>1. DOMAIN <<>> = {}
    OBVIOUS
  <2> QED BY <1>1, <2>1 DEF Silent, Bare
<1>4. ASSUME NEW s \in Streams PROVE Count(k, hold[c], s) = 0
  <2>1. hold[c][s] = 0
    BY <1>1 DEF NoFrames
  <2> QED BY <1>1, <2>1, BareCounts
<1>5. ASSUME NEW s \in Streams, InTableNow(k, s) PROVE s \in k.bundled
  BY <1>5 DEF ByBegun, SameTable, InTableNow, Own, Links, Has
<1> QED BY <1>2, <1>3, <1>4, <1>5 DEF StarveOK

LEMMA StarveStart ==
    ASSUME NEW t, NEW c, NEW k, NEW j, Going(t, c, k, j), IsBundle(c), ByStart(t, c, k, j)
    PROVE  StarveOK(k, hold[c], Then(k, j))
<1>0. StarveOK(ch[c], hold[c], Was(t, c)) /\ At(c)' = Then(k, j).pc /\ At(c) = Was(t, c).pc
  BY GoingFacts
<1>1. CASE ByBegun(t, c, k, j)
  BY <1>1, PassStart, StarveBegun
<1>2. CASE ByLinked(t, c, k, j)
  <2>1. Inside(t, c, k, j) /\ call[t].pc = "link" /\ j.pc = "streams" /\ k = ch[c]
    BY <1>2, PassStart DEF Inside, ByLinked
  <2>2. /\ \A s \in Streams : InTableNow(k, s) => s \in k.bundled
        /\ Silent(k, hold[c])
    BY <1>0, <2>1 DEF StarveOK, Inside
  <2>3. ~Undoes(j)
    BY <2>1 DEF Undoes, Undoing, Ending
  <2>4. StarveOK(k, hold[c], j)
    BY <2>1, <2>2, <2>3 DEF StarveOK
  <2> QED BY <2>1, <2>4 DEF Inside
<1>3. CASE ByStarted(t, c, k, j)
  <2>1. /\ Inside(t, c, k, j) /\ call[t].pc = "streams" /\ j.pc = "streams" /\ k = ch[c]
        /\ j.ord = call[t].ord /\ j.i = call[t].i + 1 /\ j.c = call[t].c /\ call[t].i \in Nat
        /\ call[t].ord \in Seq(Streams)
    BY <1>3, PassStart, GoingFacts, SteppingFacts DEF Inside, ByStarted, Advances, Goes, CallType
  <2>2. /\ \A s \in Streams : InTableNow(k, s) => s \in k.bundled
        /\ Yet(call[t]) => Silent(k, hold[c])
    BY <1>0, <2>1 DEF StarveOK, Inside
  <2>3. ~Undoes(j)
    BY <2>1 DEF Undoes, Undoing, Ending
  <2>4. Yet(j) => Yet(call[t])
    <3> SUFFICES ASSUME NEW l \in DOMAIN j.ord, l >= j.i, Owner[j.ord[l]] = j.c PROVE Yet(call[t])
      BY DEF Yet
    <3>1. l \in DOMAIN call[t].ord /\ l \in Nat
      BY <2>1
    <3>2. l >= call[t].i
      BY <2>1, <3>1
    <3> QED BY <2>1, <3>1, <3>2 DEF Yet
  <2>5. StarveOK(k, hold[c], j)
    BY <2>1, <2>2, <2>3, <2>4 DEF StarveOK
  <2> QED BY <2>1, <2>5 DEF Inside
<1>4. CASE ByFailed(t, c, k, j)
  <2>1. /\ Inside(t, c, k, j) /\ j.pc = "undo_links" /\ k = ch[c] /\ j.ord = call[t].ord /\ j.i = call[t].i
    BY <1>4, PassStart DEF Inside, ByFailed, Counts
  <2>2. /\ Silent(k, hold[c]) /\ j.ord[j.i] \in k.bundled /\ Count(k, hold[c], j.ord[j.i]) = 0
    BY <1>4, <2>1, FailedSilent DEF Current
  <2>3. StarveOK(k, hold[c], j)
    BY <2>1, <2>2 DEF StarveOK
  <2> QED BY <2>1, <2>3 DEF Inside
<1>5. CASE ByActive(t, c, k, j)
  BY <1>0, <1>5, PassStart, StarveIdle
<1>6. CASE ByUndoLinks(t, c, k, j) \/ ByCleared(t, c, k, j) \/ ByUndone(t, c, k, j)
  <2>1. /\ Inside(t, c, k, j) /\ At(c) \in Undoing /\ At(c)' \in Undoing
    BY <1>6, PassStart DEF Undoing
  <2>2. /\ j.ord = call[t].ord /\ j.i = call[t].i
    BY <1>6 DEF ByUndoLinks, ByUnlinked, ByCleared, ByUndone, Counts
  <2>3. j.pc \notin {"link", "streams"} /\ Undoes(call[t])
    BY <2>1 DEF Inside, Undoes, Undoing
  <2>4. SameFrames(c, k) \/ Noted(c, k) \/ ByCmdJoined(t, c, k, j) \/ ByCbJoined(t, c, k, j)
    <3>1. ~ByZeroed(t, c, k, j)
      BY <2>1, PassSimple DEF Undoing
    <3>2. ~ByBegun(t, c, k, j)
      BY <2>1, PassStart DEF Undoing
    <3> QED BY <3>1, <3>2, QueuesAfter
  <2> QED BY <2>1, <2>2, <2>3, <2>4, StarveUndo
<1> QED BY <1>1, <1>2, <1>3, <1>4, <1>5, <1>6 DEF ByStart

-----------------------------------------------------------------------------

LEMMA StarveStop ==
    ASSUME NEW t, NEW c, NEW k, NEW j, Going(t, c, k, j), IsBundle(c), ByStop(t, c, k, j)
    PROVE  StarveOK(k, hold[c], Then(k, j))
<1>0. At(c)' = Then(k, j).pc
  BY GoingFacts
<1>1. CASE ByStopBegun(t, c, k, j) \/ ByStopped(t, c, k, j) \/ ByStopLinks(t, c, k, j) \/ ByPut(t, c, k, j)
  <2>1. At(c)' \in {"STOPPED"} \cup StoppingAt
    BY <1>1, PassStop DEF StoppingAt
  <2> QED BY <1>0, <2>1, StarveIdle
<1>2. CASE ByReleased(t, c, k, j) \/ ByCmdJoined(t, c, k, j) \/ ByCbJoined(t, c, k, j)
  <2>1. Inside(t, c, k, j) /\ At(c) \in {"threads", "undo_streams"} \cup Ending /\ At(c)' \in Ending
    BY <1>2, PassStop DEF Ending
  <2>2. j.ord = call[t].ord /\ j.i = call[t].i /\ j.op = call[t].op
    BY <1>2 DEF ByReleased, ByCmdJoined, ByCbJoined, Counts, Goes
  <2>3. j.pc \notin {"link", "streams"}
    BY <2>1 DEF Inside, Ending
  <2>4. Undoes(j) => Undoes(call[t])
    <3>1. call[t].pc = "threads" => call[t].op = "stop"
      <4>1. ASSUME call[t].pc = "threads" PROVE call[t].op = "stop"
        <5>1. call[t].pc \in StoppingAt /\ call[t].pc \in Listing
          BY <4>1 DEF StoppingAt, Listing
        <5> QED BY <5>1, GoingFacts, WorkList
      <4> QED BY <4>1
    <3> QED BY <2>1, <2>2, <3>1 DEF Inside, Undoes, Undoing, Ending
  <2>5. SameFrames(c, k) \/ Noted(c, k) \/ ByCmdJoined(t, c, k, j) \/ ByCbJoined(t, c, k, j)
    <3>1. ~ByZeroed(t, c, k, j)
      BY <2>1, PassSimple DEF Ending
    <3>2. ~ByBegun(t, c, k, j)
      BY <2>1, PassStart DEF Ending
    <3> QED BY <3>1, <3>2, QueuesAfter
  <2> QED BY <2>1, <2>2, <2>3, <2>4, <2>5, StarveUndo
<1> QED BY <1>1, <1>2 DEF ByStop

LEMMA StarveSimple ==
    ASSUME NEW t, NEW c, NEW k, NEW j, Going(t, c, k, j), IsBundle(c), BySimple(t, c, k, j)
    PROVE  StarveOK(k, hold[c], Then(k, j))
<1>0. At(c)' = Then(k, j).pc
  BY GoingFacts
<1>1. CASE At(c)' = "undo_copies"
  <2>1. /\ ByAcked(t, c, k, j) /\ At(c) = "undo_ack" /\ Counts(t, j) /\ Inside(t, c, k, j)
    BY <1>1, PassSimple, GoingFacts DEF BySimple, Inside
  <2>2. j.pc \notin {"link", "streams"} /\ Undoes(call[t])
    BY <1>1, <2>1 DEF Inside, Undoes, Undoing
  <2>3. SameFrames(c, k)
    BY <2>1 DEF ByAcked, Acknowledged, SameQueue, SameFrames
  <2> QED BY <2>1, <2>2, <2>3, StarveUndo DEF Counts
<1>2. CASE At(c)' # "undo_copies"
  <2>1. At(c)' \in {"NOTUSED", "STOPPED", "ACTIVE", "flush_ack"} \cup StoppingAt
    BY <1>2, PassSimple DEF BySimple, StoppingAt
  <2> QED BY <1>0, <2>1, StarveIdle
<1> QED BY <1>1, <1>2

LEMMA StarveCall ==
    ASSUME NEW t, NEW c, NEW k, NEW j, Going(t, c, k, j)
    PROVE  StarveInv'
<1> SUFFICES ASSUME NEW d \in Channels, IsBundle(d)'
             PROVE  StarveOK(ch'[d], hold'[d], Job(d)')
  BY DEF StarveInv
<1>1. IsBundle(d) /\ StarveOK(ch[d], hold[d], Job(d))
  BY GoingFacts DEF Going, FrameInv, StarveInv
<1>2. CASE d # c
  BY <1>1, <1>2, GoingFacts
<1>3. CASE d = c
  <2>1. StarveOK(k, hold[c], Then(k, j))
    BY <1>1, <1>3, GoingFacts, StarveSimple, StarveStart, StarveStop
  <2> QED BY <1>3, <2>1, GoingFacts
<1> QED BY <1>2, <1>3

LEMMA HoldCall ==
    ASSUME NEW t, NEW c, NEW k, NEW j, Going(t, c, k, j)
    PROVE  HoldInv'
<1>0. HoldInv /\ hold' = hold /\ c = call[t].c /\ t \in Threads
  BY GoingFacts DEF Going, FrameInv
<1>1. ASSUME NEW d \in Channels, hold[d] # NoFrames PROVE IsBundle(d)' /\ At(d)' \in HoldAt
  <2>1. IsBundle(d) /\ At(d) \in HoldAt
    BY <1>0, <1>1 DEF HoldInv
  <2>2. CASE d # c
    BY <2>1, <2>2, GoingFacts DEF At
  <2>3. CASE d = c
    <3>1. ~ByStopBegun(t, c, k, j)
      BY <1>0, <1>1, <2>3 DEF HoldInv, ByStopBegun
    <3>2. ~ByFailed(t, c, k, j)
      BY <1>1, <2>1, <2>3, FailedSilent DEF Silent
    <3>3. At(c) \in {"ACTIVE", "flush_ack", "streams"}
      BY <2>1, <2>3 DEF HoldAt
    <3>4. At(c)' \in HoldAt
      <4>1. CASE BySimple(t, c, k, j)
        <5>1. ~ByZeroed(t, c, k, j)
          <6>1. ByZeroed(t, c, k, j) => hold[c] = NoFrames
            BY ZeroedBare
          <6> QED BY <1>1, <2>3, <6>1
        <5> QED BY <3>3, <4>1, <5>1, PassSimple DEF BySimple, HoldAt
      <4>2. CASE ByStart(t, c, k, j)
        BY <3>2, <3>3, <4>2, PassStart DEF ByStart, HoldAt
      <4>3. CASE ByStop(t, c, k, j)
        BY <3>1, <3>3, <4>3, PassStop DEF ByStop, HoldAt
      <4> QED BY <4>1, <4>2, <4>3, GoingFacts
    <3> QED BY <2>1, <2>3, <3>4, GoingFacts
  <2> QED BY <2>2, <2>3
<1>2. ASSUME NEW u \in Threads, call'[u].op = "stop" PROVE hold[call'[u].c] = NoFrames
  <2>1. call'[u] = call[u] \/ Ends(call'[u]) \/ (call'[u].op = call[u].op /\ call'[u].c = call[u].c)
    <3>1. call' = [call EXCEPT ![t] = j] /\ call \in [Threads -> CallType]
      BY GoingFacts DEF Stepping, Sound, Step, BaseInv, TypeInv
    <3>2. Ends(j) \/ (j.op = call[t].op /\ j.c = call[t].c)
      BY GoingFacts DEF Stepping, Sound, Fits, Goes
    <3> QED BY <1>0, <3>1, <3>2
  <2>2. ~Ends(call'[u])
    BY <1>2, NoCallIs DEF Ends
  <2>3. call[u].op = "stop" /\ call'[u].c = call[u].c
    BY <1>2, <2>1, <2>2
  <2> QED BY <1>0, <2>3 DEF HoldInv
<1> QED BY <1>0, <1>1, <1>2 DEF HoldInv

-----------------------------------------------------------------------------
(* The flushes, after a step of a call *)

Waiting == {"flush_ack", "undo_ack", "ack"}
Over == {"undo_copies", "undo_streams", "threads"} \cup Ending

LEMMA FlushParts ==
    ASSUME NEW k, NEW c, NEW at, FlushOK(k, c, at)
    PROVE  /\ k.ack \in 0..1
           /\ \A i, l \in Flushes(k) : i = l
           /\ k.ack = 1 => Flushes(k) = {}
           /\ at \notin Waiting => Flushes(k) = {} /\ k.ack = 0
           /\ at \in Over => \A s \in Streams : Owner[s] # c => DataOf(k, s) = {} /\ k.que[s] = 0
           /\ at \in {"undo_ack", "ack"} => \A s \in Streams : Owner[s] # c =>
                 (\A i \in DataOf(k, s) : \E l \in Flushes(k) : i < l) /\ (k.que[s] > 0 => Flushes(k) # {})
<1>1. k.ack \in 0..1 /\ (k.ack = 1 => Flushes(k) = {}) /\ \A i, l \in Flushes(k) : i = l
  BY DEF FlushOK
<1>2. ASSUME at \notin Waiting PROVE Flushes(k) = {} /\ k.ack = 0
  <2>1. ~(Flushes(k) # {} \/ k.ack = 1)
    BY <1>2 DEF FlushOK, Waiting
  <2> QED BY <1>1, <2>1
<1>3. at \in Over => \A s \in Streams : Owner[s] # c => DataOf(k, s) = {} /\ k.que[s] = 0
  BY DEF FlushOK, Over
<1>4. at \in {"undo_ack", "ack"} => \A s \in Streams : Owner[s] # c =>
          (\A i \in DataOf(k, s) : \E l \in Flushes(k) : i < l) /\ (k.que[s] > 0 => Flushes(k) # {})
  BY DEF FlushOK
<1> QED BY <1>1, <1>2, <1>3, <1>4

\* Outside the waits, there is no flush.
LEMMA NoFlush ==
    ASSUME NEW k, NEW c, NEW next, Flushes(k) = {}, k.ack = 0, next \notin Waiting,
           next \in Over => \A s \in Streams : Owner[s] # c => DataOf(k, s) = {} /\ k.que[s] = 0
    PROVE  FlushOK(k, c, next)
BY DEF FlushOK, Waiting, Over

LEMMA FlushMove ==
    ASSUME NEW c, NEW k, NEW m, NEW at, NEW next, FlushOK(k, c, at), m.cmd.q = k.cmd.q, m.ack = k.ack,
           m.que = k.que, at \notin Waiting, next \notin Waiting, next \in Over => at \in Over
    PROVE  FlushOK(m, c, next)
<1>1. Flushes(k) = {} /\ k.ack = 0
      /\ (at \in Over => \A s \in Streams : Owner[s] # c => DataOf(k, s) = {} /\ k.que[s] = 0)
  BY FlushParts
<1>2. Flushes(m) = Flushes(k) /\ \A s : DataOf(m, s) = DataOf(k, s)
  BY DEF Flushes, DataOf
<1> QED BY <1>1, <1>2, NoFlush

LEMMA FlushBare ==
    ASSUME NEW c, NEW k, Bare(k), k.ack = 0, NEW next, next \notin Waiting
    PROVE  FlushOK(k, c, next)
<1>1. DOMAIN <<>> = {}
  OBVIOUS
<1>2. Flushes(k) = {} /\ \A s : DataOf(k, s) = {}
  BY <1>1 DEF Bare, Flushes, DataOf
<1>3. \A s \in Streams : k.que[s] = 0
  BY DEF Bare, NoFrames
<1> QED BY <1>2, <1>3, NoFlush

\* Another command is queued.
LEMMA FlushPost ==
    ASSUME NEW c \in Channels, ch[c] \in ChannelType, NEW k, NEW node \in CmdNodes, Posted(c, node, k),
           node.cmd \in {"REQ_DATA_CB", "EXIT"}, NEW at, NEW next, FlushOK(ch[c], c, at),
           at \notin Waiting, next \notin Waiting, next \in Over => at \in Over
    PROVE  FlushOK(k, c, next)
<1>1. Flushes(ch[c]) = {} /\ ch[c].ack = 0
      /\ (at \in Over => \A s \in Streams : Owner[s] # c => DataOf(ch[c], s) = {} /\ ch[c].que[s] = 0)
  BY FlushParts
<1>2. k.cmd.q = Append(ch[c].cmd.q, node) /\ k.ack = ch[c].ack /\ k.que = ch[c].que
  BY DEF Posted
<1>3. /\ \A i \in Flushes(k) : i \in Flushes(ch[c])
      /\ \A s : \A i \in DataOf(k, s) : i \in DataOf(ch[c], s) \/ s \in FramesIn(node)
  BY <1>2, AppendSets
<1>4. FramesIn(node) = {}
  BY FramesAre
<1>5. Flushes(k) = {} /\ \A s : DataOf(ch[c], s) = {} => DataOf(k, s) = {}
  BY <1>1, <1>3, <1>4
<1> QED BY <1>1, <1>2, <1>5, NoFlush

\* A flush is queued behind all frames.
LEMMA FlushBegins ==
    ASSUME NEW c \in Channels, ch[c] \in ChannelType, NEW k, NEW node \in CmdNodes, Posted(c, node, k),
           node.cmd = "FLUSH_QUEUE", NEW at, NEW next, FlushOK(ch[c], c, at),
           at \notin Waiting, next \in Waiting
    PROVE  FlushOK(k, c, next)
<1>1. Flushes(ch[c]) = {} /\ ch[c].ack = 0
  BY FlushParts
<1>2. k.cmd.q = Append(ch[c].cmd.q, node) /\ k.ack = ch[c].ack /\ k.que = ch[c].que
  BY DEF Posted
<1> DEFINE last == Len(ch[c].cmd.q) + 1
<1>0. ch[c].cmd.q \in Seq(CmdNodes) /\ Len(ch[c].cmd.q) \in Nat
  BY ChannelQueues
<1>3. /\ \A i \in Flushes(k) : i = last
      /\ last \in Flushes(k)
      /\ \A s : \A i \in DataOf(ch[c], s) : i \in Nat /\ i < last
      /\ \A s : \A i \in DataOf(k, s) : i \in DataOf(ch[c], s) \/ s \in FramesIn(node)
  <2>1. /\ \A i \in Flushes(k) : i \in Flushes(ch[c]) \/ i = last
        /\ last \in Flushes(k)
    BY <1>0, <1>2, AppendSets
  <2>2. \A s : \A i \in DataOf(ch[c], s) : i \in Nat /\ i < last
    <3>1. \A i \in 1..Len(ch[c].cmd.q) : i \in Nat /\ i < last
      BY <1>0
    <3>2. \A s : \A i \in DataOf(ch[c], s) : i \in 1..Len(ch[c].cmd.q)
      BY <1>0 DEF DataOf
    <3> HIDE DEF last
    <3> QED BY <3>1, <3>2
  <2>3. \A s : \A i \in DataOf(k, s) : i \in DataOf(ch[c], s) \/ (i = last /\ s \in FramesIn(node))
    BY <1>0, <1>2, AppendSets
  <2> HIDE DEF last
  <2> QED BY <1>1, <2>1, <2>2, <2>3
<1>4. FramesIn(node) = {}
  BY FramesAre
<1> HIDE DEF last
<1>5. \A s : \A i \in DataOf(k, s) : \E l \in Flushes(k) : i < l
  BY <1>3, <1>4
<1>6. next \notin Over /\ next \in {"flush_ack", "undo_ack", "ack"}
  BY DEF Waiting, Over, Ending
<1>7. k.ack = 0 /\ Flushes(k) # {} /\ \A i, l \in Flushes(k) : i = l
  BY <1>1, <1>2, <1>3
<1> QED BY <1>5, <1>6, <1>7 DEF FlushOK, Over

\* The flush is done: nothing is left in front of it.
LEMMA FlushEnds ==
    ASSUME NEW c, ch[c] \in ChannelType, NEW k, Acknowledged(c, k), NEW at, NEW next,
           FlushOK(ch[c], c, at), next \notin Waiting,
           next \in Over => at \in {"undo_ack", "ack"}
    PROVE  FlushOK(k, c, next)
<1>1. ch[c].ack \in 0..1 /\ ch[c].ack > 0 /\ k.ack = ch[c].ack - 1
      /\ k.cmd = ch[c].cmd /\ k.que = ch[c].que /\ (ch[c].ack = 1 => Flushes(ch[c]) = {})
  BY FlushParts DEF Acknowledged, SameQueue
<1>2. k.ack = 0 /\ ch[c].ack = 1
  BY <1>1
<1>3. Flushes(ch[c]) = {} /\ Flushes(k) = Flushes(ch[c]) /\ \A s : DataOf(k, s) = DataOf(ch[c], s)
  BY <1>1, <1>2 DEF Flushes, DataOf
<1>4. ASSUME next \in Over, NEW s \in Streams, Owner[s] # c PROVE DataOf(k, s) = {} /\ k.que[s] = 0
  <2>1. (\A i \in DataOf(ch[c], s) : \E l \in Flushes(ch[c]) : i < l)
        /\ (ch[c].que[s] > 0 => Flushes(ch[c]) # {})
    BY <1>4, FlushParts
  <2>2. ch[c].que[s] \in Nat
    BY ChannelQueues
  <2>3. DataOf(ch[c], s) = {} /\ ~(ch[c].que[s] > 0)
    BY <1>3, <2>1
  <2> QED BY <1>1, <1>3, <2>2, <2>3
<1> QED BY <1>2, <1>3, <1>4, NoFlush

-----------------------------------------------------------------------------

\* Without links there are only frames of the channel's own streams.
LEMMA NoLinkNoFrame ==
    ASSUME NEW t, NEW c, NEW k, NEW j, Going(t, c, k, j), Links(c) = {} \/ ~IsBundle(c),
           NEW s \in Streams, Owner[s] # c
    PROVE  DataOf(ch[c], s) = {} /\ ch[c].que[s] = 0
<1>1. c \in Channels /\ ch[c] \in ChannelType /\ hold[c] \in [Streams -> Nat] /\ PlaceInv /\ HoldInv
      /\ BaseInv /\ AgreeInv
  BY GoingFacts DEF Going, FrameInv
<1>2. CASE ~IsBundle(c)
  BY <1>1, <1>2, Quiet
<1>3. CASE Links(c) = {}
  <2>1. ~Has(c, s)
    BY <1>3 DEF Links
  <2>2. InBundle(c, s) = 0
    BY <1>1, <2>1 DEF PlaceInv
  <2>3. Count(ch[c], hold[c], s) = 0
    BY <2>2, BundleIs
  <2>4. CountNodes(ch[c].cmd.q, s) = 0 /\ ch[c].que[s] = 0
    BY <1>1, <2>3, CountTyped
  <2> QED BY <1>1, <2>4, DataNone
<1> QED BY <1>2, <1>3

LEMMA FlushStay ==
    ASSUME NEW t, NEW c, NEW k, NEW j, Going(t, c, k, j), SameFrames(c, k), k.ack = ch[c].ack,
           At(c) \notin Waiting, At(c)' \notin Waiting, At(c)' \in Over => At(c) \in Over
    PROVE  FlushOK(k, c, At(c)')
<1>1. FlushOK(ch[c], c, At(c)) /\ k.cmd.q = ch[c].cmd.q /\ k.que = ch[c].que
  BY GoingFacts DEF SameFrames
<1> DEFINE next == At(c)'
<1> HIDE DEF next
<1>2. next \notin Waiting /\ (next \in Over => At(c) \in Over)
  BY DEF next
<1>3. FlushOK(k, c, next)
  BY <1>1, <1>2, FlushMove
<1> QED BY <1>3 DEF next

LEMMA FlushSimple ==
    ASSUME NEW t, NEW c, NEW k, NEW j, Going(t, c, k, j), BySimple(t, c, k, j), NEW next, next = At(c)'
    PROVE  FlushOK(k, c, next)
<1>0. c \in Channels /\ ch[c] \in ChannelType /\ FlushOK(ch[c], c, At(c))
  BY GoingFacts
<1>1. CASE ByIgnored(t, c, k, j)
  <2>1. next = At(c) /\ k = ch[c]
    BY <1>1, PassSimple DEF ByIgnored
  <2> QED BY <1>0, <2>1
<1>2. CASE ByAdded(t, c, k, j) \/ ByRemoved(t, c, k, j) \/ ByDisposed(t, c, k, j)
  <2>1. At(c) = "STOPPED" /\ next \in {"STOPPED", "NOTUSED"} /\ SameThreads(c, k) /\ SameQueue(c, k)
    BY <1>2, PassSimple DEF ByAdded, ByRemoved, ByDisposed
  <2>2. SameFrames(c, k) /\ k.ack = ch[c].ack
    BY <2>1 DEF SameThreads, SameQueue, SameFrames
  <2> QED BY <2>1, <2>2, FlushStay DEF Waiting, Over, Ending
<1>3. CASE ByZeroed(t, c, k, j)
  <2>1. Bare(k) /\ k.ack = 0 /\ next \notin Waiting
    BY <1>3, PassSimple, ZeroedBare DEF Waiting
  <2> QED BY <2>1, FlushBare
<1>4. CASE ByRequested(t, c, k, j)
  <2>1. PICK n \in 0..1 : Posted(c, [cmd |-> "REQ_DATA_CB", n |-> n], k)
    BY <1>4 DEF ByRequested
  <2> DEFINE node == [cmd |-> "REQ_DATA_CB", n |-> n]
  <2>2. node \in CmdNodes /\ node.cmd \in {"REQ_DATA_CB", "EXIT"} /\ Posted(c, node, k)
    BY <2>1 DEF CmdNodes
  <2> HIDE DEF node
  <2>3. At(c) = "ACTIVE" /\ next = "ACTIVE"
    BY <1>4, PassSimple
  <2>4. At(c) \notin Waiting /\ next \notin Waiting /\ next \notin Over
    BY <2>3 DEF Waiting, Over, Ending
  <2> QED BY <1>0, <2>2, <2>4, FlushPost
<1>5. CASE ByFlushed(t, c, k, j)
  <2> DEFINE node == [cmd |-> "FLUSH_QUEUE", s |-> None]
  <2>1. node \in CmdNodes /\ node.cmd = "FLUSH_QUEUE" /\ Posted(c, node, k)
    BY <1>5 DEF CmdNodes, ByFlushed
  <2> HIDE DEF node
  <2>2. At(c) \notin Waiting /\ next \in Waiting
    BY <1>5, PassSimple DEF Waiting
  <2> QED BY <1>0, <2>1, <2>2, FlushBegins
<1>6. CASE ByAcked(t, c, k, j)
  <2>1. \/ At(c) = "flush_ack" /\ next = "ACTIVE"
        \/ At(c) = "undo_ack" /\ next = "undo_copies"
        \/ At(c) = "ack" /\ next = "threads"
    BY <1>6, PassSimple
  <2>2. next \notin Waiting /\ (next \in Over => At(c) \in {"undo_ack", "ack"})
    BY <2>1 DEF Waiting, Over, Ending
  <2>3. Acknowledged(c, k)
    BY <1>6 DEF ByAcked
  <2> QED BY <1>0, <2>2, <2>3, FlushEnds
<1> QED BY <1>1, <1>2, <1>3, <1>4, <1>5, <1>6 DEF BySimple

LEMMA FlushUnlink ==
    ASSUME NEW t, NEW c, NEW k, NEW j, Going(t, c, k, j), NEW pc, NEW after, ByUnlinked(t, c, k, j, pc, after),
           Inside(t, c, k, j), At(c) \in {"undo_links", "off"}, pc \in Waiting, after \in Over,
           NEW next, next = At(c)'
    PROVE  FlushOK(k, c, next)
<1>0. c \in Channels /\ ch[c] \in ChannelType /\ FlushOK(ch[c], c, At(c)) /\ At(c) \notin Waiting
  BY GoingFacts DEF Waiting
<1>1. CASE \E s \in Streams : Posted(c, [cmd |-> "FLUSH_QUEUE", s |-> s], k) /\ Goes(t, j, pc)
  <2>1. PICK s \in Streams : Posted(c, [cmd |-> "FLUSH_QUEUE", s |-> s], k) /\ Goes(t, j, pc)
    BY <1>1
  <2> DEFINE node == [cmd |-> "FLUSH_QUEUE", s |-> s]
  <2>2. node \in CmdNodes /\ node.cmd = "FLUSH_QUEUE" /\ Posted(c, node, k)
    BY <2>1 DEF CmdNodes
  <2> HIDE DEF node
  <2>3. next \in Waiting
    BY <2>1 DEF Inside, Goes
  <2> QED BY <1>0, <2>2, <2>3, FlushBegins
<1>2. CASE (Links(c) = {} \/ ~IsBundle(c)) /\ Goes(t, j, after) /\ k = ch[c]
  <2>1. Flushes(k) = {} /\ k.ack = 0
    BY <1>0, <1>2, FlushParts
  <2>2. \A s \in Streams : Owner[s] # c => DataOf(k, s) = {} /\ k.que[s] = 0
    BY <1>2, NoLinkNoFrame
  <2>3. next \in Over
    BY <1>2 DEF Inside, Goes
  <2>4. next \notin Waiting
    BY <2>3 DEF Over, Waiting, Ending
  <2> QED BY <2>1, <2>2, <2>4, NoFlush
<1> QED BY <1>1, <1>2 DEF ByUnlinked

LEMMA FlushStart ==
    ASSUME NEW t, NEW c, NEW k, NEW j, Going(t, c, k, j), ByStart(t, c, k, j), NEW next, next = At(c)'
    PROVE  FlushOK(k, c, next)
<1>1. CASE IsBundle(c) /\ ByBegun(t, c, k, j)
  <2>1. Bare(k) /\ k.ack = 0 /\ next \notin Waiting
    BY <1>1, PassStart, BegunBare DEF Waiting
  <2> QED BY <2>1, FlushBare
<1>2. CASE ~IsBundle(c) /\ ByBegun(t, c, k, j)
  <2>1. At(c) = "STOPPED" /\ next = "link" /\ SameThreads(c, k) /\ SameQueue(c, k)
    BY <1>2, PassStart DEF ByBegun
  <2>2. SameFrames(c, k) /\ k.ack = ch[c].ack
    BY <2>1 DEF SameThreads, SameQueue, SameFrames
  <2> QED BY <2>1, <2>2, FlushStay DEF Waiting, Over, Ending
<1>3. CASE ByLinked(t, c, k, j) \/ ByStarted(t, c, k, j) \/ ByFailed(t, c, k, j) \/ ByUndone(t, c, k, j)
  <2>1. /\ At(c) \in {"link", "streams", "undo_streams"} /\ next \in {"streams", "undo_links", "undo_streams"}
        /\ next = "undo_streams" => At(c) = "undo_streams"
    BY <1>3, PassStart
  <2>2. k = ch[c]
    BY <1>3 DEF ByLinked, ByStarted, ByFailed, ByUndone
  <2> QED BY <2>1, <2>2, FlushStay DEF SameFrames, Waiting, Over, Ending
<1>4. CASE ByActive(t, c, k, j) \/ ByCleared(t, c, k, j)
  <2>1. At(c) \in {"streams", "undo_copies"} /\ next \in {"ACTIVE", "undo_streams"}
        /\ (next = "undo_streams" => At(c) = "undo_copies")
    BY <1>4, PassStart
  <2>2. SameFrames(c, k) /\ k.ack = ch[c].ack
    BY <1>4 DEF ByActive, ByCleared, SameThreads, SameQueue, SameFrames
  <2> QED BY <2>1, <2>2, FlushStay DEF Waiting, Over, Ending
<1>5. CASE ByUndoLinks(t, c, k, j)
  <2>1. Inside(t, c, k, j) /\ At(c) = "undo_links" /\ ByUnlinked(t, c, k, j, "undo_ack", "undo_copies")
    BY <1>5, PassStart DEF ByUndoLinks
  <2>2. "undo_ack" \in Waiting /\ "undo_copies" \in Over
    BY DEF Waiting, Over
  <2> QED BY <2>1, <2>2, FlushUnlink
<1> QED BY <1>1, <1>2, <1>3, <1>4, <1>5 DEF ByStart

LEMMA FlushStop ==
    ASSUME NEW t, NEW c, NEW k, NEW j, Going(t, c, k, j), ByStop(t, c, k, j), NEW next, next = At(c)'
    PROVE  FlushOK(k, c, next)
<1>0. c \in Channels /\ ch[c] \in ChannelType /\ FlushOK(ch[c], c, At(c))
  BY GoingFacts
<1>1. CASE ByStopBegun(t, c, k, j) \/ ByStopped(t, c, k, j)
  <2>1. At(c) \in {"ACTIVE", "off"} /\ next = "off" /\ k = ch[c]
    BY <1>1, PassStop DEF ByStopBegun, ByStopped
  <2> QED BY <2>1, FlushStay DEF SameFrames, Waiting, Over, Ending
<1>2. CASE ByStopLinks(t, c, k, j)
  <2>1. Inside(t, c, k, j) /\ At(c) = "off" /\ ByUnlinked(t, c, k, j, "ack", "threads")
    BY <1>2, PassStop DEF ByStopLinks
  <2>2. "ack" \in Waiting /\ "threads" \in Over
    BY DEF Waiting, Over
  <2> QED BY <2>1, <2>2, FlushUnlink
<1>3. CASE ByPut(t, c, k, j)
  <2>1. At(c) = "put" /\ next = "STOPPED"
    BY <1>3, PassStop
  <2>2. SameFrames(c, k) /\ k.ack = ch[c].ack
    BY <1>3 DEF ByPut, SameThreads, SameQueue, SameFrames
  <2> QED BY <2>1, <2>2, FlushStay DEF Waiting, Over, Ending
<1>4. CASE ByReleased(t, c, k, j)
  <2>1. /\ At(c) \notin Waiting /\ next \notin Waiting /\ At(c) \in Over /\ next \in Over
    BY <1>4, PassStop DEF Waiting, Over, Ending
  <2>2. CASE k = ch[c]
    BY <2>1, <2>2, FlushStay DEF SameFrames
  <2>3. CASE Posted(c, [cmd |-> "EXIT"], k)
    <3> DEFINE node == [cmd |-> "EXIT"]
    <3>1. node \in CmdNodes /\ node.cmd \in {"REQ_DATA_CB", "EXIT"} /\ Posted(c, node, k)
      BY <2>3 DEF CmdNodes
    <3> HIDE DEF node
    <3> QED BY <1>0, <2>1, <3>1, FlushPost
  <2> QED BY <1>4, <2>2, <2>3 DEF ByReleased
<1>5. CASE ByCmdJoined(t, c, k, j)
  <2>1. /\ At(c) = "cmd_join" /\ next = "cb_join" /\ k.cmd.q = ch[c].cmd.q /\ k.que = ch[c].que /\ k.ack = ch[c].ack
    BY <1>5, PassStop, CmdJoinedQueues
  <2>2. At(c) \notin Waiting /\ next \notin Waiting /\ At(c) \in Over
    BY <2>1 DEF Waiting, Over, Ending
  <2> QED BY <1>0, <2>1, <2>2, FlushMove
<1>6. CASE ByCbJoined(t, c, k, j)
  <2>1. At(c) = "cb_join" /\ next = "put" /\ Bare(k) /\ k.ack = ch[c].ack
    BY <1>6, PassStop, CbJoinedQueues
  <2>2. At(c) \notin Waiting /\ next \notin Waiting
    BY <2>1 DEF Waiting
  <2>3. ch[c].ack = 0
    BY <1>0, <2>2, FlushParts
  <2> QED BY <2>1, <2>2, <2>3, FlushBare
<1> QED BY <1>1, <1>2, <1>3, <1>4, <1>5, <1>6 DEF ByStop

LEMMA FlushThere ==
    ASSUME NEW t, NEW c, NEW k, NEW j, Going(t, c, k, j), NEW next, next = At(c)'
    PROVE  FlushOK(k, c, next)
<1>1. BySimple(t, c, k, j) \/ ByStart(t, c, k, j) \/ ByStop(t, c, k, j)
  BY GoingFacts
<1>2. CASE BySimple(t, c, k, j)
  BY <1>2, FlushSimple
<1>3. CASE ByStart(t, c, k, j)
  BY <1>3, FlushStart
<1>4. CASE ByStop(t, c, k, j)
  BY <1>4, FlushStop
<1> QED BY <1>1, <1>2, <1>3, <1>4

LEMMA FlushGoes ==
    ASSUME NEW t, NEW c, NEW k, NEW j, Going(t, c, k, j)
    PROVE  FlushInv'
<1> DEFINE next == Then(k, j).pc
<1>1. next = At(c)' /\ c \in Channels /\ ch'[c] = k
      /\ \A d \in Channels \ {c} : ch'[d] = ch[d] /\ Job(d)' = Job(d)
  BY GoingFacts
<1> HIDE DEF next
<1>2. FlushOK(k, c, next)
  BY <1>1, FlushThere
<1>3. FlushInv
  BY DEF Going, FrameInv
<1>4. ASSUME NEW d \in Channels PROVE FlushOK(ch'[d], d, At(d)')
  <2>1. CASE d = c
    BY <1>1, <1>2, <2>1
  <2>2. CASE d # c
    <3>1. ch'[d] = ch[d] /\ At(d)' = At(d) /\ FlushOK(ch[d], d, At(d))
      BY <1>1, <1>3, <2>2 DEF At, FlushInv
    <3> QED BY <3>1
  <2> QED BY <2>1, <2>2
<1> QED BY <1>4 DEF FlushInv, FlushOK, Flushes, DataOf

-----------------------------------------------------------------------------
(* The frames, after any step *)

LEMMA FrameCall ==
    ASSUME NEW t, NEW c, NEW k, NEW j, Going(t, c, k, j)
    PROVE  FrameInv'
BY FlushGoes, StarveCall, HoldCall, PlaceCall, YetCall, CountCall DEF FrameInv

LEMMA FrameWork ==
    ASSUME NEW c, NEW k, Working(c, k), FrameInv
    PROVE  FrameInv'
<1>1. FlushInv /\ StarveInv /\ HoldInv /\ PlaceInv /\ YetInv /\ CountInv
  BY DEF FrameInv
<1>2. FlushInv' /\ StarveInv' /\ HoldInv'
  BY <1>1, FlushWork, StarveWork, HoldWork
<1>3. PlaceInv' /\ YetInv' /\ CountInv'
  BY <1>1, PlaceWork, YetWork, CountWork
<1> QED BY <1>2, <1>3 DEF FrameInv

\* Nothing but the calls that wait changes, and none of them wants to stop a channel whose
\* frames the client has.
LEMMA FrameStay ==
    ASSUME FrameInv, ch' = ch, st' = st, scene' = scene, hold' = hold,
           \A c \in Channels : Job(c)' = Job(c),
           \A t \in Threads : call'[t].op = "stop" => hold[call'[t].c] = NoFrames
    PROVE  FrameInv'
<1>1. \A c \in Channels : At(c)' = At(c)
  BY DEF At
<1>2. FlushInv'
  BY <1>1 DEF FrameInv, FlushInv, FlushOK, Flushes, DataOf
<1>3. StarveInv'
  <2>1. ASSUME NEW c \in Channels, IsBundle(c)' PROVE StarveOK(ch'[c], hold'[c], Job(c)')
    BY <2>1 DEF FrameInv, StarveInv, IsBundle
  <2> QED BY <2>1 DEF StarveInv
<1>4. HoldInv'
  BY <1>1 DEF FrameInv, HoldInv, IsBundle
<1>5. \A c \in Channels : Feeds(c)' = Feeds(c)
  BY DEF Feeds, IsBundle
<1>6. \A c \in Channels, s \in Streams : InBundle(c, s)' = InBundle(c, s) /\ (Has(c, s)' <=> Has(c, s))
  BY DEF InBundle, Has
<1>7. PlaceInv'
  BY <1>5, <1>6 DEF FrameInv, PlaceInv
<1>8. YetInv'
  BY <1>1, <1>6 DEF FrameInv, YetInv
<1>9. CountInv'
  BY <1>5, <1>6 DEF FrameInv, CountInv
<1> QED BY <1>2, <1>3, <1>4, <1>7, <1>8, <1>9 DEF FrameInv

LEMMA FrameEnter ==
    ASSUME BaseInv, BaseInv', FrameInv, NEW t \in Threads, NEW op \in Ops, NEW c \in Channels,
           NEW s \in Streams \cup {None}, NEW j, Entered(t, op, c, s, j)
    PROVE  FrameInv'
<1>1. /\ ch' = ch /\ st' = st /\ scene' = scene /\ hold' = hold
      /\ j.op = op /\ j.c = c /\ Polite(op, c, s)
      /\ call'[t] = j /\ \A u \in Threads \ {t} : call'[u] = call[u]
  BY DEF BaseInv, TypeInv, Entered
<1>2. op = "stop" => hold[c] = NoFrames
  BY <1>1 DEF Polite
<1>3. ASSUME NEW u \in Threads, call'[u].op = "stop" PROVE hold[call'[u].c] = NoFrames
  <2>1. CASE u = t
    BY <1>1, <1>2, <1>3, <2>1
  <2>2. CASE u # t
    BY <1>1, <1>3, <2>2 DEF FrameInv, HoldInv
  <2> QED BY <2>1, <2>2
<1>4. \A d \in Channels : Job(d)' = Job(d)
  BY JobEnter
<1> QED BY <1>1, <1>3, <1>4, FrameStay

LEMMA FrameStep ==
    ASSUME BaseInv, AgreeInv, FrameInv, Orderly, Steps
    PROVE  FrameInv'
<1>0. BaseInv'
  BY BaseStep
<1>1. ASSUME NEW t \in Threads, NEW op \in Ops, NEW c \in Channels, NEW s \in Streams \cup {None},
             NEW j \in CallType, Entered(t, op, c, s, j)
      PROVE  FrameInv'
  BY <1>0, <1>1, FrameEnter
<1>2. ASSUME NEW t \in Threads, Does(t) PROVE FrameInv'
  <2>1. PICK k, j : Sound(t, k, j) /\ By(t, k, j)
    BY <1>2 DEF Does
  <2>2. PICK c : c = call[t].c
    OBVIOUS
  <2>3. Going(t, c, k, j)
    BY <2>1, <2>2 DEF Going, Stepping
  <2> QED BY <2>3, FrameCall
<1>3. ASSUME NEW c \in Channels, Works(c) PROVE FrameInv'
  <2>1. PICK k : Work(c, k) /\ ByWork(c, k)
    BY <1>3 DEF Works
  <2>2. Working(c, k)
    BY <1>0, <2>1 DEF Working
  <2> QED BY <2>2, FrameWork
<1>4. CASE UNCHANGED vars
  <2>1. ch' = ch /\ st' = st /\ scene' = scene /\ call' = call /\ hold' = hold
    BY <1>4 DEF vars
  <2>2. \A d \in Channels : Job(d)' = Job(d)
    BY <1>0, <2>1, JobSame DEF In, InChannel
  <2>3. \A t \in Threads : call'[t].op = "stop" => hold[call'[t].c] = NoFrames
    BY <2>1 DEF FrameInv, HoldInv
  <2> QED BY <2>1, <2>2, <2>3, FrameStay
<1> QED BY <1>1, <1>2, <1>3, <1>4 DEF Steps

LEMMA FrameInit ==
    ASSUME Init
    PROVE  FrameInv
<1>1. BaseInv /\ AgreeInv
  BY BaseInit, AgreeInit
<1>2. /\ \A c \in Channels : ch[c] = NewChannel /\ hold[c] = NoFrames
      /\ \A s \in Streams : st[s].state = "NOTUSED"
      /\ \A t \in Threads : call[t] = NoCall
  BY DEF Init
<1>3. HoldInv
  BY <1>2, NoCallIs DEF HoldInv
<1>4. \A c \in Channels : At(c) = "NOTUSED"
  <2>1. \A c \in Channels : ChFree(c)
    BY <1>2, NoCallIs DEF ChFree, InChannel
  <2> QED BY <1>1, <1>2, <2>1, JobIs, IdleIs DEF At, NewChannel
<1>5. ASSUME NEW c \in Channels
      PROVE  /\ ch[c].cmd.q = <<>> /\ ch[c].que = NoFrames /\ ch[c].ack = 0
             /\ \A s \in Streams : Count(ch[c], hold[c], s) = 0 /\ DataOf(ch[c], s) = {} /\ ch[c].que[s] = 0
  <2>1. ch[c].cmd.q = <<>> /\ ch[c].que = NoFrames /\ ch[c].ack = 0
    BY <1>2 DEF NewChannel, Thread
  <2> QED BY <1>1, <1>3, <1>4, <2>1, Quiet
<1>6. FlushInv
  <2>1. ASSUME NEW c \in Channels PROVE FlushOK(ch[c], c, At(c))
    <3>1. Flushes(ch[c]) = {}
      BY <1>5 DEF Flushes
    <3> QED BY <1>4, <1>5, <3>1 DEF FlushOK, Ending
  <2> QED BY <2>1 DEF FlushInv
<1>7. StarveInv
  <2>1. ASSUME NEW c \in Channels PROVE StarveOK(ch[c], hold[c], Job(c))
    BY <1>4 DEF StarveOK, At, Undoes, Undoing, Ending
  <2> QED BY <2>1 DEF StarveInv
<1>8. \A c \in Channels, s \in Streams : InBundle(c, s) = 0
  BY <1>5, BundleIs
<1>9. PlaceInv /\ YetInv /\ CountInv
  BY <1>2, <1>8 DEF PlaceInv, YetInv, CountInv
<1> QED BY <1>3, <1>6, <1>7, <1>9 DEF FrameInv

-----------------------------------------------------------------------------

\* A stream that another channel links runs.
LEMMA SteadyRuns ==
    ASSUME BaseInv, AgreeInv, NEW s \in Streams, Steady(s)
    PROVE  st[s].state = "ACTIVE"
<1> DEFINE c == Owner[s]
<1>1. /\ c \in Channels /\ ch[c].state = "ACTIVE" /\ Has(c, s)
      /\ \A t \in Threads : call[t].c = c => call[t].op \notin {"start", "stop", "delete"}
  BY ChannelConstantsOK DEF Steady
<1>2. st[s].state \in States(Job(c), s)
  BY <1>1 DEF AgreeInv, StateInv
<1>3. At(c) \in {"ACTIVE", "flush_ack"}
  <2>1. CASE ChFree(c)
    BY <1>1, <2>1, JobIs, IdleIs DEF At
  <2>2. CASE ~ChFree(c)
    <3>1. PICK t \in Threads : In(t, c)
      BY <2>2 DEF ChFree, In
    <3>2. call[t].c = c /\ InChannel(t) /\ At(c) = call[t].pc
      BY <1>1, <3>1, JobIs DEF At, In
    <3>3. call[t].op \notin {"none", "start", "stop", "delete"}
      BY <1>1, <3>2, NoCallIs DEF InChannel, BaseInv, TypeInv, CallInv
    <3>4. call[t].pc \in Places(call[t].op) /\ call[t].pc # "ch_wait"
      BY <3>2, <3>3 DEF InChannel, BaseInv, TypeInv, CallInv
    <3> QED BY <3>2, <3>3, <3>4 DEF Places
  <2> QED BY <2>1, <2>2
<1> HIDE DEF c
<1> QED BY <1>2, <1>3, StatesAt DEF At

\* A stream whose buffers are given back has no frame anywhere.
LEMMA NoneLeft ==
    ASSUME BaseInv, AgreeInv, FrameInv, NEW s \in Streams,
           st[s].state \in {"NOTUSED", "CFG"}, ~Undone(s), NEW d \in Channels
    PROVE  InBundle(d, s) = 0
<1> SUFFICES ASSUME InBundle(d, s) # 0 PROVE FALSE
  OBVIOUS
<1>1. s \in Feeds(d) /\ Has(d, s)
  BY DEF FrameInv, PlaceInv
<1>2. CASE Owner[s] # d
  <2>1. Steady(s)
    BY <1>1, <1>2 DEF BaseInv, TableInv
  <2>2. st[s].state = "ACTIVE"
    BY <2>1, SteadyRuns
  <2> QED BY <2>2
<1>3. CASE Owner[s] = d
  <2>1. st[s].state \in States(Job(d), s)
    BY <1>1, <1>3 DEF AgreeInv, StateInv
  <2>2. At(d) \notin {"NOTUSED", "STOPPED", "put"}
    <3> SUFFICES ASSUME At(d) \in {"NOTUSED", "STOPPED", "put"} PROVE FALSE
      OBVIOUS
    <3>1. Count(ch[d], hold[d], s) = 0
      BY Quiet DEF FrameInv
    <3> QED BY <3>1, BundleIs
  <2>3. At(d) \notin {"link", "streams"}
    BY <1>3 DEF FrameInv, YetInv
  <2>4. At(d) \notin {"ACTIVE", "flush_ack", "off", "ack", "threads"}
    BY <2>1, StatesAt DEF At
  <2>5. At(d) \notin Undoing \cup Ending
    <3> SUFFICES ASSUME At(d) \in Undoing \cup Ending PROVE FALSE
      OBVIOUS
    <3>1. At(d) \in Listing
      BY DEF Listing, Starting
    <3>2. PICK t \in Threads : In(t, d) /\ Job(d) = call[t]
      BY <3>1, JobThread
    <3> QED BY <1>3, <3>2 DEF Undone, In, At, Undoing, Ending
  <2> QED BY <2>2, <2>3, <2>4, <2>5, AtIn DEF Starting, StoppingAt
<1> QED BY <1>2, <1>3

LEMMA HeldExactly ==
    ASSUME BaseInv, AgreeInv, FrameInv, Orderly
    PROVE  FramesExact
<1> SUFFICES ASSUME NEW s \in Streams
             PROVE  /\ st[s].state = "ACTIVE" => Held(s, st[s].out - st[s].lost)
                    /\ st[s].state \in {"NOTUSED", "CFG"} => Undone(s) \/ Held(s, 0)
  BY DEF FramesExact
<1>0. Owner[s] \in Channels /\ TypeOK
  BY ChannelConstantsOK DEF BaseInv, TypeInv
<1>1. CASE st[s].state = "ACTIVE"
  <2>1. CASE \E c \in Channels : s \in Feeds(c)
    <3>1. PICK c \in Channels : s \in Feeds(c)
      BY <2>1
    <3>2. st[s].out = InBundle(c, s) + st[s].lost
      BY <1>1, <3>1 DEF FrameInv, CountInv
    <3>3. InBundle(c, s) \in Nat /\ st[s].lost \in Nat
      <4>1. ch[c] \in ChannelType /\ hold[c] \in [Streams -> Nat] /\ st[s].lost \in Nat
        BY <1>0 DEF TypeOK, StreamType
      <4>2. Count(ch[c], hold[c], s) \in Nat
        BY <4>1, CountTyped
      <4> QED BY <4>1, <4>2, BundleIs
    <3>4. InBundle(c, s) = st[s].out - st[s].lost
      <4> DEFINE n == InBundle(c, s)
                 m == st[s].lost
      <4>1. n \in Nat /\ m \in Nat /\ st[s].out = n + m
        BY <3>2, <3>3
      <4> HIDE DEF n, m
      <4>2. n = (n + m) - m
        BY <4>1
      <4> QED BY <4>1, <4>2 DEF n, m
    <3>5. \A d \in Channels \ {c} : InBundle(d, s) = 0
      <4> SUFFICES ASSUME NEW d \in Channels \ {c}, InBundle(d, s) # 0 PROVE FALSE
        OBVIOUS
      <4>1. s \in Feeds(d)
        BY DEF FrameInv, PlaceInv
      <4> QED BY <1>0, <3>1, <4>1, OneFeeder
    <3> QED BY <1>1, <3>4, <3>5 DEF Held
  <2>2. CASE \A c \in Channels : s \notin Feeds(c)
    <3>1. \A c \in Channels : InBundle(c, s) = 0
      BY <2>2 DEF FrameInv, PlaceInv
    <3>2. st[s].out = st[s].lost /\ st[s].lost \in Nat
      BY <1>0, <1>1, <2>2 DEF FrameInv, CountInv, TypeOK, StreamType
    <3>3. st[s].out - st[s].lost = 0
      BY <3>2
    <3> QED BY <1>0, <1>1, <3>1, <3>3 DEF Held
  <2> QED BY <2>1, <2>2
<1>2. CASE st[s].state \in {"NOTUSED", "CFG"} /\ ~Undone(s)
  <2>1. \A c \in Channels : InBundle(c, s) = 0
    BY <1>2, NoneLeft
  <2> QED BY <1>0, <1>2, <2>1 DEF Held
<1> QED BY <1>1, <1>2

\* While a stream runs it counts the frames of it that there are, those that a failed start
\* threw away apart; and there is none left when its buffers are given back.
THEOREM ReferencesExact ==
    ASSUME Orderly
    PROVE  Spec => []FramesExact
<1>1. Init => BaseInv /\ AgreeInv /\ FrameInv
  BY BaseInit, AgreeInit, FrameInit
<1>2. BaseInv /\ AgreeInv /\ FrameInv /\ [Next]_vars => BaseInv' /\ AgreeInv' /\ FrameInv'
  <2>1. BaseInv => ~scene.reuses
    <3>1. Owner[MetaStream] \in Channels
      BY ChannelConstantsOK
    <3> QED BY <3>1 DEF BaseInv, TypeInv, TypeOK, Orderly
  <2>2. BaseInv /\ AgreeInv /\ FrameInv /\ [Next]_vars => Steps
    BY <2>1, NextIs
  <2> QED BY <2>2, BaseStep, AgreeStep, FrameStep
<1>3. BaseInv /\ AgreeInv /\ FrameInv => FramesExact
  BY HeldExactly
<1> QED BY <1>1, <1>2, <1>3, PTL DEF Spec
=============================================================================
