--------------------------- MODULE MmSuperbufProofs ---------------------------
(***************************************************************************)
(* The list of superbufs keeps its shape, what is sent is complete, no     *)
(* buffer leaks, no wanted superbuf is left behind and the snapshot mode   *)
(* ends: for any streams, scenes and bounds, where frames are matched by   *)
(* their index.                                                            *)
(***************************************************************************)
EXTENDS MmSuperbufQueue, FiniteSetTheorems, WellFoundedInduction, TLAPS

-----------------------------------------------------------------------------
(* The list: M matched nodes, then at most mx + 1 others. *)

Unique(q) == \A i, j \in 1..Len(q), s \in Streams :
                q[i].super_buf[s] = q[j].super_buf[s] /\ q[i].super_buf[s] # 0 => i = j

Marked(q, M) == \A i \in 1..Len(q) : q[i].matched <=> i <= M

\* The matched nodes and the others are each in frame order.
Ordered(q, M) == \A i, j \in 1..Len(q) :
                    i < j /\ (j <= M \/ M < i) => q[i].frame_idx < q[j].frame_idx

\* A slot is empty or of its node's frame; a matched node has no empty one.
Slots(q, M) == \A i \in 1..Len(q), s \in Streams :
                  /\ q[i].super_buf[s] \in {0, q[i].frame_idx}
                  /\ i <= M => q[i].super_buf[s] # 0

ListOK(q, M, mx) ==
    /\ q \in Seq(NodeType) /\ M \in 0..Len(q) /\ mx \in Nat
    /\ Len(q) - M <= mx + 1
    /\ Cardinality(Streams) = 1 => M = Len(q)
    /\ Marked(q, M) /\ Ordered(q, M) /\ Slots(q, M) /\ Unique(q)

\* p is q without the nodes a to b.
Cut(q, p, a, b) ==
    /\ p \in Seq(NodeType) /\ Len(p) = Len(q) - (b + 1 - a)
    /\ \A k \in 1..Len(p) : p[k] = q[IF k < a THEN k ELSE k + (b + 1 - a)]

\* r is q with n at position x.
Inserted(q, r, x, n) ==
    /\ r \in Seq(NodeType) /\ Len(r) = Len(q) + 1
    /\ \A k \in 1..Len(r) : r[k] = IF k < x THEN q[k] ELSE IF k = x THEN n ELSE q[k - 1]

\* r is q with buffer f of stream s put in the node at x.
Filled(q, r, x, s, f) ==
    /\ r \in Seq(NodeType) /\ Len(r) = Len(q)
    /\ \A k \in (1..Len(q)) \ {x} : r[k] = q[k]
    /\ r[x].frame_idx = q[x].frame_idx
    /\ r[x].super_buf = [q[x].super_buf EXCEPT ![s] = f]

Fresh(q, s, f) == \A i \in 1..Len(q) : q[i].super_buf[s] < f

-----------------------------------------------------------------------------
(* The ledger: where buffer f of stream s is. *)

\* A superbuf with a buffer of every stream, all of one frame.
Complete(n) == \A s \in Streams : n.super_buf[s] = n.frame_idx /\ n.super_buf[s] # 0
SentType == [node : {n \in NodeType : Complete(n)}, bReadyForPrepareSnapshot : BOOLEAN,
             bUnlockAEC : BOOLEAN]

FreedType == SUBSET (Streams \X Frames)

OutInv(c) == c.freed \in Seq(FreedType) /\ c.sent \in Seq(SentType)

Has(q, s, f) == f # 0 /\ \E i \in 1..Len(q) : q[i].super_buf[s] = f
Held(q, s, f) == IF Has(q, s, f) THEN 1 ELSE 0
Total(c, s, f) == Held(c.que, s, f) + References(c, s, f)

-----------------------------------------------------------------------------
(* Counting in a sequence that grows. *)

LEMMA CountIn ==
    ASSUME NEW S, NEW q \in Seq(S), NEW P
    PROVE  /\ IsFiniteSet({i \in DOMAIN q : q[i] \in P})
           /\ Cardinality({i \in DOMAIN q : q[i] \in P}) \in Nat
<1>1. DOMAIN q = 1..Len(q) /\ Len(q) \in Int /\ 1 \in Int
  OBVIOUS
<1>2. IsFiniteSet(1..Len(q))
  BY <1>1, FS_Interval
<1>3. {i \in DOMAIN q : q[i] \in P} \in SUBSET (1..Len(q))
  BY <1>1
<1>4. IsFiniteSet({i \in DOMAIN q : q[i] \in P})
  BY <1>2, <1>3, FS_Subset
<1> QED BY <1>4, FS_CardinalityType

LEMMA CountAppended ==
    ASSUME NEW S, NEW q \in Seq(S), NEW x \in S, NEW P
    PROVE  Cardinality({i \in DOMAIN Append(q, x) : Append(q, x)[i] \in P})
           = Cardinality({i \in DOMAIN q : q[i] \in P}) + (IF x \in P THEN 1 ELSE 0)
<1> DEFINE old == {i \in DOMAIN q : q[i] \in P}
           qq == Append(q, x)
           new == {i \in DOMAIN qq : qq[i] \in P}
           one == Len(q) + 1
<1>1. /\ Len(q) \in Nat /\ DOMAIN q = 1..Len(q) /\ DOMAIN qq = 1..(Len(q) + 1)
      /\ \A i \in 1..Len(q) : qq[i] = q[i]
      /\ qq[Len(q) + 1] = x
  OBVIOUS
<1>3. IsFiniteSet(old) /\ Cardinality(old) \in Nat
  BY CountIn
<1> HIDE DEF qq
<1>4. new = IF x \in P THEN old \cup {one} ELSE old
  BY <1>1
<1>5. one \notin old
  BY <1>1
<1>6. Cardinality(new) = Cardinality(old) + (IF x \in P THEN 1 ELSE 0)
  <2> HIDE DEF old, new, one
  <2>1. Cardinality(old \cup {one}) = Cardinality(old) + 1
    BY <1>3, <1>5, FS_AddElement
  <2> QED BY <1>3, <1>4, <2>1
<1> QED BY <1>6 DEF qq

\* The two counts of References, as counts of members of a set.
Giving(s, f) == {A \in FreedType : <<s, f>> \in A}
Sending(s, f) == {y \in SentType : <<s, f>> \in Bufs(y.node)}
FreedCount(c, s, f) == Cardinality({i \in DOMAIN c.freed : c.freed[i] \in Giving(s, f)})
SentCount(c, s, f) == Cardinality({i \in DOMAIN c.sent : c.sent[i] \in Sending(s, f)})

LEMMA ReferencesAre ==
    ASSUME NEW c, OutInv(c), NEW s, NEW f
    PROVE  /\ FreedCount(c, s, f) \in Nat /\ SentCount(c, s, f) \in Nat
           /\ References(c, s, f) = FreedCount(c, s, f) + SentCount(c, s, f)
<1>1. c.freed \in Seq(FreedType) /\ c.sent \in Seq(SentType)
  BY DEF OutInv
<1>2. \A i \in DOMAIN c.freed : c.freed[i] \in Giving(s, f) <=> <<s, f>> \in c.freed[i]
  BY <1>1 DEF Giving
<1>3. \A i \in DOMAIN c.sent : c.sent[i] \in Sending(s, f) <=> <<s, f>> \in Bufs(c.sent[i].node)
  BY <1>1 DEF Sending
<1>4. /\ {i \in DOMAIN c.freed : c.freed[i] \in Giving(s, f)} = {i \in DOMAIN c.freed : <<s, f>> \in c.freed[i]}
      /\ {i \in DOMAIN c.sent : c.sent[i] \in Sending(s, f)}
         = {i \in DOMAIN c.sent : <<s, f>> \in Bufs(c.sent[i].node)}
  BY <1>2, <1>3
<1>5. FreedCount(c, s, f) \in Nat /\ SentCount(c, s, f) \in Nat
  BY <1>1, CountIn DEF FreedCount, SentCount
<1>6. References(c, s, f) = FreedCount(c, s, f) + SentCount(c, s, f)
  BY <1>4 DEF References, FreedCount, SentCount
<1> QED BY <1>5, <1>6

LEMMA References_Freed ==
    ASSUME NEW c, NEW d, OutInv(c), NEW B \in FreedType,
           d.freed = Append(c.freed, B), d.sent = c.sent
    PROVE  /\ OutInv(d)
           /\ \A s, f : /\ References(c, s, f) \in Nat
                        /\ References(d, s, f) = References(c, s, f)
                                                 + (IF <<s, f>> \in B THEN 1 ELSE 0)
<1>1. OutInv(d)
  BY DEF OutInv
<1>2. ASSUME NEW s, NEW f
      PROVE  /\ References(c, s, f) \in Nat
             /\ References(d, s, f) = References(c, s, f) + (IF <<s, f>> \in B THEN 1 ELSE 0)
  <2>1. FreedCount(d, s, f) = FreedCount(c, s, f) + (IF B \in Giving(s, f) THEN 1 ELSE 0)
    BY CountAppended, SMTT(60) DEF OutInv, FreedCount
  <2>2. SentCount(d, s, f) = SentCount(c, s, f)
    BY DEF SentCount
  <2>3. B \in Giving(s, f) <=> <<s, f>> \in B
    BY DEF Giving
  <2> QED BY <1>1, <2>1, <2>2, <2>3, ReferencesAre
<1> QED BY <1>1, <1>2

LEMMA References_Sent ==
    ASSUME NEW c, NEW d, OutInv(c), NEW x \in SentType,
           d.sent = Append(c.sent, x), d.freed = c.freed
    PROVE  /\ OutInv(d)
           /\ \A s, f : /\ References(c, s, f) \in Nat
                        /\ References(d, s, f) = References(c, s, f)
                                                 + (IF <<s, f>> \in Bufs(x.node) THEN 1 ELSE 0)
<1>1. OutInv(d)
  BY DEF OutInv
<1>2. ASSUME NEW s, NEW f
      PROVE  /\ References(c, s, f) \in Nat
             /\ References(d, s, f) = References(c, s, f)
                                      + (IF <<s, f>> \in Bufs(x.node) THEN 1 ELSE 0)
  <2>1. SentCount(d, s, f) = SentCount(c, s, f) + (IF x \in Sending(s, f) THEN 1 ELSE 0)
    BY CountAppended DEF OutInv, SentCount
  <2>2. FreedCount(d, s, f) = FreedCount(c, s, f)
    BY DEF FreedCount
  <2>3. x \in Sending(s, f) <=> <<s, f>> \in Bufs(x.node)
    BY DEF Sending
  <2> QED BY <1>1, <2>1, <2>2, <2>3, ReferencesAre
<1> QED BY <1>1, <1>2

LEMMA References_Same ==
    ASSUME NEW c, NEW d, OutInv(c), d.freed = c.freed, d.sent = c.sent
    PROVE  /\ OutInv(d)
           /\ \A s, f : References(c, s, f) \in Nat /\ References(d, s, f) = References(c, s, f)
<1>1. OutInv(d)
  BY DEF OutInv
<1>2. \A s, f : References(d, s, f) = References(c, s, f)
  BY DEF References
<1> QED BY <1>1, <1>2, ReferencesAre

LEMMA References_None ==
    ASSUME NEW c, c.freed = <<>>, c.sent = <<>>
    PROVE  OutInv(c) /\ \A s, f : References(c, s, f) = 0
<1>1. OutInv(c)
  BY DEF OutInv
<1>2. ASSUME NEW s, NEW f PROVE References(c, s, f) = 0
  <2>1. /\ {i \in DOMAIN c.freed : <<s, f>> \in c.freed[i]} = {}
        /\ {i \in DOMAIN c.sent : <<s, f>> \in Bufs(c.sent[i].node)} = {}
    OBVIOUS
  <2> QED BY <2>1, FS_EmptySet DEF References
<1> QED BY <1>1, <1>2

-----------------------------------------------------------------------------
(* Lists: what a cut and an insertion do to the order and to the ledger. *)

LEMMA Nodes ==
    ASSUME NEW q \in Seq(NodeType)
    PROVE  /\ Len(q) \in Nat
           /\ \A i \in 1..Len(q) : /\ q[i] \in NodeType /\ q[i].frame_idx \in 1..MaxFrame
                                   /\ q[i].super_buf \in [Streams -> SlotIds]
                                   /\ q[i].matched \in BOOLEAN
           /\ \A i \in 1..Len(q), s \in Streams : q[i].super_buf[s] \in Nat
<1>1. Len(q) \in Nat /\ \A i \in 1..Len(q) : q[i] \in NodeType
  OBVIOUS
<1>2. \A n \in NodeType : /\ n.frame_idx \in 1..MaxFrame /\ n.super_buf \in [Streams -> SlotIds]
                          /\ n.matched \in BOOLEAN
  BY DEF NodeType
<1>3. \A n \in NodeType, s \in Streams : n.super_buf[s] \in Nat
  BY <1>2 DEF SlotIds
<1> QED BY <1>1, <1>2, <1>3

LEMMA InBufs ==
    ASSUME NEW n, NEW s \in Streams, NEW f
    PROVE  <<s, f>> \in Bufs(n) <=> f # 0 /\ n.super_buf[s] = f
BY DEF Bufs

LEMMA BufsType ==
    ASSUME NEW n \in NodeType
    PROVE  Bufs(n) \in FreedType
BY DEF Bufs, FreedType, NodeType, SlotIds, Frames

\* The buffers of the nodes a to b of q.
BufsOf(q, a, b) == UNION {Bufs(q[i]) : i \in a..b}

LEMMA BufsOfType ==
    ASSUME NEW q \in Seq(NodeType), NEW a \in Nat \ {0}, NEW b \in 0..Len(q)
    PROVE  BufsOf(q, a, b) \in FreedType
<1>1. \A i \in a..b : q[i] \in NodeType
  OBVIOUS
<1>2. \A i \in a..b : Bufs(q[i]) \in FreedType
  BY <1>1, BufsType
<1> QED BY <1>2 DEF BufsOf, FreedType

LEMMA CutLedger ==
    ASSUME NEW q \in Seq(NodeType), Unique(q), NEW p, NEW a \in Nat \ {0}, NEW b \in 0..Len(q),
           a <= b + 1, Cut(q, p, a, b), NEW s \in Streams, NEW f
    PROVE  Held(q, s, f) = Held(p, s, f) + (IF <<s, f>> \in BufsOf(q, a, b) THEN 1 ELSE 0)
<1>1. <<s, f>> \in BufsOf(q, a, b) <=> \E i \in a..b : f # 0 /\ q[i].super_buf[s] = f
  <2>1. <<s, f>> \in BufsOf(q, a, b) <=> \E i \in a..b : <<s, f>> \in Bufs(q[i])
    BY DEF BufsOf
  <2>2. \A i \in a..b : <<s, f>> \in Bufs(q[i]) <=> f # 0 /\ q[i].super_buf[s] = f
    BY InBufs
  <2> QED BY <2>1, <2>2
<1>2. ASSUME NEW k \in 1..Len(p)
      PROVE  \E i \in (1..Len(q)) \ (a..b) : p[k] = q[i]
  <2>1. CASE k < a
    <3>1. k \in (1..Len(q)) \ (a..b) /\ p[k] = q[k]
      BY <1>2, <2>1 DEF Cut
    <3> QED BY <3>1
  <2>2. CASE k >= a
    <3>1. k + (b + 1 - a) \in (1..Len(q)) \ (a..b) /\ p[k] = q[k + (b + 1 - a)]
      BY <1>2, <2>2 DEF Cut
    <3> QED BY <3>1
  <2> QED BY <2>1, <2>2
<1>3. ASSUME NEW i \in (1..Len(q)) \ (a..b)
      PROVE  \E k \in 1..Len(p) : p[k] = q[i]
  <2>1. CASE i < a
    BY <1>3, <2>1 DEF Cut
  <2>2. CASE i > b
    <3>1. i - (b + 1 - a) \in 1..Len(p) /\ i - (b + 1 - a) >= a
      BY <1>3, <2>2 DEF Cut
    <3>2. (i - (b + 1 - a)) + (b + 1 - a) = i
      OBVIOUS
    <3>3. p[i - (b + 1 - a)] = q[i]
      BY <3>1, <3>2 DEF Cut
    <3> QED BY <3>1, <3>3
  <2> QED BY <2>1, <2>2
<1>4. a..b \subseteq 1..Len(q)
  OBVIOUS
<1>5. \A i, j \in 1..Len(q) : f # 0 /\ q[i].super_buf[s] = f /\ q[j].super_buf[s] = f => i = j
  BY DEF Unique
<1>6. Has(p, s, f) <=> f # 0 /\ \E i \in (1..Len(q)) \ (a..b) : q[i].super_buf[s] = f
  BY <1>2, <1>3 DEF Has
<1>7. CASE <<s, f>> \in BufsOf(q, a, b)
  BY <1>1, <1>4, <1>5, <1>6, <1>7 DEF Held, Has
<1>8. CASE <<s, f>> \notin BufsOf(q, a, b)
  BY <1>1, <1>4, <1>6, <1>8 DEF Held, Has
<1> QED BY <1>7, <1>8

LEMMA CutUnique ==
    ASSUME NEW q \in Seq(NodeType), Unique(q), NEW p, NEW a \in Nat \ {0}, NEW b \in 0..Len(q),
           a <= b + 1, Cut(q, p, a, b)
    PROVE  Unique(p)
<1> SUFFICES ASSUME NEW i \in 1..Len(p), NEW j \in 1..Len(p), NEW s \in Streams,
                    p[i].super_buf[s] = p[j].super_buf[s], p[i].super_buf[s] # 0
             PROVE  i = j
  BY DEF Unique
<1> DEFINE At(k) == IF k < a THEN k ELSE k + (b + 1 - a)
<1>1. At(i) \in 1..Len(q) /\ At(j) \in 1..Len(q) /\ p[i] = q[At(i)] /\ p[j] = q[At(j)]
  BY DEF Cut
<1>2. At(i) = At(j) => i = j
  OBVIOUS
<1> HIDE DEF At
<1> QED BY <1>1, <1>2 DEF Unique

LEMMA Counts ==
    ASSUME NEW q, NEW M, NEW mx, ListOK(q, M, mx)
    PROVE  /\ Unmatched(q) = (M + 1)..Len(q) /\ MatchedIn(q) = 1..M
           /\ Cardinality(MatchedIn(q)) = M /\ Cardinality(Unmatched(q)) = Len(q) - M
           /\ MatchedHead(q) = M
<1>1. /\ q \in Seq(NodeType) /\ M \in Nat /\ Len(q) \in Nat /\ M <= Len(q) /\ DOMAIN q = 1..Len(q)
      /\ \A i \in 1..Len(q) : q[i].matched <=> i <= M
  BY DEF ListOK, Marked
<1>2. Unmatched(q) = (M + 1)..Len(q)
  BY <1>1 DEF Unmatched
<1>3. MatchedIn(q) = 1..M
  BY <1>1, <1>2 DEF MatchedIn
<1>4. Cardinality(1..M) = M
  <2>1. 1 \in Int /\ M \in Int
    BY <1>1
  <2> QED BY <1>1, <2>1, FS_Interval
<1>5. Cardinality((M + 1)..Len(q)) = Len(q) - M
  <2>1. M + 1 \in Int /\ Len(q) \in Int
    BY <1>1
  <2>2. Cardinality((M + 1)..Len(q)) = IF M + 1 > Len(q) THEN 0 ELSE Len(q) - (M + 1) + 1
    BY <2>1, FS_Interval
  <2> QED BY <1>1, <2>2
<1>6. MatchedHead(q) = M
  <2>1. CASE M = Len(q)
    BY <1>1, <1>2, <2>1 DEF MatchedHead
  <2>2. CASE M < Len(q)
    <3>1. Unmatched(q) # {}
      BY <1>1, <1>2, <2>2
    <3>2. M + 1 \in Unmatched(q) /\ \A j \in Unmatched(q) : M + 1 <= j
      BY <1>1, <1>2, <2>2
    <3>3. \A i \in Unmatched(q) : (\A j \in Unmatched(q) : i <= j) => i = M + 1
      BY <1>1, <1>2, <3>2
    <3>4. (CHOOSE i \in Unmatched(q) : \A j \in Unmatched(q) : i <= j) = M + 1
      BY <3>2, <3>3
    <3>5. MatchedHead(q) = (M + 1) - 1
      BY <3>1, <3>4 DEF MatchedHead
    <3> QED BY <1>1, <3>5
  <2>3. M = Len(q) \/ M < Len(q)
    <3>1. M \in Int /\ Len(q) \in Int /\ M <= Len(q)
      BY <1>1
    <3> HIDE <1>1
    <3> QED BY <3>1
  <2> QED BY <2>1, <2>2, <2>3
<1> QED BY <1>2, <1>3, <1>4, <1>5, <1>6

LEMMA TwoIntervals ==
    ASSUME NEW a \in Nat \ {0}, NEW b \in Nat, NEW i \in Nat, a <= b + 1, b <= i
    PROVE  Cardinality((1..(a - 1)) \cup ((b + 1)..i)) = i - (b + 1 - a)
<1>1. 1 \in Int /\ a - 1 \in Int /\ b + 1 \in Int /\ i \in Int
  OBVIOUS
<1>2. IsFiniteSet(1..(a - 1)) /\ Cardinality(1..(a - 1)) = a - 1
  <2>1. Cardinality(1..(a - 1)) = IF 1 > a - 1 THEN 0 ELSE (a - 1) - 1 + 1
    BY <1>1, FS_Interval
  <2>2. IsFiniteSet(1..(a - 1))
    BY <1>1, FS_Interval
  <2> QED BY <1>1, <2>1, <2>2
<1>3. IsFiniteSet((b + 1)..i) /\ Cardinality((b + 1)..i) = i - b
  <2>1. Cardinality((b + 1)..i) = IF b + 1 > i THEN 0 ELSE i - (b + 1) + 1
    BY <1>1, FS_Interval
  <2>2. IsFiniteSet((b + 1)..i)
    BY <1>1, FS_Interval
  <2> QED BY <1>1, <2>1, <2>2
<1>4. (1..(a - 1)) \cap ((b + 1)..i) = {}
  OBVIOUS
<1>5. Cardinality((1..(a - 1)) \cap ((b + 1)..i)) = 0
  BY <1>4, FS_EmptySet
<1>6. Cardinality((1..(a - 1)) \cup ((b + 1)..i))
      = Cardinality(1..(a - 1)) + Cardinality((b + 1)..i) - Cardinality((1..(a - 1)) \cap ((b + 1)..i))
  BY <1>2, <1>3, FS_Union
<1>7. Cardinality((1..(a - 1)) \cup ((b + 1)..i)) = (a - 1) + (i - b) - 0
  BY <1>2, <1>3, <1>5, <1>6
<1> QED BY <1>7

LEMMA WithoutCut ==
    ASSUME NEW q \in Seq(NodeType), NEW a \in Nat \ {0}, NEW b \in 0..Len(q), a <= b + 1
    PROVE  Cut(q, Without(q, a..b), a, b)
<1> DEFINE kept == DOMAIN q \ (a..b)
           Rank(i) == Cardinality({j \in kept : j <= i})
           At(k) == IF k < a THEN k ELSE k + (b + 1 - a)
           last == Len(q) - (b + 1 - a)
<1>1. Len(q) \in Nat /\ DOMAIN q = 1..Len(q) /\ last \in Nat /\ last <= Len(q)
  OBVIOUS
<1>2. kept = (1..(a - 1)) \cup ((b + 1)..Len(q))
  BY <1>1
<1>3. Cardinality(kept) = last
  BY <1>1, <1>2, TwoIntervals, SMTT(60)
<1>4. ASSUME NEW i \in kept
      PROVE  Rank(i) = IF i < a THEN i ELSE i - (b + 1 - a)
  <2>1. CASE i < a
    <3>1. {j \in kept : j <= i} = 1..i
      BY <1>2, <1>4, <2>1
    <3>2. 1 \in Int /\ i \in Int /\ i >= 1
      BY <1>2, <1>4
    <3>3. Cardinality(1..i) = IF 1 > i THEN 0 ELSE i - 1 + 1
      BY <3>2, FS_Interval
    <3>4. Rank(i) = Cardinality(1..i)
      BY <3>1
    <3> HIDE DEF Rank
    <3> QED BY <2>1, <3>2, <3>3, <3>4
  <2>2. CASE i >= a
    <3>1. i \in Nat /\ b <= i /\ i <= Len(q)
      BY <1>2, <1>4, <2>2
    <3>2. {j \in kept : j <= i} = (1..(a - 1)) \cup ((b + 1)..i)
      BY <1>2, <2>2, <3>1
    <3> QED BY <2>2, <3>1, <3>2, TwoIntervals
  <2>3. i \in Int
    BY <1>2
  <2> QED BY <2>1, <2>2, <2>3
<1> HIDE DEF Rank
<1>5. ASSUME NEW k \in 1..last
      PROVE  (CHOOSE i \in kept : Rank(i) = k) = At(k)
  <2>1. At(k) \in kept /\ Rank(At(k)) = k
    <3>1. At(k) \in kept
      BY <1>2, <1>5
    <3>2. Rank(At(k)) = IF At(k) < a THEN At(k) ELSE At(k) - (b + 1 - a)
      BY <1>4, <3>1
    <3> QED BY <1>5, <3>1, <3>2
  <2>2. ASSUME NEW i \in kept, Rank(i) = k
        PROVE  i = At(k)
    <3>1. k = IF i < a THEN i ELSE i - (b + 1 - a)
      BY <1>4, <2>2
    <3> QED BY <1>2, <1>5, <3>1
  <2> HIDE DEF At, kept
  <2> QED BY <2>1, <2>2
<1>6. Without(q, a..b) = [k \in 1..last |-> q[At(k)]]
  <2>1. Without(q, a..b) = [k \in 1..Cardinality(kept) |-> q[CHOOSE i \in kept : Rank(i) = k]]
    BY DEF Without, Rank
  <2> HIDE DEF At, kept, last
  <2> QED BY <1>3, <1>5, <2>1
<1>7. \A k \in 1..last : At(k) \in 1..Len(q)
  BY <1>1
<1>8. \A k \in 1..last : q[At(k)] \in NodeType
  BY <1>7
<1> DEFINE p == [k \in 1..last |-> q[At(k)]]
<1>9. p \in Seq(NodeType) /\ Len(p) = last /\ \A k \in 1..last : p[k] = q[At(k)]
  <2> HIDE DEF At, last
  <2> QED BY <1>1, <1>8
<1> HIDE DEF p
<1> QED BY <1>6, <1>9 DEF Cut, p

LEMMA SubSeqCut ==
    ASSUME NEW q \in Seq(NodeType), NEW k \in 0..Len(q)
    PROVE  Cut(q, SubSeq(q, k + 1, Len(q)), 1, k)
BY DEF Cut

LEMMA TailCut ==
    ASSUME NEW q \in Seq(NodeType), q # <<>>
    PROVE  Cut(q, Tail(q), 1, 1)
BY DEF Cut

LEMMA EmptyCut ==
    ASSUME NEW q \in Seq(NodeType)
    PROVE  Cut(q, <<>>, 1, Len(q))
BY DEF Cut

LEMMA EmptyList ==
    ASSUME NEW mx \in Nat
    PROVE  ListOK(<<>>, 0, mx)
BY DEF ListOK, Marked, Ordered, Slots, Unique

\* The first k nodes leave.
LEMMA CutMatched ==
    ASSUME NEW q, NEW M, NEW mx, ListOK(q, M, mx), NEW k \in 0..M, NEW p, Cut(q, p, 1, k)
    PROVE  ListOK(p, M - k, mx)
<1>1. /\ q \in Seq(NodeType) /\ M \in Nat /\ Len(q) \in Nat /\ M <= Len(q) /\ mx \in Nat
      /\ Marked(q, M) /\ Ordered(q, M) /\ Slots(q, M) /\ Unique(q)
      /\ Len(q) - M <= mx + 1 /\ (Cardinality(Streams) = 1 => M = Len(q))
      /\ 1 \in Nat \ {0} /\ k \in 0..Len(q) /\ 1 <= k + 1
  BY DEF ListOK
<1>2. /\ p \in Seq(NodeType) /\ Len(p) = Len(q) - k /\ Len(p) \in Nat
      /\ \A i \in 1..Len(p) : i + k \in 1..Len(q) /\ p[i] = q[i + k]
  <2>1. p \in Seq(NodeType) /\ Len(p) = Len(q) - k /\ Len(p) \in Nat
    BY <1>1 DEF Cut
  <2>2. \A i \in 1..Len(p) : i + k \in 1..Len(q) /\ (IF i < 1 THEN i ELSE i + (k + 1 - 1)) = i + k
    BY <1>1, <2>1
  <2>3. \A i \in 1..Len(p) : p[i] = q[IF i < 1 THEN i ELSE i + (k + 1 - 1)]
    BY DEF Cut
  <2> QED BY <2>1, <2>2, <2>3
<1>3. Marked(p, M - k)
  BY <1>1, <1>2 DEF Marked
<1>4. Ordered(p, M - k)
  <2> SUFFICES ASSUME NEW i \in 1..Len(p), NEW j \in 1..Len(p), i < j, (j <= M - k \/ M - k < i)
               PROVE  p[i].frame_idx < p[j].frame_idx
    BY DEF Ordered
  <2>1. i + k < j + k /\ (j + k <= M \/ M < i + k)
    BY <1>1, <1>2, SMTT(60)
  <2> QED BY <1>1, <1>2, <2>1 DEF Ordered
<1>5. Slots(p, M - k)
  <2> SUFFICES ASSUME NEW i \in 1..Len(p), NEW s \in Streams
               PROVE  /\ p[i].super_buf[s] \in {0, p[i].frame_idx}
                      /\ i <= M - k => p[i].super_buf[s] # 0
    BY DEF Slots
  <2>1. i + k \in 1..Len(q) /\ p[i] = q[i + k] /\ (i <= M - k => i + k <= M)
    BY <1>1, <1>2
  <2> QED BY <1>1, <2>1 DEF Slots
<1>6. Unique(p)
  BY <1>1, CutUnique
<1> QED BY <1>1, <1>2, <1>3, <1>4, <1>5, <1>6 DEF ListOK

\* One unmatched node leaves.
LEMMA CutUnmatched ==
    ASSUME NEW q, NEW M, NEW mx, ListOK(q, M, mx), NEW e \in (M + 1)..Len(q), NEW p,
           Cut(q, p, e, e)
    PROVE  ListOK(p, M, mx) /\ Len(p) = Len(q) - 1
<1>1. /\ q \in Seq(NodeType) /\ M \in Nat /\ Len(q) \in Nat /\ M <= Len(q) /\ mx \in Nat
      /\ Marked(q, M) /\ Ordered(q, M) /\ Slots(q, M) /\ Unique(q)
      /\ Len(q) - M <= mx + 1 /\ (Cardinality(Streams) = 1 => M = Len(q))
      /\ e \in Nat \ {0} /\ e \in 0..Len(q) /\ e <= e + 1 /\ M < e
  BY DEF ListOK
<1> DEFINE At(i) == IF i < e THEN i ELSE i + 1
<1>2. /\ p \in Seq(NodeType) /\ Len(p) = Len(q) - 1 /\ Len(p) \in Nat
      /\ \A i \in 1..Len(p) : At(i) \in 1..Len(q) /\ p[i] = q[At(i)] /\ (At(i) <= M <=> i <= M)
      /\ \A i, j \in 1..Len(p) : i < j => At(i) < At(j)
  <2>1. /\ p \in Seq(NodeType) /\ Len(p) = Len(q) - 1 /\ Len(p) \in Nat
        /\ \A i \in 1..Len(p) : p[i] = q[IF i < e THEN i ELSE i + (e + 1 - e)]
    BY <1>1 DEF Cut
  <2>2. \A i \in 1..Len(p) : At(i) = IF i < e THEN i ELSE i + (e + 1 - e)
    BY <1>1
  <2>3. \A i \in 1..Len(p) : At(i) \in 1..Len(q) /\ (At(i) <= M <=> i <= M)
    BY <1>1, <2>1
  <2>4. \A i, j \in 1..Len(p) : i < j => At(i) < At(j)
    OBVIOUS
  <2> HIDE DEF At
  <2> QED BY <2>1, <2>2, <2>3, <2>4
<1> HIDE DEF At
<1>3. Marked(p, M)
  BY <1>1, <1>2 DEF Marked
<1>4. Ordered(p, M)
  <2> SUFFICES ASSUME NEW i \in 1..Len(p), NEW j \in 1..Len(p), i < j, (j <= M \/ M < i)
               PROVE  p[i].frame_idx < p[j].frame_idx
    BY DEF Ordered
  <2>1. /\ At(i) \in 1..Len(q) /\ At(j) \in 1..Len(q) /\ At(i) < At(j)
        /\ p[i] = q[At(i)] /\ p[j] = q[At(j)]
    BY <1>2
  <2>2. ((At(i) <= M) <=> (i <= M)) /\ ((At(j) <= M) <=> (j <= M))
    BY <1>2
  <2>3. At(j) <= M \/ M < At(i)
    <3>1. M \in Int /\ At(i) \in Int
      BY <1>1, <2>1
    <3> QED BY <2>2, <3>1
  <2> QED BY <1>1, <2>1, <2>3 DEF Ordered
<1>5. Slots(p, M)
  BY <1>1, <1>2 DEF Slots
<1>6. Unique(p)
  BY <1>1, CutUnique
<1>7. Cardinality(Streams) # 1
  BY <1>1
<1>8. Len(p) - M <= mx + 1 /\ M <= Len(p)
  BY <1>1, <1>2
<1> QED BY <1>1, <1>2, <1>3, <1>4, <1>5, <1>6, <1>7, <1>8 DEF ListOK

LEMMA FillLedger ==
    ASSUME NEW q \in Seq(NodeType), Unique(q), NEW x \in 1..Len(q), NEW s \in Streams,
           NEW f \in 1..MaxFrame, Fresh(q, s, f), q[x].super_buf[s] = 0,
           NEW r, Filled(q, r, x, s, f)
    PROVE  /\ Unique(r)
           /\ \A t \in Streams, g \in Frames :
                Held(r, t, g) = Held(q, t, g) + (IF <<t, g>> = <<s, f>> THEN 1 ELSE 0)
<1>1. /\ \A i \in 1..Len(q) : q[i].super_buf \in [Streams -> SlotIds]
      /\ \A i \in 1..Len(q), t \in Streams : q[i].super_buf[t] \in Nat
      /\ Len(q) \in Nat /\ Len(r) = Len(q)
  BY Nodes DEF Filled
<1>2. \A i \in 1..Len(q), t \in Streams :
         r[i].super_buf[t] = IF i = x /\ t = s THEN f ELSE q[i].super_buf[t]
  BY <1>1 DEF Filled
<1>3. f # 0 /\ \A i \in 1..Len(q) : q[i].super_buf[s] # f
  BY <1>1 DEF Fresh
<1>4. Unique(r)
  BY <1>1, <1>2, <1>3 DEF Unique
<1>5. ASSUME NEW t \in Streams, NEW g \in Frames
      PROVE  Held(r, t, g) = Held(q, t, g) + (IF <<t, g>> = <<s, f>> THEN 1 ELSE 0)
  <2>1. CASE t = s /\ g = f
    <3>1. r[x].super_buf[t] = g /\ g # 0
      BY <1>2, <1>3, <2>1
    <3>2. Has(r, t, g)
      BY <1>1, <3>1 DEF Has
    <3>3. ~Has(q, t, g)
      BY <1>3, <2>1 DEF Has
    <3> QED BY <2>1, <3>2, <3>3 DEF Held
  <2>2. CASE ~(t = s /\ g = f)
    <3>1. ASSUME g # 0, NEW i \in 1..Len(q) PROVE r[i].super_buf[t] = g <=> q[i].super_buf[t] = g
      BY <1>2, <2>2, <3>1
    <3>2. Has(r, t, g) <=> Has(q, t, g)
      BY <1>1, <3>1 DEF Has
    <3>3. <<t, g>> # <<s, f>>
      BY <2>2
    <3> QED BY <3>2, <3>3 DEF Held
  <2> QED BY <2>1, <2>2
<1> QED BY <1>4, <1>5

\* The buffer joins a node that still lacks others.
LEMMA FillList ==
    ASSUME NEW q, NEW M, NEW mx, ListOK(q, M, mx), NEW x \in (M + 1)..Len(q), NEW s \in Streams,
           NEW f \in 1..MaxFrame, q[x].frame_idx = f, NEW r, Filled(q, r, x, s, f), Unique(r),
           ~r[x].matched
    PROVE  ListOK(r, M, mx)
<1>1. /\ q \in Seq(NodeType) /\ M \in Nat /\ Len(q) \in Nat /\ M <= Len(q) /\ mx \in Nat
      /\ Marked(q, M) /\ Ordered(q, M) /\ Slots(q, M)
      /\ Len(q) - M <= mx + 1 /\ (Cardinality(Streams) = 1 => M = Len(q)) /\ M \in 0..Len(q)
      /\ x \in 1..Len(q) /\ M < x
  BY DEF ListOK
<1>a. \A i \in 1..Len(q) : q[i].super_buf \in [Streams -> SlotIds]
  BY <1>1, Nodes
<1>2. /\ r \in Seq(NodeType) /\ Len(r) = Len(q)
      /\ \A i \in 1..Len(q) : r[i].frame_idx = q[i].frame_idx
      /\ \A i \in 1..Len(q), t \in Streams :
            r[i].super_buf[t] = IF i = x /\ t = s THEN f ELSE q[i].super_buf[t]
  BY <1>1, <1>a DEF Filled
<1>3. Marked(r, M)
  BY <1>1, <1>2 DEF Marked, Filled
<1>4. Ordered(r, M)
  BY <1>1, <1>2 DEF Ordered
<1>5. Slots(r, M)
  BY <1>1, <1>2 DEF Slots
<1> QED BY <1>1, <1>2, <1>3, <1>4, <1>5 DEF ListOK

\* It completes the node, and the unmatched nodes before it leave.
LEMMA CompleteList ==
    ASSUME NEW q, NEW M, NEW mx, ListOK(q, M, mx), NEW x \in (M + 1)..Len(q), NEW s \in Streams,
           NEW f \in 1..MaxFrame, q[x].frame_idx = f, Fresh(q, s, f),
           NEW r, Filled(q, r, x, s, f), Unique(r), r[x].matched = TRUE,
           \A t \in Streams : r[x].super_buf[t] # 0, NEW p, Cut(r, p, M + 1, x - 1)
    PROVE  ListOK(p, M + 1, mx)
<1>1. /\ q \in Seq(NodeType) /\ M \in Nat /\ Len(q) \in Nat /\ M <= Len(q) /\ mx \in Nat
      /\ Marked(q, M) /\ Ordered(q, M) /\ Slots(q, M)
      /\ Len(q) - M <= mx + 1 /\ (Cardinality(Streams) = 1 => M = Len(q))
      /\ x \in 1..Len(q) /\ M < x
  BY DEF ListOK
<1>a. \A i \in 1..Len(q) : q[i].super_buf \in [Streams -> SlotIds] /\ q[i].frame_idx \in Nat
  BY <1>1, Nodes
<1>2. /\ r \in Seq(NodeType) /\ Len(r) = Len(q)
      /\ \A i \in 1..Len(q) : r[i].frame_idx = q[i].frame_idx
      /\ \A i \in 1..Len(q), t \in Streams :
            r[i].super_buf[t] = IF i = x /\ t = s THEN f ELSE q[i].super_buf[t]
  BY <1>1, <1>a, SMTT(60) DEF Filled
<1>b. \A i \in 1..Len(q) : i # x => (r[i].matched <=> i <= M)
  BY <1>1 DEF Filled, Marked
<1> DEFINE At(i) == IF i < M + 1 THEN i ELSE i + (x - (M + 1))
<1>3. /\ p \in Seq(NodeType) /\ Len(p) = Len(q) - (x - (M + 1)) /\ Len(p) \in Nat
      /\ M + 1 <= Len(p)
      /\ \A i \in 1..Len(p) : p[i] = r[At(i)]
      /\ \A i \in 1..Len(p) : /\ At(i) \in 1..Len(q)
                              /\ (At(i) <= M <=> i <= M)
                              /\ (At(i) = x <=> i = M + 1)
                              /\ (x < At(i) <=> M + 1 < i)
      /\ \A i, j \in 1..Len(p) : i < j => At(i) < At(j)
  <2>1. /\ p \in Seq(NodeType) /\ Len(p) = Len(q) - (x - (M + 1)) /\ Len(p) \in Nat
        /\ M + 1 <= Len(p)
    BY <1>1, <1>2 DEF Cut
  <2>2. \A i \in 1..Len(p) : p[i] = r[IF i < M + 1 THEN i ELSE i + ((x - 1) + 1 - (M + 1))]
    BY DEF Cut
  <2>3. \A i \in 1..Len(p) : At(i) = IF i < M + 1 THEN i ELSE i + ((x - 1) + 1 - (M + 1))
    BY <1>1
  <2>4. \A i \in 1..Len(p) : /\ At(i) \in 1..Len(q)
                             /\ (At(i) <= M <=> i <= M)
                             /\ (At(i) = x <=> i = M + 1)
                             /\ (x < At(i) <=> M + 1 < i)
    <3>1. /\ M \in Nat /\ x \in Nat /\ M < x /\ x <= Len(q) /\ Len(q) \in Nat
          /\ Len(p) = Len(q) - (x - (M + 1))
      BY <1>1, <2>1
    <3> HIDE <1>1, <2>1, <2>2, <2>3
    <3> QED BY <3>1
  <2>5. \A i, j \in 1..Len(p) : i < j => At(i) < At(j)
    BY <1>1
  <2> HIDE DEF At
  <2> QED BY <2>1, <2>2, <2>3, <2>4, <2>5
<1> HIDE DEF At
<1>4. Marked(p, M + 1)
  <2> SUFFICES ASSUME NEW i \in 1..Len(p)
               PROVE  p[i].matched <=> i <= M + 1
    BY DEF Marked
  <2>1. CASE i = M + 1
    BY <1>1, <1>3, <2>1
  <2>2. CASE i # M + 1
    <3>1. i <= M <=> i <= M + 1
      BY <1>1, <2>2
    <3> QED BY <1>b, <1>3, <2>2, <3>1
  <2> QED BY <2>1, <2>2
<1>5. \A i \in 1..Len(q), t \in Streams :
         /\ r[i].super_buf[t] \in {0, r[i].frame_idx}
         /\ i <= M => r[i].super_buf[t] # 0
  <2> SUFFICES ASSUME NEW i \in 1..Len(q), NEW t \in Streams
               PROVE  /\ r[i].super_buf[t] \in {0, r[i].frame_idx}
                      /\ i <= M => r[i].super_buf[t] # 0
    OBVIOUS
  <2>1. CASE i = x /\ t = s
    BY <1>1, <1>2, <2>1
  <2>2. CASE ~(i = x /\ t = s)
    BY <1>1, <1>2, <2>2 DEF Slots
  <2> QED BY <2>1, <2>2
<1>6. Slots(p, M + 1)
  <2> SUFFICES ASSUME NEW i \in 1..Len(p), NEW t \in Streams
               PROVE  /\ p[i].super_buf[t] \in {0, p[i].frame_idx}
                      /\ i <= M + 1 => p[i].super_buf[t] # 0
    BY DEF Slots
  <2>1. At(i) \in 1..Len(q) /\ p[i] = r[At(i)]
    BY <1>3
  <2>2. i <= M + 1 => At(i) <= M \/ At(i) = x
    BY <1>1, <1>3
  <2> QED BY <1>5, <2>1, <2>2
<1>7. Ordered(p, M + 1)
  <2> SUFFICES ASSUME NEW i \in 1..Len(p), NEW j \in 1..Len(p), i < j, (j <= M + 1 \/ M + 1 < i)
               PROVE  p[i].frame_idx < p[j].frame_idx
    BY DEF Ordered
  <2>1. At(i) \in 1..Len(q) /\ At(j) \in 1..Len(q) /\ At(i) < At(j)
    BY <1>3
  <2>2. p[i].frame_idx = q[At(i)].frame_idx /\ p[j].frame_idx = q[At(j)].frame_idx
    BY <1>2, <1>3, <2>1
  <2>3. CASE j <= M
    <3>1. At(j) <= M
      BY <1>3, <2>3
    <3> QED BY <1>1, <2>1, <2>2, <3>1 DEF Ordered
  <2>4. CASE j = M + 1
    <3>1. At(i) <= M /\ At(j) = x
      BY <1>1, <1>3, <2>4
    <3>2. q[At(i)].frame_idx = q[At(i)].super_buf[s]
      BY <1>1, <2>1, <3>1 DEF Slots
    <3> QED BY <2>1, <2>2, <3>1, <3>2 DEF Fresh
  <2>5. CASE M + 1 < i
    <3>1. M \in Int /\ x \in Int /\ M < x /\ x < At(i) /\ At(i) \in Int
      BY <1>1, <1>3, <2>5, SMTT(60)
    <3>2. M < At(i)
      BY <3>1
    <3> QED BY <1>1, <2>1, <2>2, <3>2 DEF Ordered
  <2>6. M \in Int
    BY <1>1
  <2>7. j <= M \/ j = M + 1 \/ M + 1 < i
    BY <2>6
  <2> QED BY <2>3, <2>4, <2>5, <2>7
<1>8. Unique(p)
  <2>1. M + 1 \in Nat \ {0} /\ x - 1 \in 0..Len(r) /\ M + 1 <= (x - 1) + 1
    BY <1>1, <1>2
  <2> QED BY <1>2, <2>1, CutUnique
<1>9. Len(p) - (M + 1) <= mx + 1 /\ Cardinality(Streams) # 1 /\ M + 1 \in 0..Len(p)
  BY <1>1, <1>3
<1> QED BY <1>1, <1>3, <1>4, <1>6, <1>7, <1>8, <1>9 DEF ListOK

LEMMA InsertLedger ==
    ASSUME NEW q \in Seq(NodeType), Unique(q), NEW x \in 1..(Len(q) + 1), NEW s \in Streams,
           NEW f \in 1..MaxFrame, Fresh(q, s, f), NEW n,
           n.super_buf = [EmptySlots EXCEPT ![s] = f], NEW r, Inserted(q, r, x, n)
    PROVE  /\ Unique(r)
           /\ \A t \in Streams, g \in Frames :
                Held(r, t, g) = Held(q, t, g) + (IF <<t, g>> = <<s, f>> THEN 1 ELSE 0)
<1>1. /\ \A i \in 1..Len(q) : q[i].super_buf \in [Streams -> SlotIds]
      /\ \A i \in 1..Len(q), t \in Streams : q[i].super_buf[t] \in Nat
      /\ Len(q) \in Nat /\ Len(r) = Len(q) + 1
  BY Nodes DEF Inserted
<1>2. \A t \in Streams : n.super_buf[t] = IF t = s THEN f ELSE 0
  BY DEF EmptySlots
<1>3. f # 0 /\ \A i \in 1..Len(q) : q[i].super_buf[s] # f
  BY <1>1 DEF Fresh
<1> DEFINE From(i) == IF i < x THEN i ELSE i - 1
<1>4. /\ \A i \in 1..Len(r) : i # x => From(i) \in 1..Len(q) /\ r[i] = q[From(i)]
      /\ x \in 1..Len(r) /\ r[x] = n
      /\ \A i, j \in 1..Len(r) : i # x /\ j # x /\ From(i) = From(j) => i = j
      /\ \A k \in 1..Len(q) : \E i \in 1..Len(r) : i # x /\ From(i) = k
  <2>1. ASSUME NEW k \in 1..Len(q) PROVE \E i \in 1..Len(r) : i # x /\ From(i) = k
    <3>1. CASE k < x
      <4>1. k \in 1..Len(r) /\ k # x /\ From(k) = k
        BY <1>1, <3>1
      <4> QED BY <4>1
    <3>2. CASE k >= x
      <4>1. k + 1 \in 1..Len(r) /\ k + 1 # x /\ From(k + 1) = k
        BY <1>1, <3>2
      <4> QED BY <4>1
    <3> QED BY <3>1, <3>2
  <2> QED BY <1>1, <2>1 DEF Inserted
<1> HIDE DEF From
<1>5. Unique(r)
  <2> SUFFICES ASSUME NEW i \in 1..Len(r), NEW j \in 1..Len(r), NEW t \in Streams,
                      r[i].super_buf[t] = r[j].super_buf[t], r[i].super_buf[t] # 0
               PROVE  i = j
    BY DEF Unique
  <2>1. CASE i # x /\ j # x
    <3>1. /\ From(i) \in 1..Len(q) /\ r[i] = q[From(i)]
          /\ From(j) \in 1..Len(q) /\ r[j] = q[From(j)]
      BY <1>4, <2>1
    <3>2. From(i) = From(j)
      BY <3>1 DEF Unique
    <3> QED BY <1>4, <2>1, <3>2
  <2>2. CASE i = x /\ j # x
    <3>1. From(j) \in 1..Len(q) /\ r[j] = q[From(j)] /\ r[i] = n
      BY <1>4, <2>2
    <3> QED BY <1>2, <1>3, <3>1
  <2>3. CASE i # x /\ j = x
    <3>1. From(i) \in 1..Len(q) /\ r[i] = q[From(i)] /\ r[j] = n
      BY <1>4, <2>3
    <3> QED BY <1>2, <1>3, <3>1
  <2> QED BY <2>1, <2>2, <2>3
<1>6. ASSUME NEW t \in Streams, NEW g \in Frames
      PROVE  Held(r, t, g) = Held(q, t, g) + (IF <<t, g>> = <<s, f>> THEN 1 ELSE 0)
  <2>1. CASE t = s /\ g = f
    <3>2. Has(r, t, g)
      BY <1>2, <1>3, <1>4, <2>1 DEF Has
    <3>3. ~Has(q, t, g)
      BY <1>3, <2>1 DEF Has
    <3> QED BY <2>1, <3>2, <3>3 DEF Held
  <2>2. CASE ~(t = s /\ g = f)
    <3>1. g # 0 => n.super_buf[t] # g
      BY <1>2, <2>2
    <3>2. Has(r, t, g) => Has(q, t, g)
      <4> SUFFICES ASSUME Has(r, t, g) PROVE Has(q, t, g)
        OBVIOUS
      <4>1. PICK i \in 1..Len(r) : g # 0 /\ r[i].super_buf[t] = g
        BY DEF Has
      <4>2. i # x
        BY <1>4, <3>1, <4>1
      <4>3. From(i) \in 1..Len(q) /\ r[i] = q[From(i)]
        BY <1>4, <4>2
      <4> QED BY <4>1, <4>3 DEF Has
    <3>3. ASSUME Has(q, t, g) PROVE Has(r, t, g)
      <4>1. PICK k \in 1..Len(q) : g # 0 /\ q[k].super_buf[t] = g
        BY <3>3 DEF Has
      <4>2. PICK i \in 1..Len(r) : i # x /\ From(i) = k
        BY <1>4
      <4>3. r[i] = q[k]
        BY <1>4, <4>2
      <4> QED BY <4>1, <4>3 DEF Has
    <3>4. <<t, g>> # <<s, f>>
      BY <2>2
    <3> QED BY <3>2, <3>3, <3>4 DEF Held
  <2> QED BY <2>1, <2>2
<1> QED BY <1>5, <1>6

\* A node of its own, behind the older unmatched nodes and before the newer ones.
LEMMA InsertList ==
    ASSUME NEW q, NEW M, NEW mx, ListOK(q, M, mx), Len(q) - M <= mx, Cardinality(Streams) # 1,
           NEW x \in (M + 1)..(Len(q) + 1), NEW s \in Streams, NEW f \in 1..MaxFrame,
           \A i \in (M + 1)..(x - 1) : q[i].frame_idx < f,
           \A i \in x..Len(q) : f < q[i].frame_idx,
           NEW n, n.frame_idx = f, n.super_buf = [EmptySlots EXCEPT ![s] = f], n.matched = FALSE,
           NEW r, Inserted(q, r, x, n), Unique(r)
    PROVE  ListOK(r, M, mx)
<1>1. /\ q \in Seq(NodeType) /\ M \in Nat /\ Len(q) \in Nat /\ M <= Len(q) /\ mx \in Nat
      /\ Marked(q, M) /\ Ordered(q, M) /\ Slots(q, M)
      /\ x \in 1..(Len(q) + 1) /\ M < x
  BY DEF ListOK
<1> DEFINE From(i) == IF i < x THEN i ELSE i - 1
<1>2. /\ r \in Seq(NodeType) /\ Len(r) = Len(q) + 1
      /\ \A i \in 1..Len(r) : i # x => /\ From(i) \in 1..Len(q) /\ r[i] = q[From(i)]
                                       /\ (From(i) <= M <=> i <= M)
                                       /\ (i < x <=> From(i) < x)
      /\ x \in 1..Len(r) /\ r[x] = n
      /\ \A i, j \in 1..Len(r) : i # x /\ j # x /\ i < j => From(i) < From(j)
  BY <1>1 DEF Inserted
<1> HIDE DEF From
<1>3. Marked(r, M)
  BY <1>1, <1>2, SMTT(60) DEF Marked
<1>4. \A t \in Streams : n.super_buf[t] = IF t = s THEN f ELSE 0
  BY DEF EmptySlots
<1>5. Slots(r, M)
  <2> SUFFICES ASSUME NEW i \in 1..Len(r), NEW t \in Streams
               PROVE  /\ r[i].super_buf[t] \in {0, r[i].frame_idx}
                      /\ i <= M => r[i].super_buf[t] # 0
    BY DEF Slots
  <2>1. CASE i = x
    <3>1. r[i] = n /\ ~(i <= M)
      BY <1>1, <1>2, <2>1
    <3> QED BY <1>4, <3>1
  <2>2. CASE i # x
    <3>1. From(i) \in 1..Len(q) /\ r[i] = q[From(i)] /\ (From(i) <= M <=> i <= M)
      BY <1>2, <2>2
    <3> QED BY <1>1, <3>1 DEF Slots
  <2> QED BY <2>1, <2>2
<1>6. Ordered(r, M)
  <2> SUFFICES ASSUME NEW i \in 1..Len(r), NEW j \in 1..Len(r), i < j, (j <= M \/ M < i)
               PROVE  r[i].frame_idx < r[j].frame_idx
    BY DEF Ordered
  <2>1. CASE i # x /\ j # x
    <3>1. /\ From(i) \in 1..Len(q) /\ From(j) \in 1..Len(q) /\ From(i) < From(j)
          /\ r[i] = q[From(i)] /\ r[j] = q[From(j)]
      BY <1>2, <2>1
    <3>2. From(j) <= M \/ M < From(i)
      BY <1>1, <1>2, <2>1, <3>1
    <3> QED BY <1>1, <3>1, <3>2 DEF Ordered
  <2>2. CASE i = x
    <3>1. From(j) \in 1..Len(q) /\ r[j] = q[From(j)] /\ ~(From(j) < x)
      BY <1>2, <2>2
    <3>2. From(j) \in x..Len(q)
      BY <1>1, <3>1
    <3> QED BY <1>2, <2>2, <3>1, <3>2
  <2>3. CASE j = x
    <3>1. From(i) \in 1..Len(q) /\ r[i] = q[From(i)] /\ From(i) < x /\ (From(i) <= M <=> i <= M)
      BY <1>2, <2>3
    <3>2. From(i) \in (M + 1)..(x - 1)
      BY <1>1, <2>3, <3>1
    <3> QED BY <1>2, <2>3, <3>1, <3>2
  <2> QED BY <2>1, <2>2, <2>3
<1>7. Len(r) - M <= mx + 1 /\ M \in 0..Len(r)
  BY <1>1, <1>2
<1> QED BY <1>1, <1>2, <1>3, <1>5, <1>6, <1>7 DEF ListOK

\* With a single stream it is complete at once.
LEMMA AppendList ==
    ASSUME NEW q, NEW M, NEW mx, ListOK(q, M, mx), Cardinality(Streams) = 1, NEW s \in Streams,
           NEW f \in 1..MaxFrame, Fresh(q, s, f), \A t \in Streams : t = s,
           NEW n, n.frame_idx = f, n.super_buf = [EmptySlots EXCEPT ![s] = f], n.matched = TRUE,
           NEW r, Inserted(q, r, Len(q) + 1, n), Unique(r)
    PROVE  ListOK(r, M + 1, mx)
<1>1. /\ q \in Seq(NodeType) /\ M \in Nat /\ Len(q) \in Nat /\ M = Len(q) /\ mx \in Nat
      /\ Marked(q, M) /\ Ordered(q, M) /\ Slots(q, M)
  BY DEF ListOK
<1>2. /\ r \in Seq(NodeType) /\ Len(r) = M + 1 /\ r[M + 1] = n
      /\ \A i \in 1..M : r[i] = q[i]
  BY <1>1 DEF Inserted
<1>3. Marked(r, M + 1)
  BY <1>1, <1>2 DEF Marked
<1>4. n.super_buf[s] = f
  BY DEF EmptySlots
<1>5. Slots(r, M + 1)
  <2> SUFFICES ASSUME NEW i \in 1..Len(r), NEW t \in Streams
               PROVE  r[i].super_buf[t] \in {0, r[i].frame_idx} /\ r[i].super_buf[t] # 0
    BY DEF Slots
  <2>1. CASE i = M + 1
    <3>1. r[i] = n /\ n.super_buf[t] = f
      BY <1>2, <1>4, <2>1
    <3>2. f # 0 /\ r[i].frame_idx = f
      BY <3>1
    <3> QED BY <3>1, <3>2
  <2>2. CASE i # M + 1
    <3>1. i \in 1..Len(q) /\ i <= M /\ r[i] = q[i]
      BY <1>1, <1>2, <2>2
    <3> QED BY <1>1, <3>1 DEF Slots
  <2> QED BY <2>1, <2>2
<1>6. Ordered(r, M + 1)
  <2> SUFFICES ASSUME NEW i \in 1..Len(r), NEW j \in 1..Len(r), i < j
               PROVE  r[i].frame_idx < r[j].frame_idx
    BY DEF Ordered
  <2>1. CASE j <= M
    <3>1. i \in 1..Len(q) /\ j \in 1..Len(q) /\ r[i] = q[i] /\ r[j] = q[j]
      BY <1>1, <1>2, <2>1
    <3> QED BY <1>1, <2>1, <3>1 DEF Ordered
  <2>2. CASE j = M + 1
    <3>1. i \in 1..Len(q) /\ i <= M /\ r[i] = q[i]
      BY <1>1, <1>2, <2>2
    <3>2. q[i].frame_idx = q[i].super_buf[s]
      BY <1>1, <3>1 DEF Slots
    <3> QED BY <1>1, <1>2, <2>2, <3>1, <3>2 DEF Fresh
  <2> QED BY <1>1, <1>2, <2>1, <2>2, SMTT(60)
<1> QED BY <1>1, <1>2, <1>3, <1>5, <1>6 DEF ListOK

-----------------------------------------------------------------------------
(* Which behaviours: frames are matched by their index, the channel links at *)
(* most one stream, and a start that fails has none to unlink.               *)

Matching == ~Setup.attr.low
Whole == /\ \A s, t \in Setup.linked : s = t
         /\ Setup.startMayFail => Setup.linked = {}

-----------------------------------------------------------------------------
(* The channel's record.  The handlers change it field by field. *)

ChanFields ==
    {"phase", "que", "match_cnt", "attr", "expected_frame_id",
     "expected_frame_id_without_led", "nomatch_frame_id", "diverted_frame_id",
     "led_off_start_frame_id", "frame_skip_count", "once", "pending_cnt", "pending_retro_cnt",
     "bWaitForPrepSnapshotDone", "unLockAEC", "stopZslSnapshot", "manualZSLSnapshot",
     "startZSlSnapshotCalled", "zslOn", "needLEDFlash", "needLowLightZSL", "burstSnapNum",
     "bracketingState", "isFlashBracketingEnabled", "isZoom1xFrameRequested", "isConfigCapture",
     "cur_capture_idx", "capture_frame_id", "frameConfig", "freed", "sent", "stuck"}

FieldInv(c) ==
    /\ DOMAIN c = ChanFields
    /\ c.attr \in AttrType /\ ~c.attr.low /\ c.nomatch_frame_id = 0
    /\ c.expected_frame_id \in Nat /\ c.expected_frame_id_without_led \in Nat
    /\ c.led_off_start_frame_id \in Nat /\ c.frame_skip_count \in Nat
    /\ c.pending_cnt \in Nat /\ c.pending_retro_cnt \in Nat
    /\ c.bWaitForPrepSnapshotDone \in BOOLEAN /\ c.unLockAEC \in BOOLEAN
    /\ c.capture_frame_id \in [0..(MaxBatch - 1) -> Nat] /\ c.cur_capture_idx \in Nat
    /\ c.isConfigCapture => c.cur_capture_idx + c.pending_cnt < MaxBatch
    /\ c.stuck = FALSE

Good(c) == FieldInv(c) /\ OutInv(c) /\ ListOK(c.que, c.match_cnt, c.attr.max_unmatched_frames)

-----------------------------------------------------------------------------
(* What a part of a handler may do to the channel. *)

\* The handlers' helpers take channel c to d: no buffer is lost or given twice, and
\* no node appears.
Core(c, d) ==
    /\ Good(d)
    /\ \A s \in Streams, f \in Frames : Total(d, s, f) = Total(c, s, f)
    /\ \A i \in 1..Len(d.que) : \E j \in 1..Len(c.que) : d.que[i] = c.que[j]
    /\ d.phase = c.phase

\* The same, the capture being where it was.
SameZsl(c, d) ==
    /\ d.zslOn = c.zslOn /\ d.manualZSLSnapshot = c.manualZSLSnapshot
    /\ d.startZSlSnapshotCalled = c.startZSlSnapshotCalled /\ d.pending_cnt = c.pending_cnt

Keeps(c, d) == Core(c, d) /\ SameZsl(c, d)

-----------------------------------------------------------------------------
(* The inductive invariant. *)

ZslInv(c) == c.zslOn => c.manualZSLSnapshot \/ (c.startZSlSnapshotCalled /\ c.pending_cnt > 0)

\* No slot holds a frame its stream has not delivered.
Recent(q, sq) == \A i \in 1..Len(q), s \in Streams : q[i].super_buf[s] \in {0} \cup 1..sq[s]

IInv ==
    /\ scene \in DOMAIN Scenes /\ Matching
    /\ Good(chan) /\ chan.freed = <<>> /\ chan.sent = <<>>
    /\ chan.phase \in {"STOPPED", "STARTING", "ACTIVE"}
    /\ chan.phase = "STOPPED" => chan.que = <<>>
    /\ seqno \in [Streams -> -1..MaxFrame] /\ Recent(chan.que, seqno)
    /\ owed \in [Streams -> [Frames -> Int]]
    /\ Whole => \A s \in Streams, f \in Frames : owed[s][f] = Held(chan.que, s, f)
    /\ sent \in Seq(SentType)
    /\ ZslInv(chan)

-----------------------------------------------------------------------------
(* What every helper of the handlers keeps. *)

\* d is c but for fields that steer the matching and the capture.
SameList(c, d) ==
    /\ d.que = c.que /\ d.match_cnt = c.match_cnt /\ d.attr = c.attr
    /\ d.freed = c.freed /\ d.sent = c.sent /\ d.phase = c.phase
Aside(c, d) == FieldInv(d) /\ SameList(c, d) /\ SameZsl(c, d)

LEMMA AsideCore ==
    ASSUME NEW c, Good(c), NEW d, FieldInv(d), SameList(c, d)
    PROVE  Core(c, d)
<1>1. OutInv(d) /\ \A s, f : References(c, s, f) \in Nat /\ References(d, s, f) = References(c, s, f)
  BY References_Same DEF Good, SameList
<1>2. Good(d)
  BY <1>1 DEF Good, SameList
<1> QED BY <1>1, <1>2 DEF Core, SameList, Total

LEMMA AsideKeeps ==
    ASSUME NEW c, Good(c), NEW d, Aside(c, d)
    PROVE  Keeps(c, d)
BY AsideCore DEF Aside, Keeps

LEMMA KeepsSame ==
    ASSUME NEW c, Good(c)
    PROVE  Keeps(c, c)
BY DEF Keeps, Core, SameZsl

LEMMA CoreTwice ==
    ASSUME NEW c, NEW d, NEW e, Core(c, d), Core(d, e)
    PROVE  Core(c, e)
<1>1. \A i \in 1..Len(e.que) : \E j \in 1..Len(c.que) : e.que[i] = c.que[j]
  BY DEF Core
<1> QED BY <1>1 DEF Core

LEMMA KeepsTwice ==
    ASSUME NEW c, NEW d, NEW e, Keeps(c, d), Keeps(d, e)
    PROVE  Keeps(c, e)
BY CoreTwice DEF Keeps, SameZsl

LEMMA SatType ==
    ASSUME NEW x \in Nat
    PROVE  Sat(x) \in Nat /\ Future(x) \in Nat
BY ConstantsOK DEF Sat, Future, Horizon

\* The nodes a to b leave the list and their buffers go back to the driver.
LEMMA CutCore ==
    ASSUME NEW c, Good(c), NEW a \in Nat \ {0}, NEW b \in 0..Len(c.que), a <= b + 1, NEW d,
           FieldInv(d), ListOK(d.que, d.match_cnt, d.attr.max_unmatched_frames),
           Cut(c.que, d.que, a, b),
           d.freed = Append(c.freed, BufsOf(c.que, a, b)), d.sent = c.sent, d.phase = c.phase
    PROVE  Core(c, d)
<1>1. c.que \in Seq(NodeType) /\ Unique(c.que) /\ OutInv(c) /\ Len(c.que) \in Nat
  BY DEF Good, ListOK
<1>2. BufsOf(c.que, a, b) \in FreedType
  BY <1>1, BufsOfType
<1>3. /\ OutInv(d)
      /\ \A s, f : /\ References(c, s, f) \in Nat
                   /\ References(d, s, f) = References(c, s, f)
                                 + (IF <<s, f>> \in BufsOf(c.que, a, b) THEN 1 ELSE 0)
  BY <1>1, <1>2, References_Freed
<1>4. \A s \in Streams, f \in Frames :
         Held(c.que, s, f) = Held(d.que, s, f) + (IF <<s, f>> \in BufsOf(c.que, a, b) THEN 1 ELSE 0)
  <2> SUFFICES ASSUME NEW s \in Streams, NEW f \in Frames
               PROVE  Held(c.que, s, f)
                      = Held(d.que, s, f) + (IF <<s, f>> \in BufsOf(c.que, a, b) THEN 1 ELSE 0)
    OBVIOUS
  <2> QED BY <1>1, CutLedger
<1>5. ASSUME NEW s \in Streams, NEW f \in Frames
      PROVE  Total(d, s, f) = Total(c, s, f)
  <2> DEFINE x == IF <<s, f>> \in BufsOf(c.que, a, b) THEN 1 ELSE 0
  <2>1. Held(d.que, s, f) \in Nat /\ x \in Nat /\ References(c, s, f) \in Nat
    BY <1>3 DEF Held
  <2>2. Held(c.que, s, f) = Held(d.que, s, f) + x /\ References(d, s, f) = References(c, s, f) + x
    BY <1>3, <1>4
  <2> HIDE DEF x
  <2> QED BY <2>1, <2>2 DEF Total
<1>6. ASSUME NEW i \in 1..Len(d.que) PROVE \E j \in 1..Len(c.que) : d.que[i] = c.que[j]
  <2>1. (IF i < a THEN i ELSE i + (b + 1 - a)) \in 1..Len(c.que)
    BY <1>1 DEF Cut
  <2> QED BY <2>1 DEF Cut
<1> QED BY <1>3, <1>5, <1>6 DEF Core, Good

LEMMA DropHeadFields ==
    ASSUME NEW c, FieldInv(c), NEW k
    PROVE  /\ FieldInv(DropHead(c, k)) /\ SameZsl(c, DropHead(c, k))
           /\ DropHead(c, k).que = SubSeq(c.que, k + 1, Len(c.que))
           /\ DropHead(c, k).match_cnt = c.match_cnt - k
           /\ DropHead(c, k).freed = Append(c.freed, BufsOf(c.que, 1, k))
           /\ DropHead(c, k).sent = c.sent /\ DropHead(c, k).phase = c.phase
           /\ DropHead(c, k).attr = c.attr
           /\ DropHead(c, k).isConfigCapture = c.isConfigCapture
<1> DEFINE B == UNION {Bufs(c.que[i]) : i \in 1..k}
<1>1. B = BufsOf(c.que, 1, k)
  BY DEF BufsOf
<1>2. DropHead(c, k) = [[c EXCEPT !.freed = Append(@, B)] EXCEPT
                         !.que = SubSeq(@, k + 1, Len(@)), !.match_cnt = @ - k]
  BY DEF DropHead, Qbuf
<1> HIDE DEF B
<1>3. /\ FieldInv(DropHead(c, k)) /\ SameZsl(c, DropHead(c, k))
      /\ DropHead(c, k).que = SubSeq(c.que, k + 1, Len(c.que))
      /\ DropHead(c, k).match_cnt = c.match_cnt - k
      /\ DropHead(c, k).freed = Append(c.freed, B)
      /\ DropHead(c, k).sent = c.sent /\ DropHead(c, k).phase = c.phase
      /\ DropHead(c, k).attr = c.attr
      /\ DropHead(c, k).isConfigCapture = c.isConfigCapture
  <2>1. DOMAIN c = ChanFields
    BY DEF FieldInv
  <2>2. PICK d, x, y, z : /\ d = DropHead(c, k) /\ x = Append(c.freed, B)
                          /\ y = SubSeq(c.que, k + 1, Len(c.que)) /\ z = c.match_cnt - k
    OBVIOUS
  <2>3. d = [c EXCEPT !.freed = x, !.que = y, !.match_cnt = z]
    BY <1>2, <2>1, <2>2 DEF ChanFields
  <2>4. FieldInv(d)
    BY <2>3 DEF FieldInv, ChanFields
  <2>5. /\ SameZsl(c, d) /\ d.que = y /\ d.match_cnt = z /\ d.freed = x
        /\ d.sent = c.sent /\ d.phase = c.phase /\ d.attr = c.attr
        /\ d.isConfigCapture = c.isConfigCapture
    BY <2>1, <2>3 DEF ChanFields, SameZsl
  <2> QED BY <2>2, <2>4, <2>5
<1> QED BY <1>1, <1>3

LEMMA DropHeadKeeps ==
    ASSUME NEW c, Good(c), NEW k \in 0..c.match_cnt
    PROVE  /\ Keeps(c, DropHead(c, k)) /\ DropHead(c, k).isConfigCapture = c.isConfigCapture
           /\ DropHead(c, k).match_cnt = c.match_cnt - k
<1>1. /\ c.que \in Seq(NodeType) /\ c.match_cnt \in Nat /\ Len(c.que) \in Nat
      /\ c.match_cnt <= Len(c.que) /\ k \in 0..Len(c.que)
  BY DEF Good, ListOK
<1>2. FieldInv(c)
  BY DEF Good
<1> DEFINE d == DropHead(c, k)
<1>3. /\ FieldInv(d) /\ SameZsl(c, d) /\ d.que = SubSeq(c.que, k + 1, Len(c.que))
      /\ d.match_cnt = c.match_cnt - k
      /\ d.freed = Append(c.freed, BufsOf(c.que, 1, k))
      /\ d.sent = c.sent /\ d.phase = c.phase /\ d.attr = c.attr
      /\ d.isConfigCapture = c.isConfigCapture
  BY <1>2, DropHeadFields
<1> HIDE DEF d
<1>4. Cut(c.que, d.que, 1, k)
  BY <1>1, <1>3, SubSeqCut
<1>5. ListOK(d.que, d.match_cnt, d.attr.max_unmatched_frames)
  BY <1>3, <1>4, CutMatched DEF Good
<1>6. Core(c, d)
  <2>1. 1 \in Nat \ {0} /\ 1 <= k + 1
    BY <1>1
  <2> QED BY <1>1, <1>3, <1>4, <1>5, <2>1, CutCore
<1>7. Keeps(c, d)
  BY <1>3, <1>6 DEF Keeps
<1> QED BY <1>3, <1>7 DEF d

\* The buffers of streams in T that are in the list.
BufsIn(q, T) == {x \in UNION {Bufs(q[i]) : i \in DOMAIN q} : x[1] \in T}

LEMMA FlushFields ==
    ASSUME NEW c, FieldInv(c), NEW T
    PROVE  /\ FieldInv(Flush(c, T)) /\ SameZsl(c, Flush(c, T))
           /\ Flush(c, T).que = <<>>
           /\ Flush(c, T).match_cnt = c.match_cnt - Cardinality(MatchedIn(c.que))
           /\ Flush(c, T).freed = Append(c.freed, BufsIn(c.que, T))
           /\ Flush(c, T).sent = c.sent /\ Flush(c, T).phase = c.phase
           /\ Flush(c, T).attr = c.attr /\ Flush(c, T).stuck = FALSE
<1> DEFINE m == Cardinality(MatchedIn(c.que))
<1>2. Flush(c, T) = [[c EXCEPT !.freed = Append(@, BufsIn(c.que, T))] EXCEPT
                       !.que = <<>>, !.match_cnt = @ - m]
  BY DEF Flush, Qbuf, BufsIn
<1> HIDE DEF m
<1>3. /\ FieldInv(Flush(c, T)) /\ SameZsl(c, Flush(c, T))
      /\ Flush(c, T).que = <<>> /\ Flush(c, T).match_cnt = c.match_cnt - m
      /\ Flush(c, T).freed = Append(c.freed, BufsIn(c.que, T))
      /\ Flush(c, T).sent = c.sent /\ Flush(c, T).phase = c.phase
      /\ Flush(c, T).attr = c.attr /\ Flush(c, T).stuck = FALSE
  BY <1>2 DEF FieldInv, ChanFields, SameZsl
<1> QED BY <1>3 DEF m

LEMMA FlushKeeps ==
    ASSUME NEW c, Good(c)
    PROVE  Keeps(c, Flush(c, Streams)) /\ Flush(c, Streams).que = <<>>
<1>1. c.que \in Seq(NodeType) /\ FieldInv(c) /\ c.match_cnt \in Nat
  BY DEF Good, ListOK
<1> DEFINE d == Flush(c, Streams)
<1>2. BufsIn(c.que, Streams) = BufsOf(c.que, 1, Len(c.que))
  <2>1. DOMAIN c.que = 1..Len(c.que)
    BY <1>1
  <2>2. \A i \in 1..Len(c.que) : \A x \in Bufs(c.que[i]) : x[1] \in Streams
    BY DEF Bufs
  <2> QED BY <2>1, <2>2 DEF BufsOf, BufsIn
<1>3. /\ FieldInv(d) /\ SameZsl(c, d) /\ d.que = <<>>
      /\ d.match_cnt = c.match_cnt - Cardinality(MatchedIn(c.que))
      /\ d.freed = Append(c.freed, BufsIn(c.que, Streams))
      /\ d.sent = c.sent /\ d.phase = c.phase /\ d.attr = c.attr
  BY <1>1, FlushFields
<1> HIDE DEF d
<1>4. d.match_cnt = 0
  BY <1>1, <1>3, Counts DEF Good
<1>5. ListOK(d.que, d.match_cnt, d.attr.max_unmatched_frames)
  <2>1. d.attr.max_unmatched_frames \in Nat
    BY <1>3 DEF FieldInv, AttrType
  <2> QED BY <1>3, <1>4, <2>1, EmptyList
<1>6. Cut(c.que, d.que, 1, Len(c.que))
  BY <1>1, <1>3, EmptyCut
<1>7. Core(c, d)
  <2>1. 1 \in Nat \ {0} /\ 1 <= Len(c.que) + 1 /\ Len(c.que) \in 0..Len(c.que)
    BY <1>1
  <2> QED BY <1>2, <1>3, <1>5, <1>6, <2>1, CutCore
<1> QED BY <1>3, <1>7 DEF Keeps, d

\* No loop of TrimTo meets an unmatched head.
LEMMA TrimToKeeps ==
    ASSUME NEW c, Good(c), NEW limit \in Nat
    PROVE  Keeps(c, TrimTo(c, limit))
<1>1. MatchedHead(c.que) = c.match_cnt /\ c.match_cnt \in Nat
  <2>1. ListOK(c.que, c.match_cnt, c.attr.max_unmatched_frames)
    BY DEF Good
  <2> QED BY <2>1, Counts DEF ListOK
<1>2. CASE c.attr.notify_mode = "CONTINUOUS" \/ c.match_cnt - limit <= 0
  BY <1>2, KeepsSame DEF TrimTo
<1>3. CASE ~(c.attr.notify_mode = "CONTINUOUS" \/ c.match_cnt - limit <= 0)
  <2>1. c.match_cnt - limit \in 0..c.match_cnt
    BY <1>1, <1>3
  <2>2. TrimTo(c, limit) = DropHead(c, c.match_cnt - limit)
    BY <1>1, <1>3, <2>1 DEF TrimTo
  <2> QED BY <2>1, <2>2, DropHeadKeeps
<1> QED BY <1>2, <1>3

LEMMA FlushMatchedKeeps ==
    ASSUME NEW c, Good(c)
    PROVE  Keeps(c, FlushMatched(c))
<1>1. MatchedHead(c.que) = c.match_cnt /\ c.match_cnt \in 0..c.match_cnt
  <2>1. ListOK(c.que, c.match_cnt, c.attr.max_unmatched_frames)
    BY DEF Good
  <2> QED BY <2>1, Counts DEF ListOK
<1> QED BY <1>1, DropHeadKeeps DEF FlushMatched

-----------------------------------------------------------------------------
(* Metadata *)

LEMMA MetaFields ==
    ASSUME NEW m \in MetaType
    PROVE  m.range.min \in Nat /\ m.range.max \in Nat /\ m.range.skip \in Nat /\ m.range.batch \in Nat
BY DEF MetaType

LEMMA MetaDivertAside ==
    ASSUME NEW c, FieldInv(c), NEW f, NEW m
    PROVE  Aside(c, MetaDivert(c, f, m))
BY DEF MetaDivert, Aside, SameList, SameZsl, FieldInv, ChanFields

LEMMA MetaLowLightAside ==
    ASSUME NEW c, FieldInv(c), NEW m
    PROVE  Aside(c, MetaLowLight(c, m))
BY DEF MetaLowLight, Aside, SameList, SameZsl, FieldInv, ChanFields

LEMMA MetaLedOffAside ==
    ASSUME NEW c, FieldInv(c), NEW f
    PROVE  Aside(c, MetaLedOff(c, f))
<1>1. c.led_off_start_frame_id + c.frame_skip_count \in Nat
  BY DEF FieldInv
<1>2. Sat(c.led_off_start_frame_id + c.frame_skip_count) \in Nat
  BY <1>1, SatType
<1> QED BY <1>2 DEF MetaLedOff, Aside, SameList, SameZsl, FieldInv, ChanFields

LEMMA MetaConfigBatchAside ==
    ASSUME NEW c, FieldInv(c), NEW m \in MetaType
    PROVE  Aside(c, MetaConfigBatch(c, m))
<1> DEFINE ids == [c.capture_frame_id EXCEPT ![m.range.batch] = m.range.min]
<1>1. ids \in [0..(MaxBatch - 1) -> Nat]
  BY MetaFields DEF FieldInv
<1>2. CASE c.isConfigCapture /\ m.range # NoRange /\ m.range.batch < Len(c.frameConfig)
  <2>1. ids[c.cur_capture_idx] \in Nat
    <3>1. c.cur_capture_idx \in 0..(MaxBatch - 1)
      BY <1>2, ConstantsOK DEF FieldInv
    <3> HIDE DEF ids
    <3> QED BY <1>1, <3>1
  <2>2. MetaConfigBatch(c, m) = [c EXCEPT !.capture_frame_id = ids,
                                          !.expected_frame_id = ids[c.cur_capture_idx]]
    BY <1>2 DEF MetaConfigBatch
  <2> HIDE DEF ids
  <2> QED BY <1>1, <2>1, <2>2 DEF Aside, SameList, SameZsl, FieldInv, ChanFields
<1>3. CASE ~(c.isConfigCapture /\ m.range # NoRange /\ m.range.batch < Len(c.frameConfig))
  BY <1>3 DEF MetaConfigBatch, Aside, SameList, SameZsl
<1> QED BY <1>2, <1>3

\* An expected frame id moved to the future.
LEMMA FutureAside ==
    ASSUME NEW c, FieldInv(c)
    PROVE  /\ Aside(c, [c EXCEPT !.expected_frame_id = Future(@)])
           /\ \A x : Aside(c, [c EXCEPT !.bWaitForPrepSnapshotDone = FALSE,
                                        !.expected_frame_id = Future(@), !.needLEDFlash = x])
<1>1. Future(c.expected_frame_id) \in Nat
  BY SatType DEF FieldInv
<1> QED BY <1>1 DEF Aside, SameList, SameZsl, FieldInv, ChanFields

LEMMA MetaPrepDoneKeeps ==
    ASSUME NEW c, Good(c), NEW m
    PROVE  Keeps(c, MetaPrepDone(c, m))
<1>1. CASE m.prep = "absent"
  BY <1>1, KeepsSame DEF MetaPrepDone
<1>2. CASE m.prep = "NEED_FUTURE_FRAME"
  <2> DEFINE d == Flush(c, Streams)
  <2>1. Keeps(c, d) /\ Good(d)
    BY FlushKeeps DEF Keeps, Core
  <2> HIDE DEF d
  <2>2. Keeps(d, [d EXCEPT !.bWaitForPrepSnapshotDone = FALSE,
                           !.expected_frame_id = Future(@), !.needLEDFlash = TRUE])
    BY <2>1, FutureAside, AsideKeeps DEF Good
  <2>3. MetaPrepDone(c, m) = [d EXCEPT !.bWaitForPrepSnapshotDone = FALSE,
                                       !.expected_frame_id = Future(@), !.needLEDFlash = TRUE]
    BY <1>2 DEF MetaPrepDone, d
  <2> QED BY <2>1, <2>2, <2>3, KeepsTwice
<1>3. CASE m.prep # "absent" /\ m.prep # "NEED_FUTURE_FRAME"
  <2>1. FieldInv(c)
    BY DEF Good
  <2>2. Aside(c, MetaPrepDone(c, m))
    BY <1>3, <2>1 DEF MetaPrepDone, Aside, SameList, SameZsl, FieldInv, ChanFields
  <2> QED BY <2>2, AsideKeeps
<1> QED BY <1>1, <1>2, <1>3

LEMMA MetaGoodRangeKeeps ==
    ASSUME NEW c, Good(c), NEW m \in MetaType
    PROVE  Keeps(c, MetaGoodRange(c, m))
<1>1. FieldInv(c)
  BY DEF Good
<1>2. CASE m.range # NoRange
  <2>1. m.range.min \in Nat /\ m.range.max \in Nat /\ m.range.skip \in Nat
    BY MetaFields
  <2>2. Aside(c, MetaGoodRange(c, m))
    BY <1>1, <1>2, <2>1 DEF MetaGoodRange, Aside, SameList, SameZsl, FieldInv, ChanFields
  <2> QED BY <2>2, AsideKeeps
<1>3. CASE m.range = NoRange /\ c.bracketingState = "WAIT_GOOD_FRAME_IDX" /\ m.prep = "absent"
  <2> DEFINE d == FlushMatched(c)
  <2>1. Keeps(c, d) /\ Good(d)
    BY FlushMatchedKeeps DEF Keeps, Core
  <2> HIDE DEF d
  <2>2. Keeps(d, [d EXCEPT !.expected_frame_id = Future(@)])
    BY <2>1, FutureAside, AsideKeeps DEF Good
  <2>3. MetaGoodRange(c, m) = [d EXCEPT !.expected_frame_id = Future(@)]
    BY <1>3 DEF MetaGoodRange, d
  <2> QED BY <2>1, <2>2, <2>3, KeepsTwice
<1>4. CASE m.range = NoRange /\ ~(c.bracketingState = "WAIT_GOOD_FRAME_IDX" /\ m.prep = "absent")
  BY <1>4, KeepsSame DEF MetaGoodRange
<1> QED BY <1>2, <1>3, <1>4

LEMMA HandleMetadataKeeps ==
    ASSUME NEW c, Good(c), NEW s, NEW f \in Frames, NEW m \in MetaType
    PROVE  Keeps(c, HandleMetadata(c, s, f, m))
<1> DEFINE d == MetaDivert(c, f, m)
<1>1. Keeps(c, d) /\ Good(d) /\ FieldInv(d)
  BY MetaDivertAside, AsideKeeps DEF Good, Keeps, Core
<1>2. CASE s # MetaStream \/ s \in Setup.linked
  BY <1>2, KeepsSame DEF HandleMetadata
<1>3. CASE ~(s # MetaStream \/ s \in Setup.linked) /\ d.isZoom1xFrameRequested /\ m.crop1x
  <2> HIDE DEF d
  <2>1. Sat(f + 1) \in Nat
    BY SatType DEF Frames
  <2>2. Aside(d, [d EXCEPT !.isZoom1xFrameRequested = FALSE, !.expected_frame_id = Sat(f + 1)])
    BY <1>1, <2>1 DEF Aside, SameList, SameZsl, FieldInv, ChanFields
  <2>3. HandleMetadata(c, s, f, m)
        = [d EXCEPT !.isZoom1xFrameRequested = FALSE, !.expected_frame_id = Sat(f + 1)]
    BY <1>3 DEF HandleMetadata, d
  <2> QED BY <1>1, <2>2, <2>3, AsideKeeps, KeepsTwice
<1>4. CASE ~(s # MetaStream \/ s \in Setup.linked) /\ d.isZoom1xFrameRequested /\ ~m.crop1x
  <2> DEFINE e == [d EXCEPT !.expected_frame_id = Future(@)]
  <2>1. HandleMetadata(c, s, f, m) = FlushMatched(e)
    BY <1>4 DEF HandleMetadata
  <2> HIDE DEF d
  <2>2. Keeps(d, e)
    BY <1>1, FutureAside, AsideKeeps
  <2> HIDE DEF e
  <2>3. Keeps(e, FlushMatched(e))
    BY <2>2, FlushMatchedKeeps DEF Keeps, Core
  <2> QED BY <1>1, <2>1, <2>2, <2>3, KeepsTwice
<1>5. CASE ~(s # MetaStream \/ s \in Setup.linked) /\ ~d.isZoom1xFrameRequested
  <2> DEFINE d1 == MetaPrepDone(d, m)
             d2 == MetaGoodRange(d1, m)
             d3 == MetaConfigBatch(d2, m)
             d4 == MetaLedOff(d3, f)
             d5 == MetaLowLight(d4, m)
  <2>1. HandleMetadata(c, s, f, m) = d5
    BY <1>5 DEF HandleMetadata
  <2> HIDE DEF d
  <2>2. Keeps(c, d1)
    BY <1>1, MetaPrepDoneKeeps, KeepsTwice
  <2> HIDE DEF d1
  <2>3. Keeps(c, d2)
    <3>1. Keeps(d1, d2)
      BY <2>2, MetaGoodRangeKeeps DEF Keeps, Core
    <3> QED BY <2>2, <3>1, KeepsTwice
  <2> HIDE DEF d2
  <2>4. Keeps(c, d3)
    <3>1. Good(d2) /\ FieldInv(d2)
      BY <2>3 DEF Keeps, Core, Good
    <3>2. Keeps(d2, d3)
      BY <3>1, MetaConfigBatchAside, AsideKeeps
    <3> QED BY <2>3, <3>2, KeepsTwice
  <2> HIDE DEF d3
  <2>5. Keeps(c, d4)
    <3>1. Good(d3) /\ FieldInv(d3)
      BY <2>4 DEF Keeps, Core, Good
    <3>2. Keeps(d3, d4)
      BY <3>1, MetaLedOffAside, AsideKeeps
    <3> QED BY <2>4, <3>2, KeepsTwice
  <2> HIDE DEF d4
  <2>6. Keeps(c, d5)
    <3>1. Good(d4) /\ FieldInv(d4)
      BY <2>5 DEF Keeps, Core, Good
    <3>2. Keeps(d4, d5)
      BY <3>1, MetaLowLightAside, AsideKeeps
    <3> QED BY <2>5, <3>2, KeepsTwice
  <2> QED BY <2>1, <2>6
<1> QED BY <1>2, <1>3, <1>4, <1>5

-----------------------------------------------------------------------------
(* A frame comes in *)

\* d is c with buffer f of stream s taken in: held by the list or given back.
Takes(c, d, s, f) ==
    /\ Good(d) /\ SameZsl(c, d) /\ d.phase = c.phase
    /\ \A t \in Streams, g \in Frames :
          Total(d, t, g) = Total(c, t, g) + (IF <<t, g>> = <<s, f>> THEN 1 ELSE 0)
    /\ \A i \in 1..Len(d.que), t \in Streams :
          \/ d.que[i].super_buf[t] = 0
          \/ t = s /\ d.que[i].super_buf[t] = f
          \/ \E j \in 1..Len(c.que) : d.que[i].super_buf[t] = c.que[j].super_buf[t]

LEMMA KeepsTakes ==
    ASSUME NEW c, NEW d, NEW e, NEW s, NEW f, Keeps(c, d), Takes(d, e, s, f)
    PROVE  Takes(c, e, s, f)
<1>1. SameZsl(c, e) /\ e.phase = c.phase /\ Good(e)
  BY DEF Keeps, Core, Takes, SameZsl
<1>2. \A t \in Streams, g \in Frames :
         Total(e, t, g) = Total(c, t, g) + (IF <<t, g>> = <<s, f>> THEN 1 ELSE 0)
  BY DEF Keeps, Core, Takes
<1>3. ASSUME NEW i \in 1..Len(e.que), NEW t \in Streams, e.que[i].super_buf[t] # 0,
             ~(t = s /\ e.que[i].super_buf[t] = f)
      PROVE  \E j \in 1..Len(c.que) : e.que[i].super_buf[t] = c.que[j].super_buf[t]
  <2>1. PICK k \in 1..Len(d.que) : e.que[i].super_buf[t] = d.que[k].super_buf[t]
    BY <1>3 DEF Takes
  <2>2. PICK j \in 1..Len(c.que) : d.que[k] = c.que[j]
    BY DEF Keeps, Core
  <2> QED BY <2>1, <2>2
<1> QED BY <1>1, <1>2, <1>3 DEF Takes

LEMMA FreshKept ==
    ASSUME NEW c, NEW d, NEW s, NEW f, Keeps(c, d), Fresh(c.que, s, f)
    PROVE  Fresh(d.que, s, f)
BY DEF Keeps, Core, Fresh

\* The buffer goes straight back.
LEMMA QbufTakes ==
    ASSUME NEW c, Good(c), NEW s \in Streams, NEW f \in Frames, NEW d, FieldInv(d), SameZsl(c, d),
           d.que = c.que, d.match_cnt = c.match_cnt, d.attr = c.attr, d.phase = c.phase,
           d.sent = c.sent, d.freed = Append(c.freed, {<<s, f>>})
    PROVE  Takes(c, d, s, f)
<1> DEFINE B == {<<s, f>>}
<1>1. B \in FreedType /\ OutInv(c) /\ \A x : x \in B <=> x = <<s, f>>
  BY DEF FreedType, Good
<1>2. /\ OutInv(d)
      /\ \A t, g : /\ References(c, t, g) \in Nat
                   /\ References(d, t, g) = References(c, t, g) + (IF <<t, g>> \in B THEN 1 ELSE 0)
  <2> HIDE DEF B
  <2>1. d.freed = Append(c.freed, B)
    BY DEF B
  <2> QED BY <1>1, <2>1, References_Freed, SMTT(60)
<1> HIDE DEF B
<1>3. Good(d)
  BY <1>2 DEF Good
<1>4. ASSUME NEW t \in Streams, NEW g \in Frames
      PROVE  Total(d, t, g) = Total(c, t, g) + (IF <<t, g>> = <<s, f>> THEN 1 ELSE 0)
  <2> DEFINE x == IF <<t, g>> = <<s, f>> THEN 1 ELSE 0
  <2>1. Held(c.que, t, g) \in Nat /\ x \in Nat /\ References(c, t, g) \in Nat
    BY <1>2 DEF Held
  <2>2. References(d, t, g) = References(c, t, g) + x
    BY <1>1, <1>2
  <2>3. Held(d.que, t, g) = Held(c.que, t, g)
    OBVIOUS
  <2> HIDE DEF x
  <2>4. Total(d, t, g) = Total(c, t, g) + x
    BY <2>1, <2>2, <2>3 DEF Total
  <2> QED BY <2>4 DEF x
<1> QED BY <1>3, <1>4 DEF Takes

LEMMA FirstOfIs ==
    ASSUME NEW S \in SUBSET Nat
    PROVE  /\ S = {} => FirstOf(S) = 0
           /\ S # {} => FirstOf(S) \in S /\ \A j \in S : FirstOf(S) <= j
<1>1. ASSUME S # {} PROVE \E n \in S : \A j \in S : n <= j
  <2>1. PICK n \in S : \A k \in S : <<k, n>> \notin OpToRel(<, Nat)
    BY <1>1, NatLessThanWellFounded, WFMin, Zenon
  <2>2. ASSUME NEW j \in S PROVE n <= j
    <3>1. j < n => <<j, n>> \in OpToRel(<, Nat)
      BY Zenon DEF OpToRel
    <3>2. ~(j < n)
      BY <2>1, <3>1
    <3>3. j \in Nat /\ n \in Nat
      OBVIOUS
    <3> QED BY <3>2, <3>3
  <2> QED BY <2>2
<1>2. ASSUME S # {} PROVE FirstOf(S) \in S /\ \A j \in S : FirstOf(S) <= j
  <2>1. FirstOf(S) = CHOOSE i \in S : \A j \in S : i <= j
    BY <1>2 DEF FirstOf
  <2> QED BY <1>1, <1>2, <2>1
<1>3. S = {} => FirstOf(S) = 0
  BY DEF FirstOf
<1> QED BY <1>2, <1>3

LEMMA FitsIs ==
    ASSUME NEW c, FieldInv(c), NEW n, NEW s, NEW f
    PROVE  Fits(c, n, s, f) <=> ~n.matched /\ n.frame_idx = f
BY DEF Fits, FieldInv

LEMMA ExpectAside ==
    ASSUME NEW c, FieldInv(c), NEW f \in Frames
    PROVE  Aside(c, ExpectAfterMatch(c, f))
<1>1. f + c.attr.post_frame_skip \in Nat
  BY DEF FieldInv, AttrType, Frames
<1>2. Sat(f + c.attr.post_frame_skip) \in Nat
  BY <1>1, SatType
<1> QED BY <1>2 DEF ExpectAfterMatch, Aside, SameList, SameZsl, FieldInv, ChanFields

\* Completing a node releases all the unmatched nodes before it.
LEMMA StaleIs ==
    ASSUME NEW c, NEW M, NEW mx, ListOK(c.que, M, mx), NEW pos \in (M + 1)..Len(c.que),
           NEW f, c.que[pos].frame_idx = f
    PROVE  Stale(c, pos, f) = (M + 1)..(pos - 1)
<1>1. /\ c.que \in Seq(NodeType) /\ M \in Nat /\ Len(c.que) \in Nat /\ Ordered(c.que, M)
      /\ pos \in 1..Len(c.que)
  BY DEF ListOK
<1>2. Unmatched(c.que) = (M + 1)..Len(c.que)
  BY Counts
<1>3. \A i \in (M + 1)..(pos - 1) : c.que[i].frame_idx < f
  BY <1>1 DEF Ordered
<1>4. {i \in Older(c, f) : i < pos} = (M + 1)..(pos - 1)
  BY <1>1, <1>2, <1>3 DEF Older
<1> DEFINE S == (M + 1)..(pos - 1)
<1>5. Stale(c, pos, f) = IF FirstOf(S) = 0 THEN {} ELSE FirstOf(S)..(pos - 1)
  BY <1>4 DEF Stale
<1>6. S \in SUBSET Nat /\ 0 \notin S
  BY <1>1
<1>7. CASE S = {}
  BY <1>5, <1>6, <1>7, FirstOfIs
<1>8. CASE S # {}
  <2>1. M + 1 \in S /\ \A j \in S : M + 1 <= j
    BY <1>1, <1>8
  <2> HIDE DEF S
  <2>2. FirstOf(S) \in S /\ \A j \in S : FirstOf(S) <= j
    BY <1>6, <1>8, FirstOfIs
  <2>3. FirstOf(S) \in Nat /\ M + 1 \in Nat /\ FirstOf(S) <= M + 1 /\ M + 1 <= FirstOf(S)
    BY <1>6, <2>1, <2>2
  <2>4. FirstOf(S) = M + 1
    BY <2>3
  <2>5. FirstOf(S) # 0
    BY <1>6, <2>2
  <2> QED BY <1>5, <2>4, <2>5
<1> QED BY <1>7, <1>8

\* Sums of the ledger and a position behind a cut.
LEMMA Carried ==
    ASSUME NEW c, NEW e, NEW r, NEW t, NEW g, NEW x \in Nat, NEW y \in Nat,
           References(c, t, g) \in Nat, References(e, t, g) = References(c, t, g) + y,
           Held(r, t, g) = Held(c.que, t, g) + x, Held(r, t, g) = Held(e.que, t, g) + y
    PROVE  Total(e, t, g) = Total(c, t, g) + x
<1>1. Held(c.que, t, g) \in Nat /\ Held(e.que, t, g) \in Nat
  BY DEF Held
<1> QED BY <1>1 DEF Total

LEMMA CutPlace ==
    ASSUME NEW L \in Nat, NEW M \in Nat, NEW b \in Nat, M + 1 <= b + 1, b <= L,
           NEW N, N = L - (b + 1 - (M + 1)), NEW i \in 1..N
    PROVE  (IF i < M + 1 THEN i ELSE i + (b + 1 - (M + 1))) \in 1..L
OBVIOUS

Awaits(n, s, f) == ~n.matched /\ n.frame_idx = f /\ n.super_buf[s] = 0

\* The frame joins the node at pos.
LEMMA JoinTakes ==
    ASSUME NEW c, Good(c), NEW s \in Streams, NEW f \in 1..MaxFrame, Fresh(c.que, s, f),
           NEW pos \in 1..Len(c.que), Awaits(c.que[pos], s, f)
    PROVE  Takes(c, JoinNode(c, pos, s, f), s, f)
<1> DEFINE q == c.que
           M == c.match_cnt
           mx == c.attr.max_unmatched_frames
           filled == [q[pos].super_buf EXCEPT ![s] = f]
           full == \A t \in Streams : filled[t] # 0
           divert == ~full /\ c.diverted_frame_id = f
           node == [q[pos] EXCEPT !.super_buf = filled, !.matched = full,
                                  !.expected = IF full THEN FALSE ELSE @ \/ divert]
           stale == IF full THEN Stale(c, pos, f) ELSE {}
           b == IF full THEN pos - 1 ELSE M
           r == [q EXCEPT ![pos] = node]
           p == Without(r, stale)
           e == JoinNode(c, pos, s, f)
           d == IF full THEN [ExpectAfterMatch(c, f) EXCEPT !.match_cnt = @ + 1] ELSE c
<1>1. /\ q \in Seq(NodeType) /\ M \in Nat /\ Len(q) \in Nat /\ M <= Len(q) /\ mx \in Nat
      /\ ListOK(q, M, mx) /\ Marked(q, M) /\ Unique(q) /\ FieldInv(c) /\ OutInv(c)
  BY DEF Good, ListOK
<1>2. pos \in (M + 1)..Len(q)
  BY <1>1 DEF Marked, Awaits
<1>3. stale = (M + 1)..b
  <2>1. Stale(c, pos, f) = (M + 1)..(pos - 1)
    <3>1. ListOK(c.que, M, mx) /\ pos \in (M + 1)..Len(c.que)
      BY <1>1, <1>2
    <3>2. c.que[pos].frame_idx = f
      BY DEF Awaits
    <3> HIDE DEF M, mx, q
    <3> QED BY <3>1, <3>2, StaleIs
  <2>2. (M + 1)..M = {}
    BY <1>1
  <2> HIDE DEF full, M
  <2> QED BY <2>1, <2>2
<1>4. f \in Frames /\ f # 0
  BY DEF Frames
<1>5. q[pos] \in NodeType /\ q[pos].super_buf \in [Streams -> SlotIds]
  BY <1>1, Nodes
<1>6. filled \in [Streams -> SlotIds]
  BY <1>5 DEF SlotIds
<1>7. node \in NodeType /\ node.frame_idx = f /\ node.super_buf = filled /\ node.matched = full
  <2> HIDE DEF filled, full, divert
  <2>1. full \in BOOLEAN /\ divert \in BOOLEAN
    BY DEF full, divert
  <2> QED BY <1>5, <1>6, <2>1 DEF NodeType, Awaits
<1> HIDE DEF node
<1>8. Filled(q, r, pos, s, f) /\ r[pos] = node
  BY <1>1, <1>5, <1>7 DEF Filled, Awaits
<1>9. /\ Unique(r)
      /\ \A t \in Streams, g \in Frames :
            Held(r, t, g) = Held(q, t, g) + (IF <<t, g>> = <<s, f>> THEN 1 ELSE 0)
  <2> HIDE DEF q, r
  <2>1. Fresh(q, s, f) /\ q[pos].super_buf[s] = 0 /\ pos \in 1..Len(q)
    BY DEF q, Awaits
  <2> QED BY <1>1, <1>8, <2>1, FillLedger
<1>10. /\ r \in Seq(NodeType) /\ Len(r) = Len(q) /\ M + 1 \in Nat \ {0} /\ b \in 0..Len(r)
       /\ M + 1 <= b + 1 /\ b < pos
  BY <1>1, <1>2, <1>8 DEF Filled
<1>11. Cut(r, p, M + 1, b)
  <2> HIDE DEF r, b, stale
  <2> QED BY <1>3, <1>10, WithoutCut
<1>12. ListOK(p, IF full THEN M + 1 ELSE M, mx)
  <2>1. CASE full
    <3>1. Cut(r, p, M + 1, pos - 1)
      BY <1>11, <2>1
    <3>2. r[pos].matched = TRUE /\ \A t \in Streams : r[pos].super_buf[t] # 0
      BY <1>7, <1>8, <2>1
    <3> HIDE DEF r, p, q, filled, full
    <3>3. Fresh(q, s, f) /\ q[pos].frame_idx = f
      BY DEF q, Awaits
    <3> QED BY <1>1, <1>2, <1>8, <1>9, <2>1, <3>1, <3>2, <3>3, CompleteList
  <2>2. CASE ~full
    <3>1. Cut(r, p, M + 1, M)
      BY <1>11, <2>2
    <3>2. p = r
      <4>1. Len(p) = Len(r) /\ p \in Seq(NodeType) /\ r \in Seq(NodeType)
        <5>1. p \in Seq(NodeType) /\ Len(p) = Len(r) - (M + 1 - (M + 1))
          <6> HIDE DEF p, r, M
          <6> QED BY <3>1 DEF Cut
        <5>2. r \in Seq(NodeType) /\ Len(r) \in Nat /\ M \in Nat
          BY <1>1, <1>10
        <5> HIDE DEF p, r, M
        <5> QED BY <5>1, <5>2
      <4>2. \A k \in 1..Len(p) : p[k] = r[k]
        <5> HIDE DEF p, r, M
        <5>1. \A k \in 1..Len(p) : p[k] = r[IF k < M + 1 THEN k ELSE k + (M + 1 - (M + 1))]
          BY <3>1 DEF Cut
        <5>2. \A k \in 1..Len(p) : (IF k < M + 1 THEN k ELSE k + (M + 1 - (M + 1))) = k
          BY <1>1, <4>1
        <5> QED BY <5>1, <5>2
      <4> HIDE DEF p, r
      <4> QED BY <4>1, <4>2
    <3>3. ~r[pos].matched
      BY <1>7, <1>8, <2>2
    <3> HIDE DEF r, p, q, filled, full
    <3>4. q[pos].frame_idx = f
      BY DEF q, Awaits
    <3>5. ListOK(r, M, mx)
      BY <1>1, <1>2, <1>8, <1>9, <3>3, <3>4, FillList
    <3> QED BY <2>2, <3>2, <3>5
  <2> QED BY <2>1, <2>2
<1>13. UNION {Bufs(q[i]) : i \in stale} = BufsOf(r, M + 1, b)
  <2>1. \A i \in stale : r[i] = q[i]
    <3> HIDE DEF b, stale, r, q
    <3> QED BY <1>1, <1>2, <1>3, <1>8, <1>10 DEF Filled
  <2> HIDE DEF b, stale, r, q
  <2> QED BY <1>3, <2>1 DEF BufsOf
<1>14. FieldInv(d) /\ SameZsl(c, d) /\ d.freed = c.freed /\ d.sent = c.sent /\ d.phase = c.phase
       /\ d.attr = c.attr /\ d.match_cnt = IF full THEN M + 1 ELSE M
  <2> DEFINE x == ExpectAfterMatch(c, f)
  <2>1. Aside(c, x)
    BY <1>1, <1>4, ExpectAside
  <2>2. FieldInv(x) /\ SameList(c, x) /\ SameZsl(c, x)
    BY <2>1 DEF Aside
  <2> HIDE DEF x, full
  <2>3. CASE full
    <3>1. d = [x EXCEPT !.match_cnt = @ + 1]
      BY <2>3 DEF x
    <3> HIDE DEF d
    <3> QED BY <2>2, <2>3, <3>1 DEF SameList, SameZsl, FieldInv, ChanFields
  <2>4. CASE ~full
    BY <1>1, <2>4 DEF SameZsl
  <2> QED BY <2>3, <2>4
<1>15. /\ FieldInv(e) /\ SameZsl(c, e) /\ e.que = p
       /\ e.match_cnt = (IF full THEN M + 1 ELSE M)
       /\ e.freed = Append(c.freed, BufsOf(r, M + 1, b))
       /\ e.sent = c.sent /\ e.phase = c.phase /\ e.attr = c.attr
  <2> DEFINE B == UNION {Bufs(q[i]) : i \in stale}
  <2>0. d.que = q
    <3>1. DOMAIN ExpectAfterMatch(c, f) = ChanFields /\ ExpectAfterMatch(c, f).que = q
      BY <1>1, <1>4, ExpectAside DEF Aside, SameList, FieldInv
    <3> HIDE DEF full
    <3> QED BY <3>1 DEF ChanFields
  <2>1. e = [Qbuf(d, B) EXCEPT !.que = Without([@ EXCEPT ![pos] = node], stale),
                               !.diverted_frame_id = IF divert THEN 0 ELSE @,
                               !.nomatch_frame_id = 0]
    BY DEF JoinNode, node
  <2> HIDE DEF d, stale, e, divert, B, full, b
  <2>2. /\ FieldInv(e) /\ SameZsl(d, e) /\ e.que = Without([d.que EXCEPT ![pos] = node], stale)
        /\ e.match_cnt = d.match_cnt /\ e.freed = Append(d.freed, B)
        /\ e.sent = d.sent /\ e.phase = d.phase /\ e.attr = d.attr
    BY <1>14, <2>1 DEF Qbuf, SameZsl, FieldInv, ChanFields
  <2>3. e.que = p
    BY <2>0, <2>2
  <2>4. B = BufsOf(r, M + 1, b)
    BY <1>13 DEF B
  <2>5. SameZsl(c, e)
    BY <1>14, <2>2 DEF SameZsl
  <2> HIDE DEF p, r
  <2> QED BY <1>14, <2>2, <2>3, <2>4, <2>5
<1> HIDE DEF r, p, e, b, stale, full, filled, divert, d
<1>16. BufsOf(r, M + 1, b) \in FreedType
  BY <1>10, BufsOfType
<1>17. /\ OutInv(e)
       /\ \A t, g : /\ References(c, t, g) \in Nat
                    /\ References(e, t, g) = References(c, t, g)
                                  + (IF <<t, g>> \in BufsOf(r, M + 1, b) THEN 1 ELSE 0)
  BY <1>1, <1>15, <1>16, References_Freed
<1>18. Good(e)
  BY <1>12, <1>15, <1>17 DEF Good
<1>19. ASSUME NEW t \in Streams, NEW g \in Frames
       PROVE  Total(e, t, g) = Total(c, t, g) + (IF <<t, g>> = <<s, f>> THEN 1 ELSE 0)
  <2> DEFINE x == IF <<t, g>> = <<s, f>> THEN 1 ELSE 0
             y == IF <<t, g>> \in BufsOf(r, M + 1, b) THEN 1 ELSE 0
  <2>1. /\ Held(q, t, g) \in Nat /\ Held(p, t, g) \in Nat /\ x \in Nat /\ y \in Nat
        /\ References(c, t, g) \in Nat
    BY <1>17 DEF Held
  <2>2. References(e, t, g) = References(c, t, g) + y
    BY <1>17
  <2>3. Held(r, t, g) = Held(q, t, g) + x
    BY <1>9
  <2>4. Held(r, t, g) = Held(p, t, g) + y
    BY <1>9, <1>10, <1>11, CutLedger
  <2>5. Held(r, t, g) = Held(e.que, t, g) + y
    BY <1>15, <2>4
  <2> HIDE DEF x, y
  <2>7. Total(e, t, g) = Total(c, t, g) + x
    BY <2>1, <2>2, <2>3, <2>5, Carried
  <2> QED BY <2>7 DEF x
<1>20. ASSUME NEW i \in 1..Len(e.que), NEW t \in Streams
       PROVE  \/ e.que[i].super_buf[t] = 0
              \/ t = s /\ e.que[i].super_buf[t] = f
              \/ \E j \in 1..Len(c.que) : e.que[i].super_buf[t] = c.que[j].super_buf[t]
  <2>1. PICK k \in 1..Len(r) : p[i] = r[k]
    <3>1. i \in 1..Len(p) /\ Len(p) = Len(r) - (b + 1 - (M + 1)) /\ M \in Nat /\ Len(r) \in Nat
          /\ b \in Nat /\ M + 1 <= b + 1 /\ b <= Len(r)
      BY <1>1, <1>10, <1>11, <1>15 DEF Cut
    <3>2. (IF i < M + 1 THEN i ELSE i + (b + 1 - (M + 1))) \in 1..Len(r)
      <4> HIDE DEF M
      <4> QED BY <3>1, CutPlace
    <3> QED BY <1>11, <3>1, <3>2 DEF Cut
  <2>2. CASE k # pos
    BY <1>8, <1>10, <1>15, <2>1, <2>2 DEF Filled
  <2>3. CASE k = pos
    <3>1. e.que[i].super_buf[t] = filled[t]
      BY <1>7, <1>8, <1>15, <2>1, <2>3
    <3>2. t # s => filled[t] = q[pos].super_buf[t]
      BY <1>5 DEF filled
    <3>3. filled[s] = f
      BY <1>5 DEF filled
    <3> QED BY <3>1, <3>2, <3>3
  <2> QED BY <2>2, <2>3
<1>21. Takes(c, e, s, f)
  BY <1>15, <1>18, <1>19, <1>20 DEF Takes
<1> QED BY <1>21 DEF e

\* At most one unmatched node makes room, and then there is room.
LEMMA EvictedIs ==
    ASSUME NEW c, Good(c), NEW f, ~(Excess(c) > 0 /\ Older(c, f) = {}),
           NEW M, M = c.match_cnt, NEW mx, mx = c.attr.max_unmatched_frames
    PROVE  \/ Evicted(c, f) = (M + 1)..M /\ Len(c.que) - M <= mx
           \/ \E e \in (M + 1)..Len(c.que) : Evicted(c, f) = e..e
<1>1. /\ c.que \in Seq(NodeType) /\ M \in Nat /\ Len(c.que) \in Nat /\ mx \in Nat
      /\ ListOK(c.que, M, mx) /\ Len(c.que) - M <= mx + 1
  BY DEF Good, ListOK
<1>2. /\ Unmatched(c.que) = (M + 1)..Len(c.que)
      /\ Cardinality(Unmatched(c.que)) = Len(c.que) - M
  BY <1>1, Counts
<1>3. Excess(c) = Len(c.que) - M - mx
  BY <1>2 DEF Excess
<1> DEFINE need == Excess(c)
           last == FirstOf(Older(c, f))
           spare == {i \in last..Len(c.que) : ~c.que[i].expected /\ i # FirstOf(Newer(c, f))}
           taken == {i \in spare : Cardinality({j \in spare : j <= i}) <= need}
<1>4. Evicted(c, f) = IF need <= 0 THEN {}
                      ELSE IF Cardinality(taken) < need THEN taken \cup {last} ELSE taken
  BY DEF Evicted
<1>5. CASE need <= 0
  <2>1. (M + 1)..M = {}
    BY <1>1
  <2>2. Len(c.que) - M <= mx
    BY <1>1, <1>3, <1>5
  <2> QED BY <1>4, <1>5, <2>1, <2>2
<1>6. CASE need > 0
  <2>1. need = 1
    BY <1>1, <1>3, <1>6
  <2>2. Older(c, f) # {} /\ Older(c, f) \subseteq (M + 1)..Len(c.que)
    BY <1>2, <1>6 DEF Older
  <2>3. last \in (M + 1)..Len(c.que)
    <3>1. Older(c, f) \in SUBSET Nat
      BY <1>1, <2>2
    <3> QED BY <2>2, <3>1, FirstOfIs
  <2>4. spare \in SUBSET ((M + 1)..Len(c.que)) /\ spare \in SUBSET Nat
    BY <1>1, <2>3
  <2> HIDE DEF spare, last, need
  <2>5. CASE spare = {}
    <3>1. taken = {} /\ Cardinality({}) = 0
      BY <2>5, FS_EmptySet
    <3> HIDE DEF taken
    <3>2. ~(need <= 0) /\ Cardinality(taken) < need /\ taken \cup {last} = {last}
      BY <2>1, <3>1
    <3>4. Evicted(c, f) = {last}
      BY <1>4, <3>2, Zenon
    <3>3. {last} = last..last
      BY <1>1, <2>3
    <3> QED BY <2>3, <3>3, <3>4
  <2>6. CASE spare # {}
    <3>1. PICK k \in spare : \A j \in spare : k <= j
      BY <2>4, <2>6, FirstOfIs
    <3>2. {j \in spare : j <= k} = {k}
      <4>1. \A j \in spare : j \in Nat /\ (j <= k => j = k)
        BY <2>4, <3>1
      <4> QED BY <4>1
    <3>3. Cardinality({k}) = 1
      BY FS_Singleton
    <3>4. ASSUME NEW i \in spare, i # k PROVE ~(Cardinality({j \in spare : j <= i}) <= 1)
      <4>1. IsFiniteSet((M + 1)..Len(c.que))
        <5>1. M + 1 \in Int /\ Len(c.que) \in Int
          BY <1>1
        <5> QED BY <5>1, FS_Interval
      <4>2. IsFiniteSet({j \in spare : j <= i})
        BY <2>4, <4>1, FS_Subset
      <4>3. {i, k} \in SUBSET {j \in spare : j <= i}
        BY <2>4, <3>1
      <4>4. Cardinality({k} \cup {i}) = Cardinality({k}) + 1
        BY <3>4, FS_Singleton, FS_AddElement
      <4>5. {k} \cup {i} = {i, k}
        OBVIOUS
      <4>6. Cardinality({i, k}) = 2
        BY <3>3, <4>4, <4>5
      <4>7. 2 <= Cardinality({j \in spare : j <= i}) /\ Cardinality({j \in spare : j <= i}) \in Nat
        BY <4>2, <4>3, <4>6, FS_Subset, FS_CardinalityType
      <4> QED BY <4>7
    <3>5. taken = {k}
      BY <2>1, <3>2, <3>3, <3>4
    <3> HIDE DEF taken
    <3>6. Evicted(c, f) = {k}
      BY <1>4, <2>1, <3>3, <3>5
    <3>7. k \in (M + 1)..Len(c.que) /\ {k} = k..k
      BY <1>1, <2>4
    <3> QED BY <3>6, <3>7
  <2> QED BY <2>5, <2>6
<1>7. need \in Int
  BY <1>1, <1>3
<1> QED BY <1>5, <1>6, <1>7

\* No unmatched node waits for frame f.
NoneAwaits(q, f) == \A i \in 1..Len(q) : ~q[i].matched => q[i].frame_idx # f

\* The node opened for frame f of stream s.
NodeOf(n, s, f) ==
    /\ n \in NodeType /\ n.frame_idx = f /\ n.super_buf = [EmptySlots EXCEPT ![s] = f]
    /\ n.matched = (Cardinality(Streams) = 1)

LEMMA NewNodeIs ==
    ASSUME NEW s \in Streams, NEW f \in 1..MaxFrame, NEW x \in BOOLEAN
    PROVE  NodeOf([NewNode(s, f, x) EXCEPT !.matched = (Cardinality(Streams) = 1)], s, f)
<1> DEFINE single == Cardinality(Streams) = 1
           slots == [EmptySlots EXCEPT ![s] = f]
<1>1. slots \in [Streams -> SlotIds]
  <2>1. f \in SlotIds /\ 0 \in SlotIds
    BY ConstantsOK DEF SlotIds
  <2> QED BY <2>1 DEF EmptySlots
<1>2. single \in BOOLEAN
  OBVIOUS
<1> HIDE DEF single, slots
<1>3. [NewNode(s, f, x) EXCEPT !.matched = single]
      = [frame_idx |-> f, super_buf |-> slots, matched |-> single, expected |-> x]
  BY DEF NewNode, slots
<1>4. NodeOf([frame_idx |-> f, super_buf |-> slots, matched |-> single, expected |-> x], s, f)
  BY <1>1, <1>2 DEF NodeOf, NodeType, slots, single
<1> QED BY <1>3, <1>4 DEF single

\* Where the new node goes: behind the unmatched nodes of older frames.
Spot(c, f) == LET before == FirstOf(Newer(c, f)) IN IF before = 0 THEN Len(c.que) + 1 ELSE before

LEMMA SpotIs ==
    ASSUME NEW c, NEW M, NEW mx, ListOK(c.que, M, mx), NEW f \in 1..MaxFrame, NoneAwaits(c.que, f)
    PROVE  /\ Spot(c, f) \in (M + 1)..(Len(c.que) + 1)
           /\ \A i \in (M + 1)..(Spot(c, f) - 1) : c.que[i].frame_idx < f
           /\ \A i \in Spot(c, f)..Len(c.que) : f < c.que[i].frame_idx
<1>1. /\ c.que \in Seq(NodeType) /\ M \in Nat /\ Len(c.que) \in Nat /\ M <= Len(c.que)
      /\ Ordered(c.que, M) /\ Marked(c.que, M)
      /\ \A i \in 1..Len(c.que) : c.que[i].frame_idx \in Nat
  BY Nodes DEF ListOK
<1>2. Unmatched(c.que) = (M + 1)..Len(c.que)
  BY Counts
<1>3. Newer(c, f) = {i \in (M + 1)..Len(c.que) : c.que[i].frame_idx > f}
  BY <1>2 DEF Newer
<1>4. Newer(c, f) \in SUBSET Nat /\ 0 \notin Newer(c, f)
  BY <1>1, <1>3
<1>5. \A i \in (M + 1)..Len(c.que) : i \notin Newer(c, f) => c.que[i].frame_idx < f
  <2>1. \A i \in (M + 1)..Len(c.que) : i \in 1..Len(c.que) /\ c.que[i].frame_idx # f
    BY <1>1 DEF Marked, NoneAwaits
  <2> QED BY <1>1, <1>3, <2>1
<1>6. CASE Newer(c, f) = {}
  <2>1. Spot(c, f) = Len(c.que) + 1
    BY <1>4, <1>6, FirstOfIs DEF Spot
  <2> QED BY <1>1, <1>5, <1>6, <2>1
<1>7. CASE Newer(c, f) # {}
  <2>1. PICK x : x = Spot(c, f)
    OBVIOUS
  <2>2. x \in Newer(c, f) /\ \A j \in Newer(c, f) : x <= j
    BY <1>4, <1>7, <2>1, FirstOfIs DEF Spot
  <2>3. x \in (M + 1)..Len(c.que) /\ f < c.que[x].frame_idx
    BY <1>3, <2>2
  <2>4. \A i \in (M + 1)..(x - 1) : c.que[i].frame_idx < f
    <3>1. \A i \in (M + 1)..(x - 1) : i \in (M + 1)..Len(c.que) /\ ~(x <= i)
      BY <1>1, <2>3
    <3> QED BY <1>5, <2>2, <3>1
  <2>5. ASSUME NEW i \in x..Len(c.que) PROVE f < c.que[i].frame_idx
    <3>1. CASE i = x
      BY <2>3, <3>1
    <3>2. CASE i # x
      <4>1. x \in 1..Len(c.que) /\ i \in 1..Len(c.que) /\ x < i /\ M < x
        BY <1>1, <2>3, <3>2
      <4>2. c.que[x].frame_idx < c.que[i].frame_idx
        BY <1>1, <4>1 DEF Ordered
      <4>3. c.que[x].frame_idx \in Nat /\ c.que[i].frame_idx \in Nat
        BY <1>1, <4>1
      <4> QED BY <2>3, <4>2, <4>3
    <3> QED BY <3>1, <3>2
  <2>6. x \in (M + 1)..(Len(c.que) + 1)
    BY <1>1, <2>3
  <2> QED BY <2>1, <2>4, <2>5, <2>6
<1> QED BY <1>6, <1>7

LEMMA InsertedAt ==
    ASSUME NEW q \in Seq(NodeType), NEW n \in NodeType, NEW x \in 1..(Len(q) + 1)
    PROVE  /\ x <= Len(q) => Inserted(q, InsertAt(q, x, n), x, n)
           /\ x = Len(q) + 1 => Inserted(q, Append(q, n), x, n)
<1>1. ASSUME x <= Len(q) PROVE Inserted(q, InsertAt(q, x, n), x, n)
  <2> DEFINE a == SubSeq(q, 1, x - 1)
             b == SubSeq(q, x, Len(q))
             r == InsertAt(q, x, n)
  <2>1. a \in Seq(NodeType) /\ Len(a) = x - 1 /\ \A k \in 1..(x - 1) : a[k] = q[k]
    BY <1>1
  <2>2. b \in Seq(NodeType) /\ Len(b) = Len(q) + 1 - x /\ \A k \in 1..(Len(q) + 1 - x) : b[k] = q[x + k - 1]
    BY <1>1
  <2>3. r = (a \o <<n>>) \o b
    BY DEF InsertAt
  <2> HIDE DEF a, b, r
  <2> DEFINE h == a \o <<n>>
  <2>9. Len(q) \in Nat /\ x \in Nat /\ x <= Len(q) + 1 /\ 1 <= x
    OBVIOUS
  <2>10. <<n>> \in Seq(NodeType) /\ Len(<<n>>) = 1 /\ <<n>>[1] = n
    OBVIOUS
  <2>11. h \in Seq(NodeType) /\ Len(h) = x
    BY <2>1, <2>9, <2>10
  <2>12. \A k \in 1..x : h[k] = IF k < x THEN a[k] ELSE n
    <3>1. \A k \in 1..x : h[k] = IF k <= Len(a) THEN a[k] ELSE <<n>>[k - Len(a)]
      BY <2>1, <2>9, <2>10
    <3>2. \A k \in 1..x : (k < x => k <= Len(a)) /\ (~(k < x) => ~(k <= Len(a)) /\ k - Len(a) = 1)
      BY <2>1, <2>9
    <3> HIDE DEF h
    <3> QED BY <2>10, <3>1, <3>2
  <2> HIDE DEF h
  <2>13. r = h \o b
    BY <2>3 DEF h
  <2>4. r \in Seq(NodeType) /\ Len(r) = Len(q) + 1
    BY <2>2, <2>9, <2>11, <2>13
  <2>14. \A k \in 1..(Len(q) + 1) : r[k] = IF k <= x THEN h[k] ELSE b[k - x]
    BY <2>2, <2>9, <2>11, <2>13
  <2>5. \A k \in 1..Len(r) : r[k] = IF k < x THEN a[k] ELSE IF k = x THEN n ELSE b[k - x]
    <3>1. \A k \in 1..(Len(q) + 1) : /\ k < x => k <= x /\ k \in 1..x
                                     /\ k = x => k <= x /\ k \in 1..x /\ ~(k < x)
                                     /\ k > x => ~(k <= x) /\ ~(k < x) /\ k # x
                                     /\ k < x \/ k = x \/ k > x
      BY <2>9
    <3> QED BY <2>4, <2>12, <2>14, <3>1
  <2>6. \A k \in 1..Len(r) : k > x => k - x \in 1..(Len(q) + 1 - x) /\ x + (k - x) - 1 = k - 1
    BY <2>4, <2>9
  <2>7. \A k \in 1..Len(r) : k > x => b[k - x] = q[k - 1]
    BY <2>2, <2>6
  <2>8. \A k \in 1..Len(r) : k < x => a[k] = q[k]
    BY <2>1
  <2>15. \A k \in 1..Len(r) : k < x \/ k = x \/ k > x
    BY <2>4, <2>9
  <2>16. \A k \in 1..Len(r) : r[k] = IF k < x THEN q[k] ELSE IF k = x THEN n ELSE q[k - 1]
    BY <2>5, <2>7, <2>8, <2>15
  <2>17. Inserted(q, r, x, n)
    BY <2>4, <2>16 DEF Inserted
  <2> QED BY <2>17 DEF r
<1>2. ASSUME x = Len(q) + 1 PROVE Inserted(q, Append(q, n), x, n)
  BY <1>2 DEF Inserted
<1> QED BY <1>1, <1>2

LEMMA SameLists ==
    ASSUME NEW p \in Seq(NodeType), NEW q \in Seq(NodeType), Len(p) = Len(q),
           \A k \in 1..Len(p) : p[k] = q[k]
    PROVE  p = q
OBVIOUS

\* The channel with room made for a node of frame f.
Roomier(c, f) == [Qbuf(c, UNION {Bufs(c.que[i]) : i \in Evicted(c, f)}) EXCEPT
                    !.que = Without(c.que, Evicted(c, f))]

LEMMA RoomMade ==
    ASSUME NEW c, Good(c), NEW f, ~(Excess(c) > 0 /\ Older(c, f) = {}), NEW d, d = Roomier(c, f)
    PROVE  Keeps(c, d) /\ Len(d.que) - d.match_cnt <= d.attr.max_unmatched_frames
<1> DEFINE out == Evicted(c, f)
           B == UNION {Bufs(c.que[i]) : i \in out}
<1>1. PICK M, mx : M = c.match_cnt /\ mx = c.attr.max_unmatched_frames
  OBVIOUS
<1>2. /\ c.que \in Seq(NodeType) /\ M \in Nat /\ Len(c.que) \in Nat /\ M <= Len(c.que) /\ mx \in Nat
      /\ ListOK(c.que, M, mx) /\ FieldInv(c) /\ Len(c.que) - M <= mx + 1
  BY <1>1 DEF Good, ListOK
<1>3. /\ FieldInv(d) /\ SameZsl(c, d) /\ d.que = Without(c.que, out) /\ d.match_cnt = M
      /\ d.attr = c.attr /\ d.freed = Append(c.freed, B) /\ d.sent = c.sent /\ d.phase = c.phase
  <2> HIDE DEF B, out
  <2>1. d = [Qbuf(c, B) EXCEPT !.que = Without(c.que, out)]
    BY DEF B, out, Roomier
  <2>2. DOMAIN c = ChanFields
    BY <1>2 DEF FieldInv
  <2>3. PICK x, y : x = Append(c.freed, B) /\ y = Without(c.que, out)
    OBVIOUS
  <2>4. d = [c EXCEPT !.freed = x, !.que = y]
    BY <2>1, <2>2, <2>3 DEF Qbuf, ChanFields
  <2>5. FieldInv(d)
    BY <1>2, <2>4 DEF FieldInv, ChanFields
  <2>6. /\ SameZsl(c, d) /\ d.que = y /\ d.match_cnt = c.match_cnt /\ d.attr = c.attr
        /\ d.freed = x /\ d.sent = c.sent /\ d.phase = c.phase
    BY <2>2, <2>4 DEF ChanFields, SameZsl
  <2> QED BY <1>1, <2>3, <2>5, <2>6
<1>4. PICK a \in (M + 1)..(Len(c.que) + 1), b \in M..Len(c.que) :
        /\ out = a..b /\ a <= b + 1
        /\ (b = M /\ a = M + 1 /\ Len(c.que) - M <= mx) \/ a = b
  <2>1. \/ out = (M + 1)..M /\ Len(c.que) - M <= mx
        \/ \E e \in (M + 1)..Len(c.que) : out = e..e
    BY <1>1, EvictedIs
  <2> HIDE DEF out
  <2>2. CASE out = (M + 1)..M /\ Len(c.que) - M <= mx
    <3>1. M + 1 \in (M + 1)..(Len(c.que) + 1) /\ M \in M..Len(c.que) /\ M + 1 <= M + 1
      BY <1>2
    <3> QED BY <2>2, <3>1
  <2>3. CASE \E e \in (M + 1)..Len(c.que) : out = e..e
    <3>1. PICK e \in (M + 1)..Len(c.que) : out = e..e
      BY <2>3
    <3>2. e \in (M + 1)..(Len(c.que) + 1) /\ e \in M..Len(c.que) /\ e <= e + 1
      BY <1>2
    <3> QED BY <3>1, <3>2
  <2> QED BY <2>1, <2>2, <2>3
<1>5. a \in Nat \ {0} /\ b \in 0..Len(c.que) /\ a \in Nat /\ b \in Nat
  BY <1>2
<1> HIDE DEF out
<1>6. Cut(c.que, d.que, a, b)
  BY <1>2, <1>3, <1>4, <1>5, WithoutCut
<1>7. B = BufsOf(c.que, a, b)
  BY <1>4 DEF BufsOf
<1>8. ListOK(d.que, M, mx) /\ Len(d.que) - M <= mx
  <2>1. CASE a = b
    <3>1. a \in (M + 1)..Len(c.que) /\ Cut(c.que, d.que, a, a)
      BY <1>2, <1>5, <1>6, <2>1
    <3>2. ListOK(d.que, M, mx) /\ Len(d.que) = Len(c.que) - 1
      BY <1>2, <3>1, CutUnmatched
    <3>3. Len(c.que) \in Nat /\ M \in Nat /\ mx \in Nat /\ Len(c.que) - M <= mx + 1
      BY <1>2
    <3>4. \A L \in Nat : L - M <= mx + 1 => (L - 1) - M <= mx
      BY <3>3
    <3> QED BY <3>2, <3>3, <3>4
  <2>2. CASE b = M /\ a = M + 1 /\ Len(c.que) - M <= mx
    <3>1. Len(d.que) = Len(c.que) /\ d.que \in Seq(NodeType)
      <4>1. Len(d.que) = Len(c.que) - (b + 1 - a) /\ d.que \in Seq(NodeType)
        BY <1>6 DEF Cut
      <4>2. b + 1 - a = 0
        BY <1>2, <2>2
      <4>3. Len(c.que) - (b + 1 - a) = Len(c.que)
        BY <1>2, <4>2
      <4> QED BY <4>1, <4>3
    <3>2. \A k \in 1..Len(d.que) : d.que[k] = c.que[k]
      <4>1. \A k \in 1..Len(d.que) : d.que[k] = c.que[IF k < a THEN k ELSE k + (b + 1 - a)]
        BY <1>6 DEF Cut
      <4>2. \A k \in 1..Len(d.que) : (IF k < a THEN k ELSE k + (b + 1 - a)) = k
        BY <1>2, <2>2, <3>1
      <4> QED BY <4>1, <4>2
    <3>3. d.que = c.que
      BY <1>2, <3>1, <3>2, SameLists
    <3> QED BY <1>2, <2>2, <3>3
  <2> QED BY <1>4, <2>1, <2>2
<1> HIDE DEF B
<1>9. Core(c, d)
  <2>1. d.freed = Append(c.freed, BufsOf(c.que, a, b))
    BY <1>3, <1>7
  <2>2. ListOK(d.que, d.match_cnt, d.attr.max_unmatched_frames)
    BY <1>1, <1>3, <1>8
  <2>3. a <= b + 1
    BY <1>4
  <2> QED BY <1>3, <1>5, <1>6, <2>1, <2>2, <2>3, CutCore
<1> QED BY <1>1, <1>3, <1>8, <1>9 DEF Keeps

\* The node opened for the buffer joins the list.
LEMMA InsertTakes ==
    ASSUME NEW c, Good(c), Len(c.que) - c.match_cnt <= c.attr.max_unmatched_frames,
           NEW s \in Streams, NEW f \in 1..MaxFrame, Fresh(c.que, s, f), NoneAwaits(c.que, f),
           NEW n, NodeOf(n, s, f), NEW e, FieldInv(e), SameZsl(c, e),
           e.que = IF FirstOf(Newer(c, f)) = 0 THEN Append(c.que, n)
                   ELSE InsertAt(c.que, FirstOf(Newer(c, f)), n),
           e.match_cnt = IF Cardinality(Streams) = 1 THEN c.match_cnt + 1 ELSE c.match_cnt,
           e.attr = c.attr, e.phase = c.phase, e.freed = c.freed, e.sent = c.sent
    PROVE  Takes(c, e, s, f)
<1>1. PICK M, mx, x : M = c.match_cnt /\ mx = c.attr.max_unmatched_frames /\ x = Spot(c, f)
  OBVIOUS
<1>2. /\ c.que \in Seq(NodeType) /\ M \in Nat /\ Len(c.que) \in Nat /\ M <= Len(c.que) /\ mx \in Nat
      /\ ListOK(c.que, M, mx) /\ Unique(c.que) /\ OutInv(c)
  BY <1>1 DEF Good, ListOK
<1>3. /\ x \in (M + 1)..(Len(c.que) + 1)
      /\ \A i \in (M + 1)..(x - 1) : c.que[i].frame_idx < f
      /\ \A i \in x..Len(c.que) : f < c.que[i].frame_idx
  BY <1>1, <1>2, SpotIs
<1>4. x \in 1..(Len(c.que) + 1)
  BY <1>2, <1>3
<1>5. n \in NodeType /\ n.frame_idx = f /\ n.super_buf = [EmptySlots EXCEPT ![s] = f]
      /\ n.matched = (Cardinality(Streams) = 1)
  BY DEF NodeOf
<1>6. Inserted(c.que, e.que, x, n)
  <2>1. FirstOf(Newer(c, f)) = 0 => x = Len(c.que) + 1 /\ e.que = Append(c.que, n)
    BY <1>1 DEF Spot
  <2>2. FirstOf(Newer(c, f)) # 0 => x = FirstOf(Newer(c, f)) /\ e.que = InsertAt(c.que, x, n)
    BY <1>1 DEF Spot
  <2>3. FirstOf(Newer(c, f)) # 0 => x <= Len(c.que)
    <3>1. Unmatched(c.que) = (M + 1)..Len(c.que)
      BY <1>2, Counts
    <3>2. Newer(c, f) \subseteq (M + 1)..Len(c.que) /\ Newer(c, f) \in SUBSET Nat
      BY <1>2, <3>1 DEF Newer
    <3>3. FirstOf(Newer(c, f)) # 0 => FirstOf(Newer(c, f)) \in Newer(c, f)
      BY <3>2, FirstOfIs
    <3> QED BY <1>2, <2>2, <3>2, <3>3
  <2> QED BY <1>2, <1>4, <1>5, <2>1, <2>2, <2>3, InsertedAt
<1>7. /\ Unique(e.que)
      /\ \A t \in Streams, g \in Frames :
            Held(e.que, t, g) = Held(c.que, t, g) + (IF <<t, g>> = <<s, f>> THEN 1 ELSE 0)
  BY <1>2, <1>4, <1>5, <1>6, InsertLedger
<1>8. ListOK(e.que, e.match_cnt, mx)
  <2>1. CASE Cardinality(Streams) = 1
    <3>1. M = Len(c.que) /\ x = Len(c.que) + 1
      BY <1>2, <1>3, <2>1 DEF ListOK
    <3>2. \A t \in Streams : t = s
      <4>1. PICK w : Streams = {w}
        BY <2>1, ConstantsOK, FS_Singleton
      <4> QED BY <4>1
    <3>3. n.matched = TRUE
      BY <1>5, <2>1
    <3>4. Inserted(c.que, e.que, Len(c.que) + 1, n)
      BY <1>6, <3>1
    <3>5. ListOK(e.que, M + 1, mx)
      BY <1>2, <1>5, <1>7, <2>1, <3>2, <3>3, <3>4, AppendList
    <3> QED BY <1>1, <2>1, <3>5
  <2>2. CASE Cardinality(Streams) # 1
    <3>1. n.matched = FALSE /\ Len(c.que) - M <= mx
      BY <1>1, <1>5, <2>2
    <3>3. ListOK(c.que, M, mx) /\ Unique(e.que)
      BY <1>2, <1>7
    <3>2. ListOK(e.que, M, mx)
      BY <1>3, <1>5, <1>6, <2>2, <3>1, <3>3, InsertList, ZenonT(60)
    <3> QED BY <1>1, <2>2, <3>2
  <2> QED BY <2>1, <2>2
<1>9. OutInv(e) /\ \A t, g : References(c, t, g) \in Nat /\ References(e, t, g) = References(c, t, g)
  BY <1>2, References_Same
<1>10. Good(e)
  BY <1>1, <1>8, <1>9 DEF Good
<1>11. ASSUME NEW t \in Streams, NEW g \in Frames
       PROVE  Total(e, t, g) = Total(c, t, g) + (IF <<t, g>> = <<s, f>> THEN 1 ELSE 0)
  <2> DEFINE y == IF <<t, g>> = <<s, f>> THEN 1 ELSE 0
  <2>1. /\ Held(c.que, t, g) \in Nat /\ Held(e.que, t, g) \in Nat /\ y \in Nat
        /\ References(c, t, g) \in Nat
    BY <1>9 DEF Held
  <2>2. References(e, t, g) = References(c, t, g)
    BY <1>9
  <2>3. Held(e.que, t, g) = Held(c.que, t, g) + y
    BY <1>7
  <2> HIDE DEF y
  <2>4. Total(e, t, g) = Total(c, t, g) + y
    BY <2>1, <2>2, <2>3 DEF Total
  <2> QED BY <2>4 DEF y
<1>12. ASSUME NEW i \in 1..Len(e.que), NEW t \in Streams
       PROVE  \/ e.que[i].super_buf[t] = 0
              \/ t = s /\ e.que[i].super_buf[t] = f
              \/ \E j \in 1..Len(c.que) : e.que[i].super_buf[t] = c.que[j].super_buf[t]
  <2>1. CASE i = x
    <3>1. e.que[i] = n
      BY <1>2, <1>4, <1>6, <2>1 DEF Inserted
    <3>2. [EmptySlots EXCEPT ![s] = f][t] = IF t = s THEN f ELSE 0
      BY DEF EmptySlots
    <3> QED BY <1>5, <3>1, <3>2
  <2>2. CASE i # x
    <3>1. e.que[i] = IF i < x THEN c.que[i] ELSE c.que[i - 1]
      BY <1>6, <2>2 DEF Inserted
    <3>2. Len(e.que) = Len(c.que) + 1
      BY <1>6 DEF Inserted
    <3>3. (IF i < x THEN i ELSE i - 1) \in 1..Len(c.que)
      BY <1>2, <1>4, <2>2, <3>2
    <3> QED BY <3>1, <3>3
  <2> QED BY <2>1, <2>2
<1> QED BY <1>10, <1>11, <1>12 DEF Takes

\* A buffer given straight back, whatever fields of the matching change with it.
LEMMA GivenBack ==
    ASSUME NEW c, Good(c), NEW s \in Streams, NEW f \in Frames
    PROVE  /\ Takes(c, Qbuf(c, {<<s, f>>}), s, f)
           /\ Takes(c, [Qbuf(c, {<<s, f>>}) EXCEPT !.nomatch_frame_id = 0], s, f)
<1> DEFINE B == {<<s, f>>}
<1>1. FieldInv(c)
  BY DEF Good
<1>2. PICK d : d = Qbuf(c, B)
  OBVIOUS
<1>3. PICK e : e = [Qbuf(c, B) EXCEPT !.nomatch_frame_id = 0]
  OBVIOUS
<1>4. /\ FieldInv(d) /\ SameZsl(c, d) /\ d.que = c.que /\ d.match_cnt = c.match_cnt
      /\ d.attr = c.attr /\ d.phase = c.phase /\ d.sent = c.sent /\ d.freed = Append(c.freed, B)
  <2> HIDE DEF B
  <2> QED BY <1>1, <1>2 DEF Qbuf, SameZsl, FieldInv, ChanFields
<1>5. /\ FieldInv(e) /\ SameZsl(c, e) /\ e.que = c.que /\ e.match_cnt = c.match_cnt
      /\ e.attr = c.attr /\ e.phase = c.phase /\ e.sent = c.sent /\ e.freed = Append(c.freed, B)
  <2> HIDE DEF B
  <2> QED BY <1>1, <1>3 DEF Qbuf, SameZsl, FieldInv, ChanFields
<1>6. Takes(c, d, s, f)
  BY <1>4, QbufTakes
<1>7. Takes(c, e, s, f)
  BY <1>5, QbufTakes
<1> QED BY <1>2, <1>3, <1>6, <1>7

LEMMA OpenTakes ==
    ASSUME NEW c, Good(c), NEW s \in Streams, NEW f \in 1..MaxFrame, Fresh(c.que, s, f),
           NoneAwaits(c.que, f), ~(Excess(c) > 0 /\ Older(c, f) = {}), NEW mem
    PROVE  Takes(c, OpenNode(c, s, f, mem), s, f)
<1> DEFINE out == Evicted(c, f)
           kept == Without(c.que, out)
           B == UNION {Bufs(c.que[i]) : i \in out}
           before == FirstOf(Newer([c EXCEPT !.que = kept], f))
           divert == c.diverted_frame_id = f
           single == Cardinality(Streams) = 1
           node == [NewNode(s, f, divert /\ ~single) EXCEPT !.matched = single]
           d0 == [Qbuf(c, B) EXCEPT !.que = kept]
<1>1. PICK d : d = d0
  OBVIOUS
<1>2. Keeps(c, d) /\ Len(d.que) - d.match_cnt <= d.attr.max_unmatched_frames
  BY <1>1, RoomMade DEF Roomier
<1>3. Good(d) /\ FieldInv(d)
  BY <1>2 DEF Keeps, Core, Good
<1>4. Fresh(d.que, s, f)
  BY <1>2, FreshKept
<1>5. NoneAwaits(d.que, f)
  BY <1>2 DEF Keeps, Core, NoneAwaits
<1>6. f \in Frames
  BY DEF Frames
<1>7. CASE ~mem
  <2>1. OpenNode(c, s, f, mem) = Qbuf(d, {<<s, f>>})
    BY <1>1, <1>7 DEF OpenNode
  <2>2. Takes(d, Qbuf(d, {<<s, f>>}), s, f)
    BY <1>3, <1>6, GivenBack
  <2> QED BY <1>2, <2>1, <2>2, KeepsTakes
<1>8. CASE mem
  <2>1. Newer([c EXCEPT !.que = kept], f) = Newer(d, f)
    <3>1. DOMAIN c = ChanFields
      BY DEF Good, FieldInv
    <3> HIDE DEF kept, B
    <3>2. [c EXCEPT !.que = kept].que = kept /\ d.que = kept
      BY <1>1, <3>1 DEF ChanFields, Qbuf
    <3> QED BY <3>2 DEF Newer
  <2>2. PICK b : b = FirstOf(Newer(d, f))
    OBVIOUS
  <2>3. PICK n : n = node
    OBVIOUS
  <2>4. NodeOf(n, s, f)
    <3>1. (divert /\ ~single) \in BOOLEAN
      OBVIOUS
    <3> HIDE DEF divert
    <3>2. NodeOf([NewNode(s, f, divert /\ ~single) EXCEPT !.matched = (Cardinality(Streams) = 1)], s, f)
      BY <3>1, NewNodeIs
    <3> QED BY <2>3, <3>2
  <2>5. PICK e : e = OpenNode(c, s, f, mem)
    OBVIOUS
  <2>6. e = [d EXCEPT
                !.que = IF b = 0 THEN Append(@, n) ELSE InsertAt(@, b, n),
                !.diverted_frame_id = IF divert THEN 0 ELSE @,
                !.match_cnt = IF single THEN @ + 1 ELSE @,
                !.expected_frame_id = IF single THEN Sat(f + c.attr.post_frame_skip) ELSE @,
                !.nomatch_frame_id = IF c.attr.low /\ s # MetaStream THEN f ELSE @]
    <3>1. b = before
      BY <2>1, <2>2
    <3> HIDE DEF before, d0, node, single, divert
    <3>2. e = IF ~mem THEN Qbuf(d0, {<<s, f>>})
        ELSE [d0 EXCEPT
                !.que = IF before = 0 THEN Append(@, node) ELSE InsertAt(@, before, node),
                !.diverted_frame_id = IF divert THEN 0 ELSE @,
                !.match_cnt = IF single THEN @ + 1 ELSE @,
                !.expected_frame_id = IF single THEN Sat(f + c.attr.post_frame_skip) ELSE @,
                !.nomatch_frame_id = IF c.attr.low /\ s # MetaStream THEN f ELSE @]
      BY <2>5 DEF OpenNode, before, d0, node, single, divert
    <3> QED BY <1>1, <1>8, <2>3, <3>1, <3>2
  <2>7. Sat(f + c.attr.post_frame_skip) \in Nat /\ ~c.attr.low
    <3>1. c.attr \in AttrType /\ ~c.attr.low
      BY DEF Good, FieldInv
    <3>2. f + c.attr.post_frame_skip \in Nat
      BY <3>1 DEF AttrType
    <3> QED BY <3>1, <3>2, SatType
  <2> DEFINE y == Sat(f + c.attr.post_frame_skip)
             r == IF b = 0 THEN Append(d.que, n) ELSE InsertAt(d.que, b, n)
             k == IF single THEN d.match_cnt + 1 ELSE d.match_cnt
             v == IF divert THEN 0 ELSE d.diverted_frame_id
             x == IF single THEN y ELSE d.expected_frame_id
  <2>8. e = [d EXCEPT !.que = r, !.diverted_frame_id = v, !.match_cnt = k,
                      !.expected_frame_id = x, !.nomatch_frame_id = 0]
    <3>1. d.nomatch_frame_id = 0 /\ DOMAIN d = ChanFields
      BY <1>3 DEF FieldInv
    <3> QED BY <2>6, <2>7, <3>1
  <2>9. x \in Nat
    BY <1>3, <2>7 DEF FieldInv
  <2>10. /\ FieldInv(e) /\ SameZsl(d, e) /\ e.que = r /\ e.match_cnt = k
         /\ e.attr = d.attr /\ e.phase = d.phase /\ e.freed = d.freed /\ e.sent = d.sent
    <3> HIDE DEF r, k, v, x
    <3> QED BY <1>3, <2>8, <2>9 DEF FieldInv, SameZsl, ChanFields
  <2>11. Takes(d, e, s, f)
    <3>1. /\ e.que = IF FirstOf(Newer(d, f)) = 0 THEN Append(d.que, n)
                     ELSE InsertAt(d.que, FirstOf(Newer(d, f)), n)
          /\ e.match_cnt = IF Cardinality(Streams) = 1 THEN d.match_cnt + 1 ELSE d.match_cnt
      BY <2>2, <2>10
    <3> HIDE DEF r, k, v, x
    <3> QED BY <1>2, <1>3, <1>4, <1>5, <2>4, <2>10, <3>1, InsertTakes
  <2> QED BY <1>2, <2>5, <2>11, KeepsTakes
<1> QED BY <1>7, <1>8

LEMMA EnqueueTakes ==
    ASSUME NEW c, Good(c), NEW s \in Streams, NEW f \in 1..MaxFrame, Fresh(c.que, s, f), NEW mem
    PROVE  Takes(c, Enqueue(c, s, f, mem), s, f)
<1> DEFINE S == {i \in DOMAIN c.que : Fits(c, c.que[i], s, f)}
<1>1. PICK pos : pos = FirstOf(S)
  OBVIOUS
<1>2. f \in Frames /\ FieldInv(c) /\ c.que \in Seq(NodeType) /\ DOMAIN c.que = 1..Len(c.que)
      /\ Len(c.que) \in Nat
  BY DEF Frames, Good, ListOK
<1>3. S = {i \in 1..Len(c.que) : ~c.que[i].matched /\ c.que[i].frame_idx = f}
  BY <1>2, FitsIs
<1>4. S \in SUBSET Nat /\ 0 \notin S
  BY <1>2, <1>3
<1>5. pos # 0 => pos \in S
  <2> HIDE DEF S
  <2> QED BY <1>1, <1>4, FirstOfIs
<1>6. pos = 0 => S = {}
  <2> HIDE DEF S
  <2>1. S # {} => FirstOf(S) \in S
    BY <1>4, FirstOfIs
  <2> QED BY <1>1, <1>4, <2>1
<1>7. Enqueue(c, s, f, mem) =
        IF pos # 0 /\ c.que[pos].super_buf[s] # 0
        THEN [Qbuf(c, {<<s, f>>}) EXCEPT !.nomatch_frame_id = 0]
        ELSE IF pos # 0 THEN JoinNode(c, pos, s, f)
        ELSE IF Excess(c) > 0 /\ Older(c, f) = {}
        THEN Qbuf(c, {<<s, f>>})
        ELSE OpenNode(c, s, f, mem)
  BY <1>1 DEF Enqueue
<1> HIDE DEF S
<1>8. CASE pos # 0 /\ c.que[pos].super_buf[s] # 0
  BY <1>2, <1>7, <1>8, GivenBack
<1>9. CASE pos # 0 /\ c.que[pos].super_buf[s] = 0
  <2>1. pos \in 1..Len(c.que) /\ Awaits(c.que[pos], s, f)
    BY <1>3, <1>5, <1>9 DEF Awaits
  <2>2. Takes(c, JoinNode(c, pos, s, f), s, f)
    BY <2>1, JoinTakes
  <2> QED BY <1>7, <1>9, <2>2
<1>10. CASE pos = 0 /\ Excess(c) > 0 /\ Older(c, f) = {}
  BY <1>2, <1>7, <1>10, GivenBack
<1>11. CASE pos = 0 /\ ~(Excess(c) > 0 /\ Older(c, f) = {})
  <2>1. NoneAwaits(c.que, f)
    BY <1>3, <1>6, <1>11 DEF NoneAwaits
  <2>2. Takes(c, OpenNode(c, s, f, mem), s, f)
    BY <1>11, <2>1, OpenTakes
  <2> QED BY <1>7, <1>11, <2>2
<1> QED BY <1>8, <1>9, <1>10, <1>11

LEMMA CompAndEnqueueTakes ==
    ASSUME NEW c, Good(c), NEW s \in Streams, NEW f \in Frames, f # 0 => Fresh(c.que, s, f),
           NEW m \in MetaType, NEW mem
    PROVE  Takes(c, CompAndEnqueue(c, s, f, m, mem), s, f)
<1>1. PICK d : d = HandleMetadata(c, s, f, m)
  OBVIOUS
<1>2. Keeps(c, d)
  BY <1>1, HandleMetadataKeeps
<1>3. Good(d) /\ (f # 0 => Fresh(d.que, s, f))
  BY <1>2, FreshKept DEF Keeps, Core
<1>4. CASE f = 0
  BY <1>4, GivenBack DEF CompAndEnqueue
<1>5. ASSUME f # 0, CompAndEnqueue(c, s, f, m, mem) = Qbuf(d, {<<s, f>>})
      PROVE  Takes(c, CompAndEnqueue(c, s, f, m, mem), s, f)
  BY <1>2, <1>3, <1>5, GivenBack, KeepsTakes
<1>6. ASSUME f # 0, CompAndEnqueue(c, s, f, m, mem) = Enqueue(d, s, f, mem)
      PROVE  Takes(c, CompAndEnqueue(c, s, f, m, mem), s, f)
  <2>1. f \in 1..MaxFrame
    BY <1>6 DEF Frames
  <2>2. Takes(d, Enqueue(d, s, f, mem), s, f)
    BY <1>3, <1>6, <2>1, EnqueueTakes
  <2> QED BY <1>2, <1>6, <2>2, KeepsTakes
<1> QED BY <1>1, <1>4, <1>5, <1>6 DEF CompAndEnqueue

-----------------------------------------------------------------------------
(* After the command: the snapshot, the overflow and the dispatch. *)

LEMMA TriggerKeeps ==
    ASSUME NEW c, Good(c), c.zslOn => c.manualZSLSnapshot \/ c.startZSlSnapshotCalled
    PROVE  Core(c, TriggerZsl(c)) /\ ZslInv(TriggerZsl(c))
<1> DEFINE idle == c.pending_cnt > 0 /\ ~c.manualZSLSnapshot /\ ~c.startZSlSnapshotCalled
           batches == c.isConfigCapture /\ \A b \in BatchesLeft(c) : BatchNeedsZsl(c, b)
           flash == c.needLEDFlash \/ c.bracketingState # "OFF"
           x == Flush(c, Streams)
           ids == [b \in DOMAIN x.capture_frame_id |->
                     IF b + 1 \in BatchesLeft(c) THEN Future(c.expected_frame_id)
                     ELSE x.capture_frame_id[b]]
           y == [x EXCEPT !.capture_frame_id = ids]
<1>1. FieldInv(c)
  BY DEF Good
<1>2. Core(c, x) /\ Good(x) /\ FieldInv(x) /\ SameZsl(c, x)
  BY FlushKeeps DEF Keeps, Core, Good
<1>3. TriggerZsl(c) = IF idle /\ batches THEN AutoStart(y)
                      ELSE IF idle /\ flash THEN AutoStart(c)
                      ELSE IF CaptureOver(c)
                      THEN [AutoStop(c) EXCEPT !.bWaitForPrepSnapshotDone = FALSE]
                      ELSE c
  <2>1. DOMAIN x = ChanFields
    BY <1>2 DEF FieldInv
  <2> HIDE DEF x
  <2> QED BY <2>1 DEF TriggerZsl, x, ChanFields
<1> HIDE DEF batches, flash, x
<1>4. CASE idle /\ batches
  <2>1. Future(c.expected_frame_id) \in Nat
    BY <1>1, SatType DEF FieldInv
  <2>2. ids \in [0..(MaxBatch - 1) -> Nat]
    BY <1>2, <2>1 DEF FieldInv
  <2> HIDE DEF ids
  <2>3. FieldInv(AutoStart(y)) /\ SameList(x, AutoStart(y))
    BY <1>2, <2>2 DEF FieldInv, SameList, AutoStart, StartZsl, ChanFields
  <2>4. ZslInv(AutoStart(y))
    <3>1. /\ AutoStart(y).startZSlSnapshotCalled
          /\ AutoStart(y).pending_cnt = x.pending_cnt
      BY <1>2 DEF FieldInv, AutoStart, StartZsl, ChanFields
    <3>2. x.pending_cnt > 0
      BY <1>2, <1>4 DEF SameZsl
    <3> HIDE DEF y
    <3> QED BY <3>1, <3>2 DEF ZslInv
  <2>5. Core(x, AutoStart(y))
    <3> HIDE DEF y
    <3> QED BY <1>2, <2>3, AsideCore
  <2> HIDE DEF y
  <2>6. Core(c, AutoStart(y))
    BY <1>2, <2>5, CoreTwice
  <2> QED BY <1>3, <1>4, <2>4, <2>6
<1>5. CASE idle /\ flash /\ ~batches
  <2>1. FieldInv(AutoStart(c)) /\ SameList(c, AutoStart(c))
    BY <1>1 DEF FieldInv, SameList, AutoStart, StartZsl, ChanFields
  <2>2. ZslInv(AutoStart(c))
    <3>1. /\ AutoStart(c).startZSlSnapshotCalled
          /\ AutoStart(c).pending_cnt = c.pending_cnt
      BY <1>1 DEF FieldInv, AutoStart, StartZsl, ChanFields
    <3> QED BY <1>5, <3>1 DEF ZslInv
  <2>3. Core(c, AutoStart(c))
    BY <2>1, AsideCore
  <2> QED BY <1>3, <1>5, <2>2, <2>3
<1>6. CASE ~(idle /\ batches) /\ ~(idle /\ flash) /\ CaptureOver(c)
  <2> DEFINE z == [AutoStop(c) EXCEPT !.bWaitForPrepSnapshotDone = FALSE]
  <2>1. FieldInv(z) /\ SameList(c, z) /\ z.zslOn = FALSE
    BY <1>1 DEF FieldInv, SameList, AutoStop, StopZsl, ChanFields
  <2> HIDE DEF z
  <2>2. Core(c, z)
    BY <2>1, AsideCore
  <2>3. TriggerZsl(c) = z
    BY <1>3, <1>6 DEF z
  <2> QED BY <2>1, <2>2, <2>3 DEF ZslInv
<1>7. CASE ~(idle /\ batches) /\ ~(idle /\ flash) /\ ~CaptureOver(c)
  <2>1. Core(c, c)
    BY KeepsSame DEF Keeps
  <2>2. c.pending_cnt \in Nat
    BY <1>1 DEF FieldInv
  <2>3. ZslInv(c)
    BY <1>7, <2>2 DEF ZslInv, CaptureOver
  <2> QED BY <1>3, <1>7, <2>1, <2>3
<1> QED BY <1>4, <1>5, <1>6, <1>7

\* What a dispatched superbuf counts in a burst.
Counted(d) == LET e == CountBurst(d) IN CountBatch(IF CaptureOver(e) THEN AutoStop(e) ELSE e)

LEMMA CountBatchFields ==
    ASSUME NEW c, FieldInv(c), c.isConfigCapture => c.cur_capture_idx + c.pending_cnt + 1 < MaxBatch
    PROVE  FieldInv(CountBatch(c)) /\ SameList(c, CountBatch(c)) /\ SameZsl(c, CountBatch(c))
<1> DEFINE b == c.cur_capture_idx + 1
           left == IF b \in DOMAIN c.frameConfig /\ c.frameConfig[b].num_frames # 0
                   THEN c.frameConfig[b].num_frames - 1 ELSE 0
           cfg == [i \in DOMAIN c.frameConfig |->
                      IF i = b THEN [c.frameConfig[i] EXCEPT !.num_frames = left]
                      ELSE c.frameConfig[i]]
<1>1. CountBatch(c) =
        IF ~c.isConfigCapture THEN c
        ELSE IF left # 0 THEN [c EXCEPT !.frameConfig = cfg]
        ELSE [c EXCEPT !.frameConfig = cfg, !.cur_capture_idx = b,
                       !.expected_frame_id = c.capture_frame_id[b]]
  BY DEF CountBatch
<1> HIDE DEF cfg, left
<1>2. CASE ~c.isConfigCapture
  BY <1>1, <1>2 DEF SameList, SameZsl
<1>3. CASE c.isConfigCapture /\ left # 0
  BY <1>1, <1>3 DEF FieldInv, SameList, SameZsl, ChanFields
<1>4. CASE c.isConfigCapture /\ left = 0
  <2>1. c.cur_capture_idx \in Nat /\ c.pending_cnt \in Nat /\ MaxBatch \in Nat
    BY ConstantsOK DEF FieldInv
  <2>2. b \in Nat /\ b + c.pending_cnt < MaxBatch /\ b \in 0..(MaxBatch - 1)
    BY <1>4, <2>1
  <2>3. c.capture_frame_id[b] \in Nat
    BY <2>2 DEF FieldInv
  <2> HIDE DEF b
  <2> QED BY <1>1, <1>4, <2>2, <2>3 DEF FieldInv, SameList, SameZsl, ChanFields
<1> QED BY <1>2, <1>3, <1>4

LEMMA CountedFields ==
    ASSUME NEW c, FieldInv(c), c.pending_cnt > 0, ZslInv(c)
    PROVE  FieldInv(Counted(c)) /\ SameList(c, Counted(c)) /\ ZslInv(Counted(c))
<1>1. PICK e : e = CountBurst(c)
  OBVIOUS
<1>2. c.pending_cnt \in Nat /\ c.pending_retro_cnt \in Nat /\ c.cur_capture_idx \in Nat
      /\ MaxBatch \in Nat /\ (c.isConfigCapture => c.cur_capture_idx + c.pending_cnt < MaxBatch)
      /\ c.bWaitForPrepSnapshotDone \in BOOLEAN
  BY ConstantsOK DEF FieldInv
<1>3. c.pending_cnt - 1 \in Nat
      /\ (c.isConfigCapture => c.cur_capture_idx + (c.pending_cnt - 1) + 1 < MaxBatch)
      /\ (IF c.pending_retro_cnt > 0 THEN c.pending_retro_cnt - 1 ELSE 0) \in Nat
  BY <1>2
<1> DEFINE p == c.pending_cnt - 1
           r == IF c.pending_retro_cnt > 0 THEN c.pending_retro_cnt - 1 ELSE 0
           w == c.bWaitForPrepSnapshotDone \/ c.pending_retro_cnt = 1
<1>4. e = [c EXCEPT !.pending_cnt = p, !.bWaitForPrepSnapshotDone = w, !.pending_retro_cnt = r]
  BY <1>1 DEF CountBurst
<1>5. p \in Nat /\ r \in Nat /\ w \in BOOLEAN
      /\ (c.isConfigCapture => c.cur_capture_idx + p + 1 < MaxBatch)
      /\ (c.isConfigCapture => c.cur_capture_idx + p < MaxBatch)
  BY <1>2, <1>3
<1> HIDE DEF p, r, w
<1>6. /\ FieldInv(e) /\ SameList(c, e)
      /\ (e.isConfigCapture => e.cur_capture_idx + e.pending_cnt + 1 < MaxBatch)
      /\ e.zslOn = c.zslOn /\ e.manualZSLSnapshot = c.manualZSLSnapshot
      /\ e.startZSlSnapshotCalled = c.startZSlSnapshotCalled
  BY <1>4, <1>5 DEF FieldInv, SameList, ChanFields
<1>7. PICK x : x = IF CaptureOver(e) THEN AutoStop(e) ELSE e
  OBVIOUS
<1>8. /\ FieldInv(x) /\ SameList(e, x) /\ ZslInv(x)
      /\ (x.isConfigCapture => x.cur_capture_idx + x.pending_cnt + 1 < MaxBatch)
  <2>1. CASE CaptureOver(e)
    <3>1. x = AutoStop(e)
      BY <1>7, <2>1
    <3>2. FieldInv(x) /\ SameList(e, x) /\ x.zslOn = FALSE /\ x.isConfigCapture = FALSE
      BY <1>6, <3>1 DEF FieldInv, SameList, AutoStop, StopZsl, ChanFields
    <3> QED BY <3>2 DEF ZslInv
  <2>2. CASE ~CaptureOver(e)
    <3>1. x = e
      BY <1>7, <2>2
    <3>2. e.pending_cnt \in Nat
      BY <1>6 DEF FieldInv
    <3>3. ZslInv(e)
      BY <1>6, <2>2, <3>2 DEF ZslInv, CaptureOver
    <3> QED BY <1>6, <3>1, <3>3 DEF SameList
  <2> QED BY <2>1, <2>2
<1>9. Counted(c) = CountBatch(x)
  BY <1>1, <1>7 DEF Counted
<1>10. FieldInv(CountBatch(x)) /\ SameList(x, CountBatch(x)) /\ SameZsl(x, CountBatch(x))
  BY <1>8, CountBatchFields
<1>11. ZslInv(CountBatch(x))
  BY <1>8, <1>10 DEF ZslInv, SameZsl
<1>12. SameList(c, CountBatch(x))
  BY <1>6, <1>8, <1>10 DEF SameList
<1> QED BY <1>9, <1>10, <1>11, <1>12

LEMMA DispatchKeeps ==
    ASSUME NEW c, Good(c), ZslInv(c), WantsSuperbuf(c), NEW mem
    PROVE  /\ Core(c, Dispatch(c, mem)) /\ ZslInv(Dispatch(c, mem))
           /\ Len(Dispatch(c, mem).que) = Len(c.que) - 1
<1>1. PICK M, mx, n : M = c.match_cnt /\ mx = c.attr.max_unmatched_frames /\ n = Head(c.que)
  OBVIOUS
<1>2. /\ c.que \in Seq(NodeType) /\ M \in Nat /\ Len(c.que) \in Nat /\ M <= Len(c.que)
      /\ ListOK(c.que, M, mx) /\ Unique(c.que) /\ Slots(c.que, M) /\ FieldInv(c) /\ OutInv(c)
      /\ c.attr \in AttrType
  BY <1>1 DEF Good, ListOK, FieldInv
<1>3. M > 0
  <2>1. MatchedHead(c.que) = M
    BY <1>2, Counts
  <2> QED BY <2>1 DEF WantsSuperbuf
<1>4. c.que # <<>> /\ 1 \in 1..Len(c.que) /\ n = c.que[1] /\ n \in NodeType
  BY <1>1, <1>2, <1>3
<1>5. Complete(n)
  <2>1. \A s \in Streams : c.que[1].super_buf[s] \in {0, c.que[1].frame_idx} /\ c.que[1].super_buf[s] # 0
    BY <1>2, <1>3, <1>4 DEF Slots
  <2> QED BY <1>4, <2>1 DEF Complete
<1>6. Bufs(n) = BufsOf(c.que, 1, 1) /\ Bufs(n) \in FreedType
  <2>1. 1..1 = {1}
    OBVIOUS
  <2> QED BY <1>4, <2>1, BufsType DEF BufsOf
<1>7. PICK d : d = [c EXCEPT !.que = Tail(@), !.match_cnt = @ - 1]
  OBVIOUS
<1>8. /\ FieldInv(d) /\ SameZsl(c, d) /\ d.que = Tail(c.que) /\ d.match_cnt = M - 1
      /\ d.attr = c.attr /\ d.freed = c.freed /\ d.sent = c.sent /\ d.phase = c.phase
  BY <1>1, <1>2, <1>7 DEF FieldInv, SameZsl, ChanFields
<1>9. PICK e : e = IF c.attr.notify_mode # "BURST" THEN d ELSE Counted(d)
  OBVIOUS
<1>10. FieldInv(e) /\ SameList(d, e) /\ ZslInv(e)
  <2>1. ZslInv(d)
    BY <1>8 DEF ZslInv, SameZsl
  <2>2. CASE c.attr.notify_mode # "BURST"
    <3>1. e = d
      BY <1>9, <2>2
    <3> QED BY <1>8, <2>1, <3>1 DEF SameList
  <2>3. CASE c.attr.notify_mode = "BURST"
    <3>1. d.pending_cnt > 0
      BY <1>8, <2>3 DEF WantsSuperbuf, SameZsl
    <3>2. e = Counted(d)
      BY <1>9, <2>3
    <3> QED BY <1>8, <2>1, <3>1, <3>2, CountedFields
  <2> QED BY <2>2, <2>3
<1>11. PICK r : r = Send(e, n, mem)
  OBVIOUS
<1>12. Dispatch(c, mem) = r
  BY <1>1, <1>7, <1>9, <1>11 DEF Dispatch, Counted
<1> DEFINE x == [node |-> n, bReadyForPrepareSnapshot |-> e.bWaitForPrepSnapshotDone,
                 bUnlockAEC |-> e.unLockAEC]
<1>13. /\ FieldInv(r) /\ SameZsl(e, r) /\ r.que = e.que /\ r.match_cnt = e.match_cnt
       /\ r.attr = e.attr /\ r.phase = e.phase
       /\ \/ r.freed = Append(e.freed, Bufs(n)) /\ r.sent = e.sent
          \/ r.freed = e.freed /\ r.sent = Append(e.sent, x)
  <2>1. CASE ~mem
    <3>1. r = Qbuf(e, Bufs(n))
      BY <1>11, <2>1 DEF Send
    <3>2. PICK B : B = Bufs(n)
      OBVIOUS
    <3> QED BY <1>10, <3>1, <3>2 DEF FieldInv, SameZsl, ChanFields, Qbuf
  <2>2. CASE mem
    <3>1. r = [e EXCEPT !.sent = Append(@, x), !.unLockAEC = FALSE]
      BY <1>11, <2>2 DEF Send
    <3> HIDE DEF x
    <3> QED BY <1>10, <3>1 DEF FieldInv, SameZsl, ChanFields
  <2> QED BY <2>1, <2>2
<1>14. x \in SentType
  <2>1. e.bWaitForPrepSnapshotDone \in BOOLEAN /\ e.unLockAEC \in BOOLEAN
    BY <1>10 DEF FieldInv
  <2> QED BY <1>4, <1>5, <2>1 DEF SentType
<1>15. x.node = n
  OBVIOUS
<1> HIDE DEF x
<1>16. /\ r.que = Tail(c.que) /\ r.match_cnt = M - 1 /\ r.attr = c.attr /\ r.phase = c.phase
       /\ \/ r.freed = Append(c.freed, Bufs(n)) /\ r.sent = c.sent
          \/ r.freed = c.freed /\ r.sent = Append(c.sent, x)
  BY <1>8, <1>10, <1>13 DEF SameList
<1>17. /\ OutInv(r)
       /\ \A s, f : /\ References(c, s, f) \in Nat
                    /\ References(r, s, f) = References(c, s, f)
                                             + (IF <<s, f>> \in Bufs(n) THEN 1 ELSE 0)
  <2>1. CASE r.freed = Append(c.freed, Bufs(n)) /\ r.sent = c.sent
    BY <1>2, <1>6, <2>1, References_Freed
  <2>2. CASE r.freed = c.freed /\ r.sent = Append(c.sent, x)
    BY <1>2, <1>14, <1>15, <2>2, References_Sent
  <2> QED BY <1>16, <2>1, <2>2
<1>18. Cut(c.que, r.que, 1, 1) /\ Len(r.que) = Len(c.que) - 1
  <2>1. Cut(c.que, r.que, 1, 1)
    BY <1>2, <1>4, <1>16, TailCut
  <2> QED BY <1>2, <2>1, SMTT(60) DEF Cut
<1>19. ListOK(r.que, M - 1, mx)
  <2>1. 1 \in 0..M
    BY <1>2, <1>3
  <2> QED BY <1>2, <1>18, <2>1, CutMatched
<1>20. Good(r)
  BY <1>1, <1>13, <1>16, <1>17, <1>19 DEF Good
<1>21. ASSUME NEW s \in Streams, NEW f \in Frames PROVE Total(r, s, f) = Total(c, s, f)
  <2> DEFINE y == IF <<s, f>> \in Bufs(n) THEN 1 ELSE 0
  <2>1. /\ Held(c.que, s, f) \in Nat /\ Held(r.que, s, f) \in Nat /\ y \in Nat
        /\ References(c, s, f) \in Nat
    BY <1>17 DEF Held
  <2>2. References(r, s, f) = References(c, s, f) + y
    BY <1>17
  <2>3. Held(c.que, s, f) = Held(r.que, s, f) + y
    <3>1. 1 \in Nat \ {0} /\ 1 \in 0..Len(c.que) /\ 1 <= 1 + 1
      BY <1>2, <1>4
    <3>2. Held(c.que, s, f)
          = Held(r.que, s, f) + (IF <<s, f>> \in BufsOf(c.que, 1, 1) THEN 1 ELSE 0)
      BY <1>2, <1>18, <3>1, CutLedger
    <3> QED BY <1>6, <3>2
  <2> HIDE DEF y
  <2> QED BY <2>1, <2>2, <2>3 DEF Total
<1>22. ASSUME NEW i \in 1..Len(r.que) PROVE \E j \in 1..Len(c.que) : r.que[i] = c.que[j]
  <2>1. i + 1 \in 1..Len(c.que) /\ r.que[i] = c.que[i + 1]
    BY <1>2, <1>4, <1>16, <1>18
  <2> QED BY <2>1
<1>23. ZslInv(r)
  BY <1>10, <1>13 DEF ZslInv, SameZsl
<1> QED BY <1>12, <1>16, <1>18, <1>20, <1>21, <1>22, <1>23 DEF Core

\* What holds of 0 and passes on to the next number holds of all.
LEMMA Induction ==
    ASSUME NEW T \in SUBSET Nat, 0 \in T, \A n \in T : n + 1 \in T
    PROVE  T = Nat
<1> SUFFICES ASSUME Nat \ T # {} PROVE FALSE
  OBVIOUS
<1>1. PICK n \in Nat \ T : \A k \in Nat \ T : <<k, n>> \notin OpToRel(<, Nat)
  BY NatLessThanWellFounded, WFMin, Nat \ T \subseteq Nat, Zenon
<1>2. n \in Nat /\ n - 1 \in Nat /\ n - 1 < n /\ n = (n - 1) + 1
  BY n # 0
<1>3. n - 1 \notin T
  BY <1>2
<1>4. <<n - 1, n>> \in OpToRel(<, Nat)
  BY <1>2, Zenon DEF OpToRel
<1> QED BY <1>1, <1>2, <1>3, <1>4

\* The turns of the dispatch loop.
Step(c, mem, f, n) == IF n = 0 THEN c ELSE Turn(f[n - 1], mem)

LEMMA TurnsAre ==
    ASSUME NEW c, NEW mem, NEW L \in Nat, L = Len(c.que)
    PROVE  \E f : /\ f = [n \in 0..L |-> Step(c, mem, f, n)]
                  /\ DispatchAll(c, mem) = IF WantsSuperbuf(f[L]) THEN DropHead(f[L], 1) ELSE f[L]
<1> DEFINE To(n) == \E f : f = [i \in 0..n |-> Step(c, mem, f, i)]
           N == {n \in Nat : To(n)}
<1>1. To(0)
  <2> DEFINE f == [i \in 0..0 |-> c]
  <2>1. f = [i \in 0..0 |-> Step(c, mem, f, i)]
    BY DEF Step
  <2> QED BY <2>1
<1>2. ASSUME NEW n \in Nat, To(n) PROVE To(n + 1)
  <2>1. PICK f : f = [i \in 0..n |-> Step(c, mem, f, i)]
    BY <1>2
  <2> DEFINE g == [i \in 0..(n + 1) |-> IF i \in 0..n THEN f[i] ELSE Step(c, mem, f, i)]
  <2>2. ASSUME NEW i \in 0..(n + 1) PROVE g[i] = Step(c, mem, f, i)
    BY <2>1
  <2>3. ASSUME NEW i \in 0..(n + 1) PROVE Step(c, mem, f, i) = Step(c, mem, g, i)
    <3>1. i = 0 \/ (i - 1 \in 0..n /\ i - 1 \in 0..(n + 1))
      OBVIOUS
    <3> QED BY <3>1 DEF Step
  <2>4. g = [i \in 0..(n + 1) |-> Step(c, mem, g, i)]
    <3> HIDE DEF g
    <3>1. g = [i \in 0..(n + 1) |-> g[i]]
      BY DEF g
    <3> QED BY <2>2, <2>3, <3>1
  <2> QED BY <2>4
<1>3. N = Nat
  <2>1. 0 \in N /\ N \in SUBSET Nat
    BY <1>1
  <2>2. \A n \in N : n + 1 \in N
    BY <1>2
  <2> HIDE DEF N
  <2> QED BY <2>1, <2>2, Induction
<1>4. To(L)
  BY <1>3
<1> DEFINE after == CHOOSE f : f = [i \in 0..L |-> Step(c, mem, f, i)]
<1>5. after = [i \in 0..L |-> Step(c, mem, after, i)]
  BY <1>4
<1>6. DispatchAll(c, mem) = IF WantsSuperbuf(after[L]) THEN DropHead(after[L], 1) ELSE after[L]
  BY DEF DispatchAll, Step
<1> QED BY <1>5, <1>6

\* A step that keeps a channel that keeps the ledger and can still end its capture.
LEMMA ThenKeeps ==
    ASSUME NEW c, NEW d, NEW e, Core(c, d), ZslInv(d), Keeps(d, e)
    PROVE  Core(c, e) /\ ZslInv(e) /\ Good(e)
<1>1. Core(d, e) /\ SameZsl(d, e)
  BY DEF Keeps
<1>2. Core(c, e)
  BY <1>1, CoreTwice
<1>3. ZslInv(e)
  BY <1>1 DEF SameZsl, ZslInv
<1>4. Good(e)
  BY <1>2 DEF Core
<1> QED BY <1>2, <1>3, <1>4

\* The loop ends with nothing left that is wanted, unless it is too early for it.
LEMMA DispatchAllKeeps ==
    ASSUME NEW c, Good(c), ZslInv(c), NEW mem
    PROVE  /\ Core(c, DispatchAll(c, mem)) /\ ZslInv(DispatchAll(c, mem))
           /\ DispatchAll(c, mem).isConfigCapture \/ ~WantsSuperbuf(DispatchAll(c, mem))
<1>1. PICK L : L = Len(c.que)
  OBVIOUS
<1>2. L \in Nat
  BY <1>1 DEF Good, ListOK
<1>3. PICK f : /\ f = [n \in 0..L |-> Step(c, mem, f, n)]
               /\ DispatchAll(c, mem) = IF WantsSuperbuf(f[L]) THEN DropHead(f[L], 1) ELSE f[L]
  BY <1>1, <1>2, TurnsAre
<1> DEFINE Over(d) == ~(WantsSuperbuf(d) /\ ~TooEarly(d))
           Kept(n) == /\ Core(c, f[n]) /\ ZslInv(f[n])
                      /\ Over(f[n]) \/ Len(f[n].que) = L - n
           N == {n \in Nat : n <= L => Kept(n)}
<1>4. Kept(0)
  <2>1. f[0] = c
    BY <1>2, <1>3 DEF Step
  <2>2. Core(c, c)
    BY KeepsSame DEF Keeps
  <2>3. Len(c.que) = L - 0
    BY <1>1, <1>2
  <2> QED BY <2>1, <2>2, <2>3
<1>5. ASSUME NEW n \in Nat, n + 1 <= L, Kept(n) PROVE Kept(n + 1)
  <2>1. PICK d : d = f[n]
    OBVIOUS
  <2>2. f[n + 1] = Turn(d, mem)
    <3>1. n + 1 \in 0..L /\ n + 1 # 0 /\ (n + 1) - 1 = n
      BY <1>2, <1>5
    <3> QED BY <1>3, <2>1, <3>1 DEF Step
  <2>3. Core(c, d) /\ ZslInv(d) /\ (Over(d) \/ Len(d.que) = L - n) /\ Good(d)
    BY <1>5, <2>1 DEF Core
  <2>4. CASE Over(d)
    <3>1. f[n + 1] = d
      BY <2>2, <2>4 DEF Turn
    <3> QED BY <2>3, <2>4, <3>1
  <2>5. CASE ~Over(d)
    <3>1. f[n + 1] = Dispatch(d, mem) /\ WantsSuperbuf(d)
      BY <2>2, <2>5 DEF Turn
    <3>2. /\ Core(d, f[n + 1]) /\ ZslInv(f[n + 1])
          /\ Len(f[n + 1].que) = Len(d.que) - 1
      BY <2>3, <3>1, DispatchKeeps
    <3>3. Core(c, f[n + 1])
      BY <2>3, <3>2, CoreTwice
    <3>4. Len(f[n + 1].que) = L - (n + 1)
      BY <1>2, <2>3, <2>5, <3>2
    <3> QED BY <3>2, <3>3, <3>4
  <2> QED BY <2>4, <2>5
<1>6. Kept(L)
  <2>1. 0 \in N /\ N \in SUBSET Nat
    BY <1>4
  <2>2. ASSUME NEW n \in N PROVE n + 1 \in N
    <3>1. n \in Nat /\ n + 1 \in Nat
      OBVIOUS
    <3>2. CASE n + 1 <= L
      <4>1. n <= L
        BY <1>2, <3>1, <3>2
      <4>2. Kept(n)
        BY <4>1
      <4> HIDE DEF Kept
      <4>3. Kept(n + 1)
        BY <1>5, <3>1, <3>2, <4>2
      <4> QED BY <3>1, <4>3
    <3> HIDE DEF Kept
    <3>3. CASE ~(n + 1 <= L)
      BY <3>1, <3>3
    <3> QED BY <3>2, <3>3
  <2> HIDE DEF N
  <2>3. N = Nat
    BY <2>1, <2>2, Induction
  <2> HIDE DEF Kept
  <2>4. L \in N
    BY <1>2, <2>3
  <2> QED BY <1>2, <2>4 DEF N
<1>7. PICK d : d = f[L]
  OBVIOUS
<1>8. Core(c, d) /\ ZslInv(d) /\ Good(d) /\ (Over(d) \/ Len(d.que) = 0)
  BY <1>2, <1>6, <1>7 DEF Core
<1>9. WantsSuperbuf(d) => d.match_cnt > 0 /\ d.match_cnt \in Nat /\ Len(d.que) # 0
  <2>1. /\ ListOK(d.que, d.match_cnt, d.attr.max_unmatched_frames)
        /\ d.match_cnt \in Nat /\ Len(d.que) \in Nat /\ d.match_cnt <= Len(d.que)
    BY <1>8 DEF Good, ListOK
  <2>2. MatchedHead(d.que) = d.match_cnt
    BY <2>1, Counts
  <2> QED BY <2>1, <2>2 DEF WantsSuperbuf
<1>10. CASE ~WantsSuperbuf(d)
  BY <1>3, <1>7, <1>8, <1>10
<1>11. CASE WantsSuperbuf(d)
  <2>1. TooEarly(d)
    BY <1>8, <1>9, <1>11
  <2>2. d.isConfigCapture
    BY <2>1 DEF TooEarly
  <2>3. 1 \in 0..d.match_cnt
    BY <1>9, <1>11
  <2>4. /\ Keeps(d, DropHead(d, 1)) /\ DropHead(d, 1).isConfigCapture = d.isConfigCapture
    BY <1>8, <2>3, DropHeadKeeps
  <2>5. Core(c, DropHead(d, 1)) /\ ZslInv(DropHead(d, 1))
    BY <1>8, <2>4, ThenKeeps
  <2>6. DispatchAll(c, mem) = DropHead(d, 1)
    BY <1>3, <1>7, <1>11
  <2> QED BY <2>2, <2>4, <2>5, <2>6
<1> QED BY <1>10, <1>11

\* The whole of what follows a command.
LEMMA AfterKeeps ==
    ASSUME NEW c, Good(c), c.zslOn => c.manualZSLSnapshot \/ c.startZSlSnapshotCalled, NEW mem
    PROVE  /\ Core(c, AfterCommand(c, mem)) /\ ZslInv(AfterCommand(c, mem))
           /\ AfterCommand(c, mem).isConfigCapture \/ ~WantsSuperbuf(AfterCommand(c, mem))
<1>1. PICK t : t = TriggerZsl(c)
  OBVIOUS
<1>2. Core(c, t) /\ ZslInv(t) /\ Good(t)
  BY <1>1, TriggerKeeps DEF Core
<1>3. PICK d : d = BufdoneOverflow(t)
  OBVIOUS
<1>4. Keeps(t, d)
  <2>1. t.attr.water_mark \in Nat
    BY <1>2 DEF Good, FieldInv, AttrType
  <2> QED BY <1>2, <1>3, <2>1, TrimToKeeps DEF BufdoneOverflow
<1>5. Core(c, d) /\ ZslInv(d) /\ Good(d)
  BY <1>2, <1>4, ThenKeeps
<1>6. c.stuck = FALSE /\ d.stuck = FALSE
  BY <1>5 DEF Good, FieldInv
<1>7. AfterCommand(c, mem) = DispatchAll(d, mem)
  BY <1>1, <1>3, <1>6 DEF AfterCommand
<1>8. /\ Core(d, DispatchAll(d, mem)) /\ ZslInv(DispatchAll(d, mem))
      /\ DispatchAll(d, mem).isConfigCapture \/ ~WantsSuperbuf(DispatchAll(d, mem))
  BY <1>5, DispatchAllKeeps
<1>9. Core(c, DispatchAll(d, mem))
  BY <1>5, <1>8, CoreTwice
<1> QED BY <1>7, <1>8, <1>9

-----------------------------------------------------------------------------
(* The steps of the command thread and of its client. *)

LEMMA SetupTypes ==
    ASSUME scene \in DOMAIN Scenes
    PROVE  /\ Setup.metas \subseteq MetaType /\ Setup.attr \in AttrType
           /\ \A r \in Setup.requests : r[1] \in Nat /\ r[2] \in Nat
           /\ Setup.flushes \subseteq Nat /\ Setup.modes \subseteq {"BURST", "CONTINUOUS"}
           /\ Setup.linked \subseteq Streams
<1>1. Setup \in SceneType
  BY ConstantsOK DEF Setup
<1> QED BY <1>1 DEF SceneType

\* After a command no superbuf that is wanted is left.
NoneLeft == chan'.isConfigCapture \/ ~WantsSuperbuf(chan')

\* What the commit of a handler's result needs.
LEMMA CommitKeeps ==
    ASSUME IInv, NEW B, NEW d, Good(d), ZslInv(d), d.phase = chan.phase, d.phase # "STOPPED",
           \A t \in Streams, g \in Frames :
              Total(d, t, g) = Total(chan, t, g) + (IF <<t, g>> \in B THEN 1 ELSE 0),
           seqno' \in [Streams -> -1..MaxFrame], Recent(d.que, seqno'),
           UNCHANGED scene, Commit(d, B)
    PROVE  /\ IInv'
           /\ d.isConfigCapture \/ ~WantsSuperbuf(d) => NoneLeft
<1>1. FieldInv(d) /\ OutInv(d) /\ ListOK(d.que, d.match_cnt, d.attr.max_unmatched_frames)
  BY DEF Good
<1>2. chan' = [d EXCEPT !.freed = <<>>, !.sent = <<>>] /\ sent' = d.sent
      /\ owed' = [s \in Streams |-> [f \in Frames |->
                    owed[s][f] + (IF <<s, f>> \in B THEN 1 ELSE 0) - References(d, s, f)]]
  BY DEF Commit
<1>3. PICK c : c = chan'
  OBVIOUS
<1>4. /\ FieldInv(c) /\ c.que = d.que /\ c.match_cnt = d.match_cnt /\ c.attr = d.attr
      /\ c.freed = <<>> /\ c.sent = <<>> /\ c.phase = d.phase /\ SameZsl(d, c)
      /\ c.isConfigCapture = d.isConfigCapture /\ c.pending_cnt = d.pending_cnt
      /\ c.bWaitForPrepSnapshotDone = d.bWaitForPrepSnapshotDone
  BY <1>1, <1>2, <1>3 DEF FieldInv, SameZsl, ChanFields
<1>5. Good(c)
  <2>1. OutInv(c)
    BY <1>4, References_None
  <2> QED BY <1>1, <1>4, <2>1 DEF Good
<1>6. ZslInv(c)
  BY <1>4 DEF ZslInv, SameZsl
<1>7. (d.isConfigCapture \/ ~WantsSuperbuf(d)) => (c.isConfigCapture \/ ~WantsSuperbuf(c))
  BY <1>4 DEF WantsSuperbuf
<1>8. \A s, f : References(chan, s, f) = 0
  BY References_None DEF IInv
<1>9. \A s, f : References(d, s, f) \in Nat
  BY <1>1, References_Same
<1>10. owed' \in [Streams -> [Frames -> Int]]
  <2>1. \A s \in Streams, f \in Frames : owed[s][f] \in Int
    BY DEF IInv
  <2>2. \A s \in Streams, f \in Frames :
           owed[s][f] + (IF <<s, f>> \in B THEN 1 ELSE 0) - References(d, s, f) \in Int
    <3> SUFFICES ASSUME NEW s \in Streams, NEW f \in Frames
                 PROVE  owed[s][f] + (IF <<s, f>> \in B THEN 1 ELSE 0) - References(d, s, f) \in Int
      OBVIOUS
    <3> DEFINE x == IF <<s, f>> \in B THEN 1 ELSE 0
    <3>1. owed[s][f] \in Int /\ x \in Int /\ References(d, s, f) \in Int
      BY <1>9, <2>1
    <3> HIDE DEF x
    <3>2. owed[s][f] + x - References(d, s, f) \in Int
      BY <3>1
    <3> QED BY <3>2 DEF x
  <2> QED BY <1>2, <2>2
<1>11. ASSUME Whole', NEW s \in Streams, NEW f \in Frames PROVE owed'[s][f] = Held(c.que, s, f)
  <2> DEFINE x == IF <<s, f>> \in B THEN 1 ELSE 0
  <2>1. Whole
    BY <1>11 DEF Whole, Setup
  <2>2. owed[s][f] = Held(chan.que, s, f)
    BY <2>1 DEF IInv
  <2>3. /\ Held(chan.que, s, f) \in Nat /\ Held(d.que, s, f) \in Nat /\ x \in Nat
        /\ References(d, s, f) \in Nat
    BY <1>9 DEF Held
  <2>4. owed'[s][f] = owed[s][f] + x - References(d, s, f)
    BY <1>2
  <2>5. Held(d.que, s, f) + References(d, s, f) = Held(chan.que, s, f) + References(chan, s, f) + x
    BY DEF Total
  <2> HIDE DEF x
  <2>6. owed'[s][f] = Held(d.que, s, f)
    BY <1>8, <2>2, <2>3, <2>4, <2>5
  <2> QED BY <1>4, <2>6
<1>12. scene' = scene /\ Matching'
  BY DEF IInv, Matching, Setup
<1>13. sent' \in Seq(SentType)
  BY <1>1, <1>2 DEF OutInv
<1>14. c.phase \in {"STOPPED", "STARTING", "ACTIVE"} /\ c.phase # "STOPPED" /\ scene' \in DOMAIN Scenes
  BY <1>4, <1>12 DEF IInv
<1>15. Recent(c.que, seqno')
  BY <1>4
<1>16. IInv'
  BY <1>3, <1>4, <1>5, <1>6, <1>10, <1>11, <1>12, <1>13, <1>14, <1>15 DEF IInv
<1> QED BY <1>3, <1>7, <1>16 DEF NoneLeft

\* A command that leaves the channel as c.
LEMMA CommandKeeps ==
    ASSUME IInv, Running, NEW c, Core(chan, c),
           c.zslOn => c.manualZSLSnapshot \/ c.startZSlSnapshotCalled, NEW mem,
           Commit(AfterCommand(c, mem), {}), UNCHANGED <<scene, seqno>>
    PROVE  IInv' /\ NoneLeft
<1>1. PICK d : d = AfterCommand(c, mem)
  OBVIOUS
<1>2. Good(c)
  BY DEF Core
<1>3. Core(c, d) /\ ZslInv(d) /\ (d.isConfigCapture \/ ~WantsSuperbuf(d))
  BY <1>1, <1>2, AfterKeeps
<1>4. Core(chan, d)
  BY <1>3, CoreTwice
<1>5. Good(d) /\ d.phase = chan.phase /\ d.phase # "STOPPED"
  BY <1>4 DEF Core, Running
<1>6. \A t \in Streams, g \in Frames :
         Total(d, t, g) = Total(chan, t, g) + (IF <<t, g>> \in {} THEN 1 ELSE 0)
  <2> SUFFICES ASSUME NEW t \in Streams, NEW g \in Frames
               PROVE  Total(d, t, g) = Total(chan, t, g) + (IF <<t, g>> \in {} THEN 1 ELSE 0)
    OBVIOUS
  <2>1. Total(d, t, g) = Total(chan, t, g)
    BY <1>4 DEF Core
  <2>2. References(chan, t, g) = 0
    BY References_None DEF IInv
  <2>3. Total(chan, t, g) \in Nat
    BY <2>2 DEF Total, Held
  <2> QED BY <2>1, <2>3
<1>7. seqno' \in [Streams -> -1..MaxFrame] /\ Recent(d.que, seqno')
  <2>1. Recent(chan.que, seqno) /\ seqno \in [Streams -> -1..MaxFrame]
    BY DEF IInv
  <2>2. Recent(d.que, seqno)
    BY <1>4, <2>1 DEF Core, Recent
  <2> QED BY <2>1, <2>2
<1>8. Commit(d, {})
  BY <1>1
<1> QED BY <1>3, <1>5, <1>6, <1>7, <1>8, CommitKeeps

LEMMA DataCbKeeps ==
    ASSUME IInv, NEW s \in Streams, NEW f \in Frames, NEW m \in Setup.metas, NEW mem,
           DataCb(s, f, m, mem), UNCHANGED scene
    PROVE  IInv' /\ NoneLeft
<1>1. /\ ThreadUp /\ f > seqno[s] /\ seqno' = [seqno EXCEPT ![s] = f]
      /\ Commit(AfterCommand(CompAndEnqueue(chan, s, f, m, mem), mem), {<<s, f>>})
  BY DEF DataCb
<1>2. Good(chan) /\ seqno \in [Streams -> -1..MaxFrame] /\ Recent(chan.que, seqno) /\ ZslInv(chan)
  BY DEF IInv
<1>3. m \in MetaType
  BY SetupTypes DEF IInv
<1>4. f # 0 => Fresh(chan.que, s, f)
  <2> SUFFICES ASSUME f # 0, NEW i \in 1..Len(chan.que) PROVE chan.que[i].super_buf[s] < f
    BY DEF Fresh
  <2>1. chan.que[i].super_buf[s] \in {0} \cup 1..seqno[s]
    BY <1>2 DEF Recent
  <2>2. seqno[s] \in Int /\ f \in Nat /\ f > seqno[s]
    BY <1>1, <1>2 DEF Frames
  <2>3. \A x \in {0} \cup 1..seqno[s] : x < f
    BY <2>2
  <2> QED BY <2>1, <2>3
<1>5. PICK c : c = CompAndEnqueue(chan, s, f, m, mem)
  OBVIOUS
<1>6. Takes(chan, c, s, f)
  BY <1>2, <1>3, <1>4, <1>5, CompAndEnqueueTakes
<1>7. PICK d : d = AfterCommand(c, mem)
  OBVIOUS
<1>8. Good(c) /\ (c.zslOn => c.manualZSLSnapshot \/ c.startZSlSnapshotCalled)
  BY <1>2, <1>6 DEF Takes, SameZsl, ZslInv
<1>9. Core(c, d) /\ ZslInv(d) /\ (d.isConfigCapture \/ ~WantsSuperbuf(d))
  BY <1>7, <1>8, AfterKeeps
<1>10. Good(d) /\ d.phase = chan.phase /\ d.phase # "STOPPED"
  BY <1>1, <1>6, <1>9 DEF Core, Takes, ThreadUp
<1>11. \A t \in Streams, g \in Frames :
          Total(d, t, g) = Total(chan, t, g) + (IF <<t, g>> \in {<<s, f>>} THEN 1 ELSE 0)
  BY <1>6, <1>9 DEF Core, Takes
<1>12. seqno' \in [Streams -> -1..MaxFrame]
  <2>1. f \in -1..MaxFrame
    BY ConstantsOK DEF Frames
  <2> QED BY <1>1, <1>2, <2>1
<1>13. Recent(d.que, seqno')
  <2> SUFFICES ASSUME NEW i \in 1..Len(d.que), NEW t \in Streams
               PROVE  d.que[i].super_buf[t] \in {0} \cup 1..seqno'[t]
    BY DEF Recent
  <2>1. PICK k \in 1..Len(c.que) : d.que[i] = c.que[k]
    BY <1>9 DEF Core
  <2>2. PICK x : x = d.que[i].super_buf[t]
    OBVIOUS
  <2>3. \/ x = 0
        \/ t = s /\ x = f
        \/ \E j \in 1..Len(chan.que) : x = chan.que[j].super_buf[t]
    BY <1>6, <2>1, <2>2 DEF Takes
  <2>4. seqno[t] \in Int /\ seqno'[t] \in Int /\ seqno[t] <= seqno'[t] /\ (t = s => seqno'[t] = f)
        /\ f \in Nat
    BY <1>1, <1>2 DEF Frames
  <2>5. \A j \in 1..Len(chan.que) : chan.que[j].super_buf[t] \in {0} \cup 1..seqno[t]
    BY <1>2 DEF Recent
  <2>6. x \in {0} \cup 1..seqno[t] \/ (t = s /\ x = f)
    BY <2>3, <2>5
  <2>7. x \in {0} \cup 1..seqno'[t]
    BY <2>4, <2>6
  <2> QED BY <2>2, <2>7
<1>14. Commit(d, {<<s, f>>})
  BY <1>1, <1>5, <1>7
<1> QED BY <1>9, <1>10, <1>11, <1>12, <1>13, <1>14, CommitKeeps

LEMMA ReqDataCbKeeps ==
    ASSUME IInv, NEW num \in Nat, NEW retro \in Nat, ReqDataCb(num, retro), UNCHANGED scene,
           chan.isConfigCapture => chan.cur_capture_idx + num < MaxBatch
    PROVE  IInv' /\ NoneLeft
<1> DEFINE few == IF num = 0 \/ retro > num THEN num ELSE retro
           flash == IF few > 0 THEN FALSE ELSE chan.needLEDFlash
           c0 == [chan EXCEPT !.pending_cnt = num, !.pending_retro_cnt = few,
                              !.bWaitForPrepSnapshotDone = FALSE,
                              !.needLEDFlash = flash,
                              !.stopZslSnapshot = FALSE, !.unLockAEC = FALSE]
<1>1. few \in Nat
  OBVIOUS
<1>2. Running /\ seqno' = seqno /\ \E mem \in Setup.mallocs : Commit(AfterCommand(Skip(c0), mem), {})
  <2>1. c0 = [chan EXCEPT !.pending_cnt = num, !.pending_retro_cnt = few,
                              !.bWaitForPrepSnapshotDone = FALSE,
                              !.needLEDFlash = IF few > 0 THEN FALSE ELSE @,
                              !.stopZslSnapshot = FALSE, !.unLockAEC = FALSE]
    <3> HIDE DEF few
    <3> QED OBVIOUS
  <2> HIDE DEF c0
  <2> QED BY <2>1 DEF ReqDataCb
<1>3. Good(chan) /\ FieldInv(chan) /\ ZslInv(chan)
  BY DEF IInv, Good
<1> HIDE DEF few, flash
<1>4. /\ FieldInv(c0) /\ SameList(chan, c0) /\ c0.zslOn = chan.zslOn
      /\ c0.manualZSLSnapshot = chan.manualZSLSnapshot
      /\ c0.startZSlSnapshotCalled = chan.startZSlSnapshotCalled
  BY <1>1, <1>3 DEF FieldInv, SameList, ChanFields
<1>5. PICK c : c = c0
  OBVIOUS
<1> HIDE DEF c0
<1>6. Core(chan, c) /\ Good(c)
  BY <1>3, <1>4, <1>5, AsideCore DEF Core
<1>7. PICK d : d = Skip(c)
  OBVIOUS
<1>8. Keeps(c, d)
  <2>1. c.attr.look_back \in Nat
    BY <1>4, <1>5 DEF FieldInv, AttrType
  <2> QED BY <1>6, <1>7, <2>1, TrimToKeeps DEF Skip
<1>9. Core(chan, d) /\ (d.zslOn => d.manualZSLSnapshot \/ d.startZSlSnapshotCalled)
  <2>1. Core(chan, d)
    BY <1>6, <1>8, CoreTwice DEF Keeps
  <2>2. d.zslOn => d.manualZSLSnapshot \/ d.startZSlSnapshotCalled
    BY <1>3, <1>4, <1>5, <1>8 DEF Keeps, SameZsl, ZslInv
  <2> QED BY <2>1, <2>2
<1>10. PICK mem \in Setup.mallocs : Commit(AfterCommand(d, mem), {})
  BY <1>2, <1>5, <1>7
<1> QED BY <1>2, <1>9, <1>10, CommandKeeps

\* The generic commands change fields that steer the matching.
LEMMA GeneralKeeps ==
    ASSUME IInv, NEW c, Core(chan, c), General(c), UNCHANGED scene,
           c.zslOn => c.manualZSLSnapshot \/ c.startZSlSnapshotCalled
    PROVE  IInv' /\ NoneLeft
<1>1. PICK mem \in Setup.mallocs : Commit(AfterCommand(c, mem), {})
  BY DEF General
<1>2. Running /\ seqno' = seqno
  BY DEF General
<1> QED BY <1>1, <1>2, CommandKeeps

LEMMA ManualZslKeeps ==
    ASSUME IInv, NEW on \in BOOLEAN, ManualZsl(on), UNCHANGED scene
    PROVE  IInv' /\ NoneLeft
<1>1. PICK c : c = IF on THEN StartZsl([chan EXCEPT !.manualZSLSnapshot = on])
                   ELSE StopZsl([chan EXCEPT !.manualZSLSnapshot = on])
  OBVIOUS
<1>2. FieldInv(chan) /\ Good(chan)
  BY DEF IInv, Good
<1>3. /\ FieldInv(c) /\ SameList(chan, c)
      /\ (c.zslOn => c.manualZSLSnapshot \/ c.startZSlSnapshotCalled)
  <2>1. CASE on
    <3>1. c = [[chan EXCEPT !.manualZSLSnapshot = TRUE] EXCEPT !.zslOn = TRUE]
      BY <1>1, <2>1 DEF StartZsl
    <3> QED BY <1>2, <3>1 DEF FieldInv, SameList, ChanFields
  <2>2. CASE ~on
    <3>1. c = [[chan EXCEPT !.manualZSLSnapshot = FALSE] EXCEPT !.zslOn = FALSE]
      BY <1>1, <2>2 DEF StopZsl
    <3> QED BY <1>2, <3>1 DEF FieldInv, SameList, ChanFields
  <2> QED BY <2>1, <2>2
<1>4. Core(chan, c)
  BY <1>2, <1>3, AsideCore
<1>5. Running /\ seqno' = seqno /\ \E mem \in Setup.mallocs : Commit(AfterCommand(c, mem), {})
  BY <1>1 DEF ManualZsl
<1>6. PICK mem \in Setup.mallocs : Commit(AfterCommand(c, mem), {})
  BY <1>5
<1> QED BY <1>3, <1>4, <1>5, <1>6, CommandKeeps

LEMMA ConfigNotifyKeeps ==
    ASSUME IInv, NEW mode \in Setup.modes, ConfigNotify(mode), UNCHANGED scene
    PROVE  IInv' /\ NoneLeft
<1>1. PICK c : c = [chan EXCEPT !.attr.notify_mode = mode]
  OBVIOUS
<1>2. FieldInv(chan) /\ Good(chan) /\ ZslInv(chan) /\ chan.attr \in AttrType
  BY DEF IInv, Good, FieldInv
<1>3. mode \in {"BURST", "CONTINUOUS"}
  BY SetupTypes DEF IInv
<1>4. PICK a : a = [chan.attr EXCEPT !.notify_mode = mode]
  OBVIOUS
<1>5. a \in AttrType /\ a.low = chan.attr.low /\ a.max_unmatched_frames = chan.attr.max_unmatched_frames
  BY <1>2, <1>3, <1>4 DEF AttrType
<1>6. c = [chan EXCEPT !.attr = a]
  BY <1>1, <1>4
<1>7. /\ FieldInv(c) /\ SameZsl(chan, c) /\ c.attr = a /\ c.que = chan.que
      /\ c.match_cnt = chan.match_cnt
      /\ c.freed = chan.freed /\ c.sent = chan.sent /\ c.phase = chan.phase
  BY <1>2, <1>5, <1>6 DEF FieldInv, SameZsl, ChanFields
<1>8. Core(chan, c)
  <2>1. OutInv(chan)
    BY <1>2 DEF Good
  <2>2. OutInv(c) /\ \A s, f : References(c, s, f) = References(chan, s, f)
    BY <1>7, <2>1, References_Same
  <2>3. ListOK(c.que, c.match_cnt, c.attr.max_unmatched_frames)
    BY <1>2, <1>5, <1>7 DEF Good
  <2>4. Good(c)
    BY <1>7, <2>2, <2>3 DEF Good
  <2> QED BY <1>7, <2>2, <2>4 DEF Core, Total
<1>9. c.zslOn => c.manualZSLSnapshot \/ c.startZSlSnapshotCalled
  BY <1>2, <1>7 DEF ZslInv, SameZsl
<1>10. Running /\ seqno' = seqno /\ \E mem \in Setup.mallocs : Commit(AfterCommand(c, mem), {})
  BY <1>1 DEF ConfigNotify
<1>11. PICK mem \in Setup.mallocs : Commit(AfterCommand(c, mem), {})
  BY <1>10
<1> QED BY <1>8, <1>9, <1>10, <1>11, CommandKeeps

\* The commands that flush the queue and set a field.
LEMMA FlushedKeeps ==
    ASSUME IInv, NEW c, FieldInv(c), SameList(Flush(chan, Streams), c),
           SameZsl(Flush(chan, Streams), c), General(c), UNCHANGED scene
    PROVE  IInv' /\ NoneLeft
<1>1. PICK d : d = Flush(chan, Streams)
  OBVIOUS
<1>2. Good(chan) /\ ZslInv(chan)
  BY DEF IInv
<1>3. Core(chan, d) /\ SameZsl(chan, d) /\ Good(d)
  BY <1>1, <1>2, FlushKeeps DEF Keeps, Core
<1>4. Core(chan, c)
  BY <1>1, <1>3, AsideCore, CoreTwice
<1>5. c.zslOn => c.manualZSLSnapshot \/ c.startZSlSnapshotCalled
  BY <1>1, <1>2, <1>3 DEF ZslInv, SameZsl
<1> QED BY <1>4, <1>5, GeneralKeeps

LEMMA BracketingKeeps ==
    ASSUME IInv, NEW on \in BOOLEAN, Bracketing(on) \/ FlashBracketing(on) \/ Zoom1x(on),
           UNCHANGED scene
    PROVE  IInv' /\ NoneLeft
<1>1. PICK d : d = Flush(chan, Streams)
  OBVIOUS
<1>2. FieldInv(d)
  BY <1>1, FlushFields DEF IInv, Good
<1>3. CASE Bracketing(on)
  <2>1. PICK c : c = [d EXCEPT !.bracketingState = IF on THEN "WAIT_GOOD_FRAME_IDX" ELSE "OFF"]
    OBVIOUS
  <2>2. General(c)
    BY <1>1, <1>3, <2>1 DEF Bracketing
  <2>3. FieldInv(c) /\ SameList(d, c) /\ SameZsl(d, c)
    BY <1>2, <2>1 DEF FieldInv, SameList, SameZsl, ChanFields
  <2> QED BY <1>1, <2>2, <2>3, FlushedKeeps
<1>4. CASE FlashBracketing(on)
  <2>1. PICK c : c = [d EXCEPT !.isFlashBracketingEnabled = on]
    OBVIOUS
  <2>2. General(c)
    BY <1>1, <1>4, <2>1 DEF FlashBracketing
  <2>3. FieldInv(c) /\ SameList(d, c) /\ SameZsl(d, c)
    BY <1>2, <2>1 DEF FieldInv, SameList, SameZsl, ChanFields
  <2> QED BY <1>1, <2>2, <2>3, FlushedKeeps
<1>5. CASE Zoom1x(on)
  <2>1. PICK c : c = [d EXCEPT !.isZoom1xFrameRequested = on]
    OBVIOUS
  <2>2. General(c)
    BY <1>1, <1>5, <2>1 DEF Zoom1x
  <2>3. FieldInv(c) /\ SameList(d, c) /\ SameZsl(d, c)
    BY <1>2, <2>1 DEF FieldInv, SameList, SameZsl, ChanFields
  <2> QED BY <1>1, <2>2, <2>3, FlushedKeeps
<1> QED BY <1>3, <1>4, <1>5

LEMMA CaptureSettingKeeps ==
    ASSUME IInv, NEW cfg, CaptureSetting(cfg), UNCHANGED scene
    PROVE  IInv' /\ NoneLeft
<1> DEFINE on == cfg # <<>>
           bs == CaptureBatches(cfg)
           ids == [b \in DOMAIN chan.capture_frame_id |->
                     IF b < MaxBatch \div 4 THEN 0 ELSE chan.capture_frame_id[b]]
           c == [chan EXCEPT !.isConfigCapture = on, !.frameConfig = bs, !.cur_capture_idx = 0,
                             !.capture_frame_id = ids]
<1>1. Good(chan) /\ FieldInv(chan) /\ ZslInv(chan)
  BY DEF IInv, Good
<1>2. General(c) /\ (on => chan.pending_cnt < MaxBatch)
  <2>1. c = [chan EXCEPT
          !.isConfigCapture = cfg # <<>>,
          !.frameConfig = CaptureBatches(cfg),
          !.cur_capture_idx = 0,
          !.capture_frame_id = [b \in DOMAIN @ |-> IF b < MaxBatch \div 4 THEN 0 ELSE @[b]]]
    OBVIOUS
  <2> HIDE DEF c
  <2> QED BY <2>1 DEF CaptureSetting
<1>3. ids \in [0..(MaxBatch - 1) -> Nat]
  <2>1. chan.capture_frame_id \in [0..(MaxBatch - 1) -> Nat]
    BY <1>1 DEF FieldInv
  <2>2. PICK v : v = chan.capture_frame_id
    OBVIOUS
  <2>3. [b \in 0..(MaxBatch - 1) |-> IF b < MaxBatch \div 4 THEN 0 ELSE v[b]] \in [0..(MaxBatch - 1) -> Nat]
    BY <2>1, <2>2
  <2>4. DOMAIN v = 0..(MaxBatch - 1)
    BY <2>1, <2>2
  <2> QED BY <2>2, <2>3, <2>4
<1>4. on => 0 + chan.pending_cnt < MaxBatch
  BY <1>1, <1>2 DEF FieldInv
<1> HIDE DEF on, bs, ids
<1>5. FieldInv(c) /\ SameList(chan, c) /\ SameZsl(chan, c)
  BY <1>1, <1>3, <1>4 DEF FieldInv, SameList, SameZsl, ChanFields
<1> HIDE DEF c
<1>6. Core(chan, c)
  BY <1>1, <1>5, AsideCore
<1>7. c.zslOn => c.manualZSLSnapshot \/ c.startZSlSnapshotCalled
  BY <1>1, <1>5 DEF ZslInv, SameZsl
<1> QED BY <1>2, <1>6, <1>7, GeneralKeeps

LEMMA FlushQueueKeeps ==
    ASSUME IInv, NEW f \in Setup.flushes, FlushQueue(f), UNCHANGED scene
    PROVE  IInv' /\ NoneLeft
<1>1. PICK c : c = [chan EXCEPT !.expected_frame_id = f]
  OBVIOUS
<1>2. f \in Nat
  BY SetupTypes DEF IInv
<1>3. Good(chan) /\ FieldInv(chan) /\ ZslInv(chan)
  BY DEF IInv, Good
<1>4. Aside(chan, c)
  BY <1>1, <1>2, <1>3 DEF Aside, FieldInv, SameList, SameZsl, ChanFields
<1>5. Keeps(chan, c) /\ Good(c)
  BY <1>3, <1>4, AsideKeeps DEF Keeps, Core
<1>6. PICK d : d = Flush(c, Streams)
  OBVIOUS
<1>7. Keeps(chan, d) /\ d.que = <<>>
  BY <1>5, <1>6, FlushKeeps, KeepsTwice
<1>8. Running /\ seqno' = seqno /\ Commit(d, {})
  BY <1>1, <1>6 DEF FlushQueue
<1>9. Good(d) /\ ZslInv(d) /\ d.phase = chan.phase /\ d.phase # "STOPPED"
  BY <1>3, <1>7, <1>8 DEF Keeps, Core, SameZsl, ZslInv, Running
<1>10. \A t \in Streams, g \in Frames :
          Total(d, t, g) = Total(chan, t, g) + (IF <<t, g>> \in {} THEN 1 ELSE 0)
  <2> SUFFICES ASSUME NEW t \in Streams, NEW g \in Frames
               PROVE  Total(d, t, g) = Total(chan, t, g) + (IF <<t, g>> \in {} THEN 1 ELSE 0)
    OBVIOUS
  <2>1. Total(d, t, g) = Total(chan, t, g)
    BY <1>7 DEF Keeps, Core
  <2>2. References(chan, t, g) = 0
    BY References_None DEF IInv
  <2>3. Total(chan, t, g) \in Nat
    BY <2>2 DEF Total, Held
  <2> QED BY <2>1, <2>3
<1>11. seqno' \in [Streams -> -1..MaxFrame] /\ Recent(d.que, seqno')
  BY <1>7, <1>8 DEF IInv, Recent
<1>12. ~WantsSuperbuf(d)
  <2>1. MatchedHead(<<>>) = 0
    BY DEF MatchedHead, Unmatched
  <2> QED BY <1>7, <2>1 DEF WantsSuperbuf
<1> QED BY <1>8, <1>9, <1>10, <1>11, <1>12, CommitKeeps

-----------------------------------------------------------------------------
(* Sessions *)

\* A channel without nodes, as every session starts and ends.
LEMMA EmptyGood ==
    ASSUME NEW c, FieldInv(c), c.que = <<>>, c.match_cnt = 0, c.freed = <<>>, c.sent = <<>>
    PROVE  Good(c) /\ \A sq : Recent(c.que, sq)
<1>1. OutInv(c)
  BY References_None
<1>2. c.attr.max_unmatched_frames \in Nat
  BY DEF FieldInv, AttrType
<1>3. ListOK(c.que, c.match_cnt, c.attr.max_unmatched_frames)
  BY <1>2, EmptyList
<1>4. \A sq : Recent(c.que, sq)
  BY DEF Recent
<1> QED BY <1>1, <1>3, <1>4 DEF Good

LEMMA EmptyHeld ==
    ASSUME NEW s, NEW f
    PROVE  Held(<<>>, s, f) = 0
BY DEF Held, Has

\* An empty list counts no matched node.
LEMMA EmptyCount ==
    ASSUME NEW c, Good(c), c.que = <<>>
    PROVE  c.match_cnt = 0
BY DEF Good, ListOK

LEMMA StartKeeps ==
    ASSUME IInv, Start, UNCHANGED scene
    PROVE  IInv'
<1>1. PICK c : c = chan'
  OBVIOUS
<1>2. FieldInv(chan) /\ Good(chan) /\ ZslInv(chan) /\ chan.que = <<>> /\ chan.match_cnt = 0
      /\ chan.freed = <<>> /\ chan.sent = <<>>
  BY EmptyCount DEF IInv, Good, Start
<1>3. /\ FieldInv(c) /\ c.que = <<>> /\ c.match_cnt = 0 /\ c.freed = <<>> /\ c.sent = <<>>
      /\ SameZsl(chan, c) /\ c.phase = "STARTING"
  BY <1>1, <1>2 DEF Start, FieldInv, SameZsl, ChanFields
<1>4. Good(c) /\ Recent(c.que, seqno')
  BY <1>3, EmptyGood
<1>5. ZslInv(c)
  BY <1>2, <1>3 DEF ZslInv, SameZsl
<1>6. seqno' \in [Streams -> -1..MaxFrame]
  <2>1. seqno \in [Streams -> -1..MaxFrame]
    BY DEF IInv
  <2>2. -1 \in -1..MaxFrame
    BY ConstantsOK
  <2>3. [s \in Streams |-> -1] \in [Streams -> -1..MaxFrame]
    BY <2>2
  <2> QED BY <2>1, <2>3 DEF Start
<1>7. owed' = owed /\ sent' = <<>> /\ scene' = scene
  BY DEF Start
<1>8. Matching' /\ (Whole' => Whole)
  BY <1>7 DEF IInv, Matching, Whole, Setup
<1>9. sent' \in Seq(SentType)
  BY <1>7
<1>10. Whole' => \A s \in Streams, f \in Frames : owed'[s][f] = Held(c.que, s, f)
  BY <1>2, <1>3, <1>7, <1>8 DEF IInv
<1>11. owed' \in [Streams -> [Frames -> Int]] /\ scene' \in DOMAIN Scenes
  BY <1>7 DEF IInv
<1> QED BY <1>1, <1>3, <1>4, <1>5, <1>6, <1>8, <1>9, <1>10, <1>11 DEF IInv

LEMMA StartDoneKeeps ==
    ASSUME IInv, StartDone, UNCHANGED scene
    PROVE  IInv'
<1>1. PICK c : c = chan'
  OBVIOUS
<1>2. FieldInv(chan) /\ Good(chan) /\ ZslInv(chan) /\ chan.freed = <<>> /\ chan.sent = <<>>
  BY DEF IInv, Good
<1>3. /\ FieldInv(c) /\ c.que = chan.que /\ c.match_cnt = chan.match_cnt /\ c.attr = chan.attr
      /\ c.freed = <<>> /\ c.sent = <<>> /\ SameZsl(chan, c) /\ c.phase = "ACTIVE"
  BY <1>1, <1>2 DEF StartDone, FieldInv, SameZsl, ChanFields
<1>4. Good(c)
  BY <1>2, <1>3 DEF Good, OutInv
<1>5. ZslInv(c)
  BY <1>2, <1>3 DEF ZslInv, SameZsl
<1>6. owed' = owed /\ sent' = <<>> /\ scene' = scene /\ seqno' = seqno
  BY DEF StartDone
<1>7. Matching' /\ (Whole' => Whole)
  BY <1>6 DEF IInv, Matching, Whole, Setup
<1>8. sent' \in Seq(SentType)
  BY <1>6
<1>9. Whole' => \A s \in Streams, f \in Frames : owed'[s][f] = Held(c.que, s, f)
  BY <1>3, <1>6, <1>7 DEF IInv
<1>10. /\ owed' \in [Streams -> [Frames -> Int]] /\ scene' \in DOMAIN Scenes
       /\ seqno' \in [Streams -> -1..MaxFrame] /\ Recent(c.que, seqno')
  BY <1>3, <1>6 DEF IInv
<1> QED BY <1>1, <1>3, <1>4, <1>5, <1>7, <1>8, <1>9, <1>10 DEF IInv

\* What is left of the references when the channel is unregistered with one stream
\* flushed, or none.
LEMMA UnregisteredTypes ==
    ASSUME IInv, NEW c, OutInv(c)
    PROVE  Unregistered(c) \in [Streams -> [Frames -> Int]]
<1>1. \A s, f : References(c, s, f) \in Nat
  BY References_Same
<1>2. \A s \in Streams, f \in Frames : owed[s][f] \in Int
  BY DEF IInv
<1>3. \A s \in Streams, f \in Frames :
        (IF s \in OwnStreams THEN 0 ELSE owed[s][f] - References(c, s, f)) \in Int
  BY <1>1, <1>2
<1> QED BY <1>3 DEF Unregistered

LEMMA BufsInIs ==
    ASSUME NEW q \in Seq(NodeType), NEW l
    PROVE  /\ BufsIn(q, {l}) \in FreedType
           /\ \A f : <<l, f>> \in BufsIn(q, {l}) /\ l \in Streams <=> Has(q, l, f) /\ l \in Streams
<1>1. DOMAIN q = 1..Len(q) /\ Len(q) \in Nat
  OBVIOUS
<1>2. \A i \in 1..Len(q) : Bufs(q[i]) \in FreedType
  BY BufsType
<1>3. BufsIn(q, {l}) \in FreedType
  BY <1>1, <1>2 DEF BufsIn, FreedType
<1>4. ASSUME NEW f, l \in Streams
      PROVE  <<l, f>> \in BufsIn(q, {l}) <=> Has(q, l, f)
  <2>1. <<l, f>> \in BufsIn(q, {l}) <=> \E i \in 1..Len(q) : <<l, f>> \in Bufs(q[i])
    BY <1>1 DEF BufsIn
  <2>2. \A i \in 1..Len(q) : <<l, f>> \in Bufs(q[i]) <=> (f # 0 /\ q[i].super_buf[l] = f)
    BY <1>4, InBufs
  <2> QED BY <2>1, <2>2 DEF Has
<1> QED BY <1>3, <1>4

\* The flush of one stream gives back what the list holds of it.
LEMMA FlushOne ==
    ASSUME IInv, NEW l
    PROVE  /\ FieldInv(Flush(chan, {l})) /\ OutInv(Flush(chan, {l}))
           /\ SameZsl(chan, Flush(chan, {l})) /\ Flush(chan, {l}).sent = <<>>
           /\ l \in Streams => \A f : References(Flush(chan, {l}), l, f) = Held(chan.que, l, f)
<1>1. FieldInv(chan) /\ chan.que \in Seq(NodeType) /\ chan.freed = <<>> /\ chan.sent = <<>>
  BY DEF IInv, Good, ListOK
<1>2. PICK c : c = Flush(chan, {l})
  OBVIOUS
<1>3. PICK B : B = BufsIn(chan.que, {l})
  OBVIOUS
<1>4. FieldInv(c) /\ SameZsl(chan, c) /\ c.freed = Append(chan.freed, B) /\ c.sent = chan.sent
  BY <1>1, <1>2, <1>3, FlushFields
<1>5. B \in FreedType /\ (l \in Streams => \A f : <<l, f>> \in B <=> Has(chan.que, l, f))
  BY <1>1, <1>3, BufsInIs
<1>6. OutInv(chan) /\ \A s, f : References(chan, s, f) = 0
  BY <1>1, References_None
<1>7. OutInv(c) /\ \A s, f : References(c, s, f) = 0 + (IF <<s, f>> \in B THEN 1 ELSE 0)
  BY <1>4, <1>5, <1>6, References_Freed
<1>8. l \in Streams => \A f : References(c, l, f) = Held(chan.que, l, f)
  <2> SUFFICES ASSUME l \in Streams, NEW f PROVE References(c, l, f) = Held(chan.que, l, f)
    OBVIOUS
  <2>1. <<l, f>> \in B <=> Has(chan.que, l, f)
    BY <1>5
  <2>2. References(c, l, f) = IF <<l, f>> \in B THEN 1 ELSE 0
    BY <1>7
  <2> QED BY <2>1, <2>2 DEF Held
<1> QED BY <1>1, <1>2, <1>4, <1>7, <1>8

LEMMA StartFailKeeps ==
    ASSUME IInv, NEW i \in OwnStreams, StartFail(i), UNCHANGED scene
    PROVE  IInv'
<1>1. PICK c : c = IF Setup.linked = {} THEN chan ELSE Flush(chan, {i})
  OBVIOUS
<1>2. PICK d : d = chan'
  OBVIOUS
<1>3. FieldInv(c) /\ OutInv(c) /\ SameZsl(chan, c) /\ c.sent = <<>>
  <2>1. FieldInv(chan) /\ OutInv(chan) /\ SameZsl(chan, chan) /\ chan.sent = <<>>
    BY DEF IInv, Good, SameZsl
  <2> QED BY <1>1, <2>1, FlushOne
<1>4. /\ owed' = Unregistered(c) /\ sent' = <<>> /\ seqno' = seqno /\ scene' = scene
      /\ Setup.startMayFail
      /\ d = [c EXCEPT !.freed = <<>>, !.phase = "STOPPED", !.que = <<>>,
                             !.attr = ZeroAttr, !.match_cnt = 0, !.expected_frame_id = 0,
                             !.expected_frame_id_without_led = 0, !.nomatch_frame_id = 0,
                             !.led_off_start_frame_id = 0, !.frame_skip_count = 0,
                             !.once = FALSE, !.bWaitForPrepSnapshotDone = FALSE]
  BY <1>1, <1>2 DEF StartFail
<1>5. ZeroAttr \in AttrType /\ ~ZeroAttr.low
  BY DEF ZeroAttr, AttrType
<1>6. /\ FieldInv(d) /\ d.que = <<>> /\ d.match_cnt = 0 /\ d.freed = <<>> /\ d.sent = <<>>
      /\ SameZsl(c, d) /\ d.phase = "STOPPED"
  <2> HIDE DEF ZeroAttr
  <2>1. DOMAIN c = ChanFields
    BY <1>3 DEF FieldInv
  <2>2. /\ DOMAIN d = ChanFields /\ d.que = <<>> /\ d.match_cnt = 0 /\ d.freed = <<>>
        /\ d.sent = <<>> /\ d.phase = "STOPPED"
    BY <1>3, <1>4, <2>1 DEF ChanFields
  <2>3. SameZsl(c, d)
    BY <1>4, <2>1 DEF SameZsl, ChanFields
  <2>5. /\ d.attr = ZeroAttr /\ d.nomatch_frame_id = 0 /\ d.expected_frame_id = 0
        /\ d.expected_frame_id_without_led = 0 /\ d.led_off_start_frame_id = 0
        /\ d.frame_skip_count = 0 /\ d.bWaitForPrepSnapshotDone = FALSE
        /\ d.pending_cnt = c.pending_cnt /\ d.pending_retro_cnt = c.pending_retro_cnt
        /\ d.unLockAEC = c.unLockAEC /\ d.capture_frame_id = c.capture_frame_id
        /\ d.cur_capture_idx = c.cur_capture_idx /\ d.isConfigCapture = c.isConfigCapture
        /\ d.stuck = c.stuck
    BY <1>4, <2>1 DEF ChanFields
  <2>4. FieldInv(d)
    <3>1. d.attr \in AttrType /\ ~d.attr.low /\ d.nomatch_frame_id = 0
      BY <1>5, <2>5
    <3>2. /\ d.expected_frame_id \in Nat /\ d.expected_frame_id_without_led \in Nat
          /\ d.led_off_start_frame_id \in Nat /\ d.frame_skip_count \in Nat
          /\ d.bWaitForPrepSnapshotDone \in BOOLEAN
      <4>1. 0 \in Nat /\ FALSE \in BOOLEAN
        OBVIOUS
      <4> QED BY <2>5, <4>1, Zenon
    <3>3. /\ d.pending_cnt \in Nat /\ d.pending_retro_cnt \in Nat /\ d.unLockAEC \in BOOLEAN
          /\ d.capture_frame_id \in [0..(MaxBatch - 1) -> Nat] /\ d.cur_capture_idx \in Nat
          /\ d.isConfigCapture => d.cur_capture_idx + d.pending_cnt < MaxBatch
          /\ d.stuck = FALSE
      BY <1>3, <2>5 DEF FieldInv
    <3> QED BY <2>2, <3>1, <3>2, <3>3 DEF FieldInv
  <2> QED BY <2>2, <2>3, <2>4
<1>7. Good(d) /\ Recent(d.que, seqno')
  BY <1>6, EmptyGood
<1>8. ZslInv(d)
  BY <1>3, <1>6 DEF IInv, ZslInv, SameZsl
<1>9. Matching' /\ (Whole' => Whole)
  BY <1>4 DEF IInv, Matching, Whole, Setup
<1>10. Whole' => \A s \in Streams, f \in Frames : owed'[s][f] = Held(d.que, s, f)
  <2> SUFFICES ASSUME Whole', NEW s \in Streams, NEW f \in Frames PROVE owed'[s][f] = 0
    BY <1>6, EmptyHeld
  <2>1. s \in OwnStreams
    BY <1>4, <1>9 DEF Whole, OwnStreams
  <2> QED BY <1>4, <2>1 DEF Unregistered
<1>11. /\ owed' \in [Streams -> [Frames -> Int]] /\ scene' \in DOMAIN Scenes
       /\ seqno' \in [Streams -> -1..MaxFrame] /\ sent' \in Seq(SentType)
  BY <1>3, <1>4, UnregisteredTypes DEF IInv
<1> QED BY <1>2, <1>6, <1>7, <1>8, <1>9, <1>10, <1>11 DEF IInv

LEMMA StopKeeps ==
    ASSUME IInv, Stop, UNCHANGED scene
    PROVE  IInv'
<1>1. PICK l \in IF Setup.linked = {} THEN {MetaStream} ELSE Setup.linked :
        /\ owed' = Unregistered(IF Setup.linked = {} THEN chan ELSE Flush(chan, {l}))
        /\ chan' = [IF Setup.linked = {} THEN chan ELSE Flush(chan, {l}) EXCEPT
                      !.freed = <<>>, !.phase = "STOPPED", !.que = <<>>,
                      !.match_cnt = 0, !.expected_frame_id = 0]
        /\ sent' = <<>> /\ seqno' = seqno
  BY DEF Stop
<1>2. PICK c : c = IF Setup.linked = {} THEN chan ELSE Flush(chan, {l})
  OBVIOUS
<1>3. PICK d : d = chan'
  OBVIOUS
<1>4. FieldInv(c) /\ OutInv(c) /\ SameZsl(chan, c) /\ c.sent = <<>>
  <2>1. FieldInv(chan) /\ OutInv(chan) /\ SameZsl(chan, chan) /\ chan.sent = <<>>
    BY DEF IInv, Good, SameZsl
  <2> QED BY <1>2, <2>1, FlushOne
<1>5. /\ owed' = Unregistered(c)
      /\ d = [c EXCEPT !.freed = <<>>, !.phase = "STOPPED", !.que = <<>>,
                       !.match_cnt = 0, !.expected_frame_id = 0]
  BY <1>1, <1>2, <1>3
<1>6. /\ FieldInv(d) /\ d.que = <<>> /\ d.match_cnt = 0 /\ d.freed = <<>> /\ d.sent = <<>>
      /\ SameZsl(c, d) /\ d.phase = "STOPPED"
  BY <1>4, <1>5 DEF FieldInv, SameZsl, ChanFields
<1>7. Good(d) /\ Recent(d.que, seqno')
  BY <1>6, EmptyGood
<1>8. ZslInv(d)
  BY <1>4, <1>6 DEF IInv, ZslInv, SameZsl
<1>9. Matching' /\ (Whole' => Whole)
  BY DEF IInv, Matching, Whole, Setup
<1>10. Whole' => \A s \in Streams, f \in Frames : owed'[s][f] = Held(d.que, s, f)
  <2> SUFFICES ASSUME Whole', NEW s \in Streams, NEW f \in Frames PROVE owed'[s][f] = 0
    BY <1>6, EmptyHeld
  <2>1. CASE s \in OwnStreams
    BY <1>5, <2>1 DEF Unregistered
  <2>2. CASE s \notin OwnStreams
    <3>1. s \in Setup.linked /\ Setup.linked # {} /\ l = s
      BY <1>1, <1>9, <2>2 DEF OwnStreams, Whole
    <3>2. c = Flush(chan, {s})
      BY <1>2, <3>1
    <3>3. References(c, s, f) = Held(chan.que, s, f)
      BY <3>2, FlushOne
    <3>4. owed[s][f] = Held(chan.que, s, f) /\ owed[s][f] \in Int
      BY <1>9 DEF IInv
    <3>5. owed'[s][f] = owed[s][f] - References(c, s, f)
      BY <1>5, <2>2 DEF Unregistered
    <3> QED BY <3>3, <3>4, <3>5
  <2> QED BY <2>1, <2>2
<1>11. /\ owed' \in [Streams -> [Frames -> Int]] /\ scene' \in DOMAIN Scenes
       /\ seqno' \in [Streams -> -1..MaxFrame] /\ sent' \in Seq(SentType)
  <2>1. owed' \in [Streams -> [Frames -> Int]]
    BY <1>4, <1>5, UnregisteredTypes
  <2>2. sent' = <<>> /\ seqno' = seqno
    BY <1>1
  <2> QED BY <2>1, <2>2 DEF IInv
<1> QED BY <1>3, <1>6, <1>7, <1>8, <1>9, <1>10, <1>11 DEF IInv

-----------------------------------------------------------------------------
(* The inductive invariant holds in every behaviour. *)

LEMMA InitIInv ==
    ASSUME Init, Matching
    PROVE  IInv
<1>1. scene \in DOMAIN Scenes /\ chan = InitChan /\ Setup.attr \in AttrType /\ ~Setup.attr.low
  BY SetupTypes DEF Init, Matching
<1>2. PICK a : a = Setup.attr
  OBVIOUS
<1>3. 0 \in Nat /\ [b \in 0..(MaxBatch - 1) |-> 0] \in [0..(MaxBatch - 1) -> Nat]
  OBVIOUS
<1>4. PICK ids : ids = [b \in 0..(MaxBatch - 1) |-> 0]
  OBVIOUS
<1>5. /\ FieldInv(chan) /\ chan.que = <<>> /\ chan.match_cnt = 0 /\ chan.freed = <<>>
      /\ chan.sent = <<>> /\ chan.phase = "STOPPED" /\ chan.zslOn = FALSE
  BY <1>1, <1>2, <1>3, <1>4 DEF InitChan, FieldInv, ChanFields
<1>6. Good(chan) /\ Recent(chan.que, seqno)
  BY <1>5, EmptyGood
<1>7. seqno \in [Streams -> -1..MaxFrame]
  <2>1. -1 \in -1..MaxFrame
    BY ConstantsOK
  <2> QED BY <2>1 DEF Init
<1>8. \A s \in Streams, f \in Frames : owed[s][f] = Held(chan.que, s, f)
  BY <1>5, EmptyHeld DEF Init
<1>9. owed \in [Streams -> [Frames -> Int]] /\ sent \in Seq(SentType)
  BY DEF Init
<1> QED BY <1>1, <1>5, <1>6, <1>7, <1>8, <1>9 DEF IInv, ZslInv

\* A step of the command thread leaves no wanted superbuf; the others start, end or
\* abandon a session.
LEMMA NextKeeps ==
    ASSUME IInv, Next
    PROVE  IInv' /\ (chan.phase = "ACTIVE" /\ chan'.phase = "ACTIVE" => NoneLeft)
<1>1. scene' = scene
  BY DEF Next
<1>2. CASE \E s \in Streams, f \in Frames, m \in Setup.metas, mem \in Setup.mallocs :
              DataCb(s, f, m, mem)
  BY <1>1, <1>2, DataCbKeeps
<1>3. CASE Request
  <2>1. PICK r \in Setup.requests : /\ chan.isConfigCapture => chan.cur_capture_idx + r[1] < MaxBatch
                                    /\ ReqDataCb(r[1], r[2])
    BY <1>3 DEF Request
  <2>2. r[1] \in Nat /\ r[2] \in Nat
    BY SetupTypes DEF IInv
  <2> QED BY <1>1, <2>1, <2>2, ReqDataCbKeeps
<1>4. CASE CancelRequest
  <2>1. chan.isConfigCapture => chan.cur_capture_idx + 0 < MaxBatch
    <3>1. FieldInv(chan) /\ MaxBatch \in Nat
      BY ConstantsOK DEF IInv, Good
    <3> QED BY <3>1 DEF FieldInv
  <2>2. ReqDataCb(0, 0) /\ 0 \in Nat
    BY <1>4 DEF CancelRequest
  <2> QED BY <1>1, <2>1, <2>2, ReqDataCbKeeps
<1>5. CASE \E on \in BOOLEAN : "MANUAL_ZSL" \in Setup.generic /\ ManualZsl(on)
  BY <1>1, <1>5, ManualZslKeeps
<1>6. CASE \E mode \in Setup.modes : ConfigNotify(mode)
  BY <1>1, <1>6, ConfigNotifyKeeps
<1>7. CASE \E f \in Setup.flushes : FlushQueue(f)
  BY <1>1, <1>7, FlushQueueKeeps
<1>8. CASE \E on \in BOOLEAN : Bracketing(on) \/ FlashBracketing(on) \/ Zoom1x(on)
  BY <1>1, <1>8, BracketingKeeps
<1>9. CASE \E cfg \in Setup.configs \cup {<<>>} : CaptureSetting(cfg)
  BY <1>1, <1>9, CaptureSettingKeeps
<1>10. CASE Start
  BY <1>1, <1>10, StartKeeps DEF Start
<1>11. CASE StartDone
  BY <1>1, <1>11, StartDoneKeeps DEF StartDone
<1>12. CASE \E i \in OwnStreams : StartFail(i)
  <2>1. PICK i \in OwnStreams : StartFail(i)
    BY <1>12
  <2>2. IInv' /\ chan.phase = "STARTING"
    BY <1>1, <2>1, StartFailKeeps DEF StartFail
  <2> QED BY <2>2
<1>13. CASE Stop
  <2>1. IInv'
    BY <1>1, <1>13, StopKeeps
  <2>2. chan'.phase = "STOPPED"
    <3>1. PICK c : FieldInv(c) /\ chan' = [c EXCEPT !.freed = <<>>, !.phase = "STOPPED",
                                !.que = <<>>, !.match_cnt = 0, !.expected_frame_id = 0]
      <4>1. PICK l \in IF Setup.linked = {} THEN {MetaStream} ELSE Setup.linked :
               chan' = [IF Setup.linked = {} THEN chan ELSE Flush(chan, {l}) EXCEPT
                      !.freed = <<>>, !.phase = "STOPPED", !.que = <<>>,
                      !.match_cnt = 0, !.expected_frame_id = 0]
        BY <1>13 DEF Stop
      <4>2. FieldInv(IF Setup.linked = {} THEN chan ELSE Flush(chan, {l}))
        <5>1. FieldInv(chan)
          BY DEF IInv, Good
        <5> QED BY <5>1, FlushFields
      <4> QED BY <4>1, <4>2
    <3> QED BY <3>1 DEF FieldInv, ChanFields
  <2> QED BY <2>1, <2>2
<1> QED BY <1>2, <1>3, <1>4, <1>5, <1>6, <1>7, <1>8, <1>9, <1>10, <1>11, <1>12, <1>13 DEF Next

LEMMA StutterKeeps ==
    ASSUME IInv, UNCHANGED vars
    PROVE  IInv'
<1>1. scene' = scene /\ chan' = chan /\ seqno' = seqno /\ owed' = owed /\ sent' = sent
  BY DEF vars
<1> QED BY <1>1 DEF IInv, Matching, Whole, Setup, Recent

LEMMA Invariance == Spec /\ Matching => []IInv
<1>1. Init /\ Matching => IInv
  BY InitIInv
<1>2. IInv /\ [Next]_vars => IInv'
  BY NextKeeps, StutterKeeps
<1> QED BY <1>1, <1>2, PTL DEF Spec

-----------------------------------------------------------------------------
(* What it says of the runs' properties. *)

LEMMA IInvListShape ==
    ASSUME IInv
    PROVE  ListShape
<1>1. PICK q, M, mx : q = chan.que /\ M = chan.match_cnt /\ mx = chan.attr.max_unmatched_frames
  OBVIOUS
<1>2. /\ q \in Seq(NodeType) /\ M \in 0..Len(q) /\ mx \in Nat /\ Len(q) \in Nat
      /\ Len(q) - M <= mx + 1 /\ Marked(q, M) /\ Ordered(q, M) /\ ListOK(q, M, mx)
      /\ FieldInv(chan)
  BY <1>1 DEF IInv, Good, ListOK
<1>3. /\ Unmatched(q) = (M + 1)..Len(q) /\ MatchedIn(q) = 1..M
      /\ Cardinality(MatchedIn(q)) = M /\ Cardinality(Unmatched(q)) = Len(q) - M
  BY <1>2, Counts
<1>4. TypeOK
  <2>1. M \in Nat
    BY <1>2
  <2> QED BY <1>1, <1>2, <2>1 DEF IInv, TypeOK, FieldInv
<1>5. MatchCountExact
  BY <1>1, <1>3 DEF MatchCountExact
<1>6. MatchedFirst
  <2>1. DOMAIN q = 1..Len(q)
    BY <1>2
  <2>2. \A i, j \in 1..Len(q) : i < j /\ q[j].matched => q[i].matched
    BY <1>2 DEF Marked
  <2> QED BY <1>1, <2>1, <2>2 DEF MatchedFirst
<1>7. MatchedSorted
  <2>1. \A i, j \in 1..M : i < j => q[i].frame_idx < q[j].frame_idx
    <3> SUFFICES ASSUME NEW i \in 1..M, NEW j \in 1..M, i < j
                 PROVE  q[i].frame_idx < q[j].frame_idx
      OBVIOUS
    <3>1. i \in 1..Len(q) /\ j \in 1..Len(q) /\ j <= M
      BY <1>2
    <3> QED BY <1>2, <3>1 DEF Ordered
  <2> QED BY <1>1, <1>3, <2>1 DEF MatchedSorted
<1>8. UnmatchedSorted
  <2>1. \A i, j \in (M + 1)..Len(q) : i < j => q[i].frame_idx < q[j].frame_idx
    <3> SUFFICES ASSUME NEW i \in (M + 1)..Len(q), NEW j \in (M + 1)..Len(q), i < j
                 PROVE  q[i].frame_idx < q[j].frame_idx
      OBVIOUS
    <3>1. i \in 1..Len(q) /\ j \in 1..Len(q) /\ M < i
      BY <1>2
    <3> QED BY <1>2, <3>1 DEF Ordered
  <2> QED BY <1>1, <1>3, <2>1 DEF UnmatchedSorted
<1>9. UnmatchedBound
  BY <1>1, <1>2, <1>3 DEF UnmatchedBound
<1>10. LoopsTerminate
  BY <1>2 DEF LoopsTerminate, FieldInv
<1> QED BY <1>4, <1>5, <1>6, <1>7, <1>8, <1>9, <1>10 DEF ListShape

LEMMA IInvSentComplete ==
    ASSUME IInv
    PROVE  SentComplete
<1>1. sent \in Seq(SentType)
  BY DEF IInv
<1>2. \A i \in DOMAIN sent : sent[i] \in SentType
  BY <1>1
<1>3. \A x \in SentType : Complete(x.node)
  BY DEF SentType
<1> QED BY <1>2, <1>3 DEF SentComplete, Complete

\* A buffer is in one slot at most.
LEMMA HeldIs ==
    ASSUME NEW q \in Seq(NodeType), Unique(q), NEW s \in Streams, NEW f \in Frames \ {0}
    PROVE  Held(q, s, f) = Cardinality({i \in DOMAIN q : q[i].super_buf[s] = f})
<1> DEFINE S == {i \in DOMAIN q : q[i].super_buf[s] = f}
<1>1. DOMAIN q = 1..Len(q)
  OBVIOUS
<1>2. CASE Has(q, s, f)
  <2>1. PICK i \in 1..Len(q) : q[i].super_buf[s] = f
    BY <1>2 DEF Has
  <2>2. \A j \in 1..Len(q) : q[j].super_buf[s] = f => j = i
    BY <2>1 DEF Unique
  <2>3. S = {i}
    BY <1>1, <2>1, <2>2
  <2>4. Cardinality(S) = 1
    BY <2>3, FS_Singleton
  <2>5. Held(q, s, f) = 1
    BY <1>2 DEF Held
  <2> HIDE DEF S
  <2>6. Held(q, s, f) = Cardinality(S)
    BY <2>4, <2>5
  <2> QED BY <2>6 DEF S
<1>3. CASE ~Has(q, s, f)
  <2>1. S = {}
    BY <1>1, <1>3 DEF Has
  <2>2. Cardinality(S) = 0
    BY <2>1, FS_EmptySet
  <2>3. Held(q, s, f) = 0
    BY <1>3 DEF Held
  <2> HIDE DEF S
  <2>4. Held(q, s, f) = Cardinality(S)
    BY <2>2, <2>3
  <2> QED BY <2>4 DEF S
<1> QED BY <1>2, <1>3

LEMMA IInvConservation ==
    ASSUME IInv, Whole
    PROVE  Conservation
<1>1. \A s \in Streams, f \in Frames : owed[s][f] = Held(chan.que, s, f)
  BY DEF IInv
<1>2. CASE chan.phase = "STOPPED"
  <2>1. \A s \in Streams, f \in Frames : owed[s][f] = 0
    BY <1>1, <1>2, EmptyHeld DEF IInv
  <2>2. Setup.linked \subseteq Streams
    BY SetupTypes DEF IInv
  <2> QED BY <1>2, <2>1, <2>2 DEF Conservation
<1>3. CASE chan.phase # "STOPPED"
  <2>1. chan.que \in Seq(NodeType) /\ Unique(chan.que)
    BY DEF IInv, Good, ListOK
  <2>2. \A s \in Streams, f \in Frames \ {0} :
           owed[s][f] = Cardinality({i \in DOMAIN chan.que : chan.que[i].super_buf[s] = f})
    BY <1>1, <2>1, HeldIs
  <2> QED BY <1>3, <2>2 DEF Conservation
<1> QED BY <1>2, <1>3

\* Where frames are matched by their index, the list of superbufs always is what the
\* handlers take it for: counted exactly, matched nodes first, each kind in frame
\* order, one unmatched node too many at the most, and so no loop over it spins
\* (mm_channel_superbuf_comp_and_enqueue, bufdone_overflow, skip).
THEOREM ListShaped == Spec /\ Matching => []ListShape
BY Invariance, IInvListShape, PTL

\* Where frames are matched by their index, every superbuf handed to the client has a
\* buffer of every stream, all of the same frame (mm_channel_send_super_buf).
THEOREM CompleteSent == Spec /\ Matching => []SentComplete
BY Invariance, IInvSentComplete, PTL

\* The driver's snapshot mode is on for a manual snapshot or for a capture that still
\* waits for superbufs, and for nothing else: every path that ends a capture turns it
\* off (mm_channel_process_stream_buf, mm_channel_trigger_zsl_snapshot).
THEOREM SnapshotStops == Spec /\ Matching => []ZslStopped
<1>1. ASSUME IInv PROVE ZslStopped
  BY <1>1 DEF IInv, ZslInv, ZslStopped
<1> QED BY <1>1, Invariance, PTL

\* No buffer of an active channel leaks or is given back twice, and a stopped channel
\* owes nothing to the channel it is linked with, if it is linked with one stream and
\* a start that fails has none to unlink: mm_channel_stop leaves its loop after the first.
THEOREM BuffersConserved == Spec /\ Matching /\ Whole => []Conservation
<1>1. ASSUME Whole, UNCHANGED vars \/ Next PROVE Whole'
  BY <1>1 DEF Whole, Setup, Next, vars
<1>2. Whole /\ [Next]_vars => Whole'
  BY <1>1
<1>3. IInv /\ Whole => Conservation
  BY IInvConservation
<1> QED BY <1>2, <1>3, Invariance, PTL DEF Spec

\* No command ends with a superbuf left that the client waits for, other than one of a
\* config capture that is too old for its batch (mm_channel_process_stream_buf).
THEOREM NoneWithheld == Spec /\ Matching => NothingWithheld
<1> DEFINE A == chan.phase = "ACTIVE" /\ chan'.phase = "ACTIVE" /\ ~chan'.isConfigCapture
                  => ~WantsSuperbuf(chan')
<1>1. IInv /\ [Next]_vars => [A]_vars
  BY NextKeeps DEF NoneLeft
<1>2. IInv /\ [Next]_vars => IInv'
  BY NextKeeps, StutterKeeps
<1> QED BY <1>1, <1>2, Invariance, PTL DEF Spec, NothingWithheld

=============================================================================
