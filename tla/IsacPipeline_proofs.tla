------------------------ MODULE IsacPipeline_proofs ------------------------
(***************************************************************************)
(* Proofs about the way of a snapshot from the ring to the recorders, for  *)
(* every ring, any number of subscriptions and of pool threads.            *)
(*                                                                         *)
(* A message carries a run of publication numbers below rd.  The runs of   *)
(* two messages, wherever they wait, do not meet, nor do they meet what    *)
(* has been written or what was overwritten (Disjoint); a message moves    *)
(* between queues, so that what holds of all messages in all queues is     *)
(* stated over one function, Queues.  The drop counter of a message counts *)
(* the overwritten numbers below its run, and what is overwritten later is *)
(* never below it (MsgOK).                                                 *)
(***************************************************************************)
EXTENDS IsacPipeline, IsacRing_proofs, SequenceTheorems, FiniteSetTheorems,
        WellFoundedInduction

\* The queues a message may wait in, each with its name.
Places == ({"net", "pool"} \X {0}) \cup ({"sock", "disp"} \X Subs)

Queues ==
  [l \in Places |-> IF l[1] = "net" THEN net ELSE IF l[1] = "pool" THEN pool
                    ELSE IF l[1] = "sock" THEN sock[l[2]] ELSE disp[l[2]]]

\* The run of numbers of a message: from First up to, and without, End.
First(m) == m.snap[1].iq
End(m) == First(m) + Len(m.snap)

Apart(m, n) == End(m) <= First(n) \/ End(n) <= First(m)

\* Two messages in two places of the queues q do not share a snapshot.
Separate(q) ==
  \A l, n \in Places : \A i \in 1..Len(q[l]), j \in 1..Len(q[n]) :
    ~(l = n /\ i = j) => Apart(q[l][i], q[n][j])

\* The content of a message m.
RunOK(m) ==
  /\ m \in Message /\ Len(m.snap) > 0 /\ First(m) \in Nat
  /\ \A k \in 1..Len(m.snap) : /\ m.snap[k].iq = First(m) + k - 1
                               /\ m.snap[k].seq = (First(m) + k - 1) % W32

\* A message m and the history: nothing of it was overwritten or written, and
\* its counter is the number of snapshots overwritten before it.
MsgOK(m) ==
  /\ End(m) <= rd
  /\ \A i \in ow : i < First(m) \/ End(m) <= i
  /\ \A s \in Subs : \A i \in 1..Len(rec[s]) : rec[s][i] < First(m) \/ End(m) <= rec[s][i]
  /\ m.dropped = Cardinality({i \in ow : i < First(m)}) % W32

MessagesOK ==
  \A l \in Places : \A i \in 1..Len(Queues[l]) : RunOK(Queues[l][i]) /\ MsgOK(Queues[l][i])

\* What was overwritten.
Overwritten == (\A i \in ow : i < rd) /\ IsFiniteSet(ow) /\ Cardinality(ow) = over

\* What was written.
Written ==
  \A s \in Subs : \A i \in 1..Len(rec[s]) :
    /\ rec[s][i] < rd /\ rec[s][i] \notin ow
    /\ \A t \in Subs : \A j \in 1..Len(rec[t]) : rec[s][i] = rec[t][j] => s = t /\ i = j

\* The recorder's counters follow what it wrote.
Follows ==
  \A s \in Subs :
    /\ xapp[s].cnt_snap = Len(rec[s])
    /\ Len(rec[s]) > 0 =>
         /\ xapp[s].last_seq = rec[s][Len(rec[s])] % W32
         /\ xapp[s].last_dropped = Cardinality({i \in ow : i < rec[s][Len(rec[s])]}) % W32

\* The inductive invariant of the pipeline.
PInv ==
  /\ IInv /\ PTypeOK
  /\ MessagesOK /\ Separate(Queues)
  /\ Overwritten /\ Written /\ Follows

InOrder(r) == \A i, j \in 1..Len(r) : i < j => r[i] < r[j]

\* What the gap count needs: no more publications than the 32-bit number can
\* tell apart.
Exact ==
  /\ wr <= MaxPub
  /\ \A s \in Subs :
       /\ Len(rec[s]) = 0 => xapp[s].lost_seq = 0
       /\ InOrder(rec[s]) /\ Len(rec[s]) > 0 =>
            xapp[s].lost_seq = rec[s][Len(rec[s])] - rec[s][1] + 1 - Len(rec[s])

\* A set of naturals that is not empty has a least element.
LEMMA Least ==
  ASSUME NEW T, T \subseteq Nat, T # {}
  PROVE  \E m \in T : \A k \in T : m <= k
<1> DEFINE R == OpToRel(<, Nat)
<1>1. \A x, y \in Nat : y < x => <<y, x>> \in R
  BY DEF OpToRel
<1>2. IsWellFoundedOn(R, Nat)
  BY NatLessThanWellFounded
<1> HIDE DEF R
<1>3. PICK m \in T : \A y \in T : ~(<<y, m>> \in R)
  BY <1>2, WFMin
<1>4. m \in Nat /\ \A y \in T : y \in Nat
  OBVIOUS
<1>5. \A y \in T : ~(y < m)
  BY <1>1, <1>3, <1>4
<1>6. \A y \in T : m <= y
  BY <1>4, <1>5
<1> QED
  BY <1>6

Counters == [cnt_snap : Nat, last_seq : 0..(W32 - 1),
             lost_seq : Nat, last_dropped : 0..(W32 - 1)]

\* One snapshot: a valid record of counters with the fields the code assigns.
LEMMA CountSnapOK ==
  ASSUME NEW c \in Counters, NEW x \in Snapshot
  PROVE  /\ CountSnap(c, x) \in Counters
         /\ CountSnap(c, x).cnt_snap = c.cnt_snap + 1
         /\ CountSnap(c, x).last_seq = x.seq
         /\ CountSnap(c, x).lost_seq =
              IF c.cnt_snap > 0 /\ x.seq # (c.last_seq + 1) % W32
              THEN c.lost_seq + ((x.seq - c.last_seq - 1) % W32) ELSE c.lost_seq
<1> USE RingAssumption
<1> DEFINE g == (x.seq - c.last_seq - 1) % W32
           v == IF c.cnt_snap > 0 /\ x.seq # (c.last_seq + 1) % W32
                THEN c.lost_seq + g ELSE c.lost_seq
<1>1. x.seq \in 0..(W32 - 1) /\ c.last_seq \in 0..(W32 - 1) /\ c.lost_seq \in Nat
      /\ c.cnt_snap \in Nat
  BY DEF Snapshot, Counters
<1>2. g \in 0..(W32 - 1)
  BY <1>1
<1>3. v \in Nat
  <2> HIDE DEF g
  <2> QED
    BY <1>1, <1>2
<1>4. CountSnap(c, x) = [c EXCEPT !.cnt_snap = c.cnt_snap + 1, !.last_seq = x.seq, !.lost_seq = v]
  BY DEF CountSnap
<1> HIDE DEF v
<1>5. CountSnap(c, x) \in Counters
  <2>1. CountSnap(c, x) = [cnt_snap |-> c.cnt_snap + 1, last_seq |-> x.seq, lost_seq |-> v,
                           last_dropped |-> c.last_dropped]
    BY <1>4 DEF Counters
  <2>2. c.cnt_snap + 1 \in Nat /\ c.last_dropped \in 0..(W32 - 1)
    BY <1>1 DEF Counters
  <2> QED
    BY <1>1, <1>3, <2>1, <2>2 DEF Counters
<1>6. /\ CountSnap(c, x).cnt_snap = c.cnt_snap + 1
      /\ CountSnap(c, x).last_seq = x.seq /\ CountSnap(c, x).lost_seq = v
  BY <1>4 DEF Counters
<1> QED
  BY <1>5, <1>6 DEF v

\* The values of the counters during the loop of sm_cb_isac.
Loop(f, c, snap) ==
  /\ f \in [0..Len(snap) -> Counters]
  /\ f[0] = c
  /\ \A k \in 1..Len(snap) : f[k] = CountSnap(f[k - 1], snap[k])

Rec(f, c, snap) ==
  f = [k \in 0..Len(snap) |-> IF k = 0 THEN c ELSE CountSnap(f[k - 1], snap[k])]

\* The loop has such values, ...
LEMMA LoopExists ==
  ASSUME NEW c \in Counters, NEW snap \in Seq(Snapshot)
  PROVE  \E f : Loop(f, c, snap)
<1> DEFINE n == Len(snap)
           P(m) == \E f \in [0..m -> Counters] :
                     f[0] = c /\ \A k \in 1..m : f[k] = CountSnap(f[k - 1], snap[k])
           B == {m \in 0..n : ~P(m)}
<1>1. n \in Nat /\ \A k \in 1..n : snap[k] \in Snapshot
  OBVIOUS
<1>2. P(0)
  <2> DEFINE f == [k \in 0..0 |-> c]
  <2>1. f \in [0..0 -> Counters] /\ f[0] = c /\ \A k \in 1..0 : f[k] = CountSnap(f[k - 1], snap[k])
    OBVIOUS
  <2> HIDE DEF f
  <2> QED
    BY <2>1
<1>3. ASSUME NEW m \in 1..n, P(m - 1)
      PROVE  P(m)
  <2>1. PICK f \in [0..(m - 1) -> Counters] :
          f[0] = c /\ \A k \in 1..(m - 1) : f[k] = CountSnap(f[k - 1], snap[k])
    BY <1>3
  <2> DEFINE y == CountSnap(f[m - 1], snap[m])
             g == [k \in 0..m |-> IF k = m THEN y ELSE f[k]]
  <2>2. y \in Counters
    <3>1. f[m - 1] \in Counters /\ snap[m] \in Snapshot
      BY <1>1, <2>1
    <3> QED
      BY <3>1, CountSnapOK
  <2> HIDE DEF y
  <2>3. g \in [0..m -> Counters]
    BY <1>1, <2>1, <2>2
  <2>4. g[0] = c
    BY <1>1, <2>1
  <2>5. ASSUME NEW k \in 1..m
        PROVE  g[k] = CountSnap(g[k - 1], snap[k])
    <3>1. g[k - 1] = f[k - 1]
      BY <1>1
    <3>2. CASE k = m
      BY <3>1, <3>2 DEF y
    <3>3. CASE k # m
      <4>1. k \in 1..(m - 1) /\ g[k] = f[k]
        BY <1>1, <3>3
      <4> QED
        BY <2>1, <3>1, <4>1
    <3> QED
      BY <3>2, <3>3
  <2> HIDE DEF g
  <2> QED
    BY <2>3, <2>4, <2>5
<1> HIDE DEF P
<1>4. B = {}
  <2> SUFFICES ASSUME B # {} PROVE FALSE
    OBVIOUS
  <2>1. PICK m \in B : \A k \in B : m <= k
    <3>1. B \subseteq Nat
      BY <1>1
    <3> HIDE DEF B
    <3> QED
      BY <3>1, Least
  <2>2. m \in 1..n /\ m - 1 \in 0..n /\ m - 1 \notin B
    BY <1>1, <1>2, <2>1
  <2>3. P(m - 1)
    BY <2>2
  <2> QED
    BY <1>3, <2>1, <2>2, <2>3
<1>5. P(n)
  BY <1>1, <1>4
<1> QED
  BY <1>5 DEF P, Loop

\* ... and only these: CountAll is the last of them.
LEMMA CountAllOK ==
  ASSUME NEW c \in Counters, NEW snap \in Seq(Snapshot)
  PROVE  \E f : Loop(f, c, snap) /\ CountAll(c, snap) = f[Len(snap)]
<1> DEFINE n == Len(snap)
           h == CHOOSE f : Rec(f, c, snap)
<1>1. n \in Nat
  OBVIOUS
<1>2. PICK f : Loop(f, c, snap)
  BY LoopExists
<1>3. Rec(f, c, snap)
  <2>1. f = [k \in 0..n |-> f[k]]
    BY <1>2 DEF Loop
  <2>2. \A k \in 0..n : f[k] = IF k = 0 THEN c ELSE CountSnap(f[k - 1], snap[k])
    BY <1>1, <1>2 DEF Loop
  <2> QED
    BY <2>1, <2>2 DEF Rec
<1>4. Rec(h, c, snap)
  BY <1>3
<1>5. CountAll(c, snap) = h[n]
  BY DEF CountAll, Rec
<1> HIDE DEF h
<1>6. \A k \in 0..n : h[k] = IF k = 0 THEN c ELSE CountSnap(h[k - 1], snap[k])
  <2> DEFINE G == [k \in 0..n |-> IF k = 0 THEN c ELSE CountSnap(h[k - 1], snap[k])]
  <2>1. h = G
    BY <1>4 DEF Rec
  <2>2. \A k \in 0..n : G[k] = IF k = 0 THEN c ELSE CountSnap(h[k - 1], snap[k])
    OBVIOUS
  <2> HIDE DEF G
  <2>3. \A k \in 0..n : h[k] = G[k]
    BY <2>1
  <2> QED
    BY <2>2, <2>3
<1> DEFINE B == {k \in 0..n : h[k] # f[k]}
<1>7. B = {}
  <2> SUFFICES ASSUME B # {} PROVE FALSE
    OBVIOUS
  <2>1. PICK m \in B : \A k \in B : m <= k
    <3>1. B \subseteq Nat
      BY <1>1
    <3> HIDE DEF B
    <3> QED
      BY <3>1, Least
  <2>2. m # 0
    BY <1>1, <1>2, <1>6, <2>1 DEF Loop
  <2>3. m \in 1..n /\ m - 1 \in 0..n /\ m - 1 \notin B
    BY <1>1, <2>1, <2>2
  <2>4. h[m - 1] = f[m - 1]
    BY <2>3
  <2>5. h[m] = CountSnap(h[m - 1], snap[m]) /\ f[m] = CountSnap(f[m - 1], snap[m])
    BY <1>2, <1>6, <2>2, <2>3 DEF Loop
  <2> QED
    BY <2>1, <2>4, <2>5
<1>8. h[n] = f[n]
  BY <1>1, <1>7
<1> QED
  BY <1>2, <1>5, <1>8

\* The number of missing snapshots between b and a, from the truncated numbers.
LEMMA GapExact ==
  ASSUME NEW a \in Nat, NEW b \in Nat, b < a, a - b - 1 < W32
  PROVE  /\ ((a % W32) - (b % W32) - 1) % W32 = a - b - 1
         /\ a % W32 = ((b % W32) + 1) % W32 => a = b + 1
<1> USE RingAssumption
<1>1. ((a % W32) - (b % W32) - 1) % W32 = a - b - 1
  <2> DEFINE p == a \div W32
             q == b \div W32
             r == a % W32
             t == b % W32
             d == q - p
  <2>1. a = W32 * p + r /\ b = W32 * q + t /\ p \in Nat /\ q \in Nat /\ r \in Nat /\ t \in Nat
    OBVIOUS
  <2> HIDE DEF p, q, r, t
  <2>2. d \in Int /\ W32 * d = W32 * q - W32 * p
    BY <2>1
  <2>3. r - t - 1 = W32 * d + (a - b - 1)
    <3>1. W32 * p \in Int /\ W32 * q \in Int
      BY <2>1
    <3> QED
      BY <2>1, <2>2, <3>1
  <2>4. (W32 * d + (a - b - 1)) % W32 = a - b - 1
    <3>1. a - b - 1 \in 0..(W32 - 1)
      OBVIOUS
    <3> HIDE DEF d
    <3> QED
      BY <2>2, <3>1, ModUnique
  <2> QED
    BY <2>3, <2>4 DEF r, t
<1>2. ASSUME a % W32 = ((b % W32) + 1) % W32
      PROVE  a = b + 1
  <2>1. a % W32 = (b + 1) % W32
    BY <1>2, ModSucc
  <2>2. CASE b + 1 < a
    <3>1. a - (b + 1) < W32 /\ b + 1 \in Nat
      OBVIOUS
    <3>2. (b + 1) % W32 # a % W32
      BY <2>2, <3>1, ModDistinct
    <3> QED
      BY <2>1, <3>2
  <2> QED
    BY <2>2
<1> QED
  BY <1>1, <1>2

\* A message of consecutive snapshots: the last number is kept, the number of
\* snapshots is added, and the only gap there can be is before its first.
LEMMA CountRun ==
  ASSUME NEW c \in Counters, NEW m, RunOK(m)
  PROVE  LET d == CountAll(c, m.snap) IN
         /\ d \in Counters
         /\ d.cnt_snap = c.cnt_snap + Len(m.snap)
         /\ d.last_seq = (First(m) + Len(m.snap) - 1) % W32
         /\ d.lost_seq = IF c.cnt_snap > 0 /\ First(m) % W32 # (c.last_seq + 1) % W32
                         THEN c.lost_seq + (((First(m) % W32) - c.last_seq - 1) % W32)
                         ELSE c.lost_seq
<1> USE RingAssumption
<1> DEFINE n == Len(m.snap)
           a == First(m)
           v == IF c.cnt_snap > 0 /\ a % W32 # (c.last_seq + 1) % W32
                THEN c.lost_seq + (((a % W32) - c.last_seq - 1) % W32) ELSE c.lost_seq
<1>1. /\ m.snap \in Seq(Snapshot) /\ n \in Nat /\ n > 0 /\ a \in Nat
      /\ \A k \in 1..n : m.snap[k].seq = (a + k - 1) % W32 /\ m.snap[k] \in Snapshot
  BY DEF RunOK, Message
<1>2. PICK f : Loop(f, c, m.snap) /\ CountAll(c, m.snap) = f[n]
  BY <1>1, CountAllOK
<1>3. f \in [0..n -> Counters] /\ f[0] = c /\ \A k \in 1..n : f[k] = CountSnap(f[k - 1], m.snap[k])
  BY <1>2 DEF Loop
<1>4. c.cnt_snap \in Nat
  BY DEF Counters
<1> DEFINE Good(k) == /\ f[k].cnt_snap = c.cnt_snap + k
                      /\ f[k].last_seq = (a + k - 1) % W32
                      /\ f[k].lost_seq = v
           B == {k \in 1..n : ~Good(k)}
<1> HIDE DEF n, a, v
<1>5. ASSUME NEW k \in 1..n
      PROVE  /\ f[k].cnt_snap = f[k - 1].cnt_snap + 1
             /\ f[k].last_seq = (a + k - 1) % W32
             /\ f[k].lost_seq =
                  IF f[k - 1].cnt_snap > 0
                     /\ (a + k - 1) % W32 # (f[k - 1].last_seq + 1) % W32
                  THEN f[k - 1].lost_seq + ((((a + k - 1) % W32) - f[k - 1].last_seq - 1) % W32)
                  ELSE f[k - 1].lost_seq
  <2>1. f[k - 1] \in Counters /\ m.snap[k] \in Snapshot /\ m.snap[k].seq = (a + k - 1) % W32
    BY <1>1, <1>3
  <2>2. f[k] = CountSnap(f[k - 1], m.snap[k])
    BY <1>3
  <2> QED
    BY <2>1, <2>2, CountSnapOK
<1>6. Good(1)
  <2>1. 1 \in 1..n /\ 1 - 1 = 0 /\ a + 1 - 1 = a
    BY <1>1
  <2> QED
    BY <1>3, <1>4, <1>5, <2>1 DEF v
<1>7. ASSUME NEW k \in 1..n, k + 1 \in 1..n, Good(k)
      PROVE  Good(k + 1)
  <2>1. (a + (k + 1) - 1) % W32 = (((a + k - 1) % W32) + 1) % W32
    <3>1. a + k - 1 \in Nat /\ (a + k - 1) + 1 = a + (k + 1) - 1
      BY <1>1
    <3> QED
      BY <3>1, ModSucc
  <2>2. (k + 1) - 1 = k /\ (c.cnt_snap + k) + 1 = c.cnt_snap + (k + 1)
    BY <1>4
  <2> QED
    BY <1>5, <1>7, <2>1, <2>2
<1> HIDE DEF Good
<1>8. B = {}
  <2> SUFFICES ASSUME B # {} PROVE FALSE
    OBVIOUS
  <2>1. PICK k \in B : \A j \in B : k <= j
    <3>1. B \subseteq Nat
      BY <1>1
    <3> HIDE DEF B
    <3> QED
      BY <3>1, Least
  <2>2. k \in 1..n /\ k # 1
    BY <1>6, <2>1
  <2>3. k - 1 \in 1..n /\ k - 1 \notin B /\ (k - 1) + 1 = k
    BY <1>1, <2>1, <2>2
  <2> QED
    BY <1>7, <2>1, <2>2, <2>3
<1>9. Good(n) /\ f[n] \in Counters
  BY <1>1, <1>3, <1>8
<1> QED
  BY <1>2, <1>9 DEF Good, n, a, v

-----------------------------------------------------------------------------
\* q without its j-th message is r.
Removed(q, j, r) ==
  /\ Len(r) + 1 = Len(q)
  /\ \A i \in 1..Len(r) : r[i] = IF i < j THEN q[i] ELSE q[i + 1]

\* q with m behind it is r.
Appended(q, m, r) ==
  /\ Len(r) = Len(q) + 1
  /\ \A i \in 1..Len(q) : r[i] = q[i]
  /\ r[Len(q) + 1] = m

\* Every queue of q is a queue.
AreQueues(q) == \A l \in Places : Len(q[l]) \in Nat

\* Every message of r is one of q.
Among(r, q) ==
  \A l \in Places : \A i \in 1..Len(r[l]) :
    \E n \in Places : \E j \in 1..Len(q[n]) : r[l][i] = q[n][j]

\* Taking the head of a queue, a message from the middle, and appending one.
LEMMA QueueOps ==
  ASSUME NEW S, NEW q \in Seq(S)
  PROVE  /\ q # << >> => Removed(q, 1, Tail(q)) /\ Tail(q) \in Seq(S) /\ Head(q) = q[1] /\ Len(q) >= 1
         /\ \A j \in 1..Len(q) : Removed(q, j, RemoveAt(q, j)) /\ RemoveAt(q, j) \in Seq(S)
         /\ \A m \in S : Appended(q, m, Append(q, m)) /\ Append(q, m) \in Seq(S)
<1>1. q # << >> => Removed(q, 1, Tail(q)) /\ Tail(q) \in Seq(S) /\ Head(q) = q[1] /\ Len(q) >= 1
  <2> SUFFICES ASSUME q # << >>
               PROVE  Removed(q, 1, Tail(q)) /\ Tail(q) \in Seq(S) /\ Head(q) = q[1] /\ Len(q) >= 1
    OBVIOUS
  <2>1. /\ Tail(q) \in Seq(S) /\ Len(Tail(q)) = Len(q) - 1 /\ Head(q) = q[1]
        /\ \A i \in 1..Len(Tail(q)) : Tail(q)[i] = q[i + 1]
    BY HeadTailProperties
  <2>2. Len(q) \in Nat /\ Len(q) # 0
    BY EmptySeq
  <2> QED
    BY <2>1, <2>2 DEF Removed
<1>2. ASSUME NEW j \in 1..Len(q)
      PROVE  Removed(q, j, RemoveAt(q, j)) /\ RemoveAt(q, j) \in Seq(S)
  <2> DEFINE a == SubSeq(q, 1, j - 1)
             b == SubSeq(q, j + 1, Len(q))
             n == Len(q)
  <2>1. n \in Nat /\ j \in Nat /\ 1 <= j /\ j <= n
    OBVIOUS
  <2>2. a \in Seq(S) /\ Len(a) = j - 1 /\ \A i \in 1..(j - 1) : a[i] = q[i]
    <3>1. a = [i \in 1..(j - 1) |-> q[i]]
      BY <2>1
    <3>2. \A i \in 1..(j - 1) : q[i] \in S
      BY <2>1
    <3> HIDE DEF a
    <3> QED
      BY <2>1, <3>1, <3>2
  <2>3. b \in Seq(S) /\ Len(b) = n - j /\ \A i \in 1..(n - j) : b[i] = q[i + j]
    <3>1. b = [i \in 1..(n - j) |-> q[i + j]]
      BY <2>1
    <3>2. \A i \in 1..(n - j) : q[i + j] \in S
      BY <2>1
    <3> HIDE DEF b
    <3> QED
      BY <2>1, <3>1, <3>2
  <2>4. RemoveAt(q, j) = a \o b
    BY DEF RemoveAt
  <2> HIDE DEF a, b
  <2>5. /\ a \o b \in Seq(S) /\ Len(a \o b) = n - 1
        /\ \A i \in 1..(n - 1) : (a \o b)[i] = IF i <= j - 1 THEN a[i] ELSE b[i - (j - 1)]
    <3>1. /\ a \o b \in Seq(S) /\ Len(a \o b) = Len(a) + Len(b)
          /\ \A i \in 1..(Len(a) + Len(b)) :
               (a \o b)[i] = IF i <= Len(a) THEN a[i] ELSE b[i - Len(a)]
      BY <2>2, <2>3, ConcatProperties
    <3>2. Len(a) + Len(b) = n - 1
      BY <2>1, <2>2, <2>3
    <3>3. Len(a) = j - 1
      BY <2>2
    <3> HIDE DEF n
    <3> QED
      BY <3>1, <3>2, <3>3
  <2>6. ASSUME NEW i \in 1..(n - 1)
        PROVE  (a \o b)[i] = IF i < j THEN q[i] ELSE q[i + 1]
    <3>1. CASE i < j
      <4>1. i \in 1..(j - 1) /\ i <= j - 1
        BY <2>1, <3>1
      <4> QED
        BY <2>2, <2>5, <3>1, <4>1
    <3>2. CASE ~(i < j)
      <4>1. ~(i <= j - 1) /\ i - (j - 1) \in 1..(n - j) /\ (i - (j - 1)) + j = i + 1
        BY <2>1, <3>2
      <4> QED
        BY <2>3, <2>5, <3>2, <4>1
    <3> QED
      BY <3>1, <3>2
  <2> QED
    BY <2>1, <2>4, <2>5, <2>6 DEF Removed
<1>3. ASSUME NEW m \in S
      PROVE  Appended(q, m, Append(q, m)) /\ Append(q, m) \in Seq(S)
  BY <1>3, AppendProperties DEF Appended
<1> QED
  BY <1>1, <1>2, <1>3

\* A message moves from place a to place b: the messages are the same, and
\* still separate.
LEMMA MoveOK ==
  ASSUME NEW q, NEW r, NEW a \in Places, NEW b \in Places, a # b,
         AreQueues(q), AreQueues(r), NEW j \in 1..Len(q[a]),
         Removed(q[a], j, r[a]), Appended(q[b], q[a][j], r[b]),
         \A l \in Places : l # a /\ l # b => r[l] = q[l],
         Separate(q)
  PROVE  Separate(r) /\ Among(r, q)
<1> DEFINE From(l, i) == IF l = b /\ i = Len(q[b]) + 1 THEN a ELSE l
           At0(l, i) == IF l = a THEN IF i < j THEN i ELSE i + 1
                        ELSE IF l = b /\ i = Len(q[b]) + 1 THEN j ELSE i
<1>0. \A l \in Places : Len(q[l]) \in Nat /\ Len(r[l]) \in Nat
  BY DEF AreQueues
<1>1. ASSUME NEW l \in Places, NEW i \in 1..Len(r[l])
      PROVE  /\ From(l, i) \in Places /\ At0(l, i) \in 1..Len(q[From(l, i)])
             /\ r[l][i] = q[From(l, i)][At0(l, i)]
  <2>1. CASE l = a
    <3>1. From(l, i) = a /\ At0(l, i) = IF i < j THEN i ELSE i + 1
      BY <2>1
    <3>2. Len(r[a]) + 1 = Len(q[a]) /\ r[a][i] = IF i < j THEN q[a][i] ELSE q[a][i + 1]
      BY <2>1 DEF Removed
    <3>3. At0(l, i) \in 1..Len(q[a])
      BY <1>0, <2>1, <3>1, <3>2
    <3> QED
      BY <2>1, <3>1, <3>2, <3>3
  <2>2. CASE l = b
    <3>1. Len(r[b]) = Len(q[b]) + 1 /\ r[b][Len(q[b]) + 1] = q[a][j]
          /\ \A k \in 1..Len(q[b]) : r[b][k] = q[b][k]
      BY DEF Appended
    <3>2. CASE i = Len(q[b]) + 1
      BY <2>2, <3>1, <3>2
    <3>3. CASE i # Len(q[b]) + 1
      <4>1. i \in 1..Len(q[b])
        BY <1>0, <2>2, <3>1, <3>3
      <4>2. From(l, i) = b /\ At0(l, i) = i
        BY <2>2, <3>3
      <4> QED
        BY <2>2, <3>1, <4>1, <4>2
    <3> QED
      BY <3>2, <3>3
  <2>3. CASE l # a /\ l # b
    BY <2>3
  <2> QED
    BY <2>1, <2>2, <2>3
<1>2. ASSUME NEW l \in Places, NEW i \in 1..Len(r[l]), NEW n \in Places, NEW k \in 1..Len(r[n]),
             From(l, i) = From(n, k), At0(l, i) = At0(n, k)
      PROVE  l = n /\ i = k
  <2>1. Len(r[b]) = Len(q[b]) + 1 /\ Len(r[a]) + 1 = Len(q[a])
    BY DEF Appended, Removed
  <2>2. i \in Nat /\ k \in Nat /\ j \in Nat
    BY <1>0
  <2>3. l = a => At0(l, i) # j /\ From(l, i) = a
    BY <2>2
  <2>4. n = a => At0(n, k) # j /\ From(n, k) = a
    BY <2>2
  <2>5. CASE l = a
    <3>1. n = a
      BY <1>2, <2>3, <2>4, <2>5
    <3>2. At0(l, i) = IF i < j THEN i ELSE i + 1
      BY <2>5
    <3>3. At0(n, k) = IF k < j THEN k ELSE k + 1
      BY <3>1
    <3> QED
      BY <1>2, <2>2, <2>5, <3>1, <3>2, <3>3
  <2>6. CASE l # a /\ n # a
    BY <1>2, <2>6
  <2>7. CASE l # a /\ n = a
    BY <1>2, <2>3, <2>4, <2>7
  <2> QED
    BY <2>5, <2>6, <2>7
<1> HIDE DEF From, At0
<1>3. Among(r, q)
  BY <1>1 DEF Among
<1>4. Separate(r)
  <2> SUFFICES ASSUME NEW l \in Places, NEW n \in Places, NEW i \in 1..Len(r[l]),
                      NEW k \in 1..Len(r[n]), ~(l = n /\ i = k)
               PROVE  Apart(r[l][i], r[n][k])
    BY DEF Separate
  <2>1. ~(From(l, i) = From(n, k) /\ At0(l, i) = At0(n, k))
    BY <1>2
  <2>2. Apart(q[From(l, i)][At0(l, i)], q[From(n, k)][At0(n, k)])
    BY <1>1, <2>1 DEF Separate
  <2> QED
    BY <1>1, <2>2
<1> QED
  BY <1>3, <1>4

\* r is q but for the queue at b.
SameBut(q, r, b) == \A l \in Places : l # b => r[l] = q[l]

ApartFromAll(m, q) ==
  \A l \in Places : \A i \in 1..Len(q[l]) : Apart(m, q[l][i]) /\ Apart(q[l][i], m)

\* A message leaves place a: it is apart from the ones that stay.
LEMMA LeaveOK ==
  ASSUME NEW q, NEW r, NEW a \in Places, AreQueues(q), AreQueues(r), NEW j \in 1..Len(q[a]),
         Removed(q[a], j, r[a]), SameBut(q, r, a), Separate(q)
  PROVE  Separate(r) /\ Among(r, q) /\ ApartFromAll(q[a][j], r)
<1> DEFINE At0(l, i) == IF l = a /\ ~(i < j) THEN i + 1 ELSE i
<1>0. \A l \in Places : Len(q[l]) \in Nat /\ Len(r[l]) \in Nat
  BY DEF AreQueues
<1>1. ASSUME NEW l \in Places, NEW i \in 1..Len(r[l])
      PROVE  /\ At0(l, i) \in 1..Len(q[l]) /\ r[l][i] = q[l][At0(l, i)]
             /\ ~(l = a /\ At0(l, i) = j)
  <2>1. CASE l = a
    <3>1. Len(r[a]) + 1 = Len(q[a]) /\ r[a][i] = IF i < j THEN q[a][i] ELSE q[a][i + 1]
      BY <2>1 DEF Removed
    <3> QED
      BY <1>0, <2>1, <3>1
  <2>2. CASE l # a
    BY <2>2 DEF SameBut
  <2> QED
    BY <2>1, <2>2
<1>2. \A l \in Places, i, k \in Nat : At0(l, i) = At0(l, k) => i = k
  BY <1>0
<1> HIDE DEF At0
<1>3. Among(r, q)
  BY <1>1 DEF Among
<1>4. Separate(r)
  <2> SUFFICES ASSUME NEW l \in Places, NEW n \in Places, NEW i \in 1..Len(r[l]),
                      NEW k \in 1..Len(r[n]), ~(l = n /\ i = k)
               PROVE  Apart(r[l][i], r[n][k])
    BY DEF Separate
  <2>1. i \in Nat /\ k \in Nat
    BY <1>0
  <2>2. Apart(q[l][At0(l, i)], q[n][At0(n, k)])
    BY <1>1, <1>2, <2>1 DEF Separate
  <2> QED
    BY <1>1, <2>2
<1>5. ASSUME NEW l \in Places, NEW i \in 1..Len(r[l])
      PROVE  Apart(q[a][j], r[l][i]) /\ Apart(r[l][i], q[a][j])
  BY <1>1 DEF Separate
<1> QED
  BY <1>3, <1>4, <1>5 DEF ApartFromAll

\* Every message of r but m was in its place in q.
OnlyNew(m, q, r) ==
  \A l \in Places : \A i \in 1..Len(r[l]) :
    r[l][i] = m \/ (i \in 1..Len(q[l]) /\ r[l][i] = q[l][i])

\* A message m comes to place b that is apart from all there are.
LEMMA EnterOK ==
  ASSUME NEW q, NEW r, NEW b \in Places, AreQueues(q), AreQueues(r), NEW m,
         Appended(q[b], m, r[b]), SameBut(q, r, b), Separate(q), ApartFromAll(m, q)
  PROVE  Separate(r) /\ OnlyNew(m, q, r)
<1>0. \A l \in Places : Len(q[l]) \in Nat /\ Len(r[l]) \in Nat
  BY DEF AreQueues
<1>1. ASSUME NEW l \in Places, NEW i \in 1..Len(r[l])
      PROVE  \/ l = b /\ i = Len(q[b]) + 1 /\ r[l][i] = m
             \/ i \in 1..Len(q[l]) /\ r[l][i] = q[l][i]
  BY <1>0, <1>1 DEF Appended, SameBut
<1>2. Separate(r)
  <2> SUFFICES ASSUME NEW l \in Places, NEW n \in Places, NEW i \in 1..Len(r[l]),
                      NEW k \in 1..Len(r[n]), ~(l = n /\ i = k)
               PROVE  Apart(r[l][i], r[n][k])
    BY DEF Separate
  <2>1. CASE r[l][i] = m /\ l = b /\ i = Len(q[b]) + 1
    <3>1. k \in 1..Len(q[n]) /\ r[n][k] = q[n][k]
      BY <1>1, <2>1
    <3> QED
      BY <2>1, <3>1 DEF ApartFromAll
  <2>2. CASE r[n][k] = m /\ n = b /\ k = Len(q[b]) + 1
    <3>1. i \in 1..Len(q[l]) /\ r[l][i] = q[l][i]
      BY <1>1, <2>2
    <3> QED
      BY <2>2, <3>1 DEF ApartFromAll
  <2>3. CASE i \in 1..Len(q[l]) /\ r[l][i] = q[l][i] /\ k \in 1..Len(q[n]) /\ r[n][k] = q[n][k]
    BY <2>3 DEF Separate
  <2> QED
    BY <1>1, <2>1, <2>2, <2>3
<1> QED
  BY <1>1, <1>2 DEF OnlyNew
-----------------------------------------------------------------------------
QueuesAre ==
  /\ Queues[<<"net", 0>>] = net /\ Queues[<<"pool", 0>>] = pool
  /\ \A s \in Subs : Queues[<<"sock", s>>] = sock[s] /\ Queues[<<"disp", s>>] = disp[s]
  /\ {<<"net", 0>>, <<"pool", 0>>} \subseteq Places
  /\ \A s \in Subs : {<<"sock", s>>, <<"disp", s>>} \subseteq Places

QueuesTyped == PTypeOK => \A l \in Places : Queues[l] \in Seq(Message)

\* The queues by their names, ...
LEMMA QueuesOK == QueuesAre /\ QueuesTyped
<1>1. <<"net", 0>> \in Places /\ <<"pool", 0>> \in Places
  BY DEF Places
<1>2. \A s \in Subs : <<"sock", s>> \in Places /\ <<"disp", s>> \in Places
  BY DEF Places
<1>3. Queues[<<"net", 0>>] = net /\ Queues[<<"pool", 0>>] = pool
  BY <1>1 DEF Queues
<1>4. \A s \in Subs : Queues[<<"sock", s>>] = sock[s] /\ Queues[<<"disp", s>>] = disp[s]
  BY <1>2 DEF Queues
<1>5. ASSUME PTypeOK, NEW l \in Places
      PROVE  Queues[l] \in Seq(Message)
  <2> HIDE DEF Message
  <2>1. CASE l \in {"net", "pool"} \X {0}
    <3>1. l = <<"net", 0>> \/ l = <<"pool", 0>>
      BY <2>1
    <3> QED
      BY <1>3, <1>5, <3>1 DEF PTypeOK
  <2>2. CASE l \in {"sock", "disp"} \X Subs
    <3>1. PICK s \in Subs : l = <<"sock", s>> \/ l = <<"disp", s>>
      BY <2>2
    <3>2. sock[s] \in Seq(Message) /\ disp[s] \in Seq(Message)
      BY <1>5 DEF PTypeOK
    <3> QED
      BY <1>4, <3>1, <3>2
  <2> QED
    BY <2>1, <2>2 DEF Places
<1> QED
  BY <1>1, <1>2, <1>3, <1>4, <1>5 DEF QueuesAre, QueuesTyped

\* ... before and after a step.
LEMMA QueuesNext == QueuesAre' /\ QueuesTyped'
BY QueuesOK, PTL

\* At the start there is no message and nothing is written.
LEMMA PInitOK == PInit => PInv
<1> SUFFICES ASSUME PInit PROVE PInv
  OBVIOUS
<1> USE RingAssumption
<1> HIDE DEF Message
<1>1. IInv /\ over = 0
  BY InitOK DEF PInit, Init
<1>2. [cnt_snap |-> 0, last_seq |-> 0, lost_seq |-> 0, last_dropped |-> 0] \in Counters
  BY DEF Counters
<1>3. PTypeOK
  BY <1>1, <1>2 DEF PTypeOK, PInit, IInv, Counters
<1>4. \A l \in Places : Queues[l] = << >>
  <2> SUFFICES ASSUME NEW l \in Places PROVE Queues[l] = << >>
    OBVIOUS
  <2>1. l[1] = "sock" => l[2] \in Subs
    BY DEF Places
  <2>2. l[1] # "net" /\ l[1] # "pool" => l[2] \in Subs
    BY DEF Places
  <2> QED
    BY <2>1, <2>2 DEF Queues, PInit
<1>5. \A l \in Places : 1..Len(Queues[l]) = {}
  BY <1>4
<1>6. MessagesOK /\ Separate(Queues)
  BY <1>5 DEF MessagesOK, Separate
<1>7. Overwritten
  BY <1>1, FS_EmptySet DEF Overwritten, PInit
<1>8. \A s \in Subs : rec[s] = << >> /\ Len(rec[s]) = 0 /\ xapp[s].cnt_snap = 0
  BY DEF PInit
<1>9. Written /\ Follows
  BY <1>8 DEF Written, Follows
<1> QED
  BY <1>1, <1>3, <1>6, <1>7, <1>9 DEF PInv

\* Overwriting the snapshot rd does not concern the messages or the records:
\* their numbers are below rd.
LEMMA PublishOK ==
  ASSUME PInv, NEW len \in Lens, PhyPublish(len)
  PROVE  PInv'
<1> HIDE DEF Message
<1>1. IInv' /\ MakeRoom /\ UNCHANGED <<net, pool, sock, disp, xapp, rec>>
  BY StoreOK, LoseBufferOK DEF PInv, PhyPublish, Publish, PublishNoMem
<1>2. /\ rd \in Nat /\ over \in Nat /\ ow \subseteq Nat
      /\ ow' = IF Full THEN ow \cup {rd} ELSE ow
      /\ rd' = (IF Full THEN rd + 1 ELSE rd) /\ over' = (IF Full THEN over + 1 ELSE over)
  BY <1>1 DEF PInv, IInv, TypeOK, PTypeOK, PhyPublish, MakeRoom
<1>3. Queues' = Queues
  BY <1>1 DEF Queues
<1>4. PTypeOK'
  <2>1. TypeOK'
    BY <1>1 DEF IInv
  <2>2. ow' \subseteq Nat
    BY <1>2
  <2> QED
    BY <2>1, <2>2, <1>1 DEF PInv, PTypeOK
<1>5. \A x \in Nat : x <= rd => {i \in ow' : i < x} = {i \in ow : i < x}
  BY <1>2
<1>6. ASSUME NEW l \in Places, NEW i \in 1..Len(Queues[l])
      PROVE  MsgOK(Queues[l][i])'
  <2> DEFINE m == Queues[l][i]
  <2>1. RunOK(m) /\ MsgOK(m)
    BY DEF PInv, MessagesOK
  <2>2. First(m) \in Nat /\ Len(m.snap) \in Nat /\ End(m) \in Nat /\ First(m) <= rd /\ End(m) <= rd
    BY <1>2, <2>1 DEF RunOK, MsgOK, End, Message
  <2>3. m' = m
    BY <1>3
  <2> HIDE DEF m
  <2>4. {j \in ow' : j < First(m)} = {j \in ow : j < First(m)}
    BY <1>5, <2>2
  <2>5. \A j \in ow' : j < First(m) \/ End(m) <= j
    BY <1>2, <2>1, <2>2 DEF MsgOK
  <2>6. End(m) <= rd'
    BY <1>2, <2>2
  <2>7. First(m)' = First(m) /\ End(m)' = End(m)
    BY <2>3 DEF First, End
  <2>8. MsgOK(m)'
    BY <2>1, <2>3, <2>4, <2>5, <2>6, <2>7, <1>1 DEF MsgOK
  <2> QED
    BY <2>8 DEF m
<1>7. MessagesOK'
  <2>1. \A l \in Places : \A i \in 1..Len(Queues[l]) : RunOK(Queues[l][i])'
    BY <1>3 DEF PInv, MessagesOK, RunOK, First
  <2> QED
    BY <1>3, <1>6, <2>1 DEF MessagesOK
<1>8. Separate(Queues)'
  BY <1>3 DEF PInv, Separate, Apart, First, End
<1>9. Overwritten'
  <2>1. (\A i \in ow : i < rd) /\ IsFiniteSet(ow) /\ Cardinality(ow) = over
    BY DEF PInv, Overwritten
  <2>2. rd \notin ow
    BY <2>1, <1>2
  <2>3. IsFiniteSet(ow \cup {rd}) /\ Cardinality(ow \cup {rd}) = over + 1
    BY <2>1, <2>2, FS_AddElement
  <2>4. \A i \in ow' : i < rd'
    BY <2>1, <1>2
  <2> QED
    BY <2>1, <2>3, <2>4, <1>2 DEF Overwritten
<1>10. Written'
  <2>1. \A s \in Subs : \A i \in 1..Len(rec[s]) : rec[s][i] \in Nat /\ rec[s][i] < rd
    BY DEF PInv, Written, PTypeOK
  <2>2. \A x \in Nat : x < rd => x < rd' /\ (x \in ow' => x \in ow)
    BY <1>2
  <2> QED
    BY <2>1, <2>2, <1>1 DEF PInv, Written
<1>11. Follows'
  <2> SUFFICES ASSUME NEW s \in Subs, Len(rec[s]) > 0
               PROVE  {i \in ow' : i < rec[s][Len(rec[s])]} = {i \in ow : i < rec[s][Len(rec[s])]}
    BY <1>1 DEF PInv, Follows
  <2>1. rec[s] \in Seq(Nat) /\ Len(rec[s]) \in 1..Len(rec[s])
    BY DEF PInv, PTypeOK
  <2>2. rec[s][Len(rec[s])] \in Nat /\ rec[s][Len(rec[s])] < rd
    BY <2>1 DEF PInv, Written
  <2> QED
    BY <2>2, <1>2, <1>5
<1> QED
  BY <1>1, <1>4, <1>7, <1>8, <1>9, <1>10, <1>11 DEF PInv

\* A message moves from one queue to another.
LEMMA MovedOK ==
  ASSUME PInv, PTypeOK', UNCHANGED <<vars, xapp, rec, ow>>,
         NEW a \in Places, NEW b \in Places, a # b, NEW j \in 1..Len(Queues[a]),
         Removed(Queues[a], j, Queues'[a]), Appended(Queues[b], Queues[a][j], Queues'[b]),
         \A l \in Places : l # a /\ l # b => Queues'[l] = Queues[l]
  PROVE  PInv'
<1> HIDE DEF Message
<1>1. \A l \in Places : Queues[l] \in Seq(Message)
  BY QueuesOK DEF PInv, QueuesTyped
<1>2. \A l \in Places : Queues'[l] \in Seq(Message)
  BY QueuesNext DEF QueuesTyped
<1>3. AreQueues(Queues) /\ AreQueues(Queues')
  BY <1>1, <1>2 DEF AreQueues
<1>4. Separate(Queues') /\ Among(Queues', Queues)
  BY <1>3, MoveOK DEF PInv
<1>5. IInv'
  BY DEF PInv, vars, IInv, TypeOK, RingBounds, UnreadIntact, DropsAccounted
<1>6. Overwritten' /\ Written' /\ Follows'
  BY DEF PInv, vars, Overwritten, Written, Follows
<1>7. MessagesOK'
  <2> SUFFICES ASSUME NEW l \in Places, NEW i \in 1..Len(Queues'[l])
               PROVE  (RunOK(Queues[l][i]) /\ MsgOK(Queues[l][i]))'
    BY DEF MessagesOK
  <2>0. PICK n \in Places : \E k \in 1..Len(Queues[n]) : Queues'[l][i] = Queues[n][k]
    BY <1>4 DEF Among
  <2>1. PICK k \in 1..Len(Queues[n]) : Queues'[l][i] = Queues[n][k]
    BY <2>0
  <2>2. RunOK(Queues[n][k]) /\ MsgOK(Queues[n][k])
    BY DEF PInv, MessagesOK
  <2> QED
    BY <2>1, <2>2 DEF vars, RunOK, MsgOK, First, End
<1>8. Separate(Queues)'
  BY <1>4 DEF Separate, Apart, First, End
<1> QED
  BY <1>5, <1>6, <1>7, <1>8 DEF PInv

\* A queue the step leaves alone is the same in Queues.
LEMMA OtherQueues ==
  ASSUME NEW l \in Places,
         l = <<"net", 0>> => UNCHANGED net,
         l = <<"pool", 0>> => UNCHANGED pool,
         \A s \in Subs : l = <<"sock", s>> => sock'[s] = sock[s],
         \A s \in Subs : l = <<"disp", s>> => disp'[s] = disp[s]
  PROVE  Queues'[l] = Queues[l]
<1>1. QueuesAre /\ QueuesAre'
  BY QueuesOK, QueuesNext
<1>2. CASE l \in {"net", "pool"} \X {0}
  <2>1. l = <<"net", 0>> \/ l = <<"pool", 0>>
    BY <1>2
  <2> QED
    BY <1>1, <2>1 DEF QueuesAre
<1>3. CASE l \in {"sock", "disp"} \X Subs
  <2>1. PICK s \in Subs : l = <<"sock", s>> \/ l = <<"disp", s>>
    BY <1>3
  <2>2. /\ Queues[<<"sock", s>>] = sock[s] /\ Queues[<<"disp", s>>] = disp[s]
        /\ Queues'[<<"sock", s>>] = sock'[s] /\ Queues'[<<"disp", s>>] = disp'[s]
    BY <1>1 DEF QueuesAre
  <2> QED
    BY <2>1, <2>2
<1> QED
  BY <1>2, <1>3 DEF Places

\* From the wire into the task pool of the RIC.
LEMMA RicReceiveOK ==
  ASSUME PInv, RicReceive
  PROVE  PInv'
<1> HIDE DEF Message
<1> DEFINE a == <<"net", 0>>
           b == <<"pool", 0>>
<1>1. QueuesAre /\ QueuesAre'
  BY QueuesOK, QueuesNext
<1>2. a \in Places /\ b \in Places /\ a # b /\ Queues[a] = net /\ Queues[b] = pool
      /\ Queues'[a] = net' /\ Queues'[b] = pool'
  BY <1>1 DEF QueuesAre
<1>3. net \in Seq(Message) /\ pool \in Seq(Message)
  BY DEF PInv, PTypeOK
<1>4. net # << >> /\ pool' = Append(pool, Head(net)) /\ net' = Tail(net)
      /\ UNCHANGED <<vars, sock, disp, xapp, rec, ow>>
  BY DEF RicReceive
<1>5. Removed(net, 1, net') /\ net' \in Seq(Message) /\ Head(net) = net[1] /\ Len(net) >= 1
  BY <1>3, <1>4, QueueOps
<1>6. net[1] \in Message /\ Len(net) \in Nat /\ 1 \in 1..Len(net)
  BY <1>3, <1>5
<1>7. Appended(pool, net[1], pool') /\ pool' \in Seq(Message)
  BY <1>3, <1>4, <1>5, <1>6, QueueOps
<1>8. PTypeOK'
  BY <1>4, <1>5, <1>7 DEF PInv, PTypeOK, TypeOK, vars
<1>9. ASSUME NEW l \in Places, l # a, l # b
       PROVE  Queues'[l] = Queues[l]
  <2>1. l = <<"net", 0>> => UNCHANGED net
    BY <1>4, <1>9
  <2>2. l = <<"pool", 0>> => UNCHANGED pool
    BY <1>4, <1>9
  <2>3. \A t \in Subs : l = <<"sock", t>> => sock'[t] = sock[t]
    BY <1>4, <1>9
  <2>4. \A t \in Subs : l = <<"disp", t>> => disp'[t] = disp[t]
    BY <1>4, <1>9
  <2> QED
    BY <2>1, <2>2, <2>3, <2>4, OtherQueues
<1> HIDE DEF a, b
<1> QED
  BY <1>2, <1>4, <1>5, <1>6, <1>7, <1>8, <1>9, MovedOK

\* From the pool to the socket of the subscriber, any message first.
LEMMA RicForwardOK ==
  ASSUME PInv, NEW k \in 1..Len(pool), RicForward(k)
  PROVE  PInv'
<1> HIDE DEF Message
<1>1. QueuesAre /\ QueuesAre'
  BY QueuesOK, QueuesNext
<1>2. pool \in Seq(Message) /\ pool[k] \in Message /\ sock \in [Subs -> Seq(Message)]
  BY DEF PInv, PTypeOK
<1>3. pool[k].sub \in Subs
  BY <1>2 DEF Message
<1>4. PICK s \in Subs : s = pool[k].sub
  BY <1>3
<1> DEFINE a == <<"pool", 0>>
           b == <<"sock", s>>
<1>5. /\ sock' = [sock EXCEPT ![s] = Append(sock[s], pool[k])]
      /\ pool' = RemoveAt(pool, k) /\ UNCHANGED <<vars, net, disp, xapp, rec, ow>>
  BY <1>4 DEF RicForward
<1>6. sock'[s] = Append(sock[s], pool[k]) /\ \A t \in Subs : t # s => sock'[t] = sock[t]
  BY <1>2, <1>5
<1>7. a \in Places /\ b \in Places /\ a # b /\ Queues[a] = pool /\ Queues[b] = sock[s]
      /\ Queues'[a] = pool' /\ Queues'[b] = sock'[s]
  BY <1>1 DEF QueuesAre
<1>8. Removed(pool, k, pool') /\ pool' \in Seq(Message)
  BY <1>2, <1>5, QueueOps
<1>9. Appended(sock[s], pool[k], sock'[s]) /\ sock'[s] \in Seq(Message)
  <2>1. sock[s] \in Seq(Message)
    BY <1>2
  <2> QED
    BY <2>1, <1>2, <1>6, QueueOps
<1>10. PTypeOK'
  <2>1. sock' \in [Subs -> Seq(Message)]
    BY <1>2, <1>5, <1>6, <1>9
  <2> QED
    BY <2>1, <1>5, <1>8 DEF PInv, PTypeOK, TypeOK, vars
<1>11. ASSUME NEW l \in Places, l # a, l # b
       PROVE  Queues'[l] = Queues[l]
  <2>1. l = <<"net", 0>> => UNCHANGED net
    BY <1>5, <1>6, <1>11
  <2>2. l = <<"pool", 0>> => UNCHANGED pool
    BY <1>5, <1>6, <1>11
  <2>3. \A t \in Subs : l = <<"sock", t>> => sock'[t] = sock[t]
    BY <1>5, <1>6, <1>11
  <2>4. \A t \in Subs : l = <<"disp", t>> => disp'[t] = disp[t]
    BY <1>5, <1>6, <1>11
  <2> QED
    BY <2>1, <2>2, <2>3, <2>4, OtherQueues
<1> HIDE DEF a, b
<1> QED
  BY <1>5, <1>7, <1>8, <1>9, <1>10, <1>11, MovedOK

\* From the socket to the dispatcher of the xApp.
LEMMA XappReceiveOK ==
  ASSUME PInv, NEW s \in Subs, XappReceive(s)
  PROVE  PInv'
<1> HIDE DEF Message
<1> DEFINE a == <<"sock", s>>
           b == <<"disp", s>>
<1>1. QueuesAre /\ QueuesAre'
  BY QueuesOK, QueuesNext
<1>2. /\ sock \in [Subs -> Seq(Message)] /\ disp \in [Subs -> Seq(Message)]
      /\ sock[s] \in Seq(Message) /\ disp[s] \in Seq(Message)
  BY DEF PInv, PTypeOK
<1>3. /\ sock[s] # << >> /\ disp' = [disp EXCEPT ![s] = Append(disp[s], Head(sock[s]))]
      /\ sock' = [sock EXCEPT ![s] = Tail(sock[s])]
      /\ UNCHANGED <<vars, net, pool, xapp, rec, ow>>
  BY DEF XappReceive
<1>4. /\ sock'[s] = Tail(sock[s]) /\ disp'[s] = Append(disp[s], Head(sock[s]))
      /\ \A t \in Subs : t # s => sock'[t] = sock[t] /\ disp'[t] = disp[t]
  BY <1>2, <1>3
<1>5. a \in Places /\ b \in Places /\ a # b /\ Queues[a] = sock[s] /\ Queues[b] = disp[s]
      /\ Queues'[a] = sock'[s] /\ Queues'[b] = disp'[s]
  BY <1>1 DEF QueuesAre
<1>6. /\ Removed(sock[s], 1, sock'[s]) /\ sock'[s] \in Seq(Message)
      /\ Head(sock[s]) = sock[s][1] /\ Len(sock[s]) >= 1
  BY <1>2, <1>3, <1>4, QueueOps
<1>7. sock[s][1] \in Message /\ 1 \in 1..Len(sock[s])
  BY <1>2, <1>6
<1>8. Appended(disp[s], sock[s][1], disp'[s]) /\ disp'[s] \in Seq(Message)
  BY <1>2, <1>4, <1>6, <1>7, QueueOps
<1>9. PTypeOK'
  <2>1. sock' \in [Subs -> Seq(Message)] /\ disp' \in [Subs -> Seq(Message)]
    BY <1>2, <1>3, <1>4, <1>6, <1>8
  <2> QED
    BY <2>1, <1>3 DEF PInv, PTypeOK, TypeOK, vars
<1>10. ASSUME NEW l \in Places, l # a, l # b
       PROVE  Queues'[l] = Queues[l]
  <2>1. l = <<"net", 0>> => UNCHANGED net
    BY <1>3, <1>4, <1>10
  <2>2. l = <<"pool", 0>> => UNCHANGED pool
    BY <1>3, <1>4, <1>10
  <2>3. \A t \in Subs : l = <<"sock", t>> => sock'[t] = sock[t]
    BY <1>3, <1>4, <1>10
  <2>4. \A t \in Subs : l = <<"disp", t>> => disp'[t] = disp[t]
    BY <1>3, <1>4, <1>10
  <2> QED
    BY <2>1, <2>2, <2>3, <2>4, OtherQueues
<1> HIDE DEF a, b
<1> QED
  BY <1>3, <1>5, <1>6, <1>7, <1>8, <1>9, <1>10, MovedOK

\* A reading of the ring makes a message whose run begins at rd, above
\* everything there is, with the counter of everything overwritten so far.
LEMMA PollOK ==
  ASSUME PInv, NEW s \in Subs, NEW n \in 0..MaxDrain, Poll(s, n)
  PROVE  PInv'
<1> USE RingAssumption
<1> HIDE DEF Message
<1>1. Drain(n) /\ UNCHANGED <<pool, sock, disp, xapp, rec, ow>>
  BY DEF Poll
<1>2. /\ IInv'
      /\ \A k \in 1..Len(out'.snap) :
           out'.snap[k].iq = rd + k - 1 /\ out'.snap[k].seq = (rd + k - 1) % W32
  BY <1>1, DrainOK DEF PInv
<1>3. n \in Nat /\ rd \in Nat /\ rd' = rd + n /\ over' = over /\ ow \subseteq Nat
  BY <1>1 DEF PInv, PTypeOK, IInv, TypeOK, Drain
<1>4. (\A i \in ow : i < rd) /\ IsFiniteSet(ow) /\ Cardinality(ow) = over
  BY DEF PInv, Overwritten
<1>5. Overwritten'
  BY <1>1, <1>3, <1>4 DEF Overwritten
<1>6. Written'
  <2>0. \A t \in Subs : rec[t] \in Seq(Nat)
    BY DEF PInv, PTypeOK
  <2>1. \A t \in Subs : \A i \in 1..Len(rec[t]) : rec[t][i] \in Nat /\ rec[t][i] < rd
    BY <2>0 DEF PInv, Written
  <2>2. \A x \in Nat : x < rd => x < rd'
    BY <1>3
  <2> QED
    BY <2>1, <2>2, <1>1 DEF PInv, Written
<1>7. Follows'
  BY <1>1 DEF PInv, Follows
<1>8. ASSUME NEW m, RunOK(m), MsgOK(m)
      PROVE  RunOK(m) /\ MsgOK(m)'
  <2>1. First(m) \in Nat /\ Len(m.snap) \in Nat /\ End(m) \in Nat /\ End(m) <= rd
    BY <1>8 DEF RunOK, MsgOK, End, Message
  <2>2. End(m) <= rd'
    BY <2>1, <1>3
  <2> QED
    BY <1>1, <1>8, <2>2 DEF MsgOK
<1>9. CASE n = 0
  <2>1. net' = net
    BY <1>9 DEF Poll
  <2>2. Queues' = Queues
    BY <2>1, <1>1 DEF Queues
  <2>3. PTypeOK'
    BY <2>1, <1>1, <1>2 DEF PInv, PTypeOK, IInv
  <2>4. MessagesOK'
    BY <2>2, <1>8 DEF PInv, MessagesOK
  <2>5. Separate(Queues)'
    BY <2>2 DEF PInv
  <2> QED
    BY <2>3, <2>4, <2>5, <1>2, <1>5, <1>6, <1>7 DEF PInv
<1>10. CASE n # 0
  <2>1. PICK m : m = [sub |-> s, snap |-> out'.snap, dropped |-> dropped]
    OBVIOUS
  <2>2. net' = Append(net, m)
    BY <1>10, <2>1 DEF Poll
  <2>3. m.sub = s /\ m.snap = out'.snap /\ m.dropped = dropped
    BY <2>1
  <2>4. Len(m.snap) = n
    <3>1. out'.snap = [k \in 1..n |-> Copy(rd + k - 1)]
      BY <1>1 DEF Drain
    <3> QED
      BY <2>3, <3>1, <1>3
  <2>5. m \in Message
    <3>1. out'.snap \in Seq(Snapshot) /\ dropped \in 0..(W32 - 1)
      BY <1>2 DEF PInv, IInv, TypeOK
    <3> QED
      BY <2>1, <3>1 DEF Message
  <2>6. First(m) = rd /\ End(m) = rd + n
    <3>1. m.snap[1].iq = rd + 1 - 1
      BY <1>2, <1>3, <1>10, <2>3, <2>4
    <3> QED
      BY <3>1, <2>4, <1>3 DEF First, End
  <2>7. RunOK(m)
    BY <1>2, <1>3, <1>10, <2>3, <2>4, <2>5, <2>6 DEF RunOK
  <2>8. MsgOK(m)'
    <3>1. m.dropped = over % W32
      BY <2>3 DEF PInv, IInv, DropsAccounted
    <3>2. {i \in ow : i < rd} = ow
      BY <1>4
    <3>3. \A t \in Subs : \A i \in 1..Len(rec[t]) : rec[t][i] < rd
      BY DEF PInv, Written
    <3>4. m.dropped = Cardinality({i \in ow : i < First(m)}) % W32
      BY <3>1, <3>2, <1>4, <2>6
    <3>5. \A t \in Subs : \A i \in 1..Len(rec[t]) : rec[t][i] < First(m)
      BY <3>3, <2>6
    <3>6. \A i \in ow : i < First(m)
      BY <1>4, <2>6
    <3>7. End(m) <= rd'
      BY <1>3, <2>6
    <3> QED
      BY <3>4, <3>5, <3>6, <3>7, <1>1 DEF MsgOK
  <2> DEFINE b == <<"net", 0>>
  <2>9. QueuesAre /\ QueuesAre'
    BY QueuesOK, QueuesNext
  <2>10. b \in Places /\ Queues[b] = net /\ Queues'[b] = net'
    BY <2>9 DEF QueuesAre
  <2>11. Appended(net, m, net') /\ net' \in Seq(Message)
    <3>1. net \in Seq(Message)
      BY DEF PInv, PTypeOK
    <3> QED
      BY <3>1, <2>2, <2>5, QueueOps
  <2>12. PTypeOK'
    BY <2>11, <1>1, <1>2 DEF PInv, PTypeOK, IInv
  <2>13. ASSUME NEW l \in Places, l # b
         PROVE  Queues'[l] = Queues[l]
    BY <1>1, <2>13, OtherQueues
  <2>14. \A l \in Places : \A i \in 1..Len(Queues[l]) :
           Apart(m, Queues[l][i]) /\ Apart(Queues[l][i], m)
    <3> SUFFICES ASSUME NEW l \in Places, NEW i \in 1..Len(Queues[l])
                 PROVE  End(Queues[l][i]) <= First(m)
      BY DEF Apart
    <3> QED
      BY <2>6 DEF PInv, MessagesOK, MsgOK
  <2>15. AreQueues(Queues) /\ AreQueues(Queues')
    <3>1. \A l \in Places : Queues[l] \in Seq(Message)
      BY QueuesOK DEF PInv, QueuesTyped
    <3>2. \A l \in Places : Queues'[l] \in Seq(Message)
      BY <2>12, QueuesNext DEF QueuesTyped
    <3> QED
      BY <3>1, <3>2 DEF AreQueues
  <2> HIDE DEF b
  <2>16. /\ Separate(Queues')
         /\ \A l \in Places : \A i \in 1..Len(Queues'[l]) :
              Queues'[l][i] = m \/ (i \in 1..Len(Queues[l]) /\ Queues'[l][i] = Queues[l][i])
    <3>1. Appended(Queues[b], m, Queues'[b]) /\ Separate(Queues)
      BY <2>10, <2>11 DEF PInv
    <3>2. SameBut(Queues, Queues', b) /\ ApartFromAll(m, Queues)
      BY <2>13, <2>14 DEF SameBut, ApartFromAll
    <3>3. Separate(Queues') /\ OnlyNew(m, Queues, Queues')
      BY <2>10, <2>15, <3>1, <3>2, EnterOK
    <3> QED
      BY <3>3 DEF OnlyNew
  <2>17. MessagesOK'
    <3> SUFFICES ASSUME NEW l \in Places, NEW i \in 1..Len(Queues'[l])
                 PROVE  RunOK(Queues'[l][i]) /\ MsgOK(Queues[l][i])'
      BY DEF MessagesOK, RunOK, First
    <3>1. CASE Queues'[l][i] = m
      BY <3>1, <2>7, <2>8 DEF MsgOK, First, End
    <3>2. CASE i \in 1..Len(Queues[l]) /\ Queues'[l][i] = Queues[l][i]
      <4>1. PICK x : x = Queues[l][i]
        OBVIOUS
      <4>2. RunOK(x) /\ MsgOK(x)
        BY <3>2, <4>1 DEF PInv, MessagesOK
      <4>3. RunOK(x) /\ MsgOK(x)'
        BY <4>2, <1>8
      <4> QED
        BY <3>2, <4>1, <4>3 DEF MsgOK, First, End
    <3> QED
      BY <3>1, <3>2, <2>16
  <2> QED
    BY <2>12, <2>16, <2>17, <1>2, <1>5, <1>6, <1>7 DEF PInv
<1> QED
  BY <1>9, <1>10

\* What the recorder s has written after message m.
WrittenAfter(s, m, r) ==
  /\ r \in Seq(Nat) /\ Len(r) = Len(rec[s]) + Len(m.snap)
  /\ \A i \in 1..Len(rec[s]) : r[i] = rec[s][i]
  /\ \A i \in 1..Len(r) : i > Len(rec[s]) => r[i] = First(m) + (i - Len(rec[s])) - 1

\* sm_cb_isac appends the run of the message to the file and updates the
\* counters of the recorder.
LEMMA CallbackFacts ==
  ASSUME PInv, NEW s \in Subs, Callback(s)
  PROVE  \E m :
           /\ RunOK(m) /\ MsgOK(m) /\ m = disp[s][1] /\ disp[s] # << >>
           /\ disp' = [disp EXCEPT ![s] = Tail(@)]
           /\ WrittenAfter(s, m, rec'[s])
           /\ rec' = [rec EXCEPT ![s] = rec'[s]]
           /\ xapp' = [xapp EXCEPT ![s] = xapp'[s]]
           /\ xapp'[s] = [CountAll(xapp[s], m.snap) EXCEPT !.last_dropped = m.dropped]
           /\ UNCHANGED <<vars, net, pool, sock, ow>>
<1> HIDE DEF Message
<1> DEFINE m == Head(disp[s])
           w == [k \in DOMAIN m.snap |-> m.snap[k].iq]
           n == Len(m.snap)
           a == First(m)
<1>1. disp[s] \in Seq(Message) /\ disp[s] # << >>
  BY DEF PInv, PTypeOK, Callback
<1>2. m = disp[s][1] /\ 1 \in 1..Len(disp[s])
  BY <1>1, QueueOps
<1>3. RunOK(m) /\ MsgOK(m)
  <2>1. <<"disp", s>> \in Places /\ Queues[<<"disp", s>>] = disp[s]
    BY QueuesOK DEF QueuesAre
  <2> QED
    BY <2>1, <1>2 DEF PInv, MessagesOK
<1>4. n \in Nat /\ a \in Nat /\ DOMAIN m.snap = 1..n /\ \A k \in 1..n : m.snap[k].iq = a + k - 1
  BY <1>3 DEF RunOK, Message
<1>5. /\ rec \in [Subs -> Seq(Nat)] /\ rec[s] \in Seq(Nat) /\ Len(rec[s]) \in Nat
      /\ DOMAIN xapp = Subs
  BY DEF PInv, PTypeOK
<1>6. /\ rec' = [rec EXCEPT ![s] = rec[s] \o w]
      /\ xapp' = [xapp EXCEPT ![s] = [CountAll(xapp[s], m.snap) EXCEPT !.last_dropped = m.dropped]]
      /\ disp' = [disp EXCEPT ![s] = Tail(@)] /\ UNCHANGED <<vars, net, pool, sock, ow>>
  BY DEF Callback
<1>7. w = [k \in 1..n |-> a + k - 1]
  BY <1>4
<1>8. w \in Seq(Nat) /\ Len(w) = n /\ \A k \in 1..n : w[k] = a + k - 1
  <2> HIDE DEF w, n, a, m
  <2>1. \A k \in 1..n : a + k - 1 \in Nat
    BY <1>4
  <2> QED
    BY <2>1, <1>4, <1>7
<1> HIDE DEF w, n, a, m
<1>9. WrittenAfter(s, m, rec[s] \o w)
  <2> DEFINE L == Len(rec[s])
             r == rec[s] \o w
  <2>1. /\ r \in Seq(Nat) /\ Len(r) = L + n
        /\ \A i \in 1..(L + n) : r[i] = IF i <= L THEN rec[s][i] ELSE w[i - L]
    BY <1>5, <1>8, ConcatProperties
  <2> HIDE DEF r
  <2>2. ASSUME NEW i \in 1..(L + n), i > L
        PROVE  r[i] = a + (i - L) - 1
    <3>1. i - L \in 1..n /\ ~(i <= L)
      BY <1>4, <1>5, <2>2
    <3> QED
      BY <1>8, <2>1, <3>1
  <2>3. \A i \in 1..L : r[i] = rec[s][i]
    BY <1>4, <1>5, <2>1
  <2> QED
    BY <2>1, <2>2, <2>3 DEF WrittenAfter, r, n, a
<1>10. rec'[s] = rec[s] \o w /\ rec' = [rec EXCEPT ![s] = rec'[s]]
  BY <1>5, <1>6
<1>11. /\ xapp'[s] = [CountAll(xapp[s], m.snap) EXCEPT !.last_dropped = m.dropped]
       /\ xapp' = [xapp EXCEPT ![s] = xapp'[s]]
  BY <1>5, <1>6
<1> QED
  BY <1>1, <1>2, <1>3, <1>6, <1>9, <1>10, <1>11

\* The callback of the xApp preserves the invariant.
LEMMA CallbackOK ==
  ASSUME PInv, NEW s \in Subs, Callback(s)
  PROVE  PInv'
<1> USE RingAssumption
<1> HIDE DEF Message
<1>1. PICK m :
        /\ RunOK(m) /\ MsgOK(m) /\ m = disp[s][1] /\ disp[s] # << >>
        /\ disp' = [disp EXCEPT ![s] = Tail(@)]
        /\ WrittenAfter(s, m, rec'[s])
        /\ rec' = [rec EXCEPT ![s] = rec'[s]]
        /\ xapp' = [xapp EXCEPT ![s] = xapp'[s]]
        /\ xapp'[s] = [CountAll(xapp[s], m.snap) EXCEPT !.last_dropped = m.dropped]
        /\ UNCHANGED <<vars, net, pool, sock, ow>>
  BY CallbackFacts
<1> DEFINE n == Len(m.snap)
           a == First(m)
           L == Len(rec[s])
           r == rec'[s]
           b == <<"disp", s>>
<1>2. n \in Nat /\ n > 0 /\ a \in Nat /\ m \in Message /\ m.dropped \in 0..(W32 - 1) /\ End(m) = a + n
  BY <1>1 DEF RunOK, Message, End
<1>3. /\ rec \in [Subs -> Seq(Nat)] /\ rec[s] \in Seq(Nat) /\ L \in Nat
      /\ xapp \in [Subs -> Counters] /\ disp \in [Subs -> Seq(Message)] /\ ow \subseteq Nat
      /\ rd \in Nat
  <2>1. rec \in [Subs -> Seq(Nat)] /\ disp \in [Subs -> Seq(Message)] /\ ow \subseteq Nat
    BY DEF PInv, PTypeOK
  <2>2. xapp \in [Subs -> Counters]
    BY DEF PInv, PTypeOK, Counters
  <2>3. rd \in Nat
    BY DEF PInv, PTypeOK, TypeOK
  <2>4. rec[s] \in Seq(Nat) /\ L \in Nat
    BY <2>1
  <2> QED
    BY <2>1, <2>2, <2>3, <2>4
<1>4. \A t \in Subs : t # s => rec'[t] = rec[t] /\ xapp'[t] = xapp[t] /\ disp'[t] = disp[t]
  BY <1>1, <1>3
<1>5. /\ r \in Seq(Nat) /\ Len(r) = L + n
      /\ \A i \in 1..L : r[i] = rec[s][i]
      /\ \A i \in 1..(L + n) : i > L => r[i] = a + (i - L) - 1
  BY <1>1 DEF WrittenAfter
<1>6. /\ a + n <= rd
      /\ \A i \in ow : i < a \/ a + n <= i
      /\ \A t \in Subs : \A i \in 1..Len(rec[t]) : rec[t][i] < a \/ a + n <= rec[t][i]
      /\ m.dropped = Cardinality({i \in ow : i < a}) % W32
  BY <1>1, <1>2 DEF MsgOK
<1> HIDE DEF n, a, L, r
\* the counters
<1>7. /\ xapp'[s] \in Counters /\ xapp'[s].cnt_snap = L + n
      /\ xapp'[s].last_seq = (a + n - 1) % W32 /\ xapp'[s].last_dropped = m.dropped
  <2> DEFINE d == CountAll(xapp[s], m.snap)
  <2>1. xapp[s] \in Counters /\ xapp[s].cnt_snap = L
    BY <1>3 DEF PInv, Follows, L
  <2>2. d \in Counters /\ d.cnt_snap = L + n /\ d.last_seq = (a + n - 1) % W32
    BY <1>1, <2>1, CountRun DEF n, a
  <2> HIDE DEF d
  <2>3. xapp'[s] = [d EXCEPT !.last_dropped = m.dropped]
    BY <1>1 DEF d
  <2> QED
    BY <2>2, <2>3, <1>2 DEF Counters
<1>8. /\ Removed(disp[s], 1, disp'[s]) /\ disp'[s] \in Seq(Message)
      /\ 1 \in 1..Len(disp[s])
  <2>1. disp[s] \in Seq(Message) /\ disp[s] # << >> /\ disp'[s] = Tail(disp[s])
    BY <1>1, <1>3
  <2>2. Removed(disp[s], 1, disp'[s]) /\ disp'[s] \in Seq(Message) /\ Len(disp[s]) >= 1
    BY <2>1, QueueOps
  <2> QED
    BY <2>1, <2>2
<1>9. PTypeOK'
  <2>1. rec' \in [Subs -> Seq(Nat)]
    BY <1>1, <1>3, <1>5 DEF r
  <2>2. xapp' \in [Subs -> Counters]
    BY <1>1, <1>3, <1>7
  <2>3. disp' \in [Subs -> Seq(Message)]
    BY <1>1, <1>3, <1>8
  <2> QED
    BY <1>1, <2>1, <2>2, <2>3 DEF PInv, PTypeOK, TypeOK, vars, Counters
<1>10. IInv' /\ Overwritten'
  BY <1>1 DEF PInv, vars, IInv, TypeOK, RingBounds, UnreadIntact, DropsAccounted, Overwritten
\* the messages that stay
<1>11. b \in Places /\ Queues[b] = disp[s] /\ Queues'[b] = disp'[s]
  BY QueuesOK, QueuesNext DEF QueuesAre
<1>12. SameBut(Queues, Queues', b)
  <2> SUFFICES ASSUME NEW l \in Places, l # b
               PROVE  Queues'[l] = Queues[l]
    BY DEF SameBut
  <2> QED
    BY <1>1, <1>4, OtherQueues
<1>13. Separate(Queues') /\ Among(Queues', Queues) /\ ApartFromAll(m, Queues')
  <2>1. \A l \in Places : Queues[l] \in Seq(Message)
    BY QueuesOK DEF PInv, QueuesTyped
  <2>2. \A l \in Places : Queues'[l] \in Seq(Message)
    BY <1>9, QueuesNext DEF QueuesTyped
  <2>3. AreQueues(Queues) /\ AreQueues(Queues')
    BY <2>1, <2>2 DEF AreQueues
  <2>4. Removed(Queues[b], 1, Queues'[b]) /\ 1 \in 1..Len(Queues[b]) /\ Queues[b][1] = m
    BY <1>1, <1>8, <1>11
  <2> HIDE DEF b
  <2> QED
    BY <1>11, <1>12, <2>3, <2>4, LeaveOK DEF PInv
<1>14. MessagesOK'
  <2> SUFFICES ASSUME NEW l \in Places, NEW i \in 1..Len(Queues'[l])
               PROVE  (RunOK(Queues[l][i]) /\ MsgOK(Queues[l][i]))'
    BY DEF MessagesOK
  <2>1. PICK x : x = Queues'[l][i]
    OBVIOUS
  <2>2. PICK p \in Places : \E k \in 1..Len(Queues[p]) : x = Queues[p][k]
    BY <1>13, <2>1 DEF Among
  <2>3. RunOK(x) /\ MsgOK(x)
    BY <2>2 DEF PInv, MessagesOK
  <2>4. a + n <= First(x) \/ End(x) <= a
    BY <1>2, <1>13, <2>1 DEF ApartFromAll, Apart, n, a
  <2>5. First(x) \in Nat /\ End(x) \in Nat
    BY <2>3 DEF RunOK, End, Message
  <2>6. ASSUME NEW t \in Subs, NEW k \in 1..Len(rec'[t])
        PROVE  rec'[t][k] < First(x) \/ End(x) <= rec'[t][k]
    <3>1. CASE t # s
      BY <1>4, <2>3, <3>1 DEF MsgOK
    <3>2. CASE t = s /\ k <= L
      <4>1. k \in 1..L /\ rec'[t][k] = rec[s][k]
        BY <1>2, <1>3, <1>5, <3>2 DEF r
      <4> QED
        BY <2>3, <4>1 DEF MsgOK, L
    <3>3. CASE t = s /\ ~(k <= L)
      <4>1. k \in 1..(L + n) /\ k > L
        BY <1>2, <1>3, <1>5, <2>6, <3>3 DEF r
      <4>2. rec'[t][k] = a + (k - L) - 1
        BY <1>5, <3>3, <4>1 DEF r
      <4>3. a <= rec'[t][k] /\ rec'[t][k] < a + n /\ rec'[t][k] \in Nat
        BY <1>2, <1>3, <4>1, <4>2
      <4> QED
        BY <1>2, <2>4, <2>5, <4>3
    <3> QED
      BY <3>1, <3>2, <3>3
  <2>7. MsgOK(x)'
    <3>1. rd' = rd /\ ow' = ow
      BY <1>1 DEF vars
    <3> QED
      BY <2>3, <2>6, <3>1 DEF MsgOK
  <2> QED
    BY <2>1, <2>3, <2>7 DEF RunOK, MsgOK, First, End
\* what is written
<1>15. ASSUME NEW i \in 1..(L + n)
       PROVE  \/ i \in 1..L /\ r[i] = rec[s][i]
              \/ i > L /\ r[i] = a + (i - L) - 1 /\ a <= r[i] /\ r[i] < a + n
  <2>1. CASE i <= L
    BY <1>2, <1>3, <1>5, <2>1
  <2>2. CASE ~(i <= L)
    <3>1. r[i] = a + (i - L) - 1 /\ i > L
      BY <1>2, <1>3, <1>5, <2>2
    <3> QED
      BY <1>2, <1>3, <3>1
  <2> QED
    BY <2>1, <2>2
<1>16. \A t \in Subs : \A i \in 1..Len(rec[t]) : rec[t][i] \in Nat
  BY <1>3
<1>17. \A i \in 1..(L + n) : r[i] \in Nat
  BY <1>5
<1>18. Written'
  <2>1. \A t \in Subs : \A i \in 1..Len(rec[t]) : rec[t][i] < rd /\ rec[t][i] \notin ow
    BY DEF PInv, Written
  <2>2. \A t, u \in Subs : \A i \in 1..Len(rec[t]), j \in 1..Len(rec[u]) :
          rec[t][i] = rec[u][j] => t = u /\ i = j
    BY DEF PInv, Written
  <2>3. \A i \in 1..(L + n) : r[i] < rd /\ r[i] \notin ow
    <3> SUFFICES ASSUME NEW i \in 1..(L + n) PROVE r[i] < rd /\ r[i] \notin ow
      OBVIOUS
    <3>1. CASE i \in 1..L /\ r[i] = rec[s][i]
      BY <2>1, <3>1 DEF L
    <3>2. CASE a <= r[i] /\ r[i] < a + n
      BY <1>2, <1>3, <1>6, <1>17, <3>2
    <3> QED
      BY <1>15, <3>1, <3>2
  <2>4. ASSUME NEW i \in 1..(L + n), NEW t \in Subs, t # s, NEW j \in 1..Len(rec[t])
        PROVE  r[i] # rec[t][j]
    <3>1. CASE i \in 1..L /\ r[i] = rec[s][i]
      BY <2>2, <2>4, <3>1 DEF L
    <3>2. CASE a <= r[i] /\ r[i] < a + n
      <4>1. rec[t][j] < a \/ a + n <= rec[t][j]
        BY <1>6
      <4>2. rec[t][j] \in Nat /\ r[i] \in Nat
        BY <1>16, <1>17
      <4> QED
        BY <1>2, <3>2, <4>1, <4>2
    <3> QED
      BY <1>15, <3>1, <3>2
  <2>5. ASSUME NEW i \in 1..(L + n), NEW j \in 1..(L + n), r[i] = r[j]
        PROVE  i = j
    <3>1. CASE i \in 1..L /\ r[i] = rec[s][i] /\ j \in 1..L /\ r[j] = rec[s][j]
      <4>1. i \in 1..Len(rec[s]) /\ j \in 1..Len(rec[s])
        BY <3>1 DEF L
      <4>2. rec[s][i] = rec[s][j]
        BY <2>5, <3>1
      <4> QED
        BY <2>2, <4>1, <4>2
    <3>2. CASE i \in 1..L /\ r[i] = rec[s][i] /\ a <= r[j] /\ r[j] < a + n
      <4>1. r[i] < a \/ a + n <= r[i]
        BY <1>6, <3>2 DEF L
      <4> QED
        BY <1>2, <1>17, <2>5, <3>2, <4>1
    <3>3. CASE j \in 1..L /\ r[j] = rec[s][j] /\ a <= r[i] /\ r[i] < a + n
      <4>1. r[j] < a \/ a + n <= r[j]
        BY <1>6, <3>3 DEF L
      <4> QED
        BY <1>2, <1>17, <2>5, <3>3, <4>1
    <3>4. CASE r[i] = a + (i - L) - 1 /\ r[j] = a + (j - L) - 1
      <4>1. i \in Int /\ j \in Int /\ a \in Int /\ L \in Int
        BY <1>2, <1>3
      <4>2. a + (i - L) - 1 = a + (j - L) - 1
        BY <2>5, <3>4
      <4> QED
        BY <4>1, <4>2
    <3> QED
      BY <1>15, <3>1, <3>2, <3>3, <3>4
  <2>6. rd' = rd /\ ow' = ow
    BY <1>1 DEF vars
  <2>7. ASSUME NEW t \in Subs, NEW i \in 1..Len(rec'[t])
        PROVE  rec'[t][i] < rd' /\ rec'[t][i] \notin ow'
    <3>1. CASE t = s
      BY <1>5, <2>3, <2>6, <2>7, <3>1 DEF r
    <3>2. CASE t # s
      BY <1>4, <2>1, <2>6, <2>7, <3>2
    <3> QED
      BY <3>1, <3>2
  <2>8. ASSUME NEW t \in Subs, NEW u \in Subs, NEW i \in 1..Len(rec'[t]), NEW j \in 1..Len(rec'[u]),
               rec'[t][i] = rec'[u][j]
        PROVE  t = u /\ i = j
    <3>1. CASE t = s /\ u = s
      BY <1>5, <2>5, <2>8, <3>1 DEF r
    <3>2. CASE t = s /\ u # s
      BY <1>4, <1>5, <2>4, <2>8, <3>2 DEF r
    <3>3. CASE t # s /\ u = s
      BY <1>4, <1>5, <2>4, <2>8, <3>3 DEF r
    <3>4. CASE t # s /\ u # s
      BY <1>4, <2>2, <2>8, <3>4
    <3> QED
      BY <3>1, <3>2, <3>3, <3>4
  <2> QED
    BY <2>7, <2>8 DEF Written
<1>19. Follows'
  <2>1. rec'[s][Len(rec'[s])] = a + n - 1 /\ Len(rec'[s]) = L + n
    <3>1. L + n \in 1..(L + n) /\ L + n > L /\ a + ((L + n) - L) - 1 = a + n - 1
      BY <1>2, <1>3
    <3> QED
      BY <1>5, <3>1 DEF r
  <2>2. {i \in ow : i < a + n - 1} = {i \in ow : i < a}
    <3>1. ASSUME NEW i \in ow
          PROVE  i < a + n - 1 <=> i < a
      <4>1. i \in Nat /\ (i < a \/ a + n <= i)
        BY <1>3, <1>6
      <4> QED
        BY <1>2, <4>1
    <3> QED
      BY <3>1
  <2>3. ow' = ow
    BY <1>1
  <2>4. ASSUME NEW t \in Subs
        PROVE  /\ xapp'[t].cnt_snap = Len(rec'[t])
               /\ Len(rec'[t]) > 0 =>
                    /\ xapp'[t].last_seq = rec'[t][Len(rec'[t])] % W32
                    /\ xapp'[t].last_dropped = Cardinality({i \in ow' : i < rec'[t][Len(rec'[t])]}) % W32
    <3>1. CASE t = s
      BY <1>6, <1>7, <2>1, <2>2, <2>3, <3>1
    <3>2. CASE t # s
      BY <1>4, <2>3, <3>2 DEF PInv, Follows
    <3> QED
      BY <3>1, <3>2
  <2> QED
    BY <2>4 DEF Follows
<1> QED
  BY <1>9, <1>10, <1>13, <1>14, <1>18, <1>19 DEF PInv

\* Every step of the pipeline preserves the invariant.
LEMMA PStepOK == PInv /\ [PNext]_allVars => PInv'
<1> SUFFICES ASSUME PInv, [PNext]_allVars PROVE PInv'
  OBVIOUS
<1>1. ASSUME NEW len \in Lens, PhyPublish(len) PROVE PInv'
  BY <1>1, PublishOK
<1>2. ASSUME NEW s \in Subs, NEW n \in 0..MaxDrain, Poll(s, n) PROVE PInv'
  BY <1>2, PollOK
<1>3. ASSUME NEW k \in 1..Len(pool), RicForward(k) PROVE PInv'
  BY <1>3, RicForwardOK
<1>4. ASSUME NEW s \in Subs, XappReceive(s) \/ Callback(s) PROVE PInv'
  BY <1>4, XappReceiveOK, CallbackOK
<1>5. CASE UNCHANGED allVars
  <2>1. UNCHANGED <<vars, net, pool, sock, disp, xapp, rec, ow>>
    BY <1>5 DEF allVars, pipeVars
  <2>2. Queues' = Queues
    BY <2>1 DEF Queues
  <2>3. IInv' /\ PTypeOK'
    BY <2>1 DEF PInv, vars, IInv, TypeOK, RingBounds, UnreadIntact, DropsAccounted, PTypeOK
  <2>4. rd' = rd /\ over' = over /\ ow' = ow /\ rec' = rec /\ xapp' = xapp
    BY <2>1 DEF vars
  <2>5. MessagesOK' /\ Separate(Queues)'
    <3>1. MessagesOK /\ Separate(Queues)
      BY DEF PInv
    <3>2. MessagesOK'
      <4> SUFFICES ASSUME NEW l \in Places, NEW i \in 1..Len(Queues'[l])
                   PROVE  (RunOK(Queues[l][i]) /\ MsgOK(Queues[l][i]))'
        BY DEF MessagesOK
      <4>1. PICK x : x = Queues[l][i] /\ x = Queues'[l][i]
        BY <2>2
      <4>2. RunOK(x) /\ MsgOK(x)
        BY <2>2, <3>1, <4>1 DEF MessagesOK
      <4>3. MsgOK(x)'
        BY <2>4, <4>2 DEF MsgOK
      <4> QED
        BY <4>1, <4>2, <4>3 DEF RunOK, MsgOK, First, End
    <3>3. Separate(Queues)'
      BY <2>2, <3>1 DEF Separate, Apart, First, End
    <3> QED
      BY <3>2, <3>3
  <2>6. Overwritten' /\ Written' /\ Follows'
    BY <2>4 DEF PInv, Overwritten, Written, Follows
  <2> QED
    BY <2>3, <2>5, <2>6 DEF PInv
<1> QED
  BY <1>1, <1>2, <1>3, <1>4, <1>5, RicReceiveOK DEF PNext

\* A recorder whose file is in order after a message counted the gap before
\* that message exactly.
LEMMA GapCounted ==
  ASSUME PInv, Exact, MaxPub <= W32 + 1, NEW s \in Subs, Callback(s)
  PROVE  /\ Len(rec'[s]) > 0
         /\ InOrder(rec'[s]) =>
              xapp'[s].lost_seq = rec'[s][Len(rec'[s])] - rec'[s][1] + 1 - Len(rec'[s])
<1> USE RingAssumption
<1> HIDE DEF Message
<1>1. PICK m :
        /\ RunOK(m) /\ MsgOK(m) /\ m = disp[s][1] /\ disp[s] # << >>
        /\ disp' = [disp EXCEPT ![s] = Tail(@)]
        /\ WrittenAfter(s, m, rec'[s])
        /\ rec' = [rec EXCEPT ![s] = rec'[s]]
        /\ xapp' = [xapp EXCEPT ![s] = xapp'[s]]
        /\ xapp'[s] = [CountAll(xapp[s], m.snap) EXCEPT !.last_dropped = m.dropped]
        /\ UNCHANGED <<vars, net, pool, sock, ow>>
  BY CallbackFacts
<1> DEFINE n == Len(m.snap)
           a == First(m)
           L == Len(rec[s])
           c == xapp[s]
           v == xapp'[s].lost_seq
<1>2. PICK r : r = rec'[s]
  OBVIOUS
<1>3. n \in Nat /\ n > 0 /\ a \in Nat /\ a + n <= rd
  BY <1>1 DEF RunOK, Message, End, MsgOK
<1>4. rec[s] \in Seq(Nat) /\ L \in Nat /\ c \in Counters /\ rd \in Nat /\ wr \in Nat
  BY DEF PInv, PTypeOK, Counters, TypeOK
<1>5. /\ r \in Seq(Nat) /\ Len(r) = L + n
      /\ \A i \in 1..L : r[i] = rec[s][i]
      /\ \A i \in 1..(L + n) : i > L => r[i] = a + (i - L) - 1
  BY <1>1, <1>2 DEF WrittenAfter
<1>6. a <= W32
  <2>1. rd <= wr /\ wr <= MaxPub
    BY DEF PInv, IInv, RingBounds, Exact
  <2> QED
    BY <1>3, <1>4, <2>1
<1>7. v = IF c.cnt_snap > 0 /\ a % W32 # (c.last_seq + 1) % W32
          THEN c.lost_seq + (((a % W32) - c.last_seq - 1) % W32) ELSE c.lost_seq
  <2> DEFINE d == CountAll(c, m.snap)
  <2>1. d \in Counters
        /\ d.lost_seq = IF c.cnt_snap > 0 /\ a % W32 # (c.last_seq + 1) % W32
                        THEN c.lost_seq + (((a % W32) - c.last_seq - 1) % W32) ELSE c.lost_seq
    BY <1>1, <1>4, CountRun
  <2> HIDE DEF d
  <2>2. xapp'[s] = [d EXCEPT !.last_dropped = m.dropped]
    BY <1>1 DEF d
  <2>3. v = d.lost_seq
    BY <2>1, <2>2 DEF Counters
  <2> QED
    BY <2>1, <2>3
<1>8. /\ c.cnt_snap = L /\ c.lost_seq \in Nat
      /\ L > 0 => c.last_seq = rec[s][L] % W32
      /\ L = 0 => c.lost_seq = 0
      /\ InOrder(rec[s]) /\ L > 0 => c.lost_seq = rec[s][L] - rec[s][1] + 1 - L
  BY <1>4 DEF PInv, Follows, Exact, Counters
<1> HIDE DEF n, a, L, c, v
<1>9. L + n > 0 /\ r[L + n] = a + n - 1 /\ r[L + 1] = a
  <2>1. /\ L + n \in 1..(L + n) /\ L + n > L /\ a + ((L + n) - L) - 1 = a + n - 1
        /\ L + 1 \in 1..(L + n) /\ L + 1 > L /\ a + ((L + 1) - L) - 1 = a
    BY <1>3, <1>4
  <2>2. r[L + n] = a + ((L + n) - L) - 1 /\ r[L + 1] = a + ((L + 1) - L) - 1
    BY <1>5, <2>1
  <2> QED
    BY <2>1, <2>2
<1>10. ASSUME InOrder(r)
       PROVE  v = (a + n - 1) - r[1] + 1 - (L + n)
  <2>1. CASE L = 0
    <3>1. v = 0 /\ r[1] = a
      BY <1>7, <1>8, <1>9, <2>1
    <3> QED
      BY <1>3, <2>1, <3>1
  <2>2. CASE L > 0
    <3> DEFINE b == rec[s][L]
               f == rec[s][1]
    <3>1. L \in 1..L /\ 1 \in 1..L /\ b \in Nat /\ f \in Nat
      BY <1>4, <2>2 DEF L
    <3>2. r[L] = b /\ r[1] = f
      BY <1>5, <3>1
    <3>3. b < a
      <4>1. L \in 1..Len(r) /\ L + 1 \in 1..Len(r) /\ L < L + 1
        BY <1>3, <1>4, <1>5, <2>2
      <4> QED
        BY <1>9, <1>10, <3>2, <4>1 DEF InOrder
    <3>4. InOrder(rec[s])
      <4> SUFFICES ASSUME NEW i \in 1..L, NEW j \in 1..L, i < j
                   PROVE  rec[s][i] < rec[s][j]
        BY DEF InOrder, L
      <4>1. i \in 1..Len(r) /\ j \in 1..Len(r)
        BY <1>3, <1>4, <1>5
      <4>2. r[i] < r[j]
        BY <1>10, <4>1 DEF InOrder
      <4> QED
        BY <1>5, <4>2
    <3>5. c.lost_seq = b - f + 1 - L /\ c.last_seq = b % W32 /\ c.cnt_snap > 0
      BY <1>8, <2>2, <3>4
    <3> HIDE DEF b, f
    <3>6. a - b - 1 < W32
      BY <1>3, <1>6, <3>1, <3>3
    <3>7. /\ ((a % W32) - (b % W32) - 1) % W32 = a - b - 1
          /\ a % W32 = ((b % W32) + 1) % W32 => a = b + 1
      BY <1>3, <3>1, <3>3, <3>6, GapExact
    <3>8. v = c.lost_seq + (a - b - 1)
      <4>1. CASE a % W32 = ((b % W32) + 1) % W32
        <5>1. v = c.lost_seq /\ a = b + 1
          BY <1>7, <3>5, <3>7, <4>1
        <5> QED
          BY <1>8, <3>1, <5>1
      <4>2. CASE a % W32 # ((b % W32) + 1) % W32
        BY <1>7, <3>5, <3>7, <4>2
      <4> QED
        BY <4>1, <4>2
    <3>9. v = (b - f + 1 - L) + (a - b - 1)
      BY <3>5, <3>8
    <3> QED
      BY <1>3, <1>4, <3>1, <3>2, <3>9
  <2> QED
    BY <1>4, <2>1, <2>2
<1>11. InOrder(r) => v = r[Len(r)] - r[1] + 1 - Len(r)
  BY <1>5, <1>9, <1>10
<1>12. Len(r) > 0
  BY <1>5, <1>9
<1> QED
  BY <1>2, <1>11, <1>12 DEF v

\* The exactness of the gap count is kept by every step, if the numbers fit.
LEMMA ExactOK == MaxPub <= W32 + 1 /\ PInv /\ Exact /\ [PNext]_allVars => Exact'
<1> SUFFICES ASSUME MaxPub <= W32 + 1, PInv, Exact, [PNext]_allVars PROVE Exact'
  OBVIOUS
<1> USE RingAssumption
<1>1. wr \in Nat /\ rec \in [Subs -> Seq(Nat)] /\ DOMAIN xapp = Subs
  BY DEF PInv, PTypeOK, TypeOK
<1>2. CASE UNCHANGED <<wr, xapp, rec>>
  BY <1>2 DEF Exact
<1>3. ASSUME NEW len \in Lens, PhyPublish(len) PROVE Exact'
  <2>1. UNCHANGED <<xapp, rec>>
    BY <1>3 DEF PhyPublish
  <2>2. wr' <= MaxPub
    BY <1>1, <1>3 DEF PhyPublish, Publish, PublishNoMem, Store, LoseBuffer, Exact
  <2> QED
    BY <2>1, <2>2 DEF Exact
<1>4. ASSUME NEW s \in Subs, Callback(s) PROVE Exact'
  <2>1. /\ rec' = [rec EXCEPT ![s] = rec'[s]] /\ xapp' = [xapp EXCEPT ![s] = xapp'[s]]
        /\ UNCHANGED vars
    BY <1>4, CallbackFacts
  <2>2. wr' <= MaxPub
    BY <2>1 DEF vars, Exact
  <2>3. ASSUME NEW t \in Subs
        PROVE  /\ Len(rec'[t]) = 0 => xapp'[t].lost_seq = 0
               /\ InOrder(rec'[t]) /\ Len(rec'[t]) > 0 =>
                    xapp'[t].lost_seq = rec'[t][Len(rec'[t])] - rec'[t][1] + 1 - Len(rec'[t])
    <3>1. CASE t # s
      <4>1. rec'[t] = rec[t] /\ xapp'[t] = xapp[t]
        BY <1>1, <2>1, <3>1
      <4> QED
        BY <4>1 DEF Exact
    <3>2. CASE t = s
      <4>1. Len(rec'[s]) > 0
        BY <1>4, GapCounted
      <4>2. Len(rec'[s]) # 0
        BY <4>1
      <4> QED
        BY <1>4, <3>2, <4>2, GapCounted
    <3> QED
      BY <3>1, <3>2
  <2> QED
    BY <2>2, <2>3 DEF Exact, InOrder
<1>5. ASSUME NEW s \in Subs, NEW n \in 0..MaxDrain, Poll(s, n) PROVE Exact'
  BY <1>2, <1>5 DEF Poll, Drain
<1>6. ASSUME NEW k \in 1..Len(pool), RicForward(k) PROVE Exact'
  BY <1>2, <1>6 DEF RicForward, vars
<1>7. ASSUME NEW s \in Subs, XappReceive(s) PROVE Exact'
  BY <1>2, <1>7 DEF XappReceive, vars
<1>8. CASE RicReceive
  BY <1>2, <1>8 DEF RicReceive, vars
<1>9. CASE UNCHANGED allVars
  BY <1>2, <1>9 DEF allVars, pipeVars, vars
<1> QED
  BY <1>3, <1>4, <1>5, <1>6, <1>7, <1>8, <1>9 DEF PNext

-----------------------------------------------------------------------------
\* PInv is an invariant of the pipeline.
THEOREM PInductive == PSpec => []PInv
  BY PInitOK, PStepOK, PTL DEF PSpec

\* No snapshot is written twice, by one subscriber or by two, and none that
\* was overwritten in the ring is written, whatever the number of pool threads
\* and subscriptions and in whatever order the indications arrive.
THEOREM RecordedOnceCorrect == PSpec => []RecordedOnce
<1>1. PInv => RecordedOnce
  <2> SUFFICES ASSUME PInv PROVE RecordedOnce
    OBVIOUS
  <2>1. PTypeOK /\ rec \in [Subs -> Seq(Nat)]
    BY DEF PInv, PTypeOK
  <2>2. \A s \in Subs : DOMAIN rec[s] = 1..Len(rec[s])
    BY <2>1
  <2> QED
    BY <2>1, <2>2 DEF PInv, Written, RecordedOnce
<1> QED
  BY <1>1, PInductive, PTL

\* The drop counter a recorder holds counts exactly the snapshots overwritten
\* before the last one it wrote, modulo 2^32, also when indications arrive out
\* of order.
THEOREM DropsDatedCorrect == PSpec => []DropsDated
<1>1. PInv => DropsDated
  <2> SUFFICES ASSUME PInv, NEW s \in Subs, rec[s] # << >>
               PROVE  xapp[s].last_dropped = Cardinality({i \in ow : i < Last(rec[s])}) % W32
    BY DEF DropsDated
  <2>1. rec[s] \in Seq(Nat)
    BY DEF PInv, PTypeOK
  <2>2. Len(rec[s]) > 0 /\ Last(rec[s]) = rec[s][Len(rec[s])]
    BY <2>1 DEF Last
  <2> QED
    BY <2>2 DEF PInv, Follows
<1> QED
  BY <1>1, PInductive, PTL

\* As long as no more snapshots are published than the 32-bit number can tell
\* apart, a recorder that got its indications in order counted exactly the
\* snapshots missing between its first and its last, gaps across the wrap
\* included.
THEOREM LostSeqExactCorrect ==
  ASSUME MaxPub <= W32 + 1
  PROVE  PSpec => []LostSeqExact
<1> USE RingAssumption
<1>1. PInit => Exact
  BY DEF PInit, Init, Exact
<1>2. PInv /\ Exact /\ [PNext]_allVars => Exact'
  BY ExactOK
<1>3. PInv /\ Exact => LostSeqExact
  <2> SUFFICES ASSUME PInv, Exact, NEW s \in Subs, rec[s] # << >>,
                      \A i, j \in DOMAIN rec[s] : i < j => rec[s][i] < rec[s][j]
               PROVE  xapp[s].lost_seq = Last(rec[s]) - rec[s][1] + 1 - xapp[s].cnt_snap
    BY DEF LostSeqExact
  <2>1. rec[s] \in Seq(Nat)
    BY DEF PInv, PTypeOK
  <2>2. Len(rec[s]) > 0 /\ Last(rec[s]) = rec[s][Len(rec[s])] /\ DOMAIN rec[s] = 1..Len(rec[s])
    BY <2>1 DEF Last
  <2>3. InOrder(rec[s])
    BY <2>2 DEF InOrder
  <2>4. xapp[s].cnt_snap = Len(rec[s])
    BY DEF PInv, Follows
  <2> QED
    BY <2>2, <2>3, <2>4 DEF Exact
<1>4. PSpec => []Exact
  BY <1>1, <1>2, PInductive, PTL DEF PSpec
<1> QED
  BY <1>3, <1>4, PInductive, PTL
=============================================================================
