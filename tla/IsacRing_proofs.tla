-------------------------- MODULE IsacRing_proofs --------------------------
(***************************************************************************)
(* Proofs about the CSI ring, for every ring size, drain limit, counter    *)
(* width and set of snapshot sizes.                                        *)
(*                                                                         *)
(* The inductive invariant IInv is the conjunction of the invariants the   *)
(* run "isac_ring" checks and RingBounds, which UnreadIntact needs: a      *)
(* publish leaves the unread slots alone only because at most RingSz - 1   *)
(* of them are unread once room is made, so that no other unread number is *)
(* congruent to wr (ModDistinct).  The refinement of IsacChannel follows:  *)
(* under IInv the unread slots hold the run of numbers rd .. wr - 1.       *)
(***************************************************************************)
EXTENDS IsacRing, SequenceTheorems, TLAPS

\* A position in the ring (and a truncated counter) is below its modulus.
LEMMA ModRange ==
  ASSUME NEW a \in Nat, NEW m \in Nat \ {0}
  PROVE  a % m \in 0..(m - 1)
  OBVIOUS

\* Two publication numbers less than a ring apart have different slots.
LEMMA ModDistinct ==
  ASSUME NEW a \in Nat, NEW b \in Nat, NEW m \in Nat \ {0}, a < b, b - a < m
  PROVE  a % m # b % m
<1>1. a = m * (a \div m) + (a % m)
  OBVIOUS
<1>2. b = m * (b \div m) + (b % m)
  OBVIOUS
<1>3. SUFFICES ASSUME a % m = b % m PROVE FALSE
  OBVIOUS
<1> DEFINE q == b \div m - a \div m
<1>4. q \in Int /\ b - a = m * q
  BY <1>1, <1>2, <1>3
<1>5. q <= 0 \/ q >= 1
  BY <1>4
<1>6. CASE q <= 0
  BY <1>4, <1>6
<1>7. CASE q >= 1
  BY <1>4, <1>7
<1>8. QED
  BY <1>5, <1>6, <1>7

\* The remainder is determined by a decomposition with 0 <= r < m.
LEMMA ModUnique ==
  ASSUME NEW m \in Nat \ {0}, NEW q \in Int, NEW r \in 0..(m - 1)
  PROVE  (m * q + r) % m = r
<1> DEFINE a == m * q + r
<1>0. a \in Int
  OBVIOUS
<1>1. a = m * (a \div m) + (a % m) /\ a \div m \in Int /\ a % m \in 0..(m - 1)
  BY <1>0
<1> DEFINE d == q - (a \div m)
<1>2. d \in Int /\ m * d = (a % m) - r
  BY <1>1
<1>3. -m < m * d /\ m * d < m
  BY <1>1, <1>2
<1>4. d = 0
  <2> HIDE DEF d
  <2>1. CASE d >= 1
    BY <1>2, <1>3, <2>1
  <2>2. CASE d <= -1
    BY <1>2, <1>3, <2>2
  <2> QED
    BY <1>2, <2>1, <2>2
<1> QED
  BY <1>1, <1>2, <1>4

\* Incrementing a truncated counter (dropped++) truncates the incremented
\* counter: no wrap of the 32 bits is missed.
LEMMA ModSucc ==
  ASSUME NEW a \in Nat, NEW m \in Nat \ {0}
  PROVE  ((a % m) + 1) % m = (a + 1) % m
<1> DEFINE q == a \div m
           r == a % m
<1>1. a = m * q + r /\ q \in Nat /\ r \in 0..(m - 1)
  OBVIOUS
<1> HIDE DEF q, r
<1>2. CASE r + 1 < m
  <2>1. (m * q + (r + 1)) % m = r + 1
    BY <1>1, <1>2, ModUnique
  <2>2. (m * 0 + (r + 1)) % m = r + 1
    BY <1>1, <1>2, ModUnique
  <2>3. m * q + (r + 1) = a + 1 /\ m * 0 + (r + 1) = r + 1
    BY <1>1
  <2>4. (a + 1) % m = r + 1 /\ (r + 1) % m = r + 1
    BY <2>1, <2>2, <2>3
  <2> QED
    BY <2>4 DEF r
<1>3. CASE r + 1 = m
  <2>1. (m * (q + 1) + 0) % m = 0
    BY <1>1, ModUnique
  <2>2. (m * 1 + 0) % m = 0
    BY ModUnique
  <2>3. m * (q + 1) + 0 = a + 1
    BY <1>1, <1>3
  <2>4. m * 1 + 0 = r + 1
    BY <1>3
  <2> QED
    BY <2>1, <2>2, <2>3, <2>4 DEF r
<1> QED
  BY <1>1, <1>2, <1>3

\* The inductive invariant.
IInv == TypeOK /\ RingBounds /\ UnreadIntact /\ DropsAccounted

\* The zero-initialised ring satisfies the invariant.
THEOREM InitOK == Init => IInv
<1> SUFFICES ASSUME Init PROVE IInv
  OBVIOUS
<1> USE RingAssumption DEF Init
<1>1. TypeOK
  BY DEF TypeOK, Entry, Snapshot, Slots, NoIq
<1>2. RingBounds /\ UnreadIntact
  BY DEF RingBounds, UnreadIntact
<1>3. DropsAccounted
  BY ModRange DEF DropsAccounted
<1> QED
  BY <1>1, <1>2, <1>3 DEF IInv

\* The overwrite at the start of nr_isac_csi_publish leaves a free slot,
\* keeps the account of drops and never moves rd beyond wr.
LEMMA MakeRoomOK ==
  ASSUME TypeOK, RingBounds, DropsAccounted, MakeRoom
  PROVE  /\ rd' \in Nat
         /\ over' \in Nat
         /\ dropped' \in 0..(W32 - 1)
         /\ rd <= rd' /\ rd' <= wr /\ wr - rd' < RingSz
         /\ rd' = got + over'
         /\ dropped' = over' % W32
<1> USE RingAssumption DEF TypeOK, RingBounds, DropsAccounted, MakeRoom, Full
<1>1. CASE Full
  <2>1. (dropped + 1) % W32 \in 0..(W32 - 1)
    BY ModRange
  <2>2. ((over % W32) + 1) % W32 = (over + 1) % W32
    BY ModSucc
  <2> QED
    BY <1>1, <2>1, <2>2
<1>2. CASE ~Full
  BY <1>2
<1> QED
  BY <1>1, <1>2

\* Storing a snapshot in the slot of wr, after room was made, preserves the
\* invariant: no unread snapshot has that slot.
LEMMA StoreOK ==
  ASSUME IInv, NEW len \in Lens, MakeRoom, Store(len), UNCHANGED <<out, got>>
  PROVE  IInv'
<1> USE RingAssumption
<1> DEFINE s == wr % RingSz
           x == [seq |-> wr % W32, len |-> len, iq |-> wr,
                 cap |-> IF e[s].cap < len THEN len ELSE e[s].cap]
<1>1. /\ wr \in Nat /\ rd \in Nat /\ len \in Nat /\ e \in [Slots -> Entry]
      /\ rd <= wr /\ wr - rd <= RingSz
  BY DEF IInv, TypeOK, RingBounds
<1>2. /\ rd' \in Nat /\ over' \in Nat /\ dropped' \in 0..(W32 - 1)
      /\ rd <= rd' /\ rd' <= wr /\ wr - rd' < RingSz
      /\ rd' = got + over'
      /\ dropped' = over' % W32
  BY MakeRoomOK DEF IInv
<1>3. s \in Slots /\ wr % W32 \in 0..(W32 - 1)
  BY <1>1, ModRange DEF Slots
<1>4. e' = [e EXCEPT ![s] = x] /\ wr' = wr + 1
  BY DEF Store
<1>5. x \in Entry
  <2>1. e[s] \in Entry
    BY <1>1, <1>3
  <2> QED
    BY <1>1, <1>3, <2>1 DEF Entry
<1>6. TypeOK'
  <2>1. e' \in [Slots -> Entry]
    BY <1>1, <1>3, <1>4, <1>5
  <2>2. out' \in [snap : Seq(Snapshot), dropped : 0..(W32 - 1)] /\ got' \in Nat
    BY DEF IInv, TypeOK
  <2>3. wr' \in Nat
    BY <1>1, <1>4
  <2> QED
    BY <1>2, <2>1, <2>2, <2>3 DEF TypeOK
<1>7. RingBounds'
  BY <1>1, <1>2, <1>4 DEF RingBounds
<1>8. ASSUME NEW i \in rd'..(wr' - 1)
      PROVE  LET t == e'[i % RingSz] IN
             t.iq = i /\ t.seq = i % W32 /\ t.len \in Lens /\ t.len <= t.cap
  <2>1. i \in Nat /\ i <= wr /\ i >= rd
    BY <1>1, <1>2, <1>4
  <2>2. CASE i = wr
    <3>1. e'[i % RingSz] = x
      BY <1>1, <1>3, <1>4, <2>2
    <3>2. e[s] \in Entry
      BY <1>1, <1>3
    <3> QED
      BY <1>1, <2>2, <3>1, <3>2 DEF Entry
  <2>3. CASE i # wr
    <3>1. i \in rd..(wr - 1) /\ i < wr /\ wr - i < RingSz
      BY <1>1, <1>2, <2>1, <2>3
    <3>2. i % RingSz # s /\ i % RingSz \in Slots
      BY <1>1, <2>1, <3>1, ModDistinct, ModRange DEF Slots
    <3>3. e'[i % RingSz] = e[i % RingSz]
      BY <1>1, <1>4, <3>2
    <3> QED
      BY <3>1, <3>3 DEF IInv, UnreadIntact
  <2> QED
    BY <2>2, <2>3
<1>9. UnreadIntact'
  BY <1>8 DEF UnreadIntact
<1>10. DropsAccounted'
  BY <1>2 DEF DropsAccounted
<1> QED
  BY <1>6, <1>7, <1>9, <1>10 DEF IInv

\* A publish that frees the slot's buffer and gets no memory preserves the
\* invariant: the buffer it freed belongs to no unread snapshot.
LEMMA LoseBufferOK ==
  ASSUME IInv, NEW len \in Lens, MakeRoom, LoseBuffer(len),
         UNCHANGED <<out, got>>
  PROVE  IInv'
<1> USE RingAssumption
<1> DEFINE s == wr % RingSz
<1>1. /\ wr \in Nat /\ rd \in Nat /\ e \in [Slots -> Entry]
      /\ rd <= wr /\ wr - rd <= RingSz
  BY DEF IInv, TypeOK, RingBounds
<1>2. /\ rd' \in Nat /\ over' \in Nat /\ dropped' \in 0..(W32 - 1)
      /\ rd <= rd' /\ rd' <= wr /\ wr - rd' < RingSz
      /\ rd' = got + over'
      /\ dropped' = over' % W32
  BY MakeRoomOK DEF IInv
<1>3. s \in Slots
  BY <1>1, ModRange DEF Slots
<1>4. e' = [e EXCEPT ![s].iq = NoIq, ![s].cap = 0] /\ wr' = wr
  BY DEF LoseBuffer
<1>5. TypeOK'
  <2>1. e[s] \in Entry
    BY <1>1, <1>3
  <2>2. [[e[s] EXCEPT !.iq = NoIq] EXCEPT !.cap = 0] \in Entry
    BY <2>1 DEF Entry, NoIq
  <2>3. e' \in [Slots -> Entry]
    BY <1>1, <1>3, <1>4, <2>2
  <2> QED
    BY <1>1, <1>2, <1>4, <2>3 DEF IInv, TypeOK
<1>6. RingBounds'
  BY <1>1, <1>2, <1>4 DEF RingBounds
<1>7. ASSUME NEW i \in rd'..(wr' - 1)
      PROVE  LET t == e'[i % RingSz] IN
             t.iq = i /\ t.seq = i % W32 /\ t.len \in Lens /\ t.len <= t.cap
  <2>1. i \in rd..(wr - 1) /\ i \in Nat /\ i < wr /\ wr - i < RingSz
    BY <1>1, <1>2, <1>4
  <2>2. i % RingSz # s /\ i % RingSz \in Slots
    BY <1>1, <2>1, ModDistinct, ModRange DEF Slots
  <2>3. e'[i % RingSz] = e[i % RingSz]
    BY <1>1, <1>4, <2>2
  <2> QED
    BY <2>1, <2>3 DEF IInv, UnreadIntact
<1>8. UnreadIntact'
  BY <1>7 DEF UnreadIntact
<1>9. DropsAccounted'
  BY <1>2 DEF DropsAccounted
<1> QED
  BY <1>5, <1>6, <1>8, <1>9 DEF IInv

\* nr_isac_csi_drain preserves the invariant, and what it returns are the
\* snapshots rd, rd + 1, ... with their own samples and sequence numbers.
LEMMA DrainOK ==
  ASSUME IInv, NEW n \in 0..MaxDrain, Drain(n)
  PROVE  /\ IInv'
         /\ \A k \in 1..Len(out'.snap) :
              LET i == rd + k - 1 IN
              out'.snap[k].iq = i /\ out'.snap[k].seq = i % W32 /\ i < wr
<1> USE RingAssumption
<1>1. /\ wr \in Nat /\ rd \in Nat /\ e \in [Slots -> Entry]
      /\ rd <= wr /\ wr - rd <= RingSz /\ n \in Nat /\ n <= wr - rd
  BY DEF IInv, TypeOK, RingBounds, Drain, Drained
<1> DEFINE snap == [k \in 1..n |-> Copy(rd + k - 1)]
<1>2. out' = [snap |-> snap, dropped |-> dropped]
  BY DEF Drain
<1>3. ASSUME NEW k \in 1..n
      PROVE  /\ Copy(rd + k - 1) \in Snapshot
             /\ Copy(rd + k - 1).iq = rd + k - 1
             /\ Copy(rd + k - 1).seq = (rd + k - 1) % W32
             /\ rd + k - 1 < wr
  <2> DEFINE i == rd + k - 1
  <2>1. i \in rd..(wr - 1) /\ i \in Nat
    BY <1>1
  <2>2. i % RingSz \in Slots
    BY <2>1, ModRange DEF Slots
  <2>3. e[i % RingSz] \in Entry
    BY <1>1, <2>2
  <2>4. e[i % RingSz].iq = i /\ e[i % RingSz].seq = i % W32
    BY <2>1 DEF IInv, UnreadIntact
  <2> QED
    BY <1>1, <2>1, <2>3, <2>4 DEF Copy, Snapshot, Entry
<1>4. snap \in Seq(Snapshot) /\ Len(snap) = n
  <2> HIDE DEF Snapshot
  <2>1. snap \in [1..n -> Snapshot]
    BY <1>3
  <2> QED
    BY <1>1, <2>1
<1>5. TypeOK'
  BY <1>1, <1>2, <1>4 DEF IInv, TypeOK, Drain
<1>6. RingBounds'
  BY <1>1 DEF RingBounds, Drain
<1>7. UnreadIntact'
  <2>1. rd' \in Nat /\ rd <= rd' /\ wr' = wr /\ e' = e
    BY <1>1 DEF Drain
  <2>2. \A i \in rd'..(wr' - 1) : i \in rd..(wr - 1)
    BY <1>1, <2>1
  <2> QED
    BY <2>1, <2>2 DEF IInv, UnreadIntact
<1>8. DropsAccounted'
  BY <1>1 DEF IInv, TypeOK, DropsAccounted, Drain
<1>9. \A k \in 1..Len(out'.snap) :
        LET i == rd + k - 1 IN
        out'.snap[k].iq = i /\ out'.snap[k].seq = i % W32 /\ i < wr
  BY <1>2, <1>3, <1>4
<1> QED
  BY <1>5, <1>6, <1>7, <1>8, <1>9 DEF IInv

\* Every step of the PHY or of the agent preserves the invariant.
LEMMA StepOK == IInv /\ [Next]_vars => IInv'
<1> SUFFICES ASSUME IInv, [Next]_vars PROVE IInv'
  OBVIOUS
<1>1. ASSUME NEW len \in Lens, Publish(len) PROVE IInv'
  BY <1>1, StoreOK DEF Publish
<1>2. ASSUME NEW len \in Lens, PublishNoMem(len) PROVE IInv'
  BY <1>2, LoseBufferOK DEF PublishNoMem
<1>3. ASSUME NEW n \in 0..MaxDrain, Drain(n) PROVE IInv'
  BY <1>3, DrainOK
<1>4. CASE UNCHANGED vars
  BY <1>4 DEF vars, IInv, TypeOK, RingBounds, UnreadIntact, DropsAccounted
<1> QED
  BY <1>1, <1>2, <1>3, <1>4 DEF Next

\* The invariant holds in every reachable state.
THEOREM Inductive == Spec => []IInv
  BY InitOK, StepOK, PTL DEF Spec

\* Type correctness of the ring; the counters sent keep their 32 bits.
THEOREM TypeCorrect == Spec => []TypeOK
<1>1. IInv => TypeOK
  BY DEF IInv
<1> QED
  BY <1>1, Inductive, PTL

\* At most RingSz snapshots are unread, and each is intact in the slot
\* nr_isac_csi_drain will read, with a buffer at least as long as its length.
THEOREM RingSafe == Spec => [](RingBounds /\ UnreadIntact)
<1>1. IInv => RingBounds /\ UnreadIntact
  BY DEF IInv
<1> QED
  BY <1>1, Inductive, PTL

\* Every snapshot that left the ring was handed to the agent or counted in
\* ring.dropped, modulo the width of that counter.
THEOREM NothingUncounted == Spec => []DropsAccounted
<1>1. IInv => DropsAccounted
  BY DEF IInv
<1> QED
  BY <1>1, Inductive, PTL

\* No call of nr_isac_csi_drain returns a snapshot that an earlier call
\* returned, that was overwritten, or that carries another's samples.
THEOREM FreshReads == Spec => DrainFresh
<1> DEFINE Fresh ==
      out' # out =>
        \A k \in 1..Len(out'.snap) :
          LET i == rd + k - 1 IN
          /\ out'.snap[k].iq = i
          /\ out'.snap[k].seq = i % W32
          /\ i < wr
<1>1. IInv /\ [Next]_vars => [Fresh]_vars
  <2> SUFFICES ASSUME IInv, Next, out' # out
               PROVE  \A k \in 1..Len(out'.snap) :
                        LET i == rd + k - 1 IN
                        /\ out'.snap[k].iq = i
                        /\ out'.snap[k].seq = i % W32
                        /\ i < wr
    OBVIOUS
  <2>1. PICK n \in 0..MaxDrain : Drain(n)
    BY DEF Next, Publish, PublishNoMem
  <2> QED
    BY <2>1, DrainOK
<1> QED
  BY <1>1, Inductive, PTL DEF Spec, DrainFresh

\* The n consecutive publication numbers that begin with a.
Run(a, n) == [k \in 1..n |-> a + k - 1]

\* A run is a sequence of numbers.
LEMMA RunSeq ==
  ASSUME NEW a \in Nat, NEW n \in Nat
  PROVE  Run(a, n) \in Seq(Nat) /\ Len(Run(a, n)) = n
<1>1. Run(a, n) \in [1..n -> Nat]
  BY DEF Run
<1> QED
  BY <1>1 DEF Run

\* Overwriting the oldest unread snapshot takes the first number of the run.
LEMMA RunTail ==
  ASSUME NEW a \in Nat, NEW n \in Nat \ {0}
  PROVE  Tail(Run(a, n)) = Run(a + 1, n - 1)
<1>1. Run(a, n) \in Seq(Nat) /\ Len(Run(a, n)) = n
  BY RunSeq
<1>2. Tail(Run(a, n)) = SubSeq(Run(a, n), 2, n)
  BY <1>1, TailIsSubSeq
<1>3. SubSeq(Run(a, n), 2, n) = Run(a + 1, n - 1)
  BY <1>1 DEF Run
<1> QED
  BY <1>2, <1>3

\* Publishing snapshot b continues the run that ends before b.
LEMMA RunAppend ==
  ASSUME NEW a \in Nat, NEW b \in Nat, a <= b
  PROVE  Append(Run(a, b - a), b) = Run(a, (b + 1) - a)
<1> DEFINE n == b - a
<1>0. n \in Nat /\ b = a + n /\ (b + 1) - a = n + 1
  OBVIOUS
<1> HIDE DEF n
<1>1. Run(a, n) \in Seq(Nat) /\ Len(Run(a, n)) = n
  BY <1>0, RunSeq
<1>2. /\ DOMAIN Append(Run(a, n), a + n) = 1..(n + 1)
      /\ Append(Run(a, n), a + n) \in Seq(Nat)
  BY <1>0, <1>1
<1>3. \A k \in 1..(n + 1) : Append(Run(a, n), a + n)[k] = a + k - 1
  BY <1>0, <1>1 DEF Run
<1>4. Append(Run(a, n), a + n) = Run(a, n + 1)
  BY <1>0, <1>2, <1>3 DEF Run
<1> QED
  BY <1>0, <1>4 DEF n

\* Draining m snapshots splits the run.
LEMMA RunSplit ==
  ASSUME NEW a \in Nat, NEW n \in Nat, NEW m \in 0..n
  PROVE  /\ SubSeq(Run(a, n), 1, m) = Run(a, m)
         /\ SubSeq(Run(a, n), m + 1, n) = Run(a + m, n - m)
  BY RunSeq DEF Run

\* The unread slots hold the run from rd to wr - 1.
Numbered == Unread = Run(rd, wr - rd)

\* The samples in the unread slots are those of rd .. wr - 1, in order.
LEMMA UnreadNumbers == IInv => Numbered
<1> SUFFICES ASSUME IInv PROVE Numbered
  OBVIOUS
<1>1. wr \in Nat /\ rd \in Nat
  BY DEF IInv, TypeOK
<1>2. \A k \in 1..(wr - rd) : e[(rd + k - 1) % RingSz].iq = rd + k - 1
  <2> TAKE k \in 1..(wr - rd)
  <2>1. rd + k - 1 \in rd..(wr - 1)
    BY <1>1
  <2> QED
    BY <2>1 DEF IInv, UnreadIntact
<1> QED
  BY <1>2 DEF Numbered, Unread, Run

\* What MakeRoom leaves unread is what the channel keeps when it makes room.
LEMMA RoomNumbers ==
  ASSUME IInv, MakeRoom
  PROVE  Channel!Room = Run(rd', wr - rd') /\ Channel!Drops = dropped'
<1> USE RingAssumption
<1>1. wr \in Nat /\ rd \in Nat /\ wr - rd \in Nat
  BY DEF IInv, TypeOK, RingBounds
<1>2. Unread = Run(rd, wr - rd) /\ Len(Unread) = wr - rd
  BY <1>1, UnreadNumbers, RunSeq DEF Numbered
<1>3. CASE Full
  <2>1. rd' = rd + 1 /\ dropped' = (dropped + 1) % W32 /\ wr - rd = RingSz
    BY <1>3 DEF MakeRoom, Full
  <2>2. Channel!Room = Tail(Unread) /\ Channel!Drops = dropped'
    BY <1>2, <2>1 DEF Channel!Room, Channel!Drops
  <2>3. Tail(Unread) = Run(rd + 1, (wr - rd) - 1)
    BY <1>1, <1>2, <2>1, RunTail
  <2>4. (wr - rd) - 1 = wr - rd'
    BY <1>1, <2>1
  <2> QED
    BY <2>1, <2>2, <2>3, <2>4
<1>4. CASE ~Full
  <2>1. rd' = rd /\ dropped' = dropped /\ wr - rd # RingSz
    BY <1>4 DEF MakeRoom, Full
  <2> QED
    BY <1>2, <2>1 DEF Channel!Room, Channel!Drops
<1> QED
  BY <1>3, <1>4

\* Every step of the ring is a step of the channel or leaves it unchanged.
LEMMA RefineStep == IInv /\ [Next]_vars => [Channel!Next]_(Channel!cvars)
<1> USE RingAssumption
<1>0. IInv' => Numbered'
  BY UnreadNumbers, PTL
<1> SUFFICES ASSUME IInv, [Next]_vars
             PROVE  Channel!Next \/ UNCHANGED Channel!cvars
  OBVIOUS
<1>1. IInv' /\ Numbered'
  BY <1>0, StepOK
<1>2. /\ wr \in Nat /\ rd \in Nat /\ wr' \in Nat /\ rd' \in Nat
      /\ rd <= wr /\ rd' <= wr'
  BY <1>1 DEF IInv, TypeOK, RingBounds
<1>3. Unread = Run(rd, wr - rd) /\ Unread' = Run(rd', wr' - rd')
  BY <1>1, UnreadNumbers DEF Numbered, Run
<1>4. ASSUME NEW len \in Lens, Publish(len) PROVE Channel!Publish
  <2>1. Channel!Room = Run(rd', wr - rd') /\ Channel!Drops = dropped'
    BY <1>4, RoomNumbers DEF Publish
  <2>2. wr' = wr + 1 /\ rd' <= wr
    BY <1>4, MakeRoomOK DEF Publish, Store, IInv
  <2>3. Append(Run(rd', wr - rd'), wr) = Run(rd', (wr + 1) - rd')
    BY <1>2, <2>2, RunAppend
  <2>4. Unread' = Append(Channel!Room, wr)
    BY <1>3, <2>1, <2>2, <2>3
  <2>5. Returned' = Returned
    BY <1>4 DEF Publish, Returned
  <2> QED
    BY <2>1, <2>2, <2>4, <2>5 DEF Channel!Publish
<1>5. ASSUME NEW len \in Lens, PublishNoMem(len) PROVE Channel!PublishRefused
  <2>1. Channel!Room = Run(rd', wr - rd') /\ Channel!Drops = dropped'
    BY <1>5, RoomNumbers DEF PublishNoMem
  <2>2. wr' = wr
    BY <1>5 DEF PublishNoMem, LoseBuffer
  <2>3. Returned' = Returned
    BY <1>5 DEF PublishNoMem, Returned
  <2> QED
    BY <1>3, <2>1, <2>2, <2>3 DEF Channel!PublishRefused
<1>6. ASSUME NEW n \in 0..MaxDrain, Drain(n) PROVE Channel!Take
  <2>1. /\ wr' = wr /\ rd' = rd + n /\ dropped' = dropped
        /\ n \in 0..(wr - rd) /\ wr - rd \in Nat
    BY <1>2, <1>6 DEF Drain, Drained
  <2>2. Len(Unread) = wr - rd
    BY <1>2, <1>3, <2>1, RunSeq
  <2>3. Unread' = SubSeq(Unread, n + 1, Len(Unread))
    <3>1. SubSeq(Run(rd, wr - rd), n + 1, wr - rd) = Run(rd + n, (wr - rd) - n)
      <4>1. PICK k \in Nat : k = wr - rd
        BY <2>1
      <4>2. rd \in Nat /\ n \in 0..k
        BY <1>2, <2>1, <4>1
      <4>3. SubSeq(Run(rd, k), n + 1, k) = Run(rd + n, k - n)
        BY <4>2, RunSplit
      <4> QED
        BY <4>1, <4>3
    <3>2. (wr - rd) - n = wr' - rd'
      BY <1>2, <2>1
    <3> QED
      BY <1>3, <2>1, <2>2, <3>1, <3>2
  <2>4. Returned' = SubSeq(Unread, 1, n)
    <3>1. out'.snap = [k \in 1..n |-> Copy(rd + k - 1)]
      BY <1>6 DEF Drain
    <3>2. Len(out'.snap) = n
      BY <2>1, <3>1
    <3>3. \A k \in 1..n : out'.snap[k].iq = rd + k - 1
      BY <1>6, <3>2, DrainOK
    <3>4. Returned' = Run(rd, n)
      BY <3>2, <3>3 DEF Returned, Run
    <3> QED
      BY <1>2, <1>3, <2>1, <3>4, RunSplit
  <2> QED
    BY <2>1, <2>2, <2>3, <2>4 DEF Channel!Take
<1>7. CASE UNCHANGED vars
  BY <1>7 DEF vars, Channel!cvars, Unread, Returned
<1> QED
  BY <1>4, <1>5, <1>6, <1>7 DEF Next, Channel!Next

\* The ring of nr_isac_csi.c implements the abstract channel: a bounded FIFO
\* that never blocks the PHY and loses only what it counts or has no memory for.
THEOREM ImplementsChannel == Spec => ChannelSpec
<1>1. Init => Channel!Init
  BY DEF Init, Channel!Init, Unread, Returned
<1> QED
  BY <1>1, RefineStep, Inductive, PTL DEF Spec, ChannelSpec, Channel!Spec
=============================================================================
