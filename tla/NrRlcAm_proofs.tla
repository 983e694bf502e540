-------------------------- MODULE NrRlcAm_proofs ---------------------------
(***************************************************************************)
(* Proofs about NrRlcAm.                                                   *)
(*                                                                         *)
(* GapWatched is preserved by every step by itself and holds without any   *)
(* assumption.  The other invariants follow from IInv, which is inductive  *)
(* when t_reassembly expires only after the SDU that is on its way is all  *)
(* sent (~EarlyReassembly; without it the windows are not nested).  IInv   *)
(* speaks of positions instead of SNs: the i-th SDU has position i - 1,    *)
(* positions do not wrap as N < SnMod, and the distances that modulus_tx   *)
(* and modulus_rx compute are differences of positions.  It says that      *)
(*   - the windows are nested, TA <= RN <= RS <= RH <= TN <= TA + W, and a *)
(*     report does not reach into an SDU that is not all sent (Order);     *)
(*   - tx_list is the rest of the SDU sent last and the SDUs never sent,   *)
(*     the two other lists hold disjoint pieces of SDUs that were sent,    *)
(*     and a byte that was sent is held or was received (SenderOK);        *)
(*   - below RN all is delivered, a place of the ring is marked exactly    *)
(*     when its SDU is delivered, and above the window nothing is          *)
(*     (RingOK, HeadsOK);                                                  *)
(*   - a report on its way acknowledges no byte the receiver lacks         *)
(*     (RepsOK).                                                           *)
(***************************************************************************)
EXTENDS NrRlcAm, FiniteSetTheorems, SequenceTheorems, NaturalsInduction,
        WellFoundedInduction, TLAPS

-----------------------------------------------------------------------------
(* Positions.  The i-th SDU has position i - 1, and its SN is the position *)
(* counted from Start.  N < SnMod, so that the positions of a run do not   *)
(* wrap while the SNs do.                                                  *)

W == window_size

Pos(sn) == (sn - Start) % SnMod

At(p) == (Start + p) % SnMod

\* The place in the ring of the SDU at a position.
Place(p) == (Start + p) % W

\* The remainder is determined by a decomposition with 0 <= r < m.
LEMMA ModUnique ==
  ASSUME NEW m \in Nat \ {0}, NEW q \in Int, NEW r \in 0..(m - 1)
  PROVE  (m * q + r) % m = r
<1> DEFINE a == m * q + r
<1>0. a \in Int
  OBVIOUS
<1>1. a = m * (a \div m) + (a % m) /\ a \div m \in Int /\ a % m \in 0..(m - 1)
  BY <1>0
<1> DEFINE d == q - (a \div m)
<1>2. d \in Int /\ m * d = (a % m) - r
  BY <1>1
<1>3. -m < m * d /\ m * d < m
  BY <1>1, <1>2
<1>4. d = 0
  <2> HIDE DEF d
  <2>1. CASE d >= 1
    BY <1>2, <1>3, <2>1
  <2>2. CASE d <= -1
    BY <1>2, <1>3, <2>2
  <2> QED
    BY <1>2, <2>1, <2>2
<1> QED
  BY <1>1, <1>2, <1>4

\* Quotient and remainder.
LEMMA Decompose ==
  ASSUME NEW m \in Nat \ {0}, NEW a \in Int
  PROVE  \E q \in Int, r \in 0..(m - 1) : a = m * q + r /\ r = a % m
<1>1. a = m * (a \div m) + (a % m) /\ a \div m \in Int /\ a % m \in 0..(m - 1)
  OBVIOUS
<1> QED
  BY <1>1

\* Adding a multiple of the modulus changes no remainder.
LEMMA ModShift ==
  ASSUME NEW m \in Nat \ {0}, NEW a \in Int, NEW q \in Int
  PROVE  (a + m * q) % m = a % m
<1>1. PICK c \in Int, r \in 0..(m - 1) : a = m * c + r /\ r = a % m
  BY Decompose
<1>2. PICK z \in Int : z = c + q
  OBVIOUS
<1>3. (m * z + r) % m = r
  BY ModUnique
<1>4. m * z + r = a + m * q
  BY <1>1, <1>2
<1> QED
  BY <1>1, <1>3, <1>4

\* What the sizes of the sequence numbers and of the window are.
LEMMA Widths ==
  /\ SnMod \in Nat \ {0} /\ W \in Nat \ {0} /\ SnMod = 2 * W /\ W >= 2
  /\ Start \in 0..(SnMod - 1) /\ N \in Nat /\ N < SnMod
<1>1. SnMod = 2 * (SnMod \div 2) + (SnMod % 2) /\ SnMod \div 2 \in Int
  BY RlcAssumption
<1> QED
  BY <1>1, RlcAssumption DEF W, window_size

\* A position is a position below the modulus, and an SN has one.
LEMMA PosType ==
  ASSUME NEW sn \in Sns
  PROVE  Pos(sn) \in 0..(SnMod - 1) /\ At(Pos(sn)) = sn
<1>1. Pos(sn) \in 0..(SnMod - 1)
  BY Widths DEF Pos, Sns
<1>2. CASE Start <= sn
  <2>1. (SnMod * 0 + (sn - Start)) % SnMod = sn - Start
    BY <1>2, Widths, ModUnique DEF Sns
  <2>2. Pos(sn) = sn - Start
    BY <2>1, Widths DEF Pos, Sns
  <2>3. (SnMod * 0 + sn) % SnMod = sn
    BY Widths, ModUnique DEF Sns
  <2> QED
    BY <1>1, <2>2, <2>3, Widths DEF At, Sns
<1>3. CASE sn < Start
  <2>1. (SnMod * (-1) + (SnMod + sn - Start)) % SnMod = SnMod + sn - Start
    <3>1. PICK z \in 0..(SnMod - 1) : z = SnMod + sn - Start
      BY <1>3, Widths DEF Sns
    <3>2. (SnMod * (-1) + z) % SnMod = z
      BY Widths, ModUnique
    <3> QED
      BY <3>1, <3>2
  <2>2. Pos(sn) = SnMod + sn - Start
    BY <2>1, Widths DEF Pos, Sns
  <2>3. (SnMod * 1 + sn) % SnMod = sn
    BY Widths, ModUnique DEF Sns
  <2> QED
    BY <1>1, <2>2, <2>3, Widths DEF At, Sns
<1> QED
  BY <1>2, <1>3, Widths DEF Sns

\* The SN at a position has that position.
LEMMA AtType ==
  ASSUME NEW p \in 0..(SnMod - 1)
  PROVE  At(p) \in Sns /\ Pos(At(p)) = p
<1>1. At(p) \in Sns
  BY Widths DEF At, Sns
<1>2. CASE Start + p < SnMod
  <2>1. (SnMod * 0 + (Start + p)) % SnMod = Start + p
    BY <1>2, Widths, ModUnique
  <2>2. At(p) = Start + p
    BY <2>1, Widths DEF At
  <2>3. (SnMod * 0 + p) % SnMod = p
    BY Widths, ModUnique
  <2> QED
    BY <1>1, <2>2, <2>3, Widths DEF Pos
<1>3. CASE Start + p >= SnMod
  <2>1. (SnMod * 1 + (Start + p - SnMod)) % SnMod = Start + p - SnMod
    <3>1. Start + p - SnMod \in 0..(SnMod - 1)
      BY <1>3, Widths
    <3> QED
      BY <3>1, Widths, ModUnique
  <2>2. At(p) = Start + p - SnMod
    BY <2>1, Widths DEF At
  <2>3. (SnMod * (-1) + p) % SnMod = p
    BY Widths, ModUnique
  <2> QED
    BY <1>1, <2>2, <2>3, Widths DEF Pos
<1> QED
  BY <1>2, <1>3, Widths

\* Two SNs at one position are the same.
LEMMA PosInj ==
  ASSUME NEW a \in Sns, NEW b \in Sns
  PROVE  Pos(a) = Pos(b) <=> a = b
  BY PosType

\* An SN and its position.
LEMMA SnPos ==
  ASSUME NEW sn \in Sns
  PROVE  \E q \in Int, x \in 0..(SnMod - 1) : sn - Start = SnMod * q + x /\ x = Pos(sn)
<1>1. PICK z \in Int : z = sn - Start
  BY Widths DEF Sns
<1> QED
  BY <1>1, Widths, Decompose DEF Pos

\* The distance between two SNs, which modulus_tx and modulus_rx compute, is
\* the distance of their positions.
LEMMA Distance ==
  ASSUME NEW a \in Sns, NEW b \in Sns
  PROVE  (a - b) % SnMod = IF Pos(b) <= Pos(a) THEN Pos(a) - Pos(b)
                           ELSE SnMod + Pos(a) - Pos(b)
<1>1. PICK qa \in Int, x \in 0..(SnMod - 1) : a - Start = SnMod * qa + x /\ x = Pos(a)
  BY SnPos
<1>2. PICK qb \in Int, y \in 0..(SnMod - 1) : b - Start = SnMod * qb + y /\ y = Pos(b)
  BY SnPos
<1>3. a \in Int /\ b \in Int /\ a - b = SnMod * (qa - qb) + (x - y)
  <2>1. a - b = (SnMod * qa + x) - (SnMod * qb + y)
    BY <1>1, <1>2, Widths DEF Sns
  <2> QED
    BY <1>1, <1>2, <2>1, Widths DEF Sns
<1>4. CASE y <= x
  <2>1. x - y \in 0..(SnMod - 1)
    BY <1>1, <1>2, <1>4, Widths
  <2>2. (SnMod * (qa - qb) + (x - y)) % SnMod = x - y
    <3>1. PICK z \in Int, w \in 0..(SnMod - 1) : z = qa - qb /\ w = x - y
      BY <2>1
    <3>2. (SnMod * z + w) % SnMod = w
      BY Widths, ModUnique
    <3> QED
      BY <3>1, <3>2
  <2> QED
    BY <1>1, <1>2, <1>3, <1>4, <2>2
<1>5. CASE x < y
  <2>1. SnMod + x - y \in 0..(SnMod - 1)
    BY <1>1, <1>2, <1>5, Widths
  <2>2. (SnMod * (qa - qb - 1) + (SnMod + x - y)) % SnMod = SnMod + x - y
    <3>1. PICK z \in Int, w \in 0..(SnMod - 1) : z = qa - qb - 1 /\ w = SnMod + x - y
      BY <2>1
    <3>2. (SnMod * z + w) % SnMod = w
      BY Widths, ModUnique
    <3> QED
      BY <3>1, <3>2
  <2>3. SnMod * (qa - qb - 1) + (SnMod + x - y) = SnMod * (qa - qb) + (x - y)
    BY <1>1, <1>2, Widths
  <2> QED
    BY <1>1, <1>2, <1>3, <1>5, <2>2, <2>3
<1> QED
  BY <1>1, <1>2, <1>4, <1>5

\* The SN k further on.
LEMMA PlusPos ==
  ASSUME NEW sn \in Sns, NEW k \in Nat, Pos(sn) + k < SnMod
  PROVE  /\ Plus(sn, k) \in Sns
         /\ Pos(Plus(sn, k)) = Pos(sn) + k
         /\ Plus(sn, k) = At(Pos(sn) + k)
<1>1. PICK q \in Int, x \in 0..(SnMod - 1) : sn - Start = SnMod * q + x /\ x = Pos(sn)
  BY SnPos
<1>2. sn + k = (Start + (x + k)) + SnMod * q
  <2>1. sn \in Int /\ Start \in Int /\ SnMod \in Int /\ SnMod * q \in Int
    BY Widths DEF Sns
  <2> QED
    BY <1>1, <2>1
<1>3. ((Start + (x + k)) + SnMod * q) % SnMod = (Start + (x + k)) % SnMod
  <2>1. PICK z \in Int : z = Start + (x + k)
    BY <1>1, Widths
  <2>2. (z + SnMod * q) % SnMod = z % SnMod
    BY Widths, ModShift
  <2> QED
    BY <2>1, <2>2
<1>4. Plus(sn, k) = At(x + k)
  BY <1>2, <1>3 DEF Plus, At
<1>5. x + k \in 0..(SnMod - 1)
  BY <1>1, Widths
<1> QED
  BY <1>1, <1>4, <1>5, AtType

\* The place in the ring of an SN, or of one that is not reduced yet, is that of
\* its position.
LEMMA SlotPlace ==
  ASSUME NEW sn \in Sns, NEW k \in Nat
  PROVE  Slot(sn + k) = Place(Pos(sn) + k)
<1>1. PICK q \in Int, x \in 0..(SnMod - 1) : sn - Start = SnMod * q + x /\ x = Pos(sn)
  BY SnPos
<1>2. sn + k = (Start + (x + k)) + W * (2 * q)
  <2>1. SnMod * q = W * (2 * q)
    BY <1>1, Widths
  <2> QED
    BY <1>1, <2>1, Widths DEF Sns
<1>3. ((Start + (x + k)) + W * (2 * q)) % W = (Start + (x + k)) % W
  <2>1. Start + (x + k) \in Int /\ 2 * q \in Int /\ W \in Nat \ {0}
    BY <1>1, Widths
  <2> HIDE DEF W
  <2> QED
    BY <2>1, ModShift
<1> QED
  BY <1>1, <1>2, <1>3 DEF Slot, Place, W

\* The place of an SN.
LEMMA SlotPos ==
  ASSUME NEW sn \in Sns
  PROVE  Slot(sn) = Place(Pos(sn))
<1>1. Slot(sn + 0) = Place(Pos(sn) + 0)
  BY SlotPlace
<1> QED
  BY <1>1, PosType, Widths DEF Sns

\* A place is one of the ring.
LEMMA PlaceType ==
  ASSUME NEW p \in Nat
  PROVE  Place(p) \in 0..(W - 1)
<1>1. Start + p \in Nat /\ W \in Nat \ {0}
  BY Widths
<1> HIDE DEF W
<1> QED
  BY <1>1 DEF Place

\* Positions less than a window apart have different places.
LEMMA PlaceInj ==
  ASSUME NEW p \in Nat, NEW q \in Nat, p < q, q < p + W
  PROVE  Place(p) # Place(q)
<1>0. Start \in Nat /\ W \in Nat \ {0}
  BY Widths
<1> HIDE DEF W
<1>1. PICK a, b : a \in Int /\ b \in Int /\ Start + p = W * a + Place(p)
                  /\ Start + q = W * b + Place(q)
                  /\ Place(p) \in 0..(W - 1) /\ Place(q) \in 0..(W - 1)
  <2> WITNESS (Start + p) \div W, (Start + q) \div W
  <2> QED
    BY <1>0 DEF Place
<1>2. SUFFICES ASSUME Place(p) = Place(q) PROVE FALSE
  OBVIOUS
<1> DEFINE d == b - a
<1>3. d \in Int /\ q - p = W * d
  BY <1>0, <1>1, <1>2
<1> HIDE DEF d
<1>4. CASE d <= 0
  BY <1>0, <1>3, <1>4
<1>5. CASE d >= 1
  BY <1>0, <1>3, <1>5
<1> QED
  BY <1>3, <1>4, <1>5

\* A window further on the places begin again.
LEMMA PlaceAgain ==
  ASSUME NEW p \in Nat
  PROVE  Place(p + W) = Place(p)
<1>0. Start \in Nat /\ W \in Nat \ {0}
  BY Widths
<1> HIDE DEF W
<1>1. PICK z \in Int : z = Start + p
  BY <1>0
<1>2. (z + W * 1) % W = z % W
  BY <1>0, 1 \in Int, ModShift
<1> QED
  BY <1>0, <1>1, <1>2 DEF Place

\* Every place of the ring is that of a position of the window.
LEMMA PlaceCover ==
  ASSUME NEW p \in Nat, NEW k \in 0..(W - 1)
  PROVE  \E q \in p..(p + W - 1) : k = Place(q)
<1>0. Start \in Nat /\ W \in Nat \ {0}
  BY Widths
<1> HIDE DEF W
<1>1. PICK a : a \in Int /\ Start + p = W * a + Place(p) /\ Place(p) \in 0..(W - 1)
  <2> WITNESS (Start + p) \div W
  <2> QED
    BY <1>0 DEF Place
<1>2. CASE Place(p) <= k
  <2>1. p + (k - Place(p)) \in p..(p + W - 1)
    BY <1>0, <1>1, <1>2
  <2>2. (W * a + k) % W = k
    BY <1>0, <1>1, ModUnique
  <2>3. Start + (p + (k - Place(p))) = W * a + k
    BY <1>0, <1>1
  <2> QED
    BY <2>1, <2>2, <2>3 DEF Place
<1>3. CASE k < Place(p)
  <2>1. p + (W + k - Place(p)) \in p..(p + W - 1)
    BY <1>0, <1>1, <1>3
  <2>2. (W * (a + 1) + k) % W = k
    <3>1. PICK z \in Int : z = a + 1
      BY <1>1
    <3>2. (W * z + k) % W = k
      BY <1>0, ModUnique
    <3> QED
      BY <3>1, <3>2
  <2>3. Start + (p + (W + k - Place(p))) = W * (a + 1) + k
    BY <1>0, <1>1
  <2> QED
    BY <2>1, <2>2, <2>3 DEF Place
<1> QED
  BY <1>0, <1>1, <1>2, <1>3

\* A set of naturals that is not empty has a least element.
LEMMA Least ==
  ASSUME NEW T, T \subseteq Nat, T # {}
  PROVE  \E m \in T : \A k \in T : m <= k
<1> DEFINE R == OpToRel(<, Nat)
<1>1. \A x, y \in Nat : y < x => <<y, x>> \in R
  BY DEF OpToRel
<1>2. IsWellFoundedOn(R, Nat)
  BY NatLessThanWellFounded
<1> HIDE DEF R
<1>3. PICK m \in T : \A y \in T : ~(<<y, m>> \in R)
  BY <1>2, WFMin
<1>4. m \in Nat /\ \A y \in T : y \in Nat
  OBVIOUS
<1>5. \A y \in T : ~(y < m)
  BY <1>1, <1>3, <1>4
<1>6. \A y \in T : m <= y
  BY <1>4, <1>5
<1> QED
  BY <1>6

\* A bounded one has a greatest element.
LEMMA Greatest ==
  ASSUME NEW T, NEW B \in Nat, T \subseteq 0..B, T # {}
  PROVE  \E m \in T : \A k \in T : k <= m
<1> DEFINE U == {B - k : k \in T}
<1>0. \A k \in T : k \in Int /\ B - k \in Nat
  OBVIOUS
<1>1. U \subseteq Nat /\ U # {}
  BY <1>0
<1>2. PICK u \in U : \A v \in U : u <= v
  <2> HIDE DEF U
  <2> QED
    BY <1>1, Least
<1>3. PICK m \in T : u = B - m
  OBVIOUS
<1>4. \A k \in T : B - m <= B - k
  BY <1>2, <1>3
<1>5. \A k \in T : k \in Int /\ m \in Int
  BY <1>0
<1>6. \A k \in T : k <= m
  BY <1>4, <1>5
<1> QED
  BY <1>6

-----------------------------------------------------------------------------
(* The watch on gaps.                                                      *)

\* Storing a PDU leaves t_reassembly running when something is missing.
LEMMA StoreWatched ==
  ASSUME NEW s, Store(s), down' = "no"
  PROVE  GapWatched'
<1> DEFINE stored == rx[Slot(s.sn)].pdus \cup {s}
           full == sdu_full(stored)
           ring == [rx EXCEPT ![Slot(s.sn)] =
                      IF full THEN Done ELSE [pdus |-> stored, done |-> FALSE]]
           run == DeliveredRun(ring, s.sn)
           hi == Highest(s.sn)
           moves == full /\ s.sn = rx_next
           next == IF moves THEN Plus(rx_next, run) ELSE rx_next
           kept == IF moves
                     THEN [k \in DOMAIN ring |->
                             IF \E j \in 0..(run - 1) : k = Slot(rx_next + j)
                               THEN Empty ELSE ring[k]]
                     ELSE ring
<1>1. /\ rx' = kept /\ rx_next' = next /\ rx_next_highest' = hi
      /\ Reassembly(kept, next, hi)
  BY DEF Store
<1> HIDE DEF stored, full, ring, run, hi, moves, next, kept
<1>2. Gap(kept, next, hi, next) => reassembly_timer'
  BY <1>1 DEF Reassembly
<1>3. Gap(rx, rx_next, rx_next_highest, rx_next)' => reassembly_timer'
  BY <1>1, <1>2 DEF Gap, ModRx, Plus, sdu_has_missing_bytes, Slot, window_size, BytesOf, Bytes
<1> QED
  BY <1>3 DEF GapWatched


\* No step leaves a gap without a watch.
LEMMA NextWatched ==
  ASSUME GapWatched, Next
  PROVE  GapWatched'
<1> USE DEF GapWatched
<1>0. SUFFICES ASSUME ~UNCHANGED <<rx, rx_next, rx_next_highest, rx_highest_status,
                                   rx_next_status_trigger, reassembly_timer>>
               PROVE  GapWatched'
  <2>1. CASE UNCHANGED <<rx, rx_next, rx_next_highest, rx_highest_status,
                         rx_next_status_trigger, reassembly_timer>>
    BY <2>1 DEF Next, Gap, ModRx, Plus, sdu_has_missing_bytes, Slot, window_size,
                BytesOf, Bytes
  <2> QED
    BY <2>1
<1>1. ASSUME NEW size \in Sizes, RecvSdu(size)
      PROVE  FALSE
  BY <1>0, <1>1 DEF RecvSdu, rxVars
<1>2. ASSUME GeneratePdu
      PROVE  FALSE
  BY <1>0, <1>2 DEF GeneratePdu, GenerateRetx, GenerateTx, Transmit, rxVars
<1>3. ASSUME GenerateStatus
      PROVE  FALSE
  BY <1>0, <1>3 DEF GenerateStatus
<1>4. ASSUME NEW d \in data, RecvData(d)
      PROVE  GapWatched'
  <2>1. Store(d.seg)
    BY <1>0, <1>4 DEF RecvData
  <2> QED
    BY <2>1, StoreWatched
<1>5. ASSUME NEW d \in data, LoseData(d)
      PROVE  FALSE
  BY <1>0, <1>5 DEF LoseData, rxVars
<1>6. ASSUME NEW r \in reports, RecvStatus(r) \/ LoseStatus(r)
      PROVE  FALSE
  BY <1>0, <1>6 DEF RecvStatus, LoseStatus, rxVars
<1>7. ASSUME ExpirePoll
      PROVE  FALSE
  BY <1>0, <1>7 DEF ExpirePoll, rxVars
<1>8. ASSUME ExpireReassembly
      PROVE  GapWatched'
  <2> DEFINE hs == Plus(rx_next_status_trigger, DeliveredRun(rx, rx_next_status_trigger))
  <2>1. /\ rx' = rx /\ rx_next' = rx_next /\ rx_next_highest' = rx_next_highest
        /\ rx_highest_status' = hs
        /\ reassembly_timer' = Gap(rx, rx_next, rx_next_highest, hs)
    BY <1>8 DEF ExpireReassembly
  <2> HIDE DEF hs
  <2> QED
    BY <2>1 DEF Gap, ModRx, Plus, sdu_has_missing_bytes, Slot, window_size,
                BytesOf, Bytes
<1> QED
  BY <1>1, <1>2, <1>3, <1>4, <1>5, <1>6, <1>7, <1>8 DEF Next

\* Whatever is missing below the highest SN is watched
\* (nr_rlc_entity_am.c:264-286, 1948-1980): GapWatched of the run
\* "nr_rlc_am_live", for every window, bound and way of losing PDUs.
THEOREM GapWatchedCorrect == Spec => []GapWatched
<1>1. Init => GapWatched
  <2> SUFFICES ASSUME Init PROVE ~Gap(rx, rx_next, rx_next_highest, rx_next)
    BY DEF GapWatched
  <2>1. rx_next = Start /\ rx_next_highest = Start /\ Start \in Sns
    BY Widths DEF Init, Sns
  <2>2. Slot(Start) \in 0..(window_size - 1)
    <3>1. Start \in Nat /\ window_size \in Nat \ {0}
      BY Widths DEF W
    <3> QED
      BY <3>1 DEF Slot
  <2>3. rx[Slot(Start)].pdus = {}
    BY <2>2 DEF Init, Empty
  <2>4. ~sdu_has_missing_bytes(rx[Slot(rx_next)])
    BY <2>1, <2>3 DEF sdu_has_missing_bytes
  <2>5. ModRx(Start, Start) = 0
    BY <2>1, Distance, PosType DEF ModRx
  <2>6. Plus(Start, 1) \in Int /\ ModRx(Start, Plus(Start, 1)) \in Nat
    BY Widths DEF ModRx, Plus
  <2> QED
    BY <2>1, <2>4, <2>5, <2>6 DEF Gap
<1>2. GapWatched /\ [Next]_vars => GapWatched'
  <2> SUFFICES ASSUME GapWatched, [Next]_vars PROVE GapWatched'
    OBVIOUS
  <2>1. CASE Next
    BY <2>1, NextWatched
  <2>2. CASE UNCHANGED vars
    BY <2>2 DEF vars, rxVars, GapWatched, Gap, ModRx, Plus, sdu_has_missing_bytes,
                Slot, window_size, BytesOf, Bytes
  <2> QED
    BY <2>1, <2>2
<1> QED
  BY <1>1, <1>2, PTL DEF Spec

-----------------------------------------------------------------------------
(* The invariant.                                                          *)

TA == Pos(tx_next_ack)
TN == Pos(tx_next)
RN == Pos(rx_next)
RH == Pos(rx_next_highest)
RS == Pos(rx_highest_status)
RT == Pos(rx_next_status_trigger)

\* SDUs of which every byte was sent.
TB == IF TailUnsent THEN TN - 1 ELSE TN

NackType == [sn : Sns, from : Nat, to : Nat \cup {End}]

ReportType == [ack : Sns, nacks : SUBSET NackType, good : BOOLEAN]

SlotType == [pdus : SUBSET Segment, done : BOOLEAN]

SenderTypes ==
  /\ sdus \in Seq(Sizes) /\ Len(sdus) <= N
  /\ tx_list \in Seq(Segment)
  /\ wait_list \subseteq Segment /\ retransmit_list \subseteq Segment
  /\ tx_next \in Sns /\ tx_next_ack \in Sns /\ poll_sn \in Sns
  /\ poll_timer \in BOOLEAN /\ force_poll \in BOOLEAN
  /\ acked \subseteq Ids

ReceiverTypes ==
  /\ rx \in [0..(W - 1) -> SlotType]
  /\ rx_next \in Sns /\ rx_next_highest \in Sns /\ rx_highest_status \in Sns
  /\ rx_next_status_trigger \in Sns
  /\ reassembly_timer \in BOOLEAN /\ status_triggered \in BOOLEAN
  /\ delivered \in [Ids -> Nat]

ChannelTypes ==
  /\ \A d \in data : d.seg \in Segment /\ d.p \in BOOLEAN
  /\ reports \subseteq ReportType
  /\ lost \in 0..MaxLoss
  /\ down \in {"no", "poll", "ring"}

Types == SenderTypes /\ ReceiverTypes /\ ChannelTypes

\* The windows of the two sides, as positions.
Order ==
  /\ TA <= RN /\ RN <= RS /\ RS <= RH /\ RH <= TN /\ TN <= TA + W
  /\ TN <= Len(sdus) /\ RS <= TB

\* An SDU of which nothing was sent, as it is queued.
Fresh(i, z) == [id |-> i, sn |-> None, so |-> 0, size |-> z, last |-> TRUE]

\* The rest of the SDU that was sent last.
TailOK(s) ==
  /\ s.id = TN /\ TN >= 1 /\ s.sn = At(TN - 1)
  /\ s.so > 0 /\ s.size > 0 /\ s.so + s.size = sdus[TN] /\ s.last

\* tx_list is the rest of the SDU that was sent last, if there is one, and the
\* SDUs of which nothing was sent.
TxShape ==
  IF TailUnsent
    THEN /\ Len(tx_list) = Len(sdus) - TN + 1
         /\ TailOK(tx_list[1])
         /\ \A k \in 2..Len(tx_list) : tx_list[k] = Fresh(TN + k - 1, sdus[TN + k - 1])
    ELSE /\ Len(tx_list) = Len(sdus) - TN
         /\ \A k \in 1..Len(tx_list) : tx_list[k] = Fresh(TN + k, sdus[TN + k])

\* How many bytes of an SDU were sent.
Sent(i) == IF TailUnsent /\ i = TN THEN tx_list[1].so ELSE sdus[i]

\* A segment that was sent.
GoodSeg(s) ==
  /\ s \in Segment
  /\ s.id \in 1..TN /\ s.sn = At(s.id - 1) /\ s.size >= 1
  /\ s.so + s.size <= Sent(s.id)
  /\ s.last <=> s.so + s.size = sdus[s.id]

Held == wait_list \cup retransmit_list

\* The receiver has a byte of an SDU.
Has(i, b) ==
  \/ delivered[i] > 0
  \/ \E k \in DOMAIN rx : \E s \in rx[k].pdus : s.id = i /\ b \in Bytes(s)

\* What the sender holds of the SDUs it sent.
HeldOK ==
  /\ \A s \in Held : GoodSeg(s) /\ TA < s.id
  /\ wait_list \cap retransmit_list = {}
  /\ \A s, t \in Held : s.id = t.id => s = t \/ Bytes(s) \cap Bytes(t) = {}

DataOK == \A d \in data : GoodSeg(d.seg)

\* A byte that was sent is held or was received.
NoneForgotten ==
  \A i \in 1..TN : \A b \in 0..(Sent(i) - 1) :
    Has(i, b) \/ \E s \in Held : s.id = i /\ b \in Bytes(s)

AckedOK == \A i \in acked : delivered[i] > 0

\* The place of a position of the receiver's window.
SlotOK(p) ==
  /\ rx[Place(p)].done =>
       rx[Place(p)].pdus = {} /\ p < RH /\ p < N /\ delivered[p + 1] = 1
  /\ ~rx[Place(p)].done /\ p < N => delivered[p + 1] = 0
  /\ p >= RH => rx[Place(p)].pdus = {}
  /\ \A s \in rx[Place(p)].pdus : GoodSeg(s) /\ s.id = p + 1
  /\ ~sdu_full(rx[Place(p)].pdus)

RingOK ==
  /\ \A p \in Nat : p < RN => delivered[p + 1] = 1
  /\ \A p \in Nat : RN <= p /\ p < RN + W => SlotOK(p)
  /\ \A p \in Nat : RN + W <= p /\ p < N => delivered[p + 1] = 0

HeadsOK == down = "no" => ~rx[Place(RN)].done /\ ~rx[Place(RS)].done

TimerOK == reassembly_timer => RN < RT /\ RT <= RH

TailNew == TailUnsent => delivered[TN] = 0

\* A report asks for a byte again.
Covered(r, i, b) ==
  \E n \in r.nacks : n.sn = At(i - 1) /\ n.from <= b /\ (n.to = End \/ b <= n.to)

\* A report acknowledges no byte the receiver does not have, and no SDU that is
\* not all sent.
RepOK(r) ==
  r.good =>
    /\ Pos(r.ack) <= TB
    /\ \A i \in 1..Pos(r.ack) : \A b \in 0..(sdus[i] - 1) : Has(i, b) \/ Covered(r, i, b)

RepsOK == \A r \in reports : RepOK(r)

SenderOK == TxShape /\ HeldOK /\ DataOK /\ NoneForgotten /\ AckedOK /\ TailNew

IInv == Types /\ Order /\ SenderOK /\ RingOK /\ HeadsOK /\ TimerOK /\ RepsOK

\* The positions of the variables.
LEMMA Positions ==
  ASSUME Types
  PROVE  /\ TA \in 0..(SnMod - 1) /\ TN \in 0..(SnMod - 1) /\ RN \in 0..(SnMod - 1)
         /\ RH \in 0..(SnMod - 1) /\ RS \in 0..(SnMod - 1) /\ RT \in 0..(SnMod - 1)
  BY PosType DEF Types, SenderTypes, ReceiverTypes, TA, TN, RN, RH, RS, RT

\* tx_list begins with the rest of an SDU.
LEMMA TailFirst ==
  ASSUME tx_list \in Seq(Segment)
  PROVE  TailUnsent <=> Len(tx_list) >= 1 /\ tx_list[1].sn # None
<1>1. Len(tx_list) \in Nat /\ (tx_list = <<>> <=> Len(tx_list) = 0)
  OBVIOUS
<1>2. tx_list # <<>> => Head(tx_list) = tx_list[1]
  OBVIOUS
<1> QED
  BY <1>1, <1>2 DEF TailUnsent

\* The distance of an SN from the start of the sender's window.
LEMMA ModTx ==
  ASSUME NEW a \in Sns, tx_next_ack \in Sns
  PROVE  modulus_tx(a) = IF TA <= Pos(a) THEN Pos(a) - TA ELSE SnMod + Pos(a) - TA
  BY Distance DEF modulus_tx, TA

\* The first state.
LEMMA InitOK ==
  ASSUME Init
  PROVE  IInv
<1> USE DEF Init
<1>0. Start \in Sns /\ Pos(Start) = 0
  <2>1. Start \in Sns
    BY Widths DEF Sns
  <2>2. (SnMod * 0 + 0) % SnMod = 0
    BY Widths, ModUnique
  <2> QED
    BY <2>1, <2>2, Widths DEF Pos
<1>1. Types
  <2>1. SenderTypes
    <3>1. poll_sn \in Sns
      BY Widths DEF Sns
    <3>2. sdus \in Seq(Sizes) /\ tx_list \in Seq(Segment) /\ Len(sdus) = 0
      OBVIOUS
    <3>3. tx_next \in Sns /\ tx_next_ack \in Sns /\ Len(sdus) <= N
      BY <1>0, <3>2, Widths
    <3>4. wait_list \subseteq Segment /\ retransmit_list \subseteq Segment /\ acked \subseteq Ids
      OBVIOUS
    <3>5. poll_timer \in BOOLEAN /\ force_poll \in BOOLEAN
      OBVIOUS
    <3> HIDE DEF Init
    <3> QED
      BY <3>1, <3>2, <3>3, <3>4, <3>5 DEF SenderTypes
  <2>2. ReceiverTypes
    <3>1. Empty \in SlotType
      BY DEF Empty, SlotType
    <3> QED
      BY <1>0, <3>1 DEF ReceiverTypes, W
  <2>3. ChannelTypes
    BY RlcAssumption DEF ChannelTypes
  <2> QED
    BY <2>1, <2>2, <2>3 DEF Types
<1>2. /\ TA = 0 /\ TN = 0 /\ RN = 0 /\ RH = 0 /\ RS = 0 /\ ~TailUnsent /\ TB = 0
      /\ Len(sdus) = 0 /\ Len(tx_list) = 0
  BY <1>0 DEF TA, TN, RN, RH, RS, TB, TailUnsent
<1>3. Order
  BY <1>2, Widths DEF Order
<1>4. SenderOK
  BY <1>2 DEF SenderOK, TxShape, HeldOK, DataOK, NoneForgotten, AckedOK, TailNew, Held
<1>5. \A p \in Nat : rx[Place(p)].pdus = {} /\ rx[Place(p)].done = FALSE
  BY PlaceType DEF Empty, W
<1>6. RingOK
  <2>1. ~sdu_full({})
    BY DEF sdu_full
  <2>2. ASSUME NEW p \in Nat PROVE SlotOK(p)
    <3>1. p < N => p + 1 \in Ids
      BY Widths DEF Ids
    <3> QED
      BY <1>2, <1>5, <2>1, <3>1 DEF SlotOK
  <2>3. \A p \in Nat : p < N => p + 1 \in Ids
    BY Widths DEF Ids
  <2> QED
    BY <1>2, <2>2, <2>3, Widths DEF RingOK
<1>7. HeadsOK
  BY <1>2, <1>5 DEF HeadsOK
<1> QED
  BY <1>1, <1>3, <1>4, <1>6, <1>7 DEF IInv, TimerOK, RepsOK

-----------------------------------------------------------------------------
(* What a step of one side leaves alone.                                   *)

\* The sender sends more and forgets no size.
Grows ==
  /\ TN \in Nat /\ TN' \in Nat /\ TN <= TN' /\ TB <= TB'
  /\ TB \in Int /\ TB' \in Int
  /\ \A i \in 1..TN : sdus'[i] = sdus[i] /\ Sent(i) \in Nat /\ Sent(i)' \in Nat
                      /\ Sent(i) <= Sent(i)'

\* A segment that was sent stays one.
LEMMA GoodStays ==
  ASSUME Grows, NEW s, GoodSeg(s)
  PROVE  GoodSeg(s)'
<1>1. /\ s \in Segment /\ s.id \in 1..TN /\ s.sn = At(s.id - 1) /\ s.size >= 1
      /\ s.so + s.size <= Sent(s.id) /\ (s.last <=> s.so + s.size = sdus[s.id])
  BY DEF GoodSeg
<1>2. s.id \in 1..TN' /\ Sent(s.id) <= Sent(s.id)' /\ sdus'[s.id] = sdus[s.id]
      /\ Sent(s.id) \in Nat /\ Sent(s.id)' \in Nat
  BY <1>1 DEF Grows
<1>3. s.so \in Nat /\ s.size \in Nat
  BY <1>1 DEF Segment
<1>4. s.so + s.size <= Sent(s.id)'
  BY <1>1, <1>2, <1>3
<1> QED
  BY <1>1, <1>2, <1>4 DEF GoodSeg, At

\* The receiver's part when only the sender takes a step.
LEMMA ReceiverKept ==
  ASSUME Grows, UNCHANGED rxVars, reports' \subseteq reports,
         down' = "no" => down = "no",
         RingOK, HeadsOK, TimerOK, RepsOK, Types
  PROVE  RingOK' /\ HeadsOK' /\ TimerOK' /\ RepsOK'
<1> USE DEF rxVars
<1>1. RN' = RN /\ RH' = RH /\ RS' = RS /\ RT' = RT
  BY DEF RN, RH, RS, RT, Pos
<1>2. \A p \in Nat : SlotOK(p) => SlotOK(p)'
  <2> SUFFICES ASSUME NEW p \in Nat, SlotOK(p) PROVE SlotOK(p)'
    OBVIOUS
  <2>1. \A s \in rx[Place(p)].pdus : GoodSeg(s)'
    BY GoodStays DEF SlotOK
  <2> QED
    BY <1>1, <2>1 DEF SlotOK, sdu_full, BytesOf, Bytes, Place, W, window_size
<1>3. RingOK'
  BY <1>1, <1>2 DEF RingOK, W, window_size
<1>4. HeadsOK'
  BY <1>1 DEF HeadsOK, Place, W, window_size
<1>5. TimerOK'
  BY <1>1 DEF TimerOK
<1>6. RepsOK'
  <2> SUFFICES ASSUME NEW r \in reports, r.good PROVE RepOK(r)'
    BY DEF RepsOK, RepOK
  <2>1. RepOK(r) /\ Pos(r.ack) <= TB
    BY DEF RepsOK, RepOK
  <2>2. r.ack \in Sns
    BY DEF Types, ChannelTypes, ReportType
  <2>3. PICK a \in Nat : a = Pos(r.ack) /\ a <= TB
    BY <2>1, <2>2, PosType
  <2>4. Pos(r.ack)' = Pos(r.ack)
    BY DEF Pos
  <2>5. a <= TB' /\ \A i \in 1..a : i \in 1..TN
    <3>1. a <= TB'
      BY <2>3 DEF Grows
    <3>2. TB <= TN
      BY DEF Grows, TB
    <3>3. \A i \in 1..a : i \in 1..TN
      BY <2>3, <3>2 DEF Grows
    <3> QED
      BY <3>1, <3>3
  <2>6. \A i \in 1..a : sdus'[i] = sdus[i]
    BY <2>5 DEF Grows
  <2>7. \A i \in 1..a : \A b \in 0..(sdus[i] - 1) : Has(i, b) \/ Covered(r, i, b)
    BY <2>1, <2>3 DEF RepOK
  <2>8. \A i, b : (Has(i, b) \/ Covered(r, i, b)) => (Has(i, b)' \/ Covered(r, i, b)')
    BY DEF Has, Covered, Bytes, At
  <2> QED
    BY <2>3, <2>4, <2>5, <2>6, <2>7, <2>8 DEF RepOK
<1> QED
  BY <1>3, <1>4, <1>5, <1>6

-----------------------------------------------------------------------------
(* The sender takes an SDU.                                                *)

\* The same after a step.
LEMMA TailFirstNext ==
  ASSUME tx_list' \in Seq(Segment)
  PROVE  TailUnsent' <=> Len(tx_list') >= 1 /\ tx_list'[1].sn # None
<1>1. Len(tx_list') \in Nat /\ (tx_list' = <<>> <=> Len(tx_list') = 0)
  OBVIOUS
<1>2. tx_list' # <<>> => Head(tx_list') = tx_list'[1]
  OBVIOUS
<1> QED
  BY <1>1, <1>2 DEF TailUnsent

\* Sizes of SDUs, in all and sent.
LEMMA SentSizes ==
  ASSUME Types, Order, TxShape
  PROVE  /\ \A i \in 1..Len(sdus) : sdus[i] \in Nat /\ sdus[i] >= 1 /\ i \in Ids
         /\ TN <= Len(sdus) /\ Len(sdus) \in Nat /\ TN \in Nat /\ TB \in Nat /\ TB <= TN
         /\ \A i \in 1..TN : Sent(i) \in Nat /\ Sent(i) >= 1 /\ Sent(i) <= sdus[i]
         /\ \A i \in 1..TB : Sent(i) = sdus[i]
         /\ TailUnsent => TN >= 1 /\ TB = TN - 1 /\ Sent(TN) < sdus[TN]
         /\ ~TailUnsent => TB = TN
<1>1. \A i \in 1..Len(sdus) : sdus[i] \in Nat /\ sdus[i] >= 1 /\ i \in Ids
  <2>0. \A z \in Sizes : z \in Nat /\ z >= 1
    BY RlcAssumption
  <2> SUFFICES ASSUME NEW i \in 1..Len(sdus) PROVE sdus[i] \in Sizes /\ i \in Ids
    BY <2>0
  <2>1. sdus \in Seq(Sizes) /\ Len(sdus) <= N /\ N \in Nat
    BY Widths DEF Types, SenderTypes
  <2> QED
    BY <2>1 DEF Ids
<1>2. TN <= Len(sdus) /\ Len(sdus) \in Nat /\ TN \in Nat
  BY Positions, Widths DEF Order, Types, SenderTypes
<1>3. CASE TailUnsent
  <2>1. TailOK(tx_list[1])
    BY <1>3 DEF TxShape
  <2>2. tx_list \in Seq(Segment)
    BY DEF Types, SenderTypes
  <2>3. tx_list[1] \in Segment
    BY <1>3, <2>2, TailFirst
  <2>4. tx_list[1].so \in Nat /\ tx_list[1].size \in Nat
    BY <2>3 DEF Segment
  <2>5. TN >= 1 /\ tx_list[1].so > 0 /\ tx_list[1].size > 0
        /\ tx_list[1].so + tx_list[1].size = sdus[TN]
    BY <2>1 DEF TailOK
  <2>6. Sent(TN) = tx_list[1].so /\ \A i \in 1..TN : i # TN => Sent(i) = sdus[i]
    BY <1>3 DEF Sent
  <2>7. sdus[TN] \in Nat /\ \A i \in 1..TN : i \in 1..Len(sdus)
    BY <1>1, <1>2, <2>5
  <2>8. Sent(TN) \in Nat /\ Sent(TN) >= 1 /\ Sent(TN) < sdus[TN]
    BY <2>4, <2>5, <2>6, <2>7
  <2>9. \A i \in 1..TN : Sent(i) \in Nat /\ Sent(i) >= 1 /\ Sent(i) <= sdus[i]
    BY <1>1, <2>6, <2>7, <2>8
  <2>10. TB = TN - 1
    BY <1>3 DEF TB
  <2>11. \A i \in 1..TB : i \in 1..TN /\ i # TN
    BY <1>2, <2>5, <2>10
  <2> QED
    BY <1>1, <1>2, <1>3, <2>5, <2>6, <2>8, <2>9, <2>10, <2>11
<1>4. CASE ~TailUnsent
  <2>1. \A i : Sent(i) = sdus[i]
    BY <1>4 DEF Sent
  <2>2. TB = TN
    BY <1>4 DEF TB
  <2>3. \A i \in 1..TN : i \in 1..Len(sdus)
    BY <1>2
  <2> QED
    BY <1>1, <1>2, <1>4, <2>1, <2>2, <2>3
<1> QED
  BY <1>3, <1>4

\* What the sender holds is not touched by a step that only lets it grow.
LEMMA HeldKept ==
  ASSUME Grows, HeldOK, UNCHANGED <<wait_list, retransmit_list, tx_next_ack>>
  PROVE  HeldOK'
<1>1. TA' = TA /\ Held' = Held
  BY DEF TA, Held, Pos
<1>2. \A s \in Held : GoodSeg(s)'
  BY GoodStays DEF HeldOK
<1> QED
  BY <1>1, <1>2 DEF HeldOK, Bytes

\* rlc_recv_sdu: the SDU is queued.
LEMMA RecvSduOK ==
  ASSUME IInv, NEW size \in Sizes, RecvSdu(size), down = "no"
  PROVE  IInv'
<1> DEFINE new == [id |-> Len(sdus) + 1, sn |-> None, so |-> 0, size |-> size, last |-> TRUE]
<1>0. /\ Types /\ Order /\ TxShape /\ HeldOK /\ DataOK /\ NoneForgotten /\ AckedOK
      /\ TailNew /\ RingOK /\ HeadsOK /\ TimerOK /\ RepsOK
  BY DEF IInv, SenderOK
<1>1. /\ Len(sdus) < N /\ sdus' = Append(sdus, size) /\ tx_list' = Append(tx_list, new)
      /\ UNCHANGED <<wait_list, retransmit_list, tx_next, tx_next_ack, poll_sn,
                     poll_timer, force_poll, acked>>
      /\ UNCHANGED rxVars /\ UNCHANGED <<data, reports, lost, down>>
  BY DEF RecvSdu
<1>2. /\ sdus \in Seq(Sizes) /\ tx_list \in Seq(Segment)
      /\ Len(sdus) \in Nat /\ Len(tx_list) \in Nat
  BY <1>0 DEF Types, SenderTypes
<1>3. new \in Segment
  BY <1>1, <1>2, Widths, RlcAssumption DEF Segment, Ids
<1>4. /\ sdus' \in Seq(Sizes) /\ Len(sdus') = Len(sdus) + 1
      /\ \A i \in 1..Len(sdus) : sdus'[i] = sdus[i]
      /\ sdus'[Len(sdus) + 1] = size
  BY <1>1, <1>2
<1> HIDE DEF new
<1>5. /\ tx_list' \in Seq(Segment) /\ Len(tx_list') = Len(tx_list) + 1
      /\ \A i \in 1..Len(tx_list) : tx_list'[i] = tx_list[i]
      /\ tx_list'[Len(tx_list) + 1] = new
  BY <1>1, <1>2, <1>3
<1>6. new.sn = None /\ new.so = 0 /\ new.id = Len(sdus) + 1
  BY DEF new
<1>7. TailUnsent' <=> TailUnsent
  BY <1>2, <1>5, <1>6, TailFirst, TailFirstNext
<1>8. TailUnsent => tx_list'[1] = tx_list[1]
  BY <1>2, <1>5, TailFirst
<1>9. TN' = TN /\ TA' = TA /\ TB' = TB /\ RN' = RN /\ RH' = RH /\ RS' = RS
  BY <1>1, <1>7 DEF TN, TA, TB, RN, RH, RS, Pos, rxVars
<1>10. /\ TN \in Nat /\ TB \in Nat /\ TN <= Len(sdus)
       /\ \A i \in 1..TN : Sent(i) \in Nat
  BY <1>0, SentSizes
<1>11. \A i \in 1..TN : sdus'[i] = sdus[i] /\ Sent(i)' = Sent(i)
  <2> SUFFICES ASSUME NEW i \in 1..TN PROVE sdus'[i] = sdus[i] /\ Sent(i)' = Sent(i)
    OBVIOUS
  <2>1. sdus'[i] = sdus[i]
    BY <1>2, <1>4, <1>10
  <2> QED
    BY <1>7, <1>8, <1>9, <2>1 DEF Sent
<1>12. Grows
  BY <1>9, <1>10, <1>11 DEF Grows
<1>13. RingOK' /\ HeadsOK' /\ TimerOK' /\ RepsOK'
  BY <1>0, <1>1, <1>12, ReceiverKept
<1>14. HeldOK'
  BY <1>0, <1>1, <1>12, HeldKept
<1>15. DataOK'
  BY <1>0, <1>1, <1>12, GoodStays DEF DataOK
<1>16. NoneForgotten'
  <2>1. Held' = Held
    BY <1>1 DEF Held
  <2>2. \A i, b : Has(i, b)' <=> Has(i, b)
    BY <1>1 DEF Has, rxVars, Bytes
  <2> QED
    BY <1>0, <1>9, <1>11, <2>1, <2>2 DEF NoneForgotten, Bytes
<1>17. AckedOK'
  BY <1>0, <1>1 DEF AckedOK, rxVars
<1>18. TailNew'
  BY <1>0, <1>1, <1>7, <1>9 DEF TailNew, rxVars
<1>19. Types'
  <2>1. Len(sdus') <= N
    BY <1>1, <1>2, <1>4, Widths
  <2>2. SenderTypes'
    BY <1>0, <1>1, <1>4, <1>5, <2>1 DEF SenderTypes, Types
  <2>3. ReceiverTypes' /\ ChannelTypes'
    BY <1>0, <1>1 DEF Types, ReceiverTypes, ChannelTypes, rxVars, W, window_size
  <2> QED
    BY <2>2, <2>3 DEF Types
<1>20. Order'
  <2>1. Len(sdus) <= Len(sdus')
    BY <1>2, <1>4
  <2>2. TN <= Len(sdus')
    BY <1>2, <1>4, <1>10
  <2> QED
    BY <1>0, <1>9, <2>2 DEF Order, W, window_size
<1>21. TxShape'
  <2>1. new = Fresh(Len(sdus) + 1, sdus'[Len(sdus) + 1])
    BY <1>4 DEF new, Fresh
  <2>3. CASE TailUnsent
    <3>1. /\ Len(tx_list) = Len(sdus) - TN + 1
          /\ TailOK(tx_list[1])
          /\ \A k \in 2..Len(tx_list) : tx_list[k] = Fresh(TN + k - 1, sdus[TN + k - 1])
      BY <1>0, <2>3 DEF TxShape
    <3>2. Len(tx_list') = Len(sdus') - TN + 1
      BY <1>2, <1>4, <1>5, <1>10, <3>1
    <3>3. TailOK(tx_list[1])'
      <4>1. TN >= 1 /\ sdus'[TN] = sdus[TN]
        BY <1>10, <1>11, <3>1 DEF TailOK
      <4> QED
        BY <1>8, <1>9, <2>3, <3>1, <4>1 DEF TailOK, At
    <3>4. ASSUME NEW k \in 2..Len(tx_list') PROVE tx_list'[k] = Fresh(TN + k - 1, sdus'[TN + k - 1])
      <4>1. CASE k <= Len(tx_list)
        <5>1. k \in 2..Len(tx_list) /\ k \in 1..Len(tx_list) /\ TN + k - 1 \in 1..Len(sdus)
          BY <1>2, <1>5, <1>10, <3>1, <4>1
        <5> QED
          BY <1>4, <1>5, <3>1, <5>1
      <4>2. CASE k = Len(tx_list) + 1
        <5>1. TN + k - 1 = Len(sdus) + 1
          BY <1>2, <1>10, <3>1, <4>2
        <5> QED
          BY <1>5, <2>1, <4>2, <5>1
      <4> QED
        BY <1>2, <1>5, <4>1, <4>2
    <3>5. \A k \in 2..Len(tx_list') : tx_list'[k] = Fresh(TN' + k - 1, sdus'[TN' + k - 1])
      BY <1>9, <3>4
    <3> QED
      BY <1>7, <1>9, <2>3, <3>2, <3>3, <3>5 DEF TxShape, Fresh
  <2>4. CASE ~TailUnsent
    <3>1. /\ Len(tx_list) = Len(sdus) - TN
          /\ \A k \in 1..Len(tx_list) : tx_list[k] = Fresh(TN + k, sdus[TN + k])
      BY <1>0, <2>4 DEF TxShape
    <3>2. Len(tx_list') = Len(sdus') - TN
      BY <1>2, <1>4, <1>5, <1>10, <3>1
    <3>4. ASSUME NEW k \in 1..Len(tx_list') PROVE tx_list'[k] = Fresh(TN + k, sdus'[TN + k])
      <4>1. CASE k <= Len(tx_list)
        <5>1. k \in 1..Len(tx_list) /\ TN + k \in 1..Len(sdus)
          BY <1>2, <1>5, <1>10, <3>1, <4>1
        <5> QED
          BY <1>4, <1>5, <3>1, <5>1
      <4>2. CASE k = Len(tx_list) + 1
        <5>1. TN + k = Len(sdus) + 1
          BY <1>2, <1>10, <3>1, <4>2
        <5> QED
          BY <1>5, <2>1, <4>2, <5>1
      <4> QED
        BY <1>2, <1>5, <4>1, <4>2
    <3>5. \A k \in 1..Len(tx_list') : tx_list'[k] = Fresh(TN' + k, sdus'[TN' + k])
      BY <1>9, <3>4
    <3> QED
      BY <1>7, <1>9, <2>4, <3>2, <3>5 DEF TxShape, Fresh
  <2> QED
    BY <2>3, <2>4
<1> QED
  BY <1>13, <1>14, <1>15, <1>16, <1>17, <1>18, <1>19, <1>20, <1>21 DEF IInv, SenderOK

-----------------------------------------------------------------------------
(* The sender sends.                                                       *)

\* A step that leaves the queue alone.
LEMMA QueueKept ==
  ASSUME Types, Order, TxShape, UNCHANGED <<sdus, tx_list, tx_next>>
  PROVE  /\ Grows /\ TxShape' /\ TN' = TN /\ TB' = TB /\ (TailUnsent' <=> TailUnsent)
         /\ \A i : Sent(i)' = Sent(i)
         /\ \A s : GoodSeg(s)' <=> GoodSeg(s)
<1>1. TN' = TN /\ (TailUnsent' <=> TailUnsent)
  BY DEF TN, Pos, TailUnsent
<1>2. TB' = TB
  BY <1>1 DEF TB
<1>3. \A i : Sent(i)' = Sent(i)
  BY <1>1 DEF Sent
<1>4. Grows
  BY <1>1, <1>2, <1>3, SentSizes DEF Grows
<1>5. TxShape'
  BY <1>1 DEF TxShape, TailOK, At, Fresh
<1>6. \A s : GoodSeg(s)' <=> GoodSeg(s)
  BY <1>1, <1>3 DEF GoodSeg, At
<1> QED
  BY <1>1, <1>2, <1>3, <1>4, <1>5, <1>6

\* The first segment of a list is one of its segments.
LEMMA FirstIn ==
  ASSUME NEW S, S \subseteq Segment, \A s \in S : s.sn \in Sns, S # {}, tx_next_ack \in Sns
  PROVE  First(S) \in S
<1> DEFINE m(s) == modulus_tx(s.sn)
           T1 == {m(s) : s \in S}
<1>1. \A s \in S : m(s) \in Nat
  <2> SUFFICES ASSUME NEW s \in S PROVE modulus_tx(s.sn) \in Nat
    OBVIOUS
  <2>1. s.sn \in Sns
    OBVIOUS
  <2> QED
    BY <2>1, ModTx, PosType, Widths DEF TA
<1>2. \A s, t \in S : m(s) = m(t) => s.sn = t.sn
  <2> SUFFICES ASSUME NEW s \in S, NEW t \in S, modulus_tx(s.sn) = modulus_tx(t.sn)
               PROVE  s.sn = t.sn
    OBVIOUS
  <2>1. s.sn \in Sns /\ t.sn \in Sns
    OBVIOUS
  <2>2. PICK a \in 0..(SnMod - 1), b \in 0..(SnMod - 1), c \in 0..(SnMod - 1) :
          a = Pos(s.sn) /\ b = Pos(t.sn) /\ c = TA
    BY <2>1, PosType DEF TA
  <2>3. modulus_tx(s.sn) = IF c <= a THEN a - c ELSE SnMod + a - c
    BY <2>1, <2>2, ModTx
  <2>4. modulus_tx(t.sn) = IF c <= b THEN b - c ELSE SnMod + b - c
    BY <2>1, <2>2, ModTx
  <2>5. a = b
    <3>1. a \in Int /\ b \in Int /\ c \in Int /\ SnMod \in Int
          /\ 0 <= a /\ 0 <= b /\ 0 <= c /\ a < SnMod /\ b < SnMod /\ c < SnMod
      BY Widths
    <3>2. (IF c <= a THEN a - c ELSE SnMod + a - c) = (IF c <= b THEN b - c ELSE SnMod + b - c)
      BY <2>3, <2>4
    <3> QED
      BY <3>1, <3>2
  <2> QED
    BY <2>1, <2>2, <2>5, PosInj
<1>3. T1 \subseteq Nat /\ T1 # {}
  BY <1>1
<1>4. PICK m1 \in T1 : \A k \in T1 : m1 <= k
  <2> HIDE DEF T1
  <2> QED
    BY <1>3, Least
<1> DEFINE S1 == {s \in S : m(s) = m1}
           T2 == {s.so : s \in S1}
<1>5. \A s \in S : s.so \in Nat
  BY DEF Segment
<1>6. T2 \subseteq Nat /\ T2 # {}
  BY <1>5
<1>7. PICK m2 \in T2 : \A k \in T2 : m2 <= k
  <2> HIDE DEF T2
  <2> QED
    BY <1>6, Least
<1>8. PICK s \in S1 : s.so = m2
  OBVIOUS
<1>9. \A t \in S : m(s) < m(t) \/ (s.sn = t.sn /\ s.so <= t.so)
  <2> SUFFICES ASSUME NEW t \in S PROVE m(s) < m(t) \/ (s.sn = t.sn /\ s.so <= t.so)
    OBVIOUS
  <2>1. s \in S /\ m(s) = m1 /\ m1 <= m(t) /\ m(s) \in Nat /\ m(t) \in Nat
    BY <1>1, <1>4
  <2>2. CASE m(t) = m1
    <3>1. t \in S1 /\ s.sn = t.sn
      BY <1>2, <2>1, <2>2
    <3>2. t.so \in T2
      BY <3>1
    <3> QED
      BY <1>7, <1>8, <3>1, <3>2
  <2>3. CASE m(t) # m1
    BY <2>1, <2>3
  <2> QED
    BY <2>2, <2>3
<1>10. \E x \in S : \A t \in S :
          modulus_tx(x.sn) < modulus_tx(t.sn) \/ (x.sn = t.sn /\ x.so <= t.so)
  BY <1>8, <1>9
<1> QED
  BY <1>10 DEF First

\* Both parts of a segment that is cut are segments that were sent.
LEMMA Cut ==
  ASSUME NEW s, GoodSeg(s), NEW g \in Nat, 1 <= g, g <= s.size,
         Sent(s.id) \in Nat, sdus[s.id] \in Nat, Sent(s.id) <= sdus[s.id]
  PROVE  /\ GoodSeg(Front(s, g)) /\ Front(s, g).id = s.id
         /\ g < s.size => GoodSeg(Rest(s, g)) /\ Rest(s, g).id = s.id
<1>1. /\ s \in Segment /\ s.id \in 1..TN /\ s.sn = At(s.id - 1) /\ s.size >= 1
      /\ s.so + s.size <= Sent(s.id) /\ (s.last <=> s.so + s.size = sdus[s.id])
  BY DEF GoodSeg
<1>2. s.so \in Nat /\ s.size \in Nat /\ s.last \in BOOLEAN
  BY <1>1 DEF Segment
<1>3. /\ Front(s, g) \in Segment /\ Front(s, g).id = s.id /\ Front(s, g).sn = s.sn
      /\ Front(s, g).so = s.so /\ Front(s, g).size = g
      /\ Front(s, g).last = (s.last /\ g = s.size)
  BY <1>1, <1>2 DEF Front, Segment
<1>4. GoodSeg(Front(s, g))
  <2>1. s.so + g <= Sent(s.id)
    BY <1>1, <1>2
  <2>2. (s.last /\ g = s.size) <=> s.so + g = sdus[s.id]
    BY <1>1, <1>2
  <2> QED
    BY <1>1, <1>3, <2>1, <2>2 DEF GoodSeg
<1>5. ASSUME g < s.size PROVE GoodSeg(Rest(s, g)) /\ Rest(s, g).id = s.id
  <2>1. s.so + g \in Nat /\ s.size - g \in Nat /\ s.size - g >= 1
    BY <1>2, <1>5
  <2>2. /\ Rest(s, g) \in Segment /\ Rest(s, g).id = s.id /\ Rest(s, g).sn = s.sn
        /\ Rest(s, g).so = s.so + g /\ Rest(s, g).size = s.size - g
        /\ Rest(s, g).last = s.last
    BY <1>1, <2>1 DEF Rest, Segment
  <2>3. (s.so + g) + (s.size - g) = s.so + s.size
    BY <1>2
  <2> QED
    BY <1>1, <2>1, <2>2, <2>3 DEF GoodSeg
<1> QED
  BY <1>3, <1>4, <1>5

\* The bytes of a segment that is cut are those of its parts.
LEMMA CutBytes ==
  ASSUME NEW s \in Segment, NEW g \in Nat, 1 <= g, g <= s.size
  PROVE  /\ Bytes(Front(s, g)) \subseteq Bytes(s)
         /\ g = s.size => Bytes(Front(s, g)) = Bytes(s)
         /\ g < s.size => /\ Bytes(Rest(s, g)) \subseteq Bytes(s)
                          /\ Bytes(s) \subseteq Bytes(Front(s, g)) \cup Bytes(Rest(s, g))
                          /\ Bytes(Front(s, g)) \cap Bytes(Rest(s, g)) = {}
<1>1. s.so \in Nat /\ s.size \in Nat
  BY DEF Segment
<1>2. Front(s, g).so = s.so /\ Front(s, g).size = g
  BY DEF Front, Segment
<1>3. Rest(s, g).so = s.so + g /\ Rest(s, g).size = s.size - g
  BY DEF Rest, Segment
<1>4. Bytes(s) = s.so .. (s.so + s.size - 1) /\ Bytes(Front(s, g)) = s.so .. (s.so + g - 1)
      /\ Bytes(Rest(s, g)) = (s.so + g) .. (s.so + g + (s.size - g) - 1)
  BY <1>2, <1>3 DEF Bytes
<1>5. PICK x \in Nat, z \in Nat : x = s.so /\ z = s.size
  BY <1>1
<1>6. /\ x .. (x + g - 1) \subseteq x .. (x + z - 1)
      /\ g = z => x .. (x + g - 1) = x .. (x + z - 1)
  BY <1>5
<1>7. ASSUME g < z
      PROVE  /\ (x + g) .. (x + g + (z - g) - 1) \subseteq x .. (x + z - 1)
             /\ x .. (x + z - 1) \subseteq (x .. (x + g - 1)) \cup ((x + g) .. (x + g + (z - g) - 1))
             /\ (x .. (x + g - 1)) \cap ((x + g) .. (x + g + (z - g) - 1)) = {}
  BY <1>7
<1> QED
  BY <1>4, <1>5, <1>6, <1>7

\* A segment that was sent has a first byte.
LEMMA HasByte ==
  ASSUME NEW s \in Segment, s.size >= 1
  PROVE  s.so \in Bytes(s)
  BY DEF Segment, Bytes

\* What a transmission does to all but the lists of the sender.
LEMMA TransmitRest ==
  ASSUME IInv, NEW s, NEW tx, NEW retx, NEW next, NEW due,
         Transmit(s, tx, retx, next, due), Grows,
         tx \in Seq(Segment), retx \subseteq Segment, next \in Sns, GoodSeg(s)'
  PROVE  /\ Types' /\ RingOK' /\ HeadsOK' /\ TimerOK' /\ RepsOK' /\ AckedOK' /\ DataOK'
         /\ TA' = TA /\ RN' = RN /\ RS' = RS /\ RH' = RH
         /\ \A i, b : Has(i, b)' <=> Has(i, b)
<1> DEFINE p == due \/ force_poll \/ check_poll_after_pdu_assembly(tx, retx, next)
<1>0. /\ Types /\ Order /\ HeldOK /\ DataOK /\ AckedOK
      /\ RingOK /\ HeadsOK /\ TimerOK /\ RepsOK
  BY DEF IInv, SenderOK
<1>1. /\ data' = data \cup {[seg |-> s, p |-> p]}
      /\ tx_list' = tx /\ retransmit_list' = retx /\ tx_next' = next
      /\ wait_list' = wait_list \cup {s}
      /\ force_poll' = FALSE
      /\ poll_sn' = IF p THEN (next - 1) % SnMod ELSE poll_sn
      /\ poll_timer' = (p \/ poll_timer)
      /\ UNCHANGED <<sdus, tx_next_ack, acked, reports, lost, down>> /\ UNCHANGED rxVars
  BY DEF Transmit
<1>2. p \in BOOLEAN
  OBVIOUS
<1> HIDE DEF p
<1>3. s \in Segment
  BY DEF GoodSeg
<1>4. poll_sn' \in Sns
  <2>1. (next - 1) % SnMod \in Sns
    BY Widths DEF Sns
  <2> QED
    BY <1>0, <1>1, <2>1 DEF Types, SenderTypes
<1>5. SenderTypes'
  <2>1. poll_timer' \in BOOLEAN /\ force_poll' \in BOOLEAN
    BY <1>1
  <2>2. wait_list' \subseteq Segment
    BY <1>0, <1>1, <1>3 DEF Types, SenderTypes
  <2> QED
    BY <1>0, <1>1, <1>4, <2>1, <2>2 DEF Types, SenderTypes
<1>6. ReceiverTypes'
  BY <1>0, <1>1 DEF Types, ReceiverTypes, rxVars, W, window_size
<1>7. ChannelTypes'
  <2>1. \A d \in data' : d.seg \in Segment /\ d.p \in BOOLEAN
    BY <1>0, <1>1, <1>2, <1>3 DEF Types, ChannelTypes
  <2> QED
    BY <1>0, <1>1, <2>1 DEF Types, ChannelTypes
<1>8. RingOK' /\ HeadsOK' /\ TimerOK' /\ RepsOK'
  BY <1>0, <1>1, ReceiverKept
<1>9. AckedOK'
  BY <1>0, <1>1 DEF AckedOK, rxVars
<1>10. DataOK'
  <2>1. \A d \in data : GoodSeg(d.seg)'
    BY <1>0, GoodStays DEF DataOK
  <2>2. ASSUME NEW d \in data' PROVE GoodSeg(d.seg)'
    <3>1. CASE d \in data
      BY <2>1, <3>1
    <3>2. CASE d = [seg |-> s, p |-> p]
      <4>1. d.seg = s
        BY <3>2
      <4> QED
        BY <4>1 DEF GoodSeg
    <3> QED
      BY <1>1, <3>1, <3>2
  <2> QED
    BY <2>2 DEF DataOK
<1>11. \A i, b : Has(i, b)' <=> Has(i, b)
  BY <1>1 DEF Has, rxVars, Bytes
<1>12. TA' = TA /\ RN' = RN /\ RS' = RS /\ RH' = RH
  BY <1>1 DEF TA, RN, RS, RH, Pos, rxVars
<1> QED
  BY <1>5, <1>6, <1>7, <1>8, <1>9, <1>10, <1>11, <1>12 DEF Types

\* A segment of the retransmit list is sent again, or the first bytes of it are:
\* no byte that is held is dropped.
LEMMA GenerateRetxOK ==
  ASSUME IInv, NEW g, g \in Nat, 1 <= g, GenerateRetx(g)
  PROVE  /\ IInv'
         /\ \A x \in Held : \A b \in Bytes(x) : \E y \in Held' : y.id = x.id /\ b \in Bytes(y)
<1> DEFINE s == First(retransmit_list)
           f == Front(s, g)
           R == IF g < s.size THEN {Rest(s, g)} ELSE {}
           retx == (retransmit_list \ {s}) \cup R
<1>0. /\ Types /\ Order /\ TxShape /\ HeldOK /\ DataOK /\ NoneForgotten /\ AckedOK
      /\ TailNew /\ RingOK /\ HeadsOK /\ TimerOK /\ RepsOK
  BY DEF IInv, SenderOK
<1>1. s \in retransmit_list
  <2>1. retransmit_list # {} /\ retransmit_list \subseteq Segment /\ tx_next_ack \in Sns
    BY <1>0 DEF GenerateRetx, Types, SenderTypes
  <2>2. \A x \in retransmit_list : x.sn \in Sns
    <3> SUFFICES ASSUME NEW x \in retransmit_list PROVE x.sn \in Sns
      OBVIOUS
    <3>1. GoodSeg(x)
      BY <1>0 DEF HeldOK, Held
    <3>2. x.id - 1 \in 0..(SnMod - 1) /\ x.sn = At(x.id - 1)
      <4>1. TN \in 0..(SnMod - 1) /\ x.id \in 1..TN /\ x.sn = At(x.id - 1)
        BY <1>0, <3>1, Positions DEF GoodSeg
      <4> QED
        BY <4>1, Widths
    <3> QED
      BY <3>2, AtType
  <2> QED
    BY <2>1, <2>2, FirstIn
<1>2. g <= s.size /\ Transmit(f, tx_list, retx, tx_next, FALSE)
  BY DEF GenerateRetx
<1> HIDE DEF s
<1>3. /\ tx_list' = tx_list /\ tx_next' = tx_next /\ sdus' = sdus
      /\ wait_list' = wait_list \cup {f} /\ retransmit_list' = retx
      /\ tx_next_ack' = tx_next_ack /\ delivered' = delivered
  BY <1>2 DEF Transmit, rxVars
<1>4. /\ Grows /\ TxShape' /\ TN' = TN /\ TB' = TB /\ (TailUnsent' <=> TailUnsent)
      /\ \A i : Sent(i)' = Sent(i)
      /\ \A x : GoodSeg(x)' <=> GoodSeg(x)
  BY <1>0, <1>3, QueueKept
<1>5. GoodSeg(s) /\ TA < s.id /\ s \in Segment
  BY <1>0, <1>1 DEF HeldOK, Held, GoodSeg
<1>6. /\ GoodSeg(f) /\ f.id = s.id /\ f \in Segment
      /\ \A q \in R : GoodSeg(q) /\ q.id = s.id /\ q \in Segment
  <2>1. s.id \in 1..TN
    BY <1>5 DEF GoodSeg
  <2>2. Sent(s.id) \in Nat /\ sdus[s.id] \in Nat /\ Sent(s.id) <= sdus[s.id]
    <3>1. s.id \in 1..Len(sdus)
      BY <1>0, <2>1, SentSizes
    <3> QED
      BY <1>0, <2>1, <3>1, SentSizes
  <2>3. GoodSeg(f) /\ f.id = s.id /\ (g < s.size => GoodSeg(Rest(s, g)) /\ Rest(s, g).id = s.id)
    BY <1>2, <1>5, <2>2, Cut
  <2> QED
    BY <2>3 DEF GoodSeg
<1> DEFINE Q == {f} \cup R
<1>7. \A q \in Q : GoodSeg(q) /\ q.id = s.id /\ Bytes(q) \subseteq Bytes(s) /\ q.so \in Bytes(q)
  <2>1. Bytes(f) \subseteq Bytes(s) /\ \A q \in R : Bytes(q) \subseteq Bytes(s)
    BY <1>2, <1>5, CutBytes
  <2>2. \A q \in Q : q \in Segment /\ q.size >= 1
    BY <1>6 DEF GoodSeg
  <2>3. \A q \in Q : q.so \in Bytes(q)
    BY <2>2, HasByte
  <2> QED
    BY <1>6, <2>1, <2>3
<1>8. Bytes(s) \subseteq BytesOf(Q) /\ \A q, t \in Q : q = t \/ Bytes(q) \cap Bytes(t) = {}
  <2>1. CASE g = s.size
    <3>1. Bytes(f) = Bytes(s) /\ Q = {f}
      BY <1>2, <1>5, <2>1, CutBytes
    <3> QED
      BY <3>1 DEF BytesOf
  <2>2. CASE g < s.size
    <3>1. Bytes(s) \subseteq Bytes(f) \cup Bytes(Rest(s, g)) /\ Bytes(f) \cap Bytes(Rest(s, g)) = {}
      BY <1>2, <1>5, <2>2, CutBytes
    <3>2. Q = {f, Rest(s, g)}
      BY <2>2
    <3> HIDE DEF Q, f
    <3> QED
      BY <3>1, <3>2 DEF BytesOf
  <2>3. s.size \in Nat
    BY <1>5 DEF Segment
  <2> QED
    BY <1>2, <2>1, <2>2, <2>3
<1>9. f \in Q /\ R \subseteq Q /\ f \notin R
  <2>1. ASSUME g < s.size PROVE f # Rest(s, g)
    <3>1. Bytes(f) \cap Bytes(Rest(s, g)) = {}
      BY <1>2, <1>5, <2>1, CutBytes
    <3>2. f.so \in Bytes(f)
      BY <1>7
    <3> QED
      BY <3>1, <3>2
  <2> QED
    BY <2>1
<1>10. Held' = (Held \ {s}) \cup Q
  <2>1. s \notin wait_list
    BY <1>0, <1>1 DEF HeldOK
  <2> QED
    BY <1>3, <2>1 DEF Held
<1>11. retx = (retransmit_list \ {s}) \cup R
  OBVIOUS
<1> HIDE DEF f, R, Q, retx
<1>12. \A x \in Held \ {s}, q \in Q : x.id = q.id => Bytes(x) \cap Bytes(q) = {}
  BY <1>0, <1>1, <1>7 DEF HeldOK, Held
<1>13. \A x \in Held \ {s} : x \notin Q
  BY <1>7, <1>12
<1>14. HeldOK'
  <2>0. TA' = TA
    BY <1>3 DEF TA, Pos
  <2>1. \A x \in Held' : GoodSeg(x)' /\ TA' < x.id
    BY <1>0, <1>4, <1>5, <1>7, <1>10, <2>0 DEF HeldOK
  <2>2. wait_list' \cap retransmit_list' = {}
    <3>1. wait_list \cap retx = {}
      BY <1>0, <1>1, <1>9, <1>11, <1>13 DEF HeldOK, Held
    <3>2. f \notin retx
      BY <1>9, <1>11, <1>13 DEF Held
    <3> QED
      BY <1>3, <3>1, <3>2
  <2>3. \A x, y \in Held' : x.id = y.id => x = y \/ Bytes(x) \cap Bytes(y) = {}
    BY <1>0, <1>8, <1>10, <1>12 DEF HeldOK
  <2> QED
    BY <2>1, <2>2, <2>3 DEF HeldOK, Bytes
<1>15. /\ Types' /\ RingOK' /\ HeadsOK' /\ TimerOK' /\ RepsOK' /\ AckedOK' /\ DataOK'
       /\ TA' = TA /\ RN' = RN /\ RS' = RS /\ RH' = RH
       /\ \A i, b : Has(i, b)' <=> Has(i, b)
  <2>0. PICK y, tx, rl, next : y = f /\ tx = tx_list /\ rl = retx /\ next = tx_next
    OBVIOUS
  <2>1. tx \in Seq(Segment) /\ next \in Sns /\ GoodSeg(y)'
    BY <1>0, <1>4, <1>6, <2>0 DEF Types, SenderTypes
  <2>2. rl \subseteq Segment
    BY <1>0, <1>6, <1>11, <2>0 DEF Types, SenderTypes
  <2>3. Transmit(y, tx, rl, next, FALSE)
    BY <1>2, <2>0
  <2> QED
    BY <1>4, <2>1, <2>2, <2>3, TransmitRest
<1>16. Order'
  BY <1>0, <1>3, <1>4, <1>15 DEF Order, W, window_size
<1>17. TailNew'
  BY <1>0, <1>3, <1>4 DEF TailNew
<1>18. ASSUME NEW x \in Held, NEW b \in Bytes(x)
       PROVE  \E y \in Held' : y.id = x.id /\ b \in Bytes(y)
  <2>1. CASE x = s
    <3>1. PICK q \in Q : b \in Bytes(q)
      BY <1>8, <2>1 DEF BytesOf
    <3> QED
      BY <1>7, <1>10, <2>1, <3>1
  <2>2. CASE x # s
    BY <1>10, <2>2
  <2> QED
    BY <2>1, <2>2
<1>19. NoneForgotten'
  <2> SUFFICES ASSUME NEW i \in 1..TN, NEW b \in 0..(Sent(i) - 1)
               PROVE  Has(i, b)' \/ \E x \in Held' : x.id = i /\ b \in Bytes(x)
    BY <1>4 DEF NoneForgotten, Bytes
  <2>1. CASE Has(i, b)
    BY <1>15, <2>1
  <2>2. CASE \E x \in Held : x.id = i /\ b \in Bytes(x)
    <3>1. PICK x \in Held : x.id = i /\ b \in Bytes(x)
      BY <2>2
    <3> QED
      BY <1>18, <3>1
  <2> QED
    BY <1>0, <2>1, <2>2 DEF NoneForgotten
<1> QED
  BY <1>4, <1>14, <1>15, <1>16, <1>17, <1>18, <1>19 DEF IInv, SenderOK

\* The head of tx_list as it is sent: bytes of the i-th SDU, of which s.so bytes
\* were sent before, with every SDU before it sent and every one after it queued.
HeadSeg(s, i) ==
  /\ s \in Segment /\ i \in Nat /\ i \in 1..Len(sdus) /\ i = TB + 1 /\ i <= TA + W
  /\ s.id = i /\ s.sn = At(i - 1) /\ s.size >= 1 /\ s.so + s.size = sdus[i] /\ s.last
  /\ \/ TailUnsent /\ i = TN /\ Sent(i) = s.so
     \/ ~TailUnsent /\ i = TN + 1 /\ s.so = 0
  /\ Len(tx_list) = Len(sdus) - i + 1
  /\ \A k \in 2..Len(tx_list) : tx_list[k] = Fresh(i + k - 1, sdus[i + k - 1])

\* tx_list once g bytes of its head were sent.
TxLeft(s, g) == (IF g < s.size THEN <<Rest(s, g)>> ELSE <<>>) \o Tail(tx_list)

\* What is left of tx_list.
LEMMA Left ==
  ASSUME NEW s, NEW i, HeadSeg(s, i), tx_list \in Seq(Segment), NEW g \in Nat, 1 <= g,
         g <= s.size
  PROVE  /\ TxLeft(s, g) \in Seq(Segment)
         /\ g < s.size => /\ Len(TxLeft(s, g)) = Len(tx_list)
                          /\ TxLeft(s, g)[1] = Rest(s, g)
                          /\ \A k \in 2..Len(tx_list) : TxLeft(s, g)[k] = tx_list[k]
         /\ g = s.size => /\ Len(TxLeft(s, g)) = Len(tx_list) - 1
                          /\ \A k \in 1..(Len(tx_list) - 1) : TxLeft(s, g)[k] = tx_list[k + 1]
<1>0. Len(sdus) \in Nat /\ Len(tx_list) \in Nat /\ Len(tx_list) >= 1 /\ tx_list # <<>>
  <2>1. Len(tx_list) \in Nat
    OBVIOUS
  <2>2. Len(tx_list) = Len(sdus) - i + 1 /\ i \in 1..Len(sdus)
    BY DEF HeadSeg
  <2>3. Len(sdus) \in Int
    BY <2>1, <2>2
  <2> QED
    BY <2>1, <2>2, <2>3
<1>1. PICK T \in Seq(Segment) : T = Tail(tx_list) /\ Len(T) = Len(tx_list) - 1
                               /\ \A k \in 1..(Len(tx_list) - 1) : T[k] = tx_list[k + 1]
  <2>1. Tail(tx_list) \in Seq(Segment) /\ Len(Tail(tx_list)) = Len(tx_list) - 1
    BY <1>0
  <2>2. \A k \in 1..(Len(tx_list) - 1) : Tail(tx_list)[k] = tx_list[k + 1]
    BY <1>0
  <2> QED
    BY <2>1, <2>2
<1>2. CASE g < s.size
  <2>1. Rest(s, g) \in Segment
    <3>1. s \in Segment /\ s.so \in Nat /\ s.size \in Nat
      BY DEF HeadSeg, Segment
    <3>2. s.so + g \in Nat /\ s.size - g \in Nat
      BY <1>2, <3>1
    <3> QED
      BY <3>1, <3>2 DEF Rest, Segment
  <2>2. TxLeft(s, g) = <<Rest(s, g)>> \o T
    BY <1>1, <1>2 DEF TxLeft
  <2>3. PICK c \in Segment : c = Rest(s, g)
    BY <2>1
  <2>4. /\ <<c>> \o T \in Seq(Segment) /\ Len(<<c>> \o T) = 1 + Len(T)
        /\ (<<c>> \o T)[1] = c
        /\ \A k \in 2..(1 + Len(T)) : (<<c>> \o T)[k] = T[k - 1]
    OBVIOUS
  <2>5. \A k \in 2..Len(tx_list) : k - 1 \in 1..(Len(tx_list) - 1) /\ (k - 1) + 1 = k
    BY <1>0
  <2>6. \A k \in 2..Len(tx_list) : T[k - 1] = tx_list[k]
    <3> SUFFICES ASSUME NEW k \in 2..Len(tx_list) PROVE T[k - 1] = tx_list[k]
      OBVIOUS
    <3>1. T[k - 1] = tx_list[(k - 1) + 1]
      BY <1>1, <2>5
    <3> QED
      BY <2>5, <3>1
  <2>7. 1 + Len(T) = Len(tx_list)
    BY <1>0, <1>1
  <2> QED
    BY <1>2, <2>2, <2>3, <2>4, <2>6, <2>7
<1>3. CASE g = s.size
  <2>1. TxLeft(s, g) = <<>> \o T
    <3>1. s.size \in Nat
      BY DEF HeadSeg, Segment
    <3>2. ~(g < s.size)
      BY <1>3, <3>1
    <3> QED
      BY <1>1, <3>2 DEF TxLeft
  <2>2. TxLeft(s, g) = T
    BY <2>1
  <2>3. s.size \in Nat /\ ~(g < s.size)
    BY <1>3 DEF HeadSeg, Segment
  <2> QED
    BY <1>1, <2>2, <2>3
<1>4. s.size \in Nat
  BY DEF HeadSeg, Segment
<1> QED
  BY <1>2, <1>3, <1>4

\* The queue once g bytes of its head were sent.
LEMMA QueueShortened ==
  ASSUME IInv, NEW s, NEW i, HeadSeg(s, i), NEW g \in Nat, 1 <= g, g <= s.size,
         tx_list' = TxLeft(s, g), UNCHANGED sdus, tx_next' \in Sns, Pos(tx_next') = i
  PROVE  /\ tx_list' \in Seq(Segment) /\ TxShape' /\ Grows
         /\ TN' = i /\ (TailUnsent' <=> g < s.size)
         /\ \A j \in 1..(i - 1) : Sent(j)' = Sent(j)
         /\ Sent(i)' = s.so + g
         /\ i - 1 <= TB' /\ TB' \in Int
<1>0. /\ Types /\ Order /\ TxShape /\ tx_list \in Seq(Segment)
  BY DEF IInv, SenderOK, Types, SenderTypes
<1>1. /\ s \in Segment /\ i \in Nat /\ i \in 1..Len(sdus) /\ i = TB + 1
      /\ s.id = i /\ s.sn = At(i - 1) /\ s.size >= 1 /\ s.so + s.size = sdus[i] /\ s.last
      /\ \/ TailUnsent /\ i = TN /\ Sent(i) = s.so
         \/ ~TailUnsent /\ i = TN + 1 /\ s.so = 0
      /\ Len(tx_list) = Len(sdus) - i + 1
      /\ \A k \in 2..Len(tx_list) : tx_list[k] = Fresh(i + k - 1, sdus[i + k - 1])
  BY DEF HeadSeg
<1>2. s.so \in Nat /\ s.size \in Nat
  BY <1>1 DEF Segment
<1>3. PICK tx : tx = TxLeft(s, g)
  OBVIOUS
<1>4. /\ tx \in Seq(Segment)
      /\ g < s.size => /\ Len(tx) = Len(tx_list)
                       /\ tx[1] = Rest(s, g)
                       /\ \A k \in 2..Len(tx_list) : tx[k] = tx_list[k]
      /\ g = s.size => /\ Len(tx) = Len(tx_list) - 1
                       /\ \A k \in 1..(Len(tx_list) - 1) : tx[k] = tx_list[k + 1]
  BY <1>0, <1>3, Left
<1>5. tx_list' = tx /\ tx_list' \in Seq(Segment) /\ TN' = i
  BY <1>3, <1>4 DEF TN, Pos
<1>6. Len(sdus) \in Nat /\ Len(sdus) < SnMod /\ Len(tx_list) \in Nat
  BY <1>0, Widths DEF Types, SenderTypes
<1>7. s.sn \in Sns /\ s.sn # None
  <2>1. i - 1 \in 0..(SnMod - 1)
    BY <1>1, <1>6, Widths
  <2>2. At(i - 1) \in Sns
    BY <2>1, AtType
  <2> QED
    BY <1>1, <2>2, Widths DEF Sns, None
<1>8. /\ \A j \in 1..Len(sdus) : sdus[j] \in Nat
      /\ TN <= Len(sdus) /\ TN \in Nat /\ TB \in Nat /\ TB <= TN
      /\ \A j \in 1..TN : Sent(j) \in Nat /\ Sent(j) <= sdus[j]
      /\ \A j \in 1..TB : Sent(j) = sdus[j]
  BY <1>0, SentSizes
<1>9. ASSUME g < s.size
      PROVE  /\ TxShape' /\ (TailUnsent' <=> g < s.size) /\ TB' \in Int /\ i - 1 <= TB'
             /\ \A j \in 1..(i - 1) : Sent(j)' = sdus[j]
             /\ Sent(i)' = s.so + g
  <2>1. /\ Len(tx) = Len(sdus) - i + 1 /\ tx[1] = Rest(s, g)
        /\ \A k \in 2..Len(tx) : tx[k] = Fresh(i + k - 1, sdus[i + k - 1])
    BY <1>1, <1>4, <1>9
  <2>2. s.so + g \in Nat /\ s.size - g \in Nat /\ s.size - g > 0 /\ s.so + g > 0
        /\ (s.so + g) + (s.size - g) = sdus[i]
    <3>1. PICK x \in Nat, z \in Nat : x = s.so /\ z = s.size
      BY <1>2
    <3>2. x + g \in Nat /\ z - g \in Nat /\ z - g > 0 /\ x + g > 0
          /\ (x + g) + (z - g) = x + z
      BY <1>9, <3>1
    <3> QED
      BY <1>1, <3>1, <3>2
  <2>3. /\ tx[1].id = i /\ tx[1].sn = s.sn /\ tx[1].so = s.so + g
        /\ tx[1].size = s.size - g /\ tx[1].last
    BY <1>1, <2>1 DEF Rest, Segment
  <2>4. TailUnsent'
    <3>1. Len(tx) >= 1
      BY <1>1, <1>6, <2>1
    <3> QED
      BY <1>5, <1>7, <2>3, <3>1, TailFirstNext
  <2>5. TailOK(tx_list[1])'
    BY <1>1, <1>5, <2>2, <2>3 DEF TailOK, At
  <2>6. TxShape'
    BY <1>5, <2>1, <2>4, <2>5 DEF TxShape, Fresh
  <2>7. TB' = i - 1
    BY <1>5, <2>4 DEF TB
  <2>8. \A j \in 1..(i - 1) : Sent(j)' = sdus[j]
    BY <1>1, <1>5 DEF Sent
  <2>9. Sent(i)' = s.so + g
    BY <1>5, <2>3, <2>4 DEF Sent
  <2> QED
    BY <1>1, <1>9, <2>4, <2>6, <2>7, <2>8, <2>9
<1>10. ASSUME g = s.size
      PROVE  /\ TxShape' /\ (TailUnsent' <=> g < s.size) /\ TB' \in Int /\ i - 1 <= TB'
             /\ \A j \in 1..(i - 1) : Sent(j)' = sdus[j]
             /\ Sent(i)' = s.so + g
  <2>1. /\ Len(tx) = Len(sdus) - i
        /\ \A k \in 1..Len(tx) : tx[k] = Fresh(i + k, sdus[i + k])
    <3>1. Len(tx) = Len(tx_list) - 1 /\ \A k \in 1..(Len(tx_list) - 1) : tx[k] = tx_list[k + 1]
      BY <1>4, <1>10
    <3>2. Len(tx) = Len(sdus) - i
      BY <1>1, <1>6, <3>1
    <3>3. ASSUME NEW k \in 1..Len(tx) PROVE tx[k] = Fresh(i + k, sdus[i + k])
      <4>1. k + 1 \in 2..Len(tx_list) /\ i + (k + 1) - 1 = i + k /\ k \in 1..(Len(tx_list) - 1)
        BY <1>1, <1>6, <3>1
      <4>2. tx_list[k + 1] = Fresh(i + (k + 1) - 1, sdus[i + (k + 1) - 1])
        BY <1>1, <4>1
      <4> QED
        BY <3>1, <4>1, <4>2
    <3> QED
      BY <3>2, <3>3
  <2>2. ~TailUnsent'
    <3>1. ASSUME Len(tx) >= 1 PROVE tx[1].sn = None
      <4>1. 1 \in 1..Len(tx)
        BY <1>4, <3>1
      <4> QED
        BY <2>1, <4>1 DEF Fresh
    <3> QED
      BY <1>5, <3>1, TailFirstNext
  <2>3. TxShape'
    BY <1>5, <2>1, <2>2 DEF TxShape, Fresh
  <2>4. TB' = i
    BY <1>5, <2>2 DEF TB
  <2>5. \A j \in 1..(i - 1) : Sent(j)' = sdus[j]
    BY <2>2 DEF Sent
  <2>6. Sent(i)' = s.so + g
    BY <1>1, <1>10, <2>2 DEF Sent
  <2>7. ~(g < s.size)
    BY <1>2, <1>10
  <2> QED
    BY <1>1, <2>2, <2>3, <2>4, <2>5, <2>6, <2>7
<1>11. /\ TxShape' /\ (TailUnsent' <=> g < s.size) /\ TB' \in Int /\ i - 1 <= TB'
       /\ \A j \in 1..(i - 1) : Sent(j)' = sdus[j]
       /\ Sent(i)' = s.so + g
  <2>1. g < s.size \/ g = s.size
    BY <1>2
  <2> QED
    BY <1>9, <1>10, <2>1
<1>12. \A j \in 1..(i - 1) : Sent(j) = sdus[j] /\ j \in 1..Len(sdus)
  BY <1>1, <1>6, <1>8
<1>13. Grows
  <2>1. TN <= TN' /\ TB <= TB' /\ TN' \in Nat
    BY <1>1, <1>5, <1>8, <1>11
  <2>2. ASSUME NEW j \in 1..TN
        PROVE  sdus'[j] = sdus[j] /\ Sent(j) \in Nat /\ Sent(j)' \in Nat /\ Sent(j) <= Sent(j)'
    <3>1. CASE j <= i - 1
      <4>1. j \in 1..(i - 1)
        BY <1>1, <3>1
      <4> QED
        BY <1>8, <1>11, <1>12, <4>1
    <3>2. CASE j > i - 1
      <4>1. j = i /\ i = TN
        BY <1>1, <1>8, <3>2
      <4>2. Sent(i) = s.so
        BY <1>1, <1>8, <4>1
      <4>3. s.so + g \in Nat /\ s.so <= s.so + g
        BY <1>2
      <4> QED
        BY <1>2, <1>11, <4>1, <4>2, <4>3
    <3> QED
      BY <1>1, <3>1, <3>2
  <2> QED
    BY <1>8, <1>11, <2>1, <2>2 DEF Grows
<1> QED
  BY <1>5, <1>11, <1>12, <1>13

\* The head of tx_list goes out, or the first bytes of it.
LEMMA SendHead ==
  ASSUME IInv, NEW s, NEW i, HeadSeg(s, i), NEW g \in Nat, 1 <= g, g <= s.size,
         NEW next \in Sns, Pos(next) = i, NEW due,
         Transmit(Front(s, g), TxLeft(s, g), retransmit_list, next, due)
  PROVE  IInv'
<1>0. /\ Types /\ Order /\ TxShape /\ HeldOK /\ DataOK /\ NoneForgotten /\ AckedOK
      /\ TailNew /\ RingOK /\ HeadsOK /\ TimerOK /\ RepsOK
  BY DEF IInv, SenderOK
<1>1. PICK f, tx, rl : f = Front(s, g) /\ tx = TxLeft(s, g) /\ rl = retransmit_list
  OBVIOUS
<1>2. Transmit(f, tx, rl, next, due)
  BY <1>1
<1>3. /\ tx_list' = TxLeft(s, g) /\ tx_next' = next /\ UNCHANGED sdus
      /\ wait_list' = wait_list \cup {f} /\ retransmit_list' = retransmit_list
      /\ delivered' = delivered
  BY <1>1, <1>2 DEF Transmit, rxVars
<1>4. /\ tx_list' \in Seq(Segment) /\ TxShape' /\ Grows
      /\ TN' = i /\ (TailUnsent' <=> g < s.size)
      /\ \A j \in 1..(i - 1) : Sent(j)' = Sent(j)
      /\ Sent(i)' = s.so + g
      /\ i - 1 <= TB' /\ TB' \in Int
  BY <1>3, QueueShortened
<1>5. /\ s \in Segment /\ i \in Nat /\ i \in 1..Len(sdus) /\ i = TB + 1 /\ i <= TA + W
      /\ s.id = i /\ s.sn = At(i - 1) /\ s.size >= 1 /\ s.so + s.size = sdus[i] /\ s.last
      /\ \/ TailUnsent /\ i = TN /\ Sent(i) = s.so
         \/ ~TailUnsent /\ i = TN + 1 /\ s.so = 0
  BY DEF HeadSeg
<1>6. s.so \in Nat /\ s.size \in Nat
  BY <1>5 DEF Segment
<1>7. /\ f \in Segment /\ f.id = i /\ f.sn = At(i - 1) /\ f.so = s.so /\ f.size = g
      /\ f.last = (g = s.size)
  BY <1>1, <1>5 DEF Front, Segment
<1>8. /\ TN \in Nat /\ TB \in Nat /\ TA \in Nat /\ RN \in Nat /\ RS \in Nat /\ RH \in Nat
      /\ TA <= RN /\ RN <= RS /\ RS <= RH /\ RH <= TN /\ RS <= TB /\ Len(sdus) \in Nat
      /\ Len(sdus) <= N /\ N \in Nat
  BY <1>0, SentSizes, Positions, Widths, SMTT(30) DEF Order, Types, SenderTypes
<1>9. GoodSeg(f)'
  <2>1. f.id \in 1..TN'
    BY <1>4, <1>5, <1>7
  <2>2. f.so + f.size <= Sent(f.id)'
    BY <1>4, <1>6, <1>7
  <2>3. f.last <=> f.so + f.size = sdus'[f.id]
    <3>1. PICK x \in Nat, z \in Nat, y \in Nat : x = s.so /\ z = s.size /\ y = sdus[i] /\ x + z = y
      BY <1>5, <1>6
    <3>2. g = z <=> x + g = y
      BY <3>1
    <3>3. sdus'[f.id] = y
      BY <1>3, <1>7, <3>1
    <3> QED
      BY <1>7, <3>1, <3>2, <3>3
  <2> QED
    BY <1>7, <2>1, <2>2, <2>3 DEF GoodSeg, At
<1>10. /\ Types' /\ RingOK' /\ HeadsOK' /\ TimerOK' /\ RepsOK' /\ AckedOK' /\ DataOK'
       /\ TA' = TA /\ RN' = RN /\ RS' = RS /\ RH' = RH
       /\ \A j, b : Has(j, b)' <=> Has(j, b)
  <2>1. tx \in Seq(Segment) /\ rl \subseteq Segment
    BY <1>0, <1>1, <1>3, <1>4 DEF Types, SenderTypes
  <2> QED
    BY <1>2, <1>4, <1>9, <2>1, TransmitRest
<1>11. Order'
  <2>1. TN' <= TA' + W' /\ TN' <= Len(sdus')
    BY <1>3, <1>4, <1>5, <1>10 DEF W, window_size
  <2>2. RH' <= TN'
    BY <1>4, <1>5, <1>8, <1>10
  <2>3. RS' <= TB'
    BY <1>4, <1>5, <1>8, <1>10
  <2> QED
    BY <1>8, <1>10, <2>1, <2>2, <2>3 DEF Order
<1>12. Held' = Held \cup {f}
  BY <1>3 DEF Held
<1>13. Bytes(f) = s.so .. (s.so + g - 1)
  BY <1>7 DEF Bytes
<1>14. \A t \in Held : t.id = i => t # f /\ Bytes(t) \cap Bytes(f) = {}
  <2> SUFFICES ASSUME NEW t \in Held, t.id = i PROVE t # f /\ Bytes(t) \cap Bytes(f) = {}
    OBVIOUS
  <2>1. t \in Segment /\ t.id \in 1..TN /\ t.so + t.size <= Sent(t.id) /\ t.size >= 1
    BY <1>0 DEF HeldOK, GoodSeg
  <2>2. t.so \in Nat /\ t.size \in Nat
    BY <2>1 DEF Segment
  <2>3. Sent(i) = s.so
    BY <1>5, <1>8, <2>1
  <2>4. PICK u \in Nat, v \in Nat, x \in Nat : u = t.so /\ v = t.size /\ x = s.so
    BY <1>6, <2>2
  <2>5. u + v <= x /\ v >= 1
    BY <2>1, <2>3, <2>4
  <2>6. (u .. (u + v - 1)) \cap (x .. (x + g - 1)) = {}
    BY <2>4, <2>5
  <2>7. Bytes(t) \cap Bytes(f) = {}
    BY <1>13, <2>4, <2>6 DEF Bytes
  <2>8. t # f
    BY <1>7, <2>4, <2>5
  <2> QED
    BY <2>7, <2>8
<1>15. \A t \in Held : t # f
  BY <1>7, <1>14
<1>16. HeldOK'
  <2>1. \A t \in Held' : GoodSeg(t)' /\ TA' < t.id
    <3> SUFFICES ASSUME NEW t \in Held' PROVE GoodSeg(t)' /\ TA < t.id
      BY <1>10
    <3>1. CASE t \in Held
      BY <1>0, <1>4, <3>1, GoodStays DEF HeldOK
    <3>2. CASE t = f
      BY <1>5, <1>7, <1>8, <1>9, <3>2
    <3> QED
      BY <1>12, <3>1, <3>2
  <2>2. wait_list' \cap retransmit_list' = {}
    BY <1>0, <1>3, <1>15 DEF HeldOK, Held
  <2>3. \A x, y \in Held' : x.id = y.id => x = y \/ Bytes(x) \cap Bytes(y) = {}
    BY <1>0, <1>7, <1>12, <1>14 DEF HeldOK
  <2> QED
    BY <2>1, <2>2, <2>3 DEF HeldOK, Bytes
<1>17. TailNew'
  <2>1. CASE TailUnsent
    BY <1>0, <1>3, <1>4, <1>5, <1>8, <2>1 DEF TailNew
  <2>2. CASE ~TailUnsent
    <3>1. i = TN + 1 /\ TN < N /\ W \in Nat
      BY <1>5, <1>8, <2>2, Widths
    <3>2. delivered[TN + 1] = 0
      <4>1. CASE TN < RN + W
        <5>1. SlotOK(TN)
          BY <1>0, <1>8, <4>1 DEF RingOK
        <5> QED
          BY <1>8, <3>1, <5>1 DEF SlotOK
      <4>2. CASE RN + W <= TN
        BY <1>0, <1>8, <3>1, <4>2 DEF RingOK
      <4> QED
        BY <1>8, <3>1, <4>1, <4>2
    <3> QED
      BY <1>3, <1>4, <3>1, <3>2 DEF TailNew
  <2> QED
    BY <2>1, <2>2
<1>18. NoneForgotten'
  <2>1. ASSUME NEW j \in 1..i, NEW z, z = Sent(j)', NEW b \in 0..(z - 1)
        PROVE  Has(j, b)' \/ \E x \in Held' : x.id = j /\ b \in Bytes(x)
    <3>1. ASSUME j \in 1..TN, b \in 0..(Sent(j) - 1)
          PROVE  Has(j, b)' \/ \E x \in Held' : x.id = j /\ b \in Bytes(x)
      BY <1>0, <1>10, <1>12, <3>1 DEF NoneForgotten
    <3>2. CASE j <= i - 1
      <4>1. j \in 1..(i - 1) /\ j \in 1..TN
        BY <1>5, <1>8, <3>2
      <4> QED
        BY <1>4, <2>1, <3>1, <4>1
    <3>3. CASE j = i
      <4>0. z = s.so + g
        BY <1>4, <2>1, <3>3
      <4>1. b \in 0..(s.so + g - 1)
        BY <1>6, <4>0
      <4>2. CASE b < s.so
        <5>1. TailUnsent /\ i = TN /\ Sent(i) = s.so
          BY <1>5, <1>6, <4>1, <4>2
        <5>2. j \in 1..TN /\ b \in 0..(Sent(j) - 1)
          BY <1>5, <1>6, <1>8, <3>3, <4>1, <4>2, <5>1
        <5> QED
          BY <3>1, <5>2
      <4>3. CASE b >= s.so
        <5>1. b \in Bytes(f)
          BY <1>6, <1>13, <4>1, <4>3
        <5> QED
          BY <1>7, <1>12, <3>3, <5>1
      <4> QED
        BY <1>6, <4>1, <4>2, <4>3
    <3> QED
      BY <1>5, <3>2, <3>3
  <2> QED
    BY ONLY <1>4, <2>1 DEF NoneForgotten, Bytes
<1> QED
  BY <1>4, <1>10, <1>11, <1>16, <1>17, <1>18 DEF IInv, SenderOK

\* What generate_tx_pdu sends is the head of tx_list as HeadSeg describes it.
LEMMA GenerateTxHead ==
  ASSUME IInv, NEW g, NEW due, g \in Nat, 1 <= g, GenerateTx(g, due)
  PROVE  \E s, i, next : /\ HeadSeg(s, i) /\ g <= s.size /\ next \in Sns /\ Pos(next) = i
                         /\ Transmit(Front(s, g), TxLeft(s, g), retransmit_list, next, due)
                         /\ next = IF Head(tx_list).sn = None THEN Plus(tx_next, 1) ELSE tx_next
                         /\ s = IF Head(tx_list).sn = None
                                THEN [Head(tx_list) EXCEPT !.sn = tx_next] ELSE Head(tx_list)
<1> DEFINE h == Head(tx_list)
           new == h.sn = None
           s == IF new THEN [h EXCEPT !.sn = tx_next] ELSE h
           next == IF new THEN Plus(tx_next, 1) ELSE tx_next
           i == IF new THEN TN + 1 ELSE TN
<1>0. /\ Types /\ Order /\ TxShape /\ tx_list \in Seq(Segment) /\ tx_next \in Sns
      /\ tx_next_ack \in Sns
  BY DEF IInv, SenderOK, Types, SenderTypes
<1>1. /\ tx_list # <<>> /\ ~is_window_stalling(tx_next) /\ g <= s.size
      /\ Transmit(Front(s, g), TxLeft(s, g), retransmit_list, next, due)
  BY DEF GenerateTx, TxLeft
<1>2. h = tx_list[1] /\ Len(tx_list) \in Nat /\ Len(tx_list) >= 1 /\ h \in Segment
  BY <1>0, <1>1
<1>3. TailUnsent <=> ~new
  BY <1>0, <1>2, TailFirst
<1>4. /\ TN \in Nat /\ TA \in Nat /\ TA <= TN /\ TN <= Len(sdus) /\ Len(sdus) \in Nat
      /\ Len(sdus) <= N /\ N < SnMod /\ SnMod \in Nat /\ W \in Nat /\ TN <= TA + W /\ N \in Nat
  BY <1>0, SentSizes, Positions, Widths DEF Order, Types, SenderTypes
<1>5. /\ \A j \in 1..Len(sdus) : sdus[j] \in Nat /\ sdus[j] >= 1 /\ j \in Ids
      /\ TailUnsent => TB = TN - 1
      /\ ~TailUnsent => TB = TN
  BY <1>0, SentSizes
<1>6. TN < TA + W
  <2>1. modulus_tx(tx_next) = TN - TA
    BY <1>0, <1>4, ModTx DEF TN
  <2>2. ~(TN - TA >= W)
    BY <1>1, <2>1 DEF is_window_stalling, W
  <2> QED
    BY <1>4, <2>2
<1>7. CASE new
  <2>1. ~TailUnsent /\ s = [h EXCEPT !.sn = tx_next] /\ next = Plus(tx_next, 1) /\ i = TN + 1
    BY <1>3, <1>7
  <2>2. /\ Len(tx_list) = Len(sdus) - TN
        /\ \A k \in 1..Len(tx_list) : tx_list[k] = Fresh(TN + k, sdus[TN + k])
    BY <1>0, <2>1 DEF TxShape
  <2>3. h = Fresh(TN + 1, sdus[TN + 1])
    <3>1. 1 \in 1..Len(tx_list)
      BY <1>2
    <3> QED
      BY <1>2, <2>2, <3>1
  <2>4. TN + 1 \in 1..Len(sdus)
    BY <1>2, <1>4, <2>2
  <2>5. next \in Sns /\ Pos(next) = TN + 1
    <3>1. Pos(tx_next) + 1 < SnMod
      BY <1>4, <2>4 DEF TN
    <3> QED
      BY <1>0, <2>1, <3>1, PlusPos DEF TN
  <2>6. tx_next = At((TN + 1) - 1)
    BY <1>0, <1>4, PosType DEF TN
  <2>7. /\ s \in Segment /\ s.id = TN + 1 /\ s.sn = At((TN + 1) - 1) /\ s.so = 0
        /\ s.size = sdus[TN + 1] /\ s.last
    <3>1. [h EXCEPT !.sn = tx_next] \in Segment
      BY <1>0, <1>2 DEF Segment
    <3> QED
      BY <2>1, <2>3, <2>6, <3>1 DEF Fresh
  <2>8. s.so + s.size = sdus[TN + 1] /\ s.size >= 1
    BY <1>5, <2>4, <2>7
  <2>9. Len(tx_list) = Len(sdus) - (TN + 1) + 1 /\ TN + 1 <= TA + W
    BY <1>4, <1>6, <2>2
  <2>10. \A k \in 2..Len(tx_list) :
           tx_list[k] = Fresh((TN + 1) + k - 1, sdus[(TN + 1) + k - 1])
    <3> SUFFICES ASSUME NEW k \in 2..Len(tx_list)
                 PROVE  tx_list[k] = Fresh((TN + 1) + k - 1, sdus[(TN + 1) + k - 1])
      OBVIOUS
    <3>1. k \in 1..Len(tx_list) /\ (TN + 1) + k - 1 = TN + k
      BY <1>2, <1>4
    <3> QED
      BY <2>2, <3>1
  <2> HIDE DEF s, next
  <2>11. HeadSeg(s, TN + 1)
    BY <1>4, <1>5, <2>1, <2>4, <2>7, <2>8, <2>9, <2>10 DEF HeadSeg
  <2> QED
    BY <1>1, <2>5, <2>11 DEF s, next
<1>8. CASE ~new
  <2>1. TailUnsent /\ s = tx_list[1] /\ next = tx_next
    BY <1>2, <1>3, <1>8
  <2>2. /\ Len(tx_list) = Len(sdus) - TN + 1
        /\ TailOK(tx_list[1])
        /\ \A k \in 2..Len(tx_list) : tx_list[k] = Fresh(TN + k - 1, sdus[TN + k - 1])
    BY <1>0, <2>1 DEF TxShape
  <2>3. /\ s \in Segment /\ s.id = TN /\ TN >= 1 /\ s.sn = At(TN - 1) /\ s.size > 0
        /\ s.so + s.size = sdus[TN] /\ s.last /\ Sent(TN) = s.so
    BY <1>2, <2>1, <2>2 DEF TailOK, Sent
  <2> HIDE DEF s, next
  <2>4. s.size >= 1 /\ TN \in 1..Len(sdus)
    <3>1. s.size \in Nat
      BY <2>3 DEF Segment
    <3> QED
      BY <1>4, <2>3, <3>1
  <2>5. HeadSeg(s, TN)
    BY <1>4, <1>5, <2>1, <2>2, <2>3, <2>4 DEF HeadSeg
  <2>6. next \in Sns /\ Pos(next) = TN
    BY <1>0, <2>1 DEF TN
  <2> QED
    BY <1>1, <2>5, <2>6 DEF s, next
<1> QED
  BY <1>7, <1>8

\* generate_tx_pdu keeps the invariant.
LEMMA GenerateTxOK ==
  ASSUME IInv, NEW g, NEW due, g \in Nat, 1 <= g, GenerateTx(g, due)
  PROVE  IInv'
<1>1. PICK s, i, next : /\ HeadSeg(s, i) /\ g <= s.size /\ next \in Sns /\ Pos(next) = i
                        /\ Transmit(Front(s, g), TxLeft(s, g), retransmit_list, next, due)
  BY GenerateTxHead
<1> QED
  BY <1>1, SendHead

-----------------------------------------------------------------------------
(* The poll timer of the sender, and losses.                               *)

\* A step that leaves the bytes that are held, the queue and the receiver alone.
LEMMA HeldMoved ==
  ASSUME IInv, UNCHANGED <<sdus, tx_list, tx_next, tx_next_ack, acked>>, UNCHANGED rxVars,
         Held' = Held, wait_list' \cap retransmit_list' = {},
         data' \subseteq data, reports' \subseteq reports, down' = "no" => down = "no",
         Types'
  PROVE  IInv'
<1>0. /\ Types /\ Order /\ TxShape /\ HeldOK /\ DataOK /\ NoneForgotten /\ AckedOK
      /\ TailNew /\ RingOK /\ HeadsOK /\ TimerOK /\ RepsOK
  BY DEF IInv, SenderOK
<1>1. /\ Grows /\ TxShape' /\ TN' = TN /\ TB' = TB /\ (TailUnsent' <=> TailUnsent)
      /\ \A i : Sent(i)' = Sent(i)
      /\ \A x : GoodSeg(x)' <=> GoodSeg(x)
  BY <1>0, QueueKept
<1>2. RingOK' /\ HeadsOK' /\ TimerOK' /\ RepsOK'
  BY <1>0, <1>1, ReceiverKept
<1>3. TA' = TA /\ RN' = RN /\ RS' = RS /\ RH' = RH
  BY DEF TA, RN, RS, RH, Pos, rxVars
<1>4. Order'
  BY <1>0, <1>1, <1>3 DEF Order, W, window_size
<1>5. HeldOK'
  BY <1>0, <1>1, <1>3 DEF HeldOK, Bytes
<1>6. DataOK'
  BY <1>0, <1>1 DEF DataOK
<1>7. NoneForgotten'
  <2>1. \A i, b : Has(i, b)' <=> Has(i, b)
    BY DEF Has, rxVars, Bytes
  <2> QED
    BY <1>0, <1>1, <2>1 DEF NoneForgotten, Bytes
<1>8. AckedOK' /\ TailNew'
  BY <1>0, <1>1 DEF AckedOK, TailNew, rxVars
<1> QED
  BY <1>1, <1>2, <1>4, <1>5, <1>6, <1>7, <1>8 DEF IInv, SenderOK

\* check_t_poll_retransmit
LEMMA ExpirePollOK ==
  ASSUME IInv, ExpirePoll, down = "no"
  PROVE  IInv'
<1> DEFINE again == {s \in wait_list : s.sn = First(wait_list).sn}
<1>0. Types /\ HeldOK
  BY DEF IInv, SenderOK
<1>1. /\ \/ UNCHANGED <<wait_list, retransmit_list>>
         \/ wait_list' = wait_list \ again /\ retransmit_list' = retransmit_list \cup again
      /\ poll_timer' = FALSE /\ force_poll' = TRUE /\ down' \in {"no", "poll"}
      /\ UNCHANGED <<sdus, tx_list, tx_next, tx_next_ack, poll_sn, acked, data,
                     reports, lost>>
      /\ UNCHANGED rxVars
  BY DEF ExpirePoll
<1>2. again \subseteq wait_list
  OBVIOUS
<1> HIDE DEF again
<1>3. Held' = Held /\ wait_list' \cap retransmit_list' = {}
  BY <1>0, <1>1, <1>2 DEF HeldOK, Held
<1>4. wait_list' \subseteq Segment /\ retransmit_list' \subseteq Segment
  BY <1>0, <1>1, <1>2 DEF Types, SenderTypes
<1>5. SenderTypes'
  BY <1>0, <1>1, <1>4 DEF Types, SenderTypes
<1>6. ReceiverTypes'
  BY <1>0, <1>1 DEF Types, ReceiverTypes, rxVars, W, window_size
<1>7. ChannelTypes'
  BY <1>0, <1>1 DEF Types, ChannelTypes
<1> QED
  BY <1>1, <1>3, <1>5, <1>6, <1>7, HeldMoved DEF Types

\* A PDU or a report is lost.
LEMMA LossOK ==
  ASSUME IInv, UNCHANGED sdus, UNCHANGED txVars, UNCHANGED rxVars, UNCHANGED down,
         data' \subseteq data, reports' \subseteq reports, lost' \in 0..MaxLoss
  PROVE  IInv'
<1>0. Types /\ HeldOK
  BY DEF IInv, SenderOK
<1>1. Held' = Held /\ wait_list' \cap retransmit_list' = {}
  BY <1>0 DEF HeldOK, Held, txVars
<1>2. SenderTypes'
  BY <1>0 DEF Types, SenderTypes, txVars
<1>3. ReceiverTypes'
  BY <1>0 DEF Types, ReceiverTypes, rxVars, W, window_size
<1>4. ChannelTypes'
  BY <1>0 DEF Types, ChannelTypes
<1> QED
  BY <1>1, <1>2, <1>3, <1>4, HeldMoved DEF Types, txVars

\* The two ways to lose something.
LEMMA LoseOK ==
  ASSUME IInv
  PROVE  /\ \A d \in data : LoseData(d) => IInv'
         /\ \A r \in reports : LoseStatus(r) => IInv'
<1>0. lost \in 0..MaxLoss /\ MaxLoss \in Nat
  BY RlcAssumption DEF IInv, Types, ChannelTypes
<1>1. ASSUME NEW d \in data, LoseData(d) PROVE IInv'
  <2>1. lost' \in 0..MaxLoss
    BY <1>0, <1>1 DEF LoseData
  <2> QED
    BY <1>1, <2>1, LossOK DEF LoseData
<1>2. ASSUME NEW r \in reports, LoseStatus(r) PROVE IInv'
  <2>1. lost' \in 0..MaxLoss
    BY <1>0, <1>2 DEF LoseStatus
  <2> QED
    BY <1>2, <2>1, LossOK DEF LoseStatus
<1> QED
  BY <1>1, <1>2

-----------------------------------------------------------------------------
(* The sender takes a report.                                              *)

\* What the ranges of the window are.
LEMMA Ranges ==
  ASSUME IInv
  PROVE  /\ TA \in Nat /\ TN \in Nat /\ TB \in Nat /\ RN \in Nat /\ RS \in Nat /\ RH \in Nat
         /\ RT \in Nat /\ W \in Nat /\ N \in Nat /\ SnMod \in Nat /\ Len(sdus) \in Nat
         /\ TA <= RN /\ RN <= RS /\ RS <= RH /\ RH <= TN /\ TN <= TA + W /\ RS <= TB
         /\ TB <= TN /\ TN <= Len(sdus) /\ Len(sdus) <= N /\ N < SnMod /\ SnMod = 2 * W
         /\ W >= 2 /\ TN <= RN + W
<1>1. Types /\ Order /\ TxShape
  BY DEF IInv, SenderOK
<1>2. /\ TA \in Nat /\ TN \in Nat /\ RN \in Nat /\ RS \in Nat /\ RH \in Nat /\ RT \in Nat
      /\ TB \in Nat /\ TB <= TN /\ Len(sdus) \in Nat
  BY <1>1, Positions, SentSizes
<1>3. W \in Nat /\ N \in Nat /\ SnMod \in Nat /\ N < SnMod /\ SnMod = 2 * W /\ W >= 2
  BY Widths
<1>4. /\ TA <= RN /\ RN <= RS /\ RS <= RH /\ RH <= TN /\ TN <= TA + W /\ RS <= TB
      /\ TN <= Len(sdus)
  BY <1>1 DEF Order
<1>5. Len(sdus) <= N
  BY <1>1 DEF Types, SenderTypes
<1>6. TN <= RN + W
  BY <1>2, <1>3, <1>4
<1> QED
  BY <1>2, <1>3, <1>4, <1>5, <1>6

\* The numbers of a segment that was sent.
LEMMA SegNumbers ==
  ASSUME IInv, NEW s, GoodSeg(s)
  PROVE  /\ s \in Segment /\ s.id \in 1..TN /\ s.id \in Ids /\ s.id \in Nat
         /\ s.sn \in Sns /\ Pos(s.sn) = s.id - 1 /\ s.so \in Nat /\ s.size \in Nat
         /\ s.size >= 1 /\ sdus[s.id] \in Nat /\ Sent(s.id) \in Nat
         /\ s.so + s.size <= Sent(s.id) /\ Sent(s.id) <= sdus[s.id]
         /\ \A b \in Bytes(s) : b \in 0..(Sent(s.id) - 1) /\ b \in 0..(sdus[s.id] - 1)
                                /\ s.so <= b /\ b < s.so + s.size
<1>1. /\ s \in Segment /\ s.id \in 1..TN /\ s.sn = At(s.id - 1) /\ s.size >= 1
      /\ s.so + s.size <= Sent(s.id)
  BY DEF GoodSeg
<1>2. s.so \in Nat /\ s.size \in Nat
  BY <1>1 DEF Segment
<1>3. TN \in Nat /\ TN <= Len(sdus) /\ Len(sdus) \in Nat /\ Len(sdus) <= N /\ N \in Nat
      /\ N < SnMod /\ SnMod \in Nat
  BY Ranges
<1>4. s.id \in Nat /\ s.id \in Ids /\ s.id - 1 \in 0..(SnMod - 1) /\ s.id \in 1..Len(sdus)
  BY <1>1, <1>3 DEF Ids
<1>5. s.sn \in Sns /\ Pos(s.sn) = s.id - 1
  BY <1>1, <1>4, AtType
<1>6. sdus[s.id] \in Nat /\ Sent(s.id) \in Nat /\ Sent(s.id) <= sdus[s.id]
  BY <1>1, <1>4, SentSizes DEF IInv, SenderOK
<1>7. \A b \in Bytes(s) : b \in 0..(Sent(s.id) - 1) /\ b \in 0..(sdus[s.id] - 1)
                          /\ s.so <= b /\ b < s.so + s.size
  <2>1. PICK x \in Nat, z \in Nat, u \in Nat, v \in Nat :
          x = s.so /\ z = s.size /\ u = Sent(s.id) /\ v = sdus[s.id]
    BY <1>2, <1>6
  <2>2. x + z <= u /\ u <= v
    BY <1>1, <1>6, <2>1
  <2>3. \A b \in x .. (x + z - 1) : b \in 0..(u - 1) /\ b \in 0..(v - 1) /\ x <= b /\ b < x + z
    BY <2>1, <2>2
  <2> QED
    BY <2>1, <2>3 DEF Bytes
<1> QED
  BY <1>1, <1>2, <1>4, <1>5, <1>6, <1>7

\* What the receiver has of an SDU it did not deliver is in the place of the SDU.
LEMMA HasPlace ==
  ASSUME IInv, NEW p \in Nat, RN <= p, p < RN + W, NEW b, delivered[p + 1] = 0, Has(p + 1, b)
  PROVE  b \in BytesOf(rx[Place(p)].pdus)
<1>1. RingOK /\ Types
  BY DEF IInv
<1>2. PICK k \in DOMAIN rx : \E s \in rx[k].pdus : s.id = p + 1 /\ b \in Bytes(s)
  BY DEF Has
<1>3. PICK s \in rx[k].pdus : s.id = p + 1 /\ b \in Bytes(s)
  BY <1>2
<1>4. k \in 0..(W - 1)
  BY <1>1 DEF Types, ReceiverTypes
<1>5. RN \in Nat /\ W \in Nat
  BY Ranges
<1>6. PICK q \in RN..(RN + W - 1) : k = Place(q)
  BY <1>4, <1>5, PlaceCover
<1>7. q \in Nat /\ RN <= q /\ q < RN + W
  BY <1>5
<1>8. SlotOK(q)
  BY <1>1, <1>7 DEF RingOK
<1>9. s.id = q + 1
  BY <1>3, <1>6, <1>8 DEF SlotOK
<1>10. q = p
  BY <1>3, <1>7, <1>9
<1> QED
  BY <1>3, <1>6, <1>10 DEF BytesOf

\* An SDU of which the receiver has every byte was delivered.
LEMMA AllHas ==
  ASSUME IInv, NEW i \in 1..TN, \A b \in 0..(sdus[i] - 1) : Has(i, b)
  PROVE  delivered[i] > 0
<1> SUFFICES ASSUME ~(delivered[i] > 0) PROVE FALSE
  OBVIOUS
<1>0. /\ RingOK /\ Types /\ TN \in Nat /\ RN \in Nat /\ W \in Nat /\ TN <= RN + W
      /\ TN <= Len(sdus) /\ Len(sdus) \in Nat /\ N \in Nat /\ Len(sdus) <= N
  BY Ranges DEF IInv
<1>1. PICK p \in Nat : p + 1 = i /\ p < TN
  <2>1. i - 1 \in Nat /\ (i - 1) + 1 = i /\ i - 1 < TN
    BY <1>0
  <2> QED
    BY <2>1
<1>2. i \in Ids /\ i \in 1..Len(sdus)
  BY <1>0 DEF Ids
<1>3. delivered[i] = 0
  BY <1>0, <1>2 DEF Types, ReceiverTypes
<1>4. RN <= p /\ p < RN + W
  <2>1. ~(p < RN)
    <3>1. p < RN => delivered[p + 1] = 1
      BY <1>0 DEF RingOK
    <3>2. delivered[p + 1] = 0
      BY <1>1, <1>3
    <3> QED
      BY <3>1, <3>2
  <2> QED
    BY <1>0, <1>1, <2>1
<1>5. SlotOK(p)
  BY <1>0, <1>4 DEF RingOK
<1> DEFINE S == rx[Place(p)].pdus
<1>6. \A b \in 0..(sdus[i] - 1) : b \in BytesOf(S)
  BY <1>1, <1>3, <1>4, HasPlace
<1>7. sdus[i] \in Nat /\ sdus[i] >= 1
  BY <1>2, SentSizes DEF IInv, SenderOK
<1>8. PICK z \in Nat : z = sdus[i] /\ z >= 1
  BY <1>7
<1>9. PICK l \in S : z - 1 \in Bytes(l)
  <2>1. z - 1 \in 0..(sdus[i] - 1)
    BY <1>8
  <2> QED
    BY <1>6, <2>1 DEF BytesOf
<1>10. GoodSeg(l) /\ l.id = i
  BY <1>1, <1>5, <1>9 DEF SlotOK
<1>11. l.so \in Nat /\ l.size \in Nat /\ l.so + l.size <= z /\ z - 1 < l.so + l.size
       /\ l.so <= z - 1
  <2>1. l.so \in Nat /\ l.size \in Nat /\ l.so + l.size <= Sent(i) /\ Sent(i) <= sdus[i]
        /\ Sent(i) \in Nat
    BY <1>10, SegNumbers
  <2>2. l.so <= z - 1 /\ z - 1 < l.so + l.size
    BY <1>9, <1>10, SegNumbers
  <2> QED
    BY <1>8, <2>1, <2>2
<1>12. l.last
  <2>1. l.so + l.size = sdus[i]
    BY <1>8, <1>11
  <2> QED
    BY <1>10, <2>1 DEF GoodSeg
<1>13. 0..(l.so - 1) \subseteq BytesOf(S)
  <2>1. \A b \in 0..(l.so - 1) : b \in 0..(sdus[i] - 1)
    BY <1>8, <1>11
  <2> QED
    BY <1>6, <2>1
<1>14. sdu_full(S)
  BY <1>9, <1>12, <1>13 DEF sdu_full
<1> QED
  BY <1>5, <1>14 DEF SlotOK

\* A report that is not refused begins in the sender's window.
LEMMA NotRefused ==
  ASSUME IInv, NEW r \in reports, ~Refused(r)
  PROVE  /\ r.good /\ r.ack \in Sns /\ Pos(r.ack) \in Nat /\ TA <= Pos(r.ack)
         /\ Pos(r.ack) <= TB /\ Pos(r.ack) <= TN /\ modulus_tx(r.ack) = Pos(r.ack) - TA
         /\ RepOK(r)
<1>1. r.good /\ ~(modulus_tx(r.ack) > modulus_tx(tx_next)) /\ RepOK(r)
  BY DEF Refused, IInv, RepsOK
<1>2. r.ack \in Sns /\ tx_next \in Sns /\ tx_next_ack \in Sns
  BY DEF IInv, Types, ChannelTypes, ReportType, SenderTypes
<1>3. PICK a \in Nat : a = Pos(r.ack) /\ a <= TB
  BY <1>1, <1>2, PosType DEF RepOK
<1>4. TA \in Nat /\ TN \in Nat /\ TB \in Nat /\ TB <= TN /\ TA <= TN /\ TN < SnMod
      /\ SnMod \in Nat
  BY Ranges
<1>5. modulus_tx(tx_next) = TN - TA
  BY <1>2, <1>4, ModTx DEF TN
<1>6. modulus_tx(r.ack) = IF TA <= a THEN a - TA ELSE SnMod + a - TA
  BY <1>2, <1>3, ModTx
<1>7. TA <= a
  BY <1>1, <1>3, <1>4, <1>5, <1>6
<1> QED
  BY <1>1, <1>2, <1>3, <1>4, <1>6, <1>7

\* A segment with a byte the report asks for is nacked.
LEMMA CoveredNacked ==
  ASSUME IInv, NEW s, GoodSeg(s), NEW b \in Bytes(s), NEW r \in reports, Covered(r, s.id, b)
  PROVE  Nacked(r, s)
<1>1. PICK n \in r.nacks : n.sn = At(s.id - 1) /\ n.from <= b /\ (n.to = End \/ b <= n.to)
  BY DEF Covered
<1>2. n.from \in Nat /\ n.to \in Nat \cup {End}
  BY <1>1 DEF IInv, Types, ChannelTypes, ReportType, NackType
<1>3. n.to \in Int
  BY <1>2 DEF End
<1>4. s.so \in Nat /\ s.size \in Nat /\ s.so <= b /\ b < s.so + s.size /\ b \in Int
  BY SegNumbers
<1>5. s.sn = n.sn
  BY <1>1 DEF GoodSeg
<1>6. n.from < s.so + s.size
  BY <1>1, <1>2, <1>4
<1>7. n.to = End \/ s.so <= n.to
  BY <1>1, <1>3, <1>4
<1> QED
  BY <1>1, <1>5, <1>6, <1>7 DEF Nacked

\* What a report drops.
Gone(r) == {s \in wait_list \cup retransmit_list :
              ~Nacked(r, s) /\ modulus_tx(s.sn) < modulus_tx(r.ack)}

\* The receiver has every byte of what a report drops.
LEMMA GoneHas ==
  ASSUME IInv, NEW r \in reports, ~Refused(r), NEW s \in Gone(r)
  PROVE  s \in Held /\ s.id <= Pos(r.ack) /\ \A b \in Bytes(s) : Has(s.id, b)
<1>1. s \in Held /\ GoodSeg(s) /\ TA < s.id /\ ~Nacked(r, s)
      /\ modulus_tx(s.sn) < modulus_tx(r.ack)
  BY DEF Gone, Held, IInv, SenderOK, HeldOK
<1>2. s.sn \in Sns /\ Pos(s.sn) = s.id - 1 /\ s.id \in Nat /\ s.id \in 1..TN
  BY <1>1, SegNumbers
<1>3. TA \in Nat /\ tx_next_ack \in Sns
  BY Ranges DEF IInv, Types, SenderTypes
<1>4. TA <= Pos(s.sn)
  BY <1>1, <1>2, <1>3
<1>5. modulus_tx(s.sn) = Pos(s.sn) - TA
  BY <1>2, <1>3, <1>4, ModTx
<1>6. PICK a \in Nat : a = Pos(r.ack) /\ modulus_tx(r.ack) = a - TA /\ RepOK(r) /\ r.good
  BY NotRefused
<1>7. s.id <= a
  BY <1>1, <1>2, <1>3, <1>5, <1>6
<1>8. ASSUME NEW b \in Bytes(s) PROVE Has(s.id, b)
  <2>1. b \in 0..(sdus[s.id] - 1)
    BY <1>1, SegNumbers
  <2>2. s.id \in 1..Pos(r.ack)
    BY <1>2, <1>6, <1>7
  <2>3. Has(s.id, b) \/ Covered(r, s.id, b)
    BY <1>6, <2>1, <2>2 DEF RepOK
  <2> QED
    BY <1>1, <2>3, CoveredNacked
<1> QED
  BY <1>1, <1>6, <1>7, <1>8

\* The start of the window after a report: the least position of what is still
\* held, of the end of the report and of the end of what was sent.
LEMMA Oldest ==
  ASSUME IInv, NEW r \in reports, ~Refused(r), NEW wait, NEW retx, wait \cup retx \subseteq Held
  PROVE  /\ OldestUnacked(r.ack, wait, retx) \in Sns
         /\ TA <= Pos(OldestUnacked(r.ack, wait, retx))
         /\ Pos(OldestUnacked(r.ack, wait, retx)) <= Pos(r.ack)
         /\ Pos(OldestUnacked(r.ack, wait, retx)) <= TN
         /\ \A s \in wait \cup retx : Pos(OldestUnacked(r.ack, wait, retx)) < s.id
<1> DEFINE cands == {tx_next, r.ack} \cup {s.sn : s \in wait \cup retx}
           o == OldestUnacked(r.ack, wait, retx)
<1>0. /\ tx_next \in Sns /\ tx_next_ack \in Sns /\ r.ack \in Sns /\ TA \in Nat
      /\ TA <= Pos(r.ack) /\ TA <= TN /\ TN \in Nat
  <2>1. tx_next \in Sns /\ tx_next_ack \in Sns
    BY DEF IInv, Types, SenderTypes
  <2>2. r.ack \in Sns /\ TA <= Pos(r.ack)
    BY NotRefused
  <2>3. TA \in Nat /\ TN \in Nat /\ TA <= TN
    BY Ranges
  <2> QED
    BY <2>1, <2>2, <2>3
<1>1. \A s \in wait \cup retx : s.sn \in Sns /\ TA <= Pos(s.sn) /\ Pos(s.sn) = s.id - 1
                                /\ s.id \in Nat
  <2> SUFFICES ASSUME NEW s \in wait \cup retx
               PROVE  s.sn \in Sns /\ TA <= Pos(s.sn) /\ Pos(s.sn) = s.id - 1 /\ s.id \in Nat
    OBVIOUS
  <2>1. GoodSeg(s) /\ TA < s.id
    BY DEF IInv, SenderOK, HeldOK
  <2>2. s.sn \in Sns /\ Pos(s.sn) = s.id - 1 /\ s.id \in Nat
    BY <2>1, SegNumbers
  <2> QED
    BY <1>0, <2>1, <2>2
<1>2. \A a \in cands : a \in Sns /\ TA <= Pos(a) /\ Pos(a) \in Nat
  <2>1. \A a \in cands : a \in Sns /\ TA <= Pos(a)
    BY <1>0, <1>1 DEF TN
  <2>2. \A a \in cands : Pos(a) \in Nat
    <3> SUFFICES ASSUME NEW a \in cands PROVE Pos(a) \in Nat
      OBVIOUS
    <3>1. a \in Sns
      BY <2>1
    <3> QED
      BY <3>1, PosType, Widths
  <2> QED
    BY <2>1, <2>2
<1>3. \A a \in cands : modulus_tx(a) = Pos(a) - TA
  BY <1>0, <1>2, ModTx
<1> DEFINE T == {Pos(a) : a \in cands}
<1>4. T \subseteq Nat /\ T # {}
  BY <1>2
<1>5. PICK m \in T : \A k \in T : m <= k
  <2> HIDE DEF T
  <2> QED
    BY <1>4, Least
<1>6. PICK c \in cands : Pos(c) = m
  OBVIOUS
<1>7. \A b \in cands : modulus_tx(c) <= modulus_tx(b)
  <2> SUFFICES ASSUME NEW b \in cands PROVE modulus_tx(c) <= modulus_tx(b)
    OBVIOUS
  <2>1. Pos(c) <= Pos(b) /\ Pos(c) \in Nat /\ Pos(b) \in Nat
    BY <1>2, <1>5, <1>6
  <2> QED
    BY <1>0, <1>3, <2>1
<1>8. o \in cands /\ \A b \in cands : modulus_tx(o) <= modulus_tx(b)
  BY <1>7 DEF OldestUnacked
<1>9. \A b \in cands : Pos(o) <= Pos(b)
  <2> SUFFICES ASSUME NEW b \in cands PROVE Pos(o) <= Pos(b)
    OBVIOUS
  <2>1. Pos(o) - TA <= Pos(b) - TA /\ Pos(o) \in Nat /\ Pos(b) \in Nat
    BY <1>2, <1>3, <1>8
  <2> QED
    BY <1>0, <2>1
<1>10. o \in Sns /\ TA <= Pos(o) /\ Pos(o) \in Nat
  BY <1>2, <1>8
<1>11. Pos(o) <= Pos(r.ack) /\ Pos(o) <= TN
  BY <1>9 DEF TN
<1>12. \A s \in wait \cup retx : Pos(o) < s.id
  <2> SUFFICES ASSUME NEW s \in wait \cup retx PROVE Pos(o) < s.id
    OBVIOUS
  <2>1. s.sn \in cands
    OBVIOUS
  <2>2. Pos(o) <= Pos(s.sn) /\ Pos(s.sn) = s.id - 1 /\ s.id \in Nat
    BY <1>1, <1>9, <2>1
  <2> HIDE DEF o
  <2> QED
    BY <1>10, <2>2
<1> QED
  BY <1>10, <1>11, <1>12

\* process_control_pdu past its checks keeps the invariant.
LEMMA AcknowledgeOK ==
  ASSUME IInv, down = "no", NEW r \in reports, ~Refused(r), Acknowledge(r),
         reports' \subseteq reports,
         UNCHANGED <<sdus, tx_list, tx_next, poll_sn, force_poll, data, lost, down>>,
         UNCHANGED rxVars
  PROVE  IInv'
<1> DEFINE hit == {s \in wait_list : Nacked(r, s)}
           wait == wait_list \ (Gone(r) \cup hit)
           retx == (retransmit_list \ Gone(r)) \cup hit
           left == wait \cup retx \cup {tx_list[k] : k \in 1..Len(tx_list)}
<1>0. /\ Types /\ Order /\ TxShape /\ HeldOK /\ DataOK /\ NoneForgotten /\ AckedOK
      /\ TailNew /\ RingOK /\ HeadsOK /\ TimerOK /\ RepsOK
  BY DEF IInv, SenderOK
<1>1. /\ wait_list' = wait /\ retransmit_list' = retx
      /\ acked' = acked \cup ({s.id : s \in Gone(r)} \ {s.id : s \in left})
      /\ poll_timer' = (poll_timer /\ ~PollAnswered(r))
      /\ tx_next_ack' = OldestUnacked(r.ack, wait, retx)
  BY DEF Acknowledge, Gone
<1>2. wait \cup retx = Held \ Gone(r) /\ wait \cap retx = {} /\ wait \cup retx \subseteq Held
  <2>1. hit \cap Gone(r) = {} /\ hit \subseteq wait_list /\ Gone(r) \subseteq Held
    BY DEF Gone, Held
  <2>2. wait_list \cap retransmit_list = {}
    BY <1>0 DEF HeldOK
  <2> QED
    BY <2>1, <2>2 DEF Held
<1>3. PICK o : o = OldestUnacked(r.ack, wait, retx)
  OBVIOUS
<1>4. /\ o \in Sns /\ TA <= Pos(o) /\ Pos(o) <= Pos(r.ack) /\ Pos(o) <= TN
      /\ \A s \in wait \cup retx : Pos(o) < s.id
  BY <1>2, <1>3, Oldest
<1>5. Held' = Held \ Gone(r) /\ wait_list' \cap retransmit_list' = {} /\ tx_next_ack' = o
      /\ TA' = Pos(o)
  BY <1>1, <1>2, <1>3 DEF Held, TA, Pos
<1>6. \A t \in left : t \in Held \ Gone(r) \/ \E k \in 1..Len(tx_list) : t = tx_list[k]
  BY <1>2
<1>7. \A t : t \in Held \ Gone(r) => t \in left
  BY <1>2
<1>8. \A k \in 1..Len(tx_list) : tx_list[k] \in left
  OBVIOUS
<1>9. wait \subseteq Segment /\ retx \subseteq Segment
  BY <1>0 DEF Types, SenderTypes
<1>10. wait_list' \subseteq Segment /\ retransmit_list' \subseteq Segment
  BY <1>1, <1>9
<1> HIDE DEF wait, retx, left, hit
<1>11. /\ Grows /\ TxShape' /\ TN' = TN /\ TB' = TB /\ (TailUnsent' <=> TailUnsent)
       /\ \A i : Sent(i)' = Sent(i)
       /\ \A x : GoodSeg(x)' <=> GoodSeg(x)
  BY <1>0, QueueKept
<1>12. RingOK' /\ HeadsOK' /\ TimerOK' /\ RepsOK'
  BY <1>0, <1>11, ReceiverKept
<1>13. RN' = RN /\ RS' = RS /\ RH' = RH
  BY DEF RN, RS, RH, Pos, rxVars
<1>14. HeldOK'
  <2>1. \A s \in Held' : TA' < s.id
    BY <1>2, <1>4, <1>5
  <2> QED
    BY <1>0, <1>5, <1>11, <2>1 DEF HeldOK, Bytes
<1>15. NoneForgotten'
  <2>1. \A i, b : Has(i, b)' <=> Has(i, b)
    BY DEF Has, rxVars, Bytes
  <2>2. ASSUME NEW i \in 1..TN, NEW b \in 0..(Sent(i) - 1)
        PROVE  Has(i, b) \/ \E s \in Held' : s.id = i /\ b \in Bytes(s)
    <3>1. CASE Has(i, b)
      BY <3>1
    <3>2. CASE \E s \in Held : s.id = i /\ b \in Bytes(s)
      <4>1. PICK s \in Held : s.id = i /\ b \in Bytes(s)
        BY <3>2
      <4>2. CASE s \in Gone(r)
        BY <4>1, <4>2, GoneHas
      <4>3. CASE s \notin Gone(r)
        BY <1>5, <4>1, <4>3
      <4> QED
        BY <4>2, <4>3
    <3> QED
      BY <1>0, <3>1, <3>2 DEF NoneForgotten
  <2> QED
    BY <1>11, <2>1, <2>2 DEF NoneForgotten, Bytes
<1>16. DataOK' /\ TailNew'
  BY <1>0, <1>11 DEF DataOK, TailNew, rxVars
<1>17. /\ TA \in Nat /\ TN \in Nat /\ TB \in Nat /\ RN \in Nat /\ RS \in Nat /\ RH \in Nat
       /\ W \in Nat /\ N \in Nat /\ Len(sdus) \in Nat /\ RN <= TN /\ TN <= TA + W
       /\ TB <= TN /\ TN <= Len(sdus) /\ Len(sdus) <= N /\ TN <= RN + W /\ W >= 2
  BY Ranges
<1>18. /\ r.good /\ Pos(r.ack) \in Nat /\ Pos(r.ack) <= TB /\ RepOK(r)
  BY NotRefused
<1>19. Pos(o) \in Nat
  BY <1>4, PosType, Widths
<1>20. Pos(o) <= RN
  <2>1. CASE Pos(r.ack) <= RN
    BY <1>4, <1>17, <1>18, <1>19, <2>1
  <2>2. CASE RN < Pos(r.ack)
    <3>1. PICK i \in Nat : i = RN + 1
      BY <1>17
    <3>2. i \in 1..TN /\ i \in 1..TB /\ i \in 1..Pos(r.ack) /\ RN < N
      BY <1>17, <1>18, <2>2, <3>1
    <3>3. delivered[i] = 0
      <4>1. SlotOK(RN)
        BY <1>0, <1>17 DEF RingOK
      <4>2. ~rx[Place(RN)].done
        BY <1>0 DEF HeadsOK
      <4> QED
        BY <3>1, <3>2, <4>1, <4>2 DEF SlotOK
    <3>4. PICK b \in 0..(sdus[i] - 1) : ~Has(i, b)
      BY <3>2, <3>3, AllHas
    <3>5. Covered(r, i, b)
      BY <1>18, <3>2, <3>4 DEF RepOK
    <3>6. Sent(i) = sdus[i]
      BY <1>0, <3>2, SentSizes
    <3>7. PICK s \in Held : s.id = i /\ b \in Bytes(s)
      BY <1>0, <3>2, <3>4, <3>6 DEF NoneForgotten
    <3>8. s \notin Gone(r)
      BY <3>4, <3>7, GoneHas
    <3>9. Pos(o) < i
      BY <1>2, <1>4, <3>7, <3>8
    <3> QED
      BY <1>17, <1>19, <3>1, <3>9
  <2> QED
    BY <1>17, <1>18, <2>1, <2>2
<1>21. Order'
  <2>1. TN <= Pos(o) + W
    BY <1>4, <1>17, <1>19
  <2>2. TA' <= RN' /\ TN' <= TA' + W'
    BY <1>5, <1>11, <1>13, <1>20, <2>1 DEF W, window_size
  <2> QED
    BY <1>0, <1>11, <1>13, <2>2 DEF Order
<1>22. ASSUME NEW i \in {s.id : s \in Gone(r)} \ {s.id : s \in left}
       PROVE  i \in Ids /\ delivered[i] > 0
  <2>1. PICK g \in Gone(r) : g.id = i
    OBVIOUS
  <2>2. GoodSeg(g)
    BY <1>0, <2>1, GoneHas DEF HeldOK
  <2>3. i \in 1..TN /\ i \in Ids
    BY <2>1, <2>2, SegNumbers
  <2>4. ~(TailUnsent /\ i = TN)
    <3> SUFFICES ASSUME TailUnsent, i = TN PROVE FALSE
      OBVIOUS
    <3>1. tx_list[1].id = TN
      BY <1>0 DEF TxShape, TailOK
    <3>2. 1 \in 1..Len(tx_list)
      <4>1. tx_list \in Seq(Segment) /\ Len(tx_list) \in Nat
        BY <1>0 DEF Types, SenderTypes
      <4> QED
        BY <4>1, TailFirst
    <3>3. tx_list[1] \in left
      BY <1>8, <3>2
    <3> QED
      BY <3>1, <3>3
  <2>5. Sent(i) = sdus[i]
    BY <2>4 DEF Sent
  <2>6. ASSUME NEW b \in 0..(sdus[i] - 1) PROVE Has(i, b)
    <3>1. CASE \E s \in Held : s.id = i /\ b \in Bytes(s)
      <4>1. PICK s \in Held : s.id = i /\ b \in Bytes(s)
        BY <3>1
      <4>2. s \in Gone(r)
        BY <1>7, <4>1
      <4> QED
        BY <4>1, <4>2, GoneHas
    <3> QED
      BY <1>0, <2>3, <2>5, <3>1 DEF NoneForgotten
  <2> QED
    BY <2>3, <2>6, AllHas
<1>23. AckedOK' /\ acked' \subseteq Ids
  <2>1. acked \subseteq Ids
    BY <1>0 DEF Types, SenderTypes
  <2>2. \A i \in acked' : i \in Ids /\ delivered[i] > 0
    BY <1>0, <1>1, <1>22, <2>1 DEF AckedOK
  <2> QED
    BY <2>2 DEF AckedOK, rxVars
<1>24. Types'
  <2>1. poll_timer' \in BOOLEAN
    BY <1>0, <1>1 DEF Types, SenderTypes
  <2>2. SenderTypes'
    BY <1>0, <1>4, <1>5, <1>10, <1>23, <2>1 DEF Types, SenderTypes
  <2>3. ReceiverTypes'
    BY <1>0 DEF Types, ReceiverTypes, rxVars, W, window_size
  <2>4. ChannelTypes'
    BY <1>0 DEF Types, ChannelTypes
  <2> QED
    BY <2>2, <2>3, <2>4 DEF Types
<1> QED
  BY <1>11, <1>12, <1>14, <1>15, <1>16, <1>21, <1>23, <1>24 DEF IInv, SenderOK

\* A report arrives.
LEMMA RecvStatusOK ==
  ASSUME IInv, down = "no", NEW r \in reports, RecvStatus(r)
  PROVE  IInv'
<1>1. /\ reports' = reports \ {r}
      /\ UNCHANGED <<sdus, tx_list, tx_next, poll_sn, force_poll, data, lost, down>>
      /\ UNCHANGED rxVars
  BY DEF RecvStatus
<1>2. CASE Refused(r) /\ UNCHANGED <<wait_list, retransmit_list, acked, poll_timer, tx_next_ack>>
  <2>1. lost' \in 0..MaxLoss
    BY <1>1 DEF IInv, Types, ChannelTypes
  <2> QED
    BY <1>1, <1>2, <2>1, LossOK DEF txVars
<1>3. CASE ~Refused(r) /\ Acknowledge(r)
  BY <1>1, <1>3, AcknowledgeOK
<1> QED
  BY <1>2, <1>3 DEF RecvStatus

-----------------------------------------------------------------------------
(* The receiver stores a PDU.                                              *)

\* SlotOK and RingOK of a ring, counts of deliveries, a start of the window and
\* a highest position.
SlotAt(ring, dl, rh, p) ==
  /\ ring[Place(p)].done =>
       ring[Place(p)].pdus = {} /\ p < rh /\ p < N /\ dl[p + 1] = 1
  /\ ~ring[Place(p)].done /\ p < N => dl[p + 1] = 0
  /\ p >= rh => ring[Place(p)].pdus = {}
  /\ \A s \in ring[Place(p)].pdus : GoodSeg(s) /\ s.id = p + 1
  /\ ~sdu_full(ring[Place(p)].pdus)

RingAt(ring, dl, rn, rh) ==
  /\ ring \in [0..(W - 1) -> SlotType] /\ dl \in [Ids -> Nat] /\ rn \in Nat /\ rh \in Nat
  /\ rn <= rh /\ rh <= rn + W /\ rh <= N
  /\ \A p \in Nat : p < rn => dl[p + 1] = 1
  /\ \A p \in Nat : rn <= p /\ p < rn + W => SlotAt(ring, dl, rh, p)
  /\ \A p \in Nat : rn + W <= p /\ p < N => dl[p + 1] = 0

\* The ring as it is.
LEMMA RingNow ==
  ASSUME IInv
  PROVE  RingAt(rx, delivered, RN, RH)
<1>1. /\ RN \in Nat /\ RH \in Nat /\ RH <= TN /\ TN <= RN + W /\ TN <= Len(sdus)
      /\ Len(sdus) <= N /\ TN \in Nat /\ W \in Nat /\ Len(sdus) \in Nat /\ N \in Nat
      /\ RN <= RS /\ RS <= RH /\ RS \in Nat
  BY Ranges
<1>2. RN <= RH /\ RH <= RN + W /\ RH <= N
  BY <1>1
<1>3. rx \in [0..(W - 1) -> SlotType] /\ delivered \in [Ids -> Nat] /\ RingOK
  BY DEF IInv, Types, ReceiverTypes
<1>4. \A p \in Nat : SlotOK(p) => SlotAt(rx, delivered, RH, p)
  BY DEF SlotOK, SlotAt
<1> QED
  BY <1>1, <1>2, <1>3, <1>4 DEF RingAt, RingOK

\* The ring after a step of the receiver.
LEMMA RingNext ==
  ASSUME RingAt(rx', delivered', RN', RH'), \A s : GoodSeg(s) => GoodSeg(s)'
  PROVE  RingOK'
<1>1. \A p \in Nat : SlotAt(rx', delivered', RH', p) => SlotOK(p)'
  BY DEF SlotOK, SlotAt, sdu_full, BytesOf, Bytes, Place, W, window_size
<1> QED
  BY <1>1 DEF RingAt, RingOK, W, window_size

\* How many SDUs in a row were delivered.
LEMMA Run ==
  ASSUME NEW ring, NEW sn \in Sns
  PROVE  /\ DeliveredRun(ring, sn) \in 0..W
         /\ \A j \in Nat : j < DeliveredRun(ring, sn) => ring[Place(Pos(sn) + j)].done
         /\ DeliveredRun(ring, sn) = W \/ ~ring[Place(Pos(sn) + DeliveredRun(ring, sn))].done
<1> DEFINE T == {k \in 0..W : k = W \/ ~ring[Slot(sn + k)].done}
<1>0. W \in Nat
  BY Widths
<1>1. T \subseteq Nat /\ W \in T
  BY <1>0
<1>2. PICK m \in T : \A k \in T : m <= k
  <2> HIDE DEF T
  <2>1. T # {}
    BY <1>1
  <2> QED
    BY <1>1, <2>1, Least
<1>3. m \in 0..W /\ (m = W \/ ~ring[Slot(sn + m)].done)
  OBVIOUS
<1>4. \A j \in 0..(m - 1) : ring[Slot(sn + j)].done
  <2> SUFFICES ASSUME NEW j \in 0..(m - 1) PROVE ring[Slot(sn + j)].done
    OBVIOUS
  <2>1. j \in 0..W /\ j < m
    BY <1>0, <1>3
  <2>2. j \notin T
    BY <1>2, <1>3, <2>1
  <2> QED
    BY <2>1, <2>2
<1> DEFINE k == DeliveredRun(ring, sn)
<1>5. /\ k \in 0..W
      /\ \A j \in 0..(k - 1) : ring[Slot(sn + j)].done
      /\ k = W \/ ~ring[Slot(sn + k)].done
  <2>1. \E x \in 0..window_size : /\ \A j \in 0..(x - 1) : ring[Slot(sn + j)].done
                                  /\ x = window_size \/ ~ring[Slot(sn + x)].done
    BY <1>3, <1>4 DEF W
  <2> HIDE DEF T
  <2> QED
    BY <2>1 DEF DeliveredRun, W
<1> HIDE DEF k
<1>6. \A j \in Nat : Slot(sn + j) = Place(Pos(sn) + j)
  BY SlotPlace
<1>7. k \in Nat /\ \A j \in Nat : j < k => j \in 0..(k - 1)
  BY <1>0, <1>5
<1>8. k \in 0..W /\ (\A j \in Nat : j < k => ring[Place(Pos(sn) + j)].done)
      /\ (k = W \/ ~ring[Place(Pos(sn) + k)].done)
  BY <1>5, <1>6, <1>7
<1> QED
  BY <1>8 DEF k

\* The receiver is about to store a segment of the SDU at position p.
Storing(s, p) ==
  /\ GoodSeg(s) /\ p \in Nat /\ s.id = p + 1 /\ RN <= p /\ p < RN + W /\ p < TN
  /\ ~rx[Place(p)].done

Stored(s) == rx[Slot(s.sn)].pdus \cup {s}

\* The ring, the counts and the highest position with the segment stored.
RingWith(s) ==
  [rx EXCEPT ![Slot(s.sn)] =
     IF sdu_full(Stored(s)) THEN Done ELSE [pdus |-> Stored(s), done |-> FALSE]]

CountsWith(s) ==
  IF sdu_full(Stored(s)) THEN [delivered EXCEPT ![s.id] = @ + 1] ELSE delivered

HighestWith(p) == IF RH <= p THEN p + 1 ELSE RH

\* The place of the segment.
LEMMA StoringPlace ==
  ASSUME IInv, NEW s, NEW p, Storing(s, p)
  PROVE  /\ s.sn \in Sns /\ Pos(s.sn) = p /\ Slot(s.sn) = Place(p) /\ Place(p) \in 0..(W - 1)
         /\ p + 1 \in Ids /\ p < N /\ delivered[p + 1] = 0 /\ s \in Segment
         /\ Stored(s) = rx[Place(p)].pdus \cup {s}
         /\ \A t \in Stored(s) : GoodSeg(t) /\ t.id = p + 1
<1>1. /\ GoodSeg(s) /\ p \in Nat /\ s.id = p + 1 /\ RN <= p /\ p < RN + W /\ p < TN
      /\ ~rx[Place(p)].done
  BY DEF Storing
<1>2. s.sn \in Sns /\ Pos(s.sn) = p /\ s \in Segment /\ p + 1 \in Ids
  <2>1. s.sn \in Sns /\ Pos(s.sn) = s.id - 1 /\ s \in Segment /\ s.id \in Ids
    BY <1>1, SegNumbers
  <2> QED
    BY <1>1, <2>1
<1>3. Slot(s.sn) = Place(p)
  BY <1>2, SlotPos
<1>4. SlotAt(rx, delivered, RH, p)
  BY <1>1, RingNow DEF RingAt
<1>5. p < N
  BY <1>1, <1>2, Ranges
<1>6. delivered[p + 1] = 0 /\ \A t \in rx[Place(p)].pdus : GoodSeg(t) /\ t.id = p + 1
  BY <1>1, <1>4, <1>5 DEF SlotAt
<1>7. Place(p) \in 0..(W - 1)
  BY <1>1, PlaceType
<1> QED
  BY <1>1, <1>2, <1>3, <1>5, <1>6, <1>7 DEF Stored

\* The ring with the segment stored.
LEMMA RingWithIs ==
  ASSUME IInv, NEW s, NEW p, Storing(s, p)
  PROVE  /\ RingWith(s) \in [0..(W - 1) -> SlotType]
         /\ RingWith(s)[Place(p)] = IF sdu_full(Stored(s)) THEN Done
                                    ELSE [pdus |-> Stored(s), done |-> FALSE]
         /\ \A k \in 0..(W - 1) : k # Place(p) => RingWith(s)[k] = rx[k]
         /\ \A q \in Nat : RN <= q /\ q < RN + W /\ q # p =>
              Place(q) # Place(p) /\ RingWith(s)[Place(q)] = rx[Place(q)]
         /\ CountsWith(s) \in [Ids -> Nat]
         /\ CountsWith(s)[p + 1] = IF sdu_full(Stored(s)) THEN 1 ELSE 0
         /\ \A i \in Ids : i # p + 1 => CountsWith(s)[i] = delivered[i]
<1>0. rx \in [0..(W - 1) -> SlotType] /\ delivered \in [Ids -> Nat]
  BY DEF IInv, Types, ReceiverTypes
<1>1. /\ s.sn \in Sns /\ Pos(s.sn) = p /\ Slot(s.sn) = Place(p) /\ Place(p) \in 0..(W - 1)
      /\ p + 1 \in Ids /\ p < N /\ delivered[p + 1] = 0 /\ s \in Segment
      /\ Stored(s) = rx[Place(p)].pdus \cup {s}
  BY StoringPlace
<1>2. p \in Nat /\ s.id = p + 1 /\ RN <= p /\ p < RN + W
  BY DEF Storing
<1>3. Done \in SlotType /\ [pdus |-> Stored(s), done |-> FALSE] \in SlotType
  <2>1. rx[Place(p)] \in SlotType
    BY <1>0, <1>1
  <2>2. Stored(s) \subseteq Segment
    BY <1>1, <2>1 DEF SlotType
  <2> QED
    BY <2>2 DEF Done, SlotType
<1> DEFINE v == IF sdu_full(Stored(s)) THEN Done ELSE [pdus |-> Stored(s), done |-> FALSE]
<1>4. v \in SlotType /\ RingWith(s) = [rx EXCEPT ![Place(p)] = v]
  BY <1>1, <1>3 DEF RingWith
<1> HIDE DEF v
<1>5. /\ RingWith(s) \in [0..(W - 1) -> SlotType] /\ RingWith(s)[Place(p)] = v
      /\ \A k \in 0..(W - 1) : k # Place(p) => RingWith(s)[k] = rx[k]
  BY <1>0, <1>1, <1>4
<1>6. \A q \in Nat : RN <= q /\ q < RN + W /\ q # p =>
              Place(q) # Place(p) /\ RingWith(s)[Place(q)] = rx[Place(q)]
  <2> SUFFICES ASSUME NEW q \in Nat, RN <= q, q < RN + W, q # p
               PROVE  Place(q) # Place(p) /\ RingWith(s)[Place(q)] = rx[Place(q)]
    OBVIOUS
  <2>1. RN \in Nat /\ W \in Nat
    BY Ranges
  <2>2. Place(q) # Place(p)
    <3>1. CASE q < p
      <4>1. p < q + W
        BY <1>2, <2>1
      <4> QED
        BY <1>2, <3>1, <4>1, PlaceInj
    <3>2. CASE p < q
      <4>1. q < p + W
        BY <1>2, <2>1
      <4> QED
        BY <1>2, <3>2, <4>1, PlaceInj
    <3> QED
      BY <1>2, <3>1, <3>2
  <2> QED
    BY <1>5, <2>2, PlaceType
<1>7. /\ CountsWith(s) \in [Ids -> Nat]
      /\ CountsWith(s)[p + 1] = IF sdu_full(Stored(s)) THEN 1 ELSE 0
      /\ \A i \in Ids : i # p + 1 => CountsWith(s)[i] = delivered[i]
  <2>1. CASE sdu_full(Stored(s))
    <3>1. CountsWith(s) = [delivered EXCEPT ![p + 1] = @ + 1]
      BY <1>2, <2>1 DEF CountsWith
    <3> QED
      BY <1>0, <1>1, <2>1, <3>1
  <2>2. CASE ~sdu_full(Stored(s))
    BY <1>0, <1>1, <2>2 DEF CountsWith
  <2> QED
    BY <2>1, <2>2
<1> QED
  BY <1>5, <1>6, <1>7 DEF v

\* The ring with the segment stored is one of the same window.
LEMMA StoreRing ==
  ASSUME IInv, NEW s, NEW p, Storing(s, p)
  PROVE  RingAt(RingWith(s), CountsWith(s), RN, HighestWith(p))
<1> DEFINE ring == RingWith(s)
           dl == CountsWith(s)
           rh == HighestWith(p)
<1>0. RingAt(rx, delivered, RN, RH)
  BY RingNow
<1>1. /\ p \in Nat /\ RN <= p /\ p < RN + W /\ p < TN /\ p < N
      /\ \A t \in Stored(s) : GoodSeg(t) /\ t.id = p + 1
  BY StoringPlace DEF Storing
<1>2. /\ RN \in Nat /\ RH \in Nat /\ W \in Nat /\ N \in Nat /\ TN \in Nat /\ RH <= TN
      /\ TN <= RN + W /\ TN <= N
  BY Ranges
<1>3. rh \in Nat /\ RH <= rh /\ p < rh /\ rh <= TN
  BY <1>1, <1>2 DEF HighestWith
<1>4. /\ ring \in [0..(W - 1) -> SlotType]
      /\ ring[Place(p)] = IF sdu_full(Stored(s)) THEN Done
                                    ELSE [pdus |-> Stored(s), done |-> FALSE]
      /\ \A q \in Nat : RN <= q /\ q < RN + W /\ q # p => ring[Place(q)] = rx[Place(q)]
      /\ dl \in [Ids -> Nat]
      /\ dl[p + 1] = IF sdu_full(Stored(s)) THEN 1 ELSE 0
      /\ \A i \in Ids : i # p + 1 => dl[i] = delivered[i]
  BY RingWithIs
<1> HIDE DEF ring, dl, rh
<1>5. \A q \in Nat : q < N /\ q # p => q + 1 \in Ids /\ q + 1 # p + 1
  BY <1>1, <1>2 DEF Ids
<1>6. \A q \in Nat : q < N /\ q # p => dl[q + 1] = delivered[q + 1]
  BY <1>4, <1>5
<1>7. ASSUME NEW q \in Nat, q < RN PROVE dl[q + 1] = 1
  <2>1. q < N /\ q # p
    BY <1>1, <1>2, <1>7
  <2> QED
    BY <1>0, <1>6, <1>7, <2>1 DEF RingAt
<1>8. ASSUME NEW q \in Nat, RN + W <= q, q < N PROVE dl[q + 1] = 0
  <2>1. q # p
    BY <1>1, <1>2, <1>8
  <2> QED
    BY <1>0, <1>6, <1>8, <2>1 DEF RingAt
<1>9. ASSUME NEW q \in Nat, RN <= q, q < RN + W PROVE SlotAt(ring, dl, rh, q)
  <2>1. CASE q = p
    <3>1. CASE sdu_full(Stored(s))
      <4>1. ring[Place(p)] = Done /\ dl[p + 1] = 1
        BY <1>4, <3>1
      <4>2. ~sdu_full({})
        BY DEF sdu_full
      <4> QED
        BY <1>1, <1>3, <2>1, <4>1, <4>2 DEF SlotAt, Done
    <3>2. CASE ~sdu_full(Stored(s))
      <4>1. ring[Place(p)].pdus = Stored(s) /\ ~ring[Place(p)].done /\ dl[p + 1] = 0
        BY <1>4, <3>2
      <4>2. ~(p >= rh)
        BY <1>1, <1>3
      <4> QED
        BY <1>1, <2>1, <3>2, <4>1, <4>2 DEF SlotAt
    <3> QED
      BY <3>1, <3>2
  <2>2. CASE q # p
    <3>1. SlotAt(rx, delivered, RH, q)
      BY <1>0, <1>9 DEF RingAt
    <3>2. ring[Place(q)] = rx[Place(q)]
      BY <1>4, <1>9, <2>2
    <3>3. q < N => dl[q + 1] = delivered[q + 1]
      BY <1>6, <2>2
    <3>4. (q < RH => q < rh) /\ (q >= rh => q >= RH)
      BY <1>2, <1>3
    <3> QED
      BY <3>1, <3>2, <3>3, <3>4 DEF SlotAt
  <2> QED
    BY <2>1, <2>2
<1>10. RN <= rh /\ rh <= RN + W /\ rh <= N
  <2>1. RN <= RH
    BY <1>0 DEF RingAt
  <2> QED
    BY <1>2, <1>3, <2>1
<1>11. RingAt(ring, dl, RN, rh)
  BY <1>2, <1>3, <1>4, <1>7, <1>8, <1>9, <1>10 DEF RingAt
<1> QED
  BY <1>11 DEF ring, dl, rh

\* A ring of which the first SDUs were delivered and are taken out.
Emptied(ring, n) ==
  [k \in DOMAIN ring |->
     IF \E j \in 0..(n - 1) : k = Slot(rx_next + j) THEN Empty ELSE ring[k]]

\* The window moves over what was delivered.
LEMMA MoveRing ==
  ASSUME IInv, NEW ring, NEW dl, NEW rh, RingAt(ring, dl, RN, rh), NEW n \in 0..W,
         \A j \in Nat : j < n => ring[Place(RN + j)].done
  PROVE  /\ RingAt(Emptied(ring, n), dl, RN + n, rh)
         /\ RN + n <= rh
         /\ \A q \in Nat : RN + n <= q /\ q < RN + W => Emptied(ring, n)[Place(q)] = ring[Place(q)]
         /\ \A j \in Nat : j < n => Emptied(ring, n)[Place(RN + j)] = Empty
         /\ \A k \in 0..(W - 1) : Emptied(ring, n)[k] = ring[k] \/ ring[k].done
<1> DEFINE kept == Emptied(ring, n)
<1>0. RN \in Nat /\ W \in Nat /\ N \in Nat /\ n \in Nat /\ n <= W /\ rx_next \in Sns
  BY Ranges DEF IInv, Types, ReceiverTypes
<1>1. ring \in [0..(W - 1) -> SlotType] /\ rh <= RN + W /\ rh \in Nat /\ dl \in [Ids -> Nat]
      /\ rh <= N /\ RN <= rh
  BY DEF RingAt
<1>2. \A j \in Nat : Slot(rx_next + j) = Place(RN + j)
  BY <1>0, SlotPlace DEF RN
<1>3. \A k \in 0..(W - 1) :
        kept[k] = IF \E j \in Nat : j < n /\ k = Place(RN + j) THEN Empty ELSE ring[k]
  <2> SUFFICES ASSUME NEW k \in 0..(W - 1)
               PROVE  kept[k] = IF \E j \in Nat : j < n /\ k = Place(RN + j)
                                THEN Empty ELSE ring[k]
    OBVIOUS
  <2>1. \A j : j \in 0..(n - 1) <=> j \in Nat /\ j < n
    BY <1>0
  <2>2. (\E j \in 0..(n - 1) : k = Slot(rx_next + j)) <=> \E j \in Nat : j < n /\ k = Place(RN + j)
    BY <1>2, <2>1
  <2> QED
    BY <1>1, <2>2 DEF Emptied
<1>4. kept \in [0..(W - 1) -> SlotType]
  <2>1. Empty \in SlotType
    BY DEF Empty, SlotType
  <2> QED
    BY <1>1, <2>1 DEF Emptied
<1> HIDE DEF kept
<1>5. \A j \in Nat : j < n => kept[Place(RN + j)] = Empty
  <2> SUFFICES ASSUME NEW j \in Nat, j < n PROVE kept[Place(RN + j)] = Empty
    OBVIOUS
  <2>1. Place(RN + j) \in 0..(W - 1)
    BY <1>0, PlaceType
  <2> QED
    BY <1>3, <2>1
<1>6. \A q \in Nat : RN + n <= q /\ q < RN + W => kept[Place(q)] = ring[Place(q)]
  <2> SUFFICES ASSUME NEW q \in Nat, RN + n <= q, q < RN + W
               PROVE  kept[Place(q)] = ring[Place(q)]
    OBVIOUS
  <2>1. ASSUME NEW j \in Nat, j < n PROVE Place(q) # Place(RN + j)
    <3>1. PICK u \in Nat : u = RN + j
      BY <1>0
    <3>2. u < q /\ q < u + W
      BY <1>0, <2>1, <3>1
    <3> QED
      BY <3>1, <3>2, PlaceInj
  <2>2. Place(q) \in 0..(W - 1)
    BY PlaceType
  <2> QED
    BY <1>3, <2>1, <2>2
<1>7. \A k \in 0..(W - 1) : kept[k] = ring[k] \/ ring[k].done
  BY <1>3
<1>8. \A j \in Nat : j < n => RN + j \in Nat /\ SlotAt(ring, dl, rh, RN + j)
  <2> SUFFICES ASSUME NEW j \in Nat, j < n PROVE RN + j \in Nat /\ SlotAt(ring, dl, rh, RN + j)
    OBVIOUS
  <2>1. RN + j \in Nat /\ RN <= RN + j /\ RN + j < RN + W
    BY <1>0
  <2> QED
    BY <2>1 DEF RingAt
<1>9. \A j \in Nat : j < n => RN + j < rh /\ dl[(RN + j) + 1] = 1
  BY <1>8 DEF SlotAt
<1>10. RN + n <= rh
  <2>1. CASE n = 0
    BY <1>0, <1>1, <2>1
  <2>2. CASE n # 0
    <3>1. n - 1 \in Nat /\ n - 1 < n
      BY <1>0, <2>2
    <3>2. RN + (n - 1) < rh
      BY <1>9, <3>1
    <3> QED
      BY <1>0, <1>1, <3>2
  <2> QED
    BY <2>1, <2>2
<1>11. ASSUME NEW q \in Nat, q < RN + n PROVE dl[q + 1] = 1
  <2>1. CASE q < RN
    BY <2>1 DEF RingAt
  <2>2. CASE RN <= q
    <3>1. PICK j \in Nat : q = RN + j /\ j < n
      <4>1. q - RN \in Nat /\ q = RN + (q - RN) /\ q - RN < n
        BY <1>0, <1>11, <2>2
      <4> QED
        BY <4>1
    <3> QED
      BY <1>9, <3>1
  <2> QED
    BY <1>0, <2>1, <2>2
<1>12. ASSUME NEW q \in Nat, RN + n <= q, q < (RN + n) + W PROVE SlotAt(kept, dl, rh, q)
  <2>1. CASE q < RN + W
    <3>1. kept[Place(q)] = ring[Place(q)]
      BY <1>6, <1>12, <2>1
    <3>2. RN <= q
      BY <1>0, <1>12
    <3>3. SlotAt(ring, dl, rh, q)
      BY <2>1, <3>2 DEF RingAt
    <3> QED
      BY <3>1, <3>3 DEF SlotAt
  <2>2. CASE RN + W <= q
    <3>1. PICK j \in Nat : q = (RN + j) + W /\ j < n
      <4>1. q - W - RN \in Nat /\ q = (RN + (q - W - RN)) + W /\ q - W - RN < n
        BY <1>0, <1>12, <2>2
      <4> QED
        BY <4>1
    <3>2. Place(q) = Place(RN + j)
      <4>1. PICK u \in Nat : u = RN + j
        BY <1>0
      <4> QED
        BY <3>1, <4>1, PlaceAgain
    <3>3. kept[Place(q)] = Empty
      BY <1>5, <3>1, <3>2
    <3>4. q < N => dl[q + 1] = 0
      BY <2>2 DEF RingAt
    <3>5. ~sdu_full({})
      BY DEF sdu_full
    <3> QED
      BY <3>3, <3>4, <3>5 DEF SlotAt, Empty
  <2> QED
    BY <1>0, <2>1, <2>2
<1>13. ASSUME NEW q \in Nat, (RN + n) + W <= q, q < N PROVE dl[q + 1] = 0
  <2>1. RN + W <= q
    BY <1>0, <1>13
  <2> QED
    BY <1>13, <2>1 DEF RingAt
<1>14. RN + n \in Nat /\ rh <= (RN + n) + W
  BY <1>0, <1>1
<1>15. RingAt(kept, dl, RN + n, rh)
  BY <1>1, <1>4, <1>10, <1>11, <1>12, <1>13, <1>14 DEF RingAt
<1> QED
  BY <1>5, <1>6, <1>7, <1>10, <1>15 DEF kept

\* The highest SN with the segment stored.
LEMMA HighestPos ==
  ASSUME IInv, NEW s, NEW p, Storing(s, p)
  PROVE  Highest(s.sn) \in Sns /\ Pos(Highest(s.sn)) = HighestWith(p)
<1>1. s.sn \in Sns /\ Pos(s.sn) = p
  BY StoringPlace
<1>2. p \in Nat /\ RN <= p /\ p < TN
  BY DEF Storing
<1>3. rx_next \in Sns /\ rx_next_highest \in Sns
  BY DEF IInv, Types, ReceiverTypes
<1>4. RN \in Nat /\ RH \in Nat /\ TN \in Nat /\ TN < SnMod /\ SnMod \in Nat /\ RN <= RH
  BY Ranges
<1>5. ModRx(rx_next, s.sn) = p - RN
  BY <1>1, <1>2, <1>3, Distance DEF ModRx, RN
<1>6. ModRx(rx_next, rx_next_highest) = RH - RN
  BY <1>3, <1>4, Distance DEF ModRx, RN, RH
<1>7. ModRx(rx_next, s.sn) >= ModRx(rx_next, rx_next_highest) <=> RH <= p
  BY <1>2, <1>4, <1>5, <1>6
<1>8. Plus(s.sn, 1) \in Sns /\ Pos(Plus(s.sn, 1)) = p + 1
  <2>1. Pos(s.sn) + 1 < SnMod
    BY <1>1, <1>2, <1>4
  <2> QED
    BY <1>1, <2>1, PlusPos
<1> QED
  BY <1>3, <1>7, <1>8 DEF Highest, HighestWith, RH

\* An SDU that is not all sent is not delivered.
LEMMA TailCounts ==
  ASSUME IInv, NEW s, NEW p, Storing(s, p), TailUnsent
  PROVE  CountsWith(s)[TN] = 0
<1>1. TailNew /\ delivered[TN] = 0 /\ TN \in Nat /\ TN >= 1 /\ Sent(TN) < sdus[TN]
  BY SentSizes DEF IInv, SenderOK, TailNew
<1>2. TN \in Ids
  <2>1. TN <= N /\ N \in Nat
    BY Ranges
  <2> QED
    BY <1>1, <2>1 DEF Ids
<1>3. CASE p + 1 # TN
  <2>1. \A i \in Ids : i # p + 1 => CountsWith(s)[i] = delivered[i]
    BY RingWithIs
  <2> QED
    BY <1>1, <1>2, <1>3, <2>1
<1>4. CASE p + 1 = TN
  <2>1. SUFFICES ASSUME sdu_full(Stored(s)) PROVE FALSE
    BY <1>4, RingWithIs
  <2>2. PICK l \in Stored(s) : l.last
    BY <2>1 DEF sdu_full
  <2>3. GoodSeg(l) /\ l.id = TN
    BY <1>4, StoringPlace
  <2>4. l.so + l.size = sdus[TN] /\ l.so + l.size <= Sent(TN)
    BY <2>2, <2>3 DEF GoodSeg
  <2>5. Sent(TN) \in Nat /\ sdus[TN] \in Nat
    BY <2>3, SegNumbers
  <2> QED
    BY <1>1, <2>4, <2>5
<1> QED
  BY <1>3, <1>4

\* The run of delivered SDUs that begins with the one that was just completed.
LEMMA RunWith ==
  ASSUME IInv, down = "no", NEW s, NEW p, Storing(s, p), sdu_full(Stored(s)),
         NEW n, n = DeliveredRun(RingWith(s), s.sn)
  PROVE  /\ n \in Nat /\ n \in 0..W /\ 1 <= n
         /\ \A j \in Nat : j < n => RingWith(s)[Place(p + j)].done
         /\ n = W \/ ~RingWith(s)[Place(p + n)].done
         /\ p # RN => n < W
         /\ p + n <= RN + W
         /\ p + n <= HighestWith(p)
         /\ p <= TB => p + n <= TB
<1> DEFINE ring == RingWith(s)
<1>0. /\ RN \in Nat /\ W \in Nat /\ TN \in Nat /\ TB \in Nat /\ W >= 2 /\ RH \in Nat
      /\ RH <= TN /\ N \in Nat
  BY Ranges
<1>1. p \in Nat /\ RN <= p /\ p < RN + W /\ p < TN
  BY DEF Storing
<1>2. s.sn \in Sns /\ Pos(s.sn) = p
  BY StoringPlace
<1>3. /\ n \in 0..W /\ n \in Nat
      /\ \A j \in Nat : j < n => ring[Place(p + j)].done
      /\ n = W \/ ~ring[Place(p + n)].done
  BY <1>0, <1>2, Run
<1>4. ring[Place(p)] = Done /\ ring[Place(p)].done
  <2>1. RingWith(s)[Place(p)] = IF sdu_full(Stored(s)) THEN Done
                                ELSE [pdus |-> Stored(s), done |-> FALSE]
    BY RingWithIs
  <2>2. RingWith(s)[Place(p)] = Done
    BY <2>1
  <2> QED
    BY <2>2 DEF Done
<1>5. 1 <= n
  <2> SUFFICES ASSUME n = 0 PROVE FALSE
    BY <1>3
  <2>1. ~ring[Place(p + 0)].done
    BY <1>0, <1>3
  <2>2. p + 0 = p
    BY <1>1
  <2> QED
    BY <1>4, <2>1, <2>2
<1>6. RingAt(ring, CountsWith(s), RN, HighestWith(p))
  BY StoreRing
<1>7. p # RN => p + n <= RN + W /\ n < W
  <2> SUFFICES ASSUME p # RN, ~(p + n <= RN + W) PROVE FALSE
    BY <1>0, <1>1, <1>3
  <2>1. PICK j \in Nat : p + j = RN + W /\ j < n
    <3>1. RN + W - p \in Nat /\ p + (RN + W - p) = RN + W /\ RN + W - p < n
      BY <1>0, <1>1, <1>3
    <3> QED
      BY <3>1
  <2>2. ring[Place(RN + W)].done
    BY <1>3, <2>1
  <2>3. Place(RN + W) = Place(RN)
    BY <1>0, PlaceAgain
  <2>4. RN <= RN /\ RN < RN + W
    BY <1>0
  <2>5. ring[Place(RN)] = rx[Place(RN)]
    <3>1. \A q \in Nat : RN <= q /\ q < RN + W /\ q # p => ring[Place(q)] = rx[Place(q)]
      BY RingWithIs
    <3> HIDE DEF ring
    <3> QED
      BY <1>0, <2>4, <3>1
  <2>6. ~rx[Place(RN)].done
    BY DEF IInv, HeadsOK
  <2> QED
    BY <2>2, <2>3, <2>5, <2>6
<1>8. p + n <= RN + W
  BY <1>0, <1>1, <1>3, <1>7
<1>9. \A q \in Nat : p <= q /\ q < p + n => ring[Place(q)].done /\ SlotAt(ring, CountsWith(s), HighestWith(p), q)
  <2> SUFFICES ASSUME NEW q \in Nat, p <= q, q < p + n
               PROVE  ring[Place(q)].done /\ SlotAt(ring, CountsWith(s), HighestWith(p), q)
    OBVIOUS
  <2>1. PICK j \in Nat : q = p + j /\ j < n
    <3>1. q - p \in Nat /\ q = p + (q - p) /\ q - p < n
      BY <1>1, <1>3
    <3> QED
      BY <3>1
  <2>2. ring[Place(q)].done
    BY <1>3, <2>1
  <2>3. RN <= q /\ q < RN + W
    BY <1>0, <1>1, <1>3, <1>8
  <2> QED
    BY <1>6, <2>2, <2>3 DEF RingAt
<1>10. HighestWith(p) \in Nat /\ p < HighestWith(p) /\ HighestWith(p) <= TN
  BY <1>0, <1>1 DEF HighestWith
<1>11. p + n <= HighestWith(p)
  <2> SUFFICES ASSUME HighestWith(p) < p + n PROVE FALSE
    BY <1>1, <1>3, <1>10
  <2>1. SlotAt(ring, CountsWith(s), HighestWith(p), HighestWith(p)) /\ ring[Place(HighestWith(p))].done
    BY <1>1, <1>9, <1>10
  <2> QED
    BY <1>10, <2>1 DEF SlotAt
<1>12. ASSUME p <= TB PROVE p + n <= TB
  <2>1. CASE ~TailUnsent
    <3>1. TB = TN
      BY <2>1 DEF TB
    <3> QED
      BY <1>0, <1>1, <1>3, <1>10, <1>11, <3>1
  <2>2. CASE TailUnsent
    <3>1. TB = TN - 1 /\ TN >= 1
      BY <2>2, SentSizes DEF IInv, SenderOK
    <3> SUFFICES ASSUME ~(p + n <= TB) PROVE FALSE
      OBVIOUS
    <3>2. TB + 1 = TN /\ p <= TB /\ TB < p + n
      BY <1>0, <1>1, <1>3, <1>12, <3>1
    <3>3. SlotAt(ring, CountsWith(s), HighestWith(p), TB) /\ ring[Place(TB)].done
      BY <1>0, <1>9, <3>2
    <3>4. CountsWith(s)[TB + 1] = 1
      BY <3>3 DEF SlotAt
    <3>5. CountsWith(s)[TN] = 0
      BY <2>2, TailCounts
    <3> QED
      BY <3>2, <3>4, <3>5
  <2> QED
    BY <2>1, <2>2
<1> QED
  BY <1>3, <1>5, <1>7, <1>8, <1>11, <1>12

\* The window of the receiver after a segment was stored: its start, and where a
\* report ends.
StartWith(s, p) ==
  IF sdu_full(Stored(s)) /\ p = RN THEN RN + DeliveredRun(RingWith(s), s.sn) ELSE RN

StatusWith(s, p) ==
  IF sdu_full(Stored(s)) /\ p = RS THEN p + DeliveredRun(RingWith(s), s.sn) ELSE RS

KeptWith(s, p) ==
  IF sdu_full(Stored(s)) /\ p = RN
    THEN Emptied(RingWith(s), DeliveredRun(RingWith(s), s.sn)) ELSE RingWith(s)

\* The walk of rx_highest_status over the ring does not end.
Endless(s, p) ==
  sdu_full(Stored(s)) /\ p = RS /\ DeliveredRun(RingWith(s), s.sn) = W

\* The window after a segment was stored.
LEMMA WindowWith ==
  ASSUME IInv, down = "no", NEW s, NEW p, Storing(s, p), ~Endless(s, p),
         NEW n1, n1 = StartWith(s, p), NEW s1, s1 = StatusWith(s, p),
         NEW kept, kept = KeptWith(s, p)
  PROVE  /\ RingAt(kept, CountsWith(s), n1, HighestWith(p))
         /\ n1 \in Nat /\ s1 \in Nat /\ RN <= n1 /\ n1 <= RN + W
         /\ n1 <= s1 /\ s1 <= HighestWith(p) /\ s1 <= TB
         /\ ~kept[Place(n1)].done /\ ~kept[Place(s1)].done
<1> DEFINE ring == RingWith(s)
           n == DeliveredRun(ring, s.sn)
           full == sdu_full(Stored(s))
<1>0. /\ RN \in Nat /\ W \in Nat /\ TN \in Nat /\ TB \in Nat /\ W >= 2 /\ RH \in Nat
      /\ RS \in Nat /\ RN <= RS /\ RS <= RH /\ RH <= TN /\ RS <= TB /\ TN <= RN + W
  BY Ranges
<1>1. p \in Nat /\ RN <= p /\ p < RN + W /\ p < TN
  BY DEF Storing
<1>2. RingAt(ring, CountsWith(s), RN, HighestWith(p))
  BY StoreRing
<1>3. ~rx[Place(RN)].done /\ ~rx[Place(RS)].done
  BY DEF IInv, HeadsOK
<1>4. \A q \in Nat : RN <= q /\ q < RN + W /\ q # p => ring[Place(q)] = rx[Place(q)]
  BY RingWithIs
<1>5. HighestWith(p) \in Nat /\ RH <= HighestWith(p) /\ RN < RN + W
  BY <1>0, <1>1 DEF HighestWith
<1>6. Place(RN + W) = Place(RN)
  BY <1>0, PlaceAgain
<1> HIDE DEF ring
<1>7. CASE ~full
  <2>1. n1 = RN /\ s1 = RS /\ kept = ring
    BY <1>7 DEF StartWith, StatusWith, KeptWith, ring
  <2>2. ~ring[Place(p)].done
    <3>1. RingWith(s)[Place(p)] = IF sdu_full(Stored(s)) THEN Done
                                  ELSE [pdus |-> Stored(s), done |-> FALSE]
      BY RingWithIs
    <3>2. RingWith(s)[Place(p)] = [pdus |-> Stored(s), done |-> FALSE]
      BY <1>7, <3>1
    <3> QED
      BY <3>2 DEF ring
  <2>3. \A q \in Nat : RN <= q /\ q < RN + W /\ ~rx[Place(q)].done => ~ring[Place(q)].done
    BY <1>4, <2>2
  <2>4. ~ring[Place(RN)].done
    BY <1>0, <1>3, <1>5, <2>3
  <2>5. ~ring[Place(RS)].done
    <3>1. CASE RS < RN + W
      BY <1>0, <1>3, <2>3, <3>1
    <3>2. CASE RS = RN + W
      BY <1>6, <2>4, <3>2
    <3> QED
      BY <1>0, <3>1, <3>2
  <2> QED
    BY <1>0, <1>2, <1>5, <2>1, <2>4, <2>5
<1>8. CASE full
  <2>1. PICK r : r = n
    OBVIOUS
  <2>2. /\ r \in Nat /\ r \in 0..W /\ 1 <= r
        /\ \A j \in Nat : j < r => ring[Place(p + j)].done
        /\ r = W \/ ~ring[Place(p + r)].done
        /\ p # RN => r < W
        /\ p + r <= RN + W
        /\ p + r <= HighestWith(p)
        /\ p <= TB => p + r <= TB
    BY <1>8, <2>1, RunWith DEF ring
  <2>3. CASE p # RN
    <3>1. n1 = RN /\ kept = ring /\ s1 = (IF p = RS THEN p + r ELSE RS)
      BY <1>8, <2>1, <2>3 DEF StartWith, StatusWith, KeptWith, ring
    <3>2. ~ring[Place(RN)].done
      BY <1>0, <1>3, <1>4, <1>5, <2>3
    <3>3. CASE p = RS
      <4>1. s1 = p + r /\ ~ring[Place(s1)].done
        BY <2>2, <2>3, <3>1, <3>3
      <4>2. RN <= s1 /\ s1 \in Nat /\ s1 <= TB
        BY <1>0, <1>1, <2>2, <3>3, <4>1
      <4> QED
        BY <1>0, <1>2, <2>2, <3>1, <3>2, <4>1, <4>2
    <3>4. CASE p # RS
      <4>1. ~ring[Place(RS)].done
        <5>1. CASE RS < RN + W
          BY <1>0, <1>3, <1>4, <3>4, <5>1
        <5>2. CASE RS = RN + W
          BY <1>6, <3>2, <5>2
        <5> QED
          BY <1>0, <5>1, <5>2
      <4> QED
        BY <1>0, <1>2, <1>5, <3>1, <3>2, <3>4, <4>1
    <3> QED
      BY <3>3, <3>4
  <2>4. CASE p = RN
    <3>1. n1 = RN + r /\ kept = Emptied(ring, r) /\ s1 = (IF p = RS THEN RN + r ELSE RS)
      BY <1>8, <2>1, <2>4 DEF StartWith, StatusWith, KeptWith, ring
    <3>2. PICK rh : rh = HighestWith(p)
      OBVIOUS
    <3>3. \A j \in Nat : j < r => ring[Place(RN + j)].done
      BY <2>2, <2>4
    <3>4. /\ RingAt(kept, CountsWith(s), n1, rh)
          /\ \A q \in Nat : n1 <= q /\ q < RN + W => kept[Place(q)] = ring[Place(q)]
          /\ \A j \in Nat : j < r => kept[Place(RN + j)] = Empty
      BY <1>2, <2>2, <3>1, <3>2, <3>3, MoveRing
    <3>5. ~kept[Place(n1)].done
      <4>1. CASE r = W
        <5>1. Place(n1) = Place(RN + 0)
          BY <1>0, <1>6, <3>1, <4>1
        <5>2. kept[Place(RN + 0)] = Empty
          BY <2>2, <3>4
        <5> QED
          BY <5>1, <5>2 DEF Empty
      <4>2. CASE r # W
        <5>1. n1 \in Nat /\ n1 < RN + W /\ n1 = p + r
          BY <1>0, <2>2, <2>4, <3>1, <4>2
        <5> QED
          BY <2>2, <3>4, <4>2, <5>1
      <4> QED
        BY <4>1, <4>2
    <3>6. CASE p = RS
      <4>1. s1 = n1 /\ s1 <= TB
        BY <1>0, <2>2, <2>4, <3>1, <3>6
      <4> QED
        BY <1>0, <2>2, <2>4, <3>1, <3>2, <3>4, <3>5, <4>1
    <3>7. CASE p # RS
      <4>0. s1 = RS /\ RN < RS
        BY <1>0, <2>4, <3>1, <3>7
      <4>1. RS < RN + W => ~ring[Place(RS)].done
        BY <1>0, <1>3, <1>4, <3>7
      <4>2. n1 <= RS
        <5> SUFFICES ASSUME RS < RN + r PROVE FALSE
          BY <1>0, <2>2, <3>1
        <5>1. PICK j \in Nat : RS = RN + j /\ j < r
          <6>1. RS - RN \in Nat /\ RS = RN + (RS - RN) /\ RS - RN < r
            BY <1>0, <2>2
          <6> QED
            BY <6>1
        <5>2. ring[Place(RS)].done
          BY <3>3, <5>1
        <5>3. RS < RN + W
          BY <1>0, <2>2
        <5> QED
          BY <4>1, <5>2, <5>3
      <4>3. ~kept[Place(RS)].done
        <5>1. CASE RS < RN + W
          BY <1>0, <3>4, <4>1, <4>2, <5>1
        <5>2. CASE RS = RN + W
          <6>1. Place(RS) = Place(RN + 0)
            BY <1>0, <1>6, <5>2
          <6>2. kept[Place(RN + 0)] = Empty
            BY <2>2, <3>4
          <6> QED
            BY <6>1, <6>2 DEF Empty
        <5> QED
          BY <1>0, <5>1, <5>2
      <4> QED
        BY <1>0, <1>5, <2>2, <3>1, <3>2, <3>4, <3>5, <4>0, <4>2, <4>3
    <3> QED
      BY <3>6, <3>7
  <2> QED
    BY <2>3, <2>4
<1> QED
  BY <1>7, <1>8

\* The next SN is another one.
LEMMA PlusOther ==
  ASSUME NEW sn \in Sns
  PROVE  Plus(sn, 1) # sn
<1>1. SnMod \in Nat \ {0} /\ SnMod >= 4 /\ sn \in Nat /\ sn < SnMod
  BY Widths, RlcAssumption DEF Sns
<1>2. CASE sn + 1 < SnMod
  <2>1. PICK z \in 0..(SnMod - 1) : z = sn + 1
    BY <1>1, <1>2
  <2>2. (SnMod * 0 + z) % SnMod = z
    BY <1>1, ModUnique
  <2>3. Plus(sn, 1) = sn + 1
    BY <1>1, <2>1, <2>2 DEF Plus
  <2> QED
    BY <1>1, <2>3
<1>3. CASE sn + 1 = SnMod
  <2>1. (SnMod * 1 + 0) % SnMod = 0
    BY <1>1, ModUnique
  <2>2. Plus(sn, 1) = 0
    BY <1>1, <1>3, <2>1 DEF Plus
  <2> QED
    BY <1>1, <1>3, <2>2
<1> QED
  BY <1>1, <1>2, <1>3

\* What t_reassembly waits for after a PDU was stored lies in the window.
LEMMA TimerStep ==
  ASSUME IInv, NEW ring, NEW next \in Sns, NEW hi \in Sns, NEW n1, NEW h1,
         n1 = Pos(next), h1 = Pos(hi), RN <= n1, n1 <= RN + W, n1 <= h1, RH <= h1,
         Reassembly(ring, next, hi)
  PROVE  /\ reassembly_timer' \in BOOLEAN /\ rx_next_status_trigger' \in Sns
         /\ reassembly_timer' => n1 < RT' /\ RT' <= h1
<1> DEFINE trig == rx_next_status_trigger
           runs == /\ reassembly_timer
                   /\ trig # next
                   /\ ~(trig = Plus(next, 1) /\ ~sdu_has_missing_bytes(ring[Slot(next)]))
                   /\ ModRx(next, trig) <= window_size
<1>0. /\ RN \in Nat /\ RT \in Nat /\ RH \in Nat /\ W \in Nat /\ SnMod \in Nat
      /\ SnMod = 2 * W
  BY Ranges
<1>1. trig \in Sns /\ reassembly_timer \in BOOLEAN /\ TimerOK
  BY DEF IInv, Types, ReceiverTypes
<1>2. n1 \in Nat /\ h1 \in Nat
  BY PosType, Widths
<1>3. \/ ~runs /\ Gap(ring, next, hi, next) /\ reassembly_timer' = TRUE
         /\ rx_next_status_trigger' = hi
      \/ reassembly_timer' = runs /\ rx_next_status_trigger' = trig
  BY DEF Reassembly
<1>4. CASE ~runs /\ Gap(ring, next, hi, next) /\ reassembly_timer' = TRUE
           /\ rx_next_status_trigger' = hi
  <2>1. RT' = h1
    BY <1>4 DEF RT, Pos
  <2>2. n1 # h1
    <3> SUFFICES ASSUME n1 = h1 PROVE FALSE
      OBVIOUS
    <3>1. hi = next
      BY PosInj
    <3>2. ModRx(next, hi) = 0
      BY <1>2, <3>1, Distance DEF ModRx
    <3>3. Plus(next, 1) \in Int /\ next \in Int
      BY Widths DEF Plus, Sns
    <3>4. ModRx(next, Plus(next, 1)) \in Nat
      BY <3>3, Widths DEF ModRx
    <3>5. hi # Plus(next, 1)
      BY <3>1, PlusOther
    <3> QED
      BY <1>4, <3>2, <3>4, <3>5 DEF Gap
  <2> QED
    BY <1>2, <1>4, <2>1, <2>2
<1>5. CASE reassembly_timer' = runs /\ rx_next_status_trigger' = trig
  <2>1. RT' = RT
    BY <1>5 DEF RT, Pos
  <2>2. ASSUME runs PROVE n1 < RT /\ RT <= h1
    <3>1. RN < RT /\ RT <= RH
      BY <1>1, <2>2 DEF TimerOK
    <3>2. RT # n1
      BY <1>1, <2>2, PosInj DEF RT
    <3>3. ModRx(next, trig) = IF n1 <= RT THEN RT - n1 ELSE SnMod + RT - n1
      BY <1>1, Distance DEF ModRx, RT
    <3>4. ModRx(next, trig) <= W
      BY <2>2 DEF W
    <3> HIDE DEF trig, runs
    <3>5. ~(RT < n1)
      BY <1>0, <1>2, <3>1, <3>3, <3>4
    <3> QED
      BY <1>0, <1>2, <3>1, <3>2, <3>5
  <2> QED
    BY <1>1, <1>5, <2>1, <2>2
<1> QED
  BY <1>3, <1>4, <1>5

\* The receiver loses no byte it stored.
LEMMA HasStays ==
  ASSUME IInv, down = "no", NEW s, NEW p, Storing(s, p),
         rx' = RingWith(s) \/ rx' = KeptWith(s, p), delivered' = CountsWith(s)
  PROVE  /\ \A i \in Ids : delivered[i] > 0 => delivered'[i] > 0
         /\ \A i \in Ids : \A b : Has(i, b) => Has(i, b)'
<1>0. /\ RingWith(s) \in [0..(W - 1) -> SlotType]
      /\ \A k \in 0..(W - 1) : k # Place(p) => RingWith(s)[k] = rx[k]
      /\ \A i \in Ids : i # p + 1 => CountsWith(s)[i] = delivered[i]
  BY RingWithIs, ZenonT(60)
<1>1. /\ RingWith(s)[Place(p)] = IF sdu_full(Stored(s)) THEN Done
                                 ELSE [pdus |-> Stored(s), done |-> FALSE]
      /\ CountsWith(s)[p + 1] = IF sdu_full(Stored(s)) THEN 1 ELSE 0
  BY RingWithIs
<1>2. /\ delivered[p + 1] = 0 /\ Place(p) \in 0..(W - 1) /\ s.sn \in Sns /\ Pos(s.sn) = p
      /\ Stored(s) = rx[Place(p)].pdus \cup {s}
      /\ \A t \in Stored(s) : t.id = p + 1
  BY StoringPlace
<1>3. \A i \in Ids : delivered[i] > 0 => delivered'[i] > 0
  BY <1>0, <1>2
<1>4. ASSUME NEW k \in 0..(W - 1), k # Place(p)
      PROVE  rx'[k] = rx[k] \/ rx[k].pdus = {}
  <2>1. RingWith(s)[k] = rx[k]
    BY <1>0, <1>4
  <2>2. CASE rx' = RingWith(s)
    BY <2>1, <2>2
  <2>3. CASE rx' = KeptWith(s, p) /\ sdu_full(Stored(s)) /\ p = RN
    <3>1. PICK n : n = DeliveredRun(RingWith(s), s.sn)
      OBVIOUS
    <3>2. rx' = Emptied(RingWith(s), n)
      BY <2>3, <3>1 DEF KeptWith
    <3>3. n \in 0..W /\ \A j \in Nat : j < n => RingWith(s)[Place(RN + j)].done
      BY <1>2, <2>3, <3>1, Run
    <3>4. PICK ring, dl, rh : /\ ring = RingWith(s) /\ dl = CountsWith(s) /\ rh = HighestWith(p)
                              /\ RingAt(ring, dl, RN, rh)
      BY StoreRing
    <3>5. Emptied(ring, n)[k] = ring[k] \/ ring[k].done
      BY <3>3, <3>4, MoveRing
    <3>6. ASSUME rx[k].done PROVE rx[k].pdus = {}
      <4>1. RN \in Nat /\ W \in Nat
        BY Ranges
      <4>2. PICK q \in RN..(RN + W - 1) : k = Place(q)
        BY <4>1, PlaceCover
      <4>3. q \in Nat /\ RN <= q /\ q < RN + W
        BY <4>1
      <4>4. SlotAt(rx, delivered, RH, q)
        BY <4>3, RingNow DEF RingAt
      <4> QED
        BY <3>6, <4>2, <4>4 DEF SlotAt
    <3> QED
      BY <2>1, <3>2, <3>4, <3>5, <3>6
  <2>4. rx' = KeptWith(s, p) /\ ~(sdu_full(Stored(s)) /\ p = RN) => rx' = RingWith(s)
    BY DEF KeptWith
  <2> QED
    BY <2>2, <2>3, <2>4
<1>5. DOMAIN rx = 0..(W - 1) /\ DOMAIN rx' = 0..(W - 1)
  <2>1. rx \in [0..(W - 1) -> SlotType]
    BY DEF IInv, Types, ReceiverTypes
  <2>2. DOMAIN RingWith(s) = 0..(W - 1)
    BY <1>0
  <2>3. DOMAIN KeptWith(s, p) = 0..(W - 1)
    BY <2>2 DEF KeptWith, Emptied
  <2> QED
    BY <2>1, <2>2, <2>3
<1>6. ASSUME NEW i \in Ids, NEW b, Has(i, b) PROVE Has(i, b)'
  <2>1. CASE delivered[i] > 0
    BY <1>3, <2>1 DEF Has
  <2>2. CASE ~(delivered[i] > 0)
    <3>1. PICK k \in 0..(W - 1) : \E t \in rx[k].pdus : t.id = i /\ b \in Bytes(t)
      BY <1>5, <1>6, <2>2 DEF Has
    <3>2. PICK t \in rx[k].pdus : t.id = i /\ b \in Bytes(t)
      BY <3>1
    <3>3. CASE k # Place(p)
      <4>1. t \in rx'[k].pdus
        BY <1>4, <3>2, <3>3
      <4> QED
        BY <1>5, <3>2, <4>1 DEF Has, Bytes
    <3>4. CASE k = Place(p)
      <4>1. t \in Stored(s) /\ i = p + 1
        BY <1>2, <3>2, <3>4
      <4>2. CASE sdu_full(Stored(s))
        <5>1. delivered'[i] = 1
          BY <1>1, <4>1, <4>2
        <5> QED
          BY <5>1 DEF Has
      <4>3. CASE ~sdu_full(Stored(s))
        <5>1. rx' = RingWith(s)
          BY <4>3 DEF KeptWith
        <5>2. rx'[k].pdus = Stored(s)
          BY <1>1, <3>4, <4>3, <5>1
        <5> QED
          BY <1>5, <3>2, <4>1, <5>2 DEF Has, Bytes
      <4> QED
        BY <4>2, <4>3
    <3> QED
      BY <3>3, <3>4
  <2> QED
    BY <2>1, <2>2
<1> QED
  BY <1>3, <1>6

\* The sender's part when only the receiver takes a step.
LEMMA SenderKept ==
  ASSUME IInv, UNCHANGED sdus, UNCHANGED txVars, data' \subseteq data,
         \A i \in Ids : delivered[i] > 0 => delivered'[i] > 0,
         \A i \in Ids : \A b : Has(i, b) => Has(i, b)',
         TailUnsent => delivered'[TN] = 0
  PROVE  /\ SenderOK' /\ TA' = TA /\ TN' = TN /\ TB' = TB
         /\ \A s : GoodSeg(s) => GoodSeg(s)'
         /\ \A r \in reports : RepOK(r)'
<1>0. /\ Types /\ Order /\ TxShape /\ HeldOK /\ DataOK /\ NoneForgotten /\ AckedOK
      /\ TailNew /\ RepsOK
  BY DEF IInv, SenderOK
<1>1. /\ Grows /\ TxShape' /\ TN' = TN /\ TB' = TB /\ (TailUnsent' <=> TailUnsent)
      /\ \A i : Sent(i)' = Sent(i)
      /\ \A x : GoodSeg(x)' <=> GoodSeg(x)
  BY <1>0, QueueKept DEF txVars
<1>2. TA' = TA /\ Held' = Held
  BY DEF TA, Pos, txVars, Held
<1>3. HeldOK'
  BY <1>0, <1>1, <1>2 DEF HeldOK, Bytes, txVars
<1>4. DataOK'
  BY <1>0, <1>1 DEF DataOK
<1>5. \A i \in 1..TN : i \in Ids
  <2>1. TN \in Nat /\ TN <= N /\ N \in Nat
    BY Ranges
  <2> QED
    BY <2>1 DEF Ids
<1>6. NoneForgotten'
  BY <1>0, <1>1, <1>2, <1>5 DEF NoneForgotten, Bytes
<1>7. AckedOK'
  <2>1. acked \subseteq Ids
    BY <1>0 DEF Types, SenderTypes
  <2> QED
    BY <1>0, <2>1 DEF AckedOK, txVars
<1>8. TailNew'
  BY <1>1 DEF TailNew
<1>9. ASSUME NEW r \in reports PROVE RepOK(r)'
  <2>1. RepOK(r) /\ Pos(r.ack)' = Pos(r.ack)
    BY <1>0 DEF RepsOK, Pos
  <2>2. r.ack \in Sns
    BY <1>0 DEF Types, ChannelTypes, ReportType
  <2>3. PICK a \in Nat : a = Pos(r.ack)
    BY <2>2, PosType, Widths
  <2>4. a <= TB => \A i \in 1..a : i \in Ids
    <3>1. TB \in Nat /\ TB <= TN /\ TN \in Nat
      BY Ranges
    <3> QED
      BY <1>5, <2>3, <3>1
  <2>5. \A i, b : Covered(r, i, b)' <=> Covered(r, i, b)
    BY DEF Covered, At
  <2> QED
    BY <1>1, <2>1, <2>3, <2>4, <2>5 DEF RepOK
<1> QED
  BY <1>1, <1>2, <1>3, <1>4, <1>6, <1>7, <1>8, <1>9 DEF SenderOK

-----------------------------------------------------------------------------
(* The steps of the receiver.                                              *)

\* A step of the receiver preserves the invariant when what it leaves is a ring
\* of a window that did not move back, and its report is sound.
LEMMA ReceiverStep ==
  ASSUME IInv, UNCHANGED sdus, UNCHANGED txVars, UNCHANGED lost, data' \subseteq data,
         down' \in {"no", "poll", "ring"},
         \A i \in Ids : delivered[i] > 0 => delivered'[i] > 0,
         \A i \in Ids : \A b : Has(i, b) => Has(i, b)',
         TailUnsent => delivered'[TN] = 0,
         rx_next' \in Sns, rx_next_highest' \in Sns, rx_highest_status' \in Sns,
         rx_next_status_trigger' \in Sns, reassembly_timer' \in BOOLEAN,
         status_triggered' \in BOOLEAN,
         RingAt(rx', delivered', RN', RH'),
         RN <= RN', RN' <= RS', RS' <= RH', RH' <= TN, RS' <= TB,
         HeadsOK', TimerOK', reports' \subseteq ReportType,
         \A r \in reports' : r \in reports \/ RepOK(r)'
  PROVE  IInv'
<1>0. Types /\ Order
  BY DEF IInv
<1>1. SenderOK' /\ TA' = TA /\ TN' = TN /\ TB' = TB
  BY SenderKept
<1>2. \A s : GoodSeg(s) => GoodSeg(s)'
  BY SenderKept
<1>3. \A r \in reports : RepOK(r)'
  BY SenderKept
<1>4. RingOK'
  BY <1>2, RingNext
<1>5. RepsOK'
  BY <1>3 DEF RepsOK
<1>6. Order'
  <2>1. TA \in Nat /\ RN \in Nat /\ TA <= RN
    BY Ranges
  <2>2. RN' \in Nat
    BY DEF RingAt
  <2>3. TA' <= RN'
    BY <1>1, <2>1, <2>2
  <2> QED
    BY <1>0, <1>1, <2>3 DEF Order, W, window_size
<1>7. SenderTypes'
  BY <1>0 DEF Types, SenderTypes, txVars
<1>8. ReceiverTypes'
  <2>1. rx' \in [0..(W - 1) -> SlotType] /\ delivered' \in [Ids -> Nat]
    BY DEF RingAt
  <2> QED
    BY <2>1 DEF ReceiverTypes, W, window_size
<1>9. ChannelTypes'
  BY <1>0 DEF Types, ChannelTypes
<1> QED
  BY <1>1, <1>4, <1>5, <1>6, <1>7, <1>8, <1>9 DEF IInv, Types

\* What the receiver does to its window when it stores a segment.
LEMMA StoreIs ==
  ASSUME IInv, NEW s, NEW p, Storing(s, p), Store(s)
  PROVE  /\ delivered' = CountsWith(s)
         /\ rx_next_highest' = Highest(s.sn)
         /\ \/ /\ Endless(s, p) /\ down' = "ring" /\ rx' = RingWith(s)
               /\ UNCHANGED <<rx_next, rx_highest_status, reassembly_timer,
                              rx_next_status_trigger>>
            \/ /\ ~Endless(s, p) /\ rx' = KeptWith(s, p) /\ UNCHANGED down
               /\ rx_next' = IF sdu_full(Stored(s)) /\ p = RN
                               THEN Plus(rx_next, DeliveredRun(RingWith(s), s.sn))
                               ELSE rx_next
               /\ rx_highest_status' = IF sdu_full(Stored(s)) /\ p = RS
                                         THEN Plus(s.sn, DeliveredRun(RingWith(s), s.sn))
                                         ELSE rx_highest_status
               /\ Reassembly(rx', rx_next', rx_next_highest')
<1>1. s.sn \in Sns /\ Pos(s.sn) = p
  BY StoringPlace
<1>2. rx_next \in Sns /\ rx_highest_status \in Sns
  BY DEF IInv, Types, ReceiverTypes
<1>3. (s.sn = rx_next <=> p = RN) /\ (s.sn = rx_highest_status <=> p = RS)
  BY <1>1, <1>2, PosInj DEF RN, RS
<1> DEFINE full == sdu_full(Stored(s))
           ring == RingWith(s)
           run == DeliveredRun(ring, s.sn)
           hi == Highest(s.sn)
           moves == full /\ s.sn = rx_next
           next == IF moves THEN Plus(rx_next, run) ELSE rx_next
           kept == IF moves
                     THEN [k \in DOMAIN ring |->
                             IF \E j \in 0..(run - 1) : k = Slot(rx_next + j)
                               THEN Empty ELSE ring[k]]
                     ELSE ring
<1>4. /\ delivered' = IF full THEN [delivered EXCEPT ![s.id] = @ + 1] ELSE delivered
      /\ IF full /\ s.sn = rx_highest_status /\ run = window_size
           THEN /\ down' = "ring"
                /\ rx' = ring /\ rx_next_highest' = hi
                /\ UNCHANGED <<rx_next, rx_highest_status, reassembly_timer,
                               rx_next_status_trigger>>
           ELSE /\ rx' = kept
                /\ rx_next' = next
                /\ rx_next_highest' = hi
                /\ rx_highest_status' = IF full /\ s.sn = rx_highest_status
                                          THEN Plus(s.sn, run)
                                          ELSE rx_highest_status
                /\ Reassembly(kept, next, hi)
                /\ UNCHANGED down
  BY DEF Store, Stored, RingWith
<1>5. kept = KeptWith(s, p)
  BY <1>3 DEF KeptWith, Emptied
<1>6. delivered' = CountsWith(s)
  BY <1>4 DEF CountsWith
<1>7. Endless(s, p) <=> full /\ s.sn = rx_highest_status /\ run = window_size
  BY <1>3 DEF Endless, W
<1>8. rx_next_highest' = hi
  BY <1>4
<1>9. CASE Endless(s, p)
  BY <1>4, <1>6, <1>7, <1>9
<1>10. CASE ~Endless(s, p)
  <2>1. /\ rx' = kept /\ rx_next' = next /\ rx_next_highest' = hi
        /\ rx_highest_status' = IF full /\ s.sn = rx_highest_status
                                          THEN Plus(s.sn, run)
                                          ELSE rx_highest_status
        /\ Reassembly(kept, next, hi) /\ UNCHANGED down
    BY <1>4, <1>7, <1>10
  <2>2. Reassembly(rx', rx_next', rx_next_highest')
    <3> HIDE DEF kept, next, hi
    <3> QED
      BY <2>1
  <2>3. rx_next' = IF full /\ p = RN THEN Plus(rx_next, run) ELSE rx_next
    BY <1>3, <2>1
  <2>4. rx_highest_status' = IF full /\ p = RS THEN Plus(s.sn, run) ELSE rx_highest_status
    BY <1>3, <2>1
  <2> QED
    BY <1>5, <1>6, <1>8, <1>10, <2>1, <2>2, <2>3, <2>4
<1> QED
  BY <1>9, <1>10

\* reception_actions
LEMMA StoreOK ==
  ASSUME IInv, down = "no", NEW s, NEW p, Storing(s, p), Store(s),
         UNCHANGED sdus, UNCHANGED txVars, UNCHANGED reports, UNCHANGED lost,
         data' \subseteq data, status_triggered' \in BOOLEAN
  PROVE  IInv'
<1>0. /\ RN \in Nat /\ RS \in Nat /\ RH \in Nat /\ TN \in Nat /\ TB \in Nat /\ W \in Nat
      /\ SnMod \in Nat /\ RN <= RS /\ RS <= RH /\ RH <= TN /\ RS <= TB /\ TN <= RN + W
      /\ TN < SnMod
  BY Ranges
<1>1. p \in Nat /\ RN <= p /\ p < RN + W /\ p < TN
  BY DEF Storing
<1>2. /\ rx_next \in Sns /\ rx_highest_status \in Sns /\ rx_next_highest \in Sns
      /\ rx_next_status_trigger \in Sns /\ reassembly_timer \in BOOLEAN
      /\ reports \subseteq ReportType /\ TimerOK
  BY DEF IInv, Types, ReceiverTypes, ChannelTypes
<1>3. s.sn \in Sns /\ Pos(s.sn) = p
  BY StoringPlace
<1>4. delivered' = CountsWith(s) /\ rx_next_highest' = Highest(s.sn)
  BY StoreIs
<1>5. rx_next_highest' \in Sns /\ RH' = HighestWith(p)
  <2>1. Highest(s.sn) \in Sns /\ Pos(Highest(s.sn)) = HighestWith(p)
    BY HighestPos
  <2>2. RH' = Pos(rx_next_highest')
    BY DEF RH, Pos
  <2> QED
    BY <1>4, <2>1, <2>2
<1>6. HighestWith(p) \in Nat /\ RH <= HighestWith(p) /\ HighestWith(p) <= TN
  BY <1>0, <1>1 DEF HighestWith
<1>7. TailUnsent => delivered'[TN] = 0
  BY <1>4, TailCounts
<1>8. \A r \in reports' : r \in reports \/ RepOK(r)'
  OBVIOUS
<1>9. CASE /\ Endless(s, p) /\ down' = "ring" /\ rx' = RingWith(s)
           /\ UNCHANGED <<rx_next, rx_highest_status, reassembly_timer,
                          rx_next_status_trigger>>
  <2>1. RN' = RN /\ RS' = RS /\ RT' = RT
    BY <1>9 DEF RN, RS, RT, Pos
  <2>2. /\ \A i \in Ids : delivered[i] > 0 => delivered'[i] > 0
        /\ \A i \in Ids : \A b : Has(i, b) => Has(i, b)'
    BY <1>4, <1>9, HasStays
  <2>3. RingAt(rx', delivered', RN', RH')
    BY <1>4, <1>5, <1>9, <2>1, StoreRing
  <2>4. HeadsOK'
    BY <1>9 DEF HeadsOK
  <2>5. TimerOK'
    <3>1. PICK h \in Nat : h = HighestWith(p) /\ RH <= h /\ RH' = h
      BY <1>5, <1>6
    <3>2. reassembly_timer => RT \in Nat /\ RN < RT /\ RT <= RH
      BY <1>2, Ranges DEF TimerOK
    <3>3. reassembly_timer => RN < RT /\ RT <= h
      BY <1>0, <3>1, <3>2
    <3> QED
      BY <1>9, <2>1, <3>1, <3>3 DEF TimerOK
  <2>6. PICK h \in Nat : h = RH' /\ RH <= h /\ h <= TN
    BY <1>5, <1>6
  <2>7. RN <= RN' /\ RN' <= RS' /\ RS' <= RH' /\ RH' <= TN /\ RS' <= TB
    BY <1>0, <2>1, <2>6
  <2> QED
    BY <1>2, <1>5, <1>7, <1>8, <1>9, <2>2, <2>3, <2>4, <2>5, <2>7, ReceiverStep
<1>10. CASE /\ ~Endless(s, p) /\ rx' = KeptWith(s, p) /\ UNCHANGED down
            /\ rx_next' = IF sdu_full(Stored(s)) /\ p = RN
                            THEN Plus(rx_next, DeliveredRun(RingWith(s), s.sn))
                            ELSE rx_next
            /\ rx_highest_status' = IF sdu_full(Stored(s)) /\ p = RS
                                      THEN Plus(s.sn, DeliveredRun(RingWith(s), s.sn))
                                      ELSE rx_highest_status
            /\ Reassembly(rx', rx_next', rx_next_highest')
  <2>1. PICK n1, s1, kept : /\ n1 = StartWith(s, p) /\ s1 = StatusWith(s, p)
                            /\ kept = KeptWith(s, p)
    OBVIOUS
  <2>2. /\ RingAt(kept, CountsWith(s), n1, HighestWith(p))
        /\ n1 \in Nat /\ s1 \in Nat /\ RN <= n1 /\ n1 <= RN + W
        /\ n1 <= s1 /\ s1 <= HighestWith(p) /\ s1 <= TB
        /\ ~kept[Place(n1)].done /\ ~kept[Place(s1)].done
    BY <1>10, <2>1, WindowWith
  <2>3. n1 < SnMod /\ s1 < SnMod
    BY <1>0, <1>6, <2>2
  <2>4. PICK run \in Nat : run = DeliveredRun(RingWith(s), s.sn)
    BY <1>0, <1>3, Run
  <2>5. rx_next' \in Sns /\ RN' = n1
    <3>1. CASE sdu_full(Stored(s)) /\ p = RN
      <4>1. n1 = RN + run
        BY <2>1, <2>4, <3>1 DEF StartWith
      <4>2. Plus(rx_next, run) \in Sns /\ Pos(Plus(rx_next, run)) = n1
        BY <1>2, <2>3, <4>1, PlusPos DEF RN
      <4> QED
        BY <1>10, <2>4, <3>1, <4>2 DEF RN, Pos
    <3>2. CASE ~(sdu_full(Stored(s)) /\ p = RN)
      <4>1. n1 = RN /\ rx_next' = rx_next
        BY <1>10, <2>1, <3>2 DEF StartWith
      <4> QED
        BY <1>2, <4>1 DEF RN, Pos
    <3> QED
      BY <3>1, <3>2
  <2>6. rx_highest_status' \in Sns /\ RS' = s1
    <3>1. CASE sdu_full(Stored(s)) /\ p = RS
      <4>1. s1 = p + run
        BY <2>1, <2>4, <3>1 DEF StatusWith
      <4>2. Plus(s.sn, run) \in Sns /\ Pos(Plus(s.sn, run)) = s1
        BY <1>3, <2>3, <4>1, PlusPos
      <4> QED
        BY <1>10, <2>4, <3>1, <4>2 DEF RS, Pos
    <3>2. CASE ~(sdu_full(Stored(s)) /\ p = RS)
      <4>1. s1 = RS /\ rx_highest_status' = rx_highest_status
        BY <1>10, <2>1, <3>2 DEF StatusWith
      <4> QED
        BY <1>2, <4>1 DEF RS, Pos
    <3> QED
      BY <3>1, <3>2
  <2>7. rx' = kept
    BY <1>10, <2>1
  <2>8. PICK next \in Sns, hi \in Sns, h1 \in Nat :
          /\ next = rx_next' /\ hi = rx_next_highest' /\ h1 = HighestWith(p)
    BY <1>5, <1>6, <2>5
  <2>9. n1 = Pos(next) /\ h1 = Pos(hi)
    <3>1. RN' = Pos(rx_next') /\ RH' = Pos(rx_next_highest')
      BY DEF RN, RH, Pos
    <3> QED
      BY <1>5, <2>5, <2>8, <3>1
  <2>10. Reassembly(kept, next, hi)
    BY <1>10, <2>7, <2>8
  <2>11. n1 <= h1 /\ RH <= h1
    BY <1>0, <1>6, <2>2, <2>8
  <2>12. /\ reassembly_timer' \in BOOLEAN /\ rx_next_status_trigger' \in Sns
         /\ reassembly_timer' => n1 < RT' /\ RT' <= h1
    BY <2>2, <2>9, <2>10, <2>11, TimerStep
  <2>13. TimerOK'
    BY <1>5, <2>5, <2>8, <2>12 DEF TimerOK
  <2>14. HeadsOK'
    BY <2>2, <2>5, <2>6, <2>7 DEF HeadsOK, Place, W, window_size
  <2>15. RingAt(rx', delivered', RN', RH')
    BY <1>4, <1>5, <2>2, <2>5, <2>7
  <2>16. /\ \A i \in Ids : delivered[i] > 0 => delivered'[i] > 0
         /\ \A i \in Ids : \A b : Has(i, b) => Has(i, b)'
    BY <1>4, <1>10, HasStays
  <2>17. RN <= RN' /\ RN' <= RS' /\ RS' <= RH' /\ RH' <= TN /\ RS' <= TB
    BY <1>5, <1>6, <2>2, <2>5, <2>6
  <2>18. down' \in {"no", "poll", "ring"}
    BY <1>10
  <2> QED
    BY <1>2, <1>5, <1>7, <1>8, <2>5, <2>6, <2>12, <2>13, <2>14, <2>15, <2>16, <2>17, <2>18,
       ReceiverStep
<1> QED
  BY <1>9, <1>10, StoreIs

\* A PDU that arrives and is not discarded belongs to the window: the SDUs from
\* it to the start of the window would be more than a window of delivered ones.
LEMMA ArrivesInWindow ==
  ASSUME IInv, NEW s, GoodSeg(s), InReach(s), ~Discarded(s),
         NEW p \in Nat, s.id = p + 1
  PROVE  Storing(s, p)
<1>0. /\ RN \in Nat /\ W \in Nat /\ TN \in Nat /\ SnMod \in Nat /\ SnMod = 2 * W /\ RN <= TN
      /\ N \in Nat /\ TN <= N
  BY Ranges, SMTT(30)
<1>1. s.id \in 1..TN /\ s.id \in Nat /\ s.sn \in Sns /\ Pos(s.sn) = p
  BY SegNumbers
<1>2. p \in Nat /\ s.id = p + 1 /\ p < TN
  BY <1>0, <1>1
<1>3. rx_next \in Sns /\ delivered \in [Ids -> Nat] /\ RingOK
  BY DEF IInv, Types, ReceiverTypes
<1>4. ModRx(rx_next, s.sn) = IF RN <= p THEN p - RN ELSE SnMod + p - RN
  BY <1>1, <1>3, Distance DEF ModRx, RN
<1>5. ModRx(rx_next, s.sn) < W
  <2>1. ~(ModRx(rx_next, s.sn) >= W)
    BY DEF Discarded, W
  <2>2. ModRx(rx_next, s.sn) \in Int
    BY <1>0, <1>2, <1>4
  <2> QED
    BY <1>0, <2>1, <2>2
<1>6. RN <= p
  <2> SUFFICES ASSUME p < RN PROVE FALSE
    BY <1>0, <1>2
  <2>1. W < RN - p
    BY <1>0, <1>2, <1>4, <1>5
  <2> DEFINE D == {i \in Ids : i >= s.id /\ delivered[i] > 0}
             E == (p + 1)..RN
  <2>2. IsFiniteSet(D)
    <3>1. IsFiniteSet(Ids)
      BY <1>0, FS_Interval DEF Ids
    <3> QED
      BY <3>1, FS_Subset
  <2>3. E \subseteq D
    <3> SUFFICES ASSUME NEW i \in E PROVE i \in D
      OBVIOUS
    <3>1. i \in Nat /\ p + 1 <= i /\ i <= RN /\ i \in Ids
      BY <1>0, <1>2 DEF Ids
    <3>2. PICK q \in Nat : i = q + 1 /\ q < RN
      <4>1. i - 1 \in Nat /\ i = (i - 1) + 1 /\ i - 1 < RN
        BY <1>0, <1>2, <3>1
      <4> QED
        BY <4>1
    <3>3. delivered[i] = 1
      BY <1>3, <3>2 DEF RingOK
    <3> QED
      BY <1>2, <3>1, <3>3
  <2>4. Cardinality(E) = RN - p
    <3>1. PICK a \in Nat : a = p + 1 /\ a <= RN
      BY <1>0, <1>2
    <3>2. Cardinality(a..RN) = RN - a + 1
      BY <1>0, <3>1, FS_Interval
    <3> QED
      BY <1>0, <1>2, <3>1, <3>2
  <2>5. Cardinality(E) <= Cardinality(D) /\ Cardinality(D) \in Nat
    <3> HIDE DEF D, E
    <3> QED
      BY <2>2, <2>3, FS_Subset, FS_CardinalityType
  <2>6. Cardinality(D) <= W
    BY DEF InReach, W
  <2> HIDE DEF D, E
  <2> QED
    BY <1>0, <1>2, <2>1, <2>4, <2>5, <2>6
<1>7. p < RN + W
  BY <1>0, <1>2, <1>4, <1>5, <1>6
<1>8. ~rx[Place(p)].done
  BY <1>1, SlotPos DEF Discarded
<1> QED
  BY <1>2, <1>6, <1>7, <1>8 DEF Storing

\* A data PDU arrives.
LEMMA RecvDataOK ==
  ASSUME IInv, down = "no", NEW d \in data, InReach(d.seg), RecvData(d)
  PROVE  IInv'
<1>0. /\ data' \subseteq data /\ status_triggered' \in BOOLEAN /\ InReach(d.seg)
      /\ UNCHANGED sdus /\ UNCHANGED txVars /\ UNCHANGED reports /\ UNCHANGED lost
  BY DEF RecvData, IInv, Types, ReceiverTypes, ChannelTypes
<1>1. GoodSeg(d.seg)
  BY DEF IInv, SenderOK, DataOK
<1>2. CASE /\ Discarded(d.seg)
           /\ UNCHANGED <<rx, rx_next, rx_next_highest, rx_highest_status,
                          rx_next_status_trigger, reassembly_timer, delivered, down>>
  <2>1. RN' = RN /\ RS' = RS /\ RT' = RT /\ RH' = RH
    BY <1>2 DEF RN, RS, RT, RH, Pos
  <2>2. RingAt(rx', delivered', RN', RH')
    BY <1>2, <2>1, RingNow
  <2>3. \A i, b : Has(i, b)' <=> Has(i, b)
    BY <1>2 DEF Has, Bytes
  <2>4. HeadsOK' /\ TimerOK'
    BY <1>2, <2>1 DEF IInv, HeadsOK, TimerOK, Place, W, window_size
  <2>5. RN <= RN' /\ RN' <= RS' /\ RS' <= RH' /\ RH' <= TN /\ RS' <= TB
    BY <2>1, Ranges
  <2>6. TailUnsent => delivered'[TN] = 0
    BY <1>2 DEF IInv, SenderOK, TailNew
  <2>7. /\ rx_next' \in Sns /\ rx_next_highest' \in Sns /\ rx_highest_status' \in Sns
        /\ rx_next_status_trigger' \in Sns /\ reassembly_timer' \in BOOLEAN
        /\ down' \in {"no", "poll", "ring"} /\ reports' \subseteq ReportType
    BY <1>0, <1>2 DEF IInv, Types, ReceiverTypes, ChannelTypes
  <2>8. \A i \in Ids : delivered[i] > 0 => delivered'[i] > 0
    BY <1>2
  <2>9. \A r \in reports' : r \in reports \/ RepOK(r)'
    BY <1>0
  <2> QED
    BY <1>0, <2>2, <2>3, <2>4, <2>5, <2>6, <2>7, <2>8, <2>9, ReceiverStep
<1>3. CASE ~Discarded(d.seg) /\ Store(d.seg)
  <2>0. PICK s : s = d.seg
    OBVIOUS
  <2>1. PICK p \in Nat : s.id = p + 1
    <3>1. d.seg.id \in 1..TN /\ TN \in Nat
      BY <1>1, SegNumbers, Ranges
    <3>2. d.seg.id - 1 \in Nat /\ d.seg.id = (d.seg.id - 1) + 1
      BY <3>1
    <3> QED
      BY <2>0, <3>2
  <2>2. Storing(s, p)
    BY <1>0, <1>1, <1>3, <2>0, <2>1, ArrivesInWindow
  <2> QED
    BY <1>0, <1>3, <2>0, <2>2, StoreOK
<1> QED
  BY <1>2, <1>3 DEF RecvData

\* check_t_reassembly, when it expires only after an SDU is all sent
LEMMA ExpireReassemblyOK ==
  ASSUME IInv, down = "no", ~TailUnsent, ExpireReassembly
  PROVE  IInv'
<1>0. /\ RN \in Nat /\ RS \in Nat /\ RH \in Nat /\ RT \in Nat /\ TN \in Nat /\ TB \in Nat
      /\ W \in Nat /\ SnMod \in Nat /\ RN <= RS /\ RS <= RH /\ RH <= TN /\ RS <= TB
      /\ TN <= RN + W /\ TN < SnMod
  BY Ranges
<1>1. /\ rx_next \in Sns /\ rx_next_highest \in Sns /\ rx_next_status_trigger \in Sns
      /\ TimerOK /\ HeadsOK /\ reports \subseteq ReportType
  BY DEF IInv, Types, ReceiverTypes, ChannelTypes
<1>2. PICK run : run = DeliveredRun(rx, rx_next_status_trigger)
  OBVIOUS
<1>3. PICK hs : hs = Plus(rx_next_status_trigger, run)
  OBVIOUS
<1>4. /\ reassembly_timer /\ ~TailUnsent
      /\ rx_highest_status' = hs /\ status_triggered' = TRUE
      /\ reassembly_timer' = Gap(rx, rx_next, rx_next_highest, hs)
      /\ rx_next_status_trigger' = IF Gap(rx, rx_next, rx_next_highest, hs)
                                     THEN rx_next_highest ELSE rx_next_status_trigger
      /\ UNCHANGED <<sdus, txVars, rx, rx_next, rx_next_highest, delivered, data,
                     reports, lost, down>>
  BY <1>2, <1>3 DEF ExpireReassembly
<1>5. RN < RT /\ RT <= RH
  BY <1>1, <1>4 DEF TimerOK
<1>6. /\ run \in Nat
      /\ \A j \in Nat : j < run => rx[Place(RT + j)].done
      /\ run = W \/ ~rx[Place(RT + run)].done
  BY <1>0, <1>1, <1>2, Run DEF RT
<1>7. ~rx[Place(RH)].done
  <2>1. CASE RH < RN + W
    <3>1. SlotAt(rx, delivered, RH, RH)
      BY <1>0, <2>1, RingNow DEF RingAt
    <3> QED
      BY <1>0, <3>1 DEF SlotAt
  <2>2. CASE RH = RN + W
    <3>1. Place(RH) = Place(RN)
      BY <1>0, <2>2, PlaceAgain
    <3> QED
      BY <1>1, <3>1 DEF HeadsOK
  <2> QED
    BY <1>0, <2>1, <2>2
<1>8. RT + run <= RH
  <2> SUFFICES ASSUME RH < RT + run PROVE FALSE
    BY <1>0, <1>6
  <2>1. PICK j \in Nat : RH = RT + j /\ j < run
    <3>1. RH - RT \in Nat /\ RH = RT + (RH - RT) /\ RH - RT < run
      BY <1>0, <1>5, <1>6
    <3> QED
      BY <3>1
  <2> QED
    BY <1>6, <1>7, <2>1
<1>9. ~rx[Place(RT + run)].done
  <2>1. run # W
    BY <1>0, <1>5, <1>6, <1>8
  <2> QED
    BY <1>6, <2>1
<1>10. hs \in Sns /\ Pos(hs) = RT + run
  <2>1. RT + run < SnMod
    BY <1>0, <1>6, <1>8
  <2> QED
    BY <1>1, <1>3, <1>6, <2>1, PlusPos DEF RT
<1>11. PICK h \in Nat : h = RT + run /\ RN < h /\ h <= RH /\ ~rx[Place(h)].done
  BY <1>0, <1>5, <1>6, <1>8, <1>9
<1>12. RN' = RN /\ RH' = RH /\ RS' = h
  BY <1>4, <1>10, <1>11 DEF RN, RH, RS, Pos
<1>13. TB = TN
  BY <1>4 DEF TB
<1>14. RN <= RN' /\ RN' <= RS' /\ RS' <= RH' /\ RH' <= TN /\ RS' <= TB
  BY <1>0, <1>11, <1>12, <1>13
<1>15. HeadsOK'
  BY <1>1, <1>4, <1>11, <1>12 DEF HeadsOK, Place, W, window_size
<1>16. /\ reassembly_timer' \in BOOLEAN /\ rx_next_status_trigger' \in Sns /\ TimerOK'
  <2>1. reassembly_timer' \in BOOLEAN
    BY <1>4 DEF Gap
  <2>2. CASE Gap(rx, rx_next, rx_next_highest, hs)
    <3>1. RT' = RH
      BY <1>4, <2>2 DEF RT, RH, Pos
    <3>2. RN < RH
      BY <1>0, <1>5
    <3>3. TimerOK'
      BY <1>0, <1>12, <3>1, <3>2 DEF TimerOK
    <3> QED
      BY <1>1, <1>4, <2>1, <2>2, <3>3
  <2>3. CASE ~Gap(rx, rx_next, rx_next_highest, hs)
    BY <1>1, <1>4, <2>1, <2>3 DEF TimerOK
  <2> QED
    BY <2>2, <2>3
<1>17. RingAt(rx', delivered', RN', RH')
  BY <1>4, <1>12, RingNow
<1>18. \A i, b : Has(i, b)' <=> Has(i, b)
  BY <1>4 DEF Has, Bytes
<1>19. /\ \A i \in Ids : delivered[i] > 0 => delivered'[i] > 0
       /\ \A r \in reports' : r \in reports \/ RepOK(r)'
       /\ rx_next' \in Sns /\ rx_next_highest' \in Sns /\ rx_highest_status' \in Sns
       /\ status_triggered' \in BOOLEAN /\ down' \in {"no", "poll", "ring"}
       /\ data' \subseteq data /\ reports' \subseteq ReportType
       /\ UNCHANGED sdus /\ UNCHANGED txVars /\ UNCHANGED lost
  BY <1>1, <1>4, <1>10
<1>20. TailUnsent => delivered'[TN] = 0
  BY <1>4
<1> QED
  BY <1>14, <1>15, <1>16, <1>17, <1>18, <1>19, <1>20, ReceiverStep

-----------------------------------------------------------------------------
(* What a status report says.                                              *)

\* The bytes the receiver stores of the SDU at a position.
Got(p) == BytesOf(rx[Place(p)].pdus)

\* Where a missing range of bytes may begin.
StartOf(p, c) == c \in Nat /\ c \notin Got(p) /\ (c = 0 \/ c - 1 \in Got(p))

\* The missing range that begins at a byte.
MissingFrom(p, c) ==
  IF \E e \in Got(p) : e > c
    THEN Nack(At(p), c, (CHOOSE e \in Got(p) : e > c /\ c..(e - 1) \cap Got(p) = {}) - 1)
    ELSE Nack(At(p), c, End)

\* What is stored are bytes of the SDU.
LEMMA GotBytes ==
  ASSUME IInv, NEW p \in Nat, RN <= p, p < RS
  PROVE  /\ p < RN + W /\ p < TN /\ p < TB /\ p < SnMod /\ p + 1 \in 1..TN
         /\ sdus[p + 1] \in Nat
         /\ SlotAt(rx, delivered, RH, p)
         /\ \A s \in rx[Place(p)].pdus : GoodSeg(s) /\ s.id = p + 1
         /\ Got(p) \subseteq 0..(sdus[p + 1] - 1) /\ Got(p) \subseteq Nat
<1>0. /\ RN \in Nat /\ RS \in Nat /\ TN \in Nat /\ TB \in Nat /\ W \in Nat /\ SnMod \in Nat
      /\ RS <= RH /\ RH <= TN /\ TN <= RN + W /\ RS <= TB /\ TN < SnMod /\ RH \in Nat
  BY Ranges, SMTT(30)
<1>1. p < RN + W /\ p < TN /\ p < TB /\ p < SnMod /\ p + 1 \in 1..TN
  BY <1>0
<1>2. sdus[p + 1] \in Nat
  <2>1. \A i \in 1..Len(sdus) : sdus[i] \in Nat
    BY SentSizes DEF IInv, SenderOK
  <2>2. TN <= Len(sdus) /\ Len(sdus) \in Nat
    BY Ranges
  <2>3. p + 1 \in 1..Len(sdus)
    BY <1>0, <1>1, <2>2
  <2> QED
    BY <2>1, <2>3
<1>3. SlotAt(rx, delivered, RH, p)
  BY <1>1, RingNow DEF RingAt
<1>4. \A s \in rx[Place(p)].pdus : GoodSeg(s) /\ s.id = p + 1
  BY <1>3 DEF SlotAt
<1>5. ASSUME NEW b \in Got(p) PROVE b \in 0..(sdus[p + 1] - 1)
  <2>1. PICK s \in rx[Place(p)].pdus : b \in Bytes(s)
    BY DEF Got, BytesOf
  <2>2. GoodSeg(s) /\ s.id = p + 1
    BY <1>4
  <2>3. \A x \in Bytes(s) : x \in 0..(sdus[s.id] - 1)
    BY <2>2, SegNumbers
  <2> QED
    BY <2>1, <2>2, <2>3
<1> QED
  BY <1>1, <1>2, <1>3, <1>4, <1>5

\* The byte that ends a missing range.
LEMMA RangeEnd ==
  ASSUME NEW G, G \subseteq Nat, NEW c \in Nat, c \notin G, \E e \in G : e > c
  PROVE  \E e \in G : e > c /\ c..(e - 1) \cap G = {}
<1> DEFINE T == {e \in G : e > c}
<1>1. T \subseteq Nat /\ T # {}
  OBVIOUS
<1>2. PICK m \in T : \A k \in T : m <= k
  <2> HIDE DEF T
  <2> QED
    BY <1>1, Least
<1>3. m \in G /\ m > c /\ m \in Nat
  OBVIOUS
<1>4. ASSUME NEW x \in c..(m - 1), x \in G PROVE FALSE
  <2>1. x \in Nat /\ c <= x /\ x < m /\ x # c
    BY <1>3, <1>4
  <2>2. x \in T
    BY <1>4, <2>1
  <2> QED
    BY <1>2, <1>3, <2>1, <2>2
<1> QED
  BY <1>3, <1>4

\* The missing ranges of one SDU.
LEMMA MissingIs ==
  ASSUME IInv, NEW p \in Nat, RN <= p, p < RS, ~rx[Place(p)].done
  PROVE  /\ \A n \in Missing(At(p)) : StartOf(p, n.from) /\ n = MissingFrom(p, n.from)
         /\ \A c : /\ StartOf(p, c)
                   /\ (\E e \in Got(p) : e > c) \/ \A l \in rx[Place(p)].pdus : ~l.last
                   => MissingFrom(p, c) \in Missing(At(p))
<1> DEFINE slot == rx[Slot(At(p))]
           got == BytesOf(slot.pdus)
           starts == {b + 1 : b \in got} \ got
           some == {c \in starts \cup ({0} \ got) : \E e \in got : e > c}
           rest == {c \in starts \cup ({0} \ got) :
                            /\ \A e \in got : e < c
                            /\ \A l \in slot.pdus : ~l.last}
           upto(b) == Nack(At(p), b, (CHOOSE e \in got : e > b /\ b..(e - 1) \cap got = {}) - 1)
<1>0. p < SnMod /\ Got(p) \subseteq Nat /\ SnMod \in Nat
  BY GotBytes, Ranges
<1>1. At(p) \in Sns /\ Slot(At(p)) = Place(p)
  <2>1. p \in 0..(SnMod - 1)
    BY <1>0
  <2> QED
    BY <2>1, AtType, SlotPos
<1>2. slot = rx[Place(p)] /\ got = Got(p)
  BY <1>1 DEF Got
<1>3. Missing(At(p)) = {upto(b) : b \in some} \cup {Nack(At(p), b, End) : b \in rest}
  BY <1>2 DEF Missing
<1>4. \A c : c \in starts \cup ({0} \ got) <=> StartOf(p, c)
  <2>1. ASSUME NEW c \in starts \cup ({0} \ got) PROVE StartOf(p, c)
    BY <1>0, <1>2 DEF StartOf
  <2>2. ASSUME NEW c, StartOf(p, c) PROVE c \in starts \cup ({0} \ got)
    <3>1. CASE c = 0
      BY <1>2, <2>2, <3>1 DEF StartOf
    <3>2. CASE c - 1 \in Got(p)
      <4>1. c = (c - 1) + 1 /\ c \notin got /\ c - 1 \in got
        BY <1>2, <2>2, <3>2 DEF StartOf
      <4> QED
        BY <4>1
    <3> QED
      BY <2>2, <3>1, <3>2 DEF StartOf
  <2> QED
    BY <2>1, <2>2
<1> HIDE DEF starts
<1>5. \A c \in some : MissingFrom(p, c) = upto(c)
  BY <1>2 DEF MissingFrom
<1>6. \A c \in rest : MissingFrom(p, c) = Nack(At(p), c, End)
  <2> SUFFICES ASSUME NEW c \in rest PROVE ~\E e \in Got(p) : e > c
    BY DEF MissingFrom
  <2>1. c \in Nat /\ \A e \in got : e < c
    BY <1>4 DEF StartOf
  <2> QED
    BY <1>0, <1>2, <2>1
<1>7. ASSUME NEW n \in Missing(At(p))
      PROVE  StartOf(p, n.from) /\ n = MissingFrom(p, n.from)
  <2>1. CASE n \in {upto(b) : b \in some}
    <3>1. PICK c \in some : n = upto(c)
      BY <2>1
    <3>2. n.from = c
      BY <3>1 DEF Nack
    <3>3. StartOf(p, c)
      BY <1>4
    <3> QED
      BY <1>5, <3>1, <3>2, <3>3
  <2>2. CASE n \in {Nack(At(p), b, End) : b \in rest}
    <3>1. PICK c \in rest : n = Nack(At(p), c, End)
      BY <2>2
    <3>2. n.from = c
      BY <3>1 DEF Nack
    <3>3. StartOf(p, c)
      BY <1>4
    <3> QED
      BY <1>6, <3>1, <3>2, <3>3
  <2> QED
    BY <1>3, <2>1, <2>2
<1>8. ASSUME NEW c, StartOf(p, c),
             (\E e \in Got(p) : e > c) \/ \A l \in rx[Place(p)].pdus : ~l.last
      PROVE  MissingFrom(p, c) \in Missing(At(p))
  <2>0. c \in Nat /\ c \notin Got(p)
    BY <1>8 DEF StartOf
  <2>1. CASE \E e \in Got(p) : e > c
    <3>1. c \in some
      BY <1>2, <1>4, <1>8, <2>1
    <3> QED
      BY <1>3, <1>5, <3>1
  <2>2. CASE ~\E e \in Got(p) : e > c
    <3>1. \A e \in Got(p) : e < c
      BY <1>0, <2>0, <2>2
    <3>2. c \in rest
      BY <1>2, <1>4, <1>8, <2>2, <3>1
    <3> QED
      BY <1>3, <1>6, <3>2
  <2> QED
    BY <2>1, <2>2
<1> QED
  BY <1>7, <1>8

\* A missing range is of the SDU it was computed for.
LEMMA MissingType ==
  ASSUME IInv, NEW p \in Nat, RN <= p, p < RS, NEW n \in Missing(At(p))
  PROVE  /\ n \in NackType /\ n.sn = At(p) /\ n.sn \in Sns /\ Pos(n.sn) = p
         /\ n.from \in Nat /\ n.from <= sdus[p + 1] /\ n = MissingFrom(p, n.from)
<1>0. /\ p < SnMod /\ SnMod \in Nat /\ sdus[p + 1] \in Nat
      /\ Got(p) \subseteq 0..(sdus[p + 1] - 1) /\ Got(p) \subseteq Nat
  BY GotBytes, Ranges
<1>1. At(p) \in Sns /\ Pos(At(p)) = p /\ Slot(At(p)) = Place(p)
  <2>1. p \in 0..(SnMod - 1)
    BY <1>0
  <2> QED
    BY <2>1, AtType, SlotPos
<1>2. ~rx[Place(p)].done
  <2>1. rx[Place(p)].done => Missing(At(p)) = {}
    BY <1>1 DEF Missing
  <2> QED
    BY <2>1
<1>3. PICK c : c = n.from /\ StartOf(p, c) /\ n = MissingFrom(p, c)
  BY <1>2, MissingIs
<1>4. c \in Nat /\ c \notin Got(p) /\ (c = 0 \/ c - 1 \in Got(p))
  BY <1>3 DEF StartOf
<1>5. c <= sdus[p + 1]
  BY <1>0, <1>4
<1>6. CASE \E e \in Got(p) : e > c
  <2>1. PICK e : e = CHOOSE x \in Got(p) : x > c /\ c..(x - 1) \cap Got(p) = {}
    OBVIOUS
  <2>2. e \in Got(p) /\ e > c
    <3>1. \E x \in Got(p) : x > c /\ c..(x - 1) \cap Got(p) = {}
      BY <1>0, <1>4, <1>6, RangeEnd
    <3> QED
      BY <2>1, <3>1
  <2>3. n = [sn |-> At(p), from |-> c, to |-> e - 1]
    BY <1>3, <1>6, <2>1 DEF MissingFrom, Nack
  <2>4. e - 1 \in Nat
    BY <1>0, <1>4, <2>2
  <2> QED
    BY <1>1, <1>3, <1>4, <1>5, <2>3, <2>4 DEF NackType
<1>7. CASE ~\E e \in Got(p) : e > c
  <2>1. n = [sn |-> At(p), from |-> c, to |-> End]
    BY <1>3, <1>7 DEF MissingFrom, Nack
  <2> QED
    BY <1>1, <1>3, <1>4, <1>5, <2>1 DEF NackType
<1> QED
  BY <1>6, <1>7

\* Every byte that is missing below the end of the report is in a missing range.
LEMMA MissingCovers ==
  ASSUME IInv, NEW p \in Nat, RN <= p, p < RS, NEW b \in 0..(sdus[p + 1] - 1),
         ~Has(p + 1, b)
  PROVE  \E n \in Missing(At(p)) : n.from <= b /\ (n.to = End \/ b <= n.to)
<1>0. /\ p < SnMod /\ SnMod \in Nat /\ sdus[p + 1] \in Nat /\ p < RN + W /\ p < TN
      /\ Got(p) \subseteq 0..(sdus[p + 1] - 1) /\ Got(p) \subseteq Nat
      /\ SlotAt(rx, delivered, RH, p)
      /\ \A s \in rx[Place(p)].pdus : GoodSeg(s) /\ s.id = p + 1
  BY GotBytes, Ranges
<1>1. b \in Nat /\ b < sdus[p + 1]
  BY <1>0
<1>2. ~rx[Place(p)].done
  BY <1>0 DEF SlotAt, Has
<1>3. b \notin Got(p)
  <2> SUFFICES ASSUME b \in Got(p) PROVE FALSE
    OBVIOUS
  <2>1. PICK s \in rx[Place(p)].pdus : b \in Bytes(s)
    BY DEF Got, BytesOf
  <2>2. Place(p) \in DOMAIN rx
    BY PlaceType DEF IInv, Types, ReceiverTypes
  <2> QED
    BY <1>0, <2>1, <2>2 DEF Has
<1>4. PICK c \in Nat : StartOf(p, c) /\ c <= b /\ \A x \in Nat : c <= x /\ x <= b => x \notin Got(p)
  <2> DEFINE T == {x \in Got(p) : x <= b}
  <2>1. CASE T = {}
    <3>1. \A x \in Nat : x <= b => x \notin Got(p)
      BY <2>1
    <3> QED
      BY <1>1, <3>1 DEF StartOf
  <2>2. CASE T # {}
    <3>1. T \subseteq 0..b
      BY <1>0, <1>1
    <3>2. PICK m \in T : \A k \in T : k <= m
      <4> HIDE DEF T
      <4> QED
        BY <1>1, <2>2, <3>1, Greatest
    <3>3. m \in Got(p) /\ m \in Nat /\ m <= b /\ m # b
      BY <1>0, <1>3
    <3>4. \A x \in Nat : m + 1 <= x /\ x <= b => x \notin Got(p)
      <4> SUFFICES ASSUME NEW x \in Nat, m + 1 <= x, x <= b, x \in Got(p) PROVE FALSE
        OBVIOUS
      <4>1. x <= m
        BY <3>2
      <4> QED
        BY <3>3, <4>1
    <3>5. m + 1 \in Nat /\ m + 1 <= b /\ (m + 1) - 1 = m
      BY <1>1, <3>3
    <3>6. StartOf(p, m + 1)
      BY <3>3, <3>4, <3>5 DEF StartOf
    <3> QED
      BY <3>4, <3>5, <3>6
  <2> QED
    BY <2>1, <2>2
<1>5. PICK n : n = MissingFrom(p, c)
  OBVIOUS
<1>6. CASE \E e \in Got(p) : e > c
  <2>1. n \in Missing(At(p))
    BY <1>2, <1>4, <1>5, <1>6, MissingIs
  <2>2. PICK e : e = CHOOSE x \in Got(p) : x > c /\ c..(x - 1) \cap Got(p) = {}
    OBVIOUS
  <2>3. e \in Got(p) /\ e > c
    <3>1. \E x \in Got(p) : x > c /\ c..(x - 1) \cap Got(p) = {}
      BY <1>0, <1>4, <1>6, RangeEnd DEF StartOf
    <3> QED
      BY <2>2, <3>1
  <2>4. n.from = c /\ n.to = e - 1
    BY <1>5, <1>6, <2>2 DEF MissingFrom, Nack
  <2>5. e \in Nat /\ b <= e - 1
    BY <1>0, <1>1, <1>4, <2>3
  <2> QED
    BY <1>4, <2>1, <2>4, <2>5
<1>7. CASE ~\E e \in Got(p) : e > c
  <2>1. ASSUME NEW l \in rx[Place(p)].pdus, l.last PROVE FALSE
    <3>1. GoodSeg(l) /\ l.id = p + 1
      BY <1>0
    <3>2. l.so + l.size = sdus[p + 1] /\ l.so \in Nat /\ l.size \in Nat /\ l.size >= 1
      BY <2>1, <3>1, SegNumbers DEF GoodSeg
    <3>3. PICK e \in Nat : e = l.so + l.size - 1
      BY <3>2
    <3>4. e \in Bytes(l)
      BY <3>2, <3>3 DEF Bytes
    <3>5. e \in Got(p)
      BY <3>4 DEF Got, BytesOf
    <3>6. b <= e
      BY <1>0, <1>1, <3>2, <3>3
    <3>7. e # c
      BY <1>4, <3>5 DEF StartOf
    <3> QED
      BY <1>1, <1>4, <1>7, <3>5, <3>6, <3>7
  <2>2. n \in Missing(At(p))
    BY <1>2, <1>4, <1>5, <2>1, MissingIs
  <2>3. n.from = c /\ n.to = End
    BY <1>5, <1>7 DEF MissingFrom, Nack
  <2> QED
    BY <1>4, <2>2, <2>3
<1> QED
  BY <1>6, <1>7

\* What a report may ask for again.
LEMMA AllMissingIs ==
  ASSUME IInv
  PROVE  /\ \A n \in AllMissing : \E p \in Nat : RN <= p /\ p < RS /\ n \in Missing(At(p))
         /\ AllMissing # {} =>
              \A p \in Nat : RN <= p /\ p < RS => Missing(At(p)) \subseteq AllMissing
<1>0. /\ RN \in Nat /\ RS \in Nat /\ RN <= RS /\ SnMod \in Nat /\ RS <= RH /\ RH <= TN
      /\ TN < SnMod /\ RH \in Nat /\ TN \in Nat
  BY Ranges
<1>1. rx_next \in Sns /\ rx_highest_status \in Sns
  BY DEF IInv, Types, ReceiverTypes
<1>2. ModRx(rx_next, rx_highest_status) = RS - RN
  BY <1>0, <1>1, Distance DEF ModRx, RN, RS
<1>3. PICK len \in Nat : len = RS - RN /\ RS = RN + len
  BY <1>0
<1>4. \A k \in 0..(len - 1) : Plus(rx_next, k) = At(RN + k)
  <2> SUFFICES ASSUME NEW k \in 0..(len - 1) PROVE Plus(rx_next, k) = At(RN + k)
    OBVIOUS
  <2>1. k \in Nat /\ RN + k < SnMod
    BY <1>0, <1>3
  <2> QED
    BY <1>1, <2>1, PlusPos DEF RN
<1> DEFINE U == UNION {Missing(Plus(rx_next, k)) : k \in 0..(len - 1)}
<1>5. AllMissing = {} \/ AllMissing = U
  BY <1>2, <1>3 DEF AllMissing
<1>6. ASSUME NEW n \in U PROVE \E p \in Nat : RN <= p /\ p < RS /\ n \in Missing(At(p))
  <2>1. PICK k \in 0..(len - 1) : n \in Missing(Plus(rx_next, k))
    OBVIOUS
  <2>2. RN + k \in Nat /\ RN <= RN + k /\ RN + k < RS
    BY <1>0, <1>3
  <2> QED
    BY <1>4, <2>1, <2>2
<1>7. ASSUME NEW p \in Nat, RN <= p, p < RS PROVE Missing(At(p)) \subseteq U
  <2>1. PICK k \in 0..(len - 1) : p = RN + k
    <3>1. p - RN \in 0..(len - 1) /\ p = RN + (p - RN)
      BY <1>0, <1>3, <1>7
    <3> QED
      BY <3>1
  <2> QED
    BY <1>4, <2>1
<1> HIDE DEF U
<1> QED
  BY <1>5, <1>6, <1>7

\* A missing range and its position.
LEMMA MissingAt ==
  ASSUME IInv, NEW n \in AllMissing
  PROVE  /\ n \in NackType /\ n.sn \in Sns /\ Pos(n.sn) \in Nat /\ RN <= Pos(n.sn)
         /\ Pos(n.sn) < RS /\ n.from \in Nat /\ n.sn = At(Pos(n.sn))
         /\ ModRx(rx_next, n.sn) = Pos(n.sn) - RN
         /\ n.from <= sdus[Pos(n.sn) + 1] /\ sdus[Pos(n.sn) + 1] \in Nat
         /\ n = MissingFrom(Pos(n.sn), n.from)
<1>1. PICK p \in Nat : RN <= p /\ p < RS /\ n \in Missing(At(p))
  BY AllMissingIs
<1>2. /\ n \in NackType /\ n.sn = At(p) /\ n.sn \in Sns /\ Pos(n.sn) = p
      /\ n.from \in Nat /\ n.from <= sdus[p + 1] /\ n = MissingFrom(p, n.from)
  BY <1>1, MissingType
<1>3. sdus[p + 1] \in Nat
  BY <1>1, GotBytes
<1>4. ModRx(rx_next, n.sn) = p - RN
  <2>1. rx_next \in Sns
    BY DEF IInv, Types, ReceiverTypes
  <2> QED
    BY <1>1, <1>2, <2>1, Distance DEF ModRx, RN
<1> QED
  BY <1>1, <1>2, <1>3, <1>4

\* The last of the ranges a report asks for.
LEMMA LastIs ==
  ASSUME IInv, NEW P, P \subseteq AllMissing, P # {}
  PROVE  LastOf(P) \in P /\ \A b \in P \ {LastOf(P)} : NackBefore(b, LastOf(P))
<1>0. RN \in Nat /\ RS \in Nat
  BY Ranges
<1>1. \A n \in P : /\ Pos(n.sn) \in Nat /\ RN <= Pos(n.sn) /\ Pos(n.sn) < RS /\ n.from \in Nat
                   /\ ModRx(rx_next, n.sn) = Pos(n.sn) - RN /\ n.sn \in Sns
                   /\ n.from <= sdus[Pos(n.sn) + 1] /\ sdus[Pos(n.sn) + 1] \in Nat
                   /\ n = MissingFrom(Pos(n.sn), n.from)
  BY MissingAt
<1> DEFINE T == {Pos(n.sn) : n \in P}
<1>2. PICK m \in T : \A k \in T : k <= m
  <2>1. T \subseteq 0..RS /\ T # {}
    BY <1>0, <1>1
  <2> HIDE DEF T
  <2> QED
    BY <1>0, <2>1, Greatest
<1>3. \A n \in P : Pos(n.sn) <= m
  BY <1>2
<1> DEFINE V == {n \in P : Pos(n.sn) = m}
           F == {n.from : n \in V}
<1>4. V # {} /\ m \in Nat
  <2>1. PICK n \in P : m = Pos(n.sn)
    OBVIOUS
  <2> QED
    BY <1>1, <2>1
<1>5. PICK z \in Nat : z = sdus[m + 1]
  <2>1. PICK n \in V : TRUE
    BY <1>4
  <2> QED
    BY <1>1, <2>1
<1>6. PICK f \in F : \A k \in F : k <= f
  <2>1. \A n \in V : n.from \in 0..z
    BY <1>1, <1>5
  <2>2. F \subseteq 0..z /\ F # {}
    BY <1>4, <2>1
  <2> HIDE DEF F
  <2> QED
    BY <1>5, <2>2, Greatest
<1>7. PICK a \in V : a.from = f
  OBVIOUS
<1>8. a \in P /\ Pos(a.sn) = m /\ \A n \in V : n.from <= a.from
  BY <1>6, <1>7
<1> HIDE DEF T, V, F
<1>9. ASSUME NEW b \in P \ {a} PROVE NackBefore(b, a)
  <2>1. /\ b \in P /\ b # a /\ Pos(b.sn) <= m /\ Pos(b.sn) \in Nat /\ b.from \in Nat
        /\ a.from \in Nat /\ b.sn \in Sns /\ a.sn \in Sns
    BY <1>1, <1>3, <1>8, <1>9
  <2>2. CASE Pos(b.sn) < m
    <3>1. ModRx(rx_next, b.sn) = Pos(b.sn) - RN /\ ModRx(rx_next, a.sn) = m - RN
      BY <1>1, <1>8, <2>1
    <3>2. ModRx(rx_next, b.sn) < ModRx(rx_next, a.sn)
      BY <1>0, <1>4, <2>1, <2>2, <3>1
    <3> QED
      BY <3>2 DEF NackBefore
  <2>3. CASE Pos(b.sn) = m
    <3>1. b.sn = a.sn
      BY <1>8, <2>1, <2>3, PosInj
    <3>2. b.from <= a.from
      BY <1>8, <2>1, <2>3 DEF V
    <3>3. b.from # a.from
      <4> SUFFICES ASSUME b.from = a.from PROVE FALSE
        OBVIOUS
      <4>1. b = MissingFrom(m, a.from) /\ a = MissingFrom(m, a.from)
        BY <1>1, <1>8, <2>1, <2>3
      <4> QED
        BY <2>1, <4>1
    <3> QED
      BY <2>1, <3>1, <3>2, <3>3 DEF NackBefore
  <2> QED
    BY <1>4, <2>1, <2>2, <2>3
<1>10. \E x \in P : \A b \in P \ {x} : NackBefore(b, x)
  BY <1>8, <1>9
<1> QED
  BY <1>10 DEF LastOf

\* A report acknowledges no byte that is missing.
LEMMA ReportOK ==
  ASSUME IInv, NEW P, Fits(P, AllMissing), NEW r, r = Report(P, AllMissing)
  PROVE  r \in ReportType /\ RepOK(r)
<1>0. /\ RN \in Nat /\ RS \in Nat /\ RN <= RS /\ RS <= TB /\ TB \in Nat /\ SnMod \in Nat
      /\ RS <= RH /\ RH <= TN /\ TN < SnMod /\ RH \in Nat /\ TN \in Nat /\ TB <= TN
  BY Ranges
<1>1. rx_next \in Sns /\ RingOK
  BY DEF IInv, Types, ReceiverTypes
<1>2. P \subseteq AllMissing
  BY DEF Fits
<1>3. CASE Wrapped(P)
  <2>1. r = [ack |-> rx_next, nacks |-> {}, good |-> FALSE]
    BY <1>3 DEF Report
  <2> QED
    BY <1>1, <2>1 DEF ReportType, RepOK
<1>4. \A i \in Nat : 1 <= i /\ i <= RN => \A b : Has(i, b)
  <2> SUFFICES ASSUME NEW i \in Nat, 1 <= i, i <= RN, NEW b PROVE Has(i, b)
    OBVIOUS
  <2>1. PICK q \in Nat : i = q + 1 /\ q < RN
    <3>1. i - 1 \in Nat /\ i = (i - 1) + 1 /\ i - 1 < RN
      BY <1>0
    <3> QED
      BY <3>1
  <2>2. delivered[i] = 1
    BY <1>1, <2>1 DEF RingOK
  <2> QED
    BY <2>2 DEF Has
<1>5. CASE ~Wrapped(P) /\ P = {}
  <2>1. r = [ack |-> rx_next, nacks |-> {}, good |-> TRUE]
    BY <1>5 DEF Report, AckOf
  <2>2. Pos(r.ack) = RN
    BY <2>1 DEF RN
  <2>3. RN <= TB
    BY <1>0
  <2>4. \A i \in 1..RN : \A b \in 0..(sdus[i] - 1) : Has(i, b)
    BY <1>0, <1>4
  <2> QED
    BY <1>1, <2>1, <2>2, <2>3, <2>4 DEF ReportType, RepOK
<1>6. CASE ~Wrapped(P) /\ P # {}
  <2>1. PICK l : l = LastOf(P)
    OBVIOUS
  <2>2. l \in P /\ \A b \in P \ {l} : NackBefore(b, l)
    BY <1>2, <1>6, <2>1, LastIs
  <2>3. /\ l \in NackType /\ l.sn \in Sns /\ Pos(l.sn) \in Nat /\ RN <= Pos(l.sn)
        /\ Pos(l.sn) < RS /\ l.from \in Nat /\ ModRx(rx_next, l.sn) = Pos(l.sn) - RN
    BY <1>2, <2>2, MissingAt
  <2>4. PICK x \in Nat : x = Pos(l.sn) /\ RN <= x /\ x < RS
    BY <2>3
  <2> DEFINE cut == [l EXCEPT !.to = End]
             nacks == IF P = AllMissing \/ P = {} THEN P ELSE (P \ {l}) \cup {cut}
  <2>5. r = [ack |-> Plus(l.sn, 1), nacks |-> nacks, good |-> TRUE]
    BY <1>6, <2>1 DEF Report, AckOf
  <2>6. Plus(l.sn, 1) \in Sns /\ Pos(Plus(l.sn, 1)) = x + 1
    <3>1. Pos(l.sn) + 1 < SnMod
      BY <1>0, <2>4
    <3> QED
      BY <2>3, <2>4, <3>1, PlusPos
  <2>7. cut \in NackType /\ cut.sn = l.sn /\ cut.from = l.from /\ cut.to = End
    BY <2>3 DEF NackType
  <2> HIDE DEF cut
  <2>8. P \subseteq NackType
    BY <1>2, MissingAt
  <2>9. nacks \subseteq NackType
    BY <2>7, <2>8
  <2>10. r \in ReportType
    BY <2>5, <2>6, <2>9 DEF ReportType
  <2>11. ASSUME NEW n \in P, n # l PROVE n \in nacks
    BY <2>11
  <2>12. cut \in nacks \/ nacks = AllMissing
    BY <1>6
  <2> HIDE DEF nacks
  <2>13. ASSUME NEW i \in 1..(x + 1), NEW b \in 0..(sdus[i] - 1), ~Has(i, b)
         PROVE  Covered(r, i, b)
    <3>1. PICK p \in Nat : i = p + 1 /\ RN <= p /\ p <= x
      <4>1. i \in Nat /\ 1 <= i /\ i <= x + 1
        BY <2>4
      <4>2. ~(i <= RN)
        BY <1>4, <2>13, <4>1
      <4>3. i - 1 \in Nat /\ i = (i - 1) + 1 /\ RN <= i - 1 /\ i - 1 <= x
        BY <1>0, <2>4, <4>1, <4>2
      <4> QED
        BY <4>3
    <3>2. p < RS
      BY <1>0, <2>4, <3>1
    <3>3. PICK n \in Missing(At(p)) : n.from <= b /\ (n.to = End \/ b <= n.to)
      <4>1. ~Has(p + 1, b) /\ b \in 0..(sdus[p + 1] - 1)
        BY <2>13, <3>1
      <4> QED
        BY <3>1, <3>2, <4>1, MissingCovers
    <3>4. n \in AllMissing
      <4>1. AllMissing # {}
        BY <1>2, <2>2
      <4> QED
        BY <3>1, <3>2, <4>1, AllMissingIs
    <3>5. n.sn = At(p) /\ n.sn \in Sns /\ Pos(n.sn) = p /\ n.from \in Nat
      BY <3>1, <3>2, MissingType
    <3>6. p = i - 1 /\ b \in Int
      BY <3>1
    <3>7. n \in nacks => Covered(r, i, b)
      BY <2>5, <3>3, <3>5, <3>6 DEF Covered
    <3>8. NackBefore(n, l) => n \in nacks
      <4> SUFFICES ASSUME NackBefore(n, l) PROVE n \in nacks
        OBVIOUS
      <4>1. n \in P
        BY <2>2, <3>4 DEF Fits
      <4>2. n # l
        <5>1. ~NackBefore(l, l)
          BY <1>0, <2>3 DEF NackBefore
        <5> QED
          BY <5>1
      <4> QED
        BY <2>11, <4>1, <4>2
    <3>9. CASE p < x
      <4>1. ModRx(rx_next, n.sn) = p - RN
        BY <3>4, <3>5, MissingAt
      <4>2. ModRx(rx_next, n.sn) < ModRx(rx_next, l.sn)
        BY <1>0, <2>3, <2>4, <3>9, <4>1
      <4> QED
        BY <3>7, <3>8, <4>2 DEF NackBefore
    <3>10. CASE p = x
      <4>1. n.sn = l.sn
        BY <2>3, <2>4, <3>5, <3>10, PosInj
      <4>2. CASE n.from < l.from
        BY <3>7, <3>8, <4>1, <4>2 DEF NackBefore
      <4>3. CASE l.from <= n.from
        <5>1. CASE nacks = AllMissing
          BY <3>4, <3>7, <5>1
        <5>2. CASE cut \in nacks
          <6>1. l.from <= b
            BY <2>3, <3>3, <3>5, <3>6, <4>3
          <6> QED
            BY <2>5, <2>7, <3>5, <3>6, <4>1, <5>2, <6>1 DEF Covered
        <5> QED
          BY <2>12, <5>1, <5>2
      <4> QED
        BY <2>3, <3>5, <4>2, <4>3
    <3> QED
      BY <2>4, <3>1, <3>9, <3>10
  <2>14. Pos(r.ack) = x + 1
    BY <2>5, <2>6
  <2>15. x + 1 <= TB
    BY <1>0, <2>4
  <2>16. RepOK(r)
    BY <2>13, <2>14, <2>15 DEF RepOK
  <2> QED
    BY <2>10, <2>16
<1> QED
  BY <1>3, <1>5, <1>6

\* generate_status
LEMMA GenerateStatusOK ==
  ASSUME IInv, down = "no", GenerateStatus
  PROVE  IInv'
<1>1. PICK P : Fits(P, AllMissing) /\ reports' = reports \cup {Report(P, AllMissing)}
  BY DEF GenerateStatus
<1>2. PICK r : r = Report(P, AllMissing)
  OBVIOUS
<1>3. r \in ReportType /\ RepOK(r)
  BY <1>1, <1>2, ReportOK
<1>4. /\ status_triggered' = FALSE
      /\ UNCHANGED <<rx, rx_next, rx_next_highest, rx_highest_status,
                     rx_next_status_trigger, reassembly_timer, delivered, data, lost, down>>
      /\ UNCHANGED sdus /\ UNCHANGED txVars
  BY DEF GenerateStatus
<1>5. RepOK(r)'
  BY <1>3, <1>4 DEF RepOK, Pos, TB, TN, TailUnsent, txVars, Has, Covered, Bytes, At
<1>6. reports' \subseteq ReportType /\ \A x \in reports' : x \in reports \/ RepOK(x)'
  BY <1>1, <1>2, <1>3, <1>5 DEF IInv, Types, ChannelTypes
<1>7. RN' = RN /\ RS' = RS /\ RT' = RT /\ RH' = RH
  BY <1>4 DEF RN, RS, RT, RH, Pos
<1>8. RingAt(rx', delivered', RN', RH')
  BY <1>4, <1>7, RingNow
<1>9. \A i, b : Has(i, b)' <=> Has(i, b)
  BY <1>4 DEF Has, Bytes
<1>10. HeadsOK' /\ TimerOK'
  BY <1>4, <1>7 DEF IInv, HeadsOK, TimerOK, Place, W, window_size
<1>11. RN <= RN' /\ RN' <= RS' /\ RS' <= RH' /\ RH' <= TN /\ RS' <= TB
  BY <1>7, Ranges
<1>12. TailUnsent => delivered'[TN] = 0
  BY <1>4 DEF IInv, SenderOK, TailNew
<1>13. /\ rx_next' \in Sns /\ rx_next_highest' \in Sns /\ rx_highest_status' \in Sns
       /\ rx_next_status_trigger' \in Sns /\ reassembly_timer' \in BOOLEAN
       /\ status_triggered' \in BOOLEAN /\ down' \in {"no", "poll", "ring"}
       /\ data' \subseteq data /\ UNCHANGED lost
  BY <1>4 DEF IInv, Types, ReceiverTypes, ChannelTypes
<1>14. \A i \in Ids : delivered[i] > 0 => delivered'[i] > 0
  BY <1>4
<1> QED
  BY <1>4, <1>6, <1>8, <1>9, <1>10, <1>11, <1>12, <1>13, <1>14, ReceiverStep

\* The invariant is inductive.
LEMMA NextOK ==
  ASSUME IInv, ~EarlyReassembly, [Next]_vars
  PROVE  IInv'
<1>1. CASE Next
  <2>0. down = "no"
    BY <1>1 DEF Next
  <2>1. ASSUME NEW size \in Sizes, RecvSdu(size) PROVE IInv'
    BY <2>0, <2>1, RecvSduOK
  <2>2. CASE GeneratePdu
    <3>1. PICK g \in 1..MaxSize : GenerateRetx(g) \/ \E due \in PollDue : GenerateTx(g, due)
      BY <2>2 DEF GeneratePdu
    <3>2. g \in Nat /\ 1 <= g
      OBVIOUS
    <3>3. CASE GenerateRetx(g)
      BY <3>2, <3>3, GenerateRetxOK
    <3>4. ASSUME NEW due \in PollDue, GenerateTx(g, due) PROVE IInv'
      BY <3>2, <3>4, GenerateTxOK
    <3> QED
      BY <3>1, <3>3, <3>4
  <2>3. CASE GenerateStatus
    BY <2>0, <2>3, GenerateStatusOK
  <2>4. ASSUME NEW d \in data, (InReach(d.seg) /\ RecvData(d)) \/ LoseData(d)
        PROVE  IInv'
    BY <2>0, <2>4, RecvDataOK, LoseOK
  <2>5. ASSUME NEW r \in reports, RecvStatus(r) \/ LoseStatus(r) PROVE IInv'
    BY <2>0, <2>5, RecvStatusOK, LoseOK
  <2>6. CASE ExpirePoll
    BY <2>0, <2>6, ExpirePollOK
  <2>7. CASE ReassemblyMayExpire /\ ExpireReassembly
    BY <2>0, <2>7, ExpireReassemblyOK DEF ReassemblyMayExpire
  <2> QED
    BY <1>1, <2>1, <2>2, <2>3, <2>4, <2>5, <2>6, <2>7 DEF Next
<1>2. CASE UNCHANGED vars
  <2>1. UNCHANGED sdus /\ UNCHANGED txVars /\ UNCHANGED rxVars /\ UNCHANGED down
        /\ data' \subseteq data /\ reports' \subseteq reports /\ lost' \in 0..MaxLoss
    BY <1>2 DEF vars, IInv, Types, ChannelTypes
  <2> QED
    BY <2>1, LossOK
<1> QED
  BY <1>1, <1>2

\* The invariant holds in every state, when t_reassembly expires only after the
\* SDU that is on its way is all sent.
THEOREM IInvariant ==
  ASSUME ~EarlyReassembly
  PROVE  Spec => []IInv
<1>1. Init => IInv
  BY InitOK
<1>2. IInv /\ [Next]_vars => IInv'
  BY NextOK
<1> QED
  BY <1>1, <1>2, PTL DEF Spec

-----------------------------------------------------------------------------
(* What the invariant says of the two sides.                               *)

\* The windows of the two sides agree, and are nested in every state when
\* t_reassembly expires only after an SDU is all sent.
THEOREM WindowsAgreeCorrect ==
  ASSUME ~EarlyReassembly
  PROVE  Spec => [](WindowsAgree /\ WindowsNested)
<1>1. ASSUME IInv PROVE WindowsAgree /\ WindowsNested
  <2>0. /\ TA \in Nat /\ TN \in Nat /\ RN \in Nat /\ RS \in Nat /\ RH \in Nat /\ W \in Nat
        /\ TA <= RN /\ RN <= RS /\ RS <= RH /\ RH <= TN /\ TN <= TA + W
    BY <1>1, Ranges
  <2>1. Types
    BY <1>1 DEF IInv
  <2>2. \A k \in 1..Len(tx_list) : tx_list[k] \in Segment
    BY <2>1 DEF Types, SenderTypes
  <2>3. \A k \in DOMAIN rx : rx[k].pdus \subseteq Segment /\ rx[k].done \in BOOLEAN
    BY <2>1 DEF Types, ReceiverTypes, SlotType
  <2>4. TypeOK
    BY <2>1, <2>2, <2>3 DEF TypeOK, Types, SenderTypes, ReceiverTypes, ChannelTypes
  <2>5. /\ modulus_tx(rx_next) = RN - TA /\ modulus_tx(rx_highest_status) = RS - TA
        /\ modulus_tx(rx_next_highest) = RH - TA /\ modulus_tx(tx_next) = TN - TA
    <3>1. /\ tx_next_ack \in Sns /\ tx_next \in Sns /\ rx_next \in Sns
          /\ rx_next_highest \in Sns /\ rx_highest_status \in Sns
      BY <2>1 DEF Types, SenderTypes, ReceiverTypes
    <3>2. TA <= RS /\ TA <= RH /\ TA <= TN
      BY <2>0
    <3> QED
      BY <2>0, <3>1, <3>2, ModTx DEF RN, RS, RH, TN
  <2>6. /\ modulus_tx(rx_next) <= modulus_tx(rx_highest_status)
        /\ modulus_tx(rx_highest_status) <= modulus_tx(rx_next_highest)
        /\ modulus_tx(rx_next_highest) <= modulus_tx(tx_next)
        /\ modulus_tx(tx_next) <= W
    BY <2>0, <2>5
  <2> QED
    BY <2>4, <2>6 DEF WindowsAgree, WindowsNested, W
<1> QED
  BY <1>1, IInvariant, PTL

\* An element of tx_list: the rest of the SDU sent last, or one never sent.
LEMMA QueueElem ==
  ASSUME IInv, NEW k \in 1..Len(tx_list)
  PROVE  /\ tx_list[k].id = TB + k /\ tx_list[k].id \in 1..Len(sdus)
         /\ tx_list[k].so \in Nat /\ tx_list[k].size \in Nat
         /\ tx_list[k].so + tx_list[k].size = sdus[tx_list[k].id]
         /\ \/ /\ TailUnsent /\ k = 1 /\ tx_list[k].sn = At(TN - 1) /\ tx_list[k].id = TN
               /\ tx_list[k].so = Sent(TN)
            \/ tx_list[k].sn = None /\ TN < tx_list[k].id /\ tx_list[k].so = 0
<1>0. /\ TN \in Nat /\ TB \in Nat /\ TxShape /\ Len(sdus) \in Nat /\ TN <= Len(sdus)
      /\ (TailUnsent => TN >= 1 /\ TB = TN - 1) /\ (~TailUnsent => TB = TN)
      /\ \A i \in 1..Len(sdus) : sdus[i] \in Nat
  BY SentSizes DEF IInv, SenderOK
<1>1. tx_list \in Seq(Segment) /\ Len(tx_list) \in Nat /\ k \in Nat /\ 1 <= k /\ k <= Len(tx_list)
  BY DEF IInv, Types, SenderTypes
<1>2. tx_list[k].so \in Nat /\ tx_list[k].size \in Nat
  <2>1. PICK x : x = tx_list[k] /\ x \in Segment
    BY <1>1
  <2>2. x.so \in Nat /\ x.size \in Nat
    BY <2>1 DEF Segment
  <2> QED
    BY <2>1, <2>2
<1>3. CASE TailUnsent /\ k = 1
  <2>1. TailOK(tx_list[k])
    BY <1>0, <1>3 DEF TxShape
  <2>2. tx_list[k].so = Sent(TN)
    BY <1>3 DEF Sent
  <2>3. /\ tx_list[k].id = TN /\ tx_list[k].sn = At(TN - 1)
        /\ tx_list[k].so + tx_list[k].size = sdus[TN]
    BY <2>1 DEF TailOK
  <2>4. TN = TB + k /\ TN \in 1..Len(sdus)
    BY <1>0, <1>3
  <2> QED
    BY <1>2, <1>3, <2>2, <2>3, <2>4
<1>4. CASE TailUnsent /\ k # 1
  <2>1. k \in 2..Len(tx_list) /\ Len(tx_list) = Len(sdus) - TN + 1
    BY <1>0, <1>1, <1>4 DEF TxShape
  <2>2. tx_list[k] = Fresh(TN + k - 1, sdus[TN + k - 1])
    BY <1>0, <1>4, <2>1 DEF TxShape
  <2>3. PICK i \in Nat : i = TN + k - 1 /\ i = TB + k /\ i \in 1..Len(sdus) /\ TN < i
    <3>1. TN + k - 1 \in Nat /\ TN + k - 1 = TB + k /\ TN + k - 1 \in 1..Len(sdus)
          /\ TN < TN + k - 1
      BY <1>0, <1>1, <1>4, <2>1
    <3> QED
      BY <3>1
  <2>4. /\ tx_list[k].id = i /\ tx_list[k].sn = None /\ tx_list[k].so = 0
        /\ tx_list[k].size = sdus[i]
    BY <2>2, <2>3 DEF Fresh
  <2> QED
    BY <1>0, <1>2, <2>3, <2>4
<1>5. CASE ~TailUnsent
  <2>1. Len(tx_list) = Len(sdus) - TN /\ tx_list[k] = Fresh(TN + k, sdus[TN + k])
    BY <1>0, <1>5 DEF TxShape
  <2>2. PICK i \in Nat : i = TN + k /\ i = TB + k /\ i \in 1..Len(sdus) /\ TN < i
    <3>1. TN + k \in Nat /\ TN + k = TB + k /\ TN + k \in 1..Len(sdus) /\ TN < TN + k
      BY <1>0, <1>1, <1>5, <2>1
    <3> QED
      BY <3>1
  <2>3. /\ tx_list[k].id = i /\ tx_list[k].sn = None /\ tx_list[k].so = 0
        /\ tx_list[k].size = sdus[i]
    BY <2>1, <2>2 DEF Fresh
  <2> QED
    BY <1>0, <1>2, <2>2, <2>3
<1> QED
  BY <1>3, <1>4, <1>5

\* The sender holds every byte the receiver does not have, and no byte twice.
THEOREM NothingForgottenCorrect ==
  ASSUME ~EarlyReassembly
  PROVE  Spec => []NothingForgotten
<1>1. ASSUME IInv PROVE NothingForgotten
  <2> SUFFICES ASSUME NEW i \in 1..Len(sdus)
               PROVE  /\ \A b \in 0..(sdus[i] - 1) : b \in BytesOf(Unacked(i)) \/ Has(i, b)
                      /\ \A s, t \in Unacked(i) : s = t \/ Bytes(s) \cap Bytes(t) = {}
    BY DEF NothingForgotten, Has
  <2>0. /\ TN \in Nat /\ TB \in Nat /\ TxShape /\ Len(sdus) \in Nat /\ TN <= Len(sdus)
        /\ (TailUnsent => TN >= 1 /\ TB = TN - 1) /\ (~TailUnsent => TB = TN)
        /\ sdus[i] \in Nat /\ \A j \in 1..TN : Sent(j) \in Nat
        /\ \A j \in 1..TB : Sent(j) = sdus[j]
    BY <1>1, SentSizes DEF IInv, SenderOK
  <2>1. /\ NoneForgotten /\ \A s \in Held : GoodSeg(s)
        /\ \A s, t \in Held : s.id = t.id => s = t \/ Bytes(s) \cap Bytes(t) = {}
    BY <1>1 DEF IInv, SenderOK, HeldOK
  <2>2. \A s \in Unacked(i) : s.id = i /\ (s \in Held \/ \E k \in 1..Len(tx_list) : s = tx_list[k])
    BY DEF Unacked, Held
  <2>3. Len(tx_list) \in Nat
    BY <1>1 DEF IInv, Types, SenderTypes
  <2>4. ASSUME NEW b \in 0..(sdus[i] - 1) PROVE b \in BytesOf(Unacked(i)) \/ Has(i, b)
    <3>0. b \in Nat /\ b < sdus[i]
      BY <2>0
    <3>1. CASE i \in 1..TN /\ b < Sent(i)
      <4>1. b \in 0..(Sent(i) - 1)
        BY <2>0, <3>0, <3>1
      <4>2. Has(i, b) \/ \E s \in Held : s.id = i /\ b \in Bytes(s)
        BY <2>1, <3>1, <4>1 DEF NoneForgotten
      <4> QED
        BY <4>2 DEF BytesOf, Unacked, Held
    <3>2. CASE ~(i \in 1..TN /\ b < Sent(i))
      <4>1. PICK k \in 1..Len(tx_list) : tx_list[k].id = i /\ tx_list[k].so <= b
        <5>1. CASE i \in 1..TN
          <6>1. TailUnsent /\ i = TN
            BY <2>0, <3>0, <3>2, <5>1
          <6>2. Len(tx_list) = Len(sdus) - TN + 1
            BY <2>0, <6>1 DEF TxShape
          <6>3. 1 \in 1..Len(tx_list)
            BY <2>0, <6>2
          <6>4. tx_list[1].id = TB + 1 /\ tx_list[1].so = Sent(TN)
            <7>1. TailOK(tx_list[1])
              BY <2>0, <6>1 DEF TxShape
            <7> QED
              BY <2>0, <6>1, <7>1 DEF TailOK, Sent
          <6>5. TB + 1 = i /\ Sent(TN) <= b
            BY <2>0, <3>0, <3>2, <5>1, <6>1
          <6> QED
            BY <6>3, <6>4, <6>5
        <5>2. CASE i \notin 1..TN
          <6>1. i \in Nat /\ TN < i /\ i <= Len(sdus)
            BY <2>0, <5>2
          <6>2. Len(tx_list) = Len(sdus) - TB
            BY <2>0 DEF TxShape
          <6>3. PICK k \in 1..Len(tx_list) : TB + k = i
            <7>1. i - TB \in 1..Len(tx_list) /\ TB + (i - TB) = i
              BY <2>0, <6>1, <6>2
            <7> QED
              BY <7>1
          <6>4. tx_list[k].id = i
            BY <1>1, <6>3, QueueElem
          <6>5. tx_list[k].so = 0
            BY <1>1, <2>0, <6>1, <6>4, QueueElem
          <6> QED
            BY <3>0, <6>4, <6>5
        <5> QED
          BY <5>1, <5>2
      <4>2. /\ tx_list[k].so \in Nat /\ tx_list[k].size \in Nat
            /\ tx_list[k].so + tx_list[k].size = sdus[i]
        BY <1>1, <4>1, QueueElem
      <4>3. b \in Bytes(tx_list[k])
        BY <3>0, <4>1, <4>2 DEF Bytes
      <4> QED
        BY <4>1, <4>3 DEF BytesOf, Unacked
    <3> QED
      BY <3>1, <3>2
  <2>5. ASSUME NEW s \in Held, NEW k \in 1..Len(tx_list), s.id = i, tx_list[k].id = i
        PROVE  Bytes(s) \cap Bytes(tx_list[k]) = {}
    <3>1. /\ s.id \in 1..TN /\ s.so \in Nat /\ s.size \in Nat /\ s.so + s.size <= Sent(s.id)
          /\ Sent(s.id) \in Nat
      BY <1>1, <2>1, SegNumbers
    <3>2. tx_list[k].so = Sent(i) /\ i = TN /\ tx_list[k].size \in Nat
      <4>1. ~(TN < tx_list[k].id)
        BY <2>0, <2>5, <3>1
      <4> QED
        BY <1>1, <2>5, <4>1, QueueElem
    <3> QED
      BY <2>5, <3>1, <3>2 DEF Bytes
  <2>6. ASSUME NEW s \in Unacked(i), NEW t \in Unacked(i)
        PROVE  s = t \/ Bytes(s) \cap Bytes(t) = {}
    <3>1. s.id = i /\ t.id = i
      BY <2>2
    <3>2. CASE s \in Held /\ t \in Held
      BY <2>1, <3>1, <3>2
    <3>3. CASE s \in Held /\ \E k \in 1..Len(tx_list) : t = tx_list[k]
      BY <2>5, <3>1, <3>3
    <3>4. CASE t \in Held /\ \E k \in 1..Len(tx_list) : s = tx_list[k]
      BY <2>5, <3>1, <3>4
    <3>5. ASSUME NEW k \in 1..Len(tx_list), NEW j \in 1..Len(tx_list), s = tx_list[k], t = tx_list[j]
          PROVE  s = t
      <4>1. TB + k = i /\ TB + j = i
        BY <1>1, <3>1, <3>5, QueueElem
      <4>2. k = j
        BY <2>0, <2>3, <4>1
      <4> QED
        BY <3>5, <4>2
    <3> QED
      BY <2>2, <3>2, <3>3, <3>4, <3>5
  <2> QED
    BY <2>4, <2>6
<1> QED
  BY <1>1, IInvariant, PTL

\* No SDU is delivered twice, and what is acknowledged was delivered.
THEOREM AckedDeliveredOnceCorrect ==
  ASSUME ~EarlyReassembly
  PROVE  Spec => []AckedDeliveredOnce
<1>1. ASSUME IInv PROVE AckedDeliveredOnce
  <2> SUFFICES ASSUME NEW i \in Ids
               PROVE  delivered[i] <= 1 /\ (i \in acked => delivered[i] = 1)
    BY DEF AckedDeliveredOnce
  <2>0. RN \in Nat /\ W \in Nat /\ N \in Nat
    BY <1>1, Ranges
  <2>1. PICK p \in Nat : i = p + 1 /\ p < N
    <3>1. i - 1 \in Nat /\ i = (i - 1) + 1 /\ i - 1 < N
      BY <2>0 DEF Ids
    <3> QED
      BY <3>1
  <2>2. RingAt(rx, delivered, RN, RH)
    BY <1>1, RingNow
  <2>3. delivered[i] = 0 \/ delivered[i] = 1
    <3>1. CASE p < RN
      BY <2>1, <2>2, <3>1 DEF RingAt
    <3>2. CASE RN <= p /\ p < RN + W
      <4>1. SlotAt(rx, delivered, RH, p)
        BY <2>2, <3>2 DEF RingAt
      <4> QED
        BY <2>1, <4>1 DEF SlotAt
    <3>3. CASE RN + W <= p
      BY <2>1, <2>2, <3>3 DEF RingAt
    <3> QED
      BY <2>0, <3>1, <3>2, <3>3
  <2>4. i \in acked => delivered[i] > 0
    BY <1>1 DEF IInv, SenderOK, AckedOK
  <2> QED
    BY <2>3, <2>4
<1> QED
  BY <1>1, IInvariant, PTL

-----------------------------------------------------------------------------
(* The poll timer and the wait list.                                       *)

PQ == Pos(poll_sn)

\* The sender holds a byte of an SDU it sent.
Holds(i, b) == \E s \in Held : s.id = i /\ b \in Bytes(s)

\* A report that leaves the sender with something to hold.
Some(r) == r.good /\ ~(Pos(r.ack) = TN /\ r.nacks = {})

\* A report lets the sender drop a byte.
Frees(r, i, b) == i <= Pos(r.ack) /\ ~Covered(r, i, b)

\* Of what is held there is a byte that none of the reports on their way drops,
\* unless one of them drops all.
ByteStays ==
  Held # {} =>
    \E i, b : Holds(i, b) /\ \A r \in reports : Some(r) => ~Frees(r, i, b)

\* The first bytes of an SDU that is not all sent are held.
TailHeld == TailUnsent => \A b \in 0..(Sent(TN) - 1) : Holds(TN, b)

\* While t_poll_retransmit runs something is held, and the SN of the poll is in
\* the window.
PollOpen == poll_timer => Held # {} /\ TA <= PQ /\ PQ < TN

PInv == ByteStays /\ TailHeld /\ PollOpen

\* The SN before one that was sent.
LEMMA Before ==
  ASSUME NEW next \in Sns, NEW p \in Nat, Pos(next) = p + 1
  PROVE  (next - 1) % SnMod \in Sns /\ Pos((next - 1) % SnMod) = p
<1>0. SnMod \in Nat \ {0} /\ next \in Int
  BY Widths DEF Sns
<1>1. p \in 0..(SnMod - 1) /\ p + 1 < SnMod
  BY <1>0, PosType
<1>2. PICK a : a = At(p)
  OBVIOUS
<1>3. a \in Sns /\ Pos(a) = p
  BY <1>1, <1>2, AtType
<1>4. Plus(a, 1) \in Sns /\ Pos(Plus(a, 1)) = p + 1
  BY <1>1, <1>3, PlusPos
<1>5. Plus(a, 1) = next
  BY <1>4, PosInj
<1>6. a \in 0..(SnMod - 1) /\ a \in Int
  BY <1>0, <1>3 DEF Sns
<1>7. PICK q \in Int, r \in 0..(SnMod - 1) : a + 1 = SnMod * q + r /\ r = (a + 1) % SnMod
  <2>1. PICK z \in Int : z = a + 1
    BY <1>6
  <2> QED
    BY <1>0, <2>1, Decompose
<1>8. r = next
  BY <1>5, <1>7 DEF Plus
<1>9. next - 1 = a + SnMod * (-q)
  <2>1. PICK x \in Int : x = SnMod * q
    BY <1>0, <1>7
  <2>2. SnMod * (-q) = -x
    BY <1>0, <2>1
  <2> QED
    BY <1>0, <1>6, <1>7, <1>8, <2>1, <2>2
<1>10. (next - 1) % SnMod = a % SnMod
  <2>1. PICK z \in Int : z = -q
    BY <1>7
  <2> QED
    BY <1>0, <1>6, <1>9, <2>1, ModShift
<1>11. a % SnMod = a
  <2>1. (SnMod * 0 + a) % SnMod = a
    BY <1>0, <1>6, ModUnique
  <2>2. SnMod * 0 + a = a
    BY <1>0, <1>6
  <2> QED
    BY <2>1, <2>2
<1> QED
  BY <1>3, <1>10, <1>11

\* The first state.
LEMMA PollInit ==
  ASSUME Init
  PROVE  PInv
<1>1. Held = {} /\ ~poll_timer /\ ~TailUnsent
  BY DEF Init, Held, TailUnsent
<1> QED
  BY <1>1 DEF PInv, ByteStays, TailHeld, PollOpen

\* A step that leaves the sender alone and adds no report.
LEMMA PollKept ==
  ASSUME PInv, UNCHANGED <<sdus, tx_list, tx_next, tx_next_ack, poll_sn>>, Held' = Held,
         poll_timer' => poll_timer, reports' \subseteq reports
  PROVE  PInv'
<1>1. TN' = TN /\ TA' = TA /\ PQ' = PQ
  BY DEF TN, TA, PQ, Pos
<1>2. \A i, b : Holds(i, b)' <=> Holds(i, b)
  BY DEF Holds, Bytes
<1>3. \A r : (Some(r)' <=> Some(r)) /\ \A i, b : Frees(r, i, b)' <=> Frees(r, i, b)
  BY <1>1 DEF Some, Frees, Covered, Pos, At
<1>4. ByteStays'
  BY <1>2, <1>3 DEF PInv, ByteStays
<1>5. (TailUnsent' <=> TailUnsent) /\ Sent(TN)' = Sent(TN)
  BY <1>1 DEF TailUnsent, Sent
<1>6. TailHeld'
  BY <1>1, <1>2, <1>5 DEF PInv, TailHeld
<1>7. PollOpen'
  BY <1>1 DEF PInv, PollOpen
<1> QED
  BY <1>4, <1>6, <1>7 DEF PInv

\* A report is good only as far as every byte was sent.
LEMMA NotFreed ==
  ASSUME IInv, NEW r \in ReportType, RepOK(r), r.good, NEW i \in Nat, TB < i, NEW b
  PROVE  ~Frees(r, i, b)
<1>1. r.ack \in Sns
  BY DEF ReportType
<1>2. Pos(r.ack) \in Nat
  BY <1>1, PosType, Widths
<1>3. Pos(r.ack) <= TB
  BY DEF RepOK
<1>4. TB \in Nat
  BY Ranges
<1>5. ~(i <= Pos(r.ack))
  BY <1>2, <1>3, <1>4
<1> QED
  BY <1>5 DEF Frees

\* An SDU is queued.
LEMMA PollRecvSdu ==
  ASSUME IInv, IInv', PInv, NEW size \in Sizes, RecvSdu(size)
  PROVE  PInv'
<1>0. tx_list \in Seq(Segment) /\ tx_list' \in Seq(Segment) /\ Len(tx_list) \in Nat
  BY DEF IInv, Types, SenderTypes
<1>1. PICK e : e = [id |-> Len(sdus) + 1, sn |-> None, so |-> 0, size |-> size, last |-> TRUE]
  OBVIOUS
<1>2. /\ tx_list' = Append(tx_list, e)
      /\ UNCHANGED <<wait_list, retransmit_list, tx_next, tx_next_ack, poll_sn, poll_timer,
                     reports>>
  BY <1>1 DEF RecvSdu
<1>3. TN' = TN /\ TA' = TA /\ PQ' = PQ /\ Held' = Held
  BY <1>2 DEF TN, TA, PQ, Pos, Held
<1>4. \A i, b : Holds(i, b)' <=> Holds(i, b)
  BY <1>3 DEF Holds, Bytes
<1>5. \A r : (Some(r)' <=> Some(r)) /\ \A i, b : Frees(r, i, b)' <=> Frees(r, i, b)
  BY <1>3 DEF Some, Frees, Covered, Pos, At
<1>6. ByteStays'
  BY <1>2, <1>3, <1>4, <1>5 DEF PInv, ByteStays
<1>7. PollOpen'
  BY <1>2, <1>3 DEF PInv, PollOpen
<1>8. ASSUME TailUnsent' PROVE TailUnsent /\ Sent(TN)' = Sent(TN)
  <2>1. Len(tx_list') >= 1 /\ tx_list'[1].sn # None
    BY <1>0, <1>8, TailFirstNext
  <2>2. CASE Len(tx_list) = 0
    <3>1. tx_list'[1] = e
      BY <1>0, <1>2, <2>2
    <3> QED
      BY <1>1, <2>1, <3>1
  <2>3. CASE Len(tx_list) >= 1
    <3>1. tx_list'[1] = tx_list[1]
      BY <1>0, <1>2, <2>3
    <3>2. TailUnsent
      BY <1>0, <2>1, <2>3, <3>1, TailFirst
    <3>3. Sent(TN) = tx_list[1].so
      BY <3>2 DEF Sent
    <3>4. Sent(TN)' = tx_list'[1].so
      BY <1>8 DEF Sent
    <3> QED
      BY <3>1, <3>2, <3>3, <3>4
  <2> QED
    BY <1>0, <2>2, <2>3
<1>9. TailHeld'
  BY <1>3, <1>4, <1>8 DEF PInv, TailHeld
<1> QED
  BY <1>6, <1>7, <1>9 DEF PInv

\* The poll of a PDU is in the window.
LEMMA PollSent ==
  ASSUME IInv, IInv', PInv, NEW s, NEW tx, NEW retx, NEW next, NEW due,
         Transmit(s, tx, retx, next, due), s \in Held', TN <= TN'
  PROVE  PollOpen'
<1>0. /\ TA \in Nat /\ TN \in Nat /\ TN' \in Nat /\ tx_next' \in Sns /\ TA' = TA
      /\ tx_next' = next
  <2>1. TA \in Nat /\ TN \in Nat
    BY Ranges
  <2>2. tx_next' \in Sns
    BY DEF IInv, Types, SenderTypes
  <2>3. TN' = Pos(tx_next')
    BY DEF TN, Pos
  <2>4. TN' \in Nat
    BY <2>2, <2>3, PosType, Widths
  <2> QED
    BY <2>1, <2>2, <2>4 DEF Transmit, TA, Pos
<1>1. PICK p : /\ poll_sn' = IF p THEN (next - 1) % SnMod ELSE poll_sn
               /\ poll_timer' = (p \/ poll_timer)
  BY DEF Transmit
<1>2. s.id \in Nat /\ TA < s.id /\ s.id <= TN' /\ Held' # {}
  <2>1. GoodSeg(s)' /\ TA' < s.id
    BY DEF IInv, SenderOK, HeldOK
  <2>2. s.id \in 1..TN'
    BY <2>1 DEF GoodSeg
  <2> QED
    BY <1>0, <2>1, <2>2
<1>3. CASE p
  <2>1. PICK q \in Nat : TN' = q + 1
    <3>1. TN' - 1 \in Nat /\ TN' = (TN' - 1) + 1
      <4>1. PICK y \in Nat : y = TN'
        BY <1>0
      <4>2. PICK z \in Nat : z = s.id /\ TA < z /\ z <= y
        BY <1>2, <4>1
      <4>3. y - 1 \in Nat /\ y = (y - 1) + 1
        BY <1>0, <4>2
      <4> QED
        BY <4>1, <4>3
    <3> QED
      BY <3>1
  <2>2. PICK x \in Sns : x = tx_next' /\ Pos(x) = q + 1
    BY <1>0, <2>1 DEF TN, Pos
  <2>3. Pos((x - 1) % SnMod) = q
    BY <2>2, Before
  <2>4. PQ' = q
    BY <1>0, <1>1, <1>3, <2>2, <2>3 DEF PQ, Pos
  <2>5. TA <= q /\ q < TN'
    BY <1>0, <1>2, <2>1
  <2> QED
    BY <1>0, <1>2, <2>4, <2>5 DEF PollOpen
<1>4. CASE ~p
  <2>1. PQ' = PQ /\ (poll_timer' => poll_timer)
    BY <1>1, <1>4 DEF PQ, Pos
  <2>2. PQ \in Nat
    <3>1. poll_sn \in Sns
      BY DEF IInv, Types, SenderTypes
    <3> QED
      BY <3>1, PosType, Widths DEF PQ
  <2>3. poll_timer => TA <= PQ /\ PQ < TN'
    BY <1>0, <2>2 DEF PInv, PollOpen
  <2> QED
    BY <1>0, <1>2, <2>1, <2>3 DEF PollOpen
<1> QED
  BY <1>3, <1>4

\* A segment is sent again.
LEMMA PollRetx ==
  ASSUME IInv, IInv', PInv, NEW g, g \in Nat, 1 <= g, GenerateRetx(g)
  PROVE  PInv'
<1>1. PICK f, tx, rl, next : /\ Transmit(f, tx, rl, next, FALSE)
                             /\ tx = tx_list /\ next = tx_next
  BY DEF GenerateRetx
<1>2. /\ tx_list' = tx_list /\ tx_next' = tx_next /\ sdus' = sdus /\ f \in wait_list'
      /\ reports' = reports
  BY <1>1 DEF Transmit
<1>3. TN' = TN /\ TN \in Nat /\ f \in Held'
  BY <1>2, Ranges DEF TN, Pos, Held
<1>4. PollOpen'
  <2>1. TN <= TN'
    BY <1>3
  <2> QED
    BY <1>1, <1>3, <2>1, PollSent
<1>5. \A i, b : Holds(i, b) => Holds(i, b)'
  <2>1. \A x \in Held : \A b \in Bytes(x) : \E y \in Held' : y.id = x.id /\ b \in Bytes(y)
    BY GenerateRetxOK
  <2> QED
    BY <2>1 DEF Holds, Bytes
<1>6. \A r : (Some(r)' <=> Some(r)) /\ \A i, b : Frees(r, i, b)' <=> Frees(r, i, b)
  BY <1>3 DEF Some, Frees, Covered, Pos, At
<1>7. Held # {}
  BY DEF GenerateRetx, Held
<1>8. ByteStays'
  BY <1>2, <1>5, <1>6, <1>7 DEF PInv, ByteStays
<1>9. (TailUnsent' <=> TailUnsent) /\ Sent(TN)' = Sent(TN)
  BY <1>2, <1>3 DEF TailUnsent, Sent
<1>10. TailHeld'
  BY <1>3, <1>5, <1>9 DEF PInv, TailHeld
<1> QED
  BY <1>4, <1>8, <1>10 DEF PInv

\* The head of tx_list is sent: no report acknowledges it yet.
LEMMA PollTx ==
  ASSUME IInv, IInv', PInv, NEW g, NEW due, g \in Nat, 1 <= g, GenerateTx(g, due)
  PROVE  PInv'
<1>1. PICK s, i, next : /\ HeadSeg(s, i) /\ g <= s.size /\ next \in Sns /\ Pos(next) = i
                        /\ Transmit(Front(s, g), TxLeft(s, g), retransmit_list, next, due)
  BY GenerateTxHead
<1>2. PICK f, tx, rl : f = Front(s, g) /\ tx = TxLeft(s, g) /\ rl = retransmit_list
  OBVIOUS
<1>3. Transmit(f, tx, rl, next, due)
  BY <1>1, <1>2
<1>4. /\ tx_list' = TxLeft(s, g) /\ tx_next' = next /\ UNCHANGED sdus
      /\ wait_list' = wait_list \cup {f} /\ retransmit_list' = retransmit_list
      /\ reports' = reports
  BY <1>2, <1>3 DEF Transmit
<1>5. /\ TN' = i /\ (TailUnsent' <=> g < s.size) /\ Sent(i)' = s.so + g
  BY <1>1, <1>4, QueueShortened
<1>6. /\ s \in Segment /\ i \in Nat /\ i = TB + 1 /\ s.id = i
      /\ \/ TailUnsent /\ i = TN /\ Sent(i) = s.so
         \/ ~TailUnsent /\ i = TN + 1 /\ s.so = 0
  BY <1>1 DEF HeadSeg
<1>7. s.so \in Nat /\ s.size \in Nat
  BY <1>6 DEF Segment
<1>8. f.id = i /\ f.so = s.so /\ f.size = g
  BY <1>2, <1>6 DEF Front, Segment
<1>9. Held' = Held \cup {f} /\ f \in Held'
  BY <1>4 DEF Held
<1>10. TN \in Nat /\ TB \in Nat /\ TN <= i /\ TB < i
  <2>1. TN \in Nat /\ TB \in Nat
    BY Ranges
  <2> QED
    BY <1>6, <2>1
<1>11. PollOpen'
  BY <1>3, <1>5, <1>9, <1>10, PollSent
<1>12. \A j, b : Holds(j, b) => Holds(j, b)'
  BY <1>9 DEF Holds, Bytes
<1>13. \A b \in Nat : s.so <= b /\ b < s.so + g => Holds(i, b)'
  <2> SUFFICES ASSUME NEW b \in Nat, s.so <= b, b < s.so + g PROVE Holds(i, b)'
    OBVIOUS
  <2>1. b \in Bytes(f)
    BY <1>7, <1>8 DEF Bytes
  <2> QED
    BY <1>8, <1>9, <2>1 DEF Holds, Bytes
<1>14. ByteStays'
  <2>1. PICK b \in Nat : b = s.so /\ Holds(i, b)'
    BY <1>7, <1>13
  <2>2. ASSUME NEW r \in reports, r.good PROVE ~Frees(r, i, b)'
    <3>1. r \in ReportType /\ RepOK(r)
      BY DEF IInv, Types, ChannelTypes, RepsOK
    <3>2. ~Frees(r, i, b)
      BY <1>6, <1>10, <2>2, <3>1, NotFreed
    <3> QED
      BY <3>2 DEF Frees, Covered, Pos, At
  <2>3. \A r : Some(r)' => r.good
    BY DEF Some
  <2> QED
    BY <1>4, <2>1, <2>2, <2>3 DEF ByteStays
<1>15. TailHeld'
  <2>1. ASSUME TailUnsent', NEW z, z = s.so + g, NEW b \in 0..(z - 1) PROVE Holds(i, b)'
    <3>0. b \in Nat /\ b < s.so + g
      BY <1>7, <2>1
    <3>1. CASE s.so <= b
      BY <1>13, <3>0, <3>1
    <3>2. CASE b < s.so
      <4>1. TailUnsent /\ i = TN /\ Sent(i) = s.so
        BY <1>6, <3>0, <3>2
      <4>2. b \in 0..(Sent(TN) - 1)
        BY <1>7, <3>0, <3>2, <4>1
      <4>3. Holds(TN, b)
        BY <4>1, <4>2 DEF PInv, TailHeld
      <4> QED
        BY <1>12, <4>1, <4>3
    <3> QED
      BY <1>7, <3>0, <3>1, <3>2
  <2>2. PICK z : z = s.so + g /\ Sent(i)' = z
    BY <1>5
  <2>3. Sent(TN)' = z
    BY <1>5, <2>2 DEF Sent
  <2> QED
    BY <1>5, <2>1, <2>2, <2>3 DEF TailHeld
<1> QED
  BY <1>11, <1>14, <1>15 DEF PInv

\* A report is processed: what it does not drop stays, and when it drops all it
\* stops the timer.
LEMMA PollAcknowledge ==
  ASSUME IInv, PInv, NEW r \in reports, ~Refused(r), Acknowledge(r),
         reports' \subseteq reports,
         UNCHANGED <<sdus, tx_list, tx_next, poll_sn>>
  PROVE  PInv'
<1> DEFINE hit == {s \in wait_list : Nacked(r, s)}
           wait == wait_list \ (Gone(r) \cup hit)
           retx == (retransmit_list \ Gone(r)) \cup hit
<1>0. /\ TA \in Nat /\ TN \in Nat /\ TB \in Nat /\ TB <= TN /\ TA <= TN
      /\ tx_next_ack \in Sns /\ poll_sn \in Sns /\ PQ \in Nat
  <2>1. tx_next_ack \in Sns /\ poll_sn \in Sns
    BY DEF IInv, Types, SenderTypes
  <2>2. PQ \in Nat
    BY <2>1, PosType, Widths DEF PQ
  <2>3. /\ TA \in Nat /\ TN \in Nat /\ TB \in Nat /\ TB <= TN /\ RN \in Nat /\ RS \in Nat
        /\ RH \in Nat /\ TA <= RN /\ RN <= RS /\ RS <= RH /\ RH <= TN
    BY Ranges
  <2> QED
    BY <2>1, <2>2, <2>3
<1>1. /\ wait_list' = wait /\ retransmit_list' = retx
      /\ poll_timer' = (poll_timer /\ ~PollAnswered(r))
      /\ tx_next_ack' = OldestUnacked(r.ack, wait, retx)
  BY DEF Acknowledge, Gone
<1>2. wait \cup retx = Held \ Gone(r) /\ wait \cup retx \subseteq Held
  <2>1. hit \cap Gone(r) = {} /\ hit \subseteq wait_list /\ Gone(r) \subseteq Held
    BY DEF Gone, Held
  <2> QED
    BY <2>1 DEF Held
<1>3. PICK o : o = OldestUnacked(r.ack, wait, retx)
  OBVIOUS
<1>4. o \in Sns /\ Pos(o) <= Pos(r.ack)
  BY <1>2, <1>3, Oldest
<1>5. Held' = Held \ Gone(r) /\ tx_next_ack' = o /\ TA' = Pos(o) /\ TN' = TN /\ PQ' = PQ
  BY <1>1, <1>2, <1>3 DEF Held, TA, TN, PQ, Pos
<1>6. poll_timer' => poll_timer /\ ~PollAnswered(r)
  BY <1>1
<1> HIDE DEF hit, wait, retx
<1>7. PICK a \in Nat : /\ a = Pos(r.ack) /\ TA <= a /\ a <= TB /\ r.good
                       /\ modulus_tx(r.ack) = a - TA
  BY NotRefused
<1>8. \A s \in Held : /\ GoodSeg(s) /\ TA < s.id /\ s.id \in Nat /\ s.id <= TN
                      /\ modulus_tx(s.sn) = s.id - 1 - TA
  <2> SUFFICES ASSUME NEW s \in Held
               PROVE  /\ GoodSeg(s) /\ TA < s.id /\ s.id \in Nat /\ s.id <= TN
                      /\ modulus_tx(s.sn) = s.id - 1 - TA
    OBVIOUS
  <2>1. GoodSeg(s) /\ TA < s.id
    BY DEF IInv, SenderOK, HeldOK
  <2>2. s.id \in 1..TN /\ s.sn \in Sns /\ Pos(s.sn) = s.id - 1
    BY <2>1, SegNumbers
  <2>3. s.id \in Nat /\ s.id <= TN /\ TA <= s.id - 1
    BY <1>0, <2>1, <2>2
  <2>4. modulus_tx(s.sn) = s.id - 1 - TA
    BY <1>0, <2>2, <2>3, ModTx
  <2> QED
    BY <2>1, <2>3, <2>4
<1>9. ASSUME NEW s \in Held, a < s.id PROVE s \in Held'
  <2>1. ~(modulus_tx(s.sn) < modulus_tx(r.ack))
    BY <1>0, <1>7, <1>8, <1>9
  <2> QED
    BY <1>5, <2>1 DEF Gone
<1>10. \A i, b : Holds(i, b) /\ (i \in Nat => ~Frees(r, i, b)) => Holds(i, b)'
  <2> SUFFICES ASSUME NEW i, NEW b, Holds(i, b), i \in Nat => ~Frees(r, i, b)
               PROVE  Holds(i, b)'
    OBVIOUS
  <2>1. PICK s \in Held : s.id = i /\ b \in Bytes(s)
    BY DEF Holds
  <2>2. i \in Nat /\ GoodSeg(s)
    BY <1>8, <2>1
  <2>3. s \in Held'
    <3>1. CASE a < i
      BY <1>9, <2>1, <3>1
    <3>2. CASE i <= a
      <4>1. Covered(r, s.id, b)
        BY <1>7, <2>1, <2>2, <3>2 DEF Frees
      <4>2. Nacked(r, s)
        BY <2>1, <2>2, <4>1, CoveredNacked
      <4> QED
        BY <1>5, <4>2 DEF Gone
    <3> QED
      BY <1>7, <2>2, <3>1, <3>2
  <2> QED
    BY <2>1, <2>3 DEF Holds, Bytes
<1>11. \A x : (Some(x)' <=> Some(x)) /\ \A i, b : Frees(x, i, b)' <=> Frees(x, i, b)
  BY <1>5 DEF Some, Frees, Covered, Pos, At
<1>12. ASSUME Some(r), Held # {}
       PROVE  \E i, b : Holds(i, b)' /\ \A x \in reports : Some(x) => ~Frees(x, i, b)
  <2>1. PICK i, b : Holds(i, b) /\ \A x \in reports : Some(x) => ~Frees(x, i, b)
    BY <1>12 DEF PInv, ByteStays
  <2>2. Holds(i, b)'
    BY <1>10, <1>12, <2>1
  <2> QED
    BY <2>1, <2>2
<1>13. ASSUME ~Some(r) PROVE a = TN /\ Held' = {} /\ ~TailUnsent
  <2>1. a = TN /\ r.nacks = {}
    BY <1>7, <1>13 DEF Some
  <2>2. \A s \in Held : s \in Gone(r)
    <3> SUFFICES ASSUME NEW s \in Held PROVE s \in Gone(r)
      OBVIOUS
    <3>1. modulus_tx(s.sn) < modulus_tx(r.ack)
      BY <1>0, <1>7, <1>8, <2>1
    <3>2. ~Nacked(r, s)
      BY <2>1 DEF Nacked
    <3> QED
      BY <3>1, <3>2 DEF Gone, Held
  <2>3. ~TailUnsent
    <3>1. TailUnsent => TB = TN - 1
      BY DEF TB
    <3> QED
      BY <1>0, <1>7, <2>1, <3>1
  <2> QED
    BY <1>5, <2>1, <2>2, <2>3
<1>14. ByteStays'
  <2>1. CASE Some(r)
    <3>1. Held' # {} => Held # {}
      BY <1>5
    <3> QED
      BY <1>11, <1>12, <2>1, <3>1 DEF ByteStays
  <2>2. CASE ~Some(r)
    BY <1>13, <2>2 DEF ByteStays
  <2> QED
    BY <2>1, <2>2
<1>15. TailHeld'
  <2>1. (TailUnsent' <=> TailUnsent) /\ Sent(TN)' = Sent(TN)
    BY <1>5 DEF TailUnsent, Sent
  <2>2. ASSUME TailUnsent, NEW b \in 0..(Sent(TN) - 1) PROVE Holds(TN, b)'
    <3>1. PICK s \in Held : s.id = TN /\ b \in Bytes(s)
      BY <2>2 DEF PInv, TailHeld, Holds
    <3>2. a < TN
      <4>1. TB = TN - 1
        BY <2>2 DEF TB
      <4> QED
        BY <1>0, <1>7, <4>1
    <3>3. s \in Held'
      BY <1>9, <3>1, <3>2
    <3> QED
      BY <1>5, <3>1, <3>3 DEF Holds, Bytes
  <2> QED
    BY <1>5, <2>1, <2>2 DEF TailHeld
<1>16. PollOpen'
  <2> SUFFICES ASSUME poll_timer, ~PollAnswered(r)
               PROVE  Held' # {} /\ TA' <= PQ' /\ PQ' < TN'
    BY <1>6 DEF PollOpen
  <2>1. Held # {} /\ TA <= PQ /\ PQ < TN
    BY DEF PInv, PollOpen
  <2>2. modulus_tx(poll_sn) = PQ - TA
    BY <1>0, <2>1, ModTx DEF PQ
  <2>3. a <= PQ
    <3>1. ~(modulus_tx(poll_sn) < modulus_tx(r.ack))
      BY DEF PollAnswered
    <3> QED
      BY <1>0, <1>7, <2>2, <3>1
  <2>4. Some(r)
    BY <1>0, <1>13, <2>1, <2>3
  <2>5. Held' # {}
    BY <1>12, <2>1, <2>4 DEF Holds
  <2>6. Pos(o) <= PQ
    <3>1. Pos(o) \in Nat
      BY <1>4, PosType, Widths
    <3> QED
      BY <1>0, <1>4, <1>7, <2>3, <3>1
  <2> QED
    BY <1>5, <2>1, <2>5, <2>6
<1> QED
  BY <1>14, <1>15, <1>16 DEF PInv

\* When the receiver has all that was sent its report says so.
LEMMA AllReceived ==
  ASSUME IInv, down = "no", ~TailUnsent, \A i, b : Holds(i, b) => Has(i, b),
         NEW P, Fits(P, AllMissing), NEW r, r = Report(P, AllMissing)
  PROVE  ~Some(r)
<1>0. /\ RN \in Nat /\ RS \in Nat /\ RH \in Nat /\ TN \in Nat /\ TB \in Nat /\ W \in Nat
      /\ N \in Nat /\ RN <= RS /\ RS <= RH /\ RH <= TN /\ TN <= N /\ W >= 2 /\ TB = TN
  BY Ranges DEF TB
<1>1. RN = TN
  <2> SUFFICES ASSUME RN < TN PROVE FALSE
    BY <1>0
  <2>1. PICK i \in Nat : i = RN + 1
    BY <1>0
  <2>2. i \in 1..TN /\ i \in 1..TB /\ RN < N
    BY <1>0, <2>1
  <2>3. Sent(i) = sdus[i]
    BY <2>2, SentSizes DEF IInv, SenderOK
  <2>4. \A b \in 0..(sdus[i] - 1) : Has(i, b)
    BY <2>2, <2>3 DEF IInv, SenderOK, NoneForgotten, Holds
  <2>5. delivered[i] > 0
    BY <2>2, <2>4, AllHas
  <2>6. SlotAt(rx, delivered, RH, RN)
    BY <1>0, RingNow DEF RingAt
  <2>7. ~rx[Place(RN)].done
    BY DEF IInv, HeadsOK
  <2> QED
    BY <2>1, <2>2, <2>5, <2>6, <2>7 DEF SlotAt
<1>2. AllMissing = {}
  <2> SUFFICES ASSUME NEW n \in AllMissing PROVE FALSE
    OBVIOUS
  <2>1. PICK p \in Nat : RN <= p /\ p < RS
    BY AllMissingIs
  <2> QED
    BY <1>0, <1>1, <2>1
<1>3. P = {}
  BY <1>2 DEF Fits
<1>4. r.nacks = {} /\ r.ack = rx_next
  BY <1>3 DEF Report, Wrapped, AckOf
<1> QED
  BY <1>1, <1>4 DEF Some, RN

\* A report is generated.
LEMMA PollStatus ==
  ASSUME IInv, IInv', PInv, down = "no", GenerateStatus
  PROVE  PInv'
<1>1. PICK P : Fits(P, AllMissing) /\ reports' = reports \cup {Report(P, AllMissing)}
  BY DEF GenerateStatus
<1>2. PICK r : r = Report(P, AllMissing)
  OBVIOUS
<1>3. r \in ReportType /\ RepOK(r)
  BY <1>1, <1>2, ReportOK
<1>4. UNCHANGED sdus /\ UNCHANGED txVars
  BY DEF GenerateStatus
<1>5. TN' = TN /\ TA' = TA /\ PQ' = PQ /\ Held' = Held
  BY <1>4 DEF TN, TA, PQ, Pos, Held, txVars
<1>6. \A i, b : Holds(i, b)' <=> Holds(i, b)
  BY <1>5 DEF Holds, Bytes
<1>7. \A x : (Some(x)' <=> Some(x)) /\ \A i, b : Frees(x, i, b)' <=> Frees(x, i, b)
  BY <1>5 DEF Some, Frees, Covered, Pos, At
<1>8. (TailUnsent' <=> TailUnsent) /\ Sent(TN)' = Sent(TN)
  BY <1>4, <1>5 DEF TailUnsent, Sent, txVars
<1>9. TailHeld'
  BY <1>5, <1>6, <1>8 DEF PInv, TailHeld
<1>10. PollOpen'
  BY <1>4, <1>5 DEF PInv, PollOpen, txVars
<1>11. \A x \in reports' : x \in ReportType /\ RepOK(x)
  BY <1>1, <1>2, <1>3 DEF IInv, Types, ChannelTypes, RepsOK
<1>12. ASSUME Held # {}
       PROVE  \E i, b : Holds(i, b) /\ \A x \in reports' : Some(x) => ~Frees(x, i, b)
  <2>0. TN \in Nat /\ TB \in Nat /\ (TailUnsent => TN >= 1 /\ TB = TN - 1)
    BY SentSizes DEF IInv, SenderOK
  <2>1. CASE TailUnsent
    <3>1. Sent(TN) \in Nat /\ Sent(TN) >= 1 /\ TB < TN
      <4>1. TN \in 1..TN
        BY <2>0, <2>1
      <4>2. \A i \in 1..TN : Sent(i) \in Nat /\ Sent(i) >= 1
        BY SentSizes DEF IInv, SenderOK
      <4> QED
        BY <2>0, <2>1, <4>1, <4>2
    <3>2. 0 \in 0..(Sent(TN) - 1)
      BY <3>1
    <3>3. Holds(TN, 0)
      BY <2>1, <3>2 DEF PInv, TailHeld
    <3>4. \A x \in reports' : Some(x) => ~Frees(x, TN, 0)
      BY <1>11, <2>0, <3>1, NotFreed DEF Some
    <3> QED
      BY <3>3, <3>4
  <2>2. CASE \E i, b : Holds(i, b) /\ ~Has(i, b)
    <3>1. PICK i, b : Holds(i, b) /\ ~Has(i, b)
      BY <2>2
    <3>2. PICK s \in Held : s.id = i /\ b \in Bytes(s)
      BY <3>1 DEF Holds
    <3>3. GoodSeg(s)
      BY DEF IInv, SenderOK, HeldOK
    <3>4. i \in 1..TN /\ b \in 0..(sdus[i] - 1)
      BY <3>2, <3>3, SegNumbers
    <3>5. ASSUME NEW x \in reports', Some(x) PROVE ~Frees(x, i, b)
      <4> SUFFICES ASSUME i <= Pos(x.ack) PROVE Covered(x, i, b)
        BY DEF Frees
      <4>1. x.ack \in Sns /\ x.good /\ RepOK(x)
        BY <1>11, <3>5 DEF Some, ReportType
      <4>2. Pos(x.ack) \in Nat
        BY <4>1, PosType, Widths
      <4>3. i \in 1..Pos(x.ack)
        BY <2>0, <3>4, <4>2
      <4> QED
        BY <3>1, <3>4, <4>1, <4>3 DEF RepOK
    <3> QED
      BY <3>1, <3>5
  <2>3. CASE ~TailUnsent /\ \A i, b : Holds(i, b) => Has(i, b)
    <3>1. ~Some(r)
      BY <1>1, <1>2, <2>3, AllReceived
    <3>2. PICK i, b : Holds(i, b) /\ \A x \in reports : Some(x) => ~Frees(x, i, b)
      BY <1>12 DEF PInv, ByteStays
    <3> QED
      BY <1>1, <1>2, <3>1, <3>2
  <2> QED
    BY <2>1, <2>2, <2>3
<1>13. ByteStays'
  BY <1>5, <1>6, <1>7, <1>12 DEF ByteStays
<1> QED
  BY <1>9, <1>10, <1>13 DEF PInv

\* The poll timer expires: it stops, and what is held stays held.
LEMMA PollExpire ==
  ASSUME IInv, PInv, ExpirePoll
  PROVE  PInv'
<1> DEFINE again == {s \in wait_list : s.sn = First(wait_list).sn}
<1>1. /\ \/ UNCHANGED <<wait_list, retransmit_list>>
         \/ wait_list' = wait_list \ again /\ retransmit_list' = retransmit_list \cup again
      /\ poll_timer' = FALSE
      /\ UNCHANGED <<sdus, tx_list, tx_next, tx_next_ack, poll_sn, reports>>
  BY DEF ExpirePoll
<1>2. again \subseteq wait_list
  OBVIOUS
<1> HIDE DEF again
<1>3. Held' = Held
  BY <1>1, <1>2 DEF Held
<1> QED
  BY <1>1, <1>3, PollKept

\* The invariant of the poll timer is inductive.
LEMMA PollNext ==
  ASSUME IInv, IInv', PInv, [Next]_vars
  PROVE  PInv'
<1>1. CASE Next
  <2>0. down = "no"
    BY <1>1 DEF Next
  <2>1. ASSUME NEW size \in Sizes, RecvSdu(size) PROVE PInv'
    BY <2>1, PollRecvSdu
  <2>2. CASE GeneratePdu
    <3>1. PICK g \in 1..MaxSize : GenerateRetx(g) \/ \E due \in PollDue : GenerateTx(g, due)
      BY <2>2 DEF GeneratePdu
    <3>2. g \in Nat /\ 1 <= g
      OBVIOUS
    <3> QED
      BY <3>1, <3>2, PollRetx, PollTx
  <2>3. CASE GenerateStatus
    BY <2>0, <2>3, PollStatus
  <2>4. ASSUME UNCHANGED sdus, UNCHANGED txVars, reports' \subseteq reports PROVE PInv'
    <3>1. Held' = Held /\ poll_timer' = poll_timer
          /\ UNCHANGED <<sdus, tx_list, tx_next, tx_next_ack, poll_sn>>
      BY <2>4 DEF txVars, Held
    <3> QED
      BY <2>4, <3>1, PollKept
  <2>5. ASSUME NEW d \in data, RecvData(d) PROVE PInv'
    BY <2>4, <2>5 DEF RecvData
  <2>6. ASSUME NEW d \in data, LoseData(d) PROVE PInv'
    BY <2>4, <2>6 DEF LoseData
  <2>7. ASSUME NEW r \in reports, RecvStatus(r) PROVE PInv'
    <3>1. /\ reports' \subseteq reports
          /\ UNCHANGED <<sdus, tx_list, tx_next, poll_sn, force_poll>>
      BY <2>7 DEF RecvStatus
    <3>2. CASE Refused(r) /\ UNCHANGED <<wait_list, retransmit_list, acked, poll_timer, tx_next_ack>>
      BY <2>4, <3>1, <3>2 DEF txVars
    <3>3. CASE ~Refused(r) /\ Acknowledge(r)
      BY <3>1, <3>3, PollAcknowledge
    <3> QED
      BY <2>7, <3>2, <3>3 DEF RecvStatus
  <2>8. ASSUME NEW r \in reports, LoseStatus(r) PROVE PInv'
    BY <2>4, <2>8 DEF LoseStatus
  <2>9. CASE ExpirePoll
    BY <2>9, PollExpire
  <2>10. CASE ExpireReassembly
    BY <2>4, <2>10 DEF ExpireReassembly
  <2> QED
    BY <1>1, <2>1, <2>2, <2>3, <2>5, <2>6, <2>7, <2>8, <2>9, <2>10 DEF Next
<1>2. CASE UNCHANGED vars
  <2>1. /\ UNCHANGED <<sdus, tx_list, tx_next, tx_next_ack, poll_sn>> /\ Held' = Held
        /\ poll_timer' = poll_timer /\ reports' \subseteq reports
    BY <1>2 DEF vars, txVars, Held
  <2> QED
    BY <2>1, PollKept
<1> QED
  BY <1>1, <1>2

\* Whenever t_poll_retransmit expires, however early, the sender holds a segment
\* that it sent and that is not acknowledged; with nothing else to send it is in
\* the wait list, whose head check_t_poll_retransmit takes.
THEOREM PollHeadExistsCorrect ==
  ASSUME ~EarlyReassembly
  PROVE  Spec => []PollHeadExists
<1>1. Init => PInv
  BY PollInit
<1>2. IInv /\ IInv' /\ PInv /\ [Next]_vars => PInv'
  BY PollNext
<1>3. PInv => PollHeadExists
  BY DEF PInv, PollOpen, PollHeadExists, Held
<1>4. Spec => []IInv
  BY IInvariant
<1> QED
  BY <1>1, <1>2, <1>3, <1>4, PTL DEF Spec

=============================================================================
