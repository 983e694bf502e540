--------------------------- MODULE SeqRing_proofs ---------------------------
(***************************************************************************)
(* Proofs about the growing ring, for every DEFAULT_ELM, counter width,    *)
(* batch and largest capacity of the kind the code has: the ring is a FIFO *)
(* (it implements TaskFifo) and its slots in use are the ones between tail *)
(* and head.                                                               *)
(*                                                                         *)
(* The lemmas about remainders turn the masked counters into a position    *)
(* and a length below the capacity; from there on everything is linear.    *)
(***************************************************************************)
EXTENDS SeqRing, SequenceTheorems, TLAPS

\* The remainder is determined by a decomposition with 0 <= r < m.
LEMMA ModUnique ==
  ASSUME NEW m \in Nat \ {0}, NEW q \in Int, NEW r \in 0..(m - 1)
  PROVE  (m * q + r) % m = r
<1> DEFINE a == m * q + r
<1>0. a \in Int
  OBVIOUS
<1>1. a = m * (a \div m) + (a % m) /\ a \div m \in Int /\ a % m \in 0..(m - 1)
  BY <1>0
<1> DEFINE d == q - (a \div m)
<1>2. d \in Int /\ m * d = (a % m) - r
  BY <1>1
<1>3. -m < m * d /\ m * d < m
  BY <1>1, <1>2
<1>4. d = 0
  <2> HIDE DEF d
  <2>1. CASE d >= 1
    BY <1>2, <1>3, <2>1
  <2>2. CASE d <= -1
    BY <1>2, <1>3, <2>2
  <2> QED
    BY <1>2, <2>1, <2>2
<1> QED
  BY <1>1, <1>2, <1>4

\* A counter that went past its width once, or below zero once.
LEMMA ModNear ==
  ASSUME NEW m \in Nat \ {0}, NEW a \in 0..(m - 1)
  PROVE  /\ a % m = a
         /\ (a + m) % m = a
         /\ (a - m) % m = a
<1>1. (m * 0 + a) % m = a /\ (m * 1 + a) % m = a /\ (m * (-1) + a) % m = a
  BY ModUnique
<1>2. m * 0 + a = a /\ m * 1 + a = a + m /\ m * (-1) + a = a - m
  OBVIOUS
<1> QED
  BY <1>1, <1>2

\* Where the slot k places after position r lies in an array of c slots.
Wrapped(c, r, k) == IF r + k < c THEN r + k ELSE r + k - c

\* How many places after position r the slot p lies.
Offset(c, r, p) == IF p >= r THEN p - r ELSE p - r + c

\* Adding to a counter modulo w and masking is adding to its position, because
\* the capacity c divides w.
LEMMA MaskAdd ==
  ASSUME NEW c \in Nat \ {0}, NEW w \in Nat, w % c = 0, c <= w,
         NEW x \in 0..(w - 1), NEW k \in 0..(c - 1)
  PROVE  ((x + k) % w) % c = Wrapped(c, x % c, k)
<1> DEFINE q == x \div c
           r == x % c
           u == w \div c
<1>1. x = c * q + r /\ q \in Nat /\ r \in 0..(c - 1)
  OBVIOUS
<1>2. w = c * u /\ u \in Nat
  OBVIOUS
<1> HIDE DEF q, r, u
<1>3. CASE x + k < w
  <2>1. (x + k) % w = x + k
    BY <1>3, ModNear
  <2>2. CASE r + k < c
    <3>1. (c * q + (r + k)) % c = r + k
      BY <1>1, <2>2, ModUnique
    <3>2. c * q + (r + k) = x + k
      BY <1>1
    <3> QED
      BY <2>1, <2>2, <3>1, <3>2 DEF Wrapped, r
  <2>3. CASE r + k >= c
    <3>0. r + k - c \in 0..(c - 1) /\ q + 1 \in Int
      BY <1>1, <2>3
    <3>1. (c * (q + 1) + (r + k - c)) % c = r + k - c
      BY <3>0, ModUnique
    <3>2. c * (q + 1) + (r + k - c) = x + k
      BY <1>1
    <3>3. ~(r + k < c)
      BY <1>1, <2>3
    <3> QED
      BY <2>1, <3>1, <3>2, <3>3 DEF Wrapped, r
  <2> QED
    BY <1>1, <2>2, <2>3
<1>4. CASE x + k >= w
  <2> DEFINE y == x + k - w
  <2>1. y \in 0..(c - 1) /\ y \in 0..(w - 1)
    BY <1>4
  <2>2. (x + k) % w = y
    <3>1. (y + w) % w = y
      BY <2>1, ModNear
    <3> QED
      BY <3>1
  <2>3. y % c = y
    BY <2>1, ModNear
  <2>4. u - q = 1
    <3> DEFINE d == u - q
    <3>1. d \in Int /\ c * d = w - x + r
      BY <1>1, <1>2
    <3>2. 0 < c * d /\ c * d < 2 * c
      BY <1>1, <1>4, <3>1
    <3> HIDE DEF d
    <3>3. ASSUME d <= 0 PROVE FALSE
      BY <3>1, <3>2, <3>3
    <3>4. ASSUME d >= 2 PROVE FALSE
      BY <3>1, <3>2, <3>4
    <3>5. d = 1
      BY <3>1, <3>3, <3>4
    <3> QED
      BY <3>5 DEF d
  <2>5. y = r + k - c
    <3>1. c * u = c * q + c
      BY <1>1, <1>2, <2>4
    <3> QED
      BY <1>1, <1>2, <3>1
  <2>6. ~(r + k < c)
    BY <2>1, <2>5, <1>1
  <2> QED
    BY <2>2, <2>3, <2>5, <2>6 DEF Wrapped, r
<1> QED
  BY <1>3, <1>4

\* Capacities the ring can have: see SeqRingAssumption.
IsCaps(C) ==
  /\ C \subseteq 1..MaxCap
  /\ {DefaultElm, MaxCap} \subseteq C
  /\ \A c \in C : W32 % c = 0 /\ (c < MaxCap => 2 * c \in C)

Caps == CHOOSE C : IsCaps(C)

\* There are such capacities.
LEMMA CapsOK == IsCaps(Caps)
<1>1. \E C : IsCaps(C)
  BY SeqRingAssumption DEF IsCaps
<1> QED
  BY <1>1 DEF Caps

\* The position of the oldest task.
TailPos == mask(cap, tail)

\* The slots in use, by their distance from the tail.
Usage ==
  \A p \in 0..(cap - 1) : array[p] # Zero <=> Offset(cap, TailPos, p) < seq_ring_size

\* The inductive invariant.  Type correctness alone is not inductive: that a
\* pop copies out tasks follows from the slots it reads being in use.
IInv == TypeOK /\ cap \in Caps /\ cap >= 2 /\ OneSlotFree /\ Usage

\* How far counter h is ahead of counter t.
LEMMA Distance ==
  ASSUME NEW w \in Nat \ {0}, NEW h \in 0..(w - 1), NEW t \in 0..(w - 1)
  PROVE  (h - t) % w = IF h >= t THEN h - t ELSE h - t + w
<1>1. CASE h >= t
  <2>1. h - t \in 0..(w - 1)
    BY <1>1
  <2> QED
    BY <1>1, <2>1, ModNear
<1>2. CASE ~(h >= t)
  <2> DEFINE a == h - t + w
  <2>1. a \in 0..(w - 1) /\ a - w = h - t
    BY <1>2
  <2>2. (a - w) % w = a
    BY <2>1, ModNear
  <2> QED
    BY <1>2, <2>1, <2>2
<1> QED
  BY <1>1, <1>2

\* Numbers of a state of the ring.
LEMMA Ranges ==
  ASSUME IInv
  PROVE  /\ cap \in Nat \ {0} /\ cap >= 2 /\ cap < W32 /\ W32 % cap = 0 /\ W32 \in Nat \ {0}
         /\ head \in 0..(W32 - 1) /\ tail \in 0..(W32 - 1)
         /\ TailPos \in 0..(cap - 1)
         /\ seq_ring_size \in 0..(cap - 1)
         /\ seq_ring_size = IF head >= tail THEN head - tail ELSE head - tail + W32
<1> USE SeqRingAssumption
<1>1. /\ cap \in Nat \ {0} /\ cap >= 2 /\ cap < W32 /\ W32 \in Nat \ {0}
      /\ head \in 0..(W32 - 1) /\ tail \in 0..(W32 - 1)
  BY DEF IInv, TypeOK
<1>2. W32 % cap = 0
  BY CapsOK DEF IsCaps, IInv
<1>3. TailPos \in 0..(cap - 1)
  BY <1>1 DEF TailPos, mask
<1>4. seq_ring_size = IF head >= tail THEN head - tail ELSE head - tail + W32
  BY <1>1, Distance DEF seq_ring_size
<1>5. seq_ring_size \in 0..(cap - 1)
  BY <1>1, <1>4 DEF IInv, OneSlotFree
<1> QED
  BY <1>1, <1>2, <1>3, <1>4, <1>5

\* seq_ring_at, and the position of the head.
LEMMA AtPos ==
  ASSUME IInv
  PROVE  /\ \A k \in 0..(cap - 1) : At(k) = Wrapped(cap, TailPos, k)
         /\ mask(cap, head) = Wrapped(cap, TailPos, seq_ring_size)
<1>1. ASSUME NEW k \in 0..(cap - 1)
      PROVE  At(k) = Wrapped(cap, TailPos, k)
  BY Ranges, MaskAdd DEF At, TailPos, mask
<1>2. (tail + seq_ring_size) % W32 = head
  <2>1. tail + seq_ring_size = IF head >= tail THEN head ELSE head + W32
    BY Ranges
  <2>2. head % W32 = head /\ (head + W32) % W32 = head
    BY Ranges, ModNear
  <2> QED
    BY <2>1, <2>2
<1>3. At(seq_ring_size) = mask(cap, head)
  BY <1>2 DEF At
<1> QED
  BY <1>1, <1>3, Ranges

\* Position and offset are inverse to each other.
LEMMA Around ==
  ASSUME NEW c \in Nat \ {0}, NEW r \in 0..(c - 1), NEW k \in 0..(c - 1)
  PROVE  /\ Wrapped(c, r, k) \in 0..(c - 1) /\ Offset(c, r, Wrapped(c, r, k)) = k
         /\ Offset(c, r, k) \in 0..(c - 1) /\ Wrapped(c, r, Offset(c, r, k)) = k
BY DEF Wrapped, Offset

\* An empty ring.
LEMMA InitOK == Init => IInv
<1> SUFFICES ASSUME Init PROVE IInv
  OBVIOUS
<1> USE SeqRingAssumption
<1>1. DefaultElm \in Caps /\ Caps \subseteq 1..MaxCap
  BY CapsOK DEF IsCaps
<1>2. cap = DefaultElm /\ head = 0 /\ tail = 0 /\ popped = << >>
      /\ array = [p \in 0..(cap - 1) |-> Zero]
  BY DEF Init
<1>3. TypeOK
  BY <1>1, <1>2 DEF TypeOK
<1>4. seq_ring_size = 0
  BY <1>2, ModNear DEF seq_ring_size
<1>5. TailPos \in 0..(cap - 1)
  BY <1>1, <1>2 DEF TailPos, mask
<1>6. Usage
  BY <1>2, <1>4, <1>5 DEF Usage, Offset
<1> QED
  BY <1>1, <1>2, <1>3, <1>4, <1>6 DEF IInv, OneSlotFree

\* The task k places after the oldest.
Elem(k) == array[Wrapped(cap, TailPos, k)]

\* A push without growth: the slot of the head is free, and the tasks before
\* it stay where they are.
LEMMA PushInPlaceOK ==
  ASSUME IInv, NEW t \in Task, PushInPlace(t), UNCHANGED popped
  PROVE  /\ IInv'
         /\ seq_ring_size' = seq_ring_size + 1
         /\ \A k \in 0..(seq_ring_size - 1) : Elem(k)' = Elem(k)
         /\ \A k \in Nat : k = seq_ring_size => Elem(k)' = t
<1> USE SeqRingAssumption
<1> DEFINE n == seq_ring_size
           r == TailPos
           hp == mask(cap, head)
<1>1. /\ cap \in Nat \ {0} /\ cap >= 2 /\ cap < W32 /\ W32 \in Nat \ {0}
      /\ head \in 0..(W32 - 1) /\ tail \in 0..(W32 - 1)
      /\ r \in 0..(cap - 1) /\ n \in 0..(cap - 1)
      /\ n = IF head >= tail THEN head - tail ELSE head - tail + W32
  BY Ranges
<1>2. n < cap - 1 /\ cap' = cap /\ tail' = tail /\ r' = r
  BY <1>1 DEF PushInPlace, full, TailPos
<1>3. head' = IF head + 1 < W32 THEN head + 1 ELSE 0
  <2>1. CASE head + 1 < W32
    <3>1. head + 1 \in 0..(W32 - 1)
      BY <1>1, <2>1
    <3>2. (head + 1) % W32 = head + 1
      BY <1>1, <3>1, ModNear
    <3> QED
      BY <2>1, <3>2 DEF PushInPlace
  <2>2. CASE ~(head + 1 < W32)
    <3>1. head + 1 = 0 + W32
      BY <1>1, <2>2
    <3>2. (0 + W32) % W32 = 0
      BY <1>1, ModNear
    <3> QED
      BY <2>2, <3>1, <3>2 DEF PushInPlace
  <2> QED
    BY <2>1, <2>2
<1>4. head' \in 0..(W32 - 1)
  BY <1>1, <1>3
<1>5. n' = n + 1
  <2>1. PICK h \in 0..(W32 - 1) : h = head'
    BY <1>4
  <2>2. (h - tail) % W32 = IF h >= tail THEN h - tail ELSE h - tail + W32
    BY <1>1, Distance
  <2>3. n' = (h - tail) % W32
    BY <1>2, <2>1 DEF seq_ring_size
  <2>4. h = IF head + 1 < W32 THEN head + 1 ELSE 0
    BY <2>1, <1>3
  <2> QED
    BY <2>2, <2>3, <2>4, <1>1, <1>2
<1>6. hp = Wrapped(cap, r, n) /\ hp \in 0..(cap - 1) /\ Offset(cap, r, hp) = n
  <2>1. hp = Wrapped(cap, r, n)
    BY AtPos
  <2> HIDE DEF hp, r, n
  <2> QED
    BY <1>1, <2>1, Around
<1>7. /\ array' = [array EXCEPT ![hp] = t]
      /\ array \in [0..(cap - 1) -> Task \cup {Zero}]
  BY DEF PushInPlace, IInv, TypeOK
<1>8. Usage
  BY DEF IInv
<1> HIDE DEF n, r, hp
<1>9. \A p \in 0..(cap - 1) : array'[p] = IF p = hp THEN t ELSE array[p]
  BY <1>6, <1>7
<1>10. ASSUME NEW p \in 0..(cap - 1)
       PROVE  array'[p] # Zero <=> Offset(cap, r, p) < n + 1
  <2>1. CASE p = hp
    <3>1. array'[p] # Zero
      BY <2>1, <1>9
    <3> QED
      BY <2>1, <3>1, <1>1, <1>6
  <2>2. CASE p # hp
    <3>0. Wrapped(cap, r, Offset(cap, r, p)) = p /\ Offset(cap, r, p) \in 0..(cap - 1)
      BY <1>1, Around
    <3>1. Offset(cap, r, p) # n /\ Offset(cap, r, p) \in 0..(cap - 1)
      BY <3>0, <2>2, <1>6
    <3>2. array[p] # Zero <=> Offset(cap, r, p) < n
      BY <1>8 DEF Usage, n, r
    <3> QED
      BY <2>2, <3>1, <3>2, <1>1, <1>9
  <2> QED
    BY <2>1, <2>2
<1>11. Usage'
  BY <1>2, <1>5, <1>10 DEF Usage, n, r
<1>12. TypeOK'
  <2>1. array' \in [0..(cap - 1) -> Task \cup {Zero}]
    BY <1>6, <1>7
  <2> QED
    BY <2>1, <1>2, <1>4 DEF IInv, TypeOK
<1>13. OneSlotFree'
  BY <1>1, <1>2, <1>5 DEF OneSlotFree, n
<1>14. IInv'
  BY <1>2, <1>11, <1>12, <1>13 DEF IInv
<1>15. \A k \in 0..(n - 1) : Elem(k)' = Elem(k)
  <2> SUFFICES ASSUME NEW k \in 0..(n - 1) PROVE Elem(k)' = Elem(k)
    OBVIOUS
  <2> DEFINE p == Wrapped(cap, r, k)
  <2>1. k \in 0..(cap - 1) /\ k # n
    BY <1>1
  <2>2. p \in 0..(cap - 1) /\ Offset(cap, r, p) = k
    BY <1>1, <2>1, Around
  <2>3. p # hp
    BY <1>6, <2>1, <2>2
  <2>4. array'[p] = array[p]
    BY <1>9, <2>2, <2>3
  <2> QED
    BY <2>4, <1>2 DEF Elem, r
<1>16. \A k \in Nat : k = n => Elem(k)' = t
  BY <1>2, <1>6, <1>9 DEF Elem, r
<1> QED
  BY <1>5, <1>14, <1>15, <1>16 DEF n

\* enlarge_buffer copies the tasks in order to the start of the new array,
\* whether they wrap around the end of the old one or not.
LEMMA RelocatedOK ==
  ASSUME IInv, full
  PROVE  /\ DOMAIN Relocated = 0..(2 * cap - 1)
         /\ \A p \in 0..(2 * cap - 1) :
              Relocated[p] = IF p < cap - 1 THEN Elem(p) ELSE Zero
<1> DEFINE n == seq_ring_size
           r == TailPos
           hp == mask(cap, head)
<1>1. cap \in Nat \ {0} /\ cap >= 2 /\ r \in 0..(cap - 1) /\ n = cap - 1
  BY Ranges DEF full
<1>2. hp = Wrapped(cap, r, n)
  BY AtPos
<1>3. hp = IF r = 0 THEN cap - 1 ELSE r - 1
  <2> HIDE DEF hp, r, n
  <2> QED
    BY <1>1, <1>2 DEF Wrapped
<1>4. Relocated = [p \in 0..(2 * cap - 1) |->
        IF hp > r
        THEN IF p < hp - r THEN array[r + p] ELSE Zero
        ELSE IF p < cap - r THEN array[r + p]
             ELSE IF p - (cap - r) < hp THEN array[p - (cap - r)] ELSE Zero]
  BY DEF Relocated, TailPos
<1>5. \A p : Elem(p) = array[IF r + p < cap THEN r + p ELSE r + p - cap]
  BY DEF Elem, Wrapped
<1> HIDE DEF hp, r, n
<1>6. ASSUME NEW p \in 0..(2 * cap - 1)
      PROVE  Relocated[p] = IF p < cap - 1 THEN Elem(p) ELSE Zero
  <2>1. CASE r = 0
    <3>1. hp > r /\ hp - r = cap - 1
      BY <1>1, <1>3, <2>1
    <3>2. Relocated[p] = IF p < cap - 1 THEN array[r + p] ELSE Zero
      BY <1>4, <3>1
    <3>3. p < cap - 1 => r + p < cap
      BY <1>1, <2>1
    <3> QED
      BY <1>5, <3>2, <3>3
  <2>2. CASE r # 0
    <3>1. ~(hp > r) /\ hp = r - 1
      BY <1>1, <1>3, <2>2
    <3>2. Relocated[p] = IF p < cap - r THEN array[r + p]
                         ELSE IF p - (cap - r) < r - 1 THEN array[p - (cap - r)] ELSE Zero
      BY <1>4, <3>1
    <3>3. CASE p < cap - r
      <4>1. p < cap - 1 /\ r + p < cap
        BY <1>1, <2>2, <3>3
      <4> QED
        BY <1>5, <3>2, <3>3, <4>1
    <3>4. CASE ~(p < cap - r) /\ p < cap - 1
      <4>1. p - (cap - r) < r - 1 /\ ~(r + p < cap) /\ p - (cap - r) = r + p - cap
        BY <1>1, <3>4
      <4> QED
        BY <1>5, <3>2, <3>4, <4>1
    <3>5. CASE ~(p < cap - 1)
      <4>1. ~(p < cap - r) /\ ~(p - (cap - r) < r - 1)
        BY <1>1, <2>2, <3>5
      <4> QED
        BY <3>2, <3>5, <4>1
    <3> QED
      BY <3>3, <3>4, <3>5
  <2> QED
    BY <2>1, <2>2
<1> QED
  BY <1>4, <1>6

\* A push that doubles the array.
LEMMA PushEnlargedOK ==
  ASSUME IInv, NEW t \in Task, PushEnlarged(t), UNCHANGED popped
  PROVE  /\ IInv'
         /\ seq_ring_size' = seq_ring_size + 1
         /\ \A k \in 0..(seq_ring_size - 1) : Elem(k)' = Elem(k)
         /\ \A k \in Nat : k = seq_ring_size => Elem(k)' = t
<1> USE SeqRingAssumption
<1> DEFINE n == seq_ring_size
           r == TailPos
<1>1. /\ cap \in Nat \ {0} /\ cap >= 2 /\ cap < W32 /\ W32 \in Nat \ {0}
      /\ r \in 0..(cap - 1) /\ n \in 0..(cap - 1)
  BY Ranges
<1>2. n = cap - 1 /\ full /\ cap < MaxCap
  BY DEF PushEnlarged, full
<1>3. cap' = 2 * cap /\ tail' = 0 /\ head' = cap /\ array' = [Relocated EXCEPT ![cap - 1] = t]
  BY DEF PushEnlarged
<1>4. cap' \in Caps /\ cap' \in 1..MaxCap /\ cap' >= 2
  <2>1. 2 * cap \in Caps
    BY CapsOK, <1>2 DEF IsCaps, IInv
  <2>2. 2 * cap \in 1..MaxCap
    BY <2>1, CapsOK DEF IsCaps
  <2> QED
    BY <2>1, <2>2, <1>1, <1>3
<1>5. r' = 0
  <2>1. 0 % (2 * cap) = 0
    BY <1>1, ModNear
  <2> QED
    BY <2>1, <1>3 DEF TailPos, mask
<1>6. n' = cap
  <2>1. (cap - 0) % W32 = cap
    BY <1>1, ModNear
  <2> QED
    BY <2>1, <1>3 DEF seq_ring_size
<1>7. \A p \in 0..(2 * cap - 1) :
        Relocated[p] = IF p < cap - 1 THEN Elem(p) ELSE Zero
  BY <1>2, RelocatedOK
<1>8. DOMAIN Relocated = 0..(2 * cap - 1)
  BY <1>2, RelocatedOK
<1>9. array' = [p \in 0..(2 * cap - 1) |-> IF p = cap - 1 THEN t ELSE Relocated[p]]
  BY <1>1, <1>3, <1>8 DEF Relocated
<1>10. \A p \in 0..(2 * cap - 1) :
         array'[p] = IF p < cap - 1 THEN Elem(p) ELSE IF p = cap - 1 THEN t ELSE Zero
  BY <1>1, <1>7, <1>9
<1>11. \A k \in 0..(cap - 2) : Elem(k) \in Task
  <2> SUFFICES ASSUME NEW k \in 0..(cap - 2) PROVE Elem(k) \in Task
    OBVIOUS
  <2>1. k \in 0..(cap - 1) /\ k < n
    BY <1>1, <1>2
  <2>2. Wrapped(cap, r, k) \in 0..(cap - 1) /\ Offset(cap, r, Wrapped(cap, r, k)) = k
    BY <1>1, <2>1, Around
  <2>3. array[Wrapped(cap, r, k)] # Zero
    BY <2>1, <2>2 DEF IInv, Usage
  <2> QED
    BY <2>2, <2>3 DEF Elem, IInv, TypeOK
<1> HIDE DEF n, r
<1>12. TypeOK'
  <2>1. \A p \in 0..(2 * cap - 1) : array'[p] \in Task \cup {Zero}
    BY <1>1, <1>10, <1>11
  <2>2. array' \in [0..(2 * cap - 1) -> Task \cup {Zero}]
    BY <2>1, <1>9
  <2> QED
    BY <2>2, <1>1, <1>3, <1>4 DEF IInv, TypeOK
<1>13. Usage'
  <2> SUFFICES ASSUME NEW p \in 0..(2 * cap - 1)
               PROVE  array'[p] # Zero <=> Offset(2 * cap, 0, p) < cap
    BY <1>3, <1>5, <1>6 DEF Usage, n, r
  <2>1. Offset(2 * cap, 0, p) = p
    BY <1>1 DEF Offset
  <2>2. p < cap - 1 => array'[p] # Zero
    BY <1>1, <1>10, <1>11
  <2>3. p = cap - 1 => array'[p] # Zero
    BY <1>1, <1>10
  <2>4. p >= cap => array'[p] = Zero
    BY <1>1, <1>10
  <2> QED
    BY <2>1, <2>2, <2>3, <2>4, <1>1
<1>14. OneSlotFree'
  BY <1>1, <1>3, <1>6 DEF OneSlotFree, n
<1>15. IInv'
  BY <1>4, <1>12, <1>13, <1>14 DEF IInv
<1>16. \A k \in 0..(cap - 1) : Elem(k)' = array'[k]
  <2> SUFFICES ASSUME NEW k \in 0..(cap - 1) PROVE Elem(k)' = array'[k]
    OBVIOUS
  <2>1. Wrapped(2 * cap, 0, k) = k
    BY <1>1 DEF Wrapped
  <2> QED
    BY <2>1, <1>3, <1>5 DEF Elem, r
<1>17. \A k \in 0..(n - 1) : Elem(k)' = Elem(k)
  BY <1>1, <1>2, <1>10, <1>16
<1>18. \A k \in Nat : k = n => Elem(k)' = t
  BY <1>1, <1>2, <1>10, <1>16
<1>19. n' = n + 1
  BY <1>1, <1>2, <1>6
<1> QED
  BY <1>15, <1>17, <1>18, <1>19 DEF n

\* How many tasks a pop takes.
Count == IF seq_ring_size < Batch THEN seq_ring_size ELSE Batch

\* seq_ring_erase clears the first m slots in use and moves the tail by m.
LEMMA ErasedOK ==
  ASSUME NEW c \in Nat \ {0}, NEW r \in 0..(c - 1), NEW m \in 1..(c - 1),
         IInv, c = cap, r = TailPos
  PROVE  /\ Erased(Wrapped(c, r, m)) = m
         /\ \A p \in 0..(c - 1) : InErased(p, Wrapped(c, r, m)) <=> Offset(c, r, p) < m
<1>1. Erased(Wrapped(c, r, m)) = m
  BY DEF Erased, Wrapped, TailPos
<1>2. ASSUME NEW p \in 0..(c - 1)
      PROVE  InErased(p, Wrapped(c, r, m)) <=> Offset(c, r, p) < m
  <2> DEFINE end == Wrapped(c, r, m)
  <2>1. InErased(p, end) <=> IF end >= r THEN p \in r..(end - 1) ELSE p >= r \/ p < end
    BY DEF InErased, TailPos
  <2>2. end = IF r + m < c THEN r + m ELSE r + m - c
    BY DEF Wrapped
  <2> HIDE DEF end
  <2> QED
    BY <2>1, <2>2 DEF Offset, end
<1> QED
  BY <1>1, <1>2

\* A pop: the tasks behind the ones taken move up.
LEMMA PopOK ==
  ASSUME IInv, Pop
  PROVE  /\ IInv' /\ Count \in 1..seq_ring_size
         /\ seq_ring_size' = seq_ring_size - Count
         /\ popped' = [k \in 1..Count |-> Elem(k - 1)]
         /\ \A k \in 0..(seq_ring_size - Count - 1) : Elem(k)' = Elem(k + Count)
<1> USE SeqRingAssumption
<1> DEFINE n == seq_ring_size
           r == TailPos
           m == Count
           end == Wrapped(cap, r, m)
<1>1. /\ cap \in Nat \ {0} /\ cap >= 2 /\ cap < W32 /\ W32 \in Nat \ {0}
      /\ head \in 0..(W32 - 1) /\ tail \in 0..(W32 - 1)
      /\ r \in 0..(cap - 1) /\ n \in 0..(cap - 1) /\ n > 0
      /\ n = IF head >= tail THEN head - tail ELSE head - tail + W32
  BY Ranges DEF Pop
<1>2. m \in 1..n /\ m \in 1..(cap - 1) /\ m \in 0..(cap - 1)
  BY <1>1 DEF Count
<1>3. \A k \in 0..(cap - 1) : At(k) = Wrapped(cap, r, k)
  BY AtPos
<1>4. At(m) = end
  BY <1>2, <1>3
<1>5. Erased(end) = m /\ \A p \in 0..(cap - 1) : InErased(p, end) <=> Offset(cap, r, p) < m
  BY <1>1, <1>2, ErasedOK
<1>6. /\ popped' = [k \in 1..m |-> array[At(k - 1)]]
      /\ array' = [p \in DOMAIN array |-> IF InErased(p, end) THEN Zero ELSE array[p]]
      /\ tail' = (tail + m) % W32
      /\ UNCHANGED <<cap, head>>
  BY <1>4, <1>5 DEF Pop, Count
<1>7. array \in [0..(cap - 1) -> Task \cup {Zero}] /\ Usage
  BY DEF IInv, TypeOK
<1>8. r' = end
  BY <1>4, <1>6 DEF TailPos, At
<1> HIDE DEF n, r, m, end
<1>9. \A p \in 0..(cap - 1) : array'[p] = IF Offset(cap, r, p) < m THEN Zero ELSE array[p]
  BY <1>5, <1>6, <1>7
<1>10. tail' = IF tail + m < W32 THEN tail + m ELSE tail + m - W32
  <2>1. CASE tail + m < W32
    <3>1. tail + m \in 0..(W32 - 1)
      BY <1>1, <1>2, <2>1
    <3> QED
      BY <1>1, <1>6, <2>1, <3>1, ModNear
  <2>2. CASE ~(tail + m < W32)
    <3> DEFINE a == tail + m - W32
    <3>1. a \in 0..(W32 - 1) /\ a + W32 = tail + m
      BY <1>1, <1>2, <2>2
    <3>2. (a + W32) % W32 = a
      BY <1>1, <3>1, ModNear
    <3> QED
      BY <1>6, <2>2, <3>1, <3>2
  <2> QED
    BY <2>1, <2>2
<1>11. tail' \in 0..(W32 - 1)
  BY <1>1, <1>2, <1>10
<1>12. n' = n - m
  <2>1. PICK t \in 0..(W32 - 1) : t = tail'
    BY <1>11
  <2>2. (head - t) % W32 = IF head >= t THEN head - t ELSE head - t + W32
    BY <1>1, Distance
  <2>3. n' = (head - t) % W32
    BY <1>6, <2>1 DEF n, seq_ring_size
  <2>4. t = IF tail + m < W32 THEN tail + m ELSE tail + m - W32
    BY <2>1, <1>10
  <2> QED
    BY <2>2, <2>3, <2>4, <1>1, <1>2
<1>13. end \in 0..(cap - 1)
  BY <1>1, <1>2, Around DEF end
<1>14. \A k \in 0..(n - 1) : Elem(k) \in Task
  <2> SUFFICES ASSUME NEW k \in 0..(n - 1) PROVE Elem(k) \in Task
    OBVIOUS
  <2>1. k \in 0..(cap - 1) /\ k < n
    BY <1>1
  <2>2. Wrapped(cap, r, k) \in 0..(cap - 1) /\ Offset(cap, r, Wrapped(cap, r, k)) = k
    BY <1>1, <2>1, Around
  <2>3. array[Wrapped(cap, r, k)] # Zero
    BY <2>1, <2>2, <1>7 DEF Usage, r, n
  <2> QED
    BY <2>2, <2>3, <1>7 DEF Elem, r
<1>15. popped' = [k \in 1..m |-> Elem(k - 1)]
  <2>1. \A k \in 1..m : k - 1 \in 0..(cap - 1) /\ k - 1 \in 0..(n - 1)
    BY <1>1, <1>2
  <2>2. \A k \in 1..m : array[At(k - 1)] = Elem(k - 1)
    BY <2>1, <1>3 DEF Elem, r
  <2> QED
    BY <2>2, <1>6
<1>16. popped' \in Seq(Task)
  <2>1. \A k \in 1..m : Elem(k - 1) \in Task
    BY <1>1, <1>2, <1>14
  <2>2. [k \in 1..m |-> Elem(k - 1)] \in Seq(Task)
    BY <2>1, <1>2
  <2> QED
    BY <2>2, <1>15
<1>17. TypeOK'
  <2>1. array' \in [0..(cap - 1) -> Task \cup {Zero}]
    BY <1>6, <1>7
  <2> QED
    BY <2>1, <1>6, <1>11, <1>16 DEF IInv, TypeOK
<1>18. Usage'
  <2> SUFFICES ASSUME NEW p \in 0..(cap - 1)
               PROVE  array'[p] # Zero <=> Offset(cap, end, p) < n - m
    BY <1>6, <1>8, <1>12 DEF Usage, n, r
  <2>1. Offset(cap, r, p) \in 0..(cap - 1)
    BY <1>1, Around
  <2>2. array[p] # Zero <=> Offset(cap, r, p) < n
    BY <1>7 DEF Usage, n, r
  <2>3. array'[p] # Zero <=> m <= Offset(cap, r, p) /\ Offset(cap, r, p) < n
    BY <1>1, <1>2, <1>9, <2>1, <2>2
  <2>4. Offset(cap, end, p) < n - m <=> m <= Offset(cap, r, p) /\ Offset(cap, r, p) < n
    BY <1>1, <1>2 DEF Offset, Wrapped, end
  <2> QED
    BY <2>3, <2>4
<1>19. OneSlotFree'
  BY <1>1, <1>2, <1>6, <1>12 DEF OneSlotFree, n
<1>20. IInv'
  BY <1>6, <1>17, <1>18, <1>19 DEF IInv
<1>21. ASSUME NEW k \in 0..(n - m - 1)
       PROVE  Elem(k)' = Elem(k + m)
  <2>1. k + m \in 0..(cap - 1) /\ ~(k + m < m)
    BY <1>1, <1>2
  <2>2. Wrapped(cap, end, k) = Wrapped(cap, r, k + m)
    BY <1>1, <1>2 DEF Wrapped, end
  <2>3. Wrapped(cap, r, k + m) \in 0..(cap - 1) /\ Offset(cap, r, Wrapped(cap, r, k + m)) = k + m
    BY <1>1, <2>1, Around
  <2>4. array'[Wrapped(cap, r, k + m)] = array[Wrapped(cap, r, k + m)]
    BY <1>9, <2>1, <2>3
  <2> QED
    BY <2>2, <2>4, <1>6, <1>8 DEF Elem, r
<1> QED
  BY <1>2, <1>12, <1>15, <1>20, <1>21 DEF n, m

\* The three operations preserve the invariant.
LEMMA StepOK == IInv /\ [Next]_vars => IInv'
<1> SUFFICES ASSUME IInv, [Next]_vars PROVE IInv'
  OBVIOUS
<1>1. ASSUME NEW t \in Task, Push(t) PROVE IInv'
  BY <1>1, PushInPlaceOK, PushEnlargedOK DEF Push
<1>2. CASE Pop
  BY <1>2, PopOK
<1>3. CASE UNCHANGED vars
  BY <1>3 DEF vars, IInv, TypeOK, OneSlotFree, Usage, seq_ring_size, TailPos
<1> QED
  BY <1>1, <1>2, <1>3 DEF Next

\* The inductive invariant.
THEOREM Inductive == Spec => []IInv
BY InitOK, StepOK, PTL DEF Spec

\* The counters stay within 32 bits, the capacity within its bound, and a pop
\* hands over tasks only, never a cleared slot.
THEOREM TypeCorrect == Spec => []TypeOK
<1>1. IInv => TypeOK
  BY DEF IInv
<1> QED
  BY <1>1, Inductive, PTL

\* The slots in use are exactly the ones between tail and head and one slot
\* is always free, so that the end of a full erasure differs from its start.
THEOREM SlotsInUseCorrect == Spec => []SlotsInUse
<1>1. IInv => SlotsInUse
  <2> SUFFICES ASSUME IInv PROVE SlotsInUse
    OBVIOUS
  <2> DEFINE n == seq_ring_size
             r == TailPos
  <2>1. cap \in Nat \ {0} /\ r \in 0..(cap - 1) /\ n \in 0..(cap - 1)
    BY Ranges
  <2>2. \A k \in 0..(cap - 1) : At(k) = Wrapped(cap, r, k)
    BY AtPos
  <2>3. \A p \in 0..(cap - 1) : array[p] # Zero <=> Offset(cap, r, p) < n
    BY DEF IInv, Usage
  <2>4. OneSlotFree
    BY DEF IInv
  <2> HIDE DEF n, r
  <2>5. ASSUME NEW p \in 0..(cap - 1), array[p] # Zero
        PROVE  \E k \in 0..(n - 1) : p = At(k)
    <3> DEFINE k == Offset(cap, r, p)
    <3>1. k \in 0..(cap - 1) /\ Wrapped(cap, r, k) = p
      BY <2>1, Around
    <3>2. k < n
      BY <2>3, <2>5
    <3> HIDE DEF k
    <3>3. k \in 0..(n - 1) /\ p = At(k)
      BY <2>1, <2>2, <3>1, <3>2
    <3> QED
      BY <3>3
  <2>6. ASSUME NEW k \in 0..(n - 1)
        PROVE  At(k) \in 0..(cap - 1) /\ array[At(k)] # Zero
    <3>1. k \in 0..(cap - 1) /\ k < n
      BY <2>1
    <3>2. At(k) \in 0..(cap - 1) /\ Offset(cap, r, At(k)) = k
      BY <2>1, <2>2, <3>1, Around
    <3> QED
      BY <2>3, <3>1, <3>2
  <2>7. {p \in 0..(cap - 1) : array[p] # Zero} = {At(k) : k \in 0..(n - 1)}
    BY <2>5, <2>6
  <2> QED
    BY <2>4, <2>7 DEF SlotsInUse, n
<1> QED
  BY <1>1, Inductive, PTL

AsSequence ==
  /\ Contents = [k \in 1..seq_ring_size |-> Elem(k - 1)]
  /\ Contents \in Seq(Task) /\ Len(Contents) = seq_ring_size
  /\ seq_ring_size \in Nat

\* The contents, as a sequence of tasks, ...
LEMMA ContentsIs == IInv => AsSequence
<1> SUFFICES ASSUME IInv PROVE AsSequence
  OBVIOUS
<1> DEFINE n == seq_ring_size
           r == TailPos
<1>1. cap \in Nat \ {0} /\ r \in 0..(cap - 1) /\ n \in 0..(cap - 1)
  BY Ranges
<1>2. \A k \in 0..(cap - 1) : At(k) = Wrapped(cap, r, k)
  BY AtPos
<1>3. \A p \in 0..(cap - 1) : array[p] # Zero <=> Offset(cap, r, p) < n
  BY DEF IInv, Usage
<1>4. array \in [0..(cap - 1) -> Task \cup {Zero}]
  BY DEF IInv, TypeOK
<1>5. Contents = [k \in 1..n |-> array[At(k - 1)]]
  BY DEF Contents
<1>6. \A k : Elem(k) = array[Wrapped(cap, r, k)]
  BY DEF Elem
<1> HIDE DEF n, r
<1>7. \A k \in 1..n : array[At(k - 1)] = Elem(k - 1)
  BY <1>1, <1>2, <1>6
<1>8. ASSUME NEW k \in 1..n
      PROVE  Elem(k - 1) \in Task
  <2>1. k - 1 \in 0..(cap - 1) /\ k - 1 < n
    BY <1>1
  <2>2. /\ Wrapped(cap, r, k - 1) \in 0..(cap - 1)
        /\ Offset(cap, r, Wrapped(cap, r, k - 1)) = k - 1
    BY <1>1, <2>1, Around
  <2> QED
    BY <1>3, <1>4, <1>6, <2>1, <2>2
<1>9. Contents = [k \in 1..n |-> Elem(k - 1)]
  BY <1>5, <1>7
<1>10. Contents \in Seq(Task) /\ Len(Contents) = n
  BY <1>1, <1>8, <1>9
<1> QED
  BY <1>1, <1>9, <1>10 DEF AsSequence, n

\* ... before and after a step.
LEMMA ContentsNext == IInv' => AsSequence'
BY ContentsIs, PTL

\* A push appends to the contents.
LEMMA PushContents ==
  ASSUME IInv, IInv', NEW t \in Task,
         seq_ring_size' = seq_ring_size + 1,
         \A k \in 0..(seq_ring_size - 1) : Elem(k)' = Elem(k),
         \A k \in Nat : k = seq_ring_size => Elem(k)' = t
  PROVE  Contents' = Append(Contents, t)
<1> DEFINE n == seq_ring_size
           c == Contents
           d == Append(c, t)
<1>1. c = [k \in 1..n |-> Elem(k - 1)] /\ c \in Seq(Task) /\ Len(c) = n /\ n \in Nat
  BY ContentsIs DEF AsSequence
<1>2. c' \in Seq(Task) /\ Len(c') = n' /\ c' = [k \in 1..n' |-> Elem(k - 1)']
  BY ContentsNext DEF AsSequence
<1>3. n' = n + 1
  OBVIOUS
<1>4. /\ d \in Seq(Task) /\ Len(d) = n + 1 /\ d[n + 1] = t
      /\ \A i \in 1..n : d[i] = c[i]
  BY <1>1, AppendProperties
<1>5. \A k \in 0..(n - 1) : Elem(k)' = Elem(k)
  OBVIOUS
<1>6. \A k \in Nat : k = n => Elem(k)' = t
  OBVIOUS
<1> HIDE DEF n, c, d
<1>7. ASSUME NEW i \in 1..(n + 1)
      PROVE  c'[i] = d[i]
  <2>1. c'[i] = Elem(i - 1)'
    BY <1>2, <1>3
  <2>2. CASE i = n + 1
    BY <1>1, <1>4, <1>6, <2>1, <2>2
  <2>3. CASE i \in 1..n
    <3>1. i - 1 \in 0..(n - 1)
      BY <1>1, <2>3
    <3> QED
      BY <1>1, <1>4, <1>5, <2>1, <2>3, <3>1
  <2> QED
    BY <1>1, <2>2, <2>3
<1>8. c' = d
  BY <1>2, <1>3, <1>4, <1>7, SeqEqual
<1> QED
  BY <1>8 DEF c, d

\* The ring implements the abstract FIFO: nothing is lost, duplicated or
\* reordered by masking, growth or the wrap of the counters.
THEOREM ImplementsFifo == Spec => FifoSpec
<1>1. Init => Fifo!Init
  <2> SUFFICES ASSUME Init PROVE Fifo!Init
    OBVIOUS
  <2>1. seq_ring_size = 0
    BY SeqRingAssumption, ModNear DEF Init, seq_ring_size
  <2>2. Contents \in Seq(Task) /\ Len(Contents) = 0
    BY <2>1, InitOK, ContentsIs DEF AsSequence
  <2>3. Contents = << >>
    BY <2>2, EmptySeq
  <2> QED
    BY <2>3 DEF Fifo!Init, Init
<1>2. IInv /\ IInv' /\ [Next]_vars => [Fifo!Next]_(Fifo!fvars)
  <2> SUFFICES ASSUME IInv, IInv', [Next]_vars PROVE [Fifo!Next]_(Fifo!fvars)
    OBVIOUS
  <2>1. ASSUME NEW t \in Task, Push(t)
        PROVE  Fifo!Push(t)
    <3>1. /\ seq_ring_size' = seq_ring_size + 1
          /\ \A k \in 0..(seq_ring_size - 1) : Elem(k)' = Elem(k)
          /\ \A k \in Nat : k = seq_ring_size => Elem(k)' = t
      BY <2>1, PushInPlaceOK, PushEnlargedOK DEF Push
    <3> QED
      BY <3>1, <2>1, PushContents DEF Fifo!Push, Push
  <2>2. ASSUME Pop
        PROVE  \E n \in 1..Len(Contents) : Fifo!Take(n)
    <3> DEFINE n == seq_ring_size
               m == Count
               c == Contents
    <3>1. /\ m \in 1..n /\ n' = n - m
          /\ popped' = [k \in 1..m |-> Elem(k - 1)]
          /\ \A k \in 0..(n - m - 1) : Elem(k)' = Elem(k + m)
      BY <2>2, PopOK
    <3>2. c = [k \in 1..n |-> Elem(k - 1)] /\ c \in Seq(Task) /\ Len(c) = n /\ n \in Nat
      BY ContentsIs DEF AsSequence
    <3>3. c' \in Seq(Task) /\ Len(c') = n' /\ c' = [k \in 1..n' |-> Elem(k - 1)']
      BY ContentsNext DEF AsSequence
    <3> HIDE DEF n, m, c
    <3>4. /\ SubSeq(c, 1, m) = [k \in 1..m |-> c[k]]
          /\ SubSeq(c, m + 1, n) = [k \in 1..(n - m) |-> c[k + m]]
      BY <3>1, <3>2
    <3>5. popped' = SubSeq(c, 1, m)
      BY <3>1, <3>2, <3>4
    <3>6. c' = SubSeq(c, m + 1, n)
      <4>1. \A k \in 1..(n - m) : Elem(k - 1)' = c[k + m]
        BY <3>1, <3>2
      <4>2. c' = [k \in 1..(n - m) |-> Elem(k - 1)']
        BY <3>1, <3>3
      <4> QED
        BY <4>1, <4>2, <3>4
    <3>7. m \in 1..Len(c)
      BY <3>1, <3>2
    <3>8. PICK j \in 1..Len(c) : j = m
      BY <3>7
    <3>9. Fifo!Take(j)
      BY <3>2, <3>5, <3>6, <3>8 DEF Fifo!Take, c
    <3> QED
      BY <3>9 DEF c
  <2>3. CASE UNCHANGED vars
    BY <2>3 DEF vars, Fifo!fvars, Contents, seq_ring_size, At, mask
  <2> QED
    BY <2>1, <2>2, <2>3 DEF Next, Fifo!Next
<1> QED
  BY <1>1, <1>2, Inductive, PTL DEF Spec, FifoSpec, Fifo!Spec
=============================================================================
