------------------------------- MODULE SeqRing -------------------------------
(***************************************************************************)
(* The growing circular buffer inside every queue of the task manager      *)
(* (seq_ring_t of src/util/alg_ds/ds/task_man/task_manager.c).  head and   *)
(* tail are free-running uint32 counters, masked to a position by a        *)
(* capacity that is a power of two; the buffer is full with one slot       *)
(* unused and then doubles.  The caller holds the queue's mutex, so every  *)
(* operation is one step.                                                  *)
(***************************************************************************)
EXTENDS Integers, Sequences

CONSTANTS
  DefaultElm,  \* DEFAULT_ELM
  W32,         \* 2^32, the modulus of head and tail
  Task,        \* the tasks (task_t values) that are stored
  Batch,       \* 4096: tasks one pop takes at most
  MaxCap       \* bound: the largest capacity explored

Zero == "zero"   \* a slot filled by calloc or memset

\* The capacities are doublings of DEFAULT_ELM and divide 2^32, all of them
\* powers of two; a task has a function, so it is not all zeros.
ASSUME SeqRingAssumption ==
  /\ DefaultElm \in Nat /\ DefaultElm >= 2
  /\ W32 \in Nat /\ MaxCap \in Nat /\ MaxCap < W32
  /\ Batch \in Nat \ {0}
  /\ Zero \notin Task
  /\ \E Caps \in SUBSET (1..MaxCap) :
       /\ {DefaultElm, MaxCap} \subseteq Caps
       /\ \A c \in Caps : W32 % c = 0 /\ (c < MaxCap => 2 * c \in Caps)

VARIABLES array, cap, head, tail,
          popped  \* the tasks the latest pop copied out

vars == <<array, cap, head, tail, popped>>

mask(c, val) == val % c

seq_ring_size == (head - tail) % W32

full == seq_ring_size = cap - 1

\* seq_ring_at: the position of the pos-th element.
At(pos) == mask(cap, (tail + pos) % W32)

Init ==
  /\ cap = DefaultElm
  /\ array = [p \in 0..(DefaultElm - 1) |-> Zero]
  /\ head = 0
  /\ tail = 0
  /\ popped = << >>

\* Fault: the array is copied as it lies, wrapped or not.
RelocatedAsIs ==
  [p \in 0..(2 * cap - 1) |-> IF p < cap THEN array[p] ELSE Zero]

\* The contents of the buffer after enlarge_buffer: the run up to the head,
\* or, when it wraps, the upper part of the array followed by the lower one.
Relocated ==
  LET hp == mask(cap, head)
      tp == mask(cap, tail)
      up == cap - tp
  IN  [p \in 0..(2 * cap - 1) |->
        IF hp > tp
        THEN IF p < hp - tp THEN array[tp + p] ELSE Zero
        ELSE IF p < up THEN array[tp + p]
             ELSE IF p - up < hp THEN array[p - up] ELSE Zero]

\* Fault: the head counter does not wrap.
PushInPlaceNoWrap(t) ==
  /\ ~full
  /\ array' = [array EXCEPT ![mask(cap, head)] = t]
  /\ head' = head + 1
  /\ UNCHANGED <<cap, tail>>

\* seq_ring_push_back, with enlarge_buffer when the ring is full.
PushInPlace(t) ==
  /\ ~full
  /\ array' = [array EXCEPT ![mask(cap, head)] = t]
  /\ head' = (head + 1) % W32
  /\ UNCHANGED <<cap, tail>>

PushEnlarged(t) ==
  /\ full
  /\ cap < MaxCap
  /\ cap' = 2 * cap
  /\ array' = [Relocated EXCEPT ![cap - 1] = t]
  /\ tail' = 0
  /\ head' = cap

Push(t) ==
  /\ PushInPlace(t) \/ PushEnlarged(t)
  /\ UNCHANGED popped

\* seq_ring_erase from the front to position end: what it adds to tail.
Erased(end) ==
  LET start == mask(cap, tail) IN
  IF end = start THEN 0
  ELSE IF end > start THEN end - start ELSE cap - start + end

\* Fault: the part of a wrapped run at the bottom of the array is not cleared.
InErasedUpper(p, end) ==
  LET start == mask(cap, tail) IN
  IF end >= start THEN p \in start..(end - 1) ELSE p >= start

InErased(p, end) ==
  LET start == mask(cap, tail) IN
  IF end >= start THEN p \in start..(end - 1) ELSE p >= start \/ p < end

\* A pop: copy the first n tasks and erase them.
Pop ==
  LET n   == IF seq_ring_size < Batch THEN seq_ring_size ELSE Batch
      end == At(n)
  IN  /\ seq_ring_size > 0
      /\ popped' = [k \in 1..n |-> array[At(k - 1)]]
      /\ array' = [p \in DOMAIN array |->
                     IF InErased(p, end) THEN Zero ELSE array[p]]
      /\ tail' = (tail + Erased(end)) % W32
      /\ UNCHANGED <<cap, head>>

Next == (\E t \in Task : Push(t)) \/ Pop

Spec == Init /\ [][Next]_vars
-----------------------------------------------------------------------------
TypeOK ==
  /\ cap \in 1..MaxCap
  /\ array \in [0..(cap - 1) -> Task \cup {Zero}]
  /\ head \in 0..(W32 - 1)
  /\ tail \in 0..(W32 - 1)
  /\ popped \in Seq(Task)

\* Never completely full: otherwise the end of a pop of everything would
\* coincide with its start and seq_ring_erase would erase nothing.
OneSlotFree == seq_ring_size < cap

\* A slot is in use exactly when it lies between tail and head: growing and
\* erasing, wrapped or not, leave no task behind and clear none too many.
SlotsInUse ==
  /\ OneSlotFree
  /\ {p \in 0..(cap - 1) : array[p] # Zero}
       = {At(k) : k \in 0..(seq_ring_size - 1)}

Contents == [k \in 1..seq_ring_size |-> array[At(k - 1)]]

Fifo == INSTANCE TaskFifo WITH fifo <- Contents, taken <- popped

\* The ring is a FIFO: nothing is lost, duplicated or reordered by masking,
\* by growing while wrapped, or when the 32-bit counters overflow.
FifoSpec == Fifo!Spec
=============================================================================
