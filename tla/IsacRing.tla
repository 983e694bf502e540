------------------------------ MODULE IsacRing ------------------------------
(***************************************************************************)
(* The ring that hands SRS channel estimates from the gNB PHY to the E2    *)
(* agent (openair1/PHY/NR_ESTIMATION/nr_isac_csi.c).  The PHY thread calls *)
(* nr_isac_csi_publish after every SRS occasion, the agent thread calls    *)
(* nr_isac_csi_drain; each holds ring.mtx from its first to its last       *)
(* access, so each call is one step.                                       *)
(*                                                                         *)
(* The I/Q samples of a snapshot are abstracted to the number under which  *)
(* the snapshot was stored (the 64-bit value of ring.wr at that time), and *)
(* the size of its samples to a member of Lens.                            *)
(***************************************************************************)
EXTENDS Integers, Sequences

CONSTANTS
  RingSz,      \* NR_ISAC_CSI_RING_SZ
  MaxDrain,    \* ISAC_MAX_DRAIN, the max_snap of the agent's read callback
  W32,         \* 2^32, the modulus of meta.seq and ring.dropped
  Lens,        \* sizes iq_len a snapshot may have; none is 0
  AllocFails,  \* whether malloc may return NULL
  MaxPub       \* bound: snapshots stored in one behaviour

ASSUME RingAssumption ==
  /\ RingSz \in Nat \ {0}
  /\ MaxDrain \in Nat \ {0}
  /\ W32 \in Nat \ {0}
  /\ Lens \subseteq Nat \ {0}
  /\ AllocFails \in BOOLEAN
  /\ MaxPub \in Nat

VARIABLES
  wr,       \* total published
  rd,       \* total drained or overwritten
  dropped,  \* uint32 count of snapshots overwritten unread
  e,        \* the slots
  out,      \* what the latest drain returned: snapshots and drop counter
  over,     \* history: snapshots overwritten unread, not truncated
  got       \* history: snapshots returned by drain so far

ringVars == <<wr, rd, dropped, e>>
vars == <<wr, rd, dropped, e, out, over, got>>

NoIq == -1

Slots == 0..(RingSz - 1)

\* csi_entry_t: the meta fields the ring relies on, the sample buffer and its
\* allocated size.
Entry == [seq : 0..(W32 - 1), len : Nat, iq : Nat \cup {NoIq}, cap : Nat]

Snapshot == [seq : 0..(W32 - 1), len : Nat, iq : Nat \cup {NoIq}]

Init ==
  /\ wr = 0
  /\ rd = 0
  /\ dropped = 0
  /\ e = [s \in Slots |-> [seq |-> 0, len |-> 0, iq |-> NoIq, cap |-> 0]]
  /\ out = [snap |-> << >>, dropped |-> 0]
  /\ over = 0
  /\ got = 0

(***************************************************************************)
(* nr_isac_csi_publish.  A call with iq_len = 0 returns at once and is not *)
(* a step.                                                                 *)
(***************************************************************************)
Full == wr - rd = RingSz

\* Fault: the drop counter is wider than the 32 bits the message has for it.
MakeRoomWide ==
  /\ rd' = IF Full THEN rd + 1 ELSE rd
  /\ dropped' = IF Full THEN dropped + 1 ELSE dropped
  /\ over' = IF Full THEN over + 1 ELSE over

\* Fault: the oldest snapshot gives way without being counted.
MakeRoomUncounted ==
  /\ rd' = IF Full THEN rd + 1 ELSE rd
  /\ dropped' = dropped
  /\ over' = IF Full THEN over + 1 ELSE over

\* The oldest unread snapshot gives way when the ring is full.
MakeRoom ==
  /\ rd' = IF Full THEN rd + 1 ELSE rd
  /\ dropped' = IF Full THEN (dropped + 1) % W32 ELSE dropped
  /\ over' = IF Full THEN over + 1 ELSE over

\* The slot's buffer is kept when it is large enough, else allocated anew.
Store(len) ==
  LET s == wr % RingSz IN
  /\ e' = [e EXCEPT ![s] = [seq |-> wr % W32,
                            len |-> len,
                            iq  |-> wr,
                            cap |-> IF @.cap < len THEN len ELSE @.cap]]
  /\ wr' = wr + 1

\* free(e->iq) happened, malloc failed: the slot has no buffer any more.
LoseBuffer(len) ==
  LET s == wr % RingSz IN
  /\ e[s].cap < len
  /\ e' = [e EXCEPT ![s].iq = NoIq, ![s].cap = 0]
  /\ wr' = wr

\* Fault: the buffer is allocated before the room is made.
PublishNoMemEarly(len) ==
  /\ AllocFails
  /\ LoseBuffer(len)
  /\ UNCHANGED <<rd, dropped, over, out, got>>

Publish(len) ==
  /\ wr < MaxPub
  /\ MakeRoom
  /\ Store(len)
  /\ UNCHANGED <<out, got>>

PublishNoMem(len) ==
  /\ AllocFails
  /\ MakeRoom
  /\ LoseBuffer(len)
  /\ UNCHANGED <<out, got>>

(***************************************************************************)
(* nr_isac_csi_drain: the loop ends when the ring is empty, when max_snap  *)
(* snapshots have been copied, or early when malloc fails.                 *)
(***************************************************************************)
\* Fault: rd is advanced before the slot is read.
CopyNext(i) ==
  LET s == e[(i + 1) % RingSz] IN [seq |-> s.seq, len |-> s.len, iq |-> s.iq]

Copy(i) ==
  LET s == e[i % RingSz] IN [seq |-> s.seq, len |-> s.len, iq |-> s.iq]

Drained(n) ==
  /\ n <= wr - rd
  /\ n < MaxDrain /\ n < wr - rd => AllocFails

\* Fault: what exceeds max_snap is discarded.
DrainDiscards(n) ==
  /\ Drained(n)
  /\ out' = [snap |-> [k \in 1..n |-> Copy(rd + k - 1)], dropped |-> dropped]
  /\ rd' = wr
  /\ got' = got + n
  /\ UNCHANGED <<wr, dropped, e, over>>

\* Fault: the snapshots that were copied stay unread.
DrainKeeps(n) ==
  /\ Drained(n)
  /\ out' = [snap |-> [k \in 1..n |-> Copy(rd + k - 1)], dropped |-> dropped]
  /\ got' = got + n
  /\ UNCHANGED <<wr, rd, dropped, e, over>>

Drain(n) ==
  /\ Drained(n)
  /\ out' = [snap |-> [k \in 1..n |-> Copy(rd + k - 1)], dropped |-> dropped]
  /\ rd' = rd + n
  /\ got' = got + n
  /\ UNCHANGED <<wr, dropped, e, over>>

Next ==
  \/ \E len \in Lens : Publish(len) \/ PublishNoMem(len)
  \/ \E n \in 0..MaxDrain : Drain(n)

Spec == Init /\ [][Next]_vars
-----------------------------------------------------------------------------
TypeOK ==
  /\ wr \in Nat
  /\ rd \in Nat
  /\ dropped \in 0..(W32 - 1)
  /\ e \in [Slots -> Entry]
  /\ out \in [snap : Seq(Snapshot), dropped : 0..(W32 - 1)]
  /\ over \in Nat
  /\ got \in Nat

\* The two counters of the ring never drift apart by more than its size.
RingBounds == rd <= wr /\ wr - rd <= RingSz

(***************************************************************************)
(* Every unread snapshot is intact in the slot drain will read it from:    *)
(* its samples, its sequence number, and a buffer at least as large as the *)
(* length drain will copy.  A publish that runs out of memory after it     *)
(* freed the slot's buffer must not have freed one still to be read.       *)
(***************************************************************************)
UnreadIntact ==
  \A i \in rd..(wr - 1) :
    LET s == e[i % RingSz] IN
    /\ s.iq = i
    /\ s.seq = i % W32
    /\ s.len \in Lens
    /\ s.len <= s.cap

\* Every snapshot that left the ring was either handed to the reader or
\* counted as dropped, and the 32-bit drop counter counts exactly those.
DropsAccounted ==
  /\ rd = got + over
  /\ dropped = over % W32

\* A drain returns consecutive snapshots, none of them returned by an earlier
\* drain or overwritten before, each with its own samples and number.
DrainFresh ==
  [][out' # out =>
       \A k \in 1..Len(out'.snap) :
         LET i == rd + k - 1 IN
         /\ out'.snap[k].iq = i
         /\ out'.snap[k].seq = i % W32
         /\ i < wr]_vars

\* The publication numbers of the unread slots, and of the latest drain's
\* snapshots, as the samples in them show.
Unread == [k \in 1..(wr - rd) |-> e[(rd + k - 1) % RingSz].iq]
Returned == [k \in 1..Len(out.snap) |-> out.snap[k].iq]

Channel ==
  INSTANCE IsacChannel WITH
    Cap <- RingSz,
    MaxTake <- MaxDrain,
    CountMod <- W32,
    queue <- Unread,
    next <- wr,
    drops <- dropped,
    taken <- Returned

\* The ring implements the channel: its unread slots, in order, are the FIFO.
\* Publishing and draining do to the samples what the channel does to the
\* numbers, whatever was overwritten, refused or left behind before.
ChannelSpec == Channel!Spec
=============================================================================
