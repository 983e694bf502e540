--------------------------- MODULE NrPdcp_proofs ---------------------------
(***************************************************************************)
(* Proofs about a PDCP bearer, for every SN size, reordering time, set of  *)
(* start COUNTs and number of re-establishments.                           *)
(*                                                                         *)
(* Two inductive invariants.  IInv holds whenever PDUs arrive: the counters *)
(* stay below the wrap, everything stored lies above rx_deliv and below    *)
(* the sender's COUNT, and it is what was sent (Genuine), because the SN   *)
(* determines the COUNT within half the SN space (ReconstructOK).  JInv    *)
(* adds what is true once the clock has ticked before the first PDU: the   *)
(* timer runs while something is stored, and every COUNT it gives up was   *)
(* overtaken at least as long ago as the timer was started.                *)
(***************************************************************************)
EXTENDS NrPdcp, WellFoundedInduction, TLAPS

\* A set of naturals has a least element: what lets a walk over stored SDUs
\* (the loops of nr_pdcp_entity.c:163-179) be reasoned about.
LEMMA Least ==
  ASSUME NEW T, T \subseteq Nat, T # {}
  PROVE  \E m \in T : \A k \in T : m <= k
<1> DEFINE R == OpToRel(<, Nat)
<1>1. \A x, y \in Nat : y < x => <<y, x>> \in R
  BY DEF OpToRel
<1>2. IsWellFoundedOn(R, Nat)
  BY NatLessThanWellFounded
<1> HIDE DEF R
<1>3. PICK m \in T : \A y \in T : ~(<<y, m>> \in R)
  BY <1>2, WFMin
<1>4. m \in Nat /\ \A y \in T : y \in Nat
  OBVIOUS
<1>5. \A y \in T : ~(y < m)
  BY <1>1, <1>3, <1>4
<1>6. \A y \in T : m <= y
  BY <1>4, <1>5
<1> QED
  BY <1>6

\* A bounded set of naturals that is not empty has a greatest element.
LEMMA Greatest ==
  ASSUME NEW T, T \subseteq Nat, T # {}, NEW b \in Nat, \A c \in T : c <= b
  PROVE  \E m \in T : \A k \in T : k <= m
<1> DEFINE U == {n \in Nat : \A c \in T : c <= n}
<1>1. PICK m \in U : \A k \in U : m <= k
  <2>1. U \subseteq Nat /\ b \in U
    OBVIOUS
  <2> HIDE DEF U
  <2> QED
    BY <2>1, Least
<1>2. m \in Nat /\ \A c \in T : c <= m /\ c \in Nat
  OBVIOUS
<1>3. SUFFICES ASSUME m \notin T PROVE FALSE
  BY <1>2
<1>4. \A c \in T : c <= m - 1
  BY <1>2, <1>3
<1>5. m - 1 \in Nat
  <2>1. PICK c \in T : TRUE
    OBVIOUS
  <2>2. c \in Nat /\ c <= m - 1
    BY <1>2, <1>4, <2>1
  <2> QED
    BY <1>2, <2>2
<1>6. m - 1 \in U
  BY <1>4, <1>5
<1>7. m <= m - 1
  BY <1>1, <1>6
<1> QED
  BY <1>2, <1>7

\* The integers from a up to, not including, b.
LEMMA IntervalBelow ==
  ASSUME NEW a \in Int, NEW b \in Int
  PROVE  a..(b - 1) = {k \in Int : a <= k /\ k < b}
OBVIOUS

\* The walk over the stored SDUs stops right after the run of consecutive
\* COUNTs that begins at c.
LEMMA FirstMissingOK ==
  ASSUME NEW S, CountsOf(S) \subseteq 0..MaxCount, NEW c \in 0..(MaxCount + 1)
  PROVE  /\ FirstMissing(S, c) \in c..(MaxCount + 1)
         /\ FirstMissing(S, c) \notin CountsOf(S)
         /\ \A k \in c..(FirstMissing(S, c) - 1) : k \in CountsOf(S)
<1> USE PdcpAssumption
<1> DEFINE T == {n \in c..(MaxCount + 1) : n \notin CountsOf(S)}
           Good(n) == n \notin CountsOf(S) /\ \A k \in c..(n - 1) : k \in CountsOf(S)
<1>1. MaxCount + 1 \in T /\ T \subseteq Nat
  OBVIOUS
<1>2. PICK m \in T : \A k \in T : m <= k
  <2> HIDE DEF T
  <2> QED
    BY <1>1, Least
<1>3. m \in c..W32 /\ Good(m)
  <2>1. m \in c..(MaxCount + 1) /\ m \notin CountsOf(S)
    OBVIOUS
  <2>2. ASSUME NEW k \in c..(m - 1) PROVE k \in CountsOf(S)
    <3>1. k \notin T
      <4>1. ~(m <= k)
        BY <2>1
      <4> HIDE DEF T
      <4> QED
        BY <1>2, <4>1
    <3>2. k \in c..(MaxCount + 1)
      BY <2>1
    <3> QED
      BY <3>1, <3>2
  <2> QED
    BY <2>1, <2>2
<1> DEFINE f == FirstMissing(S, c)
<1>4. f \in c..W32 /\ Good(f)
  BY <1>3 DEF FirstMissing
<1>5. f <= MaxCount + 1
  <2>1. SUFFICES ASSUME f > MaxCount + 1 PROVE FALSE
    BY <1>4
  <2>2. MaxCount + 1 \in c..(f - 1)
    BY <1>4, <2>1
  <2>3. MaxCount + 1 \in CountsOf(S)
    BY <1>4, <2>2
  <2> QED
    BY <2>3
<1> HIDE DEF f
<1>6. f \in c..(MaxCount + 1) /\ Good(f)
  BY <1>4, <1>5
<1> QED
  BY <1>6 DEF f

\* The COUNT is rebuilt from the SN when it lies less than half the SN space
\* from rx_deliv (nr_pdcp_entity.c:98-109).
LEMMA ReconstructOK ==
  ASSUME NEW n \in 0..MaxCount, NEW d \in 0..(MaxCount + 1),
         n >= d - Window, n < d + Window
  PROVE  Reconstruct(n % SnMod, d) = n
<1> USE PdcpAssumption
<1> DEFINE qn == n \div SnMod
           rn == n % SnMod
           qd == d \div SnMod
           rd == d % SnMod
           h == IF rn - rd < -Window THEN qd + 1
                ELSE IF rn - rd >= Window THEN qd - 1
                ELSE qd
<1>1. n = SnMod * qn + rn /\ qn \in Nat /\ rn \in 0..(SnMod - 1)
  OBVIOUS
<1>2. d = SnMod * qd + rd /\ qd \in Nat /\ rd \in 0..(SnMod - 1)
  OBVIOUS
<1>3. Window \in Nat /\ SnMod = Window + Window
  BY DEF Window
<1>4. Reconstruct(rn, d) = (h * SnMod + rn) % W32
  BY DEF Reconstruct
<1> HIDE DEF qn, rn, qd, rd
<1>5. h = qn
  <2> DEFINE e == qn - qd
  <2>1. e \in Int /\ SnMod * e = (n - d) - (rn - rd)
    BY <1>1, <1>2
  <2>2. n - d >= -Window /\ n - d < Window /\ n \in Int /\ d \in Int
    BY <1>3
  <2> HIDE DEF e
  <2>3. CASE rn - rd < -Window
    <3>1. SnMod * e > 0 /\ SnMod * e < 2 * SnMod
      BY <1>1, <1>2, <1>3, <2>1, <2>2, <2>3
    <3>2. e = 1
      <4>1. CASE e <= 0
        BY <2>1, <3>1, <4>1
      <4>2. CASE e >= 2
        BY <2>1, <3>1, <4>2
      <4> QED
        BY <2>1, <4>1, <4>2
    <3> QED
      BY <1>1, <1>2, <2>3, <3>2 DEF e
  <2>4. CASE rn - rd >= Window
    <3>1. SnMod * e < 0 /\ SnMod * e > -(2 * SnMod)
      BY <1>1, <1>2, <1>3, <2>1, <2>2, <2>4
    <3>2. e = -1
      <4>1. CASE e >= 0
        BY <2>1, <3>1, <4>1
      <4>2. CASE e <= -2
        BY <2>1, <3>1, <4>2
      <4> QED
        BY <2>1, <4>1, <4>2
    <3> QED
      BY <1>1, <1>2, <1>3, <2>4, <3>2 DEF e
  <2>5. CASE rn - rd >= -Window /\ rn - rd < Window
    <3>1. SnMod * e < SnMod /\ SnMod * e > -SnMod
      BY <1>1, <1>2, <1>3, <2>1, <2>2, <2>5
    <3>2. e = 0
      <4>1. CASE e >= 1
        BY <2>1, <3>1, <4>1
      <4>2. CASE e <= -1
        BY <2>1, <3>1, <4>2
      <4> QED
        BY <2>1, <4>1, <4>2
    <3> QED
      BY <1>1, <1>2, <1>3, <2>5, <3>2 DEF e
  <2> QED
    BY <1>1, <1>2, <1>3, <2>3, <2>4, <2>5
<1> HIDE DEF h
<1>6. h * SnMod + rn = n
  BY <1>1, <1>5
<1>7. n % W32 = n
  OBVIOUS
<1>8. Reconstruct(rn, d) = n
  BY <1>4, <1>6, <1>7
<1> QED
  BY <1>8 DEF rn

-----------------------------------------------------------------------------
(* The invariant that holds however early PDUs arrive.                     *)

\* The receiver's counters never reach the wrap of COUNT.
Bounded == rx_next <= MaxCount + 1 /\ rx_deliv <= MaxCount + 1

\* What is stored came over the channel and lies above rx_deliv, and what was
\* delivered lies below it.
Ahead ==
  /\ \A x \in rx_list : x.sent \in chan /\ rx_deliv < x.count
  /\ alive => lastd < rx_deliv
  /\ ~alive => rx_list = {}
  /\ chan = {} => lastd = -1

\* The timer that runs waits for a COUNT between rx_deliv and rx_next.
TimerAhead ==
  age # Off => rx_deliv < rx_reord /\ rx_reord <= rx_next /\ chan # {}

IInv == TypeOK /\ Genuine /\ Bounded /\ Ahead /\ TimerAhead

\* Everything stored has a COUNT the sender used.
LEMMA StoredCounts ==
  ASSUME TypeOK, Genuine
  PROVE  CountsOf(rx_list) \subseteq 0..MaxCount
BY PdcpAssumption DEF TypeOK, Genuine, CountsOf, Sdu, Pdu

\* After a delivery the highest COUNT delivered is that of an SDU delivered,
\* if there is one.
LEMMA DeliverOK ==
  ASSUME NEW S, S \subseteq Sdu, Deliver(S)
  PROVE  /\ out' = S
         /\ S = {} => lastd' = lastd
         /\ S # {} => \E x \in S : lastd' = x.count
<1>1. CASE S = {}
  BY <1>1 DEF Deliver
<1>2. CASE S # {}
  <2> DEFINE T == CountsOf(S)
  <2>1. T # {} /\ T \subseteq Counts
    BY <1>2 DEF CountsOf, Sdu
  <2>2. \E m \in T : \A k \in T : k <= m
    <3>1. T \subseteq Nat /\ \A c \in T : c <= W32
      BY <2>1, PdcpAssumption DEF Counts
    <3> HIDE DEF T
    <3> QED
      BY <2>1, <3>1, Greatest, PdcpAssumption
  <2>3. lastd' = CHOOSE m \in T : \A c \in T : c <= m
    BY <1>2 DEF Deliver
  <2>4. lastd' \in T
    <3> HIDE DEF T
    <3> QED
      BY <2>2, <2>3
  <2> QED
    BY <1>2, <2>4 DEF Deliver, CountsOf
<1> QED
  BY <1>1, <1>2

\* A PDU that is accepted is accepted for the COUNT and the keys it was sent
\* with, and neither was delivered nor is stored.
LEMMA RecvSplit ==
  ASSUME IInv, NEW p \in chan, MayArrive(p), RecvPdu(p)
  PROVE  \/ /\ out' = {}
            /\ UNCHANGED <<rx_next, rx_deliv, rx_reord, rx_list, age, lastd, ovt>>
         \/ /\ Accept(p, p.count)
            /\ p.ep = rx_ep /\ rx_deliv <= p.count
            /\ p.count \notin CountsOf(rx_list)
<1> USE PdcpAssumption DEF IInv
<1> DEFINE c == Reconstruct(p.count % SnMod, rx_deliv)
<1>1. SUFFICES ASSUME ~Refused(p, c), Accept(p, c)
               PROVE  c = p.count /\ p.ep = rx_ep /\ rx_deliv <= c
                      /\ c \notin CountsOf(rx_list)
  BY DEF RecvPdu
<1>2. p.count \in 0..MaxCount /\ rx_deliv \in 0..(MaxCount + 1)
  BY DEF TypeOK, Pdu, Bounded, Counts
<1>3. c = p.count /\ p.ep = rx_ep
  <2>1. CASE has_integrity
    BY <1>1, <2>1 DEF Refused
  <2>2. CASE ~has_integrity
    <3>1. InReach(p)
      BY <2>2 DEF MayArrive
    <3> QED
      BY <1>2, <3>1, ReconstructOK DEF InReach
  <2> QED
    BY <2>1, <2>2
<1>4. ~(c < rx_deliv) /\ c \notin CountsOf(rx_list)
  BY <1>1 DEF Refused
<1> HIDE DEF c
<1> QED
  BY <1>2, <1>3, <1>4

\* What accepting a PDU does: rx_deliv moves over the run of stored SDUs that
\* now begins at it, and exactly that run is delivered.
LEMMA AcceptOK ==
  ASSUME IInv, alive, NEW p \in chan, Accept(p, p.count), p.ep = rx_ep,
         rx_deliv <= p.count, p.count \notin CountsOf(rx_list)
  PROVE  /\ p.count \in 0..MaxCount
         /\ rx_next' = IF p.count >= rx_next THEN p.count + 1 ELSE rx_next
         /\ rx_deliv' \in rx_deliv..(MaxCount + 1)
         /\ rx_deliv' = rx_deliv \/ (p.count = rx_deliv /\ rx_deliv < rx_deliv')
         /\ p.count = rx_deliv => rx_deliv < rx_deliv'
         /\ \A x \in rx_list' \cup out' :
              x \in rx_list \/ x = [count |-> p.count, ep |-> rx_ep, sent |-> p]
         /\ \A x \in rx_list : x \in rx_list' \/ x.count < rx_deliv'
         /\ p.count \in CountsOf(rx_list') \/ p.count < rx_deliv'
         /\ \A x \in rx_list' : rx_deliv' < x.count
         /\ \A x \in out' : rx_deliv <= x.count /\ x.count < rx_deliv'
         /\ \A k \in Nat : rx_deliv <= k /\ k < rx_deliv' => k \in CountsOf(out')
         /\ lastd' < rx_deliv' /\ lastd' \in {-1} \cup Counts
         /\ rx_list' \cup out' \subseteq Sdu
         /\ StopOrStart(rx_next', rx_deliv')
<1> USE PdcpAssumption DEF IInv
<1> DEFINE c == p.count
           new == [count |-> c, ep |-> rx_ep, sent |-> p]
           list == rx_list \cup {new}
           next == IF c >= rx_next THEN (c + 1) % W32 ELSE rx_next
           deliv == IF c = rx_deliv THEN FirstMissing(list, rx_deliv) ELSE rx_deliv
           run == {x \in list : x.count >= rx_deliv /\ x.count < deliv}
<1>0. c \in 0..MaxCount /\ p \in Pdu /\ rx_ep \in 0..MaxReest
  BY DEF TypeOK, Pdu
<1>1. /\ rx_next' = next /\ rx_deliv' = deliv /\ rx_list' = list \ run
      /\ Deliver(run) /\ StopOrStart(next, deliv)
  BY DEF Accept
<1>2. /\ rx_deliv \in Nat /\ rx_next \in Nat /\ rx_deliv <= MaxCount + 1
      /\ rx_list \subseteq Sdu /\ lastd \in {-1} \cup Counts /\ lastd < rx_deliv
      /\ \A x \in rx_list : rx_deliv < x.count
  <2>1. /\ rx_deliv \in Counts /\ rx_next \in Counts /\ rx_list \subseteq Sdu
        /\ lastd \in {-1} \cup Counts
    BY DEF TypeOK
  <2>2. rx_deliv <= MaxCount + 1 /\ lastd < rx_deliv /\ \A x \in rx_list : rx_deliv < x.count
    BY DEF Bounded, Ahead
  <2> QED
    BY <2>1, <2>2 DEF Counts
<1>2a. new \in list /\ new.count = c /\ c \in Nat
  BY <1>0
<1>3. next = IF c >= rx_next THEN c + 1 ELSE rx_next
  <2>1. (c + 1) % W32 = c + 1
    BY <1>0
  <2> QED
    BY <2>1
<1>4. list \subseteq Sdu
  BY <1>0, <1>2 DEF Sdu, Counts
<1>5. \A x \in list : x.count \in 0..MaxCount
  BY <1>0, StoredCounts DEF CountsOf
<1>6. \A x \in list : rx_deliv <= x.count
  <2>1. \A x \in rx_list : x.count \in Nat
    BY <1>5
  <2> QED
    BY <1>2, <2>1
<1>7. /\ deliv \in rx_deliv..(MaxCount + 1)
      /\ deliv \notin CountsOf(list)
      /\ \A k \in rx_deliv..(deliv - 1) : k \in CountsOf(list)
      /\ c = rx_deliv => rx_deliv < deliv
  <2>1. CASE c = rx_deliv
    <3>1. CountsOf(list) \subseteq 0..MaxCount /\ rx_deliv \in CountsOf(list)
      <4> HIDE DEF new, list
      <4> QED
        BY <1>5, <1>2a, <2>1 DEF CountsOf
    <3>2. /\ deliv \in rx_deliv..(MaxCount + 1)
          /\ deliv \notin CountsOf(list)
          /\ \A k \in rx_deliv..(deliv - 1) : k \in CountsOf(list)
      <4> HIDE DEF list
      <4> QED
        BY <1>2, <2>1, <3>1, FirstMissingOK
    <3>3. deliv # rx_deliv
      BY <3>1, <3>2
    <3> HIDE DEF deliv, list
    <3> QED
      BY <1>2, <3>2, <3>3
  <2>2. CASE c # rx_deliv
    <3>1. deliv = rx_deliv
      BY <2>2
    <3>2. rx_deliv \notin CountsOf(list)
      BY <1>0, <1>2, <2>2 DEF CountsOf
    <3> HIDE DEF deliv, list
    <3> QED
      BY <1>2, <2>2, <3>1, <3>2
  <2> QED
    BY <2>1, <2>2
<1> HIDE DEF next, deliv
<1>8. \A x \in list \ run : deliv < x.count
  <2> SUFFICES ASSUME NEW x \in list, x \notin run
               PROVE  deliv < x.count
    OBVIOUS
  <2>1. x.count \in Nat /\ rx_deliv <= x.count
    BY <1>5, <1>6
  <2>2. ~(x.count < deliv)
    BY <2>1
  <2>3. x.count # deliv
    BY <1>7 DEF CountsOf
  <2> QED
    BY <1>2, <1>7, <2>1, <2>2, <2>3
<1>9. \A k \in Nat : rx_deliv <= k /\ k < deliv => k \in CountsOf(run)
  BY <1>2, <1>7 DEF CountsOf
<1>10. /\ out' = run
       /\ lastd' < deliv /\ lastd' \in {-1} \cup Counts
  <2>1. run \subseteq Sdu
    BY <1>4
  <2>2. \A x \in run : x.count < deliv /\ x.count \in Counts
    BY <1>4 DEF Sdu
  <2> HIDE DEF run
  <2>3. /\ out' = run
        /\ run = {} => lastd' = lastd
        /\ run # {} => \E x \in run : lastd' = x.count
    BY <1>1, <2>1, DeliverOK
  <2>4. CASE run = {}
    <3>1. lastd' = lastd
      BY <2>3, <2>4
    <3> QED
      BY <1>2, <1>7, <2>3, <3>1 DEF Counts
  <2>5. CASE run # {}
    BY <2>2, <2>3, <2>5
  <2> QED
    BY <2>4, <2>5
<1>11. \A x \in rx_list : x \in list \ run \/ x.count < deliv
  OBVIOUS
<1>12. c \in CountsOf(list \ run) \/ c < deliv
  <2>1. new \in list \ run \/ new.count < deliv
    BY <1>2a
  <2> HIDE DEF new
  <2> QED
    BY <1>2a, <2>1 DEF CountsOf
<1>13. \A x \in run : rx_deliv <= x.count /\ x.count < deliv
  BY <1>6
<1>14. \A x \in (list \ run) \cup run : x \in rx_list \/ x = new
  OBVIOUS
<1>15. (list \ run) \cup run \subseteq Sdu
  BY <1>4
<1>16. deliv = rx_deliv \/ (c = rx_deliv /\ rx_deliv < deliv)
  BY <1>7 DEF deliv
<1> HIDE DEF run, list
<1>17. \A x \in rx_list' : rx_deliv' < x.count
  BY <1>1, <1>8
<1>18. \A k \in Nat : rx_deliv <= k /\ k < rx_deliv' => k \in CountsOf(out')
  BY <1>1, <1>9, <1>10
<1>19. \A x \in rx_list : x \in rx_list' \/ x.count < rx_deliv'
  BY <1>1, <1>11
<1>20. \A x \in out' : rx_deliv <= x.count /\ x.count < rx_deliv'
  BY <1>1, <1>10, <1>13
<1>21. /\ \A x \in rx_list' \cup out' : x \in rx_list \/ x = new
       /\ rx_list' \cup out' \subseteq Sdu
  BY <1>1, <1>10, <1>14, <1>15
<1> QED
  BY <1>0, <1>1, <1>3, <1>7, <1>10, <1>12, <1>16, <1>17, <1>18, <1>19, <1>20, <1>21

\* What the expiry does: rx_deliv moves to the first COUNT missing from
\* rx_reord on, and everything stored below it is delivered.
LEMMA ExpireOK ==
  ASSUME IInv, alive, age # Off, Expire
  PROVE  /\ rx_deliv' \in rx_reord..(MaxCount + 1)
         /\ rx_list' \cup out' = rx_list
         /\ \A x \in rx_list' : rx_deliv' < x.count
         /\ \A x \in out' : x.count < rx_deliv'
         /\ \A k \in Nat : rx_reord <= k /\ k < rx_deliv' => k \in CountsOf(rx_list)
         /\ lastd' < rx_deliv' /\ lastd' \in {-1} \cup Counts
         /\ IF rx_deliv' < rx_next
              THEN rx_reord' = rx_next /\ age' = 0
              ELSE age' = Off /\ UNCHANGED rx_reord
<1> USE PdcpAssumption DEF IInv
<1> DEFINE deliv == FirstMissing(rx_list, rx_reord)
           batch == {x \in rx_list : x.count < deliv}
<1>1. /\ rx_deliv' = deliv /\ rx_list' = rx_list \ batch /\ Deliver(batch)
      /\ IF deliv < rx_next
           THEN rx_reord' = rx_next /\ age' = 0
           ELSE age' = Off /\ UNCHANGED rx_reord
  BY DEF Expire
<1>2. /\ rx_deliv \in Nat /\ rx_reord \in Nat /\ rx_list \subseteq Sdu
      /\ rx_deliv < rx_reord /\ rx_reord <= MaxCount + 1
      /\ lastd \in {-1} \cup Counts /\ lastd < rx_deliv
  BY DEF TypeOK, Counts, Bounded, Ahead, TimerAhead
<1>3. /\ deliv \in rx_reord..(MaxCount + 1)
      /\ deliv \notin CountsOf(rx_list)
      /\ \A k \in rx_reord..(deliv - 1) : k \in CountsOf(rx_list)
  BY <1>2, StoredCounts, FirstMissingOK
<1> HIDE DEF deliv
<1>4. \A x \in rx_list \ batch : deliv < x.count
  <2> SUFFICES ASSUME NEW x \in rx_list, x \notin batch
               PROVE  deliv < x.count
    OBVIOUS
  <2>1. x.count \in Nat
    BY StoredCounts DEF CountsOf
  <2>2. x.count # deliv /\ ~(x.count < deliv)
    BY <1>3 DEF CountsOf
  <2> QED
    BY <1>2, <1>3, <2>1, <2>2
<1>5. /\ out' = batch
      /\ lastd' < deliv /\ lastd' \in {-1} \cup Counts
  <2>1. batch \subseteq Sdu /\ \A x \in batch : x.count < deliv /\ x.count \in Counts
    BY <1>2 DEF Sdu
  <2> HIDE DEF batch
  <2>2. /\ out' = batch
        /\ batch = {} => lastd' = lastd
        /\ batch # {} => \E x \in batch : lastd' = x.count
    BY <1>1, <2>1, DeliverOK
  <2>3. CASE batch = {}
    <3>1. lastd' = lastd
      BY <2>2, <2>3
    <3> QED
      BY <1>2, <1>3, <2>2, <3>1 DEF Counts
  <2>4. CASE batch # {}
    BY <2>1, <2>2, <2>4
  <2> QED
    BY <2>3, <2>4
<1>6. rx_list' \cup out' = rx_list
  BY <1>1, <1>5
<1>7. \A x \in out' : x.count < deliv
  BY <1>5
<1> HIDE DEF batch
<1> QED
  BY <1>1, <1>3, <1>4, <1>5, <1>6, <1>7

\* A new bearer satisfies the invariant.
THEOREM InitOK == Init => IInv
<1> SUFFICES ASSUME Init PROVE IInv
  OBVIOUS
<1> USE PdcpAssumption DEF Init
<1>1. TypeOK
  <2>1. ovt \in [0..MaxCount -> {Never} \cup 0..(TReordering + 1)]
    BY DEF Fresh
  <2>2. /\ tx_next \in 0..MaxCount /\ tx_ep \in 0..MaxReest /\ rx_ep \in 0..MaxReest
        /\ rx_next \in Counts /\ rx_deliv \in Counts /\ rx_reord \in Counts
    BY DEF Counts
  <2> QED
    BY <2>1, <2>2 DEF TypeOK
<1>2. Genuine /\ Bounded /\ Ahead /\ TimerAhead
  BY DEF Genuine, Bounded, Ahead, TimerAhead
<1> QED
  BY <1>1, <1>2 DEF IInv

\* A handover, which finds nothing stored.
LEMMA CountUpdateOK ==
  ASSUME IInv, NEW c \in Starts, CountUpdate(c)
  PROVE  IInv'
<1> USE PdcpAssumption DEF IInv, CountUpdate
<1>1. rx_list = {} /\ lastd = -1 /\ age = Off
  BY DEF Ahead, TimerAhead
<1>2. c \in 1..MaxCount
  OBVIOUS
<1>3. TypeOK'
  BY <1>2 DEF TypeOK, Counts
<1>4. Genuine' /\ Bounded' /\ Ahead' /\ TimerAhead'
  BY <1>1, <1>2 DEF Genuine, Bounded, Ahead, TimerAhead
<1> QED
  BY <1>3, <1>4

\* The sender gives the next COUNT to an SDU.
LEMMA ProcessSduOK ==
  ASSUME IInv, ProcessSdu
  PROVE  IInv'
<1> USE PdcpAssumption DEF IInv, ProcessSdu, rxVars
<1>1. tx_next \in 0..(MaxCount - 1)
  OBVIOUS
<1>2. TypeOK'
  BY <1>1 DEF TypeOK, Pdu
<1>3. Genuine' /\ Bounded' /\ Ahead' /\ TimerAhead'
  BY DEF Genuine, Bounded, Ahead, TimerAhead
<1> QED
  BY <1>2, <1>3

\* The timer after a PDU was accepted.
LEMMA StopOrStartOK ==
  ASSUME NEW next \in Nat, NEW deliv \in Nat, rx_reord \in Nat,
         age \in {Off} \cup 0..TReordering, age # Off => rx_reord <= next,
         StopOrStart(next, deliv), ticked \in BOOLEAN
  PROVE  /\ age' \in {Off} \cup 0..TReordering
         /\ rx_reord' \in {rx_reord, next}
         /\ age' # Off => deliv < rx_reord' /\ rx_reord' <= next
         /\ age' = Off /\ ticked => next <= deliv
         /\ age' # Off =>
              \/ age' = age /\ rx_reord' = rx_reord
              \/ age' = 0 /\ rx_reord' = next
BY PdcpAssumption DEF StopOrStart, StartTimer, Off

\* A PDU arrives and is refused or accepted.
LEMMA RecvPduOK ==
  ASSUME IInv, NEW p \in chan, MayArrive(p), RecvPdu(p)
  PROVE  IInv'
<1> USE PdcpAssumption DEF IInv
<1>0. UNCHANGED <<type, has_integrity, tx_next, tx_ep, chan, alive, rx_ep, ticked>>
      /\ alive
  BY DEF RecvPdu, txVars
<1>1. CASE /\ out' = {}
           /\ UNCHANGED <<rx_next, rx_deliv, rx_reord, rx_list, age, lastd, ovt>>
  BY <1>0, <1>1 DEF TypeOK, Genuine, Bounded, Ahead, TimerAhead
<1>2. CASE /\ Accept(p, p.count)
           /\ p.ep = rx_ep /\ rx_deliv <= p.count
           /\ p.count \notin CountsOf(rx_list)
  <2> DEFINE new == [count |-> p.count, ep |-> rx_ep, sent |-> p]
  <2>1. /\ p.count \in 0..MaxCount
        /\ rx_next' = IF p.count >= rx_next THEN p.count + 1 ELSE rx_next
        /\ rx_deliv' \in rx_deliv..(MaxCount + 1)
        /\ \A x \in rx_list' \cup out' : x \in rx_list \/ x = new
        /\ \A x \in rx_list' : rx_deliv' < x.count
        /\ lastd' < rx_deliv' /\ lastd' \in {-1} \cup Counts
        /\ rx_list' \cup out' \subseteq Sdu
        /\ StopOrStart(rx_next', rx_deliv')
    BY <1>0, <1>2, AcceptOK
  <2>2. new.count = new.sent.count /\ new.ep = new.sent.ep /\ new.sent \in chan
    BY <1>2
  <2> HIDE DEF new
  <2>3. Genuine'
    BY <2>1, <2>2 DEF Genuine
  <2>4. Bounded' /\ rx_next' \in Nat /\ rx_deliv' \in Nat /\ rx_next <= rx_next'
    BY <2>1 DEF Bounded, TypeOK, Counts
  <2>5. Ahead'
    BY <1>0, <2>1, <2>2 DEF Ahead
  <2>6. /\ age' \in {Off} \cup 0..TReordering
        /\ rx_reord' \in {rx_reord, rx_next'}
        /\ age' # Off => rx_deliv' < rx_reord' /\ rx_reord' <= rx_next'
    <3>1. rx_reord \in Nat /\ age \in {Off} \cup 0..TReordering /\ ticked \in BOOLEAN
      BY DEF TypeOK, Counts
    <3>2. age # Off => rx_reord <= rx_next'
      BY <2>4, <3>1 DEF TimerAhead, TypeOK, Counts
    <3> QED
      BY <2>1, <2>4, <3>1, <3>2, StopOrStartOK
  <2>7. TimerAhead'
    BY <1>0, <2>6 DEF TimerAhead
  <2>8. ovt' \in [0..MaxCount -> {Never} \cup 0..(TReordering + 1)]
    BY <1>2 DEF Accept, TypeOK
  <2>9. rx_next' \in Counts /\ rx_deliv' \in Counts /\ rx_reord' \in Counts
    BY <2>4, <2>6 DEF Bounded, TypeOK, Counts
  <2>10. TypeOK'
    BY <1>0, <2>1, <2>6, <2>8, <2>9 DEF TypeOK
  <2> QED
    BY <2>3, <2>4, <2>5, <2>7, <2>10
<1> QED
  BY <1>1, <1>2, RecvSplit

\* The clock, with or without an expiry of the timer.
LEMMA SetTimeOK ==
  ASSUME IInv, NEW d \in 1..MaxJump, SetTime(d)
  PROVE  IInv'
<1> USE PdcpAssumption DEF IInv
<1>0. /\ UNCHANGED <<type, has_integrity, tx_next, tx_ep, chan, alive, rx_ep, rx_next>>
      /\ alive /\ ticked' = TRUE
  BY DEF SetTime, txVars
<1>1. ovt' \in [0..MaxCount -> {Never} \cup 0..(TReordering + 1)]
  <2> SUFFICES ASSUME NEW c \in 0..MaxCount
               PROVE  ovt'[c] \in {Never} \cup 0..(TReordering + 1)
    BY DEF SetTime
  <2>1. ovt[c] \in {Never} \cup 0..(TReordering + 1)
    BY DEF TypeOK
  <2>2. ovt'[c] = CASE ovt[c] = Never -> Never
                    [] ovt[c] # Never /\ ovt[c] + d > TReordering -> TReordering + 1
                    [] OTHER -> ovt[c] + d
    BY DEF SetTime
  <2> QED
    BY <2>1, <2>2 DEF Never
<1>2. CASE Expired(d) /\ Expire
  <2>1. age # Off
    BY <1>2 DEF Expired
  <2>2. /\ rx_deliv' \in rx_reord..(MaxCount + 1)
        /\ rx_list' \cup out' = rx_list
        /\ \A x \in rx_list' : rx_deliv' < x.count
        /\ lastd' < rx_deliv' /\ lastd' \in {-1} \cup Counts
        /\ IF rx_deliv' < rx_next
             THEN rx_reord' = rx_next /\ age' = 0
             ELSE age' = Off /\ UNCHANGED rx_reord
    BY <1>0, <1>2, <2>1, ExpireOK
  <2>3. /\ rx_next \in Nat /\ rx_reord \in Nat /\ rx_next <= MaxCount + 1
        /\ chan # {}
    BY <2>1 DEF TypeOK, Counts, Bounded, TimerAhead
  <2>4. Genuine'
    BY <2>2 DEF Genuine
  <2>5. Bounded' /\ Ahead'
    BY <1>0, <2>2, <2>3 DEF Bounded, Ahead
  <2>6. TimerAhead' /\ age' \in {Off} \cup 0..TReordering /\ rx_reord' \in {rx_reord, rx_next}
    BY <1>0, <2>2, <2>3 DEF TimerAhead, Off
  <2>7. rx_next' \in Counts /\ rx_deliv' \in Counts /\ rx_reord' \in Counts
    BY <1>0, <2>2, <2>3, <2>6 DEF TypeOK, Counts
  <2>8. rx_list' \subseteq Sdu /\ out' \subseteq Sdu
    BY <2>2 DEF TypeOK
  <2>9. TypeOK'
    BY <1>0, <1>1, <2>2, <2>6, <2>7, <2>8 DEF TypeOK
  <2> QED
    BY <2>4, <2>5, <2>6, <2>9
<1>3. CASE /\ ~Expired(d)
           /\ age' = IF age = Off THEN Off ELSE age + d
           /\ out' = {}
           /\ UNCHANGED <<rx_next, rx_deliv, rx_reord, rx_list, lastd>>
  <2>1. age' \in {Off} \cup 0..TReordering /\ (age' # Off => age # Off)
    BY <1>3 DEF Expired, TypeOK, Off
  <2>2. TypeOK'
    BY <1>0, <1>1, <1>3, <2>1 DEF TypeOK
  <2>3. Genuine' /\ Bounded' /\ Ahead' /\ TimerAhead'
    BY <1>0, <1>3, <2>1 DEF Genuine, Bounded, Ahead, TimerAhead
  <2> QED
    BY <2>2, <2>3
<1> QED
  BY <1>2, <1>3 DEF SetTime

\* The sender takes new keys.
LEMMA TxReestablishOK ==
  ASSUME IInv, TxReestablish
  PROVE  IInv'
<1> USE PdcpAssumption DEF IInv, TxReestablish, rxVars
<1>1. TypeOK'
  BY DEF TypeOK
<1>2. Genuine' /\ Bounded' /\ Ahead' /\ TimerAhead'
  BY DEF Genuine, Bounded, Ahead, TimerAhead
<1> QED
  BY <1>1, <1>2

\* What is stored keeps the keys it was deciphered with.
LEMMA RxReestablishOK ==
  ASSUME IInv, RxReestablish
  PROVE  IInv'
<1> USE PdcpAssumption DEF IInv
<1>0. /\ UNCHANGED <<type, has_integrity, tx_next, tx_ep, chan, alive, rx_reord, ticked>>
      /\ alive /\ rx_ep' \in 0..MaxReest
  BY DEF RxReestablish, TypeOK, txVars
<1>1. CASE type = "DRB_AM"
  BY <1>0, <1>1 DEF RxReestablish, TypeOK, Genuine, Bounded, Ahead, TimerAhead
<1>2. CASE type # "DRB_AM"
  <2>1. /\ rx_next' = 0 /\ rx_deliv' = 0 /\ age' = Off /\ lastd' = -1 /\ ovt' = Fresh
        /\ rx_list' \in {rx_list, {}} /\ out' \in {rx_list, {}}
    BY <1>2 DEF RxReestablish
  <2>2. TypeOK'
    BY <1>0, <2>1 DEF TypeOK, Counts, Fresh, Never
  <2>3. Genuine' /\ Bounded' /\ TimerAhead'
    BY <2>1 DEF Genuine, Bounded, TimerAhead
  <2>4. Ahead'
    <3>1. \A x \in rx_list : x.count \in Nat /\ rx_deliv < x.count /\ x.sent \in chan
      BY StoredCounts DEF CountsOf, Ahead
    <3>2. \A x \in rx_list : 0 < x.count
      BY <3>1 DEF TypeOK, Counts
    <3> QED
      BY <1>0, <2>1, <3>1, <3>2 DEF Ahead
  <2> QED
    BY <2>2, <2>3, <2>4
<1> QED
  BY <1>1, <1>2

\* A release delivers or drops what is stored and stops the receiver.
LEMMA ReleaseOK ==
  ASSUME IInv, Release
  PROVE  IInv'
<1> USE PdcpAssumption DEF IInv
<1> DEFINE S == IF type = "SRB" THEN {} ELSE rx_list
<1>0. /\ UNCHANGED <<type, has_integrity, tx_next, tx_ep, chan, rx_ep, rx_next,
                     rx_deliv, rx_reord, age, ticked, ovt>>
      /\ alive' = FALSE /\ rx_list' = {} /\ Deliver(S)
  BY DEF Release, txVars
<1>1. S \subseteq rx_list /\ S \subseteq Sdu
  BY DEF TypeOK
<1> HIDE DEF S
<1>2. /\ out' = S
      /\ S = {} => lastd' = lastd
      /\ S # {} => \E x \in S : lastd' = x.count
  BY <1>0, <1>1, DeliverOK
<1>3. lastd' \in {-1} \cup Counts
  <2>1. \A x \in S : x.count \in Counts
    BY <1>1 DEF Sdu
  <2> QED
    BY <1>2, <2>1 DEF TypeOK
<1>4. TypeOK'
  BY <1>0, <1>1, <1>2, <1>3 DEF TypeOK
<1>5. Ahead'
  BY <1>0, <1>1, <1>2 DEF Ahead
<1>6. Genuine' /\ Bounded' /\ TimerAhead'
  BY <1>0, <1>1, <1>2 DEF Genuine, Bounded, TimerAhead
<1> QED
  BY <1>4, <1>5, <1>6

\* Every step of the bearer keeps the invariant.
THEOREM StepOK == IInv /\ [Next]_vars => IInv'
<1> SUFFICES ASSUME IInv, [Next]_vars PROVE IInv'
  OBVIOUS
<1>1. CASE UNCHANGED vars
  BY <1>1 DEF IInv, TypeOK, Genuine, Bounded, Ahead, TimerAhead, vars, txVars, rxVars
<1> QED
  BY <1>1, CountUpdateOK, ProcessSduOK, RecvPduOK, SetTimeOK, TxReestablishOK,
     RxReestablishOK, ReleaseOK DEF Next

\* The invariant holds in every reachable state.
THEOREM Inductive == Spec => []IInv
BY InitOK, StepOK, PTL DEF Spec

\* Every counter, timer and stored SDU keeps its type, through every wrap of
\* the SN (nr_pdcp_entity.c).
THEOREM TypeCorrect == Spec => []TypeOK
BY Inductive, PTL DEF IInv

\* Every SDU that is stored or delivered was deciphered with the COUNT and the
\* keys it was sent with, for every SN size (nr_pdcp_entity.c:98-139).
THEOREM GenuineCorrect == Spec => []Genuine
BY Inductive, PTL DEF IInv

\* No SDU is delivered twice or out of order, whatever the lower layers lose,
\* repeat or reorder (nr_pdcp_entity.c:163-187, 402-430).
THEOREM InOrderCorrect == Spec => InOrder
<1> DEFINE A == \A x \in out' : x.count > lastd
<1>1. IInv /\ [Next]_vars => [A]_vars
  <2> SUFFICES ASSUME IInv, Next, NEW x \in out' PROVE x.count > lastd
    OBVIOUS
  <2> USE PdcpAssumption DEF IInv
  <2>1. ASSUME NEW y \in rx_list PROVE y.count > lastd
    <3>1. y.count \in Nat /\ rx_deliv < y.count
      BY StoredCounts DEF Ahead, CountsOf
    <3>2. alive /\ lastd < rx_deliv /\ lastd \in Int /\ rx_deliv \in Int
      BY DEF Ahead, TypeOK, Counts
    <3> QED
      BY <3>1, <3>2
  <2>2. CASE out' \subseteq rx_list
    BY <2>1, <2>2
  <2>3. ASSUME NEW p \in chan, MayArrive(p), RecvPdu(p) PROVE x.count > lastd
    <3>1. CASE out' = {}
      BY <3>1
    <3>2. CASE /\ Accept(p, p.count)
               /\ p.ep = rx_ep /\ rx_deliv <= p.count
               /\ p.count \notin CountsOf(rx_list)
      <4>1. alive
        BY <2>3 DEF RecvPdu
      <4>2. rx_deliv <= x.count /\ x \in Sdu
        BY <3>2, <4>1, AcceptOK
      <4> QED
        BY <4>1, <4>2 DEF Ahead, TypeOK, Counts, Sdu
    <3> QED
      BY <2>3, <3>1, <3>2, RecvSplit
  <2>4. ASSUME NEW d \in 1..MaxJump, SetTime(d) PROVE out' \subseteq rx_list
    BY <2>4 DEF SetTime, Expire, Deliver
  <2>5. CASE Release
    BY <2>2, <2>5 DEF Release, Deliver
  <2>6. CASE RxReestablish
    BY <2>2, <2>6 DEF RxReestablish
  <2>7. CASE ProcessSdu \/ TxReestablish \/ \E c \in Starts : CountUpdate(c)
    BY <2>7 DEF ProcessSdu, TxReestablish, CountUpdate
  <2> QED
    BY <2>2, <2>3, <2>4, <2>5, <2>6, <2>7 DEF Next
<1>2. Spec => [][A]_vars
  BY <1>1, Inductive, PTL DEF Spec
<1> QED
  BY <1>2 DEF InOrder

-----------------------------------------------------------------------------
(* The invariant once the clock has ticked before the first PDU.           *)

\* While something is missing below rx_next the SDU that made rx_next what it
\* is is stored, except right after a handover.
NextHeld ==
  alive /\ rx_deliv < rx_next =>
    \/ \E x \in rx_list : x.count + 1 = rx_next
    \/ rx_deliv + 1 = rx_next /\ rx_list = {} /\ age = Off

\* So is the SDU for which the timer was started, and the timer runs while
\* anything is stored.
ReordHeld ==
  /\ alive /\ age # Off => \E x \in rx_list : x.count + 1 = rx_reord
  /\ rx_list # {} => age # Off
  /\ \A x \in rx_list : x.count < rx_next

\* Every COUNT that is not delivered, up to the highest received, was
\* overtaken.
Overtaken ==
  alive => \A k \in 0..MaxCount :
             rx_deliv <= k /\ k + 1 < rx_next => ovt[k] # Never

\* What the timer waits for was overtaken before the timer was started.
Waiting ==
  alive /\ age # Off =>
    \A k \in 0..MaxCount :
      rx_deliv <= k /\ k < rx_reord =>
        k \in CountsOf(rx_list) \/ (ovt[k] # Never /\ ovt[k] >= age)

JInv == NextHeld /\ ReordHeld /\ Overtaken /\ Waiting
\* A new bearer satisfies it.
LEMMA JInitOK == Init => JInv
BY DEF Init, JInv, NextHeld, ReordHeld, Overtaken, Waiting, CountsOf

\* A PDU that is accepted starts the timer for what it overtook, unless the
\* timer already waits for something missing.
LEMMA JAcceptOK ==
  ASSUME IInv, IInv', JInv, ticked, alive, alive', NEW p \in chan,
         Accept(p, p.count), p.ep = rx_ep, rx_deliv <= p.count,
         p.count \notin CountsOf(rx_list)
  PROVE  JInv'
<1>0. MaxCount \in Nat /\ TReordering \in Nat
  BY PdcpAssumption
<1> USE <1>0 DEF IInv, JInv
<1> DEFINE c == p.count
<1>1. /\ c \in 0..MaxCount
      /\ rx_next' = IF c >= rx_next THEN c + 1 ELSE rx_next
      /\ rx_deliv' \in rx_deliv..(MaxCount + 1)
      /\ c = rx_deliv => rx_deliv < rx_deliv'
      /\ \A x \in rx_list' : x \in rx_list \/ x = [count |-> c, ep |-> rx_ep, sent |-> p]
      /\ \A x \in rx_list : x \in rx_list' \/ x.count < rx_deliv'
      /\ c \in CountsOf(rx_list') \/ c < rx_deliv'
      /\ \A x \in rx_list' : rx_deliv' < x.count
      /\ StopOrStart(rx_next', rx_deliv')
  BY AcceptOK
<1> HIDE DEF c
<1>2. /\ rx_next \in Nat /\ rx_deliv \in Nat /\ rx_reord \in Nat
      /\ rx_next' \in Nat /\ rx_deliv' \in Nat /\ rx_next <= rx_next'
      /\ rx_deliv <= rx_deliv' /\ rx_deliv <= c
      /\ age \in {Off} \cup 0..TReordering /\ ticked \in BOOLEAN
  <2>1. /\ rx_next \in Counts /\ rx_deliv \in Counts /\ rx_reord \in Counts
        /\ age \in {Off} \cup 0..TReordering /\ ticked \in BOOLEAN
    BY DEF TypeOK
  <2>2. rx_next \in Nat /\ rx_deliv \in Nat /\ rx_reord \in Nat
    BY <2>1 DEF Counts
  <2>3. rx_deliv <= c
    BY DEF c
  <2>4. rx_next' \in Nat /\ rx_deliv' \in Nat /\ rx_next <= rx_next' /\ rx_deliv <= rx_deliv'
    BY <1>1, <2>2
  <2> QED
    BY <2>1, <2>2, <2>3, <2>4
<1>3. \A x \in rx_list : x.count \in Nat
  BY StoredCounts DEF CountsOf
<1>3a. \A x \in rx_list' : x.count \in Nat
  BY <1>1, <1>3
\* What is stored stays stored unless rx_deliv passes it.
<1>4. ASSUME NEW k \in CountsOf(rx_list), rx_deliv' <= k
      PROVE  k \in CountsOf(rx_list')
  <2>1. PICK x \in rx_list : x.count = k
    BY DEF CountsOf
  <2>2. ~(x.count < rx_deliv')
    BY <1>2, <1>3, <1>4, <2>1
  <2> QED
    BY <1>1, <2>1, <2>2 DEF CountsOf
<1>5. rx_deliv' < rx_next' => \E x \in rx_list' : x.count + 1 = rx_next'
  <2> SUFFICES ASSUME rx_deliv' < rx_next' PROVE \E x \in rx_list' : x.count + 1 = rx_next'
    OBVIOUS
  <2>1. CASE c >= rx_next
    <3>1. c \in CountsOf(rx_list')
      BY <1>1, <1>2, <2>1
    <3> QED
      BY <1>1, <2>1, <3>1 DEF CountsOf
  <2>2. CASE c < rx_next
    <3>1. rx_next' = rx_next /\ rx_deliv < rx_next
      BY <1>1, <1>2, <2>2
    <3>2. PICK x \in rx_list : x.count + 1 = rx_next
      <4>1. ~(rx_deliv + 1 = rx_next)
        BY <1>1, <1>2, <2>2, <3>1
      <4> QED
        BY <3>1, <4>1 DEF NextHeld
    <3>3. ~(x.count < rx_deliv')
      BY <1>2, <1>3, <3>1, <3>2
    <3> QED
      BY <1>1, <3>1, <3>2, <3>3
  <2> QED
    BY <1>1, <1>2, <2>1, <2>2
<1>6. /\ age' \in {Off} \cup 0..TReordering
      /\ age' # Off => rx_deliv' < rx_reord' /\ rx_reord' <= rx_next'
      /\ age' = Off => rx_next' <= rx_deliv'
      /\ age' # Off =>
           \/ age' = age /\ rx_reord' = rx_reord
           \/ age' = 0 /\ rx_reord' = rx_next'
  <2>1. age # Off => rx_reord <= rx_next'
    BY <1>2 DEF TimerAhead
  <2> QED
    BY <1>1, <1>2, <2>1, StopOrStartOK
<1>7. NextHeld'
  BY <1>5 DEF NextHeld
<1>8. ReordHeld'
  <2>1. \A x \in rx_list' : x.count < rx_next' /\ x.count \in Nat
    <3> SUFFICES ASSUME NEW x \in rx_list' PROVE x.count < rx_next' /\ x.count \in Nat
      OBVIOUS
    <3>1. CASE x \in rx_list
      BY <1>2, <1>3, <3>1 DEF ReordHeld
    <3>2. CASE x.count = c
      BY <1>1, <1>2, <3>2
    <3> QED
      BY <1>1, <3>1, <3>2
  <2>2. rx_list' # {} => age' # Off
    BY <1>1, <1>2, <1>6, <2>1
  <2>3. age' # Off => \E x \in rx_list' : x.count + 1 = rx_reord'
    <3> SUFFICES ASSUME age' # Off PROVE \E x \in rx_list' : x.count + 1 = rx_reord'
      OBVIOUS
    <3>1. CASE age' = age /\ rx_reord' = rx_reord
      <4>1. PICK x \in rx_list : x.count + 1 = rx_reord
        BY <3>1 DEF ReordHeld
      <4>2. ~(x.count < rx_deliv')
        BY <1>2, <1>3, <1>6, <3>1, <4>1
      <4> QED
        BY <1>1, <3>1, <4>1, <4>2
    <3>2. CASE rx_reord' = rx_next'
      BY <1>5, <1>6, <3>2
    <3> QED
      BY <1>6, <3>1, <3>2
  <2> QED
    BY <2>1, <2>2, <2>3 DEF ReordHeld
<1>9. \A k \in 0..MaxCount :
        /\ ovt'[k] = IF k < c /\ ovt[k] = Never THEN 0 ELSE ovt[k]
        /\ ovt[k] \in {Never} \cup 0..(TReordering + 1)
  BY DEF Accept, TypeOK, c
<1>10. ASSUME NEW k \in 0..MaxCount, rx_deliv' <= k, k + 1 < rx_next'
       PROVE  ovt'[k] # Never
  <2>1. CASE c >= rx_next
    BY <1>1, <1>2, <1>9, <1>10, <2>1 DEF Never
  <2>2. CASE c < rx_next
    <3>1. rx_deliv <= k /\ k + 1 < rx_next
      BY <1>1, <1>2, <1>10, <2>2
    <3>2. ovt[k] # Never
      BY <3>1 DEF Overtaken
    <3> QED
      BY <1>9, <3>2
  <2> QED
    BY <1>1, <1>2, <2>1, <2>2
<1>11. Overtaken'
  BY <1>10 DEF Overtaken
<1>12. Waiting'
  <2> SUFFICES ASSUME age' # Off, NEW k \in 0..MaxCount,
                      rx_deliv' <= k, k < rx_reord', k \notin CountsOf(rx_list')
               PROVE  ovt'[k] # Never /\ ovt'[k] >= age'
    BY DEF Waiting
  <2>1. CASE age' = age /\ rx_reord' = rx_reord
    <3>1. rx_deliv <= k /\ k < rx_reord
      BY <1>2, <2>1
    <3>2. k \notin CountsOf(rx_list)
      BY <1>4
    <3>3. ovt[k] # Never /\ ovt[k] >= age
      BY <2>1, <3>1, <3>2 DEF Waiting
    <3> QED
      BY <1>9, <2>1, <3>3
  <2>2. CASE age' = 0 /\ rx_reord' = rx_next'
    <3>1. k + 1 # rx_next'
      <4>1. PICK x \in rx_list' : x.count + 1 = rx_next'
        BY <1>5, <1>6, <2>2
      <4>2. x.count # k
        BY DEF CountsOf
      <4> QED
        BY <1>3a, <4>1, <4>2
    <3>2. k + 1 < rx_next'
      BY <1>2, <2>2, <3>1
    <3>3. ovt'[k] # Never
      BY <1>10, <3>2
    <3> QED
      BY <1>9, <2>2, <3>3
  <2> QED
    BY <1>6, <2>1, <2>2
<1> QED
  BY <1>7, <1>8, <1>11, <1>12
\* An expiry gives up only what was overtaken when the timer was started, and
\* starts the timer again when an SDU is still stored.
LEMMA JExpireOK ==
  ASSUME IInv, IInv', JInv, alive, alive', NEW d \in 1..MaxJump,
         SetTime(d), Expired(d), Expire
  PROVE  /\ JInv'
         /\ \A k \in 0..MaxCount :
              rx_deliv <= k /\ k < rx_deliv' =>
                k \in CountsOf(out') \/ ovt'[k] > TReordering
<1>0. MaxCount \in Nat /\ TReordering \in Nat /\ d \in Nat
  BY PdcpAssumption
<1> USE <1>0 DEF IInv, JInv
<1>1. age # Off /\ age \in 0..TReordering /\ age + d > TReordering
  BY DEF Expired, TypeOK
<1>2. /\ rx_deliv' \in rx_reord..(MaxCount + 1)
      /\ rx_list' \cup out' = rx_list
      /\ \A x \in rx_list' : rx_deliv' < x.count
      /\ \A x \in out' : x.count < rx_deliv'
      /\ \A k \in Nat : rx_reord <= k /\ k < rx_deliv' => k \in CountsOf(rx_list)
      /\ IF rx_deliv' < rx_next
           THEN rx_reord' = rx_next /\ age' = 0
           ELSE age' = Off /\ UNCHANGED rx_reord
  BY <1>1, ExpireOK
<1>3. /\ rx_next \in Nat /\ rx_deliv \in Nat /\ rx_reord \in Nat /\ rx_deliv' \in Nat
      /\ rx_next' = rx_next /\ rx_deliv < rx_reord /\ rx_reord <= rx_deliv'
  BY <1>1, <1>2 DEF TypeOK, Counts, TimerAhead, SetTime
<1>4. \A x \in rx_list : x.count \in Nat /\ x.count < rx_next
  BY StoredCounts DEF CountsOf, ReordHeld
<1>5. \A k \in 0..MaxCount :
        /\ ovt[k] \in {Never} \cup 0..(TReordering + 1)
        /\ ovt'[k] = CASE ovt[k] = Never -> Never
                       [] ovt[k] # Never /\ ovt[k] + d > TReordering -> TReordering + 1
                       [] OTHER -> ovt[k] + d
  BY DEF SetTime, TypeOK
<1>6. rx_deliv' < rx_next => \E x \in rx_list' : x.count + 1 = rx_next
  <2> SUFFICES ASSUME rx_deliv' < rx_next
               PROVE  \E x \in rx_list' : x.count + 1 = rx_next
    OBVIOUS
  <2>1. PICK x \in rx_list : x.count + 1 = rx_next
    BY <1>1, <1>3 DEF NextHeld
  <2>2. ~(x.count < rx_deliv')
    BY <1>3, <1>4, <2>1
  <2> QED
    BY <1>2, <2>1, <2>2
<1>7. NextHeld'
  BY <1>3, <1>6 DEF NextHeld
<1>8. ReordHeld'
  <2>1. \A x \in rx_list' : x.count < rx_next'
    BY <1>2, <1>3, <1>4
  <2>2. rx_list' # {} => age' # Off
    <3> SUFFICES ASSUME NEW x \in rx_list' PROVE age' # Off
      OBVIOUS
    <3>1. rx_deliv' < rx_next
      BY <1>2, <1>3, <1>4
    <3> QED
      BY <1>2, <3>1 DEF Off
  <2>3. age' # Off => rx_deliv' < rx_next /\ rx_reord' = rx_next
    BY <1>2
  <2> QED
    BY <1>6, <2>1, <2>2, <2>3 DEF ReordHeld
<1>9. ASSUME NEW k \in 0..MaxCount, rx_deliv' <= k, k + 1 < rx_next
      PROVE  ovt'[k] # Never /\ ovt'[k] >= 0
  <2>1. rx_deliv <= k
    BY <1>3, <1>9
  <2>2. ovt[k] # Never
    BY <1>9, <2>1 DEF Overtaken
  <2> QED
    BY <1>5, <2>2 DEF Never
<1>10. Overtaken'
  BY <1>3, <1>9 DEF Overtaken
<1>11. Waiting'
  <2> SUFFICES ASSUME age' # Off, NEW k \in 0..MaxCount,
                      rx_deliv' <= k, k < rx_reord', k \notin CountsOf(rx_list')
               PROVE  ovt'[k] # Never /\ ovt'[k] >= age'
    BY DEF Waiting
  <2>1. rx_deliv' < rx_next /\ rx_reord' = rx_next /\ age' = 0
    BY <1>2
  <2>2. PICK x \in rx_list' : x.count + 1 = rx_next
    BY <1>6, <2>1
  <2>3. x.count # k /\ x.count \in Nat
    BY <1>2, <1>4 DEF CountsOf
  <2>4. k + 1 < rx_next
    BY <1>3, <2>1, <2>2, <2>3
  <2> QED
    BY <1>9, <2>1, <2>4
<1>12. ASSUME NEW k \in 0..MaxCount, rx_deliv <= k, k < rx_deliv', k \notin CountsOf(out')
       PROVE  ovt'[k] > TReordering
  <2>1. k \notin CountsOf(rx_list)
    <3> SUFFICES ASSUME NEW x \in rx_list, x.count = k PROVE FALSE
      BY DEF CountsOf
    <3>1. x \notin out'
      BY <1>12 DEF CountsOf
    <3>2. rx_deliv' < x.count
      BY <1>2, <3>1
    <3> QED
      BY <1>3, <1>12, <3>2
  <2>2. k < rx_reord
    BY <1>2, <1>3, <1>12, <2>1
  <2>3. ovt[k] # Never /\ ovt[k] >= age
    BY <1>1, <1>12, <2>1, <2>2 DEF Waiting
  <2> QED
    BY <1>1, <1>5, <2>3 DEF Never
<1> QED
  BY <1>7, <1>8, <1>10, <1>11, <1>12
\* Time that passes without an expiry ages the timer and what it waits for
\* alike.
LEMMA JTickOK ==
  ASSUME IInv, JInv, NEW d \in 1..MaxJump, SetTime(d), ~Expired(d),
         age' = IF age = Off THEN Off ELSE age + d,
         UNCHANGED <<rx_next, rx_deliv, rx_reord, rx_list, lastd>>
  PROVE  JInv'
<1>0. MaxCount \in Nat /\ TReordering \in Nat /\ d \in Nat
  BY PdcpAssumption
<1> USE <1>0 DEF IInv, JInv
<1>1. alive' = alive /\ (age' # Off <=> age # Off)
  BY DEF SetTime, TypeOK, Off
<1>2. \A k \in 0..MaxCount :
        /\ ovt[k] \in {Never} \cup 0..(TReordering + 1)
        /\ ovt'[k] = CASE ovt[k] = Never -> Never
                       [] ovt[k] # Never /\ ovt[k] + d > TReordering -> TReordering + 1
                       [] OTHER -> ovt[k] + d
  BY DEF SetTime, TypeOK
<1>3. NextHeld' /\ ReordHeld'
  BY <1>1 DEF NextHeld, ReordHeld
<1>4. \A k \in 0..MaxCount : ovt[k] # Never => ovt'[k] # Never
  BY <1>2 DEF Never
<1>5. Overtaken'
  BY <1>1, <1>4 DEF Overtaken
<1>6. Waiting'
  <2> SUFFICES ASSUME alive, age # Off, NEW k \in 0..MaxCount,
                      rx_deliv <= k, k < rx_reord, k \notin CountsOf(rx_list)
               PROVE  ovt'[k] # Never /\ ovt'[k] >= age'
    BY <1>1 DEF Waiting
  <2>1. ovt[k] # Never /\ ovt[k] >= age
    BY DEF Waiting
  <2>2. age' = age + d /\ age \in 0..TReordering /\ age + d <= TReordering
    BY DEF Expired, TypeOK
  <2> QED
    BY <1>2, <2>1, <2>2 DEF Never
<1> QED
  BY <1>3, <1>5, <1>6

\* Every step keeps the invariant when the clock ticks before the first PDU.
LEMMA JStepOK ==
  ASSUME ~EarlyPdu, IInv, IInv', JInv, [Next]_vars
  PROVE  JInv'
<1> USE DEF IInv, JInv
<1>1. CASE UNCHANGED vars
  BY <1>1 DEF NextHeld, ReordHeld, Overtaken, Waiting, CountsOf, vars, txVars, rxVars
<1>2. ASSUME NEW c \in Starts, CountUpdate(c) PROVE JInv'
  <2>1. rx_list = {} /\ age = Off
    BY <1>2 DEF CountUpdate, Ahead, TimerAhead
  <2>2. /\ rx_deliv' = c /\ rx_next' = c + 1 /\ rx_list' = {} /\ age' = Off
        /\ c \in Nat
    BY <1>2, <2>1, PdcpAssumption DEF CountUpdate
  <2>3. NextHeld' /\ ReordHeld' /\ Waiting'
    BY <2>2 DEF NextHeld, ReordHeld, Waiting
  <2>4. Overtaken'
    BY <2>2, PdcpAssumption DEF Overtaken
  <2> QED
    BY <2>3, <2>4
<1>3. CASE ProcessSdu \/ TxReestablish
  BY <1>3 DEF ProcessSdu, TxReestablish, rxVars, NextHeld, ReordHeld, Overtaken,
              Waiting, CountsOf
<1>4. ASSUME NEW p \in chan, MayArrive(p), RecvPdu(p) PROVE JInv'
  <2>1. alive /\ alive' /\ ticked
    BY <1>4 DEF RecvPdu, MayArrive
  <2>2. CASE /\ out' = {}
             /\ UNCHANGED <<rx_next, rx_deliv, rx_reord, rx_list, age, lastd, ovt>>
    BY <2>1, <2>2 DEF NextHeld, ReordHeld, Overtaken, Waiting, CountsOf
  <2>3. CASE /\ Accept(p, p.count)
             /\ p.ep = rx_ep /\ rx_deliv <= p.count
             /\ p.count \notin CountsOf(rx_list)
    BY <2>1, <2>3, JAcceptOK
  <2> QED
    BY <1>4, <2>2, <2>3, RecvSplit
<1>5. ASSUME NEW d \in 1..MaxJump, SetTime(d) PROVE JInv'
  <2>1. alive /\ alive'
    BY <1>5 DEF SetTime
  <2>2. CASE Expired(d) /\ Expire
    BY <1>5, <2>1, <2>2, JExpireOK
  <2>3. CASE ~Expired(d)
    BY <1>5, <2>3, JTickOK DEF SetTime
  <2> QED
    BY <1>5, <2>2, <2>3 DEF SetTime
<1>6. CASE RxReestablish
  <2>1. CASE type = "DRB_AM"
    BY <1>6, <2>1 DEF RxReestablish, NextHeld, ReordHeld, Overtaken, Waiting, CountsOf
  <2>2. CASE type # "DRB_AM"
    <3>1. rx_next' = 0 /\ rx_deliv' = 0 /\ rx_list' = {} /\ age' = Off
      BY <1>6, <2>2 DEF RxReestablish, ReordHeld
    <3>2. NextHeld' /\ ReordHeld' /\ Waiting'
      BY <3>1 DEF NextHeld, ReordHeld, Waiting
    <3>3. Overtaken'
      BY <3>1, PdcpAssumption DEF Overtaken
    <3> QED
      BY <3>2, <3>3
  <2> QED
    BY <2>1, <2>2
<1>7. CASE Release
  BY <1>7 DEF Release, NextHeld, ReordHeld, Overtaken, Waiting
<1> QED
  BY <1>1, <1>2, <1>3, <1>4, <1>5, <1>6, <1>7 DEF Next

\* While SDUs are stored the timer runs and covers one of them, provided the
\* entity's clock has ticked before its first PDU: the hypothesis the code
\* does not enforce (nr_pdcp_entity.c:189-197, 430-435).
THEOREM StoredMeansTimerCorrect ==
  ASSUME ~EarlyPdu
  PROVE  Spec => []StoredMeansTimer
<1>1. IInv /\ JInv => StoredMeansTimer
  <2> SUFFICES ASSUME IInv, JInv, NEW y \in rx_list
               PROVE  /\ age # Off
                      /\ \A x \in rx_list : rx_deliv < x.count /\ x.count < rx_next
                      /\ rx_deliv < rx_reord
                      /\ \E x \in rx_list : x.count < rx_reord
    BY DEF StoredMeansTimer
  <2> USE DEF IInv, JInv
  <2>1. alive /\ age # Off
    BY DEF Ahead, ReordHeld
  <2>2. PICK x \in rx_list : x.count + 1 = rx_reord
    BY <2>1 DEF ReordHeld
  <2>3. x.count < rx_reord
    BY <2>2, StoredCounts DEF CountsOf
  <2> QED
    BY <2>1, <2>3 DEF Ahead, ReordHeld, TimerAhead
<1>2. IInv /\ IInv' /\ JInv /\ [Next]_vars => JInv'
  BY JStepOK
<1> QED
  BY <1>1, <1>2, JInitOK, Inductive, PTL DEF Spec

\* The receiver gives up on a COUNT only when a later PDU has been waiting for
\* longer than t-Reordering, under the same hypothesis
\* (nr_pdcp_entity.c:387-430).
THEOREM NoEarlySkipCorrect ==
  ASSUME ~EarlyPdu
  PROVE  Spec => NoEarlySkip
<1> DEFINE A == \/ \E c \in Starts : CountUpdate(c)
                \/ \A c \in rx_deliv..(rx_deliv' - 1) :
                     c \in CountsOf(out') \/ ovt'[c] > TReordering
<1>1. IInv /\ IInv' /\ JInv /\ [Next]_vars => [A]_vars
  <2> SUFFICES ASSUME IInv, IInv', JInv, Next, ~\E c \in Starts : CountUpdate(c)
               PROVE  \A c \in rx_deliv..(rx_deliv' - 1) :
                        c \in CountsOf(out') \/ ovt'[c] > TReordering
    OBVIOUS
  <2> USE DEF IInv
  <2>1. rx_deliv \in Nat /\ rx_deliv' \in Nat /\ rx_deliv' <= MaxCount + 1
        /\ MaxCount \in Nat
    BY PdcpAssumption DEF TypeOK, Counts, Bounded
  <2>2. rx_deliv..(rx_deliv' - 1) = {k \in Int : rx_deliv <= k /\ k < rx_deliv'}
    BY <2>1, IntervalBelow
  <2>3. SUFFICES ASSUME NEW c \in 0..MaxCount, rx_deliv <= c, c < rx_deliv'
                 PROVE  c \in CountsOf(out') \/ ovt'[c] > TReordering
    <3>1. \A c \in {k \in Int : rx_deliv <= k /\ k < rx_deliv'} :
            c \in 0..MaxCount /\ rx_deliv <= c /\ c < rx_deliv'
      BY <2>1
    <3>2. \A c \in {k \in Int : rx_deliv <= k /\ k < rx_deliv'} :
            c \in CountsOf(out') \/ ovt'[c] > TReordering
      BY <3>1, <2>3
    <3> QED
      BY <2>2, <3>2
  <2>4. ~(rx_deliv' <= rx_deliv)
    BY <2>1, <2>3
  <2>5. CASE ProcessSdu \/ TxReestablish \/ Release
    BY <2>1, <2>4, <2>5 DEF ProcessSdu, TxReestablish, Release, rxVars
  <2>6. CASE RxReestablish
    BY <2>1, <2>4, <2>6 DEF RxReestablish
  <2>7. ASSUME NEW p \in chan, MayArrive(p), RecvPdu(p) PROVE c \in CountsOf(out')
    <3>1. CASE UNCHANGED rx_deliv
      BY <2>1, <2>4, <3>1
    <3>2. CASE /\ Accept(p, p.count)
               /\ p.ep = rx_ep /\ rx_deliv <= p.count
               /\ p.count \notin CountsOf(rx_list)
      <4>1. alive
        BY <2>7 DEF RecvPdu
      <4> QED
        BY <2>3, <3>2, <4>1, AcceptOK
    <3> QED
      BY <2>7, <3>1, <3>2, RecvSplit
  <2>8. ASSUME NEW d \in 1..MaxJump, SetTime(d)
        PROVE  c \in CountsOf(out') \/ ovt'[c] > TReordering
    <3>1. alive /\ alive'
      BY <2>8 DEF SetTime
    <3>2. CASE Expired(d) /\ Expire
      BY <2>3, <2>8, <3>1, <3>2, JExpireOK
    <3>3. CASE UNCHANGED rx_deliv
      BY <2>1, <2>4, <3>3
    <3> QED
      BY <2>8, <3>2, <3>3 DEF SetTime
  <2> QED
    BY <2>5, <2>6, <2>7, <2>8 DEF Next
<1>2. IInv /\ IInv' /\ JInv /\ [Next]_vars => JInv'
  BY JStepOK
<1>3. Spec => [][A]_vars
  BY <1>1, <1>2, JInitOK, Inductive, PTL DEF Spec
<1> QED
  BY <1>3 DEF NoEarlySkip
=============================================================================
