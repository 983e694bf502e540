------------------------------- MODULE NrPdcp -------------------------------
(***************************************************************************)
(* One direction of a PDCP bearer (openair2/LAYER2/nr_pdcp): the sending   *)
(* entity of one side, the layers below, which lose, duplicate and reorder *)
(* PDUs, and the receiving entity of the other side, which puts the SDUs   *)
(* back in order.  Every call of an entity is made under the lock of the   *)
(* UE manager and is one step.                                             *)
(*                                                                         *)
(* A PDU is abstracted to the COUNT and the keys it was ciphered with; the *)
(* receiver sees of the COUNT only its low bits, the SN.  The keys are     *)
(* numbered by the re-establishments that changed them.                    *)
(***************************************************************************)
EXTENDS Integers, FiniteSets

CONSTANTS
  SnMod,        \* 2^sn_size, sn_max + 1
  W32,          \* 2^32, the modulus of COUNT
  TReordering,  \* t_reordering in ms, finite
  MaxJump,      \* bound: how many ms the timer thread may be late
  Starts,       \* COUNTs a handover may begin with
  MaxCount,     \* bound: the highest COUNT
  Used,         \* bound: COUNTs the sender gives to SDUs
  MaxReest,     \* bound: re-establishments of each side
  EarlyPdu      \* whether a PDU may arrive before the entity's first ms tick

ASSUME PdcpAssumption ==
  /\ SnMod \in Nat /\ SnMod > 1 /\ SnMod % 2 = 0
  /\ W32 \in Nat /\ W32 > SnMod /\ W32 % SnMod = 0
  /\ TReordering \in Nat
  /\ MaxJump \in Nat \ {0}
  /\ MaxCount \in Nat /\ MaxCount + SnMod < W32
  /\ Starts \subseteq 1..MaxCount
  /\ Used \subseteq 0..(MaxCount - 1)
  /\ MaxReest \in Nat
  /\ EarlyPdu \in BOOLEAN

VARIABLES
  type,           \* kind of bearer
  has_integrity,  \* whether PDUs carry a message authentication code
  tx_next,        \* sender: COUNT of the next SDU
  tx_ep,          \* sender: keys in use
  chan,           \* PDUs sent: each may arrive never, once or again, at any time
  alive,          \* receiver: FALSE once the bearer is released
  rx_ep,          \* receiver: keys in use
  rx_next,        \* receiver: one above the highest COUNT received
  rx_deliv,       \* receiver: first COUNT not yet delivered or given up
  rx_reord,       \* receiver: COUNT that t-Reordering waits for
  rx_list,        \* receiver: stored SDUs
  age,            \* receiver: t_current - t_reordering_start, or Off
  ticked,         \* receiver: t_current # 0
  out,            \* SDUs delivered by the latest step, in the order of COUNT
  lastd,          \* history: highest COUNT delivered since the counters began
  ovt             \* history: ms since a PDU above this COUNT was accepted

txVars == <<tx_next, tx_ep>>
rxVars == <<alive, rx_ep, rx_next, rx_deliv, rx_reord, rx_list, age, ticked>>
vars == <<type, has_integrity, txVars, chan, rxVars, out, lastd, ovt>>

Types == {"SRB", "DRB_AM", "DRB_UM"}

Window == SnMod \div 2

\* t_reordering_start = 0
Off == -1

\* No PDU above this COUNT was accepted yet.
Never == -1

Counts == 0..(W32 - 1)

Pdu == [count : 0..MaxCount, ep : 0..MaxReest]

\* A stored SDU: the COUNT it was taken for and the keys of the receiver at
\* that time, next to the COUNT and the keys it was sent with.
Sdu == [count : Counts, ep : 0..MaxReest, sent : Pdu]

CountsOf(S) == {x.count : x \in S}

Fresh == [c \in 0..MaxCount |-> Never]

-----------------------------------------------------------------------------

Init ==
  /\ type \in Types
  /\ has_integrity \in BOOLEAN
  /\ tx_next = 0 /\ tx_ep = 0
  /\ chan = {}
  /\ alive = TRUE
  /\ rx_ep = 0 /\ rx_next = 0 /\ rx_deliv = 0 /\ rx_reord = 0
  /\ rx_list = {}
  /\ age = Off
  /\ ticked = FALSE
  /\ out = {} /\ lastd = -1 /\ ovt = Fresh

\* Handover: the new cell's entity takes over the COUNT at which the old one
\* stopped, before anything is received; the sender goes on from there.
CountUpdate(c) ==
  /\ type # "SRB" /\ alive
  /\ tx_next = 0 /\ rx_next = 0 /\ chan = {}
  /\ tx_next' = c
  /\ rx_next' = c + 1
  /\ rx_deliv' = c
  /\ out' = {}
  /\ UNCHANGED <<type, has_integrity, tx_ep, chan, alive, rx_ep, rx_reord,
                 rx_list, age, ticked, lastd, ovt>>

ProcessSdu ==
  /\ tx_next \in Used
  /\ chan' = chan \cup {[count |-> tx_next, ep |-> tx_ep]}
  /\ tx_next' = tx_next + 1
  /\ out' = {}
  /\ UNCHANGED <<type, has_integrity, tx_ep, rxVars, lastd, ovt>>

-----------------------------------------------------------------------------
(* Reception.                                                              *)

\* Fault: the hyper frame number ignores which half of the window holds the
\* SN.
ReconstructSameHfn(sn, deliv) == (deliv \div SnMod) * SnMod + sn

\* The COUNT of a PDU: the hyper frame number that brings the SN closest to
\* rx_deliv; it is 32 bits wide and wraps below 0.
Reconstruct(sn, deliv) ==
  LET hfn == deliv \div SnMod
      diff == sn - (deliv % SnMod)
      rcvd_hfn == IF diff < -Window THEN hfn + 1
                  ELSE IF diff >= Window THEN hfn - 1
                  ELSE hfn
  IN  (rcvd_hfn * SnMod + sn) % W32

\* The first COUNT from c on that is not in S.
FirstMissing(S, c) ==
  CHOOSE n \in c..W32 :
    n \notin CountsOf(S) /\ \A k \in c..(n - 1) : k \in CountsOf(S)

\* Starting the timer stores t_current, which does not start it while t_current
\* is still 0.
StartTimer == IF ticked THEN 0 ELSE Off

\* Fault: a timer that was stopped is not started for what is still missing.
StopOrStartOnce(next, deliv) ==
  IF age = Off /\ deliv < next
    THEN rx_reord' = next /\ age' = StartTimer
    ELSE IF age # Off /\ deliv >= rx_reord
      THEN age' = Off /\ UNCHANGED rx_reord
      ELSE UNCHANGED <<rx_reord, age>>

\* The timer after a PDU was accepted: stopped when rx_reord is reached, then
\* started when something is missing.
StopOrStart(next, deliv) ==
  LET stopped == age = Off \/ deliv >= rx_reord
  IN  IF stopped /\ deliv < next
        THEN rx_reord' = next /\ age' = StartTimer
        ELSE /\ age' = IF stopped THEN Off ELSE age
             /\ UNCHANGED rx_reord

Deliver(S) ==
  /\ out' = S
  /\ lastd' = IF S = {} THEN lastd
              ELSE CHOOSE m \in CountsOf(S) : \A c \in CountsOf(S) : c <= m

\* Fault: a PDU below rx_deliv is not refused.
RefusedInListOnly(p, c) ==
  \/ has_integrity /\ (c # p.count \/ p.ep # rx_ep)
  \/ c \in CountsOf(rx_list)

\* The code is computed from COUNT and keys: it matches when both are those
\* of the sender.
Refused(p, c) ==
  \/ has_integrity /\ (c # p.count \/ p.ep # rx_ep)
  \/ c < rx_deliv
  \/ c \in CountsOf(rx_list)

Accept(p, c) ==
  LET list == rx_list \cup {[count |-> c, ep |-> rx_ep, sent |-> p]}
      next == IF c >= rx_next THEN (c + 1) % W32 ELSE rx_next
      deliv == IF c = rx_deliv THEN FirstMissing(list, rx_deliv) ELSE rx_deliv
      run == {x \in list : x.count >= rx_deliv /\ x.count < deliv}
  IN  /\ rx_next' = next
      /\ rx_deliv' = deliv
      /\ rx_list' = list \ run
      /\ Deliver(run)
      /\ StopOrStart(next, deliv)
      /\ ovt' = [k \in 0..MaxCount |->
                   IF k < c /\ ovt[k] = Never THEN 0 ELSE ovt[k]]

RecvPdu(p) ==
  LET c == Reconstruct(p.count % SnMod, rx_deliv)
  IN  /\ alive
      /\ \/ /\ Refused(p, c)
            /\ out' = {}
            /\ UNCHANGED <<rx_next, rx_deliv, rx_reord, rx_list, age, lastd, ovt>>
         \/ ~Refused(p, c) /\ Accept(p, c)
      /\ UNCHANGED <<type, has_integrity, txVars, chan, alive, rx_ep, ticked>>

-----------------------------------------------------------------------------
(* Time, re-establishment and release.                                     *)

\* Fault: the timer is not started again for what is missing above rx_reord.
ExpireOnce ==
  LET deliv == FirstMissing(rx_list, rx_reord)
      batch == {x \in rx_list : x.count < deliv}
  IN  /\ rx_deliv' = deliv
      /\ rx_list' = rx_list \ batch
      /\ Deliver(batch)
      /\ age' = Off
      /\ UNCHANGED rx_reord

\* Fault: the expiry gives up all that is missing below rx_next.
ExpireToNext ==
  /\ rx_deliv' = rx_next
  /\ rx_list' = {}
  /\ Deliver(rx_list)
  /\ age' = Off
  /\ UNCHANGED rx_reord

\* check_t_reordering past its early returns: what is missing below rx_reord is
\* given up.
Expire ==
  LET deliv == FirstMissing(rx_list, rx_reord)
      batch == {x \in rx_list : x.count < deliv}
  IN  /\ rx_deliv' = deliv
      /\ rx_list' = rx_list \ batch
      /\ Deliver(batch)
      /\ IF deliv < rx_next
           THEN rx_reord' = rx_next /\ age' = 0
           ELSE age' = Off /\ UNCHANGED rx_reord

\* Fault: the timer expires one ms later.
ExpiredLate(d) == age # Off /\ age + d > TReordering + 1

Expired(d) == age # Off /\ age + d > TReordering

\* The timer thread advances t_current, by more than one ms when it was late.
SetTime(d) ==
  /\ alive
  /\ ticked' = TRUE
  /\ ovt' = [c \in 0..MaxCount |->
               CASE ovt[c] = Never -> Never
                 [] ovt[c] # Never /\ ovt[c] + d > TReordering -> TReordering + 1
                 [] OTHER -> ovt[c] + d]
  /\ \/ Expired(d) /\ Expire /\ UNCHANGED rx_next
     \/ /\ ~Expired(d)
        /\ age' = IF age = Off THEN Off ELSE age + d
        /\ out' = {}
        /\ UNCHANGED <<rx_next, rx_deliv, rx_reord, rx_list, lastd>>
  /\ UNCHANGED <<type, has_integrity, txVars, chan, alive, rx_ep>>

\* New keys; the COUNT of an AM data bearer goes on.
TxReestablish ==
  /\ tx_ep < MaxReest
  /\ tx_ep' = tx_ep + 1
  /\ tx_next' = IF type = "DRB_AM" THEN tx_next ELSE 0
  /\ out' = {}
  /\ UNCHANGED <<type, has_integrity, chan, rxVars, lastd, ovt>>

\* An AM data bearer only changes its keys.  The others begin again at 0; a UM
\* data bearer delivers what it holds if the timer runs, a signalling bearer
\* drops it.
RxReestablish ==
  /\ alive
  /\ rx_ep < MaxReest
  /\ rx_ep' = rx_ep + 1
  /\ IF type = "DRB_AM"
       THEN out' = {} /\ UNCHANGED <<rx_next, rx_deliv, rx_list, age, lastd, ovt>>
       ELSE /\ rx_next' = 0 /\ rx_deliv' = 0
            /\ out' = IF type = "DRB_UM" /\ age # Off THEN rx_list ELSE {}
            /\ rx_list' = IF type = "DRB_UM" /\ age = Off THEN rx_list ELSE {}
            /\ age' = Off
            /\ lastd' = -1 /\ ovt' = Fresh
  /\ UNCHANGED <<type, has_integrity, txVars, chan, alive, rx_reord, ticked>>

\* A data bearer delivers what it holds before it is deleted.
Release ==
  /\ alive
  /\ alive' = FALSE
  /\ rx_list' = {}
  /\ Deliver(IF type = "SRB" THEN {} ELSE rx_list)
  /\ UNCHANGED <<type, has_integrity, txVars, chan, rx_ep, rx_next, rx_deliv,
                 rx_reord, age, ticked, ovt>>

-----------------------------------------------------------------------------
\* What the layers below let arrive when nothing but COUNT and keys protects
\* the receiver: PDUs of the present keys, less than half the SN space away.
InReach(p) ==
  /\ p.ep = rx_ep
  /\ p.count >= rx_deliv - Window
  /\ p.count < rx_deliv + Window

\* The environment's part of a reception; the clock ticks before the first PDU
\* unless EarlyPdu.
MayArrive(p) == (ticked \/ EarlyPdu) /\ (has_integrity \/ InReach(p))

Next ==
  \/ \E c \in Starts : CountUpdate(c)
  \/ ProcessSdu
  \/ \E p \in chan : MayArrive(p) /\ RecvPdu(p)
  \/ \E d \in 1..MaxJump : SetTime(d)
  \/ TxReestablish
  \/ RxReestablish
  \/ Release

Spec == Init /\ [][Next]_vars

\* The ms tick goes on; nobody has to send and the lower layers owe nothing.
FairSpec == Spec /\ WF_vars(\E d \in 1..MaxJump : SetTime(d))

-----------------------------------------------------------------------------
(* Properties.                                                             *)

TypeOK ==
  /\ type \in Types /\ has_integrity \in BOOLEAN
  /\ tx_next \in 0..MaxCount /\ tx_ep \in 0..MaxReest
  /\ chan \subseteq Pdu
  /\ alive \in BOOLEAN /\ ticked \in BOOLEAN
  /\ rx_ep \in 0..MaxReest
  /\ rx_next \in Counts /\ rx_deliv \in Counts /\ rx_reord \in Counts
  /\ rx_list \subseteq Sdu /\ out \subseteq Sdu
  /\ age \in {Off} \cup 0..TReordering
  /\ lastd \in {-1} \cup Counts
  /\ ovt \in [0..MaxCount -> {Never} \cup 0..(TReordering + 1)]

\* Every SDU that is stored or delivered was deciphered with the COUNT and the
\* keys it was sent with, although the PDU carries only the SN
\* (nr_pdcp_entity.c:98-139).
Genuine ==
  \A x \in rx_list \cup out : x.count = x.sent.count /\ x.ep = x.sent.ep

\* While SDUs are stored the receiver waits for something that is really
\* missing, and the timer that ends the wait runs and covers a stored SDU
\* (nr_pdcp_entity.c:189-197, 430-435).
StoredMeansTimer ==
  rx_list # {} =>
    /\ age # Off
    /\ \A x \in rx_list : rx_deliv < x.count /\ x.count < rx_next
    /\ rx_deliv < rx_reord
    /\ \E x \in rx_list : x.count < rx_reord

\* What a step delivers lies above all that was delivered since the counters
\* began: no SDU is delivered twice or out of order, by the reception, the timer,
\* a re-establishment or a release (nr_pdcp_entity.c:163-187, 402-430).
InOrder == [][\A x \in out' : x.count > lastd]_vars

\* The receiver gives up on a COUNT only when a later PDU has been waiting for
\* longer than t-Reordering: no PDU is refused for being late that was overtaken
\* by less (nr_pdcp_entity.c:387-430).
NoEarlySkip ==
  [][\/ \E c \in Starts : CountUpdate(c)
     \/ \A c \in rx_deliv..(rx_deliv' - 1) :
          c \in CountsOf(out') \/ ovt'[c] > TReordering]_vars

\* What is stored is delivered, unless a signalling bearer is re-established or
\* released first (nr_pdcp_entity.c:189-197, 379-436).
StoredDelivered ==
  \A c \in 0..MaxCount :
    c \in CountsOf(rx_list) ~>
      \/ c \in CountsOf(out)
      \/ type = "SRB" /\ c \notin CountsOf(rx_list)

=============================================================================
