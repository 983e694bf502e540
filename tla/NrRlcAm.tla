------------------------------ MODULE NrRlcAm ------------------------------
(***************************************************************************)
(* One direction of an RLC bearer in acknowledged mode                     *)
(* (openair2/LAYER2/nr_rlc): the transmitting half of one entity, the      *)
(* receiving half of its peer, the data PDUs that go one way and the       *)
(* status reports that go the other.  MAC may lose and reorder both.       *)
(* Every call of an entity is made under the lock of the RLC manager and   *)
(* is one step.                                                            *)
(*                                                                         *)
(* A segment is a range of bytes of an SDU.  Headers, buffer sizes and the *)
(* count of retransmissions are left out; a timer that runs may expire at  *)
(* any time.  What a run assumes of MAC and of the timers' lengths stands  *)
(* in Next, beside the actions.                                            *)
(***************************************************************************)
EXTENDS Integers, Sequences, FiniteSets

CONSTANTS
  SnMod,     \* sn_modulus
  Start,     \* SN of the first SDU of the run
  N,         \* bound: SDUs handed down
  Sizes,     \* sizes of SDUs in bytes
  PollDue,   \* whether pollPDU or pollByte may be reached by a PDU
  DataCap,   \* bound: data PDUs in flight
  StatusCap, \* bound: status reports in flight
  MaxLoss,   \* bound: PDUs and reports lost
  ShortGrant,\* whether a grant may hold only a header without offset
  EarlyPoll, \* whether t_poll_retransmit may expire with an answer on its way
  EarlyReassembly  \* whether t_reassembly may expire before an SDU is all sent

ASSUME RlcAssumption ==
  /\ SnMod \in Nat /\ SnMod >= 4 /\ SnMod % 2 = 0
  /\ Start \in 0..(SnMod - 1)
  /\ N \in Nat /\ N < SnMod
  /\ Sizes \subseteq Nat \ {0} /\ IsFiniteSet(Sizes)
  /\ PollDue \subseteq BOOLEAN
  /\ DataCap \in Nat \ {0} /\ StatusCap \in Nat \ {0}
  /\ MaxLoss \in Nat
  /\ {ShortGrant, EarlyPoll, EarlyReassembly} \subseteq BOOLEAN

VARIABLES
  sdus,             \* sizes of the SDUs taken so far
  tx_list,          \* sender: segments never sent, in order
  wait_list,        \* sender: segments sent and not acknowledged
  retransmit_list,  \* sender: segments to send again
  tx_next,          \* sender: SN of the next SDU
  tx_next_ack,      \* sender: start of the window
  poll_sn,          \* sender: highest SN when the latest poll was sent
  poll_timer,       \* sender: t_poll_retransmit runs
  force_poll,       \* sender: the next PDU carries a poll
  acked,            \* SDUs reported as successfully delivered
  rx,               \* receiver: ring of the SDUs of the window
  rx_next,          \* receiver: first SN not completely received
  rx_next_highest,  \* receiver: one above the highest SN received
  rx_highest_status,       \* receiver: where a report ends
  rx_next_status_trigger,  \* receiver: SN that started t_reassembly
  reassembly_timer, \* receiver: t_reassembly runs
  status_triggered, \* receiver: a report is due
  delivered,        \* how often each SDU was delivered
  data,             \* data PDUs in flight
  reports,          \* status reports in flight
  lost,             \* PDUs and reports lost so far
  down              \* what stopped an entity: "no", "poll" or "ring"

txVars == <<tx_list, wait_list, retransmit_list, tx_next, tx_next_ack, poll_sn,
            poll_timer, force_poll, acked>>
rxVars == <<rx, rx_next, rx_next_highest, rx_highest_status,
            rx_next_status_trigger, reassembly_timer, status_triggered, delivered>>
vars == <<sdus, txVars, rxVars, data, reports, lost, down>>

window_size == SnMod \div 2

Ids == 1..N
Sns == 0..(SnMod - 1)

\* sn of an SDU before its first transmission
None == -1

\* so_end 0xffff: to the end of the SDU
End == -1

Segment == [id : Ids, sn : Sns \cup {None}, so : Nat, size : Nat, last : BOOLEAN]

Plus(sn, k) == (sn + k) % SnMod

modulus_tx(a) == (a - tx_next_ack) % SnMod

Bytes(s) == s.so .. (s.so + s.size - 1)

BytesOf(S) == UNION {Bytes(s) : s \in S}

\* A place of the ring: the PDUs of an SDU, or the mark of one delivered.
Empty == [pdus |-> {}, done |-> FALSE]
Done == [pdus |-> {}, done |-> TRUE]

Slot(sn) == sn % window_size

Init ==
  /\ sdus = <<>>
  /\ tx_list = <<>> /\ wait_list = {} /\ retransmit_list = {}
  /\ tx_next = Start /\ tx_next_ack = Start
  /\ poll_sn = (Start - 1) % SnMod /\ poll_timer = FALSE /\ force_poll = FALSE
  /\ acked = {}
  /\ rx = [k \in 0..(window_size - 1) |-> Empty]
  /\ rx_next = Start /\ rx_next_highest = Start
  /\ rx_highest_status = Start /\ rx_next_status_trigger = Start
  /\ reassembly_timer = FALSE /\ status_triggered = FALSE
  /\ delivered = [i \in Ids |-> 0]
  /\ data = {} /\ reports = {} /\ lost = 0
  /\ down = "no"

-----------------------------------------------------------------------------
(* Transmission.                                                           *)

RecvSdu(size) ==
  /\ Len(sdus) < N
  /\ sdus' = Append(sdus, size)
  /\ tx_list' = Append(tx_list, [id |-> Len(sdus) + 1, sn |-> None, so |-> 0,
                                 size |-> size, last |-> TRUE])
  /\ UNCHANGED <<wait_list, retransmit_list, tx_next, tx_next_ack, poll_sn,
                 poll_timer, force_poll, acked, rxVars, data, reports, lost, down>>

\* The segment the list begins with: lists are sorted by SN, then by offset.
First(S) ==
  CHOOSE s \in S : \A t \in S :
    \/ modulus_tx(s.sn) < modulus_tx(t.sn)
    \/ s.sn = t.sn /\ s.so <= t.so

\* resegment: what fits into a grant of g bytes, and the rest
Front(s, g) == [s EXCEPT !.size = g, !.last = s.last /\ g = s.size]
Rest(s, g) == [s EXCEPT !.so = s.so + g, !.size = s.size - g]

\* Fault: the sender stalls one SDU late.
is_window_stalling_late(next) == modulus_tx(next) > window_size

is_window_stalling(next) == modulus_tx(next) >= window_size

\* Fault: no poll when the window stalls.
check_poll_when_empty(tx, retx, next) == tx = <<>> /\ retx = {}

check_poll_after_pdu_assembly(tx, retx, next) ==
  \/ tx = <<>> /\ retx = {}
  \/ is_window_stalling(next)

\* A segment goes out, with a poll when one is due or forced.
Transmit(s, tx, retx, next, due) ==
  LET p == due \/ force_poll \/ check_poll_after_pdu_assembly(tx, retx, next)
      pdu == [seg |-> s, p |-> p]
  IN  /\ Cardinality(data \cup {pdu}) <= DataCap
      /\ data' = data \cup {pdu}
      /\ tx_list' = tx
      /\ retransmit_list' = retx
      /\ tx_next' = next
      /\ wait_list' = wait_list \cup {s}
      /\ force_poll' = FALSE
      /\ poll_sn' = IF p THEN (next - 1) % SnMod ELSE poll_sn
      /\ poll_timer' = (p \/ poll_timer)
      /\ UNCHANGED <<sdus, tx_next_ack, acked, rxVars, reports, lost, down>>

GenerateRetx(g) ==
  /\ retransmit_list # {}
  /\ LET s == First(retransmit_list)
     IN  /\ g <= s.size
         /\ Transmit(Front(s, g), tx_list,
                     (retransmit_list \ {s})
                       \cup (IF g < s.size THEN {Rest(s, g)} ELSE {}),
                     tx_next, FALSE)

\* New data goes out when there is nothing to send again, or when the grant has
\* no room for the longer header of what there is.
GenerateTx(g, due) ==
  /\ tx_list # <<>>
  /\ ~is_window_stalling(tx_next)
  /\ LET h == Head(tx_list)
         new == h.sn = None
         s == IF new THEN [h EXCEPT !.sn = tx_next] ELSE h
     IN  /\ retransmit_list # {} =>
              ShortGrant /\ First(retransmit_list).so > 0 /\ s.so = 0
         /\ g <= s.size
         /\ Transmit(Front(s, g),
                     (IF g < s.size THEN <<Rest(s, g)>> ELSE <<>>) \o Tail(tx_list),
                     retransmit_list,
                     IF new THEN Plus(tx_next, 1) ELSE tx_next, due)

\* check_t_poll_retransmit: the first SDU of the wait list is sent again.  There
\* is no test for an empty list.
ExpirePoll ==
  /\ poll_timer
  /\ poll_timer' = FALSE
  /\ force_poll' = TRUE
  /\ IF ~check_poll_after_pdu_assembly(tx_list, retransmit_list, tx_next)
       THEN UNCHANGED <<wait_list, retransmit_list, down>>
       ELSE IF wait_list = {}
         THEN down' = "poll" /\ UNCHANGED <<wait_list, retransmit_list>>
         ELSE LET again == {s \in wait_list : s.sn = First(wait_list).sn}
              IN  /\ wait_list' = wait_list \ again
                  /\ retransmit_list' = retransmit_list \cup again
                  /\ UNCHANGED down
  /\ UNCHANGED <<sdus, tx_list, tx_next, tx_next_ack, poll_sn, acked, rxVars,
                 data, reports, lost>>

-----------------------------------------------------------------------------
(* Reception of data.                                                      *)

ModRx(next, sn) == (sn - next) % SnMod

sdu_full(S) == \E l \in S : l.last /\ 0..(l.so - 1) \subseteq BytesOf(S)

sdu_has_missing_bytes(slot) ==
  \E l \in slot.pdus : ~(0..(l.so - 1) \subseteq BytesOf(slot.pdus))

\* How many SDUs from sn on are delivered; the ring has only window_size places.
DeliveredRun(ring, sn) ==
  CHOOSE k \in 0..window_size :
    /\ \A j \in 0..(k - 1) : ring[Slot(sn + j)].done
    /\ k = window_size \/ ~ring[Slot(sn + k)].done

\* Something is missing below hi, not counting what follows sn(highest byte).
Gap(ring, next, hi, sn) ==
  \/ ModRx(next, hi) > ModRx(next, Plus(sn, 1))
  \/ hi = Plus(sn, 1) /\ sdu_has_missing_bytes(ring[Slot(sn)])

\* Fault: a timer that is stopped is not started for what is still missing.
ReassemblyOnce(ring, next, hi) ==
  LET trig == rx_next_status_trigger
      runs == /\ reassembly_timer
              /\ trig # next
              /\ ~(trig = Plus(next, 1) /\ ~sdu_has_missing_bytes(ring[Slot(next)]))
              /\ ModRx(next, trig) <= window_size
  IN  IF ~reassembly_timer /\ Gap(ring, next, hi, next)
        THEN reassembly_timer' = TRUE /\ rx_next_status_trigger' = hi
        ELSE reassembly_timer' = runs /\ UNCHANGED rx_next_status_trigger

\* The timer t_reassembly after a PDU was stored: stopped when the SN it waits for
\* is reached, then started when something is missing.
Reassembly(ring, next, hi) ==
  LET trig == rx_next_status_trigger
      runs == /\ reassembly_timer
              /\ trig # next
              /\ ~(trig = Plus(next, 1) /\ ~sdu_has_missing_bytes(ring[Slot(next)]))
              /\ ModRx(next, trig) <= window_size
  IN  IF ~runs /\ Gap(ring, next, hi, next)
        THEN reassembly_timer' = TRUE /\ rx_next_status_trigger' = hi
        ELSE reassembly_timer' = runs /\ UNCHANGED rx_next_status_trigger

Highest(sn) ==
  IF ModRx(rx_next, sn) >= ModRx(rx_next, rx_next_highest)
    THEN Plus(sn, 1) ELSE rx_next_highest

\* reception_actions: the SDU is delivered when it is complete.  The walk of
\* rx_highest_status over delivered SDUs does not end when they fill the ring.
Store(s) ==
  LET stored == rx[Slot(s.sn)].pdus \cup {s}
      full == sdu_full(stored)
      ring == [rx EXCEPT ![Slot(s.sn)] =
                 IF full THEN Done ELSE [pdus |-> stored, done |-> FALSE]]
      run == DeliveredRun(ring, s.sn)
      hi == Highest(s.sn)
      moves == full /\ s.sn = rx_next
      next == IF moves THEN Plus(rx_next, run) ELSE rx_next
      kept == IF moves
                THEN [k \in DOMAIN ring |->
                        IF \E j \in 0..(run - 1) : k = Slot(rx_next + j)
                          THEN Empty ELSE ring[k]]
                ELSE ring
  IN  /\ delivered' = IF full THEN [delivered EXCEPT ![s.id] = @ + 1] ELSE delivered
      /\ IF full /\ s.sn = rx_highest_status /\ run = window_size
           THEN /\ down' = "ring"
                /\ rx' = ring /\ rx_next_highest' = hi
                /\ UNCHANGED <<rx_next, rx_highest_status, reassembly_timer,
                               rx_next_status_trigger>>
           ELSE /\ rx' = kept
                /\ rx_next' = next
                /\ rx_next_highest' = hi
                /\ rx_highest_status' = IF full /\ s.sn = rx_highest_status
                                          THEN Plus(s.sn, run)
                                          ELSE rx_highest_status
                /\ Reassembly(kept, next, hi)
                /\ UNCHANGED down

Discarded(s) ==
  \/ ModRx(rx_next, s.sn) >= window_size
  \/ rx[Slot(s.sn)].done
  \/ Bytes(s) \subseteq BytesOf(rx[Slot(s.sn)].pdus)

RecvData(d) ==
  /\ data' = data \ {d}
  /\ status_triggered' = (status_triggered \/ d.p)
  /\ \/ /\ Discarded(d.seg)
        /\ UNCHANGED <<rx, rx_next, rx_next_highest, rx_highest_status,
                       rx_next_status_trigger, reassembly_timer, delivered, down>>
     \/ ~Discarded(d.seg) /\ Store(d.seg)
  /\ UNCHANGED <<sdus, txVars, reports, lost>>

\* check_t_reassembly
ExpireReassembly ==
  LET hs == Plus(rx_next_status_trigger, DeliveredRun(rx, rx_next_status_trigger))
      again == Gap(rx, rx_next, rx_next_highest, hs)
  IN  /\ reassembly_timer
      /\ rx_highest_status' = hs
      /\ status_triggered' = TRUE
      /\ reassembly_timer' = again
      /\ rx_next_status_trigger' = IF again THEN rx_next_highest
                                   ELSE rx_next_status_trigger
      /\ UNCHANGED <<sdus, txVars, rx, rx_next, rx_next_highest, delivered, data,
                     reports, lost, down>>

-----------------------------------------------------------------------------
(* Status reports.                                                         *)

Nack(sn, from, to) == [sn |-> sn, from |-> from, to |-> to]

\* The missing ranges of bytes of one SDU.
Missing(sn) ==
  LET slot == rx[Slot(sn)]
      got == BytesOf(slot.pdus)
      starts == {b + 1 : b \in got} \ got
  IN  IF slot.done THEN {}
      ELSE {Nack(sn, b, (CHOOSE e \in got : e > b /\ b..(e - 1) \cap got = {}) - 1) :
              b \in {c \in starts \cup ({0} \ got) : \E e \in got : e > c}}
           \cup {Nack(sn, b, End) :
                   b \in {c \in starts \cup ({0} \ got) :
                            /\ \A e \in got : e < c
                            /\ \A l \in slot.pdus : ~l.last}}

\* next_missing: what is missing from rx_next to rx_highest_status, if anything
\* at all was received there.
AllMissing ==
  LET len == ModRx(rx_next, rx_highest_status)
  IN  IF \A k \in 0..len : rx[Slot(rx_next + k)] = Empty
        THEN {}
        ELSE UNION {Missing(Plus(rx_next, k)) : k \in 0..(len - 1)}

NackBefore(a, b) ==
  \/ ModRx(rx_next, a.sn) < ModRx(rx_next, b.sn)
  \/ a.sn = b.sn /\ a.from < b.from

\* Two ranges that one NACK with a range of SNs reports.
Joined(a, b) == a.to = End /\ b.from = 0 /\ b.sn = Plus(a.sn, 1)

LastOf(S) == CHOOSE a \in S : \A b \in S \ {a} : NackBefore(b, a)

\* What fits into the grant: the first NACKs, as long as they are whole.
Fits(P, S) ==
  /\ P \subseteq S
  /\ \A a \in P, b \in S : NackBefore(b, a) \/ Joined(a, b) => b \in P

\* When the window is full the place behind it is that of rx_next: the range
\* that follows the last PDU then ends at the head of rx_next, and the sender
\* refuses the report.
Wrapped(P) ==
  /\ P # {}
  /\ rx_highest_status = Plus(rx_next, window_size)
  /\ LastOf(P).sn = Plus(rx_next, window_size - 1) /\ LastOf(P).to = End
  /\ rx[Slot(rx_next)].pdus # {} /\ 0 \notin BytesOf(rx[Slot(rx_next)].pdus)

\* Fault: a truncated report acknowledges all it could have reported on.
AckOfHighest(P) == IF P = {} THEN rx_next ELSE rx_highest_status

AckOf(P) == IF P = {} THEN rx_next ELSE Plus(LastOf(P).sn, 1)

\* The report: truncated, it takes its last NACK to the end of the SDU.
Report(P, S) ==
  IF Wrapped(P)
    THEN [ack |-> rx_next, nacks |-> {}, good |-> FALSE]
    ELSE [ack |-> AckOf(P),
          nacks |-> IF P = S \/ P = {} THEN P
                    ELSE (P \ {LastOf(P)}) \cup {[LastOf(P) EXCEPT !.to = End]},
          good |-> TRUE]

GenerateStatus ==
  /\ status_triggered
  /\ status_triggered' = FALSE
  /\ \E P \in SUBSET AllMissing :
       /\ Fits(P, AllMissing)
       /\ reports' = reports \cup {Report(P, AllMissing)}
  /\ Cardinality(reports') <= StatusCap
  /\ UNCHANGED <<sdus, txVars, rx, rx_next, rx_next_highest, rx_highest_status,
                 rx_next_status_trigger, reassembly_timer, delivered, data, lost,
                 down>>

Refused(r) ==
  \/ ~r.good
  \/ modulus_tx(r.ack) > modulus_tx(tx_next)
  \/ \E n \in r.nacks : modulus_tx(n.sn) > modulus_tx(r.ack)

\* Fault: a segment of which only the last byte is missing counts as received.
NackedShort(r, s) ==
  \E n \in r.nacks :
    /\ n.sn = s.sn
    /\ n.from + 1 < s.so + s.size
    /\ n.to = End \/ s.so <= n.to

Nacked(r, s) ==
  \E n \in r.nacks :
    /\ n.sn = s.sn
    /\ n.from < s.so + s.size
    /\ n.to = End \/ s.so <= n.to

\* The oldest SN the sender still waits for, as far as its two lists tell.
OldestUnacked(ack, wait, retx) ==
  LET cands == {tx_next, ack} \cup {s.sn : s \in wait \cup retx}
  IN  CHOOSE a \in cands : \A b \in cands : modulus_tx(a) <= modulus_tx(b)

\* Fault: only a report that asks for the polled PDU again stops the timer.
PollNacked(r) == \E n \in r.nacks : n.sn = poll_sn

\* The report answers the latest poll.
PollAnswered(r) ==
  \/ modulus_tx(poll_sn) < modulus_tx(r.ack)
  \/ \E n \in r.nacks : n.sn = poll_sn

\* process_control_pdu past its checks
Acknowledge(r) ==
  LET gone == {s \in wait_list \cup retransmit_list :
                 ~Nacked(r, s) /\ modulus_tx(s.sn) < modulus_tx(r.ack)}
      hit == {s \in wait_list : Nacked(r, s)}
      wait == wait_list \ (gone \cup hit)
      retx == (retransmit_list \ gone) \cup hit
      left == wait \cup retx \cup {tx_list[k] : k \in 1..Len(tx_list)}
  IN  /\ wait_list' = wait
      /\ retransmit_list' = retx
      /\ acked' = acked \cup ({s.id : s \in gone} \ {s.id : s \in left})
      /\ poll_timer' = (poll_timer /\ ~PollAnswered(r))
      /\ tx_next_ack' = OldestUnacked(r.ack, wait, retx)

RecvStatus(r) ==
  /\ reports' = reports \ {r}
  /\ \/ /\ Refused(r)
        /\ UNCHANGED <<wait_list, retransmit_list, acked, poll_timer, tx_next_ack>>
     \/ ~Refused(r) /\ Acknowledge(r)
  /\ UNCHANGED <<sdus, tx_list, tx_next, poll_sn, force_poll, rxVars, data, lost,
                 down>>

-----------------------------------------------------------------------------
(* The environment: what MAC and the lengths of the two timers allow.      *)

\* What MAC lets arrive: no PDU is older than a window.
InReach(s) == Cardinality({i \in Ids : i >= s.id /\ delivered[i] > 0}) <= window_size

\* The rest of an SDU whose first bytes were sent still waits to be sent.
TailUnsent == tx_list # <<>> /\ Head(tx_list).sn # None

\* Nothing can be sent, nothing is on its way and no report is to come.
Quiet ==
  /\ retransmit_list = {}
  /\ tx_list = <<>> \/ is_window_stalling(tx_next)
  /\ data = {} /\ reports = {} /\ ~status_triggered
  /\ reassembly_timer => TailUnsent

\* t_poll_retransmit is longer than a round trip, unless EarlyPoll.
PollMayExpire == EarlyPoll \/ Quiet

\* t_reassembly is longer than the sending of an SDU, unless EarlyReassembly.
ReassemblyMayExpire == EarlyReassembly \/ ~TailUnsent

LoseData(d) ==
  /\ lost < MaxLoss \/ ~InReach(d.seg)
  /\ lost' = IF InReach(d.seg) THEN lost + 1 ELSE lost
  /\ data' = data \ {d}
  /\ UNCHANGED <<sdus, txVars, rxVars, reports, down>>

LoseStatus(r) ==
  /\ lost < MaxLoss
  /\ lost' = lost + 1
  /\ reports' = reports \ {r}
  /\ UNCHANGED <<sdus, txVars, rxVars, data, down>>

MaxSize == CHOOSE m \in Sizes : \A k \in Sizes : k <= m

GeneratePdu ==
  \E g \in 1..MaxSize : GenerateRetx(g) \/ \E due \in PollDue : GenerateTx(g, due)

Next ==
  /\ down = "no"
  /\ \/ \E size \in Sizes : RecvSdu(size)
     \/ GeneratePdu
     \/ GenerateStatus
     \/ \E d \in data : (InReach(d.seg) /\ RecvData(d)) \/ LoseData(d)
     \/ \E r \in reports : RecvStatus(r) \/ LoseStatus(r)
     \/ PollMayExpire /\ ExpirePoll
     \/ ReassemblyMayExpire /\ ExpireReassembly

Spec == Init /\ [][Next]_vars

\* MAC serves a bearer that has something to send, PDUs that are not lost arrive,
\* and timers expire.
FairSpec ==
  /\ Spec
  /\ WF_vars(down = "no" /\ GeneratePdu)
  /\ WF_vars(down = "no" /\ GenerateStatus)
  /\ \A i \in Ids, so \in 0..(MaxSize - 1) :
       WF_vars(/\ down = "no"
               /\ \E d \in data : /\ d.seg.id = i /\ d.seg.so = so
                                  /\ (InReach(d.seg) /\ RecvData(d)) \/ LoseData(d))
  /\ WF_vars(down = "no" /\ \E r \in reports : RecvStatus(r))
  /\ WF_vars(down = "no" /\ PollMayExpire /\ ExpirePoll)
  /\ WF_vars(down = "no" /\ ReassemblyMayExpire /\ ExpireReassembly)

-----------------------------------------------------------------------------
(* Properties.                                                             *)

TypeOK ==
  /\ sdus \in Seq(Sizes) /\ Len(sdus) <= N
  /\ \A k \in 1..Len(tx_list) : tx_list[k] \in Segment
  /\ wait_list \subseteq Segment /\ retransmit_list \subseteq Segment
  /\ {tx_next, tx_next_ack, poll_sn, rx_next, rx_next_highest, rx_highest_status,
      rx_next_status_trigger} \subseteq Sns
  /\ {poll_timer, force_poll, reassembly_timer, status_triggered} \subseteq BOOLEAN
  /\ acked \subseteq Ids
  /\ \A k \in DOMAIN rx : rx[k].pdus \subseteq Segment /\ rx[k].done \in BOOLEAN
  /\ delivered \in [Ids -> Nat]
  /\ \A d \in data : d.seg \in Segment /\ d.p \in BOOLEAN
  /\ lost \in 0..MaxLoss
  /\ down \in {"no", "poll", "ring"}

\* No SDU is delivered twice, and an SDU is reported as successfully delivered
\* only when the peer delivered it (nr_rlc_entity_am.c:223-287, 656-704).
AckedDeliveredOnce ==
  \A i \in Ids : delivered[i] <= 1 /\ (i \in acked => delivered[i] = 1)

Unacked(i) ==
  {s \in wait_list \cup retransmit_list \cup {tx_list[k] : k \in 1..Len(tx_list)} :
     s.id = i}

\* The sender holds every byte the receiver does not have, and no byte twice
\* (nr_rlc_entity_am.c:475-704, 965-992, 1581-1764, 1860-1946).
NothingForgotten ==
  \A i \in 1..Len(sdus) :
    /\ \A b \in 0..(sdus[i] - 1) :
         \/ b \in BytesOf(Unacked(i))
         \/ delivered[i] > 0
         \/ \E k \in DOMAIN rx : \E s \in rx[k].pdus : s.id = i /\ b \in Bytes(s)
    /\ \A s, t \in Unacked(i) : s = t \/ Bytes(s) \cap Bytes(t) = {}

\* The receiver's window is inside the sender's, and that is no longer than half
\* of the SNs, so that SNs compare the same way on both sides.
WindowsNested ==
  /\ modulus_tx(rx_next) <= modulus_tx(rx_highest_status)
  /\ modulus_tx(rx_highest_status) <= modulus_tx(rx_next_highest)
  /\ modulus_tx(rx_next_highest) <= modulus_tx(tx_next)
  /\ modulus_tx(tx_next) <= window_size

\* No SDU that is not completely acknowledged lies behind the sender's window.
\* The code looks at two of its three lists when it moves the window (lines
\* 718-734): when t_reassembly expires while the rest of an SDU waits in tx_list,
\* a report may take the window past that SDU.
NoneLeftBehind ==
  \A i \in Ids : \A s \in Unacked(i) :
    s.sn # None => modulus_tx(s.sn) < modulus_tx(tx_next)

\* Leaving an SDU behind is the only way the two windows come apart: stale and
\* cut reports, retransmissions, early timers and the wrap of the SNs do not do it
\* (nr_rlc_entity_am.c:33-66, 223-287, 718-734, 877-886).
WindowsAgree == TypeOK /\ (NoneLeftBehind => WindowsNested)

\* While t_poll_retransmit runs and nothing waits to be sent, there is a segment
\* to send again when it expires: the code takes the head of the wait list
\* without a test (nr_rlc_entity_am.c:1894-1910).  Reports that answer an earlier
\* poll may come when a later poll has started the timer again.
PollHeadExists ==
  poll_timer /\ tx_list = <<>> /\ retransmit_list = {} => wait_list # {}

\* Whatever is missing below the highest SN is watched: t_reassembly runs, or it
\* expired and the next report reaches that far (nr_rlc_entity_am.c:264-286,
\* 1948-1980).
GapWatched ==
  /\ down = "no"
  /\ Gap(rx, rx_next, rx_next_highest, rx_next)
  => reassembly_timer \/ ~Gap(rx, rx_next, rx_next_highest, rx_highest_status)

\* Every SDU handed down is reported as delivered, unless an entity stops
\* (nr_rlc_entity_am.c:1783-1806, 1860-1946, 1948-1980).
EverySduAcked ==
  \A i \in Ids : Len(sdus) >= i ~> i \in acked \/ down # "no"

=============================================================================
