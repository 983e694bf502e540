---------------------------- MODULE IsacPipeline ----------------------------
(***************************************************************************)
(* The whole way of a CSI snapshot: PHY, ring, E2 agent, RIC, xApp.        *)
(*                                                                         *)
(* The agent's indication timer of a subscription reads the ring (IsacRing,*)
(* read_isac_sm) and sends what it got as one indication; the RIC's event  *)
(* loop receives it and hands it to its task pool; a worker decodes it and *)
(* forwards it through the iApp to the subscriber; the xApp's event loop   *)
(* passes it to its dispatcher thread, which calls sm_cb_isac              *)
(* (examples/xApp/c/monitor/xapp_isac_moni.c).                             *)
(*                                                                         *)
(* SCTP delivers in order.  The pool does not: with two workers the tasks  *)
(* of two messages run side by side (TaskPool), so any waiting message may *)
(* be the next one forwarded.  Subscriptions exist from the beginning and  *)
(* are not deleted here (Subscription); each belongs to an xApp of its     *)
(* own.  Indications are assumed to fit the 32 kB receive buffer of        *)
(* e2ap_recv_sctp_msg.                                                     *)
(***************************************************************************)
EXTENDS IsacRing, SequencesExt

CONSTANTS
  Subs,        \* subscriptions to the ISAC service model
  RicThreads   \* NUM_THREADS_RIC

ASSUME PipelineAssumption == RicThreads \in Nat \ {0}

VARIABLES
  net,      \* indications between agent and RIC
  pool,     \* received by the RIC, not yet forwarded, oldest first
  sock,     \* for every subscription: sent by the iApp, not yet read
  disp,     \* its xApp's dispatcher queue
  xapp,     \* the counters of its callback
  rec,      \* history: numbers of the snapshots it wrote to its file
  ow        \* history: numbers of the snapshots overwritten unread

pipeVars == <<net, pool, sock, disp, xapp, rec, ow>>
allVars == <<vars, pipeVars>>

PInit ==
  /\ Init
  /\ net = << >>
  /\ pool = << >>
  /\ sock = [s \in Subs |-> << >>]
  /\ disp = [s \in Subs |-> << >>]
  /\ xapp = [s \in Subs |-> [cnt_snap |-> 0, last_seq |-> 0, lost_seq |-> 0,
                             last_dropped |-> 0]]
  /\ rec = [s \in Subs |-> << >>]
  /\ ow = {}

\* handle_srs publishes a new estimate.
PhyPublish(len) ==
  /\ Publish(len) \/ PublishNoMem(len)
  /\ ow' = IF Full THEN ow \cup {rd} ELSE ow
  /\ UNCHANGED <<net, pool, sock, disp, xapp, rec>>

\* Fault: the drop counter sent is the one of the reading before.
PollStale(s, n) ==
  /\ Drain(n)
  /\ net' = IF n = 0 THEN net
            ELSE Append(net, [sub |-> s, snap |-> out'.snap,
                              dropped |-> out.dropped])
  /\ UNCHANGED <<pool, sock, disp, xapp, rec, ow>>

\* The indication timer of subscription s expired: nothing is sent when the
\* ring was empty.
Poll(s, n) ==
  /\ Drain(n)
  /\ net' = IF n = 0 THEN net
            ELSE Append(net, [sub |-> s, snap |-> out'.snap,
                              dropped |-> dropped])
  /\ UNCHANGED <<pool, sock, disp, xapp, rec, ow>>

\* The RIC's event loop reads one message and hands it to the task pool.
RicReceive ==
  /\ net # << >>
  /\ pool' = Append(pool, Head(net))
  /\ net' = Tail(net)
  /\ UNCHANGED <<vars, sock, disp, xapp, rec, ow>>

\* A worker finishes the task of the k-th waiting message:
\* e2ap_handle_indication_ric, e2ap_handle_ric_indication_iapp.
RicForward(k) ==
  /\ RicThreads = 1 => k = 1
  /\ LET m == pool[k] IN
     sock' = [sock EXCEPT ![m.sub] = Append(@, m)]
  /\ pool' = RemoveAt(pool, k)
  /\ UNCHANGED <<vars, net, disp, xapp, rec, ow>>

\* Fault: the message is read and not given to the dispatcher.
XappReceiveDrops(s) ==
  /\ sock[s] # << >>
  /\ sock' = [sock EXCEPT ![s] = Tail(@)]
  /\ UNCHANGED <<vars, net, pool, disp, xapp, rec, ow>>

\* e2ap_handle_indication_xapp: the subscription's callback is registered.
XappReceive(s) ==
  /\ sock[s] # << >>
  /\ disp' = [disp EXCEPT ![s] = Append(@, Head(sock[s]))]
  /\ sock' = [sock EXCEPT ![s] = Tail(@)]
  /\ UNCHANGED <<vars, net, pool, xapp, rec, ow>>

\* Fault: the snapshot received is counted among the lost ones.
CountSnapInclusive(c, x) ==
  [c EXCEPT !.cnt_snap = @ + 1,
            !.last_seq = x.seq,
            !.lost_seq = IF c.cnt_snap > 0 /\ x.seq # (c.last_seq + 1) % W32
                         THEN @ + ((x.seq - c.last_seq) % W32) ELSE @]

\* What sm_cb_isac does to its counters for one snapshot: a gap in the
\* 32-bit sequence numbers is added to the 64-bit lost_seq.
CountSnap(c, x) ==
  LET gap == (x.seq - c.last_seq - 1) % W32 IN
  [c EXCEPT !.cnt_snap = @ + 1,
            !.last_seq = x.seq,
            !.lost_seq = IF c.cnt_snap > 0 /\ x.seq # (c.last_seq + 1) % W32
                         THEN @ + gap ELSE @]

\* Its loop over the snapshots of a message.
CountAll(c, snap) ==
  LET f[k \in 0..Len(snap)] == IF k = 0 THEN c ELSE CountSnap(f[k - 1], snap[k])
  IN  f[Len(snap)]

\* The dispatcher thread calls sm_cb_isac with the oldest message.
Callback(s) ==
  /\ disp[s] # << >>
  /\ LET m == Head(disp[s])
         c == CountAll(xapp[s], m.snap)
     IN  /\ xapp' = [xapp EXCEPT ![s] = [c EXCEPT !.last_dropped = m.dropped]]
         /\ rec' = [rec EXCEPT ![s] = @ \o [k \in DOMAIN m.snap |-> m.snap[k].iq]]
  /\ disp' = [disp EXCEPT ![s] = Tail(@)]
  /\ UNCHANGED <<vars, net, pool, sock, ow>>

PNext ==
  \/ \E len \in Lens : PhyPublish(len)
  \/ \E s \in Subs, n \in 0..MaxDrain : Poll(s, n)
  \/ RicReceive
  \/ \E k \in 1..Len(pool) : RicForward(k)
  \/ \E s \in Subs : XappReceive(s) \/ Callback(s)

PSpec == PInit /\ [][PNext]_allVars

(***************************************************************************)
(* The timers of the agent keep expiring, the event loops and dispatchers  *)
(* keep running, and the task of the oldest waiting message is finished in *)
(* the end (TaskPool!EveryTaskRuns).                                       *)
(***************************************************************************)
PFairness ==
  /\ WF_allVars(\E s \in Subs, n \in 1..MaxDrain : Poll(s, n))
  /\ WF_allVars(RicReceive)
  /\ WF_allVars(pool # << >> /\ RicForward(1))
  /\ \A s \in Subs : /\ WF_allVars(XappReceive(s))
                     /\ WF_allVars(Callback(s))

PFairSpec == PSpec /\ PFairness
-----------------------------------------------------------------------------
Message == [sub : Subs, snap : Seq(Snapshot), dropped : 0..(W32 - 1)]

PTypeOK ==
  /\ TypeOK
  /\ net \in Seq(Message)
  /\ pool \in Seq(Message)
  /\ sock \in [Subs -> Seq(Message)]
  /\ disp \in [Subs -> Seq(Message)]
  /\ xapp \in [Subs -> [cnt_snap : Nat, last_seq : 0..(W32 - 1),
                        lost_seq : Nat, last_dropped : 0..(W32 - 1)]]
  /\ rec \in [Subs -> Seq(Nat)]
  /\ ow \subseteq Nat

\* No snapshot is written twice, by one subscriber or by two, and none that
\* was overwritten in the ring is written at all.
RecordedOnce ==
  /\ PTypeOK
  /\ \A s, t \in Subs : \A i \in DOMAIN rec[s], j \in DOMAIN rec[t] :
       /\ rec[s][i] \notin ow
       /\ rec[s][i] = rec[t][j] => s = t /\ i = j

\* The drop counter an indication carries belongs to its snapshots: it counts
\* exactly those overwritten before the last one written, however late or out
\* of order the indication arrived.
DropsDated ==
  \A s \in Subs :
    rec[s] # << >> =>
      xapp[s].last_dropped = Cardinality({i \in ow : i < Last(rec[s])}) % W32

\* While indications arrive in order the gap count is exact: it is the number
\* of snapshots missing between the first and the last one written, across
\* the wrap of the 32-bit number ("gNB-side `seq` lets the xApp detect any gap
\* end-to-end", README of isac_sensing).
LostSeqExact ==
  \A s \in Subs :
    (\A i, j \in DOMAIN rec[s] : i < j => rec[s][i] < rec[s][j]) /\ rec[s] # << >> =>
      xapp[s].lost_seq = Last(rec[s]) - rec[s][1] + 1 - xapp[s].cnt_snap

\* "nothing is lost as long as the ring (32) is not outrun": without an
\* overwritten snapshot the xApp reports none lost (README of isac_sensing).
NoLossUnlessOutrun == ow = {} => \A s \in Subs : xapp[s].lost_seq = 0

\* Every snapshot the PHY stored is written by a subscriber in the end, or
\* was overwritten in the ring: none gets stuck or lost on the way.
EverySnapshotSettles ==
  \A i \in 0..(MaxPub - 1) :
    wr > i ~> i \in ow \/ \E s \in Subs : \E k \in DOMAIN rec[s] : rec[s][k] = i
=============================================================================
