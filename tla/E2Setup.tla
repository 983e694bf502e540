------------------------------- MODULE E2Setup -------------------------------
(***************************************************************************)
(* The E2 SETUP procedure between one E2 agent and the near-RT RIC         *)
(* (src/agent, src/ric, src/lib/msg_hand/reg_e2_nodes.c).                  *)
(*                                                                         *)
(* The agent sends a request and arms a 3 s timer that resends it until    *)
(* the response stops the timer; the loss of the connection arms another.  *)
(* The RIC handles a request in its task pool, one lock at a time, while   *)
(* its event loop handles the shutdown of a connection itself.  Either     *)
(* process may stop and start again.  SCTP keeps the order of a connection *)
(* and loses only what was under way when a side stopped.                  *)
(*                                                                         *)
(* An assertion that fails aborts the process; here it is recorded in      *)
(* "failed" and nothing happens any more.                                  *)
(***************************************************************************)
EXTENDS Integers, Sequences, SequencesExt

CONSTANTS
  MaxReq,           \* bound: setup requests the agent sends
  MaxStops          \* bound: stops of the agent, and of the RIC

ASSUME SetupAssumption == MaxReq \in Nat /\ MaxStops \in Nat

VARIABLES
  ag,       \* the agent: running, pending setup timers, trans_id_setup_req
  ric,      \* the RIC: running, its three registries of the E2 node
  net,      \* from the agent to the RIC
  back,     \* from the RIC to the agent
  tasks,    \* setup requests in the RIC's pool, each with its next step
  loop,     \* where the RIC's event loop is in notification_handle_ric
  conn,     \* the agent's current connection
  sent,     \* requests sent, for the bound
  stops,    \* stops so far, for the bound
  failed    \* the assertions that failed

vars == <<ag, ric, net, back, tasks, loop, conn, sent, stops, failed>>

FreshRic == [up |-> TRUE, sad |-> << >>, iapp |-> FALSE, nodes |-> 0]

Init ==
  /\ ag = [up |-> FALSE, pend |-> 0, trans |-> 0]
  /\ ric = FreshRic
  /\ net = << >>
  /\ back = << >>
  /\ tasks = {}
  /\ loop = "idle"
  /\ conn = 0
  /\ sent = 0
  /\ stops = [agent |-> 0, ric |-> 0]
  /\ failed = {}

\* A request to a RIC that is not running is lost.
Send(c) ==
  /\ sent < MaxReq
  /\ sent' = sent + 1
  /\ net' = IF ric.up THEN Append(net, [type |-> "setup", conn |-> c, id |-> sent])
            ELSE net

-----------------------------------------------------------------------------
\* e2_start_agent: timer, then request.
AgentStart ==
  /\ ~ag.up
  /\ ag' = [up |-> TRUE, pend |-> 1, trans |-> 1]
  /\ conn' = conn + 1
  /\ Send(conn')
  /\ UNCHANGED <<ric, back, tasks, loop, stops, failed>>


\* PENDING_EVENT of the agent's loop, after the assertion in pend_event.
SetupTimeout ==
  /\ ag.up /\ ag.pend > 0
  /\ IF ag.pend = 1
     THEN /\ ag' = [ag EXCEPT !.trans = @ + 1]
          /\ Send(conn)
          /\ UNCHANGED failed
     ELSE /\ failed' = failed \cup {"pending size"}
          /\ UNCHANGED <<ag, net, sent>>
  /\ UNCHANGED <<ric, back, tasks, loop, conn, stops>>

\* e2ap_handle_setup_response_agent: stop the timer, forget the transaction.
SetupResponse ==
  /\ ag.up /\ back # << >> /\ Head(back) = "resp"
  /\ back' = Tail(back)
  /\ IF ag.pend > 0 /\ ag.trans > 0
     THEN /\ ag' = [ag EXCEPT !.pend = @ - 1, !.trans = 0]
          /\ UNCHANGED failed
     ELSE /\ failed' = failed \cup {"no pending setup"}
          /\ UNCHANGED ag
  /\ UNCHANGED <<ric, net, tasks, loop, conn, sent, stops>>

\* Fault: the loss of the connection is not followed by a new setup.
ConnectionLostIgnored ==
  /\ ag.up /\ back # << >> /\ Head(back) = "shutdown"
  /\ back' = Tail(back)
  /\ UNCHANGED <<ag, ric, net, tasks, loop, conn, sent, stops, failed>>

\* notification_handle_ag: the connection is lost, another timer is armed.
ConnectionLost ==
  /\ ag.up /\ back # << >> /\ Head(back) = "shutdown"
  /\ back' = Tail(back)
  /\ ag' = [ag EXCEPT !.pend = @ + 1]
  /\ UNCHANGED <<ric, net, tasks, loop, conn, sent, stops, failed>>

\* e2_free_agent, at any time: the socket is closed.
AgentStop ==
  /\ ag.up
  /\ stops.agent < MaxStops
  /\ ag' = [up |-> FALSE, pend |-> 0, trans |-> 0]
  /\ back' = << >>
  /\ net' = IF ric.up THEN Append(net, [type |-> "shutdown", conn |-> conn, id |-> 0])
            ELSE net
  /\ stops' = [stops EXCEPT !.agent = @ + 1]
  /\ UNCHANGED <<ric, tasks, loop, conn, sent, failed>>
-----------------------------------------------------------------------------
\* The RIC's event loop hands a request to the task pool ...
RicReceive ==
  /\ ric.up /\ loop = "idle"
  /\ net # << >> /\ Head(net).type = "setup"
  /\ tasks' = tasks \cup {[id |-> Head(net).id, conn |-> Head(net).conn, pc |-> "reg"]}
  /\ net' = Tail(net)
  /\ UNCHANGED <<ag, ric, back, loop, conn, sent, stops, failed>>

Advance(t, pc) == tasks' = (tasks \ {t}) \cup {[t EXCEPT !.pc = pc]}

\* ... whose worker registers the address of the node (a bi_map, which takes
\* the same pair twice), ...
TaskRegister(t) ==
  /\ ric.up /\ t.pc = "reg"
  /\ ric' = [ric EXCEPT !.sad = Append(@, t.conn)]
  /\ Advance(t, "add")
  /\ UNCHANGED <<ag, net, back, loop, conn, sent, stops, failed>>

\* Fault: a node that is registered is replaced, without the assertion.
TaskAddNodeAgain(t) ==
  /\ ric.up /\ t.pc = "add"
  /\ ric' = [ric EXCEPT !.iapp = TRUE]
  /\ Advance(t, "push")
  /\ UNCHANGED <<ag, net, back, loop, conn, sent, stops, failed>>

\* ... adds it to the iApp's registry, ...
TaskAddNode(t) ==
  /\ ric.up /\ t.pc = "add"
  /\ IF ric.iapp
     THEN failed' = failed \cup {"node exists"} /\ UNCHANGED <<ric, tasks>>
     ELSE /\ ric' = [ric EXCEPT !.iapp = TRUE]
          /\ Advance(t, "push")
          /\ UNCHANGED failed
  /\ UNCHANGED <<ag, net, back, loop, conn, sent, stops>>

\* ... to the connected nodes, ...
TaskPushNode(t) ==
  /\ ric.up /\ t.pc = "push"
  /\ ric' = [ric EXCEPT !.nodes = @ + 1]
  /\ Advance(t, "answer")
  /\ UNCHANGED <<ag, net, back, loop, conn, sent, stops, failed>>

\* ... and answers, to the address the request came from.
TaskAnswer(t) ==
  /\ ric.up /\ t.pc = "answer"
  /\ tasks' = tasks \ {t}
  /\ back' = IF ag.up /\ t.conn = conn THEN Append(back, "resp") ELSE back
  /\ UNCHANGED <<ag, ric, net, loop, conn, sent, stops, failed>>

\* Fault: the address is looked up and kept.
RicShutdownAddrKept ==
  /\ ric.up /\ loop = "idle"
  /\ net # << >> /\ Head(net).type = "shutdown"
  /\ net' = Tail(net)
  /\ loop' = "node"
  /\ UNCHANGED <<ag, ric, back, tasks, conn, sent, stops, failed>>

\* notification_handle_ric, in the event loop: forget the address (of a node
\* with two the bi_map may find the other, and asserts that it has not), ...
RicShutdownAddr ==
  /\ ric.up /\ loop = "idle"
  /\ net # << >> /\ Head(net).type = "shutdown"
  /\ net' = Tail(net)
  /\ LET c == Head(net).conn
         known == \E i \in DOMAIN ric.sad : ric.sad[i] = c
         other == \E i \in DOMAIN ric.sad : ric.sad[i] # c
     IN \/ /\ known
           /\ ric' = [ric EXCEPT !.sad = RemoveFirst(@, c)]
           /\ loop' = "node"
           /\ UNCHANGED failed
        \/ /\ ~known \/ other
           /\ failed' = failed \cup {"unknown address"}
           /\ UNCHANGED <<ric, loop>>
  /\ UNCHANGED <<ag, back, tasks, conn, sent, stops>>

\* ... the connected node ...
RicShutdownNode ==
  /\ ric.up /\ loop = "node"
  /\ IF ric.nodes > 0
     THEN ric' = [ric EXCEPT !.nodes = @ - 1] /\ loop' = "iapp" /\ UNCHANGED failed
     ELSE failed' = failed \cup {"node not found"} /\ UNCHANGED <<ric, loop>>
  /\ UNCHANGED <<ag, net, back, tasks, conn, sent, stops>>

\* ... and the iApp's entry.
RicShutdownIapp ==
  /\ ric.up /\ loop = "iapp"
  /\ IF ric.iapp
     THEN ric' = [ric EXCEPT !.iapp = FALSE] /\ loop' = "idle" /\ UNCHANGED failed
     ELSE failed' = failed \cup {"node not registered"} /\ UNCHANGED <<ric, loop>>
  /\ UNCHANGED <<ag, net, back, tasks, conn, sent, stops>>

\* The RIC process ends: its registries and what was on the way are gone, and
\* a running agent sees the shutdown.
RicStop ==
  /\ ric.up
  /\ stops.ric < MaxStops
  /\ ric' = [FreshRic EXCEPT !.up = FALSE]
  /\ net' = << >>
  /\ tasks' = {}
  /\ loop' = "idle"
  /\ back' = IF ag.up THEN Append(back, "shutdown") ELSE back
  /\ stops' = [stops EXCEPT !.ric = @ + 1]
  /\ UNCHANGED <<ag, conn, sent, failed>>

RicStart ==
  /\ ~ric.up
  /\ ric' = FreshRic
  /\ UNCHANGED <<ag, net, back, tasks, loop, conn, sent, stops, failed>>
-----------------------------------------------------------------------------
TaskStep(t) ==
  TaskRegister(t) \/ TaskAddNode(t) \/ TaskPushNode(t) \/ TaskAnswer(t)

RicLoop == RicReceive \/ RicShutdownAddr \/ RicShutdownNode \/ RicShutdownIapp

Next ==
  /\ failed = {}
  /\ \/ AgentStart \/ SetupTimeout \/ SetupResponse \/ ConnectionLost \/ AgentStop
     \/ RicLoop \/ (\E t \in tasks : TaskStep(t))
     \/ RicStop \/ RicStart

Spec == Init /\ [][Next]_vars

\* Event loops, workers and timers go on; a RIC that stopped is started
\* again.  Nobody has to stop anything.
Fairness ==
  /\ WF_vars(failed = {} /\ SetupTimeout)
  /\ WF_vars(failed = {} /\ (SetupResponse \/ ConnectionLost))
  /\ WF_vars(failed = {} /\ RicLoop)
  /\ WF_vars(failed = {} /\ \E t \in tasks : TaskStep(t))
  /\ WF_vars(failed = {} /\ RicStart)

FairSpec == Spec /\ Fairness
-----------------------------------------------------------------------------
TypeOK ==
  /\ ag \in [up : BOOLEAN, pend : Nat, trans : Nat]
  /\ ric \in [up : BOOLEAN, sad : Seq(Nat), iapp : BOOLEAN, nodes : Nat]
  /\ net \in Seq([type : {"setup", "shutdown"}, conn : Nat, id : Nat])
  /\ back \in Seq({"resp", "shutdown"})
  /\ tasks \subseteq [id : Nat, conn : Nat, pc : {"reg", "add", "push", "answer"}]
  /\ loop \in {"idle", "node", "iapp"}
  /\ conn \in Nat
  /\ sent \in 0..MaxReq
  /\ stops \in [agent : 0..MaxStops, ric : 0..MaxStops]

\* The RIC's three registries of the node (addresses, iApp, connected nodes)
\* agree whenever no task or shutdown is half done: the node is in all of
\* them, once, or in none.
RegistriesAgree ==
  /\ TypeOK
  /\ tasks = {} /\ loop = "idle" =>
       \/ ric.sad = << >> /\ ~ric.iapp /\ ric.nodes = 0
       \/ Len(ric.sad) = 1 /\ ric.iapp /\ ric.nodes = 1

\* An agent that believes its setup is complete is registered, unless a stop
\* of the RIC is still to be noticed.
SetupMeansRegistered ==
  ag.up /\ ag.pend = 0 /\ failed = {} =>
    \/ ric.iapp /\ ric.nodes > 0 /\ \E i \in DOMAIN ric.sad : ric.sad[i] = conn
    \/ \E i \in DOMAIN back : back[i] = "shutdown"

\* A shutdown that has forgotten the connected node still finds its entry in
\* the iApp, and no worker is putting the node back in between: a request that
\* overtakes the shutdown is stopped by the assertion of add_reg_e2_node.
ShutdownUndisturbed ==
  loop = "iapp" => /\ ric.iapp /\ ric.nodes = 0
                   /\ \A t \in tasks : t.pc # "push"

=============================================================================
