---------------------------- MODULE Subscription ----------------------------
(***************************************************************************)
(* Report and control procedures from an xApp through the iApp and the     *)
(* near-RT RIC to the E2 agent and back.                                   *)
(*                                                                         *)
(* A call of the user's thread (report_sm_sync_xapp,                       *)
(* rm_report_sm_sync_xapp, control_sm_sync_xapp) registers a procedure     *)
(* under a local number, sends the request and waits for the event loop to *)
(* signal the answer.  The iApp replaces the local number by a request     *)
(* number of the RIC and keeps the pair in map_ric_id; the RIC keeps a     *)
(* pending event; the agent keeps an indication event per subscription.    *)
(* Answers and indications are handled by the workers of the RIC's pool,   *)
(* in any order, and translated back through map_ric_id.                   *)
(*                                                                         *)
(* An xApp may end at any time.  The iApp listens to SCTP_SEND_FAILED      *)
(* only, so it notices when something it sends to the xApp comes back, and *)
(* then deletes the xApp's subscriptions itself (rm_if_pending_subs).      *)
(*                                                                         *)
(* One agent, which stays connected (E2Setup), and xApps that are already  *)
(* connected.  A timer of the RIC that expires changes nothing, those of   *)
(* the xApp end it and are not modelled.  An assertion that fails is       *)
(* recorded in asserts, and nothing happens after it.                      *)
(***************************************************************************)
EXTENDS Integers, Sequences, FiniteSets, SequencesExt

CONSTANTS
  XApps,       \* the numbers the iApp gave to the xApps
  FirstReq,    \* first request number of the RIC
  MaxProc,     \* bound: procedures the xApps start altogether
  RicThreads,  \* NUM_THREADS_RIC
  Shared,      \* do the xApps use the same RAN function
  Prompt       \* no thread is held up for as long as a round trip takes

ASSUME SubscriptionAssumption ==
  /\ XApps \subseteq Nat
  /\ IsFiniteSet(XApps)
  /\ FirstReq \in Nat \ {0}
  /\ MaxProc \in Nat
  /\ RicThreads \in Nat \ {0}
  /\ Shared \in BOOLEAN
  /\ Prompt \in BOOLEAN

VARIABLES
  up,       \* is the xApp running
  ui,       \* its user's thread: where it is, in which call, about which number
  flag,     \* sync.flag_sync
  act,      \* act_proc: local numbers in use
  nextk,    \* next local number
  xpend,    \* the kinds of its pending events
  x2i,      \* from the xApp to the iApp
  i2x,      \* from the iApp to the xApp
  bounced,  \* xApps to which something could not be sent
  map,      \* map_ric_id: request number -> xApp, its local number, type
  req,      \* req_id of the RIC
  rpend,    \* pending events of the RIC
  pool,     \* tasks of the RIC: messages received and how far they are
  toAg,     \* from the RIC to the agent
  toRic,    \* from the agent to the RIC
  ind,      \* indication events of the agent
  asserts   \* assertions that failed

xappVars == <<up, ui, flag, act, nextk, xpend>>
vars == <<xappVars, x2i, i2x, bounced, map, req, rpend, pool, toAg, toRic, ind,
          asserts>>

Kinds == {"sub", "del", "ctrl"}
Idle == [pc |-> "idle", kind |-> "none", k |-> 0]
RanFunc(x) == IF Shared THEN 0 ELSE x

Init ==
  /\ up = [x \in XApps |-> TRUE]
  /\ ui = [x \in XApps |-> Idle]
  /\ flag = [x \in XApps |-> FALSE]
  /\ act = [x \in XApps |-> {}]
  /\ nextk = [x \in XApps |-> 1]
  /\ xpend = [x \in XApps |-> {}]
  /\ x2i = [x \in XApps |-> << >>]
  /\ i2x = [x \in XApps |-> << >>]
  /\ bounced = {}
  /\ map = << >>
  /\ req = FirstReq
  /\ rpend = {}
  /\ pool = << >>
  /\ toAg = << >>
  /\ toRic = << >>
  /\ ind = {}
  /\ asserts = {}
-----------------------------------------------------------------------------
(***************************************************************************)
(* The user's thread of an xApp.                                           *)
(***************************************************************************)
Call(x, kind, k) ==
  /\ ui' = [ui EXCEPT ![x] = [pc |-> "sent", kind |-> kind, k |-> k]]
  /\ x2i' = [x2i EXCEPT ![x] = Append(@, [kind |-> kind, k |-> k])]

\* The procedures started so far.
Started == UNION {{x} \X (1..(nextk[x] - 1)) : x \in XApps}

\* add_act_proc: numbers are never used again.
Register(x) ==
  /\ Cardinality(Started) < MaxProc
  /\ act' = [act EXCEPT ![x] = @ \cup {nextk[x]}]
  /\ nextk' = [nextk EXCEPT ![x] = @ + 1]

\* report_sm_sync_xapp: the pending event exists before the request is sent.
Report(x) ==
  /\ up[x] /\ ui[x].pc = "idle"
  /\ Register(x)
  /\ xpend' = [xpend EXCEPT ![x] = @ \cup {"sub"}]
  /\ Call(x, "sub", nextk[x])
  /\ UNCHANGED <<up, flag, i2x, bounced, map, req, rpend, pool, toAg, toRic,
                 ind, asserts>>

\* control_sm_sync_xapp: the request is sent before the pending event exists.
Control(x) ==
  /\ up[x] /\ ui[x].pc = "idle"
  /\ Register(x)
  /\ Call(x, "ctrl", nextk[x])
  /\ UNCHANGED <<up, flag, xpend, i2x, bounced, map, req, rpend, pool, toAg,
                 toRic, ind, asserts>>

\* rm_report_sm_sync_xapp, called with the number a report returned: the
\* request is sent before the pending event exists.
RmReport(x, k) ==
  /\ up[x] /\ ui[x].pc = "idle"
  /\ k \in act[x]
  /\ Call(x, "del", k)
  /\ UNCHANGED <<up, flag, act, nextk, xpend, i2x, bounced, map, req, rpend,
                 pool, toAg, toRic, ind, asserts>>

\* add_pending_event_xapp after the request was sent.
UiPend(x) ==
  /\ up[x] /\ ui[x].pc = "sent" /\ ui[x].kind # "sub"
  /\ xpend' = [xpend EXCEPT ![x] = @ \cup {ui[x].kind}]
  /\ ui' = [ui EXCEPT ![x].pc = "pended"]
  /\ UNCHANGED <<up, flag, act, nextk, x2i, i2x, bounced, map, req, rpend, pool,
                 toAg, toRic, ind, asserts>>

\* cond_wait_sync_ui takes the mutex and clears the flag.
UiWait(x) ==
  /\ up[x]
  /\ ui[x].pc = "pended" \/ (ui[x].pc = "sent" /\ ui[x].kind = "sub")
  /\ flag' = [flag EXCEPT ![x] = FALSE]
  /\ ui' = [ui EXCEPT ![x].pc = "wait"]
  /\ UNCHANGED <<up, act, nextk, xpend, x2i, i2x, bounced, map, req, rpend, pool,
                 toAg, toRic, ind, asserts>>

\* cond_wait_sync_ui returns; the calls that end a procedure remove it.
UiReturn(x) ==
  /\ up[x] /\ ui[x].pc = "wait" /\ flag[x]
  /\ act' = [act EXCEPT ![x] = IF ui[x].kind = "sub" THEN @ ELSE @ \ {ui[x].k}]
  /\ ui' = [ui EXCEPT ![x] = Idle]
  /\ UNCHANGED <<up, flag, nextk, xpend, x2i, i2x, bounced, map, req, rpend, pool,
                 toAg, toRic, ind, asserts>>

\* The xApp ends, by free_e42_xapp or abruptly: what it has not read is gone
\* and may come back to the iApp, what it has sent may be lost.
XappEnd(x) ==
  /\ up[x]
  /\ up' = [up EXCEPT ![x] = FALSE]
  /\ ui' = [ui EXCEPT ![x] = Idle]
  /\ flag' = [flag EXCEPT ![x] = FALSE]
  /\ act' = [act EXCEPT ![x] = {}]
  /\ xpend' = [xpend EXCEPT ![x] = {}]
  /\ \E sent \in {x2i[x], << >>} : x2i' = [x2i EXCEPT ![x] = sent]
  /\ i2x' = [i2x EXCEPT ![x] = << >>]
  /\ \E b \in SUBSET {x} :
       /\ b # {} => i2x[x] # << >>
       /\ bounced' = bounced \cup b
  /\ UNCHANGED <<nextk, map, req, rpend, pool, toAg, toRic, ind, asserts>>
-----------------------------------------------------------------------------
(***************************************************************************)
(* The event loop of an xApp.                                              *)
(***************************************************************************)
\* An indication is passed to the dispatcher, or ignored when its procedure
\* has been removed.
XappIndication(x) ==
  /\ i2x[x] # << >> /\ Head(i2x[x]).kind = "ind"
  /\ i2x' = [i2x EXCEPT ![x] = Tail(@)]
  /\ UNCHANGED <<xappVars, x2i, bounced, map, req, rpend, pool, toAg, toRic, ind,
                 asserts>>

\* The answer to a request: its procedure and its pending event are looked up,
\* the event is removed (they are compared by kind alone) and the user's
\* thread is told.
XappAnswer(x) ==
  /\ i2x[x] # << >> /\ Head(i2x[x]).kind # "ind"
  /\ LET m == Head(i2x[x]) IN
     /\ asserts' = asserts
          \cup {a \in {"ric_req_id not registered"} : m.k \notin act[x]}
          \cup {a \in {"xApp pending event"} : m.kind \notin xpend[x]}
     /\ xpend' = [xpend EXCEPT ![x] = @ \ {m.kind}]
  /\ flag' = [flag EXCEPT ![x] = TRUE]
  /\ i2x' = [i2x EXCEPT ![x] = Tail(@)]
  /\ UNCHANGED <<up, ui, act, nextk, x2i, bounced, map, req, rpend, pool, toAg,
                 toRic, ind>>
-----------------------------------------------------------------------------
(***************************************************************************)
(* The iApp's event loop, which calls the RIC.                             *)
(***************************************************************************)
\* e2ap_handle_e42_ric_subscription_request_iapp and
\* e2ap_handle_e42_ric_control_request_iapp with fwd_ric_..._request: the map
\* stays locked from the choice of the number until the pair is entered.
IappRequest(x) ==
  /\ x2i[x] # << >> /\ Head(x2i[x]).kind # "del"
  /\ LET m == Head(x2i[x]) IN
     /\ rpend' = rpend \cup {[kind |-> m.kind, id |-> req]}
     /\ toAg' = Append(toAg, [kind |-> m.kind, id |-> req])
     /\ map' = [i \in DOMAIN map \cup {req} |->
                  IF i = req THEN [x |-> x, k |-> m.k, type |-> m.kind]
                             ELSE map[i]]
     /\ asserts' = asserts \cup {a \in {"ric_req_id already in the map"} :
                                   req \in DOMAIN map}
  /\ req' = req + 1
  /\ x2i' = [x2i EXCEPT ![x] = Tail(@)]
  /\ UNCHANGED <<xappVars, i2x, bounced, pool, toRic, ind>>

\* Deletions of all the numbers ids, in their order.
SendDeletes(ids) ==
  \E s \in [1..Cardinality(ids) -> ids] :
    /\ \A a, b \in DOMAIN s : a < b => s[a] < s[b]
    /\ toAg' = toAg \o [n \in DOMAIN s |-> [kind |-> "del", id |-> s[n]]]

\* Fault: a deletion is sent again while the same one is pending.
FwdDeleteAgain(ids) ==
  /\ rpend' = rpend \cup {[kind |-> "del", id |-> i] : i \in ids}
  /\ SendDeletes(ids)

\* fwd_ric_subscription_request_delete for each of the numbers: nothing is sent
\* for a deletion that is already pending.
FwdDelete(ids) ==
  LET fresh == {i \in ids : [kind |-> "del", id |-> i] \notin rpend} IN
  /\ rpend' = rpend \cup {[kind |-> "del", id |-> i] : i \in fresh}
  /\ SendDeletes(fresh)

\* Fault: the RAN function is not compared either.
SameIdNumberOnly(x, k, i) == map[i].k = k

\* eq_xapp_ric_gen_id: local number and RAN function are compared, the number
\* of the xApp is compared with itself.
SameId(x, k, i) == map[i].k = k /\ RanFunc(map[i].x) = RanFunc(x)

\* Fault: the pair is forgotten when the deletion is requested.
IappDeleteForgets(x) ==
  /\ x2i[x] # << >> /\ Head(x2i[x]).kind = "del"
  /\ LET found == {i \in DOMAIN map : SameId(x, Head(x2i[x]).k, i)} IN
     /\ FwdDelete(found)
     /\ map' = [i \in DOMAIN map \ found |-> map[i]]
  /\ x2i' = [x2i EXCEPT ![x] = Tail(@)]
  /\ UNCHANGED <<xappVars, i2x, bounced, req, pool, toRic, ind, asserts>>

\* e2ap_handle_e42_ric_subscription_delete_request_iapp: the first match in the
\* map, which is ordered by the number of the xApp, is deleted.
IappDelete(x) ==
  /\ x2i[x] # << >> /\ Head(x2i[x]).kind = "del"
  /\ LET found == {i \in DOMAIN map : SameId(x, Head(x2i[x]).k, i)}
         first == {i \in found : \A j \in found : map[i].x <= map[j].x}
     IN  /\ FwdDelete(first)
         /\ asserts' = asserts
              \cup {a \in {"Not found xApp RIC ID"} : found = {}}
              \cup {a \in {"not a subscription"} :
                      \E i \in first : map[i].type # "sub"}
  /\ x2i' = [x2i EXCEPT ![x] = Tail(@)]
  /\ UNCHANGED <<xappVars, i2x, bounced, map, req, pool, toRic, ind>>

\* Fault: the notification is read and the subscriptions stay.
IappBounceIgnored(x) ==
  /\ x \in bounced /\ x2i[x] = << >>
  /\ bounced' = bounced \ {x}
  /\ UNCHANGED <<xappVars, x2i, i2x, map, req, rpend, pool, toAg, toRic, ind,
                 asserts>>

\* A notification that something could not be sent to x: rm_if_pending_subs.
\* It is behind all that x sent in the socket's queue.
IappBounce(x) ==
  /\ x \in bounced /\ x2i[x] = << >>
  /\ bounced' = bounced \ {x}
  /\ FwdDelete({i \in DOMAIN map : map[i].x = x /\ map[i].type = "sub"})
  /\ UNCHANGED <<xappVars, x2i, i2x, map, req, pool, toRic, ind, asserts>>
-----------------------------------------------------------------------------
(***************************************************************************)
(* The agent's event loop.                                                 *)
(***************************************************************************)
\* Fault: a deletion that finds no indication event is not answered.
AgentHandleQuiet ==
  /\ toAg # << >>
  /\ LET m == Head(toAg) IN
     /\ ind' = CASE m.kind = "sub" -> ind \cup {m.id}
                 [] m.kind = "del" -> ind \ {m.id}
                 [] OTHER -> ind
     /\ toRic' = IF m.kind = "del" /\ m.id \notin ind THEN toRic
                 ELSE Append(toRic, m)
  /\ toAg' = Tail(toAg)
  /\ UNCHANGED <<xappVars, x2i, i2x, bounced, map, req, rpend, pool, asserts>>

\* e2ap_handle_subscription_request_agent, ..._delete_request_agent and
\* ..._control_request_agent: each is answered, a deletion also when there is
\* no indication event for it.
AgentHandle ==
  /\ toAg # << >>
  /\ LET m == Head(toAg) IN
     /\ ind' = CASE m.kind = "sub" -> ind \cup {m.id}
                 [] m.kind = "del" -> ind \ {m.id}
                 [] OTHER -> ind
     /\ toRic' = Append(toRic, m)
  /\ toAg' = Tail(toAg)
  /\ UNCHANGED <<xappVars, x2i, i2x, bounced, map, req, rpend, pool, asserts>>

\* Bound: one indication of a subscription is under way at a time.
UnderWay(i) ==
  \/ \E m \in Range(toRic) : m.kind = "ind" /\ m.id = i
  \/ \E t \in Range(pool) : t.kind = "ind" /\ t.id = i
  \/ i \in DOMAIN map /\ \E m \in Range(i2x[map[i].x]) : m.kind = "ind"

\* The timer of an indication event expires.
AgentIndicate(i) ==
  /\ i \in ind
  /\ ~UnderWay(i)
  /\ toRic' = Append(toRic, [kind |-> "ind", id |-> i])
  /\ UNCHANGED <<xappVars, x2i, i2x, bounced, map, req, rpend, pool, toAg, ind,
                 asserts>>
-----------------------------------------------------------------------------
(***************************************************************************)
(* The RIC: its event loop hands every message to the pool.                *)
(***************************************************************************)
RicReceive ==
  /\ toRic # << >>
  /\ pool' = Append(pool, [kind |-> Head(toRic).kind, id |-> Head(toRic).id,
                           pc |-> "start"])
  /\ toRic' = Tail(toRic)
  /\ UNCHANGED <<xappVars, x2i, i2x, bounced, map, req, rpend, toAg, ind, asserts>>

\* A worker runs task j, or is free to begin it.
MayRun(j) ==
  \/ pool[j].pc # "start"
  \/ Cardinality({n \in DOMAIN pool : pool[n].pc # "start"}) < RicThreads

\* The iApp sends a message about request id to the xApp it belongs to, under
\* the xApp's own number.
ToXapp(id, kind) ==
  LET x == map[id].x IN
  IF up[x] THEN /\ i2x' = [i2x EXCEPT ![x] = Append(@, [kind |-> kind,
                                                        k |-> map[id].k])]
                /\ bounced' = bounced
           ELSE /\ i2x' = i2x
                /\ bounced' = bounced \cup {x}

\* e2ap_handle_indication_ric, e2ap_handle_ric_indication_iapp: dropped when
\* the request number is not in the map.
TaskIndication(j) ==
  /\ pool[j].kind = "ind" /\ MayRun(j)
  /\ IF pool[j].id \in DOMAIN map THEN ToXapp(pool[j].id, "ind")
                                  ELSE UNCHANGED <<i2x, bounced>>
  /\ pool' = RemoveAt(pool, j)
  /\ UNCHANGED <<xappVars, x2i, map, req, rpend, toAg, toRic, ind, asserts>>

\* stop_pending_event, the first thing done for an answer.
TaskStopPending(j) ==
  /\ pool[j].kind # "ind" /\ pool[j].pc = "start" /\ MayRun(j)
  /\ LET ev == [kind |-> pool[j].kind, id |-> pool[j].id] IN
     /\ asserts' = asserts \cup {a \in {"RIC pending event"} : ev \notin rpend}
     /\ rpend' = rpend \ {ev}
  /\ pool' = [pool EXCEPT ![j].pc = "find"]
  /\ UNCHANGED <<xappVars, x2i, i2x, bounced, map, req, toAg, toRic, ind>>

\* Fault: the answer to a deletion is not passed on.
TaskFindSilent(j) ==
  /\ pool[j].pc = "find"
  /\ UNCHANGED <<i2x, bounced, asserts>>
  /\ pool' = IF pool[j].kind = "sub" THEN RemoveAt(pool, j)
             ELSE [pool EXCEPT ![j].pc = "rm"]
  /\ UNCHANGED <<xappVars, x2i, map, req, rpend, toAg, toRic, ind>>

\* The iApp looks the request number up and sends the answer on.  Only for a
\* deletion may it be missing.
TaskFind(j) ==
  /\ pool[j].pc = "find"
  /\ LET t == pool[j] IN
     IF t.id \in DOMAIN map
     THEN /\ ToXapp(t.id, t.kind)
          /\ asserts' = asserts
          /\ pool' = IF t.kind = "sub" THEN RemoveAt(pool, j)
                     ELSE [pool EXCEPT ![j].pc = "rm"]
     ELSE /\ UNCHANGED <<i2x, bounced>>
          /\ asserts' = asserts \cup {a \in {"RIC Req Id not found!"} :
                                        t.kind # "del"}
          /\ pool' = RemoveAt(pool, j)
  /\ UNCHANGED <<xappVars, x2i, map, req, rpend, toAg, toRic, ind>>

\* rm_map_ric_id after the answer to a deletion or a control request was sent.
TaskRemove(j) ==
  /\ pool[j].pc = "rm"
  /\ asserts' = asserts \cup {a \in {"rm_map_ric_id"} : pool[j].id \notin DOMAIN map}
  /\ map' = [i \in DOMAIN map \ {pool[j].id} |-> map[i]]
  /\ pool' = RemoveAt(pool, j)
  /\ UNCHANGED <<xappVars, x2i, i2x, bounced, req, rpend, toAg, toRic, ind>>
-----------------------------------------------------------------------------
(***************************************************************************)
(* The environment.  The actions above happen whenever the code lets them. *)
(* When threads are prompt, a user's thread has come to its wait before    *)
(* the answer is back, and a worker has finished with a request number     *)
(* before the answer to the next request about it arrives.                 *)
(***************************************************************************)
PromptUser(x) == Prompt => ui[x].pc = "wait"

PromptWorkers ==
  (Prompt /\ toRic # << >> /\ Head(toRic).kind = "del") =>
    ~\E t \in Range(pool) : t.kind # "ind" /\ t.id = Head(toRic).id
-----------------------------------------------------------------------------
Ui(x) == Report(x) \/ Control(x) \/ (\E k \in 1..MaxProc : RmReport(x, k))
UiStep(x) == UiPend(x) \/ UiWait(x) \/ UiReturn(x)
XappStep(x) == XappIndication(x) \/ (PromptUser(x) /\ XappAnswer(x))
IappStep(x) == IappRequest(x) \/ IappDelete(x) \/ IappBounce(x)
Task(j) == TaskIndication(j) \/ TaskStopPending(j) \/ TaskFind(j) \/ TaskRemove(j)

Running == asserts = {}

Next ==
  /\ Running
  /\ \/ \E x \in XApps : Ui(x) \/ UiStep(x) \/ XappEnd(x) \/ XappStep(x) \/ IappStep(x)
     \/ AgentHandle
     \/ \E i \in ind : AgentIndicate(i)
     \/ PromptWorkers /\ RicReceive
     \/ \E j \in DOMAIN pool : Task(j)

Spec == Init /\ [][Next]_vars

(***************************************************************************)
(* Threads and event loops keep running, indication timers keep expiring,  *)
(* a worker finishes what it began, and the oldest task is begun in the    *)
(* end (TaskPool!EveryTaskRuns).  Nobody has to call or to end.            *)
(***************************************************************************)
Fairness ==
  /\ \A x \in XApps : /\ WF_vars(Running /\ UiStep(x))
                      /\ WF_vars(Running /\ XappStep(x))
                      /\ WF_vars(Running /\ IappRequest(x))
                      /\ WF_vars(Running /\ IappDelete(x))
                      /\ WF_vars(Running /\ IappBounce(x))
  /\ WF_vars(Running /\ AgentHandle)
  /\ \A i \in FirstReq..(FirstReq + MaxProc) :
       WF_vars(Running /\ AgentIndicate(i))
  /\ WF_vars(Running /\ PromptWorkers /\ RicReceive)
  /\ WF_vars(Running /\ \E j \in DOMAIN pool : pool[j].pc # "start" /\ Task(j))
  /\ SF_vars(Running /\ pool # << >> /\ Task(1))

FairSpec == Spec /\ Fairness
-----------------------------------------------------------------------------
ReqIds == Nat \ {0}
Msg == [kind : Kinds \cup {"ind"}, id : ReqIds]

TypeOK ==
  /\ up \in [XApps -> BOOLEAN]
  /\ ui \in [XApps -> {Idle} \cup
               [pc : {"sent", "pended", "wait"}, kind : Kinds, k : 1..MaxProc]]
  /\ flag \in [XApps -> BOOLEAN]
  /\ act \in [XApps -> SUBSET (1..MaxProc)]
  /\ nextk \in [XApps -> 1..(MaxProc + 1)]
  /\ xpend \in [XApps -> SUBSET Kinds]
  /\ x2i \in [XApps -> Seq([kind : Kinds, k : 1..MaxProc])]
  /\ i2x \in [XApps -> Seq([kind : Kinds \cup {"ind"}, k : 1..MaxProc])]
  /\ bounced \subseteq XApps
  /\ DOMAIN map \subseteq ReqIds
  /\ \A i \in DOMAIN map : map[i] \in [x : XApps, k : 1..MaxProc, type : Kinds]
  /\ req \in ReqIds
  /\ rpend \subseteq [kind : Kinds, id : ReqIds]
  /\ pool \in Seq([kind : Kinds \cup {"ind"}, id : ReqIds,
                   pc : {"start", "find", "rm"}])
  /\ toAg \in Seq(Msg)
  /\ toRic \in Seq(Msg)
  /\ ind \subseteq ReqIds

\* None of the assertions on identifiers and pending events fails, in the
\* xApp, the iApp or the RIC, whatever the order of the workers and whenever
\* an xApp ends.
NoAssertFails == asserts = {}

\* An answer that reaches an xApp answers the call its user's thread is in:
\* never another xApp's, never one that has returned.
AnswersMatchCalls ==
  \A x \in XApps : up[x] =>
    \A m \in Range(i2x[x]) : m.kind # "ind" =>
      /\ ui[x].pc # "idle"
      /\ ui[x].kind = m.kind
      /\ ui[x].k = m.k

\* The agent never reports under a request number the iApp has forgotten.
NoOrphan == TypeOK /\ ind \subseteq DOMAIN map

\* When nothing is under way, all four agree: every procedure an xApp holds is
\* one pair in the map and one indication event of the agent, and nothing is
\* pending anywhere.
Quiet ==
  /\ toAg = << >> /\ toRic = << >> /\ pool = << >> /\ bounced = {}
  /\ \A x \in XApps : x2i[x] = << >> /\ i2x[x] = << >> /\ ui[x].pc = "idle"
QuietAgrees ==
  Quiet /\ Running =>
    /\ rpend = {}
    /\ ind = DOMAIN map
    /\ \A x \in XApps : /\ xpend[x] = {}
                        /\ up[x] => act[x] = {map[i].k : i \in {j \in ind : map[j].x = x}}

\* Every call of the user's thread returns, unless the xApp is ended.
CallsReturn == \A x \in XApps : ui[x].pc # "idle" ~> ui[x].pc = "idle"

\* The subscriptions of an xApp that ended are removed from the map in the end,
\* without its help (and from the agent before, NoOrphan).
DeadCleaned ==
  \A x \in XApps :
    ~up[x] ~> \A i \in DOMAIN map : map[i].x # x
=============================================================================
