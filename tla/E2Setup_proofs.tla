--------------------------- MODULE E2Setup_proofs ---------------------------
(***************************************************************************)
(* Proofs about the E2 SETUP procedure, for every number of requests and   *)
(* restarts and without an assumption on the environment: timers expire    *)
(* while answers are under way, and both sides stop at any time.           *)
(* Assertions do fail then.  What is proved holds until one fails, and in  *)
(* the state it leaves behind.                                             *)
(*                                                                         *)
(* The registries agree because each step of a worker and of a shutdown    *)
(* keeps two balances: nodes of the iApp against connected nodes, and      *)
(* addresses against both, each with what is half done (IappCount,         *)
(* SadCount).  What the agent believes is true because the shutdown of a   *)
(* connection is its last message and the event loop finishes it before it *)
(* takes the next (Ordered): while a request of the present connection is  *)
(* served, and after it was answered, no shutdown is before or beside it   *)
(* (ServedAlone, Here).                                                    *)
(***************************************************************************)
EXTENDS E2Setup, FiniteSets, FiniteSetTheorems, SequenceTheorems, WellFoundedInduction,
        TLAPS

Msgs == [type : {"setup", "shutdown"}, conn : Nat, id : Nat]
Pcs == {"reg", "add", "push", "answer"}
Tasks == [id : Nat, conn : Nat, pc : Pcs]
Rics == [up : BOOLEAN, sad : Seq(Nat), iapp : BOOLEAN, nodes : Nat]

\* The tasks at one of their steps.
At(pc) == {t \in tasks : t.pc = pc}

\* How many of one thing.
One(b) == IF b THEN 1 ELSE 0

\* What the registries hold, by the workers and the shutdowns half done: a node
\* of the iApp is still to be pushed, pushed, or erased from the nodes alone, ...
IappCount == One(ric.iapp) = Cardinality(At("push")) + ric.nodes + One(loop = "iapp")

\* ... and an address is of a node still to be added, of one still to be pushed
\* or of one pushed; a node loses its address first.
SadCount ==
  Len(ric.sad) + One(loop = "node") =
    Cardinality(At("add")) + Cardinality(At("push")) + ric.nodes

\* A request is in the network or in the pool, once.
RequestsOnce ==
  /\ IsFiniteSet(tasks)
  /\ \A t \in tasks : t.id < sent
  /\ \A t, u \in tasks : t.id = u.id => t = u
  /\ \A i \in 1..Len(net) : net[i].type = "setup" =>
       /\ net[i].id < sent
       /\ \A t \in tasks : t.id # net[i].id
       /\ \A j \in 1..Len(net) : net[j].type = "setup" /\ net[j].id = net[i].id => i = j

\* Messages arrive in the order of the connections, and a shutdown is the last
\* message of its connection.
Ordered ==
  /\ \A t \in tasks : t.conn <= conn
  /\ \A i \in 1..Len(net) : net[i].conn <= conn
  /\ \A i \in 1..Len(net) : net[i].type = "shutdown" /\ ag.up => net[i].conn < conn
  /\ \A i, j \in 1..Len(net) : i < j => net[i].conn <= net[j].conn

NoShutdown == loop = "idle" /\ \A i \in 1..Len(net) : net[i].type # "shutdown"

HasAddress == \E i \in 1..Len(ric.sad) : ric.sad[i] = conn

\* While the agent's own request is served no shutdown is before or beside it.
ServedAlone ==
  ag.up =>
    \A t \in tasks : t.conn = conn =>
      /\ NoShutdown
      /\ t.pc # "reg" => HasAddress
      /\ t.pc = "answer" => ric.nodes > 0

\* The agent's connection is registered, and stays so until someone stops.
Here == ric.up /\ NoShutdown /\ HasAddress /\ ric.nodes > 0

\* An answer that was sent, and not followed by the end of the RIC, is true ...
AnswersTrue ==
  \A i \in 1..Len(back) :
    back[i] = "resp" /\ (\A j \in 1..Len(back) : j > i => back[j] # "shutdown") => Here

\* ... and so is what the agent believes.
BeliefTrue ==
  ag.up /\ ag.pend = 0 => Here \/ \E j \in 1..Len(back) : back[j] = "shutdown"

Stopped ==
  /\ ~ag.up => back = << >>
  /\ ~ric.up => /\ tasks = {} /\ net = << >> /\ loop = "idle"
                /\ ric.nodes = 0 /\ ric.sad = << >> /\ ~ric.iapp

IInv ==
  /\ TypeOK /\ IappCount /\ SadCount /\ RequestsOnce /\ Ordered /\ ServedAlone
  /\ AnswersTrue /\ BeliefTrue /\ Stopped

-----------------------------------------------------------------------------
(* Sequences and sets of tasks.                                            *)

\* A sequence with an element more.
LEMMA Appended ==
  ASSUME NEW S, NEW s \in Seq(S), NEW e \in S
  PROVE  /\ Append(s, e) \in Seq(S) /\ Len(Append(s, e)) = Len(s) + 1 /\ Len(s) \in Nat
         /\ \A n \in 1..Len(s) : Append(s, e)[n] = s[n]
         /\ Append(s, e)[Len(s) + 1] = e
BY AppendProperties

\* A sequence without its first element.
LEMMA Tailed ==
  ASSUME NEW S, NEW s \in Seq(S), s # << >>
  PROVE  /\ Tail(s) \in Seq(S) /\ Len(s) \in Nat /\ Len(s) >= 1 /\ Len(Tail(s)) = Len(s) - 1
         /\ Head(s) = s[1] /\ Head(s) \in S
         /\ \A n \in 1..(Len(s) - 1) : Tail(s)[n] = s[n + 1]
<1>1. Len(s) \in Nat /\ Len(s) >= 1
  BY EmptySeq
<1>2. Tail(s) \in Seq(S) /\ Len(Tail(s)) = Len(s) - 1 /\ Head(s) \in S
  BY HeadTailProperties
<1>3. Head(s) = s[1] /\ \A n \in 1..(Len(s) - 1) : Tail(s)[n] = s[n + 1]
  OBVIOUS
<1> QED
  BY <1>1, <1>2, <1>3

\* A set of naturals that is not empty has a least element.
LEMMA LeastOf ==
  ASSUME NEW T, T \subseteq Nat, T # {}
  PROVE  \E n \in T : \A m \in T : n <= m
<1> DEFINE R == OpToRel(<, Nat)
<1>1. \A x, y \in Nat : y < x => <<y, x>> \in R
  BY DEF OpToRel
<1>2. IsWellFoundedOn(R, Nat)
  BY NatLessThanWellFounded
<1> HIDE DEF R
<1>3. PICK n \in T : \A y \in T : ~(<<y, n>> \in R)
  BY <1>2, WFMin
<1>4. \A y \in T : ~(y < n)
  BY <1>1, <1>3
<1> QED
  BY <1>4

\* A sequence without its j-th element is one shorter.
LEMMA RemovedAt ==
  ASSUME NEW S, NEW s \in Seq(S), NEW j \in 1..Len(s)
  PROVE  RemoveAt(s, j) \in Seq(S) /\ Len(RemoveAt(s, j)) = Len(s) - 1
<1> DEFINE a == SubSeq(s, 1, j - 1)
           b == SubSeq(s, j + 1, Len(s))
<1>1. PICK l \in Nat : l = Len(s)
  OBVIOUS
<1>2. a \in Seq(S) /\ Len(a) = j - 1
  <2>1. a = [n \in 1..(j - 1) |-> s[n]] /\ \A n \in 1..(j - 1) : s[n] \in S
    OBVIOUS
  <2>2. j - 1 \in Nat
    OBVIOUS
  <2> HIDE DEF a
  <2> QED
    BY <2>1, <2>2
<1>3. b \in Seq(S) /\ Len(b) = l - j
  <2>1. b = [n \in 1..(l - j) |-> s[n + j]] /\ \A n \in 1..(l - j) : s[n + j] \in S
    BY <1>1
  <2>2. l - j \in Nat
    BY <1>1
  <2> HIDE DEF b
  <2> QED
    BY <2>1, <2>2
<1>4. RemoveAt(s, j) = a \o b
  BY DEF RemoveAt
<1> HIDE DEF a, b
<1>5. a \o b \in Seq(S) /\ Len(a \o b) = Len(a) + Len(b)
  BY <1>2, <1>3, ConcatProperties
<1> QED
  BY <1>1, <1>2, <1>3, <1>4, <1>5

\* Forgetting an address: one less.
LEMMA FirstRemoved ==
  ASSUME NEW s \in Seq(Nat), NEW c, \E i \in 1..Len(s) : s[i] = c
  PROVE  RemoveFirst(s, c) \in Seq(Nat) /\ Len(RemoveFirst(s, c)) = Len(s) - 1
<1> DEFINE I == {i \in 1..Len(s) : s[i] = c}
<1>1. I \subseteq Nat /\ I # {}
  OBVIOUS
<1>2. PICK j \in I : \A i \in I : j <= i
  <2> HIDE DEF I
  <2> QED
    BY <1>1, LeastOf
<1>3. Min(I) = j
  <2> HIDE DEF I
  <2>1. \A k \in I : (\A i \in I : k <= i) => k = j
    BY <1>1, <1>2
  <2> QED
    BY <1>2, <2>1 DEF Min
<1>4. RemoveFirst(s, c) = RemoveAt(s, j)
  BY <1>1, <1>3 DEF RemoveFirst, SelectInSeq
<1>5. j \in 1..Len(s)
  BY <1>2
<1> QED
  BY <1>4, <1>5, RemovedAt

\* Tasks of different requests are different, and a task that goes on to its
\* next step leaves one place and enters another.
LEMMA Moved ==
  ASSUME TypeOK, IsFiniteSet(tasks), \A u, v \in tasks : u.id = v.id => u = v,
         NEW t \in tasks, NEW pc \in Pcs, pc # t.pc, Advance(t, pc)
  PROVE  /\ tasks' \subseteq Tasks /\ IsFiniteSet(tasks')
         /\ \A v \in tasks' : \/ v \in tasks
                              \/ v.id = t.id /\ v.conn = t.conn /\ v.pc = pc
         /\ \A u, v \in tasks' : u.id = v.id => u = v
         /\ Cardinality(At(t.pc)') = Cardinality(At(t.pc)) - 1
         /\ Cardinality(At(pc)') = Cardinality(At(pc)) + 1
         /\ \A p \in Pcs \ {pc, t.pc} : At(p)' = At(p)
<1> DEFINE u == [t EXCEPT !.pc = pc]
<1>1. tasks \subseteq Tasks /\ t \in Tasks
  BY DEF TypeOK, Tasks, Pcs
<1>2. u \in Tasks /\ u.id = t.id /\ u.conn = t.conn /\ u.pc = pc
  BY <1>1 DEF Tasks
<1>3. tasks' = (tasks \ {t}) \cup {u}
  BY DEF Advance
<1> HIDE DEF u
<1>4. u \notin tasks
  BY <1>2
<1>5. IsFiniteSet(tasks')
  BY <1>3, FS_AddElement, FS_RemoveElement
<1>6. \A v, w \in tasks' : v.id = w.id => v = w
  BY <1>2, <1>3
<1>7. \A p : IsFiniteSet(At(p))
  BY FS_Subset DEF At
<1>8. At(t.pc)' = At(t.pc) \ {t} /\ t \in At(t.pc)
  BY <1>2, <1>3 DEF At
<1>9. At(pc)' = At(pc) \cup {u} /\ u \notin At(pc)
  BY <1>2, <1>3, <1>4 DEF At
<1>10. \A p \in Pcs \ {pc, t.pc} : At(p)' = At(p)
  BY <1>2, <1>3 DEF At
<1>11. Cardinality(At(t.pc)') = Cardinality(At(t.pc)) - 1
  BY <1>7, <1>8, FS_RemoveElement
<1>12. Cardinality(At(pc)') = Cardinality(At(pc)) + 1
  BY <1>7, <1>9, FS_AddElement
<1> QED
  BY <1>1, <1>2, <1>3, <1>5, <1>6, <1>10, <1>11, <1>12

\* Counting tasks gives a number.
LEMMA Counted ==
  ASSUME IInv, NEW pc
  PROVE  Cardinality(At(pc)) \in Nat /\ IsFiniteSet(At(pc))
<1>1. IsFiniteSet(At(pc))
  BY FS_Subset DEF IInv, RequestsOnce, At
<1> QED
  BY <1>1, FS_CardinalityType
-----------------------------------------------------------------------------
(* The actions.                                                            *)

\* Nothing is registered and nobody asks.
LEMMA InitOK == Init => IInv
<1> SUFFICES ASSUME Init PROVE IInv
  OBVIOUS
<1>1. TypeOK
  BY SetupAssumption DEF Init, TypeOK, FreshRic
<1>2. At("push") = {} /\ At("add") = {} /\ Cardinality({}) = 0 /\ IsFiniteSet({})
  BY FS_EmptySet DEF Init, At
<1>3. IappCount /\ SadCount
  <2>1. ~ric.iapp /\ ric.nodes = 0 /\ Len(ric.sad) = 0 /\ loop = "idle"
    BY DEF Init, FreshRic
  <2>2. Cardinality(At("push")) = 0 /\ Cardinality(At("add")) = 0
    BY <1>2
  <2> QED
    BY <2>1, <2>2 DEF IappCount, SadCount, One
<1>4. RequestsOnce /\ Ordered /\ Stopped
  BY <1>2 DEF Init, RequestsOnce, Ordered, Stopped, FreshRic
<1>5. ServedAlone /\ AnswersTrue /\ BeliefTrue
  BY DEF Init, ServedAlone, AnswersTrue, BeliefTrue
<1> QED
  BY <1>1, <1>3, <1>4, <1>5 DEF IInv

\* A request goes behind everything else, on the latest connection.
LEMMA Sent ==
  ASSUME IInv, NEW c \in Nat, Send(c), conn <= c, conn' = c, UNCHANGED <<ric, tasks>>
  PROVE  /\ net' \in Seq(Msgs) /\ sent' \in 0..MaxReq
         /\ RequestsOnce'
         /\ \A t \in tasks' : t.conn <= conn'
         /\ \A i \in 1..Len(net') : net'[i].conn <= conn'
         /\ \A i, j \in 1..Len(net') : i < j => net'[i].conn <= net'[j].conn
         /\ \A i \in 1..Len(net') : net'[i].type = "shutdown" =>
              i \in 1..Len(net) /\ net'[i] = net[i]
         /\ ~ric.up => net' = net
<1>1. /\ net \in Seq(Msgs) /\ sent \in Nat /\ sent' = sent + 1 /\ sent' \in 0..MaxReq
      /\ conn \in Nat /\ Len(net) \in Nat /\ ric.up \in BOOLEAN
  BY SetupAssumption DEF IInv, TypeOK, Send, Msgs
<1>2. /\ \A t \in tasks : t.id \in Nat /\ t.id < sent /\ t.conn \in Nat /\ t.conn <= conn
      /\ \A t, u \in tasks : t.id = u.id => t = u
      /\ \A i \in 1..Len(net) : net[i].conn \in Nat /\ net[i].conn <= conn /\ net[i].id \in Nat
      /\ \A i, j \in 1..Len(net) : i < j => net[i].conn <= net[j].conn
      /\ \A i \in 1..Len(net) : net[i].type = "setup" =>
           /\ net[i].id < sent
           /\ \A t \in tasks : t.id # net[i].id
           /\ \A j \in 1..Len(net) : net[j].type = "setup" /\ net[j].id = net[i].id => i = j
      /\ IsFiniteSet(tasks)
  <2>1. \A i \in 1..Len(net) : net[i] \in Msgs
    BY <1>1
  <2> QED
    BY <2>1 DEF IInv, TypeOK, RequestsOnce, Ordered, Msgs
<1>3. CASE ~ric.up
  <2>1. net' = net
    BY <1>3 DEF Send
  <2>2. \A t \in tasks : t.id < sent' /\ t.conn <= conn'
    BY <1>1, <1>2
  <2>3. \A i \in 1..Len(net) : /\ net[i].type = "setup" => net[i].id < sent'
                               /\ net[i].conn <= conn'
    BY <1>1, <1>2
  <2>4. RequestsOnce'
    BY <1>2, <2>1, <2>2, <2>3 DEF RequestsOnce
  <2> QED
    BY <1>1, <1>2, <1>3, <2>1, <2>2, <2>3, <2>4
<1>4. CASE ric.up
  <2> DEFINE m == [type |-> "setup", conn |-> c, id |-> sent]
  <2>1. net' = Append(net, m)
    BY <1>4 DEF Send
  <2>2. m \in Msgs /\ m.type = "setup" /\ m.conn = c /\ m.id = sent
    BY <1>1 DEF Msgs
  <2> HIDE DEF m
  <2>3. /\ net' \in Seq(Msgs) /\ Len(net') = Len(net) + 1
        /\ \A n \in 1..Len(net) : net'[n] = net[n]
        /\ net'[Len(net) + 1] = m
    BY <1>1, <2>1, <2>2, Appended
  <2>4. \A i \in 1..Len(net') : \/ i \in 1..Len(net) /\ net'[i] = net[i]
                                \/ i = Len(net) + 1 /\ net'[i] = m
    BY <1>1, <2>3
  <2>5. RequestsOnce'
    <3>0. sent < sent' /\ \A i \in 1..Len(net) : net[i].type = "setup" => net[i].id < sent'
      BY <1>1, <1>2
    <3>1. \A i \in 1..Len(net') : net'[i].type = "setup" => net'[i].id < sent'
      BY <2>2, <2>4, <3>0
    <3>2. \A t \in tasks : t.id < sent' /\ t.id # sent
      BY <1>1, <1>2
    <3>3. \A i \in 1..Len(net') : net'[i].type = "setup" => \A t \in tasks : t.id # net'[i].id
      BY <1>2, <2>2, <2>4, <3>2
    <3>4. \A i \in 1..Len(net) : net[i].type = "setup" => net[i].id # sent
      BY <1>1, <1>2
    <3>5. \A i, j \in 1..Len(net') :
            net'[i].type = "setup" /\ net'[j].type = "setup" /\ net'[j].id = net'[i].id => i = j
      BY <1>2, <2>2, <2>4, <3>4
    <3> QED
      BY <1>2, <3>1, <3>2, <3>3, <3>5 DEF RequestsOnce
  <2>6. /\ \A i \in 1..Len(net') : net'[i].conn <= conn'
        /\ \A i, j \in 1..Len(net') : i < j => net'[i].conn <= net'[j].conn
    <3>1. \A i \in 1..Len(net) : net[i].conn <= c
      BY <1>1, <1>2
    <3>2. \A i \in 1..Len(net') : net'[i].conn <= c
      BY <2>2, <2>4, <3>1
    <3>3. ASSUME NEW i \in 1..Len(net'), NEW j \in 1..Len(net'), i < j
          PROVE  net'[i].conn <= net'[j].conn
      <4>1. i \in 1..Len(net) /\ net'[i] = net[i]
        BY <1>1, <2>3, <3>3
      <4>2. CASE j \in 1..Len(net) /\ net'[j] = net[j]
        BY <1>2, <3>3, <4>1, <4>2
      <4>3. CASE net'[j] = m
        BY <2>2, <3>1, <4>1, <4>3
      <4> QED
        BY <2>4, <4>2, <4>3
    <3> QED
      BY <3>2, <3>3
  <2>7. \A i \in 1..Len(net') : net'[i].type = "shutdown" =>
              i \in 1..Len(net) /\ net'[i] = net[i]
    BY <2>2, <2>4
  <2>8. \A t \in tasks' : t.conn <= conn'
    BY <1>1, <1>2
  <2> QED
    BY <1>1, <1>4, <2>3, <2>5, <2>6, <2>7, <2>8
<1> QED
  BY <1>3, <1>4

\* A step that touches neither the registries nor the pool keeps the counts.
LEMMA CountsKept ==
  ASSUME IInv, UNCHANGED <<ric, tasks, loop>>
  PROVE  IappCount' /\ SadCount'
BY DEF IInv, IappCount, SadCount, At, One

\* A step that changes nothing but the record of failures.
LEMMA AllKept ==
  ASSUME IInv, UNCHANGED <<ag, ric, net, back, tasks, loop, conn, sent, stops>>
  PROVE  IInv'
<1>1. IappCount' /\ SadCount'
  BY CountsKept
<1>2. TypeOK' /\ RequestsOnce' /\ Ordered' /\ Stopped'
  BY DEF IInv, TypeOK, RequestsOnce, Ordered, Stopped
<1>3. Here' = Here /\ NoShutdown' = NoShutdown /\ HasAddress' = HasAddress
  BY DEF NoShutdown, HasAddress, Here
<1>4. ServedAlone' /\ AnswersTrue' /\ BeliefTrue'
  BY <1>3 DEF IInv, ServedAlone, AnswersTrue, BeliefTrue
<1> QED
  BY <1>1, <1>2, <1>4 DEF IInv

\* e2_start_agent: the connection is new, so nothing in the RIC is of it.
LEMMA AgentStartOK ==
  ASSUME IInv, AgentStart
  PROVE  IInv'
<1>1. PICK c \in Nat : c = conn + 1 /\ conn \in Nat
  BY DEF IInv, TypeOK
<1>2. Send(c) /\ conn' = c /\ conn <= c /\ ~ag.up
  BY <1>1 DEF AgentStart
<1>3. /\ net' \in Seq(Msgs) /\ sent' \in 0..MaxReq
      /\ RequestsOnce'
      /\ \A t \in tasks' : t.conn <= conn'
      /\ \A i \in 1..Len(net') : net'[i].conn <= conn'
      /\ \A i, j \in 1..Len(net') : i < j => net'[i].conn <= net'[j].conn
      /\ \A i \in 1..Len(net') : net'[i].type = "shutdown" =>
              i \in 1..Len(net) /\ net'[i] = net[i]
      /\ ~ric.up => net' = net
  BY <1>1, <1>2, Sent DEF AgentStart
<1>4. TypeOK'
  BY <1>1, <1>2, <1>3 DEF IInv, TypeOK, AgentStart, Msgs
<1>5. Ordered'
  <2>1. \A i \in 1..Len(net) : net[i].conn \in Nat /\ net[i].conn <= conn
    <3>1. net \in Seq(Msgs)
      BY DEF IInv, TypeOK, Msgs
    <3>2. \A i \in 1..Len(net) : net[i] \in Msgs
      BY <3>1
    <3> QED
      BY <3>2 DEF IInv, Ordered, Msgs
  <2>2. \A i \in 1..Len(net') : net'[i].type = "shutdown" => net'[i].conn < conn'
    BY <1>1, <1>2, <1>3, <2>1
  <2> QED
    BY <1>3, <2>2 DEF Ordered
<1>6. back' = << >> /\ ag'.pend = 1
  BY <1>2 DEF IInv, Stopped, AgentStart
<1>7. ServedAlone'
  <2>1. \A t \in tasks : t.conn \in Nat /\ t.conn <= conn
    BY DEF IInv, TypeOK, Ordered
  <2>2. \A t \in tasks' : t.conn # conn'
    BY <1>1, <1>2, <2>1 DEF AgentStart
  <2> QED
    BY <2>2 DEF ServedAlone
<1>8. AnswersTrue' /\ BeliefTrue'
  BY <1>6 DEF AnswersTrue, BeliefTrue
<1>9. Stopped'
  BY <1>3, <1>6 DEF IInv, Stopped, AgentStart
<1>10. IappCount' /\ SadCount'
  BY CountsKept DEF AgentStart
<1> QED
  BY <1>3, <1>4, <1>5, <1>7, <1>8, <1>9, <1>10 DEF IInv

\* What holds of the present connection goes on to hold when the network gets no
\* new shutdown and the registries, the loop and the connection stay.
LEMMA HereKept ==
  ASSUME UNCHANGED <<ric, loop, conn>>,
         \A i \in 1..Len(net') : net'[i].type = "shutdown" =>
           \E j \in 1..Len(net) : net[j].type = "shutdown"
  PROVE  /\ NoShutdown => NoShutdown'
         /\ HasAddress => HasAddress'
         /\ Here => Here'
BY DEF NoShutdown, HasAddress, Here

\* The timer: the same request again, on the same connection.
LEMMA SetupTimeoutOK ==
  ASSUME IInv, SetupTimeout
  PROVE  IInv'
<1>1. CASE ag.pend # 1
  <2>1. UNCHANGED <<ag, ric, net, back, tasks, loop, conn, sent, stops>>
    BY <1>1 DEF SetupTimeout
  <2> QED
    BY <2>1, AllKept
<1>2. CASE ag.pend = 1
  <2>1. PICK c \in Nat : c = conn
    BY DEF IInv, TypeOK
  <2>2. /\ Send(c) /\ conn' = c /\ conn <= c /\ ag.up /\ ag' = [ag EXCEPT !.trans = @ + 1]
        /\ UNCHANGED <<ric, back, tasks, loop, conn, stops, failed>>
    BY <1>2, <2>1 DEF SetupTimeout
  <2>3. ag' \in [up : BOOLEAN, pend : Nat, trans : Nat] /\ ag'.up /\ ag'.pend = 1
    <3>1. ag \in [up : BOOLEAN, pend : Nat, trans : Nat] /\ ag.trans + 1 \in Nat
      BY DEF IInv, TypeOK
    <3>2. ag'.up = ag.up /\ ag'.pend = ag.pend
      BY <2>2, <3>1
    <3> QED
      BY <1>2, <2>2, <3>1, <3>2
  <2>4. /\ net' \in Seq(Msgs) /\ sent' \in 0..MaxReq
        /\ RequestsOnce'
        /\ \A t \in tasks' : t.conn <= conn'
        /\ \A i \in 1..Len(net') : net'[i].conn <= conn'
        /\ \A i, j \in 1..Len(net') : i < j => net'[i].conn <= net'[j].conn
        /\ \A i \in 1..Len(net') : net'[i].type = "shutdown" =>
                i \in 1..Len(net) /\ net'[i] = net[i]
        /\ ~ric.up => net' = net
    BY <2>1, <2>2, Sent
  <2>5. TypeOK'
    BY <2>2, <2>3, <2>4 DEF IInv, TypeOK, Msgs
  <2>6. Ordered'
    BY <2>2, <2>4 DEF IInv, Ordered
  <2>7. (NoShutdown => NoShutdown') /\ (HasAddress => HasAddress') /\ (Here => Here')
    BY <2>2, <2>4, HereKept
  <2>8. ServedAlone' /\ AnswersTrue' /\ BeliefTrue'
    BY <2>2, <2>3, <2>7 DEF IInv, ServedAlone, AnswersTrue, BeliefTrue
  <2>9. Stopped'
    BY <2>2, <2>3, <2>4 DEF IInv, Stopped
  <2>10. IappCount' /\ SadCount'
    BY <2>2, CountsKept
  <2> QED
    BY <2>4, <2>5, <2>6, <2>8, <2>9, <2>10 DEF IInv
<1> QED
  BY <1>1, <1>2

\* An answer, or the end of the connection, leaves the queue: what the others
\* say does not change.
LEMMA BackTailed ==
  ASSUME IInv, back # << >>, back' = Tail(back), UNCHANGED <<ric, net, loop, conn>>
  PROVE  /\ back' \in Seq({"resp", "shutdown"})
         /\ AnswersTrue'
         /\ \A i \in 1..Len(back) :
              i # 1 /\ back[i] = "shutdown" => \E j \in 1..Len(back') : back'[j] = "shutdown"
         /\ Head(back) = back[1] /\ 1 \in 1..Len(back)
<1>1. back \in Seq({"resp", "shutdown"})
  BY DEF IInv, TypeOK
<1>2. /\ back' \in Seq({"resp", "shutdown"}) /\ Len(back) \in Nat /\ Len(back) >= 1
      /\ Len(back') = Len(back) - 1 /\ Head(back) = back[1]
      /\ \A n \in 1..(Len(back) - 1) : back'[n] = back[n + 1]
  BY <1>1, Tailed
<1>3. \A n \in 1..Len(back') : n + 1 \in 1..Len(back) /\ back'[n] = back[n + 1]
  BY <1>2
<1>4. \A i \in 1..Len(back) : i # 1 => i - 1 \in 1..Len(back') /\ back'[i - 1] = back[i]
  BY <1>2
<1>5. Here' = Here
  BY DEF Here, NoShutdown, HasAddress
<1>6. ASSUME NEW i \in 1..Len(back'), back'[i] = "resp",
             \A j \in 1..Len(back') : j > i => back'[j] # "shutdown"
      PROVE  Here'
  <2>1. i + 1 \in 1..Len(back) /\ back[i + 1] = "resp"
    BY <1>3, <1>6
  <2>2. ASSUME NEW j \in 1..Len(back), j > i + 1
        PROVE  back[j] # "shutdown"
    <3>1. j - 1 \in 1..Len(back') /\ back'[j - 1] = back[j] /\ j - 1 > i
      BY <1>2, <1>4, <2>2
    <3> QED
      BY <1>6, <3>1
  <2>3. Here
    BY <2>1, <2>2 DEF IInv, AnswersTrue
  <2> QED
    BY <1>5, <2>3
<1>7. AnswersTrue'
  BY <1>6 DEF AnswersTrue
<1> QED
  BY <1>2, <1>4, <1>7

\* A step of the agent that leaves the network and the RIC alone.
LEMMA RicKept ==
  ASSUME IInv, UNCHANGED <<ric, net, tasks, loop, conn, sent>>, ag'.up = ag.up,
         ag' \in [up : BOOLEAN, pend : Nat, trans : Nat], UNCHANGED stops,
         back' \in Seq({"resp", "shutdown"})
  PROVE  TypeOK' /\ IappCount' /\ SadCount' /\ RequestsOnce' /\ Ordered' /\ ServedAlone'
<1>1. TypeOK'
  BY DEF IInv, TypeOK
<1>2. IappCount' /\ SadCount'
  BY CountsKept
<1>3. RequestsOnce' /\ Ordered'
  BY DEF IInv, RequestsOnce, Ordered
<1>4. ServedAlone'
  BY DEF IInv, ServedAlone, NoShutdown, HasAddress
<1> QED
  BY <1>1, <1>2, <1>3, <1>4

\* The response: with the last timer stopped the agent believes what the answer
\* says.
LEMMA SetupResponseOK ==
  ASSUME IInv, SetupResponse
  PROVE  IInv'
<1>1. /\ ag.up /\ back # << >> /\ Head(back) = "resp" /\ back' = Tail(back)
      /\ UNCHANGED <<ric, net, tasks, loop, conn, sent, stops>>
  BY DEF SetupResponse
<1>2. /\ back' \in Seq({"resp", "shutdown"})
      /\ AnswersTrue'
      /\ \A i \in 1..Len(back) :
           i # 1 /\ back[i] = "shutdown" => \E j \in 1..Len(back') : back'[j] = "shutdown"
      /\ Head(back) = back[1] /\ 1 \in 1..Len(back)
  BY <1>1, BackTailed
<1>3. ag \in [up : BOOLEAN, pend : Nat, trans : Nat]
  BY DEF IInv, TypeOK
<1>4. ag' \in [up : BOOLEAN, pend : Nat, trans : Nat] /\ ag'.up = ag.up
  <2>1. CASE ag.pend > 0 /\ ag.trans > 0
    <3>1. PICK p \in Nat : p = ag.pend - 1
      BY <1>3, <2>1
    <3>2. ag' = [ag EXCEPT !.pend = p, !.trans = 0]
      BY <2>1, <3>1 DEF SetupResponse
    <3> QED
      BY <1>3, <3>2
  <2>2. CASE ~(ag.pend > 0 /\ ag.trans > 0)
    BY <1>3, <2>2 DEF SetupResponse
  <2> QED
    BY <2>1, <2>2
<1>5. TypeOK' /\ IappCount' /\ SadCount' /\ RequestsOnce' /\ Ordered' /\ ServedAlone'
  BY <1>1, <1>2, <1>4, RicKept
<1>6. Here \/ \E j \in 1..Len(back') : back'[j] = "shutdown"
  <2>1. CASE \E i \in 1..Len(back) : i # 1 /\ back[i] = "shutdown"
    BY <1>2, <2>1
  <2>2. CASE \A i \in 1..Len(back) : i # 1 => back[i] # "shutdown"
    <3>1. \A j \in 1..Len(back) : j > 1 => back[j] # "shutdown"
      BY <2>2
    <3> QED
      BY <1>1, <1>2, <3>1 DEF IInv, AnswersTrue
  <2> QED
    BY <2>1, <2>2
<1>7. BeliefTrue'
  BY <1>1, <1>6 DEF BeliefTrue, Here, NoShutdown, HasAddress
<1>8. Stopped'
  BY <1>1, <1>4 DEF IInv, Stopped
<1> QED
  BY <1>2, <1>5, <1>7, <1>8 DEF IInv

\* notification_handle_ag: the agent waits again.
LEMMA ConnectionLostOK ==
  ASSUME IInv, ConnectionLost
  PROVE  IInv'
<1>1. /\ ag.up /\ back # << >> /\ back' = Tail(back) /\ ag' = [ag EXCEPT !.pend = @ + 1]
      /\ UNCHANGED <<ric, net, tasks, loop, conn, sent, stops>>
  BY DEF ConnectionLost
<1>2. back' \in Seq({"resp", "shutdown"}) /\ AnswersTrue'
  BY <1>1, BackTailed
<1>3. ag \in [up : BOOLEAN, pend : Nat, trans : Nat] /\ ag.pend + 1 \in Nat /\ ag.pend + 1 # 0
  BY DEF IInv, TypeOK
<1>4. ag' \in [up : BOOLEAN, pend : Nat, trans : Nat] /\ ag'.up = ag.up /\ ag'.pend # 0
  BY <1>1, <1>3
<1>5. TypeOK' /\ IappCount' /\ SadCount' /\ RequestsOnce' /\ Ordered' /\ ServedAlone'
  BY <1>1, <1>2, <1>4, RicKept
<1>6. BeliefTrue'
  BY <1>4 DEF BeliefTrue
<1>7. Stopped'
  BY <1>1, <1>4 DEF IInv, Stopped
<1> QED
  BY <1>2, <1>5, <1>6, <1>7 DEF IInv

\* The messages under way, as IInv has them.
LEMMA NetTyped ==
  ASSUME IInv
  PROVE  /\ net \in Seq(Msgs) /\ Len(net) \in Nat /\ sent \in Nat /\ conn \in Nat
         /\ \A i \in 1..Len(net) : net[i].conn \in Nat /\ net[i].id \in Nat
         /\ \A i, j \in 1..Len(net) : i < j => net[i].conn <= net[j].conn
         /\ \A i \in 1..Len(net) : net[i].conn <= conn
<1>1. net \in Seq(Msgs) /\ Len(net) \in Nat /\ sent \in Nat /\ conn \in Nat
  BY SetupAssumption DEF IInv, TypeOK, Msgs
<1>2. \A i \in 1..Len(net) : net[i] \in Msgs
  BY <1>1
<1> QED
  BY <1>1, <1>2 DEF IInv, Ordered, Msgs

\* e2_free_agent: the shutdown goes behind the requests of its connection.
LEMMA AgentStopOK ==
  ASSUME IInv, AgentStop
  PROVE  IInv'
<1>1. /\ ag' = [up |-> FALSE, pend |-> 0, trans |-> 0] /\ back' = << >>
      /\ UNCHANGED <<ric, tasks, loop, conn, sent>>
  BY DEF AgentStop
<1>2. ~ag'.up /\ ag' \in [up : BOOLEAN, pend : Nat, trans : Nat]
  BY <1>1
<1>3. stops' \in [agent : 0..MaxStops, ric : 0..MaxStops]
  <2>1. stops.agent + 1 \in 0..MaxStops /\ stops.ric \in 0..MaxStops
    BY SetupAssumption, SMTT(30) DEF IInv, TypeOK, AgentStop
  <2>2. stops' = [stops EXCEPT !.agent = stops.agent + 1]
    BY DEF AgentStop
  <2> QED
    BY <2>1, <2>2 DEF IInv, TypeOK
<1>4. /\ net' \in Seq(Msgs) /\ RequestsOnce' /\ Ordered'
      /\ ~ric.up => net' = net
  <2>1. CASE ~ric.up
    <3>1. net' = net
      BY <2>1 DEF AgentStop
    <3> QED
      BY <1>1, <1>2, <3>1 DEF IInv, TypeOK, Msgs, RequestsOnce, Ordered
  <2>2. CASE ric.up
    <3> DEFINE m == [type |-> "shutdown", conn |-> conn, id |-> 0]
    <3>1. net' = Append(net, m)
      BY <2>2 DEF AgentStop
    <3>2. m \in Msgs /\ m.type = "shutdown" /\ m.conn = conn
      BY NetTyped DEF Msgs
    <3> HIDE DEF m
    <3>3. /\ net' \in Seq(Msgs) /\ Len(net') = Len(net) + 1
          /\ \A n \in 1..Len(net) : net'[n] = net[n]
          /\ net'[Len(net) + 1] = m
      BY <3>1, <3>2, NetTyped, Appended
    <3>4. \A i \in 1..Len(net') : \/ i \in 1..Len(net) /\ net'[i] = net[i]
                                  \/ i = Len(net) + 1 /\ net'[i] = m
      BY <3>3, NetTyped
    <3>5. RequestsOnce'
      <4>1. \A i \in 1..Len(net') : net'[i].type = "setup" => i \in 1..Len(net) /\ net'[i] = net[i]
        BY <3>2, <3>4
      <4> QED
        BY <1>1, <4>1 DEF IInv, RequestsOnce
    <3>6. Ordered'
      <4>1. \A i \in 1..Len(net') : net'[i].conn <= conn
        BY <3>2, <3>4, NetTyped
      <4>2. ASSUME NEW i \in 1..Len(net'), NEW j \in 1..Len(net'), i < j
            PROVE  net'[i].conn <= net'[j].conn
        <5>1. i \in 1..Len(net) /\ net'[i] = net[i]
          BY <3>3, <4>2, NetTyped
        <5>2. CASE j \in 1..Len(net) /\ net'[j] = net[j]
          BY <4>2, <5>1, <5>2, NetTyped
        <5>3. CASE net'[j] = m
          BY <3>2, <5>1, <5>3, NetTyped
        <5> QED
          BY <3>4, <5>2, <5>3
      <4> QED
        BY <1>1, <1>2, <4>1, <4>2 DEF IInv, Ordered
    <3> QED
      BY <2>2, <3>3, <3>5, <3>6
  <2> QED
    BY <2>1, <2>2
<1>5. TypeOK'
  BY <1>1, <1>2, <1>3, <1>4 DEF IInv, TypeOK, Msgs
<1>6. IappCount' /\ SadCount'
  BY <1>1, CountsKept
<1>7. ServedAlone' /\ BeliefTrue' /\ AnswersTrue'
  BY <1>1, <1>2 DEF ServedAlone, BeliefTrue, AnswersTrue
<1>8. Stopped'
  BY <1>1, <1>4 DEF IInv, Stopped
<1> QED
  BY <1>4, <1>5, <1>6, <1>7, <1>8 DEF IInv

\* The first message leaves the network.
LEMMA NetTailed ==
  ASSUME IInv, net # << >>, net' = Tail(net)
  PROVE  /\ net' \in Seq(Msgs) /\ Head(net) = net[1] /\ 1 \in 1..Len(net) /\ Head(net) \in Msgs
         /\ \A i \in 1..Len(net') : i + 1 \in 1..Len(net) /\ i + 1 > 1 /\ net'[i] = net[i + 1]
         /\ \A i, j \in 1..Len(net') : i < j => net'[i].conn <= net'[j].conn
         /\ \A i \in 1..Len(net') : net'[i].conn <= conn
<1>1. /\ net' \in Seq(Msgs) /\ Len(net) \in Nat /\ Len(net) >= 1 /\ Len(net') = Len(net) - 1
      /\ Head(net) = net[1] /\ Head(net) \in Msgs
      /\ \A n \in 1..(Len(net) - 1) : net'[n] = net[n + 1]
  BY NetTyped, Tailed
<1>2. \A i \in 1..Len(net') : i + 1 \in 1..Len(net) /\ i + 1 > 1 /\ net'[i] = net[i + 1]
  BY <1>1
<1>3. \A i, j \in 1..Len(net') : i < j => i + 1 < j + 1
  BY <1>1
<1>4. \A i, j \in 1..Len(net') : i < j => net'[i].conn <= net'[j].conn
  BY <1>2, <1>3, NetTyped
<1>5. \A i \in 1..Len(net') : net'[i].conn <= conn
  BY <1>2, NetTyped
<1> QED
  BY <1>1, <1>2, <1>4, <1>5

\* The loop takes up a request when no shutdown is under way: those behind it
\* are of its connection or a later one.
LEMMA RicReceiveOK ==
  ASSUME IInv, RicReceive
  PROVE  IInv'
<1> DEFINE t == [id |-> Head(net).id, conn |-> Head(net).conn, pc |-> "reg"]
<1>1. /\ ric.up /\ loop = "idle" /\ net # << >> /\ Head(net).type = "setup"
      /\ tasks' = tasks \cup {t} /\ net' = Tail(net)
      /\ UNCHANGED <<ag, ric, back, loop, conn, sent, stops>>
  BY DEF RicReceive
<1>2. /\ net' \in Seq(Msgs) /\ Head(net) = net[1] /\ 1 \in 1..Len(net) /\ Head(net) \in Msgs
      /\ \A i \in 1..Len(net') : i + 1 \in 1..Len(net) /\ i + 1 > 1 /\ net'[i] = net[i + 1]
      /\ \A i, j \in 1..Len(net') : i < j => net'[i].conn <= net'[j].conn
      /\ \A i \in 1..Len(net') : net'[i].conn <= conn
  BY <1>1, NetTailed
<1>3. t \in Tasks /\ t.id = net[1].id /\ t.conn = net[1].conn /\ t.pc = "reg"
  BY <1>2 DEF Tasks, Msgs, Pcs
<1> HIDE DEF t
<1>4. /\ net[1].type = "setup" /\ net[1].id < sent /\ \A u \in tasks : u.id # t.id
      /\ \A j \in 1..Len(net) : j # 1 /\ net[j].type = "setup" => net[j].id # t.id
  BY <1>1, <1>2, <1>3 DEF IInv, RequestsOnce
<1>5. TypeOK'
  BY <1>1, <1>2, <1>3 DEF IInv, TypeOK, Msgs, Tasks, Pcs
<1>6. RequestsOnce'
  <2>1. IsFiniteSet(tasks')
    BY <1>1, FS_AddElement DEF IInv, RequestsOnce
  <2>2. (\A u \in tasks' : u.id < sent') /\ \A u, v \in tasks' : u.id = v.id => u = v
    BY <1>1, <1>3, <1>4 DEF IInv, RequestsOnce
  <2>3. ASSUME NEW i \in 1..Len(net'), net'[i].type = "setup"
        PROVE  /\ net'[i].id < sent'
               /\ \A u \in tasks' : u.id # net'[i].id
    <3>1. i + 1 \in 1..Len(net) /\ i + 1 # 1 /\ net'[i] = net[i + 1]
      BY <1>2
    <3> QED
      BY <1>1, <1>4, <2>3, <3>1 DEF IInv, RequestsOnce
  <2>4. ASSUME NEW i \in 1..Len(net'), NEW j \in 1..Len(net'),
               net'[i].type = "setup", net'[j].type = "setup", net'[j].id = net'[i].id
        PROVE  i = j
    <3>1. /\ i + 1 \in 1..Len(net) /\ net'[i] = net[i + 1]
          /\ j + 1 \in 1..Len(net) /\ net'[j] = net[j + 1]
      BY <1>2
    <3>2. i + 1 = j + 1
      BY <2>4, <3>1 DEF IInv, RequestsOnce
    <3> QED
      BY <3>2
  <2> QED
    BY <2>1, <2>2, <2>3, <2>4 DEF RequestsOnce
<1>7. Ordered'
  <2>1. \A u \in tasks' : u.conn <= conn'
    BY <1>1, <1>2, <1>3, NetTyped DEF IInv, Ordered
  <2>2. \A i \in 1..Len(net') : net'[i].type = "shutdown" /\ ag'.up => net'[i].conn < conn'
    BY <1>1, <1>2 DEF IInv, Ordered
  <2> QED
    BY <1>1, <1>2, <2>1, <2>2 DEF Ordered
<1>8. IappCount' /\ SadCount'
  <2>1. At("push")' = At("push") /\ At("add")' = At("add")
    BY <1>1, <1>3 DEF At
  <2> QED
    BY <1>1, <2>1 DEF IInv, IappCount, SadCount, One
<1>9. (NoShutdown => NoShutdown') /\ (HasAddress => HasAddress') /\ (Here => Here')
  <2>1. \A i \in 1..Len(net') : net'[i].type = "shutdown" =>
          \E j \in 1..Len(net) : net[j].type = "shutdown"
    BY <1>2
  <2> QED
    BY <1>1, <2>1, HereKept
<1>10. ASSUME ag.up, t.conn = conn
       PROVE  NoShutdown'
  <2>1. ASSUME NEW i \in 1..Len(net'), net'[i].type = "shutdown"
        PROVE  FALSE
    <3>1. i + 1 \in 1..Len(net) /\ i + 1 > 1 /\ net'[i] = net[i + 1]
      BY <1>2
    <3>2. net[i + 1].conn < conn /\ net[i + 1].conn \in Nat
      BY <1>10, <2>1, <3>1, NetTyped DEF IInv, Ordered
    <3>3. net[1].conn <= net[i + 1].conn
      BY <1>2, <3>1, NetTyped
    <3>4. net[1].conn = conn
      BY <1>3, <1>10
    <3> QED
      BY <3>2, <3>3, <3>4, NetTyped
  <2> QED
    BY <1>1, <2>1 DEF NoShutdown
<1>11. ServedAlone'
  BY <1>1, <1>3, <1>9, <1>10 DEF IInv, ServedAlone
<1>12. AnswersTrue' /\ BeliefTrue'
  BY <1>1, <1>9 DEF IInv, AnswersTrue, BeliefTrue
<1>13. Stopped'
  BY <1>1 DEF IInv, Stopped
<1> QED
  BY <1>5, <1>6, <1>7, <1>8, <1>11, <1>12, <1>13 DEF IInv

\* What every step of a worker keeps: it only adds to the registries.
LEMMA TaskMoved ==
  ASSUME IInv, NEW t \in tasks, NEW pc \in Pcs \ {"reg"}, pc # t.pc, Advance(t, pc),
         ric' \in Rics, ric.up, ric'.up, UNCHANGED <<ag, net, back, loop, conn, sent, stops>>,
         HasAddress \/ (t.conn = conn /\ t.pc = "reg") => HasAddress',
         ric.nodes > 0 \/ pc = "answer" => ric'.nodes > 0
  PROVE  /\ TypeOK' /\ RequestsOnce' /\ Ordered' /\ ServedAlone'
         /\ AnswersTrue' /\ BeliefTrue' /\ Stopped'
<1>1. /\ tasks' \subseteq Tasks /\ IsFiniteSet(tasks')
      /\ \A v \in tasks' : v \in tasks \/ (v.id = t.id /\ v.conn = t.conn /\ v.pc = pc)
      /\ \A u, v \in tasks' : u.id = v.id => u = v
  BY Moved DEF IInv, RequestsOnce
<1>2. TypeOK'
  BY <1>1 DEF IInv, TypeOK, Tasks, Pcs, Rics
<1>3. RequestsOnce'
  BY <1>1 DEF IInv, RequestsOnce
<1>4. Ordered'
  BY <1>1 DEF IInv, Ordered
<1>5. NoShutdown' = NoShutdown
  BY DEF NoShutdown
<1>6. ServedAlone'
  BY <1>1, <1>5 DEF IInv, ServedAlone
<1>7. Here => Here'
  BY <1>5 DEF Here
<1>8. AnswersTrue' /\ BeliefTrue'
  BY <1>7 DEF IInv, AnswersTrue, BeliefTrue
<1>9. Stopped'
  BY DEF IInv, Stopped
<1> QED
  BY <1>2, <1>3, <1>4, <1>6, <1>8, <1>9

\* The worker that answers leaves; a request of the present connection has the
\* node registered by now.
LEMMA TaskAnswerOK ==
  ASSUME IInv, NEW t \in tasks, TaskAnswer(t)
  PROVE  IInv'
<1>1. /\ ric.up /\ t.pc = "answer" /\ tasks' = tasks \ {t}
      /\ UNCHANGED <<ag, ric, net, loop, conn, sent, stops>>
  BY DEF TaskAnswer
<1>2. back \in Seq({"resp", "shutdown"})
  BY DEF IInv, TypeOK
<1>3. back' \in Seq({"resp", "shutdown"}) /\ AnswersTrue' /\ BeliefTrue' /\ (~ag.up => back' = back)
  <2>1. Here' = Here
    BY <1>1 DEF Here, NoShutdown, HasAddress
  <2>2. CASE ag.up /\ t.conn = conn
    <3>1. Here
      BY <1>1, <2>2 DEF IInv, ServedAlone, Here
    <3>2. back' \in Seq({"resp", "shutdown"})
      BY <1>2, <2>2, Appended DEF TaskAnswer
    <3> QED
      BY <2>1, <2>2, <3>1, <3>2 DEF AnswersTrue, BeliefTrue
  <2>3. CASE ~(ag.up /\ t.conn = conn)
    <3>1. back' = back
      BY <2>3 DEF TaskAnswer
    <3> QED
      BY <1>1, <1>2, <2>1, <3>1 DEF IInv, AnswersTrue, BeliefTrue
  <2> QED
    BY <2>2, <2>3
<1>4. TypeOK'
  BY <1>1, <1>3 DEF IInv, TypeOK
<1>5. IappCount' /\ SadCount'
  <2>1. At("push")' = At("push") /\ At("add")' = At("add")
    BY <1>1 DEF At
  <2> QED
    BY <1>1, <2>1 DEF IInv, IappCount, SadCount, One
<1>6. RequestsOnce'
  <2>1. IsFiniteSet(tasks')
    BY <1>1, FS_RemoveElement DEF IInv, RequestsOnce
  <2> QED
    BY <1>1, <2>1 DEF IInv, RequestsOnce
<1>7. Ordered' /\ ServedAlone'
  BY <1>1 DEF IInv, Ordered, ServedAlone, NoShutdown, HasAddress
<1>8. Stopped'
  BY <1>1, <1>3 DEF IInv, Stopped
<1> QED
  BY <1>3, <1>4, <1>5, <1>6, <1>7, <1>8 DEF IInv

\* The two balances as numbers.
LEMMA Balances ==
  ASSUME IInv
  PROVE  /\ Cardinality(At("push")) \in Nat /\ Cardinality(At("add")) \in Nat
         /\ ric.nodes \in Nat /\ Len(ric.sad) \in Nat
         /\ One(loop = "iapp") \in Nat /\ One(loop = "node") \in Nat /\ One(ric.iapp) \in Nat
         /\ One(ric.iapp) = Cardinality(At("push")) + ric.nodes + One(loop = "iapp")
         /\ Len(ric.sad) + One(loop = "node") =
              Cardinality(At("add")) + Cardinality(At("push")) + ric.nodes
<1>1. ric.nodes \in Nat /\ Len(ric.sad) \in Nat
  BY DEF IInv, TypeOK
<1>2. One(loop = "iapp") \in Nat /\ One(loop = "node") \in Nat /\ One(ric.iapp) \in Nat
  BY DEF One
<1> QED
  BY <1>1, <1>2, Counted DEF IInv, IappCount, SadCount

\* The registries, one worker's step at a time.
LEMMA TaskStepOK ==
  ASSUME IInv, NEW t \in tasks, TaskStep(t)
  PROVE  IInv'
<1>1. ric \in Rics /\ t.conn \in Nat /\ loop \in {"idle", "node", "iapp"}
  BY DEF IInv, TypeOK, Rics
<1>2. IsFiniteSet(tasks) /\ TypeOK /\ \A u, v \in tasks : u.id = v.id => u = v
  BY DEF IInv, RequestsOnce
<1> DEFINE p == Cardinality(At("push"))
           a == Cardinality(At("add"))
           k == ric.nodes
           l == Len(ric.sad)
           li == One(loop = "iapp")
           ln == One(loop = "node")
           b == One(ric.iapp)
<1>3. /\ p \in Nat /\ a \in Nat /\ k \in Nat /\ l \in Nat /\ b \in Nat
      /\ li \in Nat /\ ln \in Nat
      /\ b = p + k + li
      /\ l + ln = a + p + k
  BY Balances
<1>4. IappCount /\ SadCount
  BY DEF IInv
<1>5. CASE TaskRegister(t)
  <2>1. /\ ric.up /\ t.pc = "reg" /\ ric' = [ric EXCEPT !.sad = Append(ric.sad, t.conn)]
        /\ Advance(t, "add") /\ UNCHANGED <<ag, net, back, loop, conn, sent, stops>>
    BY <1>5 DEF TaskRegister
  <2>2. PICK s \in Seq(Nat) : s = ric.sad
    BY <1>1 DEF Rics
  <2>3. /\ Append(s, t.conn) \in Seq(Nat) /\ Len(Append(s, t.conn)) = Len(s) + 1 /\ Len(s) \in Nat
        /\ \A n \in 1..Len(s) : Append(s, t.conn)[n] = s[n]
        /\ Append(s, t.conn)[Len(s) + 1] = t.conn
    BY <1>1, <2>2, Appended
  <2>4. PICK r \in Seq(Nat) : r = Append(s, t.conn)
    BY <2>3
  <2>5. ric' \in Rics
    BY <1>1, <2>1, <2>2, <2>4 DEF Rics
  <2>6. ric'.sad = r /\ ric'.up = ric.up /\ ric'.iapp = ric.iapp /\ ric'.nodes = ric.nodes
    BY <1>1, <2>1, <2>2, <2>4 DEF Rics
  <2>7. HasAddress \/ (t.conn = conn /\ t.pc = "reg") => HasAddress'
    <3>1. \A n \in 1..Len(s) : n \in 1..Len(r) /\ r[n] = s[n]
      BY <2>3, <2>4
    <3>2. Len(s) + 1 \in 1..Len(r) /\ r[Len(s) + 1] = t.conn
      BY <2>3, <2>4
    <3> QED
      BY <2>1, <2>2, <2>6, <3>1, <3>2 DEF HasAddress
  <2>8. /\ TypeOK' /\ RequestsOnce' /\ Ordered' /\ ServedAlone'
        /\ AnswersTrue' /\ BeliefTrue' /\ Stopped'
    BY <2>1, <2>5, <2>6, <2>7, TaskMoved DEF Pcs
  <2>9. Cardinality(At("add")') = Cardinality(At("add")) + 1 /\ At("push")' = At("push")
    BY <1>2, <2>1, Moved DEF Pcs
  <2>10. IappCount'
    BY <1>4, <2>1, <2>6, <2>9 DEF IappCount, One
  <2>11. SadCount'
    <3>1. Len(ric'.sad) = Len(ric.sad) + 1
      BY <2>2, <2>3, <2>4, <2>6
    <3>2. (l + 1) + ln = (a + 1) + p + k
      <4> HIDE DEF p, a, k, l, ln, li, b
      <4> QED
        BY <1>3
    <3> QED
      BY <2>1, <2>6, <2>9, <3>1, <3>2 DEF SadCount
  <2> QED
    BY <2>8, <2>10, <2>11 DEF IInv
<1>6. CASE TaskAddNode(t)
  <2>1. CASE ric.iapp
    <3>1. UNCHANGED <<ag, ric, net, back, tasks, loop, conn, sent, stops>>
      BY <1>6, <2>1 DEF TaskAddNode
    <3> QED
      BY <3>1, AllKept
  <2>2. CASE ~ric.iapp
    <3>1. /\ ric.up /\ t.pc = "add" /\ ric' = [ric EXCEPT !.iapp = TRUE]
          /\ Advance(t, "push") /\ UNCHANGED <<ag, net, back, loop, conn, sent, stops>>
      BY <1>6, <2>2 DEF TaskAddNode
    <3>2. ric' \in Rics
      BY <1>1, <3>1 DEF Rics
    <3>3. ric'.sad = ric.sad /\ ric'.up = ric.up /\ ric'.iapp /\ ric'.nodes = ric.nodes
      BY <1>1, <3>1 DEF Rics
    <3>4. /\ TypeOK' /\ RequestsOnce' /\ Ordered' /\ ServedAlone'
          /\ AnswersTrue' /\ BeliefTrue' /\ Stopped'
      BY <3>1, <3>2, <3>3, TaskMoved DEF Pcs, HasAddress
    <3>5. /\ Cardinality(At("add")') = Cardinality(At("add")) - 1
          /\ Cardinality(At("push")') = Cardinality(At("push")) + 1
      BY <1>2, <3>1, Moved DEF Pcs
    <3>6. One(ric.iapp) = 0 /\ One(ric'.iapp) = 1
      BY <2>2, <3>3 DEF One
    <3>7. 1 = (p + 1) + k + li /\ l + ln = (a - 1) + (p + 1) + k
      <4>1. b = 0
        BY <3>6
      <4> HIDE DEF p, a, k, l, ln, li, b
      <4> QED
        BY <1>3, <4>1
    <3>8. IappCount' /\ SadCount'
      BY <3>1, <3>3, <3>5, <3>6, <3>7 DEF IappCount, SadCount
    <3> QED
      BY <3>4, <3>8 DEF IInv
  <2> QED
    BY <2>1, <2>2
<1>7. CASE TaskPushNode(t)
  <2>1. /\ ric.up /\ t.pc = "push" /\ ric' = [ric EXCEPT !.nodes = ric.nodes + 1]
        /\ Advance(t, "answer") /\ UNCHANGED <<ag, net, back, loop, conn, sent, stops>>
    BY <1>7 DEF TaskPushNode
  <2>2. ric.nodes \in Nat /\ ric.nodes + 1 \in Nat /\ ric.nodes + 1 > 0
    BY <1>1 DEF Rics
  <2>3. ric' \in Rics
    BY <1>1, <2>1, <2>2 DEF Rics
  <2>4. ric'.sad = ric.sad /\ ric'.up = ric.up /\ ric'.iapp = ric.iapp /\ ric'.nodes = ric.nodes + 1
    BY <1>1, <2>1 DEF Rics
  <2>5. /\ TypeOK' /\ RequestsOnce' /\ Ordered' /\ ServedAlone'
        /\ AnswersTrue' /\ BeliefTrue' /\ Stopped'
    BY <2>1, <2>2, <2>3, <2>4, TaskMoved DEF Pcs, HasAddress
  <2>6. Cardinality(At("push")') = Cardinality(At("push")) - 1 /\ At("add")' = At("add")
    BY <1>2, <2>1, Moved DEF Pcs
  <2>7. b = (p - 1) + (k + 1) + li /\ l + ln = a + (p - 1) + (k + 1)
    <3> HIDE DEF p, a, k, l, ln, li, b
    <3> QED
      BY <1>3
  <2>8. IappCount' /\ SadCount'
    BY <2>1, <2>4, <2>6, <2>7 DEF IappCount, SadCount
  <2> QED
    BY <2>5, <2>8 DEF IInv
<1> QED
  BY <1>5, <1>6, <1>7, TaskAnswerOK DEF TaskStep

\* While the event loop shuts a connection down, nothing of the agent's present
\* connection is served or believed.
LEMMA Leaving ==
  ASSUME IInv, ~NoShutdown, UNCHANGED <<ag, back, tasks, conn>>
  PROVE  ServedAlone' /\ AnswersTrue' /\ BeliefTrue'
<1>1. ~Here
  BY DEF Here
<1>2. ag.up => \A t \in tasks : t.conn # conn
  BY DEF IInv, ServedAlone
<1> QED
  BY <1>1, <1>2 DEF IInv, ServedAlone, AnswersTrue, BeliefTrue

\* notification_handle_ric, step by step: each takes from one registry.
LEMMA RicShutdownOK ==
  ASSUME IInv, RicShutdownAddr \/ RicShutdownNode \/ RicShutdownIapp
  PROVE  IInv'
<1>1. ric \in Rics /\ ric.nodes \in Nat /\ ric.sad \in Seq(Nat) /\ Len(ric.sad) \in Nat
  BY DEF IInv, TypeOK, Rics
<1>2. ric.up /\ UNCHANGED <<ag, back, tasks, conn, sent, stops>>
  BY DEF RicShutdownAddr, RicShutdownNode, RicShutdownIapp
<1> DEFINE p == Cardinality(At("push"))
           a == Cardinality(At("add"))
           k == ric.nodes
           l == Len(ric.sad)
           li == One(loop = "iapp")
           ln == One(loop = "node")
           b == One(ric.iapp)
<1>3. /\ p \in Nat /\ a \in Nat /\ k \in Nat /\ l \in Nat /\ b \in Nat
      /\ li \in Nat /\ ln \in Nat
      /\ b = p + k + li
      /\ l + ln = a + p + k
  BY Balances
<1>4. IappCount /\ SadCount /\ At("push")' = At("push") /\ At("add")' = At("add")
  BY <1>2 DEF IInv, At
<1>5. ASSUME ric' \in Rics, ric'.up, loop' \in {"idle", "node", "iapp"}, ~NoShutdown,
             net' = net \/ (net # << >> /\ net' = Tail(net)), IappCount' /\ SadCount'
      PROVE  IInv'
  <2>1. ServedAlone' /\ AnswersTrue' /\ BeliefTrue'
    BY <1>2, <1>5, Leaving
  <2>2. Stopped'
    BY <1>2, <1>5 DEF IInv, Stopped
  <2>3. net' \in Seq(Msgs) /\ RequestsOnce' /\ Ordered'
    <3>1. CASE net' = net
      BY <1>2, <3>1, NetTyped DEF IInv, RequestsOnce, Ordered
    <3>2. CASE net # << >> /\ net' = Tail(net)
      <4>1. /\ net' \in Seq(Msgs)
            /\ \A i \in 1..Len(net') : i + 1 \in 1..Len(net) /\ i + 1 > 1 /\ net'[i] = net[i + 1]
            /\ \A i, j \in 1..Len(net') : i < j => net'[i].conn <= net'[j].conn
            /\ \A i \in 1..Len(net') : net'[i].conn <= conn
        BY <3>2, NetTailed
      <4>2. Ordered'
        BY <1>2, <4>1 DEF IInv, Ordered
      <4>3. \A i, j \in 1..Len(net') : i + 1 = j + 1 => i = j
        OBVIOUS
      <4>4. RequestsOnce'
        <5>1. \A i \in 1..Len(net') : net'[i].type = "setup" =>
                net'[i].id < sent /\ \A t \in tasks : t.id # net'[i].id
          BY <4>1 DEF IInv, RequestsOnce
        <5>2. ASSUME NEW i \in 1..Len(net'), NEW j \in 1..Len(net'),
                     net'[i].type = "setup", net'[j].type = "setup", net'[j].id = net'[i].id
              PROVE  i = j
          <6>1. /\ i + 1 \in 1..Len(net) /\ net'[i] = net[i + 1]
                /\ j + 1 \in 1..Len(net) /\ net'[j] = net[j + 1]
            BY <4>1
          <6>2. i + 1 = j + 1
            BY <5>2, <6>1 DEF IInv, RequestsOnce
          <6> QED
            BY <4>3, <6>2
        <5> QED
          BY <1>2, <5>1, <5>2 DEF IInv, RequestsOnce
      <4> QED
        BY <4>1, <4>2, <4>4
    <3> QED
      BY <1>5, <3>1, <3>2
  <2>4. TypeOK'
    BY <1>2, <1>5, <2>3 DEF IInv, TypeOK, Msgs, Rics
  <2> QED
    BY <1>5, <2>1, <2>2, <2>3, <2>4 DEF IInv
<1>6. CASE RicShutdownAddr
  <2>1. loop = "idle" /\ net # << >> /\ Head(net).type = "shutdown" /\ net' = Tail(net)
    BY <1>6 DEF RicShutdownAddr
  <2>2. ~NoShutdown
    BY <2>1, NetTailed DEF NoShutdown
  <2>3. PICK c : c = Head(net).conn
    OBVIOUS
  <2>4. DOMAIN ric.sad = 1..Len(ric.sad)
    BY <1>1
  <2>5. CASE /\ \E i \in 1..Len(ric.sad) : ric.sad[i] = c
             /\ ric' = [ric EXCEPT !.sad = RemoveFirst(ric.sad, c)] /\ loop' = "node"
    <3>1. ric' = [ric EXCEPT !.sad = RemoveFirst(ric.sad, c)] /\ loop' = "node"
      BY <2>5
    <3>2. PICK r \in Seq(Nat) : r = RemoveFirst(ric.sad, c) /\ Len(r) = Len(ric.sad) - 1
      BY <1>1, <2>5, FirstRemoved
    <3>3. ric' \in Rics
      BY <1>1, <3>1, <3>2 DEF Rics
    <3>4. ric'.sad = r /\ ric'.up = ric.up /\ ric'.iapp = ric.iapp /\ ric'.nodes = ric.nodes
      BY <1>1, <3>1, <3>2 DEF Rics
    <3>5. /\ One(loop = "node") = 0 /\ One(loop' = "node") = 1
          /\ One(loop = "iapp") = 0 /\ One(loop' = "iapp") = 0
      BY <2>1, <3>1 DEF One
    <3>6. b = p + k + 0 /\ (l - 1) + 1 = a + p + k
      <4>1. li = 0 /\ ln = 0
        BY <3>5
      <4> HIDE DEF p, a, k, l, ln, li, b
      <4> QED
        BY <1>3, <4>1
    <3>7. IappCount' /\ SadCount'
      BY <1>4, <3>2, <3>4, <3>5, <3>6 DEF IappCount, SadCount
    <3> QED
      BY <1>2, <1>5, <2>1, <2>2, <3>1, <3>3, <3>4, <3>7
  <2>6. CASE UNCHANGED <<ric, loop>>
    <3>1. UNCHANGED <<ric, loop>>
      BY <2>6
    <3>2. IappCount' /\ SadCount'
      BY <1>2, <3>1, CountsKept
    <3> QED
      BY <1>1, <1>2, <1>5, <2>1, <2>2, <3>1, <3>2
  <2> QED
    BY <1>6, <2>3, <2>5, <2>6, <2>4 DEF RicShutdownAddr
<1>7. CASE RicShutdownNode \/ RicShutdownIapp
  <2>1. net' = net /\ loop \in {"node", "iapp"} /\ ~NoShutdown
    BY <1>7 DEF RicShutdownNode, RicShutdownIapp, NoShutdown
  <2>2. CASE UNCHANGED <<ric, loop>>
    <3>1. IappCount' /\ SadCount'
      BY <1>2, <2>2, CountsKept
    <3> QED
      BY <1>1, <1>2, <1>5, <2>1, <2>2, <3>1
  <2>3. CASE RicShutdownNode /\ ric.nodes > 0
    <3>1. PICK m \in Nat : m = ric.nodes - 1
      BY <1>1, <2>3
    <3>2. loop = "node" /\ ric' = [ric EXCEPT !.nodes = m] /\ loop' = "iapp"
      BY <2>3, <3>1 DEF RicShutdownNode
    <3>3. ric' \in Rics
      BY <1>1, <3>2 DEF Rics
    <3>4. ric'.sad = ric.sad /\ ric'.up = ric.up /\ ric'.iapp = ric.iapp /\ ric'.nodes = m
      BY <1>1, <3>2 DEF Rics
    <3>5. /\ One(loop = "node") = 1 /\ One(loop' = "node") = 0
          /\ One(loop = "iapp") = 0 /\ One(loop' = "iapp") = 1
      BY <3>2 DEF One
    <3>6. b = p + (k - 1) + 1 /\ l + 0 = a + p + (k - 1)
      <4>1. li = 0 /\ ln = 1
        BY <3>5
      <4> HIDE DEF p, a, k, l, ln, li, b
      <4> QED
        BY <1>3, <4>1
    <3>7. IappCount' /\ SadCount'
      BY <1>4, <3>1, <3>4, <3>5, <3>6 DEF IappCount, SadCount
    <3> QED
      BY <1>2, <1>5, <2>1, <3>2, <3>3, <3>4, <3>7
  <2>4. CASE RicShutdownIapp /\ ric.iapp
    <3>1. loop = "iapp" /\ ric' = [ric EXCEPT !.iapp = FALSE] /\ loop' = "idle"
      BY <2>4 DEF RicShutdownIapp
    <3>2. ric' \in Rics
      BY <1>1, <3>1 DEF Rics
    <3>3. ric'.sad = ric.sad /\ ric'.up = ric.up /\ ~ric'.iapp /\ ric'.nodes = ric.nodes
      BY <1>1, <3>1 DEF Rics
    <3>4. IappCount' /\ SadCount'
      <4>1. /\ One(loop = "node") = 0 /\ One(loop' = "node") = 0 /\ One(ric.iapp) = 1
            /\ One(loop = "iapp") = 1 /\ One(loop' = "iapp") = 0 /\ One(ric'.iapp) = 0
        BY <2>4, <3>1, <3>3 DEF One
      <4>2. 0 = p + k + 0 /\ l + 0 = a + p + k
        <5>1. b = 1 /\ li = 1 /\ ln = 0
          BY <4>1
        <5> HIDE DEF p, a, k, l, ln, li, b
        <5> QED
          BY <1>3, <5>1
      <4> QED
        BY <1>4, <3>3, <4>1, <4>2 DEF IappCount, SadCount
    <3> QED
      BY <1>2, <1>5, <2>1, <3>1, <3>2, <3>3, <3>4
  <2> QED
    BY <1>7, <2>2, <2>3, <2>4 DEF RicShutdownNode, RicShutdownIapp
<1> QED
  BY <1>6, <1>7

\* The RIC ends: the agent is to notice, whatever it believes.
LEMMA RicStopOK ==
  ASSUME IInv, RicStop
  PROVE  IInv'
<1>1. /\ ric' = [up |-> FALSE, sad |-> << >>, iapp |-> FALSE, nodes |-> 0]
      /\ net' = << >> /\ tasks' = {} /\ loop' = "idle" /\ UNCHANGED <<ag, conn, sent>>
  BY DEF RicStop, FreshRic
<1>2. stops' \in [agent : 0..MaxStops, ric : 0..MaxStops]
  <2>1. stops.ric + 1 \in 0..MaxStops /\ stops.agent \in 0..MaxStops
    BY SetupAssumption, SMTT(30) DEF IInv, TypeOK, RicStop
  <2>2. stops' = [stops EXCEPT !.ric = stops.ric + 1]
    BY DEF RicStop
  <2> QED
    BY <2>1, <2>2 DEF IInv, TypeOK
<1>3. At("push")' = {} /\ At("add")' = {} /\ Cardinality({}) = 0 /\ IsFiniteSet({})
  BY <1>1, FS_EmptySet DEF At
<1>4. IappCount' /\ SadCount'
  <2>1. ~ric'.iapp /\ ric'.nodes = 0 /\ Len(ric'.sad) = 0
    BY <1>1
  <2>2. Cardinality(At("push")') = 0 /\ Cardinality(At("add")') = 0
    BY <1>3
  <2> QED
    BY <1>1, <2>1, <2>2 DEF IappCount, SadCount, One
<1>5. RequestsOnce' /\ Ordered' /\ ServedAlone'
  BY <1>1, <1>3 DEF RequestsOnce, Ordered, ServedAlone
<1>6. back \in Seq({"resp", "shutdown"})
  BY DEF IInv, TypeOK
<1>7. /\ back' \in Seq({"resp", "shutdown"}) /\ AnswersTrue' /\ BeliefTrue'
      /\ ~ag.up => back' = << >>
  <2>1. CASE ag.up
    <3>1. /\ back' \in Seq({"resp", "shutdown"}) /\ Len(back') = Len(back) + 1 /\ Len(back) \in Nat
          /\ \A n \in 1..Len(back) : back'[n] = back[n]
          /\ back'[Len(back) + 1] = "shutdown"
      BY <1>6, <2>1, Appended DEF RicStop
    <3>2. Len(back') \in 1..Len(back') /\ back'[Len(back')] = "shutdown"
      BY <3>1
    <3>3. \A i \in 1..Len(back') : back'[i] = "resp" => Len(back') > i
      BY <3>1, <3>2
    <3> QED
      BY <2>1, <3>1, <3>2, <3>3 DEF AnswersTrue, BeliefTrue
  <2>2. CASE ~ag.up
    <3>1. back' = << >>
      BY <2>2 DEF IInv, Stopped, RicStop
    <3> QED
      BY <1>1, <2>2, <3>1 DEF AnswersTrue, BeliefTrue
  <2> QED
    BY <2>1, <2>2
<1>8. TypeOK'
  BY <1>1, <1>2, <1>7 DEF IInv, TypeOK
<1>9. Stopped'
  BY <1>1, <1>7 DEF Stopped
<1> QED
  BY <1>4, <1>5, <1>7, <1>8, <1>9 DEF IInv

\* The RIC starts again, with nothing registered.
LEMMA RicStartOK ==
  ASSUME IInv, RicStart
  PROVE  IInv'
<1>1. /\ ~ric.up /\ ric' = [up |-> TRUE, sad |-> << >>, iapp |-> FALSE, nodes |-> 0]
      /\ UNCHANGED <<ag, net, back, tasks, loop, conn, sent, stops>>
  BY DEF RicStart, FreshRic
<1>2. tasks = {} /\ ric.nodes = 0 /\ ric.sad = << >> /\ ~ric.iapp
  BY <1>1 DEF IInv, Stopped
<1>3. TypeOK'
  BY <1>1 DEF IInv, TypeOK
<1>4. IappCount' /\ SadCount'
  BY <1>1, <1>2 DEF IInv, IappCount, SadCount, At, One
<1>5. RequestsOnce' /\ Ordered'
  BY <1>1 DEF IInv, RequestsOnce, Ordered
<1>6. ~Here
  BY <1>1 DEF Here
<1>7. ServedAlone' /\ AnswersTrue' /\ BeliefTrue'
  BY <1>1, <1>2, <1>6 DEF IInv, ServedAlone, AnswersTrue, BeliefTrue
<1>8. Stopped'
  BY <1>1 DEF IInv, Stopped
<1> QED
  BY <1>3, <1>4, <1>5, <1>7, <1>8 DEF IInv
-----------------------------------------------------------------------------
(* The theorems.                                                           *)

\* Every step of Next keeps the invariant.
LEMMA StepOK ==
  ASSUME IInv, [Next]_vars
  PROVE  IInv'
<1>1. CASE Next
  BY <1>1, AgentStartOK, SetupTimeoutOK, SetupResponseOK, ConnectionLostOK, AgentStopOK,
     RicReceiveOK, TaskStepOK, RicShutdownOK, RicStopOK, RicStartOK
     DEF Next, RicLoop
<1>2. CASE UNCHANGED vars
  BY <1>2, AllKept DEF vars
<1> QED
  BY <1>1, <1>2

\* The inductive invariant: the counts of what is registered and half done, the
\* order of a connection's messages, and what an answer means, for any number of
\* requests and restarts in any environment.
THEOREM Inductive == Spec => []IInv
<1>1. IInv /\ [Next]_vars => IInv'
  BY StepOK
<1> QED
  BY <1>1, InitOK, PTL DEF Spec

\* The RIC's registries of addresses, of the iApp and of connected nodes agree
\* whenever neither a worker nor the event loop is in the middle of changing
\* them, however the timer, the stops and the workers interleave.
THEOREM RegistriesAgreeCorrect == Spec => []RegistriesAgree
<1>1. IInv => RegistriesAgree
  <2> SUFFICES ASSUME IInv PROVE RegistriesAgree
    OBVIOUS
  <2>1. TypeOK /\ ric \in Rics
    BY DEF IInv, TypeOK, Rics
  <2>2. ASSUME tasks = {}, loop = "idle"
        PROVE  \/ ric.sad = << >> /\ ~ric.iapp /\ ric.nodes = 0
               \/ Len(ric.sad) = 1 /\ ric.iapp /\ ric.nodes = 1
    <3>1. At("push") = {} /\ At("add") = {}
      BY <2>2 DEF At
    <3>2. Cardinality(At("push")) = 0 /\ Cardinality(At("add")) = 0
      BY <3>1, FS_EmptySet
    <3>3. ric.nodes \in Nat /\ ric.iapp \in BOOLEAN /\ ric.sad \in Seq(Nat) /\ Len(ric.sad) \in Nat
      BY <2>1 DEF Rics
    <3>4. One(ric.iapp) = ric.nodes /\ Len(ric.sad) = ric.nodes
      <4>1. One(loop = "iapp") = 0 /\ One(loop = "node") = 0
        BY <2>2 DEF One
      <4> QED
        <5>1. /\ One(ric.iapp) \in Nat
              /\ One(ric.iapp) = Cardinality(At("push")) + ric.nodes + One(loop = "iapp")
              /\ Len(ric.sad) + One(loop = "node") =
                   Cardinality(At("add")) + Cardinality(At("push")) + ric.nodes
          BY Balances
        <5> QED
          BY <3>2, <3>3, <4>1, <5>1
    <3>5. (ric.iapp /\ ric.nodes = 1) \/ (~ric.iapp /\ ric.nodes = 0)
      BY <3>3, <3>4 DEF One
    <3> QED
      BY <3>3, <3>4, <3>5, EmptySeq
  <2> QED
    BY <2>1, <2>2 DEF RegistriesAgree
<1> QED
  BY <1>1, Inductive, PTL

\* An agent that has stopped its timers is registered in all three, at its
\* present connection, or is about to be told that the RIC stopped, however late
\* answers come and whoever stops when.
THEOREM SetupMeansRegisteredCorrect == Spec => []SetupMeansRegistered
<1>1. IInv => SetupMeansRegistered
  <2> SUFFICES ASSUME IInv, ag.up, ag.pend = 0
               PROVE  \/ ric.iapp /\ ric.nodes > 0 /\ \E i \in DOMAIN ric.sad : ric.sad[i] = conn
                      \/ \E i \in DOMAIN back : back[i] = "shutdown"
    BY DEF SetupMeansRegistered
  <2>1. /\ ric.nodes \in Nat /\ ric.iapp \in BOOLEAN /\ ric.sad \in Seq(Nat)
        /\ back \in Seq({"resp", "shutdown"})
    BY DEF IInv, TypeOK
  <2>2. One(ric.iapp) >= ric.nodes
    BY Balances
  <2>3. ric.nodes > 0 => ric.iapp
    BY <2>1, <2>2 DEF One
  <2>4. DOMAIN back = 1..Len(back) /\ DOMAIN ric.sad = 1..Len(ric.sad)
    BY <2>1
  <2>5. Here \/ \E j \in 1..Len(back) : back[j] = "shutdown"
    BY DEF IInv, BeliefTrue
  <2> QED
    BY <2>3, <2>4, <2>5 DEF Here, HasAddress
<1> QED
  BY <1>1, Inductive, PTL

\* While notification_handle_ric is between the connected node and the iApp's
\* entry the entry is there, and no worker has registered the node anew,
\* whichever requests are served beside the shutdown.
THEOREM ShutdownUndisturbedCorrect == Spec => []ShutdownUndisturbed
<1>1. IInv => ShutdownUndisturbed
  <2> SUFFICES ASSUME IInv, loop = "iapp"
               PROVE  ric.iapp /\ ric.nodes = 0 /\ \A t \in tasks : t.pc # "push"
    BY DEF ShutdownUndisturbed
  <2>1. ric.nodes \in Nat /\ ric.iapp \in BOOLEAN
    BY DEF IInv, TypeOK
  <2>2. Cardinality(At("push")) \in Nat /\ IsFiniteSet(At("push"))
    BY Counted
  <2>3. One(ric.iapp) = Cardinality(At("push")) + ric.nodes + 1
    BY DEF IInv, IappCount, One
  <2>4. ric.iapp /\ ric.nodes = 0 /\ Cardinality(At("push")) = 0
    BY <2>1, <2>2, <2>3 DEF One
  <2>5. At("push") = {}
    BY <2>2, <2>4, FS_EmptySet
  <2> QED
    BY <2>4, <2>5 DEF At
<1> QED
  BY <1>1, Inductive, PTL
=============================================================================
