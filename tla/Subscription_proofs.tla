------------------------ MODULE Subscription_proofs ------------------------
(***************************************************************************)
(* Proofs about the life of a request number, for any number of xApps and  *)
(* workers.                                                                *)
(*                                                                         *)
(* The first part holds whether threads are prompt or not and RAN          *)
(* functions shared or not (SInv, NoOrphan).                               *)
(* The map forgets a number in one place, a worker that has sent the       *)
(* answer to a deletion or a control request on.  That the agent does not  *)
(* report under the number then follows from the order of the messages:    *)
(* a number is given out once, its request is in front of its deletions,   *)
(* and the agent has removed the indication event when it answers one.     *)
(*                                                                         *)
(* The second part is about the answers (AInv: NoAssertFails,              *)
(* AnswersMatchCalls, QuietAgrees), for prompt threads and RAN functions   *)
(* that are not shared.  What is under way beyond the iApp is one queue,   *)
(* Route; it is shown first what each step does to such a queue (RouteInv),*)
(* then what an xApp's invariant (XInvOf) needs of it.                     *)
(***************************************************************************)
EXTENDS Subscription, SequenceTheorems, FiniteSetTheorems, TLAPS

\* A message or task after which the number is given up.
Ends(m) == m.kind \in {"del", "ctrl"}

\* The agent has not answered a request that ends number i.
Open(i) ==
  /\ \A n \in 1..Len(toRic) : ~(Ends(toRic[n]) /\ toRic[n].id = i)
  /\ \A n \in 1..Len(pool) : ~(Ends(pool[n]) /\ pool[n].id = i)

\* Every number in use was given out.
Numbers ==
  /\ \A i \in DOMAIN map \cup ind : i < req
  /\ \A n \in 1..Len(toAg) : toAg[n].id < req
  /\ \A n \in 1..Len(toRic) : toRic[n].id < req
  /\ \A n \in 1..Len(pool) : pool[n].id < req

\* What a worker has done with its task.
Stages ==
  \A n \in 1..Len(pool) : /\ pool[n].pc = "find" => pool[n].kind # "ind"
                          /\ pool[n].pc = "rm" => Ends(pool[n])

\* A number the agent reports under.
Reporting ==
  \A i \in ind :
    /\ i \in DOMAIN map /\ Open(i)
    /\ \A n \in 1..Len(toAg) : ~(toAg[n].kind = "ctrl" /\ toAg[n].id = i)

\* A subscription request on its way to the agent.
Requested ==
  \A n \in 1..Len(toAg) : toAg[n].kind = "sub" =>
    /\ toAg[n].id \in DOMAIN map /\ Open(toAg[n].id)
    /\ \A k \in 1..Len(toAg) : toAg[k].id = toAg[n].id =>
         toAg[k].kind # "ctrl" /\ (toAg[k].kind = "del" => n < k)

Life == Numbers /\ Stages /\ Reporting /\ Requested

\* The inductive invariant.
SInv == TypeOK /\ Life

Task0 == [kind : Kinds \cup {"ind"}, id : ReqIds, pc : {"start", "find", "rm"}]
CallRecord == [pc : {"sent", "pended", "wait"}, kind : Kinds, k : 1..MaxProc]
XMsg == [kind : Kinds, k : 1..MaxProc]
IMsg == [kind : Kinds \cup {"ind"}, k : 1..MaxProc]

\* A queue without its j-th element.
LEMMA RemoveAtOK ==
  ASSUME NEW S, NEW q \in Seq(S), NEW j \in 1..Len(q)
  PROVE  RemoveAt(q, j) \in Seq(S)
<1> DEFINE a == SubSeq(q, 1, j - 1)
           b == SubSeq(q, j + 1, Len(q))
<1>1. a \in Seq(S)
  <2>1. a = [i \in 1..(j - 1) |-> q[i]] /\ \A i \in 1..(j - 1) : q[i] \in S
    OBVIOUS
  <2> HIDE DEF a
  <2> QED
    BY <2>1
<1>2. b \in Seq(S)
  <2>1. b = [i \in 1..(Len(q) - j) |-> q[i + j]] /\ \A i \in 1..(Len(q) - j) : q[i + j] \in S
    OBVIOUS
  <2> HIDE DEF b
  <2> QED
    BY <2>1
<1>3. RemoveAt(q, j) = a \o b
  BY DEF RemoveAt
<1> HIDE DEF a, b
<1> QED
  BY <1>1, <1>2, <1>3, ConcatProperties

\* A sequence whose elements have the property that defines a set.
LEMMA Elements ==
  ASSUME NEW S, NEW q \in Seq(S), NEW T, \A n \in 1..Len(q) : q[n] \in T
  PROVE  q \in Seq(T)
<1>1. q = [n \in 1..Len(q) |-> q[n]] /\ Len(q) \in Nat
  OBVIOUS
<1> QED
  BY <1>1

\* Every element of a queue without its j-th element was in the queue.
LEMMA RemoveAtFrom ==
  ASSUME NEW S, NEW q \in Seq(S), NEW j \in 1..Len(q)
  PROVE  \A n \in 1..Len(RemoveAt(q, j)) : \E k \in 1..Len(q) : RemoveAt(q, j)[n] = q[k]
<1> DEFINE T == {q[k] : k \in 1..Len(q)}
<1>1. q \in Seq(T)
  <2>1. \A n \in 1..Len(q) : q[n] \in T
    OBVIOUS
  <2> HIDE DEF T
  <2> QED
    BY <2>1, Elements
<1>2. RemoveAt(q, j) \in Seq(T)
  <2> HIDE DEF T
  <2> QED
    BY <1>1, RemoveAtOK
<1>3. \A n \in 1..Len(RemoveAt(q, j)) : RemoveAt(q, j)[n] \in T
  <2> HIDE DEF T
  <2> QED
    BY <1>2
<1> QED
  BY <1>3

\* The deletions that are sent are behind what was under way, one for each of
\* the numbers.
LEMMA DeletesSent ==
  ASSUME TypeOK, NEW ids, ids \subseteq DOMAIN map, Numbers, SendDeletes(ids)
  PROVE  /\ toAg' \in Seq(Msg) /\ Len(toAg) <= Len(toAg')
         /\ \A n \in 1..Len(toAg) : toAg'[n] = toAg[n]
         /\ \A n \in 1..Len(toAg') : n > Len(toAg) =>
              toAg'[n].kind = "del" /\ toAg'[n].id \in DOMAIN map
<1>1. toAg \in Seq(Msg) /\ DOMAIN map \subseteq ReqIds /\ req \in Nat
  BY DEF TypeOK, ReqIds
<1>2. IsFiniteSet(ids) /\ Cardinality(ids) \in Nat
  <2>1. ids \in SUBSET Nat /\ \A i \in ids : i <= req
    BY <1>1 DEF Numbers, ReqIds
  <2>2. IsFiniteSet(ids)
    BY <1>1, <2>1, FS_BoundedSetOfNaturals
  <2> QED
    BY <2>2, FS_CardinalityType
<1>3. PICK s \in [1..Cardinality(ids) -> ids] :
        toAg' = toAg \o [n \in DOMAIN s |-> [kind |-> "del", id |-> s[n]]]
  BY DEF SendDeletes
<1> DEFINE c == Cardinality(ids)
           d == [n \in 1..c |-> [kind |-> "del", id |-> s[n]]]
<1>4. d \in Seq(Msg) /\ Len(d) = c /\ \A n \in 1..c : d[n].kind = "del" /\ d[n].id \in ids
  <2>1. \A n \in 1..c : s[n] \in ids /\ s[n] \in ReqIds
    BY <1>1
  <2>2. \A n \in 1..c : [kind |-> "del", id |-> s[n]] \in Msg
    BY <2>1 DEF Msg, Kinds
  <2>3. c \in Nat
    BY <1>2
  <2> HIDE DEF c
  <2> QED
    BY <2>1, <2>2, <2>3
<1>5. toAg' = toAg \o d
  BY <1>3
<1> HIDE DEF d, c
<1>6. /\ toAg' \in Seq(Msg) /\ Len(toAg') = Len(toAg) + c
      /\ \A i \in 1..(Len(toAg) + c) : toAg'[i] = IF i <= Len(toAg) THEN toAg[i] ELSE d[i - Len(toAg)]
  BY <1>1, <1>4, <1>5, ConcatProperties
<1>7. c \in Nat /\ Len(toAg) \in Nat
  BY <1>1, <1>2 DEF c
<1>8. ASSUME NEW n \in 1..Len(toAg'), n > Len(toAg)
      PROVE  toAg'[n].kind = "del" /\ toAg'[n].id \in DOMAIN map
  <2>1. n - Len(toAg) \in 1..c /\ toAg'[n] = d[n - Len(toAg)]
    BY <1>6, <1>7, <1>8
  <2> QED
    BY <1>4, <2>1
<1>9. \A n \in 1..Len(toAg) : toAg'[n] = toAg[n]
  BY <1>6, <1>7
<1> QED
  BY <1>6, <1>7, <1>8, <1>9

\* The bound on procedures bounds the local numbers.
LEMMA StartedBound ==
  ASSUME TypeOK, NEW x \in XApps, Cardinality(Started) < MaxProc
  PROVE  nextk[x] \in 1..MaxProc /\ nextk[x] + 1 \in 1..(MaxProc + 1)
<1> USE SubscriptionAssumption
<1>1. \A y \in XApps : nextk[y] \in 1..(MaxProc + 1)
  BY DEF TypeOK
<1> DEFINE m == nextk[x] - 1
           A == {x} \X (1..m)
           B == XApps \X (1..MaxProc)
<1>2. m \in Nat /\ MaxProc \in Nat
  BY <1>1
<1>3. IsFiniteSet(B)
  <2>1. IsFiniteSet(1..MaxProc) /\ IsFiniteSet(XApps)
    BY <1>2, FS_Interval
  <2> QED
    BY <2>1, FS_Product
<1>4. Started \in SUBSET B
  BY <1>1 DEF Started
<1>5. IsFiniteSet(Started) /\ Cardinality(Started) \in Nat
  <2> HIDE DEF B
  <2>1. IsFiniteSet(Started)
    BY <1>3, <1>4, FS_Subset
  <2> QED
    BY <2>1, FS_CardinalityType
<1>6. A \in SUBSET Started
  BY DEF Started
<1>7. Cardinality(A) = m
  <2>1. IsFiniteSet({x}) /\ Cardinality({x}) = 1
    BY FS_Singleton
  <2>2. IsFiniteSet(1..m) /\ Cardinality(1..m) = m
    <3> HIDE DEF m
    <3> QED
      BY <1>2, FS_Interval
  <2>3. Cardinality(A) = Cardinality({x}) * Cardinality(1..m)
    <3> HIDE DEF m
    <3> QED
      BY <2>1, <2>2, FS_Product
  <2> HIDE DEF m, A
  <2> QED
    BY <1>2, <2>1, <2>2, <2>3
<1>8. Cardinality(A) <= Cardinality(Started)
  <2> HIDE DEF A
  <2> QED
    BY <1>5, <1>6, FS_Subset
<1>9. m < MaxProc
  <2> HIDE DEF m, A
  <2> QED
    BY <1>2, <1>5, <1>7, <1>8
<1>10. nextk[x] \in 1..(MaxProc + 1)
  BY <1>1
<1> QED
  BY <1>2, <1>9, <1>10

\* What an xApp does by itself leaves the numbers alone.
LEMMA LifeSame ==
  ASSUME Life, UNCHANGED <<map, req, pool, toAg, toRic, ind>>
  PROVE  Life'
<1>1. map' = map /\ req' = req /\ pool' = pool /\ toAg' = toAg /\ toRic' = toRic /\ ind' = ind
  OBVIOUS
<1>2. \A i : Open(i)' <=> Open(i)
  BY <1>1 DEF Open
<1>3. Numbers' /\ Stages'
  BY <1>1 DEF Life, Numbers, Stages, Ends
<1>4. Reporting'
  BY <1>1, <1>2 DEF Life, Reporting
<1>5. Requested'
  BY <1>1, <1>2 DEF Life, Requested
<1> QED
  BY <1>3, <1>4, <1>5 DEF Life

\* The part of the type invariant that is about the xApps.
XTypes ==
  /\ up \in [XApps -> BOOLEAN]
  /\ ui \in [XApps -> {Idle} \cup CallRecord]
  /\ flag \in [XApps -> BOOLEAN]
  /\ act \in [XApps -> SUBSET (1..MaxProc)]
  /\ nextk \in [XApps -> 1..(MaxProc + 1)]
  /\ xpend \in [XApps -> SUBSET Kinds]
  /\ x2i \in [XApps -> Seq(XMsg)]
  /\ i2x \in [XApps -> Seq(IMsg)]
  /\ bounced \subseteq XApps

\* The rest of it.
RTypes ==
  /\ DOMAIN map \subseteq ReqIds
  /\ \A i \in DOMAIN map : map[i] \in [x : XApps, k : 1..MaxProc, type : Kinds]
  /\ req \in ReqIds
  /\ rpend \subseteq [kind : Kinds, id : ReqIds]
  /\ pool \in Seq(Task0)
  /\ toAg \in Seq(Msg)
  /\ toRic \in Seq(Msg)
  /\ ind \subseteq ReqIds

\* The two parts together.
LEMMA TypeParts == TypeOK <=> XTypes /\ RTypes
  BY DEF TypeOK, XTypes, RTypes, CallRecord, XMsg, IMsg, Task0

\* The same of the next state.
LEMMA TypePartsNext == TypeOK' <=> XTypes' /\ RTypes'
  BY TypeParts, PTL

\* The steps of an xApp preserve the invariant.
LEMMA XappOnly ==
  ASSUME SInv, XTypes', UNCHANGED <<map, req, rpend, pool, toAg, toRic, ind>>
  PROVE  SInv'
<1>1. RTypes'
  BY TypeParts DEF SInv, RTypes
<1>2. Life'
  BY LifeSame DEF SInv
<1> QED
  BY <1>1, <1>2, TypePartsNext DEF SInv

\* A new call.
LEMMA CallOK ==
  ASSUME XTypes, NEW x \in XApps, NEW kind \in Kinds, NEW k \in 1..MaxProc, Call(x, kind, k)
  PROVE  ui' \in [XApps -> {Idle} \cup CallRecord] /\ x2i' \in [XApps -> Seq(XMsg)]
<1>1. [pc |-> "sent", kind |-> kind, k |-> k] \in CallRecord
  BY DEF CallRecord
<1>2. ui' \in [XApps -> {Idle} \cup CallRecord]
  BY <1>1 DEF XTypes, Call
<1>3. [kind |-> kind, k |-> k] \in XMsg /\ x2i[x] \in Seq(XMsg)
  BY DEF XMsg, XTypes
<1>4. Append(x2i[x], [kind |-> kind, k |-> k]) \in Seq(XMsg)
  BY <1>3
<1>5. x2i' \in [XApps -> Seq(XMsg)]
  BY <1>4 DEF XTypes, Call
<1> QED
  BY <1>2, <1>5

\* The calls of the user's thread.
LEMMA UiOK ==
  ASSUME SInv, NEW x \in XApps, Ui(x)
  PROVE  SInv'
<1>1. XTypes /\ TypeOK
  BY TypeParts DEF SInv
<1>2. ASSUME Register(x)
      PROVE  /\ act' \in [XApps -> SUBSET (1..MaxProc)] /\ nextk' \in [XApps -> 1..(MaxProc + 1)]
             /\ nextk[x] \in 1..MaxProc
  <2>1. nextk[x] \in 1..MaxProc /\ nextk[x] + 1 \in 1..(MaxProc + 1)
    BY <1>1, <1>2, StartedBound DEF Register
  <2>2. act' \in [XApps -> SUBSET (1..MaxProc)]
    BY <1>1, <1>2, <2>1 DEF Register, XTypes
  <2>3. nextk' \in [XApps -> 1..(MaxProc + 1)]
    BY <1>1, <1>2, <2>1 DEF Register, XTypes
  <2> QED
    BY <2>1, <2>2, <2>3
<1>3. {"sub", "del", "ctrl"} = Kinds
  BY DEF Kinds
<1>4. CASE Report(x)
  <2>1. ui' \in [XApps -> {Idle} \cup CallRecord] /\ x2i' \in [XApps -> Seq(XMsg)]
    BY <1>1, <1>2, <1>3, <1>4, CallOK DEF Report
  <2>2. xpend' \in [XApps -> SUBSET Kinds]
    BY <1>1, <1>3, <1>4 DEF Report, XTypes
  <2>3. XTypes'
    BY <1>1, <1>2, <1>4, <2>1, <2>2 DEF Report, XTypes
  <2> QED
    BY <1>4, <2>3, XappOnly DEF Report
<1>5. CASE Control(x)
  <2>1. ui' \in [XApps -> {Idle} \cup CallRecord] /\ x2i' \in [XApps -> Seq(XMsg)]
    BY <1>1, <1>2, <1>3, <1>5, CallOK DEF Control
  <2>2. XTypes'
    BY <1>1, <1>2, <1>5, <2>1 DEF Control, XTypes
  <2> QED
    BY <1>5, <2>2, XappOnly DEF Control
<1>6. ASSUME NEW k \in 1..MaxProc, RmReport(x, k)
      PROVE  SInv'
  <2>1. ui' \in [XApps -> {Idle} \cup CallRecord] /\ x2i' \in [XApps -> Seq(XMsg)]
    BY <1>1, <1>3, <1>6, CallOK DEF RmReport
  <2>2. XTypes'
    BY <1>1, <1>6, <2>1 DEF RmReport, XTypes
  <2> QED
    BY <1>6, <2>2, XappOnly DEF RmReport
<1> QED
  BY <1>4, <1>5, <1>6 DEF Ui

\* The rest of a call, in the user's thread.
LEMMA UiStepOK ==
  ASSUME SInv, NEW x \in XApps, UiStep(x)
  PROVE  SInv'
<1>1. XTypes
  BY TypeParts DEF SInv
<1>2. ui[x] \in {Idle} \cup CallRecord
  BY <1>1 DEF XTypes
<1>3. ASSUME ui[x].pc # "idle", NEW p \in {"sent", "pended", "wait"}
      PROVE  [ui[x] EXCEPT !.pc = p] \in CallRecord /\ ui[x].kind \in Kinds
  <2>1. ui[x] \in CallRecord
    BY <1>2, <1>3 DEF Idle
  <2> QED
    BY <2>1 DEF CallRecord
<1>4. CASE UiPend(x)
  <2>1. ui' = [ui EXCEPT ![x] = [ui[x] EXCEPT !.pc = "pended"]] /\ ui[x].pc # "idle"
    BY <1>4 DEF UiPend
  <2>2. ui' \in [XApps -> {Idle} \cup CallRecord] /\ xpend' \in [XApps -> SUBSET Kinds]
    BY <1>1, <1>3, <1>4, <2>1 DEF UiPend, XTypes
  <2>3. XTypes'
    BY <1>1, <1>4, <2>2 DEF UiPend, XTypes
  <2> QED
    BY <1>4, <2>3, XappOnly DEF UiPend
<1>5. CASE UiWait(x)
  <2>1. ui' = [ui EXCEPT ![x] = [ui[x] EXCEPT !.pc = "wait"]] /\ ui[x].pc # "idle"
    BY <1>5 DEF UiWait
  <2>2. ui' \in [XApps -> {Idle} \cup CallRecord] /\ flag' \in [XApps -> BOOLEAN]
    BY <1>1, <1>3, <1>5, <2>1 DEF UiWait, XTypes
  <2>3. XTypes'
    BY <1>1, <1>5, <2>2 DEF UiWait, XTypes
  <2> QED
    BY <1>5, <2>3, XappOnly DEF UiWait
<1>6. CASE UiReturn(x)
  <2>1. ui' \in [XApps -> {Idle} \cup CallRecord] /\ act' \in [XApps -> SUBSET (1..MaxProc)]
    BY <1>1, <1>6 DEF UiReturn, XTypes
  <2>2. XTypes'
    BY <1>1, <1>6, <2>1 DEF UiReturn, XTypes
  <2> QED
    BY <1>6, <2>2, XappOnly DEF UiReturn
<1> QED
  BY <1>4, <1>5, <1>6 DEF UiStep

\* The end of an xApp, and its event loop.
LEMMA XappOK ==
  ASSUME SInv, NEW x \in XApps, XappEnd(x) \/ XappStep(x)
  PROVE  SInv'
<1>1. XTypes
  BY TypeParts DEF SInv
<1>2. CASE XappEnd(x)
  <2>1. x2i' \in [XApps -> Seq(XMsg)]
    <3>1. x2i[x] \in Seq(XMsg) /\ << >> \in Seq(XMsg)
      BY <1>1 DEF XTypes
    <3>2. PICK sent \in {x2i[x], << >>} : x2i' = [x2i EXCEPT ![x] = sent]
      BY <1>2 DEF XappEnd
    <3> QED
      BY <1>1, <3>1, <3>2 DEF XTypes
  <2>2. i2x' \in [XApps -> Seq(IMsg)]
    BY <1>1, <1>2 DEF XappEnd, XTypes
  <2>3. bounced' \subseteq XApps
    BY <1>1, <1>2 DEF XappEnd, XTypes
  <2>4. up' \in [XApps -> BOOLEAN] /\ flag' \in [XApps -> BOOLEAN]
    BY <1>1, <1>2 DEF XappEnd, XTypes
  <2>5. /\ ui' \in [XApps -> {Idle} \cup CallRecord]
        /\ act' \in [XApps -> SUBSET (1..MaxProc)] /\ xpend' \in [XApps -> SUBSET Kinds]
    BY <1>1, <1>2 DEF XappEnd, XTypes
  <2>6. XTypes'
    BY <1>1, <1>2, <2>1, <2>2, <2>3, <2>4, <2>5 DEF XappEnd, XTypes
  <2> QED
    BY <1>2, <2>6, XappOnly DEF XappEnd
<1>3. ASSUME i2x[x] # << >>, i2x' = [i2x EXCEPT ![x] = Tail(@)]
      PROVE  i2x' \in [XApps -> Seq(IMsg)]
  <2>1. i2x[x] \in Seq(IMsg)
    BY <1>1 DEF XTypes
  <2>2. Tail(i2x[x]) \in Seq(IMsg)
    BY <1>3, <2>1, HeadTailProperties
  <2> QED
    BY <1>1, <1>3, <2>2 DEF XTypes
<1>4. CASE XappIndication(x)
  <2>1. XTypes'
    BY <1>1, <1>3, <1>4 DEF XappIndication, XTypes, xappVars
  <2> QED
    BY <1>4, <2>1, XappOnly DEF XappIndication
<1>5. CASE XappAnswer(x)
  <2>1. xpend' \in [XApps -> SUBSET Kinds] /\ flag' \in [XApps -> BOOLEAN]
    BY <1>1, <1>5 DEF XappAnswer, XTypes
  <2>2. XTypes'
    BY <1>1, <1>3, <1>5, <2>1 DEF XappAnswer, XTypes
  <2> QED
    BY <1>5, <2>2, XappOnly DEF XappAnswer
<1> QED
  BY <1>2, <1>4, <1>5 DEF XappStep

\* A subscription or control request gets a number of its own.
LEMMA IappRequestOK ==
  ASSUME SInv, NEW x \in XApps, IappRequest(x)
  PROVE  SInv'
<1>1. XTypes /\ RTypes /\ Life
  BY TypeParts DEF SInv
<1> DEFINE m == Head(x2i[x])
           new == [kind |-> m.kind, id |-> req]
<1>2. x2i[x] \in Seq(XMsg) /\ x2i[x] # << >> /\ m.kind # "del"
  BY <1>1 DEF XTypes, IappRequest
<1>3. m \in XMsg /\ Tail(x2i[x]) \in Seq(XMsg)
  BY <1>2, HeadTailProperties
<1>4. m.kind \in {"sub", "ctrl"} /\ m.kind \in Kinds /\ m.k \in 1..MaxProc
  BY <1>2, <1>3 DEF XMsg, Kinds
<1>5. req \in Nat /\ req \in ReqIds /\ req + 1 \in ReqIds /\ toAg \in Seq(Msg)
  BY <1>1 DEF RTypes, ReqIds
<1>6. /\ x2i' = [x2i EXCEPT ![x] = Tail(x2i[x])] /\ rpend' = rpend \cup {new}
      /\ toAg' = Append(toAg, new) /\ req' = req + 1
      /\ map' = [i \in DOMAIN map \cup {req} |->
                   IF i = req THEN [x |-> x, k |-> m.k, type |-> m.kind] ELSE map[i]]
      /\ UNCHANGED <<up, ui, flag, act, nextk, xpend, i2x, bounced, pool, toRic, ind>>
  BY DEF IappRequest, xappVars
<1> HIDE DEF m
<1>7. new \in Msg /\ new \in [kind : Kinds, id : ReqIds] /\ new.kind = m.kind /\ new.id = req
  BY <1>4, <1>5 DEF Msg
<1> HIDE DEF new
<1>8. /\ toAg' \in Seq(Msg) /\ Len(toAg') = Len(toAg) + 1 /\ Len(toAg) \in Nat
      /\ toAg'[Len(toAg) + 1] = new /\ \A n \in 1..Len(toAg) : toAg'[n] = toAg[n]
  BY <1>5, <1>6, <1>7
<1>9. XTypes'
  <2>1. x2i' \in [XApps -> Seq(XMsg)]
    BY <1>1, <1>3, <1>6 DEF XTypes
  <2> QED
    BY <1>1, <1>6, <2>1 DEF XTypes
<1>10. DOMAIN map' = DOMAIN map \cup {req}
  BY <1>6
<1>11. RTypes'
  <2>1. ASSUME NEW i \in DOMAIN map'
        PROVE  map'[i] \in [x : XApps, k : 1..MaxProc, type : Kinds]
    <3>1. CASE i = req
      <4>1. map'[i] = [x |-> x, k |-> m.k, type |-> m.kind]
        BY <1>6, <3>1
      <4> QED
        BY <1>4, <4>1
    <3>2. CASE i # req
      <4>1. i \in DOMAIN map /\ map'[i] = map[i]
        BY <1>6, <1>10, <3>2
      <4> QED
        BY <1>1, <4>1 DEF RTypes
    <3> QED
      BY <3>1, <3>2
  <2>2. DOMAIN map' \subseteq ReqIds /\ rpend' \subseteq [kind : Kinds, id : ReqIds] /\ req' \in ReqIds
    BY <1>1, <1>5, <1>6, <1>7, <1>10 DEF RTypes
  <2> QED
    BY <1>1, <1>6, <1>8, <2>1, <2>2 DEF RTypes
<1>12. /\ \A i \in DOMAIN map \cup ind : i \in Nat /\ i < req
       /\ \A n \in 1..Len(toAg) : toAg[n].id \in Nat /\ toAg[n].id < req
       /\ \A n \in 1..Len(toRic) : toRic[n].id \in Nat /\ toRic[n].id < req
       /\ \A n \in 1..Len(pool) : pool[n].id \in Nat /\ pool[n].id < req
  <2>1. \A i \in DOMAIN map \cup ind : i \in Nat
    BY <1>1 DEF RTypes, ReqIds
  <2>2. /\ \A n \in 1..Len(toAg) : toAg[n].id \in Nat
        /\ \A n \in 1..Len(toRic) : toRic[n].id \in Nat
    <3>1. toAg \in Seq(Msg) /\ toRic \in Seq(Msg)
      BY <1>1 DEF RTypes
    <3>2. \A q \in Msg : q.id \in Nat
      BY DEF Msg, ReqIds
    <3>3. (\A n \in 1..Len(toAg) : toAg[n] \in Msg) /\ (\A n \in 1..Len(toRic) : toRic[n] \in Msg)
      BY <3>1
    <3> QED
      BY <3>2, <3>3
  <2>3. \A n \in 1..Len(pool) : pool[n].id \in Nat
    <3>1. pool \in Seq(Task0)
      BY <1>1 DEF RTypes
    <3>2. \A q \in Task0 : q.id \in Nat
      BY DEF Task0, ReqIds
    <3>3. \A n \in 1..Len(pool) : pool[n] \in Task0
      BY <3>1
    <3> QED
      BY <3>2, <3>3
  <2> QED
    BY <1>1, <2>1, <2>2, <2>3 DEF Life, Numbers
<1>13. Open(req)
  BY <1>5, <1>12 DEF Open
<1>14. \A i : Open(i) => Open(i)'
  BY <1>6 DEF Open
<1>15. \A n \in 1..Len(toAg') : n \in 1..Len(toAg) \/ n = Len(toAg) + 1
  BY <1>8
<1>16. Numbers'
  <2>1. \A i \in DOMAIN map' \cup ind' : i < req'
    BY <1>5, <1>6, <1>10, <1>12
  <2>2. ASSUME NEW n \in 1..Len(toAg') PROVE toAg'[n].id < req'
    BY <1>5, <1>6, <1>7, <1>8, <1>12, <1>15
  <2>3. \A n \in 1..Len(toRic') : toRic'[n].id < req'
    BY <1>5, <1>6, <1>12
  <2>4. \A n \in 1..Len(pool') : pool'[n].id < req'
    BY <1>5, <1>6, <1>12
  <2> QED
    BY <2>1, <2>2, <2>3, <2>4 DEF Numbers
<1>17. Stages'
  BY <1>1, <1>6 DEF Life, Stages, Ends
<1>18. Reporting'
  <2> SUFFICES ASSUME NEW i \in ind
               PROVE  /\ i \in DOMAIN map' /\ Open(i)'
                      /\ \A n \in 1..Len(toAg') : ~(toAg'[n].kind = "ctrl" /\ toAg'[n].id = i)
    BY <1>6 DEF Reporting
  <2>1. i \in DOMAIN map /\ Open(i)
    BY <1>1 DEF Life, Reporting
  <2>2. i # req
    BY <1>5, <1>12
  <2>3. \A n \in 1..Len(toAg') : ~(toAg'[n].kind = "ctrl" /\ toAg'[n].id = i)
    BY <1>1, <1>7, <1>8, <1>15, <2>2 DEF Life, Reporting
  <2> QED
    BY <1>10, <1>14, <2>1, <2>3
<1>19. Requested'
  <2> SUFFICES ASSUME NEW n \in 1..Len(toAg'), toAg'[n].kind = "sub"
               PROVE  /\ toAg'[n].id \in DOMAIN map' /\ Open(toAg[n].id)'
                      /\ \A k \in 1..Len(toAg') : toAg'[k].id = toAg'[n].id =>
                           toAg'[k].kind # "ctrl" /\ (toAg'[k].kind = "del" => n < k)
    BY DEF Requested
  <2>0. PICK i : i = toAg'[n].id
    OBVIOUS
  <2>1. CASE n \in 1..Len(toAg)
    <3>1. toAg[n].id = i /\ toAg[n].kind = "sub"
      BY <1>8, <2>0, <2>1
    <3>2. i \in DOMAIN map /\ Open(i)
      BY <1>1, <2>1, <3>1 DEF Life, Requested
    <3>3. Open(i)' /\ i \in DOMAIN map' /\ i # req
      BY <1>5, <1>10, <1>12, <1>14, <3>2
    <3>4. ASSUME NEW k \in 1..Len(toAg'), toAg'[k].id = i
          PROVE  toAg'[k].kind # "ctrl" /\ (toAg'[k].kind = "del" => n < k)
      <4>1. k \in 1..Len(toAg) /\ toAg'[k] = toAg[k]
        BY <1>7, <1>8, <1>15, <3>3, <3>4
      <4> QED
        BY <1>1, <2>1, <3>1, <3>4, <4>1 DEF Life, Requested
    <3> QED
      BY <2>0, <3>3, <3>4
  <2>2. CASE n = Len(toAg) + 1
    <3>1. i = req /\ m.kind = "sub" /\ i \in DOMAIN map' /\ Open(i)'
      BY <1>7, <1>8, <1>10, <1>13, <1>14, <2>0, <2>2
    <3>2. ASSUME NEW k \in 1..Len(toAg'), toAg'[k].id = i
          PROVE  toAg'[k].kind # "ctrl" /\ (toAg'[k].kind = "del" => n < k)
      <4>1. CASE k \in 1..Len(toAg)
        <5>1. toAg[k].id = req /\ toAg[k].id < req
          BY <1>8, <1>12, <3>1, <3>2, <4>1
        <5> QED
          BY <1>5, <5>1
      <4>2. CASE k = Len(toAg) + 1
        BY <1>7, <1>8, <3>1, <4>2
      <4> QED
        BY <1>15, <4>1, <4>2
    <3> QED
      BY <2>0, <3>1, <3>2
  <2> QED
    BY <1>15, <2>1, <2>2
<1> QED
  BY <1>9, <1>11, <1>16, <1>17, <1>18, <1>19, TypePartsNext DEF SInv, Life

\* Deletions are sent behind the requests they delete.
LEMMA FwdDeleteOK ==
  ASSUME SInv, NEW ids, ids \subseteq DOMAIN map, FwdDelete(ids), XTypes',
         UNCHANGED <<map, req, pool, toRic, ind>>
  PROVE  SInv'
<1>1. TypeOK /\ RTypes /\ Life /\ Numbers
  BY TypeParts DEF SInv, Life
<1> DEFINE fresh == {i \in ids : [kind |-> "del", id |-> i] \notin rpend}
<1>2. SendDeletes(fresh) /\ rpend' = rpend \cup {[kind |-> "del", id |-> i] : i \in fresh}
  BY DEF FwdDelete
<1>3. fresh \subseteq DOMAIN map
  OBVIOUS
<1> HIDE DEF fresh
<1>4. /\ toAg' \in Seq(Msg) /\ Len(toAg) <= Len(toAg')
      /\ \A n \in 1..Len(toAg) : toAg'[n] = toAg[n]
      /\ \A n \in 1..Len(toAg') : n > Len(toAg) =>
           toAg'[n].kind = "del" /\ toAg'[n].id \in DOMAIN map
  BY <1>1, <1>2, <1>3, DeletesSent
<1>5. Len(toAg) \in Nat /\ Len(toAg') \in Nat
  BY <1>1, <1>4 DEF RTypes
<1>6. \A n \in 1..Len(toAg') :
        \/ n \in 1..Len(toAg) /\ toAg'[n] = toAg[n]
        \/ n > Len(toAg) /\ toAg'[n].kind = "del" /\ toAg'[n].id \in DOMAIN map
  BY <1>4, <1>5
<1>7. RTypes'
  <2>1. \A i \in fresh : [kind |-> "del", id |-> i] \in [kind : Kinds, id : ReqIds]
    BY <1>1, <1>3 DEF RTypes, Kinds
  <2>2. rpend' \subseteq [kind : Kinds, id : ReqIds]
    BY <1>1, <1>2, <2>1 DEF RTypes
  <2> QED
    BY <1>1, <1>4, <2>2 DEF RTypes
<1>8. \A i : Open(i) => Open(i)'
  BY DEF Open
<1>9. Numbers'
  <2>1. ASSUME NEW n \in 1..Len(toAg') PROVE toAg'[n].id < req'
    BY <1>1, <1>6 DEF Numbers
  <2> QED
    BY <1>1, <2>1 DEF Numbers
<1>10. Stages'
  BY <1>1 DEF Life, Stages, Ends
<1>11. Reporting'
  BY <1>1, <1>6, <1>8 DEF Life, Reporting
<1>12. Requested'
  <2> SUFFICES ASSUME NEW n \in 1..Len(toAg'), toAg'[n].kind = "sub"
               PROVE  /\ toAg'[n].id \in DOMAIN map' /\ Open(toAg[n].id)'
                      /\ \A k \in 1..Len(toAg') : toAg'[k].id = toAg'[n].id =>
                           toAg'[k].kind # "ctrl" /\ (toAg'[k].kind = "del" => n < k)
    BY DEF Requested
  <2>1. PICK i : i = toAg'[n].id
    OBVIOUS
  <2>2. n \in 1..Len(toAg) /\ toAg[n].id = i /\ toAg[n].kind = "sub"
    BY <1>6, <2>1
  <2>3. i \in DOMAIN map' /\ Open(i)'
    BY <1>1, <1>8, <2>2 DEF Life, Requested
  <2>4. ASSUME NEW k \in 1..Len(toAg'), toAg'[k].id = i
        PROVE  toAg'[k].kind # "ctrl" /\ (toAg'[k].kind = "del" => n < k)
    <3>1. CASE k \in 1..Len(toAg) /\ toAg'[k] = toAg[k]
      BY <1>1, <2>2, <2>4, <3>1 DEF Life, Requested
    <3>2. CASE k > Len(toAg) /\ toAg'[k].kind = "del"
      BY <1>5, <2>2, <3>2
    <3> QED
      BY <1>6, <3>1, <3>2
  <2> QED
    BY <2>1, <2>3, <2>4
<1> QED
  BY <1>7, <1>9, <1>10, <1>11, <1>12, TypePartsNext DEF SInv, Life

\* The iApp's event loop.
LEMMA IappOK ==
  ASSUME SInv, NEW x \in XApps, IappStep(x)
  PROVE  SInv'
<1>1. XTypes
  BY TypeParts DEF SInv
<1>2. CASE IappDelete(x)
  <2> DEFINE found == {i \in DOMAIN map : SameId(x, Head(x2i[x]).k, i)}
             first == {i \in found : \A j \in found : map[i].x <= map[j].x}
  <2>1. FwdDelete(first) /\ first \subseteq DOMAIN map
    BY <1>2 DEF IappDelete
  <2> HIDE DEF first
  <2>2. x2i[x] \in Seq(XMsg) /\ x2i[x] # << >>
    BY <1>1, <1>2 DEF IappDelete, XTypes
  <2>3. Tail(x2i[x]) \in Seq(XMsg)
    BY <2>2, HeadTailProperties
  <2>4. x2i' \in [XApps -> Seq(XMsg)]
    BY <1>1, <1>2, <2>3 DEF IappDelete, XTypes
  <2>5. XTypes'
    BY <1>1, <1>2, <2>4 DEF IappDelete, XTypes, xappVars
  <2> QED
    BY <1>2, <2>1, <2>5, FwdDeleteOK DEF IappDelete
<1>3. CASE IappBounce(x)
  <2> DEFINE ids == {i \in DOMAIN map : map[i].x = x /\ map[i].type = "sub"}
  <2>1. FwdDelete(ids) /\ ids \subseteq DOMAIN map
    BY <1>3 DEF IappBounce
  <2> HIDE DEF ids
  <2>2. XTypes'
    BY <1>1, <1>3 DEF IappBounce, XTypes, xappVars
  <2> QED
    BY <1>3, <2>1, <2>2, FwdDeleteOK DEF IappBounce
<1> QED
  BY <1>2, <1>3, IappRequestOK DEF IappStep

\* The agent answers a request after it has made or removed the indication
\* event.
LEMMA AgentHandleOK ==
  ASSUME SInv, AgentHandle
  PROVE  SInv'
<1>1. XTypes /\ RTypes /\ Life
  BY TypeParts DEF SInv
<1> DEFINE m == Head(toAg)
<1>2. toAg \in Seq(Msg) /\ toRic \in Seq(Msg) /\ toAg # << >>
  BY <1>1 DEF RTypes, AgentHandle
<1>3. /\ m \in Msg /\ m = toAg[1] /\ Tail(toAg) \in Seq(Msg) /\ Len(Tail(toAg)) = Len(toAg) - 1
      /\ \A n \in 1..Len(Tail(toAg)) : Tail(toAg)[n] = toAg[n + 1]
  BY <1>2, HeadTailProperties
<1>4. Len(toAg) \in Nat /\ Len(toAg) > 0 /\ 1 \in 1..Len(toAg) /\ m.id \in ReqIds
  <2>1. Len(toAg) \in Nat /\ Len(toAg) # 0
    BY <1>2, EmptySeq
  <2> QED
    BY <1>3, <2>1 DEF Msg
<1>5. /\ toAg' = Tail(toAg) /\ toRic' = Append(toRic, m)
      /\ ind' = CASE m.kind = "sub" -> ind \cup {m.id}
                  [] m.kind = "del" -> ind \ {m.id}
                  [] OTHER -> ind
      /\ UNCHANGED <<up, ui, flag, act, nextk, xpend, x2i, i2x, bounced, map, req, rpend, pool>>
  BY DEF AgentHandle, xappVars
<1> HIDE DEF m
<1>6. /\ m.kind = "sub" => ind' = ind \cup {m.id}
      /\ m.kind = "del" => ind' = ind \ {m.id}
      /\ m.kind # "sub" /\ m.kind # "del" => ind' = ind
  BY <1>5
<1>7. /\ toRic' \in Seq(Msg) /\ Len(toRic) \in Nat /\ Len(toRic') = Len(toRic) + 1
      /\ toRic'[Len(toRic) + 1] = m /\ \A n \in 1..Len(toRic) : toRic'[n] = toRic[n]
  BY <1>2, <1>3, <1>5
<1>8. \A n \in 1..Len(toRic') : n \in 1..Len(toRic) \/ n = Len(toRic) + 1
  BY <1>7
<1>9. XTypes' /\ RTypes'
  <2>1. ind' \subseteq ReqIds
    BY <1>1, <1>4, <1>6 DEF RTypes
  <2> QED
    BY <1>1, <1>3, <1>5, <1>7, <2>1 DEF XTypes, RTypes
<1>10. ASSUME NEW i, Open(i), ~(Ends(m) /\ m.id = i)
       PROVE  Open(i)'
  <2>1. \A n \in 1..Len(toRic') : ~(Ends(toRic'[n]) /\ toRic'[n].id = i)
    BY <1>7, <1>8, <1>10 DEF Open
  <2>2. \A n \in 1..Len(pool') : ~(Ends(pool'[n]) /\ pool'[n].id = i)
    BY <1>5, <1>10 DEF Open
  <2> QED
    BY <2>1, <2>2 DEF Open, Ends
<1>11. \A n \in 1..Len(toAg') : n + 1 \in 1..Len(toAg) /\ toAg'[n] = toAg[n + 1]
  BY <1>3, <1>4, <1>5
<1>12. Numbers'
  <2>1. m.id < req
    BY <1>1, <1>3, <1>4 DEF Life, Numbers
  <2>2. \A i \in DOMAIN map' \cup ind' : i < req'
    BY <1>1, <1>5, <1>6, <2>1 DEF Life, Numbers
  <2>3. \A n \in 1..Len(toAg') : toAg'[n].id < req'
    BY <1>1, <1>5, <1>11 DEF Life, Numbers
  <2>4. \A n \in 1..Len(toRic') : toRic'[n].id < req'
    BY <1>1, <1>5, <1>7, <1>8, <2>1 DEF Life, Numbers
  <2>5. \A n \in 1..Len(pool') : pool'[n].id < req'
    BY <1>1, <1>5 DEF Life, Numbers
  <2> QED
    BY <2>2, <2>3, <2>4, <2>5 DEF Numbers
<1>13. Stages'
  BY <1>1, <1>5 DEF Life, Stages, Ends
<1>14. Reporting'
  <2> SUFFICES ASSUME NEW i \in ind'
               PROVE  /\ i \in DOMAIN map' /\ Open(i)'
                      /\ \A n \in 1..Len(toAg') : ~(toAg'[n].kind = "ctrl" /\ toAg'[n].id = i)
    BY DEF Reporting
  <2>1. CASE i \in ind
    <3>1. /\ i \in DOMAIN map /\ Open(i)
          /\ \A n \in 1..Len(toAg) : ~(toAg[n].kind = "ctrl" /\ toAg[n].id = i)
      BY <1>1, <2>1 DEF Life, Reporting
    <3>2. ~(Ends(m) /\ m.id = i)
      BY <1>3, <1>4, <1>6, <3>1 DEF Ends
    <3> QED
      BY <1>5, <1>10, <1>11, <3>1, <3>2
  <2>2. CASE i \notin ind
    <3>1. m.kind = "sub" /\ i = m.id
      BY <1>6, <2>2
    <3>2. /\ i \in DOMAIN map /\ Open(i)
          /\ \A n \in 1..Len(toAg) : ~(toAg[n].kind = "ctrl" /\ toAg[n].id = i)
      BY <1>1, <1>3, <1>4, <3>1 DEF Life, Requested
    <3>3. ~Ends(m)
      BY <3>1 DEF Ends
    <3> QED
      BY <1>5, <1>10, <1>11, <3>2, <3>3
  <2> QED
    BY <2>1, <2>2
<1>15. Requested'
  <2> SUFFICES ASSUME NEW n \in 1..Len(toAg'), toAg'[n].kind = "sub"
               PROVE  /\ toAg'[n].id \in DOMAIN map' /\ Open(toAg[n].id)'
                      /\ \A k \in 1..Len(toAg') : toAg'[k].id = toAg'[n].id =>
                           toAg'[k].kind # "ctrl" /\ (toAg'[k].kind = "del" => n < k)
    BY DEF Requested
  <2>1. PICK i : i = toAg'[n].id
    OBVIOUS
  <2>2. n + 1 \in 1..Len(toAg) /\ toAg[n + 1].id = i /\ toAg[n + 1].kind = "sub"
    BY <1>11, <2>1
  <2>3. /\ i \in DOMAIN map /\ Open(i)
        /\ \A k \in 1..Len(toAg) : toAg[k].id = i =>
             toAg[k].kind # "ctrl" /\ (toAg[k].kind = "del" => n + 1 < k)
    BY <1>1, <2>2 DEF Life, Requested
  <2>4. ~(Ends(m) /\ m.id = i)
    <3>1. ~(n + 1 < 1)
      OBVIOUS
    <3> QED
      BY <1>3, <1>4, <2>3, <3>1 DEF Ends
  <2>5. i \in DOMAIN map' /\ Open(i)'
    BY <1>5, <1>10, <2>3, <2>4
  <2>6. ASSUME NEW k \in 1..Len(toAg'), toAg'[k].id = i
        PROVE  toAg'[k].kind # "ctrl" /\ (toAg'[k].kind = "del" => n < k)
    <3>1. toAg[k + 1].kind # "ctrl" /\ (toAg[k + 1].kind = "del" => n + 1 < k + 1)
      BY <1>11, <2>3, <2>6
    <3>2. n + 1 < k + 1 => n < k
      OBVIOUS
    <3> QED
      BY <1>11, <3>1, <3>2
  <2> QED
    BY <2>1, <2>5, <2>6
<1> QED
  BY <1>9, <1>12, <1>13, <1>14, <1>15, TypePartsNext DEF SInv, Life

\* An indication changes nothing but the stream to the RIC.
LEMMA AgentIndicateOK ==
  ASSUME SInv, NEW i \in ind, AgentIndicate(i)
  PROVE  SInv'
<1>1. XTypes /\ RTypes /\ Life
  BY TypeParts DEF SInv
<1> DEFINE m == [kind |-> "ind", id |-> i]
<1>2. /\ toRic' = Append(toRic, m)
      /\ UNCHANGED <<up, ui, flag, act, nextk, xpend, x2i, i2x, bounced, map, req, rpend, pool,
                     toAg, ind>>
  BY DEF AgentIndicate, xappVars
<1>3. m \in Msg /\ ~Ends(m) /\ m.id = i /\ toRic \in Seq(Msg)
  BY <1>1 DEF RTypes, Msg, Ends
<1> HIDE DEF m
<1>4. /\ toRic' \in Seq(Msg) /\ Len(toRic) \in Nat /\ Len(toRic') = Len(toRic) + 1
      /\ toRic'[Len(toRic) + 1] = m /\ \A n \in 1..Len(toRic) : toRic'[n] = toRic[n]
  BY <1>2, <1>3
<1>5. \A n \in 1..Len(toRic') : n \in 1..Len(toRic) \/ n = Len(toRic) + 1
  BY <1>4
<1>6. XTypes' /\ RTypes'
  BY <1>1, <1>2, <1>4 DEF XTypes, RTypes
<1>7. ASSUME NEW j, Open(j)
      PROVE  Open(j)'
  <2>1. \A n \in 1..Len(toRic') : ~(Ends(toRic'[n]) /\ toRic'[n].id = j)
    BY <1>3, <1>4, <1>5, <1>7 DEF Open
  <2>2. \A n \in 1..Len(pool') : ~(Ends(pool'[n]) /\ pool'[n].id = j)
    BY <1>2, <1>7 DEF Open
  <2> QED
    BY <2>1, <2>2 DEF Open, Ends
<1>8. Numbers'
  <2>1. \A n \in 1..Len(toRic') : toRic'[n].id < req'
    BY <1>1, <1>2, <1>3, <1>4, <1>5 DEF Life, Numbers
  <2> QED
    BY <1>1, <1>2, <2>1 DEF Life, Numbers
<1>9. Stages'
  BY <1>1, <1>2 DEF Life, Stages, Ends
<1>10. Reporting'
  BY <1>1, <1>2, <1>7 DEF Life, Reporting
<1>11. Requested'
  BY <1>1, <1>2, <1>7 DEF Life, Requested
<1> QED
  BY <1>6, <1>8, <1>9, <1>10, <1>11, TypePartsNext DEF SInv, Life

\* The same answer or indication, whatever has been done with it.
SameMsg(t, m) == t.kind = m.kind /\ t.id = m.id

\* What waits for the RIC, or for a worker, was on this way before.
Passed ==
  /\ \A n \in 1..Len(toRic') : \E k \in 1..Len(toRic) : SameMsg(toRic'[n], toRic[k])
  /\ \A n \in 1..Len(pool') :
       \/ \E k \in 1..Len(pool) : SameMsg(pool'[n], pool[k])
       \/ \E k \in 1..Len(toRic) : SameMsg(pool'[n], toRic[k])

\* Nothing about an open number is forgotten.
Forgets == DOMAIN map' \subseteq DOMAIN map /\ \A i \in DOMAIN map \ DOMAIN map' : ~Open(i)

\* The RIC passes answers on and forgets numbers that are not open.
LEMMA PassedOK ==
  ASSUME Life, Stages', Passed, Forgets, UNCHANGED <<req, toAg, ind>>
  PROVE  Life'
<1>1. ASSUME NEW i, Open(i)
      PROVE  Open(i)'
  <2>1. \A n \in 1..Len(toRic') : ~(Ends(toRic'[n]) /\ toRic'[n].id = i)
    BY <1>1 DEF Passed, SameMsg, Open, Ends
  <2>2. \A n \in 1..Len(pool') : ~(Ends(pool'[n]) /\ pool'[n].id = i)
    BY <1>1 DEF Passed, SameMsg, Open, Ends
  <2> QED
    BY <2>1, <2>2 DEF Open, Ends
<1>2. Numbers'
  <2>1. \A i \in DOMAIN map' \cup ind' : i < req'
    BY DEF Life, Numbers, Forgets
  <2>2. \A n \in 1..Len(toRic') : toRic'[n].id < req'
    BY DEF Life, Numbers, Passed, SameMsg
  <2>3. \A n \in 1..Len(pool') : pool'[n].id < req'
    BY DEF Life, Numbers, Passed, SameMsg
  <2> QED
    BY <2>1, <2>2, <2>3 DEF Life, Numbers
<1>3. Reporting'
  <2> SUFFICES ASSUME NEW i \in ind
               PROVE  /\ i \in DOMAIN map' /\ Open(i)'
                      /\ \A n \in 1..Len(toAg') : ~(toAg'[n].kind = "ctrl" /\ toAg'[n].id = i)
    BY DEF Reporting
  <2>1. /\ i \in DOMAIN map /\ Open(i)
        /\ \A n \in 1..Len(toAg) : ~(toAg[n].kind = "ctrl" /\ toAg[n].id = i)
    BY DEF Life, Reporting
  <2> QED
    BY <1>1, <2>1 DEF Forgets
<1>4. Requested'
  <2> SUFFICES ASSUME NEW n \in 1..Len(toAg), toAg[n].kind = "sub"
               PROVE  /\ toAg[n].id \in DOMAIN map' /\ Open(toAg[n].id)'
                      /\ \A k \in 1..Len(toAg) : toAg[k].id = toAg[n].id =>
                           toAg[k].kind # "ctrl" /\ (toAg[k].kind = "del" => n < k)
    BY DEF Requested
  <2>1. PICK i : i = toAg[n].id
    OBVIOUS
  <2>2. i \in DOMAIN map /\ Open(i)
    BY <2>1 DEF Life, Requested
  <2>3. i \in DOMAIN map' /\ Open(i)'
    BY <1>1, <2>2 DEF Forgets
  <2>4. toAg'[n].id = i
    BY <2>1
  <2> QED
    BY <2>1, <2>3, <2>4 DEF Life, Requested
<1> QED
  BY <1>2, <1>3, <1>4 DEF Life

\* The RIC's event loop gives a message to the pool.
LEMMA RicReceiveOK ==
  ASSUME SInv, RicReceive
  PROVE  SInv'
<1>1. XTypes /\ RTypes /\ Life
  BY TypeParts DEF SInv
<1> DEFINE m == Head(toRic)
           t == [kind |-> m.kind, id |-> m.id, pc |-> "start"]
<1>2. toRic \in Seq(Msg) /\ toRic # << >> /\ pool \in Seq(Task0)
  BY <1>1 DEF RTypes, RicReceive
<1>3. /\ m \in Msg /\ m = toRic[1] /\ Tail(toRic) \in Seq(Msg) /\ Len(Tail(toRic)) = Len(toRic) - 1
      /\ \A n \in 1..Len(Tail(toRic)) : Tail(toRic)[n] = toRic[n + 1]
  BY <1>2, HeadTailProperties
<1>4. Len(toRic) \in Nat /\ 1 \in 1..Len(toRic)
  <2>1. Len(toRic) \in Nat /\ Len(toRic) # 0
    BY <1>2, EmptySeq
  <2> QED
    BY <2>1
<1>5. /\ pool' = Append(pool, t) /\ toRic' = Tail(toRic)
      /\ UNCHANGED <<up, ui, flag, act, nextk, xpend, x2i, i2x, bounced, map, req, rpend,
                     toAg, ind>>
  BY DEF RicReceive, xappVars
<1> HIDE DEF m
<1>6. t \in Task0 /\ SameMsg(t, m) /\ t.pc = "start"
  BY <1>3 DEF Msg, Task0, SameMsg
<1> HIDE DEF t
<1>7. /\ pool' \in Seq(Task0) /\ Len(pool) \in Nat /\ Len(pool') = Len(pool) + 1
      /\ pool'[Len(pool) + 1] = t /\ \A n \in 1..Len(pool) : pool'[n] = pool[n]
  BY <1>2, <1>5, <1>6
<1>8. \A n \in 1..Len(pool') : n \in 1..Len(pool) \/ n = Len(pool) + 1
  BY <1>7
<1>9. XTypes' /\ RTypes'
  BY <1>1, <1>3, <1>5, <1>7 DEF XTypes, RTypes
<1>10. Stages'
  BY <1>1, <1>6, <1>7, <1>8 DEF Life, Stages, Ends
<1>11. Passed
  <2>1. ASSUME NEW n \in 1..Len(toRic')
        PROVE  \E k \in 1..Len(toRic) : SameMsg(toRic'[n], toRic[k])
    <3>1. n + 1 \in 1..Len(toRic) /\ toRic'[n] = toRic[n + 1]
      BY <1>3, <1>4, <1>5
    <3> QED
      BY <3>1 DEF SameMsg
  <2>2. ASSUME NEW n \in 1..Len(pool')
        PROVE  \/ \E k \in 1..Len(pool) : SameMsg(pool'[n], pool[k])
               \/ \E k \in 1..Len(toRic) : SameMsg(pool'[n], toRic[k])
    BY <1>3, <1>4, <1>6, <1>7, <1>8 DEF SameMsg
  <2> QED
    BY <2>1, <2>2 DEF Passed
<1>12. Forgets
  BY <1>5 DEF Forgets
<1>13. Life'
  BY <1>1, <1>5, <1>10, <1>11, <1>12, PassedOK
<1> QED
  BY <1>9, <1>13, TypePartsNext DEF SInv

\* A message for an xApp is sent to it, or comes back.
LEMMA ToXappOK ==
  ASSUME XTypes, RTypes, NEW i \in DOMAIN map, NEW kind \in Kinds \cup {"ind"}, ToXapp(i, kind)
  PROVE  i2x' \in [XApps -> Seq(IMsg)] /\ bounced' \subseteq XApps
<1> DEFINE x == map[i].x
           m == [kind |-> kind, k |-> map[i].k]
<1>1. map[i] \in [x : XApps, k : 1..MaxProc, type : Kinds]
  BY DEF RTypes
<1>2. x \in XApps /\ m \in IMsg
  BY <1>1 DEF IMsg
<1>3. i2x[x] \in Seq(IMsg)
  BY <1>2 DEF XTypes
<1>4. Append(i2x[x], m) \in Seq(IMsg)
  BY <1>2, <1>3
<1>5. \/ i2x' = [i2x EXCEPT ![x] = Append(@, m)] /\ bounced' = bounced
      \/ i2x' = i2x /\ bounced' = bounced \cup {x}
  BY DEF ToXapp
<1> HIDE DEF x, m
<1> QED
  BY <1>2, <1>4, <1>5 DEF XTypes

\* The tasks left after one is done, or has gone on.
LEMMA PoolLeft ==
  ASSUME RTypes, Stages, NEW j \in 1..Len(pool), pool' = RemoveAt(pool, j), UNCHANGED toRic
  PROVE  pool' \in Seq(Task0) /\ Passed /\ Stages'
<1>1. pool \in Seq(Task0)
  BY DEF RTypes
<1>2. pool' \in Seq(Task0)
  BY <1>1, RemoveAtOK
<1>3. \A n \in 1..Len(pool') : \E k \in 1..Len(pool) : pool'[n] = pool[k]
  BY <1>1, RemoveAtFrom
<1> QED
  BY <1>2, <1>3 DEF Passed, SameMsg, Stages, Ends

\* The same when the j-th task goes on to its next step p.
LEMMA PoolStep ==
  ASSUME RTypes, Stages, NEW j \in 1..Len(pool), NEW p \in {"find", "rm"},
         pool' = [pool EXCEPT ![j].pc = p], UNCHANGED toRic,
         p = "find" => pool[j].kind # "ind", p = "rm" => Ends(pool[j])
  PROVE  pool' \in Seq(Task0) /\ Passed /\ Stages'
<1>1. pool \in Seq(Task0) /\ Len(pool) \in Nat /\ pool[j] \in Task0
  BY DEF RTypes
<1> DEFINE t == [pool[j] EXCEPT !.pc = p]
<1>2. t \in Task0 /\ SameMsg(t, pool[j]) /\ t.pc = p
  BY <1>1 DEF Task0, SameMsg
<1>3. pool' = [pool EXCEPT ![j] = t]
  OBVIOUS
<1> HIDE DEF t
<1>4. pool' \in Seq(Task0) /\ Len(pool') = Len(pool)
  BY <1>1, <1>2, <1>3
<1>5. \A n \in 1..Len(pool') : n \in 1..Len(pool) /\ pool'[n] = IF n = j THEN t ELSE pool[n]
  BY <1>1, <1>3, <1>4
<1>6. \A n \in 1..Len(pool') : SameMsg(pool'[n], pool[n])
  BY <1>2, <1>5 DEF SameMsg
<1>7. Passed
  BY <1>5, <1>6 DEF Passed, SameMsg
<1>8. Stages'
  <2> SUFFICES ASSUME NEW n \in 1..Len(pool')
               PROVE  /\ pool'[n].pc = "find" => pool'[n].kind # "ind"
                      /\ pool'[n].pc = "rm" => Ends(pool'[n])
    BY DEF Stages, Ends
  <2>1. CASE n = j
    BY <1>2, <1>5, <2>1 DEF SameMsg, Ends
  <2>2. CASE n # j
    BY <1>5, <2>2 DEF Stages
  <2> QED
    BY <2>1, <2>2
<1> QED
  BY <1>4, <1>7, <1>8

\* A worker's step, when the messages for the xApps, the pool and the map are
\* as they should be.
LEMMA TaskDone ==
  ASSUME SInv, i2x' \in [XApps -> Seq(IMsg)], bounced' \subseteq XApps,
         DOMAIN map' \subseteq DOMAIN map, \A i \in DOMAIN map' : map'[i] = map[i],
         rpend' \subseteq rpend, pool' \in Seq(Task0), Passed, Stages', Forgets,
         UNCHANGED <<xappVars, x2i, req, toAg, toRic, ind>>
  PROVE  SInv'
<1>1. XTypes /\ RTypes /\ Life
  BY TypeParts DEF SInv
<1>2. XTypes'
  BY <1>1 DEF XTypes, xappVars
<1>3. RTypes'
  BY <1>1 DEF RTypes
<1>4. Life'
  BY <1>1, PassedOK
<1> QED
  BY <1>2, <1>3, <1>4, TypePartsNext DEF SInv

\* The workers of the RIC.  The one that makes the map forget a number has the
\* answer to a deletion or a control request: the number is not open.
LEMMA TaskOK ==
  ASSUME SInv, NEW j \in DOMAIN pool, Task(j)
  PROVE  SInv'
<1>1. XTypes /\ RTypes /\ Life /\ Stages
  BY TypeParts DEF SInv, Life
<1>2. pool \in Seq(Task0) /\ j \in 1..Len(pool) /\ pool[j] \in Task0
  BY <1>1 DEF RTypes
<1>3. pool[j].kind \in Kinds \cup {"ind"}
  BY <1>2 DEF Task0
<1>4. ASSUME UNCHANGED <<i2x, bounced>>
      PROVE  i2x' \in [XApps -> Seq(IMsg)] /\ bounced' \subseteq XApps
  BY <1>1, <1>4 DEF XTypes
<1>5. ASSUME UNCHANGED map
      PROVE  /\ DOMAIN map' \subseteq DOMAIN map /\ Forgets
             /\ \A i \in DOMAIN map' : map'[i] = map[i]
  BY <1>5 DEF Forgets
<1>6. CASE TaskIndication(j)
  <2>1. i2x' \in [XApps -> Seq(IMsg)] /\ bounced' \subseteq XApps
    BY <1>1, <1>4, <1>6, ToXappOK DEF TaskIndication
  <2>2. pool' \in Seq(Task0) /\ Passed /\ Stages'
    BY <1>1, <1>2, <1>6, PoolLeft DEF TaskIndication
  <2>3. rpend' \subseteq rpend /\ UNCHANGED map /\ UNCHANGED <<xappVars, x2i, req, toAg, toRic, ind>>
    BY <1>6 DEF TaskIndication
  <2> QED
    BY <1>5, <2>1, <2>2, <2>3, TaskDone
<1>7. CASE TaskStopPending(j)
  <2>1. i2x' \in [XApps -> Seq(IMsg)] /\ bounced' \subseteq XApps
    BY <1>4, <1>7 DEF TaskStopPending
  <2>2. pool' \in Seq(Task0) /\ Passed /\ Stages'
    BY <1>1, <1>2, <1>7, PoolStep DEF TaskStopPending
  <2>3. rpend' \subseteq rpend /\ UNCHANGED map /\ UNCHANGED <<xappVars, x2i, req, toAg, toRic, ind>>
    BY <1>7 DEF TaskStopPending
  <2> QED
    BY <1>5, <2>1, <2>2, <2>3, TaskDone
<1>8. CASE TaskFind(j)
  <2>1. i2x' \in [XApps -> Seq(IMsg)] /\ bounced' \subseteq XApps
    BY <1>1, <1>3, <1>4, <1>8, ToXappOK DEF TaskFind
  <2>2. pool' \in Seq(Task0) /\ Passed /\ Stages'
    <3>1. CASE pool' = RemoveAt(pool, j)
      BY <1>1, <1>2, <1>8, <3>1, PoolLeft DEF TaskFind
    <3>2. CASE pool[j].kind # "sub" /\ pool' = [pool EXCEPT ![j].pc = "rm"]
      <4>1. pool[j].kind # "ind"
        BY <1>1, <1>2, <1>8 DEF TaskFind, Stages
      <4>2. Ends(pool[j])
        BY <1>3, <3>2, <4>1 DEF Ends, Kinds
      <4> QED
        BY <1>1, <1>2, <1>8, <3>2, <4>2, PoolStep DEF TaskFind
    <3> QED
      BY <1>8, <3>1, <3>2 DEF TaskFind
  <2>3. rpend' \subseteq rpend /\ UNCHANGED map /\ UNCHANGED <<xappVars, x2i, req, toAg, toRic, ind>>
    BY <1>8 DEF TaskFind
  <2> QED
    BY <1>5, <2>1, <2>2, <2>3, TaskDone
<1>9. CASE TaskRemove(j)
  <2>1. i2x' \in [XApps -> Seq(IMsg)] /\ bounced' \subseteq XApps
    BY <1>4, <1>9 DEF TaskRemove
  <2>2. pool' \in Seq(Task0) /\ Passed /\ Stages'
    BY <1>1, <1>2, <1>9, PoolLeft DEF TaskRemove
  <2>3. rpend' \subseteq rpend /\ UNCHANGED <<xappVars, x2i, req, toAg, toRic, ind>>
    BY <1>9 DEF TaskRemove
  <2>4. ~Open(pool[j].id)
    <3>1. Ends(pool[j])
      BY <1>1, <1>2, <1>9 DEF TaskRemove, Stages
    <3> QED
      BY <1>2, <3>1 DEF Open
  <2>5. /\ DOMAIN map' = DOMAIN map \ {pool[j].id}
        /\ \A i \in DOMAIN map' : map'[i] = map[i]
    BY <1>9 DEF TaskRemove
  <2>6. Forgets
    BY <2>4, <2>5 DEF Forgets
  <2> QED
    BY <2>1, <2>2, <2>3, <2>5, <2>6, TaskDone
<1> QED
  BY <1>6, <1>7, <1>8, <1>9 DEF Task

\* Nothing is under way at the start.
LEMMA SInit == Init => SInv
<1> SUFFICES ASSUME Init
             PROVE  SInv
  OBVIOUS
<1> USE SubscriptionAssumption
<1>1. XTypes
  <2>1. /\ x2i \in [XApps -> Seq(XMsg)] /\ i2x \in [XApps -> Seq(IMsg)]
        /\ up \in [XApps -> BOOLEAN] /\ flag \in [XApps -> BOOLEAN] /\ bounced \subseteq XApps
    BY DEF Init
  <2>2. /\ act \in [XApps -> SUBSET (1..MaxProc)] /\ xpend \in [XApps -> SUBSET Kinds]
        /\ nextk \in [XApps -> 1..(MaxProc + 1)]
    BY DEF Init
  <2>3. ui \in [XApps -> {Idle} \cup CallRecord]
    BY DEF Init
  <2> QED
    BY <2>1, <2>2, <2>3 DEF XTypes
<1>2. DOMAIN map = {} /\ Len(toAg) = 0 /\ Len(toRic) = 0 /\ Len(pool) = 0 /\ ind = {}
  BY DEF Init
<1>3. RTypes
  <2>1. pool \in Seq(Task0) /\ toAg \in Seq(Msg) /\ toRic \in Seq(Msg)
    BY DEF Init
  <2>2. req \in ReqIds /\ rpend = {}
    BY DEF Init, ReqIds
  <2> QED
    BY <1>2, <2>1, <2>2 DEF RTypes
<1>4. Life
  BY <1>2 DEF Life, Numbers, Stages, Reporting, Requested
<1> QED
  BY <1>1, <1>3, <1>4, TypeParts DEF SInv

\* Every step preserves the invariant.
LEMMA SStep == SInv /\ [Next]_vars => SInv'
<1> SUFFICES ASSUME SInv, [Next]_vars
             PROVE  SInv'
  OBVIOUS
<1>1. ASSUME NEW x \in XApps, Ui(x) \/ UiStep(x) \/ XappEnd(x) \/ XappStep(x) \/ IappStep(x)
      PROVE  SInv'
  BY <1>1, UiOK, UiStepOK, XappOK, IappOK
<1>2. CASE AgentHandle
  BY <1>2, AgentHandleOK
<1>3. ASSUME NEW i \in ind, AgentIndicate(i)
      PROVE  SInv'
  BY <1>3, AgentIndicateOK
<1>4. CASE RicReceive
  BY <1>4, RicReceiveOK
<1>5. ASSUME NEW j \in DOMAIN pool, Task(j)
      PROVE  SInv'
  BY <1>5, TaskOK
<1>6. CASE UNCHANGED vars
  <2>1. XTypes'
    BY <1>6, TypeParts DEF SInv, XTypes, vars, xappVars
  <2> QED
    BY <1>6, <2>1, XappOnly DEF vars
<1> QED
  BY <1>1, <1>2, <1>3, <1>4, <1>5, <1>6 DEF Next

\* The invariant holds always, whatever the values of Shared and Prompt.
THEOREM SInductive == Spec => []SInv
  BY SInit, SStep, PTL DEF Spec

\* The agent never reports under a request number the iApp has forgotten:
\* rm_map_ric_id comes after an answer the agent gave when it had removed the
\* indication event, and no later request can make it again.
THEOREM NoOrphanCorrect == Spec => []NoOrphan
<1>1. SInv => NoOrphan
  BY DEF SInv, Life, Reporting, NoOrphan
<1> QED
  BY <1>1, SInductive, PTL

-----------------------------------------------------------------------------
(***************************************************************************)
(* The way of the requests and answers about a number is one queue: the    *)
(* agent takes a request from the front of one stream and puts its answer  *)
(* at the end of the next, and the RIC does the same with its pool.  What  *)
(* is in the pool, then what is on the way to the RIC, then what is on the *)
(* way to the agent:                                                       *)
(***************************************************************************)
Lift(m) == [kind |-> m.kind, id |-> m.id, pc |-> "start"]

Cat(P, R, A) ==
  [n \in 1..(Len(P) + Len(R) + Len(A)) |->
     IF n <= Len(P) THEN P[n]
     ELSE IF n <= Len(P) + Len(R) THEN Lift(R[n - Len(P)])
     ELSE Lift(A[n - (Len(P) + Len(R))])]

Route == Cat(pool, toRic, toAg)

\* The request for a number is in front of everything else about it, which
\* are deletions.
FirstOK(q) ==
  \A n, k \in 1..Len(q) :
    /\ q[n].kind \in {"sub", "ctrl"} /\ q[k].kind # "ind"
    /\ q[k].id = q[n].id /\ k # n
    => n < k /\ q[k].kind = "del"

\* No deletion is sent while the same one waits to be answered.
DelOne(q) ==
  \A n, k \in 1..Len(q) :
    /\ q[n].kind = "del" /\ q[k].kind = "del"
    /\ q[n].pc = "start" /\ q[k].pc = "start" /\ q[k].id = q[n].id
    => n = k

\* The workers have one answer about a number at a time.
PoolOne(q, p) ==
  \A n, k \in 1..p :
    q[n].kind # "ind" /\ q[k].kind # "ind" /\ q[k].id = q[n].id => n = k

\* There is at most one request or answer about number i.
Single(q, i) ==
  \A n, k \in 1..Len(q) :
    q[n].kind # "ind" /\ q[k].kind # "ind" /\ q[n].id = i /\ q[k].id = i => n = k

\* There is none.
Clear(q, i) == \A n \in 1..Len(q) : q[n].kind # "ind" => q[n].id # i

\* A worker has sent the answer about i on and is to remove the number.
Rm(q, i) == \E n \in 1..Len(q) : q[n].pc = "rm" /\ q[n].id = i

\* A request or answer of this kind about i has not been sent on to the xApp.
Busy(q, kind, i) ==
  \E n \in 1..Len(q) : q[n].kind = kind /\ q[n].id = i /\ q[n].pc # "rm"

\* The pending events of the RIC are the requests that no worker has begun to
\* answer.
RpendOK(q, R) ==
  /\ \A e \in R : \E n \in 1..Len(q) :
       q[n].kind = e.kind /\ q[n].id = e.id /\ q[n].pc = "start"
  /\ \A n \in 1..Len(q) : q[n].kind # "ind" /\ q[n].pc = "start" =>
       [kind |-> q[n].kind, id |-> q[n].id] \in R

\* What is under way agrees with the map.
KindsOK(q, M) ==
  \A n \in 1..Len(q) :
    /\ q[n].kind \in {"sub", "ctrl"} =>
         q[n].id \in DOMAIN M /\ M[q[n].id].type = q[n].kind
    /\ q[n].pc = "rm" => q[n].id \in DOMAIN M
    /\ q[n].kind = "del" /\ q[n].id \in DOMAIN M => M[q[n].id].type = "sub"

\* The queue as a sequence of tasks.
LEMMA CatShape ==
  ASSUME NEW P \in Seq(Task0), NEW R \in Seq(Msg), NEW A \in Seq(Msg)
  PROVE  /\ Cat(P, R, A) \in Seq(Task0)
         /\ Len(Cat(P, R, A)) = Len(P) + Len(R) + Len(A)
         /\ Len(P) \in Nat /\ Len(R) \in Nat /\ Len(A) \in Nat
         /\ \A n \in 1..(Len(P) + Len(R) + Len(A)) : Cat(P, R, A)[n] =
              IF n <= Len(P) THEN P[n]
              ELSE IF n <= Len(P) + Len(R) THEN Lift(R[n - Len(P)])
              ELSE Lift(A[n - (Len(P) + Len(R))])
<1>1. \A m \in Msg : Lift(m) \in Task0
  BY DEF Lift, Msg, Task0
<1>2. Len(P) \in Nat /\ Len(R) \in Nat /\ Len(A) \in Nat
  OBVIOUS
<1>3. PICK a, b, c \in Nat : a = Len(P) /\ b = Len(R) /\ c = Len(A)
  BY <1>2
<1>4. ASSUME NEW n \in 1..(a + b + c)
      PROVE  (IF n <= a THEN P[n] ELSE IF n <= a + b THEN Lift(R[n - a])
              ELSE Lift(A[n - (a + b)])) \in Task0
  <2>1. CASE n <= a
    <3>1. P[n] \in Task0
      BY <1>3, <2>1
    <3> QED
      BY <2>1, <3>1
  <2>2. CASE ~(n <= a) /\ n <= a + b
    <3>1. n - a \in 1..b
      BY <2>2
    <3>2. R[n - a] \in Msg
      BY <1>3, <3>1
    <3> QED
      BY <1>1, <2>2, <3>2
  <2>3. CASE ~(n <= a) /\ ~(n <= a + b)
    <3>1. n - (a + b) \in 1..c
      BY <2>3
    <3>2. A[n - (a + b)] \in Msg
      BY <1>3, <3>1
    <3> QED
      BY <1>1, <2>3, <3>2
  <2> QED
    BY <2>1, <2>2, <2>3
<1> DEFINE e(n) == IF n <= a THEN P[n] ELSE IF n <= a + b THEN Lift(R[n - a])
                   ELSE Lift(A[n - (a + b)])
<1>5. Cat(P, R, A) = [n \in 1..(a + b + c) |-> e(n)]
  BY <1>3 DEF Cat
<1>6. \A n \in 1..(a + b + c) : e(n) \in Task0
  BY <1>4
<1> HIDE DEF e
<1>7. /\ Cat(P, R, A) \in Seq(Task0) /\ Len(Cat(P, R, A)) = a + b + c
      /\ \A n \in 1..(a + b + c) : Cat(P, R, A)[n] = e(n)
  BY <1>5, <1>6
<1> QED
  BY <1>2, <1>3, <1>7 DEF e

\* The parts of a queue that are longer or shorter by one, and so on, are
\* compared element by element.
RouteOf(q, P, R, A) ==
  /\ q \in Seq(Task0)
  /\ Len(P) \in Nat /\ Len(R) \in Nat /\ Len(A) \in Nat
  /\ Len(q) = Len(P) + Len(R) + Len(A)
  /\ \A n \in 1..Len(q) : q[n] \in Task0
  /\ \A n \in 1..Len(P) : q[n] = P[n]
  /\ \A n \in 1..Len(R) : q[Len(P) + n] = Lift(R[n])
  /\ \A n \in 1..Len(A) : q[Len(P) + Len(R) + n] = Lift(A[n])

\* The same, by the parts.
LEMMA CatRoute ==
  ASSUME NEW P \in Seq(Task0), NEW R \in Seq(Msg), NEW A \in Seq(Msg)
  PROVE  RouteOf(Cat(P, R, A), P, R, A)
<1>1. PICK q : q = Cat(P, R, A)
  OBVIOUS
<1>2. PICK a, b, c \in Nat : a = Len(P) /\ b = Len(R) /\ c = Len(A)
  BY CatShape
<1>3. /\ q \in Seq(Task0) /\ Len(q) = a + b + c
      /\ \A n \in 1..(a + b + c) : q[n] =
           IF n <= a THEN P[n] ELSE IF n <= a + b THEN Lift(R[n - a]) ELSE Lift(A[n - (a + b)])
  BY <1>1, <1>2, CatShape
<1>4. \A n \in 1..a : q[n] = P[n]
  BY <1>3
<1>5. ASSUME NEW n \in 1..b
      PROVE  q[a + n] = Lift(R[n])
  <2>1. a + n \in 1..(a + b + c) /\ ~(a + n <= a) /\ a + n <= a + b /\ (a + n) - a = n
    OBVIOUS
  <2> QED
    BY <1>3, <2>1
<1>6. ASSUME NEW n \in 1..c
      PROVE  q[a + b + n] = Lift(A[n])
  <2>1. /\ a + b + n \in 1..(a + b + c) /\ ~(a + b + n <= a) /\ ~(a + b + n <= a + b)
        /\ (a + b + n) - (a + b) = n
    OBVIOUS
  <2> QED
    BY <1>3, <2>1
<1>7. \A n \in 1..Len(q) : q[n] \in Task0
  BY <1>3
<1> QED
  BY <1>1, <1>2, <1>3, <1>4, <1>5, <1>6, <1>7 DEF RouteOf

\* The present queue.
LEMMA RouteNow ==
  ASSUME RTypes
  PROVE  RouteOf(Route, pool, toRic, toAg)
  BY CatRoute DEF RTypes, Route

\* The agent takes a request and puts the answer behind what is on its way to
\* the RIC: the queue is the same.
LEMMA AgentMoves ==
  ASSUME NEW P \in Seq(Task0), NEW R \in Seq(Msg), NEW A \in Seq(Msg), NEW q, NEW q2,
         RouteOf(q, P, R, A), A # << >>, RouteOf(q2, P, Append(R, Head(A)), Tail(A))
  PROVE  q2 = q
<1>1. PICK a, b, c \in Nat : a = Len(P) /\ b = Len(R) /\ c = Len(A)
  OBVIOUS
<1>2. PICK R2 : R2 = Append(R, Head(A))
  OBVIOUS
<1>3. PICK A2 : A2 = Tail(A)
  OBVIOUS
<1>4. Len(R2) = b + 1 /\ R2[b + 1] = A[1] /\ \A n \in 1..b : R2[n] = R[n]
  BY <1>1, <1>2
<1>5. c > 0 /\ Len(A2) = c - 1 /\ \A n \in 1..(c - 1) : A2[n] = A[n + 1]
  <2>1. Len(A) \in Nat \ {0}
    BY EmptySeq
  <2> QED
    BY <1>1, <1>3, <2>1, HeadTailProperties
<1>6. /\ q \in Seq(Task0) /\ Len(q) = a + b + c
      /\ \A n \in 1..a : q[n] = P[n]
      /\ \A n \in 1..b : q[a + n] = Lift(R[n])
      /\ \A n \in 1..c : q[a + b + n] = Lift(A[n])
  BY <1>1 DEF RouteOf
<1>7. /\ q2 \in Seq(Task0) /\ Len(q2) = a + (b + 1) + (c - 1)
      /\ \A n \in 1..a : q2[n] = P[n]
      /\ \A n \in 1..(b + 1) : q2[a + n] = Lift(R2[n])
      /\ \A n \in 1..(c - 1) : q2[a + (b + 1) + n] = Lift(A2[n])
  BY <1>1, <1>2, <1>3, <1>4, <1>5 DEF RouteOf
<1>8. Len(q2) = Len(q)
  BY <1>6, <1>7
<1>9. ASSUME NEW n \in 1..Len(q)
      PROVE  q2[n] = q[n]
  <2>1. CASE n <= a
    BY <1>6, <1>7, <2>1
  <2>2. CASE n > a /\ n <= a + b
    <3>1. PICK m \in 1..b : n = a + m
      <4>1. n - a \in 1..b /\ n = a + (n - a)
        BY <1>6, <2>2
      <4> QED
        BY <4>1
    <3>2. m \in 1..(b + 1)
      OBVIOUS
    <3>3. q2[a + m] = Lift(R2[m]) /\ q[a + m] = Lift(R[m])
      BY <1>6, <1>7, <3>2
    <3> QED
      BY <1>4, <3>1, <3>3
  <2>3. CASE n = a + b + 1
    <3>1. b + 1 \in 1..(b + 1) /\ 1 \in 1..c /\ a + (b + 1) = n
      BY <1>5, <2>3
    <3>2. q2[a + (b + 1)] = Lift(R2[b + 1]) /\ q[a + b + 1] = Lift(A[1])
      BY <1>6, <1>7, <3>1
    <3> QED
      BY <1>4, <2>3, <3>1, <3>2
  <2>4. CASE n > a + b + 1
    <3>1. PICK m \in 1..(c - 1) : n = a + (b + 1) + m /\ n = a + b + (m + 1) /\ m + 1 \in 1..c
      <4>1. /\ n - (a + b + 1) \in 1..(c - 1) /\ n = a + (b + 1) + (n - (a + b + 1))
            /\ n = a + b + ((n - (a + b + 1)) + 1) /\ (n - (a + b + 1)) + 1 \in 1..c
        BY <1>6, <2>4
      <4> QED
        BY <4>1
    <3>2. q2[a + (b + 1) + m] = Lift(A2[m]) /\ q[a + b + (m + 1)] = Lift(A[m + 1])
      BY <1>6, <1>7, <3>1
    <3> QED
      BY <1>5, <3>1, <3>2
  <2> QED
    BY <1>6, <2>1, <2>2, <2>3, <2>4
<1> QED
  BY <1>6, <1>7, <1>8, <1>9, SeqEqual

\* The RIC gives the oldest message to the pool: the queue is the same.
LEMMA RicTakes ==
  ASSUME NEW P \in Seq(Task0), NEW R \in Seq(Msg), NEW A \in Seq(Msg), NEW q, NEW q2,
         RouteOf(q, P, R, A), R # << >>, RouteOf(q2, Append(P, Lift(Head(R))), Tail(R), A)
  PROVE  q2 = q
<1>1. PICK a, b, c \in Nat : a = Len(P) /\ b = Len(R) /\ c = Len(A)
  OBVIOUS
<1>2. PICK P2 : P2 = Append(P, Lift(Head(R)))
  OBVIOUS
<1>3. PICK R2 : R2 = Tail(R)
  OBVIOUS
<1>4. Len(P2) = a + 1 /\ P2[a + 1] = Lift(R[1]) /\ \A n \in 1..a : P2[n] = P[n]
  BY <1>1, <1>2
<1>5. b > 0 /\ Len(R2) = b - 1 /\ \A n \in 1..(b - 1) : R2[n] = R[n + 1]
  <2>1. Len(R) \in Nat \ {0}
    BY EmptySeq
  <2> QED
    BY <1>1, <1>3, <2>1, HeadTailProperties
<1>6. /\ q \in Seq(Task0) /\ Len(q) = a + b + c
      /\ \A n \in 1..a : q[n] = P[n]
      /\ \A n \in 1..b : q[a + n] = Lift(R[n])
      /\ \A n \in 1..c : q[a + b + n] = Lift(A[n])
  BY <1>1 DEF RouteOf
<1>7. /\ q2 \in Seq(Task0) /\ Len(q2) = (a + 1) + (b - 1) + c
      /\ \A n \in 1..(a + 1) : q2[n] = P2[n]
      /\ \A n \in 1..(b - 1) : q2[(a + 1) + n] = Lift(R2[n])
      /\ \A n \in 1..c : q2[(a + 1) + (b - 1) + n] = Lift(A[n])
  BY <1>1, <1>2, <1>3, <1>4, <1>5 DEF RouteOf
<1>8. Len(q2) = Len(q)
  BY <1>6, <1>7
<1>9. ASSUME NEW n \in 1..Len(q)
      PROVE  q2[n] = q[n]
  <2>1. CASE n <= a
    BY <1>4, <1>6, <1>7, <2>1
  <2>2. CASE n = a + 1
    <3>1. 1 \in 1..b /\ a + 1 \in 1..(a + 1)
      BY <1>5
    <3>2. q2[a + 1] = P2[a + 1] /\ q[a + 1] = Lift(R[1])
      BY <1>6, <1>7, <3>1
    <3> QED
      BY <1>4, <2>2, <3>2
  <2>3. CASE n > a + 1 /\ n <= a + b
    <3>1. PICK m \in 1..(b - 1) : n = (a + 1) + m /\ n = a + (m + 1) /\ m + 1 \in 1..b
      <4>1. /\ n - (a + 1) \in 1..(b - 1) /\ n = (a + 1) + (n - (a + 1))
            /\ n = a + ((n - (a + 1)) + 1) /\ (n - (a + 1)) + 1 \in 1..b
        BY <1>6, <2>3
      <4> QED
        BY <4>1
    <3>2. q2[(a + 1) + m] = Lift(R2[m]) /\ q[a + (m + 1)] = Lift(R[m + 1])
      BY <1>6, <1>7, <3>1
    <3> QED
      BY <1>5, <3>1, <3>2
  <2>4. CASE n > a + b
    <3>1. PICK m \in 1..c : n = a + b + m /\ n = (a + 1) + (b - 1) + m
      <4>1. n - (a + b) \in 1..c /\ n = a + b + (n - (a + b)) /\ n = (a + 1) + (b - 1) + (n - (a + b))
        BY <1>6, <2>4
      <4> QED
        BY <4>1
    <3>2. q2[(a + 1) + (b - 1) + m] = Lift(A[m]) /\ q[a + b + m] = Lift(A[m])
      BY <1>6, <1>7, <3>1
    <3> QED
      BY <3>1, <3>2
  <2> QED
    BY <1>6, <2>1, <2>2, <2>3, <2>4
<1> QED
  BY <1>6, <1>7, <1>8, <1>9, SeqEqual

\* Requests are added at the end of the queue.
LEMMA IappAdds ==
  ASSUME NEW P \in Seq(Task0), NEW R \in Seq(Msg), NEW A \in Seq(Msg), NEW A2 \in Seq(Msg),
         NEW q, NEW q2, RouteOf(q, P, R, A), RouteOf(q2, P, R, A2),
         Len(A) <= Len(A2), \A n \in 1..Len(A) : A2[n] = A[n]
  PROVE  /\ Len(q2) = Len(q) + (Len(A2) - Len(A)) /\ \A n \in 1..Len(q) : q2[n] = q[n]
         /\ \A n \in (Len(A) + 1)..Len(A2) : q2[Len(q) + (n - Len(A))] = Lift(A2[n])
<1>1. PICK a, b, c, d \in Nat : a = Len(P) /\ b = Len(R) /\ c = Len(A) /\ d = Len(A2)
  OBVIOUS
<1>2. /\ q \in Seq(Task0) /\ Len(q) = a + b + c
      /\ \A n \in 1..a : q[n] = P[n]
      /\ \A n \in 1..b : q[a + n] = Lift(R[n])
      /\ \A n \in 1..c : q[a + b + n] = Lift(A[n])
  BY <1>1 DEF RouteOf
<1>3. /\ q2 \in Seq(Task0) /\ Len(q2) = a + b + d
      /\ \A n \in 1..a : q2[n] = P[n]
      /\ \A n \in 1..b : q2[a + n] = Lift(R[n])
      /\ \A n \in 1..d : q2[a + b + n] = Lift(A2[n])
  BY <1>1 DEF RouteOf
<1>4. ASSUME NEW n \in 1..Len(q)
      PROVE  q2[n] = q[n]
  <2>1. CASE n <= a
    BY <1>2, <1>3, <2>1
  <2>2. CASE n > a /\ n <= a + b
    <3>1. PICK m \in 1..b : n = a + m
      <4>1. n - a \in 1..b /\ n = a + (n - a)
        BY <1>2, <2>2
      <4> QED
        BY <4>1
    <3> QED
      BY <1>2, <1>3, <3>1
  <2>3. CASE n > a + b
    <3>1. PICK m \in 1..c : n = a + b + m
      <4>1. n - (a + b) \in 1..c /\ n = a + b + (n - (a + b))
        BY <1>2, <2>3
      <4> QED
        BY <4>1
    <3>2. m \in 1..d
      BY <1>1
    <3> QED
      BY <1>1, <1>2, <1>3, <3>1, <3>2
  <2> QED
    BY <1>2, <2>1, <2>2, <2>3
<1>5. ASSUME NEW n \in (c + 1)..d
      PROVE  q2[Len(q) + (n - c)] = Lift(A2[n])
  <2>1. n \in 1..d /\ Len(q) + (n - c) = a + b + n
    BY <1>2
  <2> QED
    BY <1>3, <2>1
<1> QED
  BY <1>1, <1>2, <1>3, <1>4, <1>5

\* q2 is q with message m somewhere behind the first p tasks.
Inserted(q, q2, p, m) ==
  \E j \in (p + 1)..(Len(q) + 1) :
    /\ Len(q2) = Len(q) + 1 /\ q2[j] = Lift(m)
    /\ \A n \in 1..Len(q) : IF n < j THEN q2[n] = q[n] ELSE q2[n + 1] = q[n]

\* An indication is put in front of the requests.
LEMMA AgentAdds ==
  ASSUME NEW P \in Seq(Task0), NEW R \in Seq(Msg), NEW A \in Seq(Msg), NEW m \in Msg, NEW q, NEW q2,
         RouteOf(q, P, R, A), RouteOf(q2, P, Append(R, m), A)
  PROVE  Inserted(q, q2, Len(P), m)
<1>1. PICK a, b, c \in Nat : a = Len(P) /\ b = Len(R) /\ c = Len(A)
  OBVIOUS
<1>2. PICK R2 : R2 = Append(R, m)
  OBVIOUS
<1>3. Len(R2) = b + 1 /\ R2[b + 1] = m /\ \A n \in 1..b : R2[n] = R[n]
  BY <1>1, <1>2
<1>4. /\ q \in Seq(Task0) /\ Len(q) = a + b + c
      /\ \A n \in 1..a : q[n] = P[n]
      /\ \A n \in 1..b : q[a + n] = Lift(R[n])
      /\ \A n \in 1..c : q[a + b + n] = Lift(A[n])
  BY <1>1 DEF RouteOf
<1>5. /\ q2 \in Seq(Task0) /\ Len(q2) = a + (b + 1) + c
      /\ \A n \in 1..a : q2[n] = P[n]
      /\ \A n \in 1..(b + 1) : q2[a + n] = Lift(R2[n])
      /\ \A n \in 1..c : q2[a + (b + 1) + n] = Lift(A[n])
  BY <1>1, <1>2, <1>3 DEF RouteOf
<1>6. PICK j \in (a + 1)..(a + b + c + 1) : j = a + b + 1
  OBVIOUS
<1>7. q2[j] = Lift(m)
  <2>1. b + 1 \in 1..(b + 1) /\ a + (b + 1) = j
    BY <1>6
  <2> QED
    BY <1>3, <1>5, <2>1
<1>8. ASSUME NEW n \in 1..Len(q)
      PROVE  IF n < j THEN q2[n] = q[n] ELSE q2[n + 1] = q[n]
  <2>1. CASE n <= a
    BY <1>4, <1>5, <1>6, <2>1
  <2>2. CASE n > a /\ n <= a + b
    <3>1. PICK k \in 1..b : n = a + k
      <4>1. n - a \in 1..b /\ n = a + (n - a)
        BY <1>4, <2>2
      <4> QED
        BY <4>1
    <3>2. k \in 1..(b + 1) /\ n < j
      BY <1>6, <2>2
    <3>3. q2[a + k] = Lift(R2[k]) /\ q[a + k] = Lift(R[k])
      BY <1>4, <1>5, <3>2
    <3> QED
      BY <1>3, <3>1, <3>2, <3>3
  <2>3. CASE n > a + b
    <3>1. PICK k \in 1..c : n = a + b + k /\ n + 1 = a + (b + 1) + k
      <4>1. n - (a + b) \in 1..c /\ n = a + b + (n - (a + b))
        BY <1>4, <2>3
      <4>2. PICK k \in 1..c : n = a + b + k
        BY <4>1
      <4>3. n + 1 = a + (b + 1) + k
        BY <4>2
      <4> QED
        BY <4>2, <4>3
    <3>2. ~(n < j)
      BY <1>6, <2>3
    <3> QED
      BY <1>4, <1>5, <3>1, <3>2
  <2> QED
    BY <1>4, <2>1, <2>2, <2>3
<1>9. j \in (Len(P) + 1)..(Len(q) + 1) /\ Len(q2) = Len(q) + 1
  BY <1>1, <1>4, <1>5, <1>6
<1> QED
  BY <1>7, <1>8, <1>9 DEF Inserted

\* A queue without its j-th element, element by element.
LEMMA RemoveAtIndex ==
  ASSUME NEW S, NEW s \in Seq(S), NEW j \in 1..Len(s)
  PROVE  /\ Len(RemoveAt(s, j)) = Len(s) - 1
         /\ \A n \in 1..(Len(s) - 1) : RemoveAt(s, j)[n] = IF n < j THEN s[n] ELSE s[n + 1]
<1> DEFINE a == SubSeq(s, 1, j - 1)
           b == SubSeq(s, j + 1, Len(s))
<1>1. PICK l \in Nat : l = Len(s)
  OBVIOUS
<1>2. a \in Seq(S) /\ Len(a) = j - 1 /\ \A n \in 1..(j - 1) : a[n] = s[n]
  <2>1. \A n \in 1..(j - 1) : s[n] \in S
    OBVIOUS
  <2>2. a = [n \in 1..(j - 1) |-> s[n]]
    OBVIOUS
  <2>3. j - 1 \in Nat
    OBVIOUS
  <2> HIDE DEF a
  <2> QED
    BY <2>1, <2>2, <2>3
<1>3. b \in Seq(S) /\ Len(b) = l - j /\ \A n \in 1..(l - j) : b[n] = s[n + j]
  <2>1. \A n \in 1..(l - j) : s[n + j] \in S
    BY <1>1
  <2>2. b = [n \in 1..(l - j) |-> s[n + j]]
    BY <1>1
  <2>3. l - j \in Nat
    BY <1>1
  <2> HIDE DEF b
  <2> QED
    BY <2>1, <2>2, <2>3
<1>4. RemoveAt(s, j) = a \o b
  BY DEF RemoveAt
<1> HIDE DEF a, b
<1>5. /\ Len(a \o b) = (j - 1) + (l - j)
      /\ \A n \in 1..((j - 1) + (l - j)) : (a \o b)[n] = IF n <= j - 1 THEN a[n] ELSE b[n - (j - 1)]
  <2>1. a \in Seq(S) /\ b \in Seq(S)
    BY <1>2, <1>3
  <2>2. /\ Len(a \o b) = Len(a) + Len(b)
        /\ \A n \in 1..(Len(a) + Len(b)) : (a \o b)[n] = IF n <= Len(a) THEN a[n] ELSE b[n - Len(a)]
    BY <2>1, ConcatProperties
  <2>3. Len(a) = j - 1 /\ Len(b) = l - j
    BY <1>2, <1>3
  <2> QED
    BY <2>2, <2>3
<1>6. ASSUME NEW n \in 1..(l - 1)
      PROVE  (a \o b)[n] = IF n < j THEN s[n] ELSE s[n + 1]
  <2>1. n \in 1..((j - 1) + (l - j))
    BY <1>1
  <2>2. CASE n < j
    <3>1. n \in 1..(j - 1) /\ n <= j - 1
      BY <2>2
    <3> QED
      BY <1>2, <1>5, <2>1, <2>2, <3>1
  <2>3. CASE ~(n < j)
    <3>1. n - (j - 1) \in 1..(l - j) /\ ~(n <= j - 1) /\ (n - (j - 1)) + j = n + 1
      BY <1>1, <2>3
    <3> QED
      BY <1>3, <1>5, <2>1, <2>3, <3>1
  <2> QED
    BY <2>2, <2>3
<1>7. (j - 1) + (l - j) = l - 1
  BY <1>1
<1>8. Len(RemoveAt(s, j)) = l - 1
  BY <1>4, <1>5, <1>7
<1>9. \A n \in 1..(l - 1) : RemoveAt(s, j)[n] = IF n < j THEN s[n] ELSE s[n + 1]
  BY <1>4, <1>6
<1> QED
  BY <1>1, <1>8, <1>9

\* q2 is q without its j-th element.
Without(q, q2, j) ==
  /\ Len(q2) = Len(q) - 1
  /\ \A n \in 1..(Len(q) - 1) : q2[n] = IF n < j THEN q[n] ELSE q[n + 1]

\* A worker finishes a task.
LEMMA TaskGone ==
  ASSUME NEW P \in Seq(Task0), NEW R \in Seq(Msg), NEW A \in Seq(Msg), NEW q, NEW q2,
         NEW j \in 1..Len(P),
         RouteOf(q, P, R, A), RouteOf(q2, RemoveAt(P, j), R, A)
  PROVE  Without(q, q2, j) /\ Len(RemoveAt(P, j)) = Len(P) - 1
<1>1. PICK a, b, c \in Nat : a = Len(P) /\ b = Len(R) /\ c = Len(A)
  OBVIOUS
<1>2. PICK P2 : P2 = RemoveAt(P, j)
  OBVIOUS
<1>3. Len(P2) = a - 1 /\ \A n \in 1..(a - 1) : P2[n] = IF n < j THEN P[n] ELSE P[n + 1]
  BY <1>1, <1>2, RemoveAtIndex
<1>4. /\ q \in Seq(Task0) /\ Len(q) = a + b + c
      /\ \A n \in 1..a : q[n] = P[n]
      /\ \A n \in 1..b : q[a + n] = Lift(R[n])
      /\ \A n \in 1..c : q[a + b + n] = Lift(A[n])
  BY <1>1 DEF RouteOf
<1>5. /\ q2 \in Seq(Task0) /\ Len(q2) = (a - 1) + b + c
      /\ \A n \in 1..(a - 1) : q2[n] = P2[n]
      /\ \A n \in 1..b : q2[(a - 1) + n] = Lift(R[n])
      /\ \A n \in 1..c : q2[(a - 1) + b + n] = Lift(A[n])
  BY <1>1, <1>2, <1>3 DEF RouteOf
<1>6. j \in 1..a
  BY <1>1
<1>7. ASSUME NEW n \in 1..(Len(q) - 1)
      PROVE  q2[n] = IF n < j THEN q[n] ELSE q[n + 1]
  <2>1. CASE n <= a - 1
    <3>1. n \in 1..(a - 1) /\ n \in 1..a /\ n + 1 \in 1..a
      BY <1>6, <2>1
    <3> QED
      BY <1>3, <1>4, <1>5, <3>1
  <2>2. CASE n > a - 1 /\ n <= (a - 1) + b
    <3>1. PICK m \in 1..b : n = (a - 1) + m /\ n + 1 = a + m
      <4>1. n - (a - 1) \in 1..b /\ n = (a - 1) + (n - (a - 1)) /\ n + 1 = a + (n - (a - 1))
        BY <1>4, <2>2
      <4> QED
        BY <4>1
    <3>2. ~(n < j)
      BY <1>6, <2>2
    <3>3. q2[(a - 1) + m] = Lift(R[m]) /\ q[a + m] = Lift(R[m])
      BY <1>4, <1>5
    <3> QED
      BY <3>1, <3>2, <3>3
  <2>3. CASE n > (a - 1) + b
    <3>1. PICK m \in 1..c : n = (a - 1) + b + m /\ n + 1 = a + b + m
      <4>1. /\ n - ((a - 1) + b) \in 1..c /\ n = (a - 1) + b + (n - ((a - 1) + b))
            /\ n + 1 = a + b + (n - ((a - 1) + b))
        BY <1>4, <2>3
      <4> QED
        BY <4>1
    <3>2. ~(n < j)
      BY <1>6, <2>3
    <3>3. q2[(a - 1) + b + m] = Lift(A[m]) /\ q[a + b + m] = Lift(A[m])
      BY <1>4, <1>5
    <3> QED
      BY <3>1, <3>2, <3>3
  <2> QED
    BY <1>4, <2>1, <2>2, <2>3
<1>8. Len(q2) = Len(q) - 1
  BY <1>4, <1>5
<1> QED
  BY <1>1, <1>2, <1>3, <1>7, <1>8 DEF Without

\* A worker has gone on to p with task j of the pool P.
OnStep(P, R, A, q, q2, P2, j, p) ==
  /\ P \in Seq(Task0) /\ R \in Seq(Msg) /\ A \in Seq(Msg) /\ j \in 1..Len(P)
  /\ P2 = [P EXCEPT ![j].pc = p]
  /\ RouteOf(q, P, R, A) /\ RouteOf(q2, P2, R, A)

\* A worker goes on with a task.
LEMMA TaskOn ==
  ASSUME NEW P, NEW R, NEW A, NEW q, NEW q2, NEW P2, NEW j, NEW p, OnStep(P, R, A, q, q2, P2, j, p)
  PROVE  /\ Len(P2) = Len(P) /\ Len(q2) = Len(q) /\ j \in 1..Len(q)
         /\ q2[j].kind = q[j].kind /\ q2[j].id = q[j].id /\ q2[j].pc = p
         /\ \A n \in 1..Len(q) : n # j => q2[n] = q[n]
<1> USE DEF OnStep
<1>1. PICK a, b, c \in Nat : a = Len(P) /\ b = Len(R) /\ c = Len(A)
  BY LenProperties
<1>3. P[j] \in Task0
  OBVIOUS
<1>4. Len(P2) = a /\ P2[j] = [P[j] EXCEPT !.pc = p] /\ \A n \in 1..a : n # j => P2[n] = P[n]
  BY <1>1
<1>5. P2[j].kind = P[j].kind /\ P2[j].id = P[j].id /\ P2[j].pc = p
  BY <1>3, <1>4 DEF Task0
<1>6. /\ q \in Seq(Task0) /\ Len(q) = a + b + c
      /\ \A n \in 1..a : q[n] = P[n]
      /\ \A n \in 1..b : q[a + n] = Lift(R[n])
      /\ \A n \in 1..c : q[a + b + n] = Lift(A[n])
  BY <1>1 DEF RouteOf
<1>7. /\ q2 \in Seq(Task0) /\ Len(q2) = a + b + c
      /\ \A n \in 1..a : q2[n] = P2[n]
      /\ \A n \in 1..b : q2[a + n] = Lift(R[n])
      /\ \A n \in 1..c : q2[a + b + n] = Lift(A[n])
  BY <1>1, <1>4 DEF RouteOf
<1>8. j \in 1..a /\ j \in 1..Len(q)
  BY <1>1, <1>6
<1>9. ASSUME NEW n \in 1..Len(q), n # j
      PROVE  q2[n] = q[n]
  <2>1. CASE n <= a
    <3>1. n \in 1..a
      BY <1>6, <2>1
    <3>2. P2[n] = P[n]
      BY <1>4, <1>9, <3>1
    <3> QED
      BY <1>6, <1>7, <3>1, <3>2
  <2>2. CASE n > a /\ n <= a + b
    <3>1. PICK m \in 1..b : n = a + m
      <4>1. n - a \in 1..b /\ n = a + (n - a)
        BY <1>6, <2>2
      <4> QED
        BY <4>1
    <3> QED
      BY <1>6, <1>7, <3>1
  <2>3. CASE n > a + b
    <3>1. PICK m \in 1..c : n = a + b + m
      <4>1. n - (a + b) \in 1..c /\ n = a + b + (n - (a + b))
        BY <1>6, <2>3
      <4> QED
        BY <4>1
    <3> QED
      BY <1>6, <1>7, <3>1
  <2> QED
    BY <1>6, <2>1, <2>2, <2>3
<1> QED
  BY <1>1, <1>4, <1>5, <1>6, <1>7, <1>8, <1>9

\* Only answers are beyond their first step.
StagesOf(q) ==
  \A n \in 1..Len(q) : /\ q[n].pc # "start" => q[n].kind # "ind"
                       /\ q[n].pc = "rm" => q[n].kind # "sub"

\* The requests and answers of q2 are some of those of q, in the same order.
From(q, q2, g) ==
  /\ \A n \in 1..Len(q2) : q2[n].kind # "ind" => g[n] \in 1..Len(q) /\ q2[n] = q[g[n]]
  /\ \A n, k \in 1..Len(q2) :
       q2[n].kind # "ind" /\ q2[k].kind # "ind" /\ n < k => g[n] < g[k]

\* What an xApp sees of the queue and may rely on.
Seen(q, q2) ==
  \A i : /\ Clear(q, i) => Clear(q2, i)
         /\ Single(q, i) => Single(q2, i)
         /\ \A kind \in Kinds : Busy(q2, kind, i) => Busy(q, kind, i)

\* Fewer requests and answers satisfy what more of them do.
LEMMA FromOK ==
  ASSUME NEW q, NEW q2, NEW g, From(q, q2, g), Len(q) \in Nat, Len(q2) \in Nat
  PROVE  /\ FirstOK(q) => FirstOK(q2)
         /\ DelOne(q) => DelOne(q2)
         /\ Seen(q, q2)
         /\ \A M : KindsOK(q, M) /\ StagesOf(q2) => KindsOK(q2, M)
<1>1. \A n \in 1..Len(q2) : q2[n].kind # "ind" => g[n] \in 1..Len(q) /\ q2[n] = q[g[n]]
  BY DEF From
<1>2. ASSUME NEW n \in 1..Len(q2), NEW k \in 1..Len(q2), q2[n].kind # "ind", q2[k].kind # "ind"
      PROVE  /\ g[n] = g[k] => n = k
             /\ g[n] < g[k] => n < k
  <2>1. g[n] \in Int /\ g[k] \in Int
    BY <1>1, <1>2
  <2>2. (n < k => g[n] < g[k]) /\ (k < n => g[k] < g[n])
    BY <1>2 DEF From
  <2> QED
    BY <2>1, <2>2
<1>3. FirstOK(q) => FirstOK(q2)
  <2> SUFFICES ASSUME FirstOK(q), NEW n \in 1..Len(q2), NEW k \in 1..Len(q2),
                      q2[n].kind \in {"sub", "ctrl"}, q2[k].kind # "ind",
                      q2[k].id = q2[n].id, k # n
               PROVE  n < k /\ q2[k].kind = "del"
    BY DEF FirstOK
  <2>1. q2[n].kind # "ind"
    OBVIOUS
  <2>2. g[n] \in 1..Len(q) /\ g[k] \in 1..Len(q) /\ q2[n] = q[g[n]] /\ q2[k] = q[g[k]] /\ g[k] # g[n]
    BY <1>1, <1>2, <2>1
  <2>3. g[n] < g[k] /\ q[g[k]].kind = "del"
    BY <2>2 DEF FirstOK
  <2> QED
    BY <1>2, <2>1, <2>2, <2>3
<1>4. DelOne(q) => DelOne(q2)
  <2> SUFFICES ASSUME DelOne(q), NEW n \in 1..Len(q2), NEW k \in 1..Len(q2),
                      q2[n].kind = "del", q2[k].kind = "del", q2[n].pc = "start",
                      q2[k].pc = "start", q2[k].id = q2[n].id
               PROVE  n = k
    BY DEF DelOne
  <2>1. q2[n].kind # "ind" /\ q2[k].kind # "ind"
    OBVIOUS
  <2>2. g[n] \in 1..Len(q) /\ g[k] \in 1..Len(q) /\ q2[n] = q[g[n]] /\ q2[k] = q[g[k]]
    BY <1>1, <2>1
  <2>3. g[n] = g[k]
    BY <2>2 DEF DelOne
  <2> QED
    BY <1>2, <2>1, <2>3
<1>5. Seen(q, q2)
  <2> SUFFICES ASSUME NEW i
               PROVE  /\ Clear(q, i) => Clear(q2, i)
                      /\ Single(q, i) => Single(q2, i)
                      /\ \A kind \in Kinds : Busy(q2, kind, i) => Busy(q, kind, i)
    BY DEF Seen
  <2>1. Clear(q, i) => Clear(q2, i)
    BY <1>1 DEF Clear
  <2>2. Single(q, i) => Single(q2, i)
    BY <1>1, <1>2 DEF Single
  <2>3. ASSUME NEW kind \in Kinds, Busy(q2, kind, i)
        PROVE  Busy(q, kind, i)
    <3>1. kind # "ind"
      BY DEF Kinds
    <3> QED
      BY <1>1, <2>3, <3>1 DEF Busy
  <2> QED
    BY <2>1, <2>2, <2>3
<1>6. ASSUME NEW M, KindsOK(q, M), StagesOf(q2)
      PROVE  KindsOK(q2, M)
  <2> SUFFICES ASSUME NEW n \in 1..Len(q2)
               PROVE  /\ q2[n].kind \in {"sub", "ctrl"} =>
                           q2[n].id \in DOMAIN M /\ M[q2[n].id].type = q2[n].kind
                      /\ q2[n].pc = "rm" => q2[n].id \in DOMAIN M
                      /\ q2[n].kind = "del" /\ q2[n].id \in DOMAIN M => M[q2[n].id].type = "sub"
    BY DEF KindsOK
  <2>1. CASE q2[n].kind # "ind"
    BY <1>1, <1>6, <2>1 DEF KindsOK
  <2>2. CASE q2[n].kind = "ind"
    BY <1>6, <2>2 DEF StagesOf
  <2> QED
    BY <2>1, <2>2
<1> QED
  BY <1>3, <1>4, <1>5, <1>6

\* The invariant of the queue.
RouteInv(q, p, M, R) ==
  FirstOK(q) /\ DelOne(q) /\ PoolOne(q, p) /\ RpendOK(q, R) /\ KindsOK(q, M)

\* q2 is q without the j-th task, which is done.
DoneStep(q, q2, p, j, M, R) ==
  /\ q \in Seq(Task0)
  /\ q2 \in Seq(Task0)
  /\ p \in 1..Len(q)
  /\ j \in 1..p
  /\ Without(q, q2, j)
  /\ q[j].kind = "ind" \/ q[j].pc # "start"
  /\ \A e \in R : e.kind # "ind"
  /\ StagesOf(q2)
  /\ RouteInv(q, p, M, R)

\* A task that was begun, or is an indication, is taken out of the pool.
LEMMA WithoutOK ==
  ASSUME NEW q, NEW q2, NEW p, NEW j, NEW M, NEW R,
         DoneStep(q, q2, p, j, M, R)
  PROVE  /\ RouteInv(q2, p - 1, M, R) /\ Seen(q, q2)
         /\ \A i : Rm(q, i) /\ ~(q[j].pc = "rm" /\ q[j].id = i) => Rm(q2, i)
         /\ q[j].kind # "ind" /\ Single(q, q[j].id) => Clear(q2, q[j].id)
<1>a. /\ q \in Seq(Task0)
      /\ q2 \in Seq(Task0)
      /\ p \in 1..Len(q)
      /\ j \in 1..p
      /\ Without(q, q2, j)
      /\ q[j].kind = "ind" \/ q[j].pc # "start"
      /\ \A e \in R : e.kind # "ind"
      /\ StagesOf(q2)
      /\ RouteInv(q, p, M, R)
  BY DEF DoneStep
<1> USE <1>a
<1>1. PICK l \in Nat : l = Len(q)
  OBVIOUS
<1>2. Len(q2) = l - 1 /\ \A n \in 1..(l - 1) : q2[n] = IF n < j THEN q[n] ELSE q[n + 1]
  BY <1>1 DEF Without
<1>3. j \in 1..l /\ p \in 1..l
  BY <1>1
<1> DEFINE g == [n \in 1..(l - 1) |-> IF n < j THEN n ELSE n + 1]
<1>4. \A n \in 1..(l - 1) : g[n] \in 1..l /\ g[n] # j /\ q2[n] = q[g[n]] /\ (n <= p - 1 => g[n] \in 1..p)
  BY <1>2, <1>3
<1>5. \A n, k \in 1..(l - 1) : n < k => g[n] < g[k]
  BY <1>3
<1>6. ASSUME NEW k \in 1..l, k # j
      PROVE  \E n \in 1..(l - 1) : q2[n] = q[k]
  <2>1. CASE k < j
    <3>1. k \in 1..(l - 1)
      BY <1>3, <2>1
    <3> QED
      BY <1>2, <2>1, <3>1
  <2>2. CASE k > j
    <3>1. k - 1 \in 1..(l - 1) /\ ~(k - 1 < j) /\ (k - 1) + 1 = k
      BY <1>3, <2>2
    <3> QED
      BY <1>2, <3>1
  <2> QED
    BY <1>3, <1>6, <2>1, <2>2
<1> HIDE DEF g
<1>7. From(q, q2, g)
  BY <1>1, <1>2, <1>4, <1>5 DEF From
<1>8. FirstOK(q2) /\ DelOne(q2) /\ Seen(q, q2) /\ KindsOK(q2, M)
  BY <1>7, FromOK DEF RouteInv
<1>9. PoolOne(q2, p - 1)
  <2> SUFFICES ASSUME NEW n \in 1..(p - 1), NEW k \in 1..(p - 1),
                      q2[n].kind # "ind", q2[k].kind # "ind", q2[k].id = q2[n].id
               PROVE  n = k
    BY DEF PoolOne
  <2>1. n \in 1..(l - 1) /\ k \in 1..(l - 1) /\ n <= p - 1 /\ k <= p - 1
    BY <1>3
  <2>2. g[n] \in 1..p /\ g[k] \in 1..p /\ q2[n] = q[g[n]] /\ q2[k] = q[g[k]]
    BY <1>4, <2>1
  <2>3. g[n] = g[k]
    BY <2>2 DEF RouteInv, PoolOne
  <2>4. (n < k => g[n] < g[k]) /\ (k < n => g[k] < g[n])
    BY <1>5, <2>1
  <2> QED
    BY <2>2, <2>3, <2>4
<1>10. RpendOK(q2, R)
  <2>1. ASSUME NEW e \in R
        PROVE  \E n \in 1..Len(q2) : q2[n].kind = e.kind /\ q2[n].id = e.id /\ q2[n].pc = "start"
    <3>1. PICK k \in 1..l : q[k].kind = e.kind /\ q[k].id = e.id /\ q[k].pc = "start"
      BY <1>1 DEF RouteInv, RpendOK
    <3>2. k # j
      BY <3>1
    <3> QED
      BY <1>2, <1>6, <3>1, <3>2
  <2>2. ASSUME NEW n \in 1..Len(q2), q2[n].kind # "ind", q2[n].pc = "start"
        PROVE  [kind |-> q2[n].kind, id |-> q2[n].id] \in R
    <3>1. g[n] \in 1..l /\ q2[n] = q[g[n]]
      BY <1>2, <1>4, <2>2
    <3>2. PICK k \in 1..Len(q) : q2[n] = q[k]
      BY <1>1, <3>1
    <3>3. q[k].kind # "ind" /\ q[k].pc = "start"
      BY <2>2, <3>2
    <3>4. [kind |-> q[k].kind, id |-> q[k].id] \in R
      BY <3>3 DEF RouteInv, RpendOK
    <3> QED
      BY <3>2, <3>4
  <2> QED
    BY <2>1, <2>2 DEF RpendOK
<1>11. ASSUME NEW i, Rm(q, i), ~(q[j].pc = "rm" /\ q[j].id = i)
       PROVE  Rm(q2, i)
  BY <1>1, <1>2, <1>6, <1>11 DEF Rm
<1>12. ASSUME q[j].kind # "ind", Single(q, q[j].id)
       PROVE  Clear(q2, q[j].id)
  <2> SUFFICES ASSUME NEW n \in 1..(l - 1), q2[n].kind # "ind", q2[n].id = q[j].id
               PROVE  FALSE
    BY <1>2 DEF Clear
  <2>1. g[n] \in 1..l /\ g[n] # j /\ q2[n] = q[g[n]]
    BY <1>4
  <2> QED
    BY <1>1, <1>3, <1>12, <2>1 DEF Single
<1> QED
  BY <1>8, <1>9, <1>10, <1>11, <1>12 DEF RouteInv

\* q2 is q with an indication at place j.
InsertStep(q, q2, p, j, M, R) ==
  /\ q \in Seq(Task0)
  /\ q2 \in Seq(Task0)
  /\ p \in 0..Len(q)
  /\ j \in (p + 1)..(Len(q) + 1)
  /\ Len(q2) = Len(q) + 1
  /\ q2[j].kind = "ind"
  /\ q2[j].pc = "start"
  /\ \A n \in 1..Len(q) : IF n < j THEN q2[n] = q[n] ELSE q2[n + 1] = q[n]
  /\ StagesOf(q2)
  /\ RouteInv(q, p, M, R)

\* An indication is put into the queue, behind the pool.
LEMMA InsertedOK ==
  ASSUME NEW q, NEW q2, NEW p, NEW j, NEW M, NEW R,
         InsertStep(q, q2, p, j, M, R)
  PROVE  /\ RouteInv(q2, p, M, R) /\ Seen(q, q2)
         /\ \A i : Rm(q, i) => Rm(q2, i)
<1>a. /\ q \in Seq(Task0)
      /\ q2 \in Seq(Task0)
      /\ p \in 0..Len(q)
      /\ j \in (p + 1)..(Len(q) + 1)
      /\ Len(q2) = Len(q) + 1
      /\ q2[j].kind = "ind"
      /\ q2[j].pc = "start"
      /\ \A n \in 1..Len(q) : IF n < j THEN q2[n] = q[n] ELSE q2[n + 1] = q[n]
      /\ StagesOf(q2)
      /\ RouteInv(q, p, M, R)
  BY DEF InsertStep
<1> USE <1>a
<1>1. PICK l \in Nat : l = Len(q)
  OBVIOUS
<1>2. Len(q2) = l + 1 /\ \A n \in 1..l : IF n < j THEN q2[n] = q[n] ELSE q2[n + 1] = q[n]
  BY <1>1
<1>3. j \in 1..(l + 1) /\ p < j
  BY <1>1
<1> DEFINE g == [n \in 1..(l + 1) |-> IF n < j THEN n ELSE n - 1]
<1>4. ASSUME NEW n \in 1..(l + 1), n # j
      PROVE  g[n] \in 1..l /\ q2[n] = q[g[n]]
  <2>1. CASE n < j
    <3>1. n \in 1..l
      BY <1>3, <2>1
    <3> QED
      BY <1>2, <2>1, <3>1
  <2>2. CASE n > j
    <3>1. n - 1 \in 1..l /\ ~(n - 1 < j) /\ (n - 1) + 1 = n
      BY <1>3, <2>2
    <3>2. q2[(n - 1) + 1] = q[n - 1]
      BY <1>2, <3>1
    <3> QED
      BY <1>3, <2>2, <3>1, <3>2
  <2> QED
    BY <1>3, <1>4, <2>1, <2>2
<1>5. \A n, k \in 1..(l + 1) : n # j /\ k # j /\ n < k => g[n] < g[k]
  BY <1>3
<1>6. \A n \in 1..(l + 1) : n <= p => g[n] = n
  BY <1>3
<1>7. \A k \in 1..l : \E n \in 1..(l + 1) : q2[n] = q[k]
  <2> SUFFICES ASSUME NEW k \in 1..l
               PROVE  \E n \in 1..(l + 1) : q2[n] = q[k]
    OBVIOUS
  <2>1. k \in 1..(l + 1) /\ k + 1 \in 1..(l + 1)
    OBVIOUS
  <2> QED
    BY <1>2, <2>1
<1> HIDE DEF g
<1>8. From(q, q2, g)
  BY <1>1, <1>2, <1>4, <1>5 DEF From
<1>9. FirstOK(q2) /\ DelOne(q2) /\ Seen(q, q2) /\ KindsOK(q2, M)
  BY <1>8, FromOK DEF RouteInv
<1>10. PoolOne(q2, p)
  <2>1. \A n \in 1..p : q2[n] = q[n]
    <3> SUFFICES ASSUME NEW n \in 1..p
                 PROVE  q2[n] = q[n]
      OBVIOUS
    <3>1. n \in 1..l /\ n < j
      BY <1>1, <1>3
    <3> QED
      BY <1>2, <3>1
  <2> QED
    BY <2>1 DEF RouteInv, PoolOne
<1>11. RpendOK(q2, R)
  <2>1. ASSUME NEW e \in R
        PROVE  \E n \in 1..Len(q2) : q2[n].kind = e.kind /\ q2[n].id = e.id /\ q2[n].pc = "start"
    <3>1. PICK k \in 1..l : q[k].kind = e.kind /\ q[k].id = e.id /\ q[k].pc = "start"
      BY <1>1 DEF RouteInv, RpendOK
    <3> QED
      BY <1>2, <1>7, <3>1
  <2>2. ASSUME NEW n \in 1..Len(q2), q2[n].kind # "ind", q2[n].pc = "start"
        PROVE  [kind |-> q2[n].kind, id |-> q2[n].id] \in R
    <3>1. g[n] \in 1..l /\ q2[n] = q[g[n]]
      BY <1>2, <1>4, <2>2
    <3>2. PICK k \in 1..Len(q) : q2[n] = q[k]
      BY <1>1, <3>1
    <3>3. q[k].kind # "ind" /\ q[k].pc = "start"
      BY <2>2, <3>2
    <3>4. [kind |-> q[k].kind, id |-> q[k].id] \in R
      BY <3>3 DEF RouteInv, RpendOK
    <3> QED
      BY <3>2, <3>4
  <2> QED
    BY <2>1, <2>2 DEF RpendOK
<1>12. ASSUME NEW i, Rm(q, i)
       PROVE  Rm(q2, i)
  BY <1>1, <1>2, <1>7, <1>12 DEF Rm
<1> QED
  BY <1>9, <1>10, <1>11, <1>12 DEF RouteInv

\* q2 is q with the j-th element at another step.
Stepped(q, q2, j) ==
  /\ Len(q2) = Len(q)
  /\ q2[j].kind = q[j].kind /\ q2[j].id = q[j].id
  /\ \A n \in 1..Len(q) : n # j => q2[n] = q[n]

\* The order and the numbers do not depend on how far the answers are.
LEMMA SteppedSame ==
  ASSUME NEW q, NEW q2, NEW j \in 1..Len(q), NEW p \in Nat, p <= Len(q), Len(q) \in Nat,
         Stepped(q, q2, j)
  PROVE  /\ FirstOK(q) => FirstOK(q2)
         /\ PoolOne(q, p) => PoolOne(q2, p)
         /\ \A i : (Clear(q, i) => Clear(q2, i)) /\ (Single(q, i) => Single(q2, i))
<1>1. Len(q2) = Len(q) /\ \A n \in 1..Len(q) : q2[n].kind = q[n].kind /\ q2[n].id = q[n].id
  BY DEF Stepped
<1>2. FirstOK(q) => FirstOK(q2)
  BY <1>1 DEF FirstOK
<1>3. \A n \in 1..p : n \in 1..Len(q)
  OBVIOUS
<1>4. PoolOne(q, p) => PoolOne(q2, p)
  BY <1>1, <1>3 DEF PoolOne
<1>5. \A i : (Clear(q, i) => Clear(q2, i)) /\ (Single(q, i) => Single(q2, i))
  BY <1>1 DEF Clear, Single
<1> QED
  BY <1>2, <1>4, <1>5

\* q2 is q with the j-th task begun.
BeginStep(q, q2, p, j, M, R) ==
  /\ p \in Nat
  /\ j \in 1..Len(q)
  /\ p <= Len(q)
  /\ Len(q) \in Nat
  /\ R \subseteq [kind : Kinds, id : ReqIds]
  /\ StagesOf(q2)
  /\ Stepped(q, q2, j)
  /\ q[j].kind # "ind"
  /\ q[j].pc = "start"
  /\ q2[j].pc = "find"
  /\ RouteInv(q, p, M, R)

\* A worker begins with an answer and removes the pending event.
LEMMA BegunOK ==
  ASSUME NEW q, NEW q2, NEW p, NEW j, NEW M, NEW R,
         BeginStep(q, q2, p, j, M, R)
  PROVE  /\ RouteInv(q2, p, M, R \ {[kind |-> q[j].kind, id |-> q[j].id]}) /\ Seen(q, q2)
         /\ \A i : Rm(q, i) => Rm(q2, i)
         /\ [kind |-> q[j].kind, id |-> q[j].id] \in R
<1>a. /\ p \in Nat
      /\ j \in 1..Len(q)
      /\ p <= Len(q)
      /\ Len(q) \in Nat
      /\ R \subseteq [kind : Kinds, id : ReqIds]
      /\ StagesOf(q2)
      /\ Stepped(q, q2, j)
      /\ q[j].kind # "ind"
      /\ q[j].pc = "start"
      /\ q2[j].pc = "find"
      /\ RouteInv(q, p, M, R)
  BY DEF BeginStep
<1> USE <1>a
<1> DEFINE ev == [kind |-> q[j].kind, id |-> q[j].id]
<1>1. Len(q2) = Len(q) /\ \A n \in 1..Len(q) : n # j => q2[n] = q[n]
  BY DEF Stepped
<1>2. \A n \in 1..Len(q) : q2[n].kind = q[n].kind /\ q2[n].id = q[n].id
  BY DEF Stepped
<1>3. ev \in R
  BY DEF RouteInv, RpendOK
<1>4. FirstOK(q2) /\ PoolOne(q2, p)
  BY SteppedSame DEF RouteInv
<1>5. DelOne(q2)
  BY <1>1, <1>2 DEF RouteInv, DelOne
<1>6. KindsOK(q2, M)
  BY <1>1, <1>2 DEF RouteInv, KindsOK
<1>7. \A e \in R : e # ev => e.kind # q[j].kind \/ e.id # q[j].id
  <2> SUFFICES ASSUME NEW e \in R, e.kind = q[j].kind, e.id = q[j].id
               PROVE  e = ev
    OBVIOUS
  <2>1. e \in [kind : Kinds, id : ReqIds] /\ e = [kind |-> e.kind, id |-> e.id]
    OBVIOUS
  <2> QED
    BY <2>1
<1>8. ASSUME NEW n \in 1..Len(q), n # j, q[n].kind # "ind", q[n].pc = "start"
      PROVE  q[n].kind # q[j].kind \/ q[n].id # q[j].id
  <2> SUFFICES ASSUME q[n].kind = q[j].kind, q[n].id = q[j].id
               PROVE  FALSE
    OBVIOUS
  <2>1. ev \in [kind : Kinds, id : ReqIds]
    BY <1>3
  <2>2. q[j].kind \in Kinds
    BY <2>1
  <2>3. CASE q[j].kind = "del"
    BY <1>8, <2>3 DEF RouteInv, DelOne
  <2>4. CASE q[j].kind \in {"sub", "ctrl"}
    BY <1>8, <2>4 DEF RouteInv, FirstOK
  <2> QED
    BY <2>2, <2>3, <2>4 DEF Kinds
<1>9. RpendOK(q2, R \ {ev})
  <2>1. ASSUME NEW e \in R \ {ev}
        PROVE  \E n \in 1..Len(q2) : q2[n].kind = e.kind /\ q2[n].id = e.id /\ q2[n].pc = "start"
    <3>1. PICK k \in 1..Len(q) : q[k].kind = e.kind /\ q[k].id = e.id /\ q[k].pc = "start"
      BY DEF RouteInv, RpendOK
    <3>2. k # j
      BY <1>7, <3>1
    <3> QED
      BY <1>1, <3>1, <3>2
  <2>2. ASSUME NEW n \in 1..Len(q2), q2[n].kind # "ind", q2[n].pc = "start"
        PROVE  [kind |-> q2[n].kind, id |-> q2[n].id] \in R \ {ev}
    <3>1. n # j /\ n \in 1..Len(q) /\ q2[n] = q[n]
      BY <1>1, <2>2
    <3>2. [kind |-> q[n].kind, id |-> q[n].id] \in R
      BY <2>2, <3>1 DEF RouteInv, RpendOK
    <3>3. q[n].kind # q[j].kind \/ q[n].id # q[j].id
      BY <1>8, <2>2, <3>1
    <3>4. [kind |-> q[n].kind, id |-> q[n].id] # ev
      BY <3>3
    <3> QED
      BY <3>1, <3>2, <3>4
  <2> QED
    BY <2>1, <2>2 DEF RpendOK
<1>10. Seen(q, q2)
  <2>1. \A n \in 1..Len(q) : q2[n].pc # "rm" => q[n].pc # "rm"
    BY <1>1
  <2>2. \A i : \A kind \in Kinds : Busy(q2, kind, i) => Busy(q, kind, i)
    BY <1>1, <1>2, <2>1 DEF Busy
  <2> QED
    BY <2>2, SteppedSame DEF Seen
<1>11. \A i : Rm(q, i) => Rm(q2, i)
  BY <1>1 DEF Rm
<1> QED
  BY <1>3, <1>4, <1>5, <1>6, <1>9, <1>10, <1>11 DEF RouteInv

\* q2 is q with the j-th answer sent on.
SendStep(q, q2, p, j, M, R) ==
  /\ p \in Nat
  /\ j \in 1..Len(q)
  /\ p <= Len(q)
  /\ Len(q) \in Nat
  /\ StagesOf(q2)
  /\ Stepped(q, q2, j)
  /\ q[j].pc = "find"
  /\ q2[j].pc = "rm"
  /\ q[j].id \in DOMAIN M
  /\ RouteInv(q, p, M, R)

\* A worker has sent an answer on and is to remove the number.
LEMMA SentOnOK ==
  ASSUME NEW q, NEW q2, NEW p, NEW j, NEW M, NEW R,
         SendStep(q, q2, p, j, M, R)
  PROVE  /\ RouteInv(q2, p, M, R) /\ Seen(q, q2)
         /\ \A i : Rm(q, i) => Rm(q2, i)
         /\ Rm(q2, q[j].id)
         /\ Single(q, q[j].id) => \A kind \in Kinds : ~Busy(q2, kind, q[j].id)
<1>a. /\ p \in Nat
      /\ j \in 1..Len(q)
      /\ p <= Len(q)
      /\ Len(q) \in Nat
      /\ StagesOf(q2)
      /\ Stepped(q, q2, j)
      /\ q[j].pc = "find"
      /\ q2[j].pc = "rm"
      /\ q[j].id \in DOMAIN M
      /\ RouteInv(q, p, M, R)
  BY DEF SendStep
<1> USE <1>a
<1>1. Len(q2) = Len(q) /\ \A n \in 1..Len(q) : n # j => q2[n] = q[n]
  BY DEF Stepped
<1>2. \A n \in 1..Len(q) : q2[n].kind = q[n].kind /\ q2[n].id = q[n].id
  BY DEF Stepped
<1>3. FirstOK(q2) /\ PoolOne(q2, p)
  BY SteppedSame DEF RouteInv
<1>4. DelOne(q2)
  BY <1>1, <1>2 DEF RouteInv, DelOne
<1>5. KindsOK(q2, M)
  BY <1>1, <1>2 DEF RouteInv, KindsOK
<1>6. RpendOK(q2, R)
  <2>1. ASSUME NEW e \in R
        PROVE  \E n \in 1..Len(q2) : q2[n].kind = e.kind /\ q2[n].id = e.id /\ q2[n].pc = "start"
    <3>1. PICK k \in 1..Len(q) : q[k].kind = e.kind /\ q[k].id = e.id /\ q[k].pc = "start"
      BY DEF RouteInv, RpendOK
    <3>2. k # j
      BY <3>1
    <3> QED
      BY <1>1, <3>1, <3>2
  <2>2. ASSUME NEW n \in 1..Len(q2), q2[n].kind # "ind", q2[n].pc = "start"
        PROVE  [kind |-> q2[n].kind, id |-> q2[n].id] \in R
    <3>1. n # j /\ n \in 1..Len(q) /\ q2[n] = q[n]
      BY <1>1, <2>2
    <3>2. [kind |-> q[n].kind, id |-> q[n].id] \in R
      BY <2>2, <3>1 DEF RouteInv, RpendOK
    <3> QED
      BY <3>1, <3>2
  <2> QED
    BY <2>1, <2>2 DEF RpendOK
<1>7. Seen(q, q2)
  <2>1. \A n \in 1..Len(q) : q2[n].pc # "rm" => q[n].pc # "rm"
    BY <1>1
  <2>2. \A i : \A kind \in Kinds : Busy(q2, kind, i) => Busy(q, kind, i)
    BY <1>1, <1>2, <2>1 DEF Busy
  <2> QED
    BY <2>2, SteppedSame DEF Seen
<1>8. \A i : Rm(q, i) => Rm(q2, i)
  BY <1>1 DEF Rm
<1>9. Rm(q2, q[j].id)
  BY <1>1, <1>2 DEF Rm
<1>10. ASSUME Single(q, q[j].id), NEW kind \in Kinds, Busy(q2, kind, q[j].id)
       PROVE  FALSE
  <2>1. PICK n \in 1..Len(q2) : q2[n].kind = kind /\ q2[n].id = q[j].id /\ q2[n].pc # "rm"
    BY <1>10 DEF Busy
  <2>2. n # j /\ q2[n] = q[n] /\ n \in 1..Len(q)
    BY <1>1, <2>1
  <2>3. q[n].kind # "ind"
    BY <2>1, <2>2 DEF Kinds
  <2>4. q[j].kind # "ind"
    BY <1>1, <1>2 DEF StagesOf
  <2> QED
    BY <1>10, <2>1, <2>2, <2>3, <2>4 DEF Single
<1> QED
  BY <1>3, <1>4, <1>5, <1>6, <1>7, <1>8, <1>9, <1>10 DEF RouteInv

\* The same for all numbers but ids.
SeenBut(q, q2, ids) ==
  \A i : i \notin ids => /\ Clear(q, i) => Clear(q2, i)
                         /\ Single(q, i) => Single(q2, i)
                         /\ \A kind \in Kinds : Busy(q2, kind, i) => Busy(q, kind, i)

\* Nothing is under way about i but one message of this kind.
Only(q, i, kind) == Single(q, i) /\ \A c \in Kinds : Busy(q, c, i) => c = kind

RmKept(q, q2) == \A i : Rm(q, i) => Rm(q2, i)

\* q2 is q with the request for number r, which is new, at the end, ...
Put(q, q2, r, kind) ==
  /\ \A n \in 1..Len(q) : q[n].id # r
  /\ Len(q2) = Len(q) + 1
  /\ \A n \in 1..Len(q) : q2[n] = q[n]
  /\ q2[Len(q) + 1] = [kind |-> kind, id |-> r, pc |-> "start"]

\* ... and M2 is M with an entry for it.
Entered(M, M2, r, kind) ==
  /\ r \notin DOMAIN M /\ DOMAIN M2 = DOMAIN M \cup {r}
  /\ M2[r].type = kind
  /\ \A i \in DOMAIN M : M2[i] = M[i]

\* R2 is R with the pending event of a request.
Pended(R, R2, kind, r) == R2 = R \cup {[kind |-> kind, id |-> r]}

\* The step of the iApp.
RequestStep(q, q2, p, M, M2, R, R2, r, kind) ==
  /\ p \in Nat /\ Len(q) \in Nat /\ p <= Len(q) /\ kind \in {"sub", "ctrl"}
  /\ Put(q, q2, r, kind) /\ Entered(M, M2, r, kind) /\ Pended(R, R2, kind, r)
  /\ RouteInv(q, p, M, R)

\* A request for a new number is put at the end.
LEMMA RequestedOK ==
  ASSUME NEW q, NEW q2, NEW p, NEW M, NEW M2, NEW R, NEW R2, NEW r, NEW kind,
         RequestStep(q, q2, p, M, M2, R, R2, r, kind)
  PROVE  /\ RouteInv(q2, p, M2, R2)
         /\ SeenBut(q, q2, {r}) /\ RmKept(q, q2) /\ Only(q2, r, kind)
<1>a. p \in Nat /\ Len(q) \in Nat /\ p <= Len(q) /\ kind \in {"sub", "ctrl"}
  BY DEF RequestStep
<1>b. Put(q, q2, r, kind) /\ Entered(M, M2, r, kind) /\ Pended(R, R2, kind, r) /\ RouteInv(q, p, M, R)
  BY DEF RequestStep
<1> USE <1>a, <1>b DEF Put, Entered, Pended, SeenBut, RmKept, Only
<1>1. PICK l \in Nat : l = Len(q)
  OBVIOUS
<1>2. /\ Len(q2) = l + 1 /\ \A n \in 1..l : q2[n] = q[n]
      /\ q2[l + 1].kind = kind /\ q2[l + 1].id = r /\ q2[l + 1].pc = "start"
  BY <1>1
<1>3. \A n \in 1..(l + 1) : n \in 1..l \/ n = l + 1
  OBVIOUS
<1>4. \A n \in 1..l : q[n].id # r /\ n \in 1..(l + 1)
  BY <1>1
<1>5. FirstOK(q2)
  <2> SUFFICES ASSUME NEW n \in 1..(l + 1), NEW k \in 1..(l + 1), q2[n].kind \in {"sub", "ctrl"},
                      q2[k].kind # "ind", q2[k].id = q2[n].id, k # n
               PROVE  n < k /\ q2[k].kind = "del"
    BY <1>2 DEF FirstOK
  <2>1. n \in 1..l /\ k \in 1..l
    BY <1>2, <1>3, <1>4
  <2> QED
    BY <1>1, <1>2, <2>1 DEF RouteInv, FirstOK
<1>6. DelOne(q2)
  <2> SUFFICES ASSUME NEW n \in 1..(l + 1), NEW k \in 1..(l + 1), q2[n].kind = "del", q2[k].kind = "del",
                      q2[n].pc = "start", q2[k].pc = "start", q2[k].id = q2[n].id
               PROVE  n = k
    BY <1>2 DEF DelOne
  <2>1. n \in 1..l /\ k \in 1..l
    BY <1>2, <1>3
  <2> QED
    BY <1>1, <1>2, <2>1 DEF RouteInv, DelOne
<1>7. PoolOne(q2, p)
  <2>1. \A n \in 1..p : q2[n] = q[n]
    BY <1>1, <1>2
  <2> QED
    BY <2>1 DEF RouteInv, PoolOne
<1>8. RpendOK(q2, R \cup {[kind |-> kind, id |-> r]})
  <2>1. \A e \in R : \E n \in 1..Len(q2) :
          q2[n].kind = e.kind /\ q2[n].id = e.id /\ q2[n].pc = "start"
    BY <1>1, <1>2, <1>4 DEF RouteInv, RpendOK
  <2>2. \E n \in 1..Len(q2) : q2[n].kind = kind /\ q2[n].id = r /\ q2[n].pc = "start"
    <3>1. l + 1 \in 1..(l + 1)
      OBVIOUS
    <3> QED
      BY <1>2, <3>1
  <2>3. ASSUME NEW n \in 1..Len(q2), q2[n].kind # "ind", q2[n].pc = "start"
        PROVE  [kind |-> q2[n].kind, id |-> q2[n].id] \in R \cup {[kind |-> kind, id |-> r]}
    <3>1. CASE n \in 1..l
      <4>1. [kind |-> q[n].kind, id |-> q[n].id] \in R
        BY <1>1, <1>2, <2>3, <3>1 DEF RouteInv, RpendOK
      <4> QED
        BY <1>2, <3>1, <4>1
    <3>2. CASE n = l + 1
      BY <1>2, <3>2
    <3> QED
      BY <1>2, <1>3, <3>1, <3>2
  <2> QED
    BY <2>1, <2>2, <2>3 DEF RpendOK
<1>9. KindsOK(q2, M2)
  <2> SUFFICES ASSUME NEW n \in 1..(l + 1)
               PROVE  /\ q2[n].kind \in {"sub", "ctrl"} =>
                           q2[n].id \in DOMAIN M2 /\ M2[q2[n].id].type = q2[n].kind
                      /\ q2[n].pc = "rm" => q2[n].id \in DOMAIN M2
                      /\ q2[n].kind = "del" /\ q2[n].id \in DOMAIN M2 => M2[q2[n].id].type = "sub"
    BY <1>2 DEF KindsOK
  <2>1. CASE n \in 1..l
    <3>1. /\ q[n].kind \in {"sub", "ctrl"} => q[n].id \in DOMAIN M /\ M[q[n].id].type = q[n].kind
          /\ q[n].pc = "rm" => q[n].id \in DOMAIN M
          /\ q[n].kind = "del" /\ q[n].id \in DOMAIN M => M[q[n].id].type = "sub"
      BY <1>1, <2>1 DEF RouteInv, KindsOK
    <3>2. q2[n] = q[n] /\ q[n].id # r
      BY <1>2, <1>4, <2>1
    <3> QED
      BY <3>1, <3>2
  <2>2. CASE n = l + 1
    BY <1>2, <2>2
  <2> QED
    BY <1>3, <2>1, <2>2
<1>10. ASSUME NEW i, i # r
       PROVE  /\ Clear(q, i) => Clear(q2, i)
              /\ Single(q, i) => Single(q2, i)
              /\ \A c \in Kinds : Busy(q2, c, i) => Busy(q, c, i)
  <2>1. \A n \in 1..Len(q2) : q2[n].id = i => n \in 1..Len(q) /\ q2[n] = q[n]
    BY <1>1, <1>2, <1>3, <1>10
  <2> QED
    BY <2>1 DEF Clear, Single, Busy
<1>11. \A i : Rm(q, i) => Rm(q2, i)
  BY <1>1, <1>2, <1>4 DEF Rm
<1>12. \A n \in 1..Len(q2) : q2[n].id = r => n = l + 1
  BY <1>1, <1>2, <1>3, <1>4
<1>13. Single(q2, r)
  BY <1>12 DEF Single
<1>14. \A c \in Kinds : Busy(q2, c, r) => c = kind
  BY <1>2, <1>12 DEF Busy
<1> QED
  BY <1>5, <1>6, <1>7, <1>8, <1>9, <1>10, <1>11, <1>13, <1>14 DEF RouteInv

\* Each of the numbers is sent once.
LEMMA DeletesEach ==
  ASSUME NEW ids, TypeOK, ids \subseteq DOMAIN map, Numbers, SendDeletes(ids)
  PROVE  /\ \A n \in (Len(toAg) + 1)..Len(toAg') :
              toAg'[n].kind = "del" /\ toAg'[n].id \in ids
         /\ \A n, k \in (Len(toAg) + 1)..Len(toAg') : toAg'[n].id = toAg'[k].id => n = k
         /\ \A i \in ids : \E n \in (Len(toAg) + 1)..Len(toAg') : toAg'[n].id = i
<1>1. toAg \in Seq(Msg) /\ DOMAIN map \subseteq ReqIds /\ req \in Nat /\ Len(toAg) \in Nat
  BY DEF TypeOK, ReqIds
<1>2. IsFiniteSet(ids) /\ Cardinality(ids) \in Nat
  <2>1. ids \in SUBSET Nat /\ \A i \in ids : i <= req
    BY <1>1 DEF Numbers, ReqIds
  <2>2. IsFiniteSet(ids)
    BY <1>1, <2>1, FS_BoundedSetOfNaturals
  <2> QED
    BY <2>2, FS_CardinalityType
<1>3. PICK l, c \in Nat : l = Len(toAg) /\ c = Cardinality(ids)
  BY <1>1, <1>2
<1>4. PICK s \in [1..c -> ids] :
        /\ \A a, b \in 1..c : a < b => s[a] < s[b]
        /\ toAg' = toAg \o [n \in 1..c |-> [kind |-> "del", id |-> s[n]]]
  BY <1>3 DEF SendDeletes
<1>5. \A i \in ids : i \in Nat
  BY <1>1 DEF ReqIds
<1>6. \A a, b \in 1..c : s[a] = s[b] => a = b
  <2> SUFFICES ASSUME NEW a \in 1..c, NEW b \in 1..c, s[a] = s[b]
               PROVE  a = b
    OBVIOUS
  <2>1. s[a] \in Nat /\ s[b] \in Nat
    BY <1>5
  <2>2. ~(s[a] < s[b]) /\ ~(s[b] < s[a])
    BY <2>1
  <2>3. ~(a < b) /\ ~(b < a)
    BY <1>4, <2>2
  <2> QED
    BY <2>3
<1>7. \A i \in ids : \E a \in 1..c : s[a] = i
  <2>1. s \in Injection(1..c, ids)
    BY <1>6 DEF Injection, IsInjective
  <2>2. Cardinality(1..c) = c
    BY FS_Interval
  <2>3. s \in Surjection(1..c, ids)
    BY <1>2, <1>3, <2>1, <2>2, FS_Injection
  <2> QED
    BY <2>3 DEF Surjection
<1> DEFINE d == [n \in 1..c |-> [kind |-> "del", id |-> s[n]]]
<1>8. d \in Seq(Msg) /\ Len(d) = c /\ \A n \in 1..c : d[n].kind = "del" /\ d[n].id = s[n]
  <2>1. \A n \in 1..c : s[n] \in ReqIds
    BY <1>1
  <2>2. \A n \in 1..c : [kind |-> "del", id |-> s[n]] \in Msg
    BY <2>1 DEF Msg, Kinds
  <2> QED
    BY <2>2
<1>9. toAg' = toAg \o d
  BY <1>4
<1> HIDE DEF d
<1>10. PICK t : t = toAg'
  OBVIOUS
<1>11. /\ Len(t) = l + c
       /\ \A i \in 1..(l + c) : t[i] = IF i <= l THEN toAg[i] ELSE d[i - l]
  <2>1. t = toAg \o d
    BY <1>9, <1>10
  <2>2. /\ Len(toAg \o d) = Len(toAg) + Len(d)
        /\ \A i \in 1..(Len(toAg) + Len(d)) :
             (toAg \o d)[i] = IF i <= Len(toAg) THEN toAg[i] ELSE d[i - Len(toAg)]
    BY <1>1, <1>8, ConcatProperties
  <2>3. Len(toAg) = l /\ Len(d) = c
    BY <1>3, <1>8
  <2> HIDE DEF d
  <2> QED
    BY <2>1, <2>2, <2>3
<1>12. ASSUME NEW n \in (l + 1)..(l + c)
       PROVE  n - l \in 1..c /\ t[n].kind = "del" /\ t[n].id = s[n - l]
  <2>1. n - l \in 1..c /\ n \in 1..(l + c) /\ ~(n <= l)
    OBVIOUS
  <2>2. t[n] = d[n - l]
    BY <1>11, <2>1
  <2> QED
    BY <1>8, <2>1, <2>2
<1>13. \A n \in (l + 1)..(l + c) : t[n].kind = "del" /\ t[n].id \in ids
  BY <1>12
<1>14. ASSUME NEW n \in (l + 1)..(l + c), NEW k \in (l + 1)..(l + c), t[n].id = t[k].id
       PROVE  n = k
  <2>1. n - l \in 1..c /\ k - l \in 1..c /\ s[n - l] = s[k - l]
    BY <1>12, <1>14
  <2>2. n - l = k - l
    BY <1>6, <2>1
  <2> QED
    BY <2>2
<1>15. ASSUME NEW i \in ids
       PROVE  \E n \in (l + 1)..(l + c) : t[n].id = i
  <2>1. PICK a \in 1..c : s[a] = i
    BY <1>7
  <2>2. l + a \in (l + 1)..(l + c) /\ (l + a) - l = a
    OBVIOUS
  <2>3. t[l + a].id = s[(l + a) - l]
    BY <1>12, <2>2
  <2> QED
    BY <2>1, <2>2, <2>3
<1>16. Len(toAg') = l + c
  BY <1>10, <1>11
<1> QED
  BY <1>3, <1>10, <1>13, <1>14, <1>15, <1>16

\* q2 is q with one deletion of each of the numbers at the end.
PutDeletes(q, q2, ids) ==
  /\ Len(q) <= Len(q2)
  /\ \A n \in 1..Len(q) : q2[n] = q[n]
  /\ \A n \in (Len(q) + 1)..Len(q2) :
       q2[n].kind = "del" /\ q2[n].pc = "start" /\ q2[n].id \in ids
  /\ \A n, k \in (Len(q) + 1)..Len(q2) : q2[n].id = q2[k].id => n = k
  /\ \A i \in ids : \E n \in (Len(q) + 1)..Len(q2) : q2[n].id = i

\* The numbers whose deletion is not pending.
Fresh(ids, R) == {i \in ids : [kind |-> "del", id |-> i] \notin R}

\* R2 is R with the pending events of deletions.
PendedAll(R, R2, ids) == R2 = R \cup {[kind |-> "del", id |-> i] : i \in ids}

\* All of the numbers are subscriptions.
Subscribed(M, ids) == \A i \in ids : i \in DOMAIN M /\ M[i].type = "sub"

\* The step of the iApp.
DeleteStep(q, q2, p, M, R, R2, ids, fresh) ==
  /\ p \in Nat /\ Len(q) \in Nat /\ p <= Len(q) /\ Len(q2) \in Nat
  /\ fresh = Fresh(ids, R) /\ Subscribed(M, ids)
  /\ PutDeletes(q, q2, fresh) /\ PendedAll(R, R2, fresh)
  /\ RouteInv(q, p, M, R)

\* Deletions of numbers in the map are put at the end.
LEMMA DeletedOK ==
  ASSUME NEW q, NEW q2, NEW p, NEW M, NEW R, NEW R2, NEW ids, NEW fresh,
         DeleteStep(q, q2, p, M, R, R2, ids, fresh)
  PROVE  /\ RouteInv(q2, p, M, R2)
         /\ SeenBut(q, q2, ids) /\ RmKept(q, q2)
         /\ \A i : Clear(q, i) => Only(q2, i, "del")
<1>a. fresh \subseteq ids /\ \A i \in fresh : [kind |-> "del", id |-> i] \notin R
  BY DEF DeleteStep, Fresh
<1>b. R2 = R \cup {[kind |-> "del", id |-> i] : i \in fresh}
  BY DEF DeleteStep, PendedAll
<1>c. p \in Nat /\ Len(q) \in Nat /\ p <= Len(q) /\ Len(q2) \in Nat
  BY DEF DeleteStep
<1>d. fresh = Fresh(ids, R) /\ Subscribed(M, ids) /\ PutDeletes(q, q2, fresh) /\ RouteInv(q, p, M, R)
  BY DEF DeleteStep
<1> USE <1>c, <1>d DEF PutDeletes, Subscribed, SeenBut, RmKept, Only
<1>1. PICK l, h \in Nat : l = Len(q) /\ h = Len(q2) /\ l <= h
  OBVIOUS
<1>2. /\ \A n \in 1..l : q2[n] = q[n] /\ n \in 1..h
      /\ \A n \in (l + 1)..h : q2[n].kind = "del" /\ q2[n].pc = "start" /\ q2[n].id \in fresh
      /\ \A n, k \in (l + 1)..h : q2[n].id = q2[k].id => n = k
      /\ \A i \in fresh : \E n \in (l + 1)..h : q2[n].id = i
  BY <1>1
<1>3. \A n \in 1..h : n \in 1..l \/ n \in (l + 1)..h
  BY <1>1
<1>4. \A n \in (l + 1)..h : n \in 1..h
  BY <1>1
<1>5. FirstOK(q2)
  <2> SUFFICES ASSUME NEW n \in 1..h, NEW k \in 1..h, q2[n].kind \in {"sub", "ctrl"},
                      q2[k].kind # "ind", q2[k].id = q2[n].id, k # n
               PROVE  n < k /\ q2[k].kind = "del"
    BY <1>1 DEF FirstOK
  <2>1. n \in 1..l
    BY <1>2, <1>3
  <2>2. CASE k \in 1..l
    BY <1>1, <1>2, <2>1, <2>2 DEF RouteInv, FirstOK
  <2>3. CASE k \in (l + 1)..h
    <3>1. n < k
      BY <2>1, <2>3
    <3> QED
      BY <1>2, <2>3, <3>1
  <2> QED
    BY <1>3, <2>2, <2>3
<1>6. ASSUME NEW n \in 1..l, NEW k \in (l + 1)..h, q[n].kind = "del", q[n].pc = "start"
      PROVE  q[n].id # q2[k].id
  <2>1. [kind |-> q[n].kind, id |-> q[n].id] \in R
    BY <1>1, <1>6 DEF RouteInv, RpendOK
  <2>2. q2[k].id \in fresh
    BY <1>2
  <2> QED
    BY <1>a, <1>6, <2>1, <2>2
<1>7. DelOne(q2)
  <2> SUFFICES ASSUME NEW n \in 1..h, NEW k \in 1..h, q2[n].kind = "del", q2[k].kind = "del",
                      q2[n].pc = "start", q2[k].pc = "start", q2[k].id = q2[n].id
               PROVE  n = k
    BY <1>1 DEF DelOne
  <2>1. CASE n \in 1..l /\ k \in 1..l
    BY <1>1, <1>2, <2>1 DEF RouteInv, DelOne
  <2>2. CASE n \in (l + 1)..h /\ k \in (l + 1)..h
    BY <1>2, <2>2
  <2>3. CASE n \in 1..l /\ k \in (l + 1)..h
    BY <1>2, <1>6, <2>3
  <2>4. CASE k \in 1..l /\ n \in (l + 1)..h
    BY <1>2, <1>6, <2>4
  <2> QED
    BY <1>3, <2>1, <2>2, <2>3, <2>4
<1>8. PoolOne(q2, p)
  <2>1. \A n \in 1..p : q2[n] = q[n]
    BY <1>1, <1>2
  <2> QED
    BY <2>1 DEF RouteInv, PoolOne
<1>9. RpendOK(q2, R2)
  <2>1. \A e \in R : \E n \in 1..h : q2[n].kind = e.kind /\ q2[n].id = e.id /\ q2[n].pc = "start"
    BY <1>1, <1>2 DEF RouteInv, RpendOK
  <2>2. ASSUME NEW i \in fresh
        PROVE  \E n \in 1..h : q2[n].kind = "del" /\ q2[n].id = i /\ q2[n].pc = "start"
    BY <1>2, <1>4
  <2>3. ASSUME NEW e \in R2
        PROVE  \E n \in 1..h : q2[n].kind = e.kind /\ q2[n].id = e.id /\ q2[n].pc = "start"
    <3>1. CASE e \in R
      BY <2>1, <3>1
    <3>2. CASE e \in {[kind |-> "del", id |-> i] : i \in fresh}
      <4>1. PICK i \in fresh : e = [kind |-> "del", id |-> i]
        BY <3>2
      <4> QED
        BY <2>2, <4>1
    <3> QED
      BY <1>b, <3>1, <3>2
  <2>4. ASSUME NEW n \in 1..h, q2[n].kind # "ind", q2[n].pc = "start"
        PROVE  [kind |-> q2[n].kind, id |-> q2[n].id] \in R2
    <3>1. CASE n \in 1..l
      <4>1. [kind |-> q[n].kind, id |-> q[n].id] \in R
        BY <1>1, <1>2, <2>4, <3>1 DEF RouteInv, RpendOK
      <4> QED
        BY <1>b, <1>2, <3>1, <4>1
    <3>2. CASE n \in (l + 1)..h
      <4>1. q2[n].kind = "del" /\ q2[n].id \in fresh
        BY <1>2, <3>2
      <4> QED
        BY <1>b, <4>1
    <3> QED
      BY <1>3, <3>1, <3>2
  <2> QED
    BY <1>1, <2>3, <2>4 DEF RpendOK
<1>10. KindsOK(q2, M)
  <2> SUFFICES ASSUME NEW n \in 1..h
               PROVE  /\ q2[n].kind \in {"sub", "ctrl"} =>
                           q2[n].id \in DOMAIN M /\ M[q2[n].id].type = q2[n].kind
                      /\ q2[n].pc = "rm" => q2[n].id \in DOMAIN M
                      /\ q2[n].kind = "del" /\ q2[n].id \in DOMAIN M => M[q2[n].id].type = "sub"
    BY <1>1 DEF KindsOK
  <2>1. CASE n \in 1..l
    BY <1>1, <1>2, <2>1 DEF RouteInv, KindsOK
  <2>2. CASE n \in (l + 1)..h
    BY <1>a, <1>2, <2>2
  <2> QED
    BY <1>3, <2>1, <2>2
<1>11. ASSUME NEW i, i \notin ids
       PROVE  /\ Clear(q, i) => Clear(q2, i)
              /\ Single(q, i) => Single(q2, i)
              /\ \A c \in Kinds : Busy(q2, c, i) => Busy(q, c, i)
  <2>1. ASSUME NEW n \in 1..h, q2[n].id = i
        PROVE  n \in 1..l /\ q2[n] = q[n]
    <3>1. n \notin (l + 1)..h
      <4>1. \A k \in (l + 1)..h : q2[k].id \in ids
        BY <1>a, <1>2
      <4> QED
        BY <1>11, <2>1, <4>1
    <3> QED
      BY <1>2, <1>3, <3>1
  <2>2. Len(q) = l /\ Len(q2) = h
    BY <1>1
  <2>3. Clear(q, i) => Clear(q2, i)
    BY <2>1, <2>2 DEF Clear
  <2>4. Single(q, i) => Single(q2, i)
    BY <2>1, <2>2 DEF Single
  <2>5. \A c \in Kinds : Busy(q2, c, i) => Busy(q, c, i)
    BY <2>1, <2>2 DEF Busy
  <2> QED
    BY <2>3, <2>4, <2>5
<1>12. \A i : Rm(q, i) => Rm(q2, i)
  BY <1>1, <1>2 DEF Rm
<1>13. ASSUME NEW i, Clear(q, i)
       PROVE  Single(q2, i) /\ \A c \in Kinds : Busy(q2, c, i) => c = "del"
  <2>1. ASSUME NEW n \in 1..h, q2[n].kind # "ind", q2[n].id = i
        PROVE  n \in (l + 1)..h /\ q2[n].kind = "del"
    BY <1>1, <1>2, <1>3, <1>13, <2>1 DEF Clear
  <2>2. Single(q2, i)
    BY <1>1, <1>2, <2>1 DEF Single
  <2>3. ASSUME NEW c \in Kinds, Busy(q2, c, i)
        PROVE  c = "del"
    <3>1. PICK n \in 1..h : q2[n].kind = c /\ q2[n].id = i
      BY <1>1, <2>3 DEF Busy
    <3> QED
      BY <2>1, <3>1 DEF Kinds
  <2> QED
    BY <2>2, <2>3
<1> QED
  BY <1>5, <1>7, <1>8, <1>9, <1>10, <1>11, <1>12, <1>13 DEF RouteInv

\* The message behind the pool may be taken.
TakeStep(q, p, M, R) ==
  /\ p \in Nat
  /\ p + 1 <= Len(q)
  /\ Len(q) \in Nat
  /\ \A n \in 1..Len(q) : q[n].kind \in Kinds \cup {"ind"}
  /\ q[p + 1].kind = "del" =>
                \A n \in 1..p : ~(q[n].kind # "ind" /\ q[n].id = q[p + 1].id)
  /\ RouteInv(q, p, M, R)

\* A message goes to the pool, where nothing else is about its number.
LEMMA TakenOK ==
  ASSUME NEW q, NEW p, NEW M, NEW R,
         TakeStep(q, p, M, R)
  PROVE  RouteInv(q, p + 1, M, R)
<1>a. /\ p \in Nat
      /\ p + 1 <= Len(q)
      /\ Len(q) \in Nat
      /\ \A n \in 1..Len(q) : q[n].kind \in Kinds \cup {"ind"}
      /\ q[p + 1].kind = "del" =>
                \A n \in 1..p : ~(q[n].kind # "ind" /\ q[n].id = q[p + 1].id)
      /\ RouteInv(q, p, M, R)
  BY DEF TakeStep
<1> USE <1>a
<1>1. p + 1 \in 1..Len(q) /\ \A n \in 1..p : n \in 1..Len(q) /\ n < p + 1
  OBVIOUS
<1>2. ASSUME NEW n \in 1..p, q[n].kind # "ind", q[p + 1].kind # "ind", q[n].id = q[p + 1].id
      PROVE  FALSE
  <2>1. CASE q[p + 1].kind = "del"
    BY <1>2, <2>1
  <2>2. CASE q[p + 1].kind \in {"sub", "ctrl"}
    <3>1. p + 1 < n
      BY <1>1, <1>2, <2>2 DEF RouteInv, FirstOK
    <3> QED
      BY <3>1
  <2> QED
    BY <1>1, <1>2, <2>1, <2>2 DEF Kinds
<1>3. PoolOne(q, p + 1)
  <2> SUFFICES ASSUME NEW n \in 1..(p + 1), NEW k \in 1..(p + 1), q[n].kind # "ind", q[k].kind # "ind",
                      q[k].id = q[n].id
               PROVE  n = k
    BY DEF PoolOne
  <2>1. (n \in 1..p \/ n = p + 1) /\ (k \in 1..p \/ k = p + 1)
    OBVIOUS
  <2>2. CASE n \in 1..p /\ k \in 1..p
    BY <2>2 DEF RouteInv, PoolOne
  <2> QED
    BY <1>2, <2>1, <2>2
<1> QED
  BY <1>3 DEF RouteInv

\* q2 is q without the j-th task, and M2 is M without its number.
ForgetStep(q, q2, p, p2, j, M, M2, R) ==
  /\ p \in Nat
  /\ j \in 1..p
  /\ p <= Len(q)
  /\ Len(q) \in Nat
  /\ \A n \in 1..Len(q) : q[n].pc = "rm" => n <= p /\ q[n].kind # "ind"
  /\ q[j].kind # "ind"
  /\ q[j].pc = "rm"
  /\ Without(q, q2, j)
  /\ RouteInv(q, p, M, R)
  /\ RouteInv(q2, p2, M, R)
  /\ DOMAIN M2 = DOMAIN M \ {q[j].id}
  /\ \A i \in DOMAIN M2 : M2[i] = M[i]

\* The map forgets number r, about which the pool has had the answer j.
LEMMA ForgottenOK ==
  ASSUME NEW q, NEW q2, NEW p, NEW p2, NEW j, NEW M, NEW M2, NEW R,
         ForgetStep(q, q2, p, p2, j, M, M2, R)
  PROVE  RouteInv(q2, p2, M2, R)
<1>a. /\ p \in Nat
      /\ j \in 1..p
      /\ p <= Len(q)
      /\ Len(q) \in Nat
      /\ \A n \in 1..Len(q) : q[n].pc = "rm" => n <= p /\ q[n].kind # "ind"
      /\ q[j].kind # "ind"
      /\ q[j].pc = "rm"
      /\ Without(q, q2, j)
      /\ RouteInv(q, p, M, R)
      /\ RouteInv(q2, p2, M, R)
      /\ DOMAIN M2 = DOMAIN M \ {q[j].id}
      /\ \A i \in DOMAIN M2 : M2[i] = M[i]
  BY DEF ForgetStep
<1> USE <1>a
<1>1. PICK l \in Nat : l = Len(q)
  OBVIOUS
<1>2. Len(q2) = l - 1 /\ \A n \in 1..(l - 1) : q2[n] = IF n < j THEN q[n] ELSE q[n + 1]
  BY <1>1 DEF Without
<1>3. j \in 1..l
  BY <1>1
<1>4. ASSUME NEW k \in 1..l, k # j, q[k].id = q[j].id
      PROVE  q[k].kind \notin {"sub", "ctrl"} /\ (q[k].kind # "ind" => ~(k <= p))
  <2>1. q[k].kind # "ind" => ~(k <= p)
    BY <1>1, <1>4 DEF RouteInv, PoolOne
  <2>2. q[k].kind \in {"sub", "ctrl"} => k < j
    BY <1>1, <1>3, <1>4 DEF RouteInv, FirstOK
  <2> QED
    BY <2>1, <2>2
<1>5. KindsOK(q2, M2)
  <2> SUFFICES ASSUME NEW n \in 1..(l - 1)
               PROVE  /\ q2[n].kind \in {"sub", "ctrl"} =>
                           q2[n].id \in DOMAIN M2 /\ M2[q2[n].id].type = q2[n].kind
                      /\ q2[n].pc = "rm" => q2[n].id \in DOMAIN M2
                      /\ q2[n].kind = "del" /\ q2[n].id \in DOMAIN M2 => M2[q2[n].id].type = "sub"
    BY <1>2 DEF KindsOK
  <2>1. PICK k \in 1..l : q2[n] = q[k] /\ k # j
    <3>1. CASE n < j
      <4>1. n \in 1..l /\ n # j
        BY <3>1
      <4> QED
        BY <1>2, <3>1, <4>1
    <3>2. CASE ~(n < j)
      <4>1. n + 1 \in 1..l /\ n + 1 # j
        BY <1>3, <3>2
      <4> QED
        BY <1>2, <3>2, <4>1
    <3> QED
      BY <3>1, <3>2
  <2>2. /\ q2[n].kind \in {"sub", "ctrl"} => q2[n].id \in DOMAIN M /\ M[q2[n].id].type = q2[n].kind
        /\ q2[n].pc = "rm" => q2[n].id \in DOMAIN M
        /\ q2[n].kind = "del" /\ q2[n].id \in DOMAIN M => M[q2[n].id].type = "sub"
    BY <1>2 DEF RouteInv, KindsOK
  <2>3. CASE q2[n].id # q[j].id
    BY <2>2, <2>3
  <2>4. CASE q2[n].id = q[j].id
    <3>1. q2[n].kind \notin {"sub", "ctrl"}
      BY <1>4, <2>1, <2>4
    <3>2. q2[n].pc # "rm"
      BY <1>1, <1>4, <2>1, <2>4
    <3> QED
      BY <2>4, <3>1, <3>2
  <2> QED
    BY <2>3, <2>4
<1> QED
  BY <1>5 DEF RouteInv

-----------------------------------------------------------------------------
(***************************************************************************)
(* What an xApp knows, as a record v: its variables, with what is on the   *)
(* way to it reduced to the answers.                                       *)
(***************************************************************************)
Answers(s) == {s[n] : n \in {k \in 1..Len(s) : s[k].kind # "ind"}}

Lone(s) == \A n, k \in 1..Len(s) : s[n].kind # "ind" /\ s[k].kind # "ind" => n = k

View(x) ==
  [up |-> up[x], c |-> ui[x], flag |-> flag[x], act |-> act[x], nextk |-> nextk[x],
   pend |-> xpend[x], out |-> x2i[x], ans |-> Answers(i2x[x]), lone |-> Lone(i2x[x]),
   any |-> i2x[x] # << >>, bo |-> x \in bounced]

InCall(v) == v.c.pc # "idle"
Flagged(v) == v.c.pc = "wait" /\ v.flag

\* Its user's thread is in this call and has not been told.
Waiting(v, kind, k) == InCall(v) /\ v.c.kind = kind /\ v.c.k = k /\ ~Flagged(v)

Owned(M, x, i) == i \in DOMAIN M /\ M[i].x = x

\* A subscription that is complete.
Held(M, q, x, k) ==
  \E i \in DOMAIN M : M[i].x = x /\ M[i].k = k /\ M[i].type = "sub" /\ Clear(q, i)

\* A request on its way to the iApp.
XQueue(x, v, q, M) ==
  v.out # << >> =>
    /\ Len(v.out) = 1
    /\ v.out[1].k < v.nextk
    /\ v.out[1].kind # "del" => \A i : Owned(M, x, i) => M[i].k # v.out[1].k
    /\ v.out[1].kind = "del" => Held(M, q, x, v.out[1].k)
    /\ v.up => Waiting(v, v.out[1].kind, v.out[1].k) /\ v.ans = {}

\* A request or answer under way beyond the iApp.
XBusy(x, v, q, M) ==
  v.up => \A i : Owned(M, x, i) =>
    /\ Single(q, i)
    /\ \A kind \in Kinds : Busy(q, kind, i) =>
         Waiting(v, kind, M[i].k) /\ v.ans = {} /\ v.out = << >>
    /\ M[i].k \in v.act \/ Rm(q, i)

\* An answer on its way to the xApp.
XAnswer(v) ==
  /\ v.lone
  /\ \A m \in v.ans : v.up /\ Waiting(v, m.kind, m.k) /\ v.out = << >>

\* The call has been answered: a subscription is complete, a number that was
\* deleted or used for a control request is forgotten or about to be.
XDone(x, v, q, M) ==
  v.up /\ InCall(v) /\ (Flagged(v) \/ v.ans # {}) =>
    IF v.c.kind = "sub" THEN Held(M, q, x, v.c.k)
    ELSE \A i : Owned(M, x, i) /\ M[i].k = v.c.k => Rm(q, i)

\* The procedures registered are the present call and complete subscriptions.
XAct(x, v, q, M) ==
  v.up => \A k \in v.act : (InCall(v) /\ v.c.k = k) \/ Held(M, q, x, k)

\* Local numbers are not used again.
XOwn(x, v, M) ==
  /\ \A i : Owned(M, x, i) => M[i].k < v.nextk
  /\ \A i, j : Owned(M, x, i) /\ Owned(M, x, j) /\ M[i].k = M[j].k => i = j

XLocal(v) ==
  /\ InCall(v) => v.up /\ v.c.k \in v.act
  /\ \A k \in v.act : k < v.nextk
  /\ v.any => v.up
  /\ v.bo => ~v.up
  /\ v.pend = IF v.c.pc = "idle" \/ (v.c.pc = "sent" /\ v.c.kind # "sub") \/ Flagged(v)
              THEN {} ELSE {v.c.kind}

XInvOf(x, v, q, M) ==
  /\ XQueue(x, v, q, M) /\ XBusy(x, v, q, M) /\ XAnswer(v) /\ XDone(x, v, q, M)
  /\ XAct(x, v, q, M) /\ XOwn(x, v, M) /\ XLocal(v)

\* Nothing happened to the numbers of x that it would have to know.
Untouched(x, q, M, q2, M2) ==
  /\ \A i : Owned(M2, x, i) =>
       /\ Owned(M, x, i) /\ M2[i] = M[i]
       /\ Rm(q, i) => Rm(q2, i)
       /\ \A kind \in Kinds : Busy(q2, kind, i) => Busy(q, kind, i)
       /\ Single(q, i) => Single(q2, i)
  /\ \A i : Owned(M, x, i) /\ Clear(q, i) => Owned(M2, x, i) /\ M2[i] = M[i] /\ Clear(q2, i)

\* Nothing happened to x either, but for indications and a notification about
\* an xApp that has ended.
Alike(v, v2) ==
  /\ v2.up = v.up /\ v2.c = v.c /\ v2.flag = v.flag /\ v2.act = v.act
  /\ v2.nextk = v.nextk /\ v2.pend = v.pend /\ v2.out = v.out /\ v2.ans = v.ans
  /\ v.lone => v2.lone
  /\ v2.any => v.any \/ v.up
  /\ v2.bo => v.bo \/ ~v.up

\* A complete subscription stays one.
LEMMA HeldKept ==
  ASSUME NEW x, NEW q, NEW M, NEW q2, NEW M2, NEW k, Untouched(x, q, M, q2, M2),
         Held(M, q, x, k)
  PROVE  Held(M2, q2, x, k)
<1>1. PICK i \in DOMAIN M : M[i].x = x /\ M[i].k = k /\ M[i].type = "sub" /\ Clear(q, i)
  BY DEF Held
<1>2. Owned(M2, x, i) /\ M2[i] = M[i] /\ Clear(q2, i)
  BY <1>1 DEF Untouched, Owned
<1> QED
  BY <1>1, <1>2 DEF Held, Owned

\* Then the invariant of x is kept.
LEMMA Frame ==
  ASSUME NEW x, NEW v, NEW v2, NEW q, NEW M, NEW q2, NEW M2,
         Untouched(x, q, M, q2, M2), Alike(v, v2), XInvOf(x, v, q, M)
  PROVE  XInvOf(x, v2, q2, M2)
<1>1. \A k : Held(M, q, x, k) => Held(M2, q2, x, k)
  BY HeldKept
<1>2. /\ InCall(v2) = InCall(v) /\ Flagged(v2) = Flagged(v)
      /\ \A kind, k : Waiting(v2, kind, k) = Waiting(v, kind, k)
  BY DEF Alike, InCall, Flagged, Waiting
<1>3. XQueue(x, v2, q2, M2)
  BY <1>1, <1>2 DEF XInvOf, XQueue, Alike, Untouched
<1>4. XBusy(x, v2, q2, M2)
  BY <1>2 DEF XInvOf, XBusy, Alike, Untouched
<1>5. XAnswer(v2)
  BY <1>2 DEF XInvOf, XAnswer, Alike
<1>6. XDone(x, v2, q2, M2)
  BY <1>1, <1>2 DEF XInvOf, XDone, Alike, Untouched
<1>7. XAct(x, v2, q2, M2)
  BY <1>1, <1>2 DEF XInvOf, XAct, Alike
<1>8. XOwn(x, v2, M2)
  BY DEF XInvOf, XOwn, Alike, Untouched
<1>9. XLocal(v2)
  BY <1>2 DEF XInvOf, XLocal, Alike
<1> QED
  BY <1>3, <1>4, <1>5, <1>6, <1>7, <1>8, <1>9 DEF XInvOf

\* While the user's thread is not in a call nothing is under way.
LEMMA IdleClear ==
  ASSUME NEW x, NEW v, NEW q, NEW M, XInvOf(x, v, q, M), v.up, ~InCall(v) \/ Flagged(v)
  PROVE  /\ v.out = << >> /\ v.ans = {}
         /\ \A i : Owned(M, x, i) => \A kind \in Kinds : ~Busy(q, kind, i)
<1>1. \A kind, k : ~Waiting(v, kind, k)
  BY DEF Waiting
<1> QED
  BY <1>1 DEF XInvOf, XQueue, XBusy, XAnswer

\* A new procedure: report_sm_sync_xapp, control_sm_sync_xapp.
LEMMA NewCall ==
  ASSUME NEW x, NEW v, NEW v2, NEW q, NEW M, NEW kind \in {"sub", "ctrl"},
         XInvOf(x, v, q, M), v.up, ~InCall(v), v.nextk \in Nat, v.act \subseteq Nat,
         \A i : Owned(M, x, i) => M[i].k \in Nat,
         v2.c = [pc |-> "sent", kind |-> kind, k |-> v.nextk],
         v2.out = <<[kind |-> kind, k |-> v.nextk]>>, v2.act = v.act \cup {v.nextk},
         v2.nextk = v.nextk + 1,
         v2.pend = v.pend \cup (IF kind = "sub" THEN {"sub"} ELSE {}), v2.up = v.up,
         v2.ans = v.ans, v2.lone = v.lone, v2.any = v.any, v2.bo = v.bo
  PROVE  XInvOf(x, v2, q, M)
<1>1. /\ v.ans = {}
      /\ \A i : Owned(M, x, i) => \A c \in Kinds : ~Busy(q, c, i)
  BY IdleClear
<1>2. v2.c.pc = "sent" /\ v2.c.kind = kind /\ v2.c.k = v.nextk
  OBVIOUS
<1>3. InCall(v2) /\ ~Flagged(v2) /\ Waiting(v2, kind, v.nextk)
  BY <1>2 DEF InCall, Flagged, Waiting
<1>4. \A i : Owned(M, x, i) => M[i].k < v.nextk /\ M[i].k < v.nextk + 1 /\ M[i].k # v.nextk
  BY DEF XInvOf, XOwn
<1>5. XQueue(x, v2, q, M)
  <2>1. Len(v2.out) = 1 /\ v2.out[1].k = v.nextk /\ v2.out[1].kind = kind
    OBVIOUS
  <2>2. v2.out[1].k < v2.nextk
    BY <2>1
  <2> QED
    BY <1>1, <1>3, <1>4, <2>1, <2>2 DEF XQueue
<1>6. XBusy(x, v2, q, M)
  BY <1>1 DEF XInvOf, XBusy
<1>7. XAnswer(v2)
  BY <1>1 DEF XInvOf, XAnswer
<1>8. XDone(x, v2, q, M)
  BY <1>1, <1>3 DEF XDone
<1>9. XAct(x, v2, q, M)
  BY <1>2, <1>3 DEF XInvOf, XAct
<1>10. XOwn(x, v2, M)
  BY <1>4 DEF XInvOf, XOwn
<1>11. XLocal(v2)
  <2>1. \A k \in v.act : k < v.nextk + 1
    BY DEF XInvOf, XLocal
  <2>2. v.nextk < v.nextk + 1
    OBVIOUS
  <2>3. \A k \in v2.act : k < v2.nextk
    BY <2>1, <2>2
  <2>4. v.pend = {}
    BY DEF XInvOf, XLocal, InCall
  <2>5. v2.pend = IF v2.c.pc = "idle" \/ (v2.c.pc = "sent" /\ v2.c.kind # "sub") \/ Flagged(v2)
                  THEN {} ELSE {v2.c.kind}
    BY <1>2, <1>3, <2>4
  <2> QED
    BY <1>2, <2>3, <2>5 DEF XInvOf, XLocal
<1> QED
  BY <1>5, <1>6, <1>7, <1>8, <1>9, <1>10, <1>11 DEF XInvOf

\* rm_report_sm_sync_xapp, for a procedure that is registered.
LEMMA NewDelete ==
  ASSUME NEW x, NEW v, NEW v2, NEW q, NEW M, NEW k \in v.act, XInvOf(x, v, q, M), v.up,
         ~InCall(v), v2.c = [pc |-> "sent", kind |-> "del", k |-> k],
         v2.out = <<[kind |-> "del", k |-> k]>>, v2.act = v.act, v2.nextk = v.nextk,
         v2.pend = v.pend, v2.up = v.up, v2.ans = v.ans, v2.lone = v.lone, v2.any = v.any,
         v2.bo = v.bo
  PROVE  XInvOf(x, v2, q, M)
<1>1. /\ v.ans = {}
      /\ \A i : Owned(M, x, i) => \A c \in Kinds : ~Busy(q, c, i)
  BY IdleClear
<1>2. v2.c.pc = "sent" /\ v2.c.kind = "del" /\ v2.c.k = k
  OBVIOUS
<1>3. InCall(v2) /\ ~Flagged(v2) /\ Waiting(v2, "del", k)
  BY <1>2 DEF InCall, Flagged, Waiting
<1>4. \A n \in v.act : Held(M, q, x, n)
  BY DEF XInvOf, XAct
<1>5. XQueue(x, v2, q, M)
  <2>1. Len(v2.out) = 1 /\ v2.out[1].k = k /\ v2.out[1].kind = "del"
    OBVIOUS
  <2>2. k < v.nextk
    BY DEF XInvOf, XLocal
  <2> QED
    BY <1>1, <1>3, <1>4, <2>1, <2>2 DEF XQueue
<1>6. XBusy(x, v2, q, M)
  BY <1>1 DEF XInvOf, XBusy
<1>7. XAnswer(v2)
  BY <1>1 DEF XInvOf, XAnswer
<1>8. XDone(x, v2, q, M)
  BY <1>1, <1>3 DEF XDone
<1>9. XAct(x, v2, q, M)
  BY <1>4 DEF XAct
<1>10. XOwn(x, v2, M)
  BY DEF XInvOf, XOwn
<1>11. XLocal(v2)
  BY <1>2, <1>3 DEF XInvOf, XLocal, InCall
<1> QED
  BY <1>5, <1>6, <1>7, <1>8, <1>9, <1>10, <1>11 DEF XInvOf

\* add_pending_event_xapp after the request, and the beginning of the wait.
LEMMA CallGoesOn ==
  ASSUME NEW x, NEW v, NEW v2, NEW q, NEW M, XInvOf(x, v, q, M),
         v.c.pc \in {"sent", "pended"}, v2.c.pc \in {"pended", "wait"},
         v2.c.kind = v.c.kind, v2.c.k = v.c.k, ~Flagged(v2),
         v2.pend = {v.c.kind},
         v2.up = v.up, v2.act = v.act, v2.nextk = v.nextk, v2.out = v.out,
         v2.ans = v.ans, v2.lone = v.lone, v2.any = v.any, v2.bo = v.bo
  PROVE  XInvOf(x, v2, q, M)
<1>1. InCall(v) /\ InCall(v2) /\ ~Flagged(v)
  BY DEF InCall, Flagged
<1>2. \A kind, k : Waiting(v2, kind, k) = Waiting(v, kind, k)
  BY <1>1 DEF Waiting
<1>3. XQueue(x, v2, q, M)
  BY <1>2 DEF XInvOf, XQueue
<1>4. XBusy(x, v2, q, M)
  BY <1>2 DEF XInvOf, XBusy
<1>5. XAnswer(v2)
  BY <1>2 DEF XInvOf, XAnswer
<1>6. XDone(x, v2, q, M)
  BY <1>1 DEF XInvOf, XDone
<1>7. XAct(x, v2, q, M)
  BY <1>1 DEF XInvOf, XAct
<1>8. XOwn(x, v2, M)
  BY DEF XInvOf, XOwn
<1>9. XLocal(v2)
  BY <1>1 DEF XInvOf, XLocal
<1> QED
  BY <1>3, <1>4, <1>5, <1>6, <1>7, <1>8, <1>9 DEF XInvOf

\* The wait ends and the call returns.
LEMMA CallReturns ==
  ASSUME NEW x, NEW v, NEW v2, NEW q, NEW M, XInvOf(x, v, q, M),
         v.up, Flagged(v), ~InCall(v2),
         v2.act = IF v.c.kind = "sub" THEN v.act ELSE v.act \ {v.c.k},
         v2.up = v.up, v2.nextk = v.nextk, v2.out = v.out, v2.pend = v.pend,
         v2.ans = v.ans, v2.lone = v.lone, v2.any = v.any, v2.bo = v.bo
  PROVE  XInvOf(x, v2, q, M)
<1>1. /\ v.out = << >> /\ v.ans = {}
      /\ \A i : Owned(M, x, i) => \A c \in Kinds : ~Busy(q, c, i)
  BY IdleClear
<1>2. InCall(v) /\ ~Flagged(v2)
  BY DEF InCall, Flagged
<1>3. XQueue(x, v2, q, M)
  BY <1>1 DEF XQueue
<1>4. XBusy(x, v2, q, M)
  <2> SUFFICES ASSUME NEW i, Owned(M, x, i)
               PROVE  Single(q, i) /\ (M[i].k \in v2.act \/ Rm(q, i))
    BY <1>1 DEF XBusy
  <2>1. Single(q, i) /\ (M[i].k \in v.act \/ Rm(q, i))
    BY DEF XInvOf, XBusy
  <2>2. CASE v.c.kind # "sub" /\ M[i].k = v.c.k
    BY <1>2, <2>1, <2>2 DEF XInvOf, XDone
  <2> QED
    BY <2>1, <2>2
<1>5. XAnswer(v2)
  BY <1>1 DEF XInvOf, XAnswer
<1>6. XDone(x, v2, q, M)
  BY DEF XDone
<1>7. XAct(x, v2, q, M)
  <2> SUFFICES ASSUME NEW k \in v2.act PROVE Held(M, q, x, k)
    BY DEF XAct
  <2>1. k \in v.act /\ (v.c.k = k => v.c.kind = "sub")
    OBVIOUS
  <2>2. v.c.kind = "sub" => Held(M, q, x, v.c.k)
    BY <1>2 DEF XInvOf, XDone
  <2>3. v.c.k = k \/ Held(M, q, x, k)
    BY <2>1 DEF XInvOf, XAct
  <2> QED
    BY <2>1, <2>2, <2>3
<1>8. XOwn(x, v2, M)
  BY DEF XInvOf, XOwn
<1>9. XLocal(v2)
  <2>1. v.pend = {} /\ v2.c.pc = "idle"
    BY DEF XInvOf, XLocal, InCall
  <2>2. \A k \in v2.act : k \in v.act
    OBVIOUS
  <2> QED
    BY <2>1, <2>2 DEF XInvOf, XLocal, InCall
<1> QED
  BY <1>3, <1>4, <1>5, <1>6, <1>7, <1>8, <1>9 DEF XInvOf

\* The xApp ends.
LEMMA Ended ==
  ASSUME NEW x, NEW v, NEW v2, NEW q, NEW M, XInvOf(x, v, q, M),
         v2.up = FALSE, ~InCall(v2), v2.act = {}, v2.pend = {},
         v2.nextk = v.nextk, v2.out \in {v.out, << >>}, v2.ans = {}, v2.lone, v2.any = FALSE
  PROVE  XInvOf(x, v2, q, M)
<1>1. XQueue(x, v2, q, M)
  BY DEF XInvOf, XQueue
<1>2. XOwn(x, v2, M)
  BY DEF XInvOf, XOwn
<1>3. XLocal(v2)
  BY DEF XLocal, InCall
<1> QED
  BY <1>1, <1>2, <1>3 DEF XInvOf, XBusy, XAnswer, XDone, XAct

\* The answer is handled: its procedure and its pending event are there.
LEMMA AnswerHandled ==
  ASSUME NEW x, NEW v, NEW v2, NEW q, NEW M, NEW m \in v.ans, XInvOf(x, v, q, M),
         v.c.pc = "wait", v2.pend = v.pend \ {m.kind}, v2.flag = TRUE, v2.c = v.c,
         v2.ans = {}, v2.lone, v2.any => v.any, v2.up = v.up, v2.act = v.act,
         v2.nextk = v.nextk, v2.out = v.out, v2.bo = v.bo
  PROVE  XInvOf(x, v2, q, M) /\ m.k \in v.act /\ m.kind \in v.pend
<1>1. v.up /\ Waiting(v, m.kind, m.k) /\ v.out = << >>
  BY DEF XInvOf, XAnswer
<1>2. InCall(v) /\ InCall(v2) /\ ~Flagged(v) /\ Flagged(v2) /\ v.c.kind = m.kind /\ v.c.k = m.k
  BY <1>1 DEF Waiting, InCall, Flagged
<1>3. v.pend = {m.kind} /\ m.k \in v.act
  BY <1>2 DEF XInvOf, XLocal
<1>4. XQueue(x, v2, q, M)
  BY <1>1 DEF XQueue
<1>5. XBusy(x, v2, q, M)
  BY <1>1 DEF XInvOf, XBusy
<1>6. XDone(x, v2, q, M)
  BY <1>1, <1>2 DEF XInvOf, XDone
<1>7. XAct(x, v2, q, M)
  BY <1>2 DEF XInvOf, XAct
<1>8. XOwn(x, v2, M)
  BY DEF XInvOf, XOwn
<1>9. XLocal(v2)
  BY <1>2, <1>3 DEF XInvOf, XLocal
<1> QED
  BY <1>3, <1>4, <1>5, <1>6, <1>7, <1>8, <1>9 DEF XInvOf, XAnswer

\* Nothing new about the numbers of x but r: the same as Untouched.
UntouchedBut(x, q, M, q2, M2, r) ==
  /\ \A i : Owned(M2, x, i) /\ i # r =>
       /\ Owned(M, x, i) /\ M2[i] = M[i]
       /\ Rm(q, i) => Rm(q2, i)
       /\ \A kind \in Kinds : Busy(q2, kind, i) => Busy(q, kind, i)
       /\ Single(q, i) => Single(q2, i)
  /\ \A i : Owned(M, x, i) /\ Clear(q, i) /\ i # r =>
       Owned(M2, x, i) /\ M2[i] = M[i] /\ Clear(q2, i)

\* A complete subscription with another number stays one.
LEMMA HeldBut ==
  ASSUME NEW x, NEW q, NEW M, NEW q2, NEW M2, NEW r, NEW k,
         UntouchedBut(x, q, M, q2, M2, r), Held(M, q, x, k),
         Owned(M, x, r) /\ Clear(q, r) => M[r].k # k
  PROVE  Held(M2, q2, x, k)
<1>1. PICK i \in DOMAIN M : M[i].x = x /\ M[i].k = k /\ M[i].type = "sub" /\ Clear(q, i)
  BY DEF Held
<1>2. Owned(M, x, i) /\ i # r
  BY <1>1 DEF Owned
<1>3. Owned(M2, x, i) /\ M2[i] = M[i] /\ Clear(q2, i)
  BY <1>1, <1>2 DEF UntouchedBut
<1> QED
  BY <1>1, <1>3 DEF Held, Owned

\* v2 is v when the iApp has taken the request.
Taken(v, v2) ==
  /\ v2.up = v.up /\ v2.c = v.c /\ v2.flag = v.flag /\ v2.act = v.act
  /\ v2.nextk = v.nextk /\ v2.pend = v.pend /\ v2.out = << >> /\ v2.ans = v.ans
  /\ v2.lone = v.lone /\ v2.any = v.any /\ v2.bo = v.bo

\* The iApp gives the request number r to the request of x.
LEMMA RequestTaken ==
  ASSUME NEW x, NEW v, NEW v2, NEW q, NEW M, NEW q2, NEW M2, NEW r, XInvOf(x, v, q, M),
         v.out # << >>, v.out[1].kind \in {"sub", "ctrl"}, Taken(v, v2),
         r \notin DOMAIN M, UntouchedBut(x, q, M, q2, M2, r),
         Owned(M2, x, r), M2[r].k = v.out[1].k,
         Single(q2, r), \A c \in Kinds : Busy(q2, c, r) => c = v.out[1].kind
  PROVE  XInvOf(x, v2, q2, M2)
<1> DEFINE m == v.out[1]
<1>1. /\ m.k < v.nextk
      /\ \A i : Owned(M, x, i) => M[i].k # m.k
      /\ v.up => Waiting(v, m.kind, m.k) /\ v.ans = {}
  BY DEF XInvOf, XQueue
<1>2. /\ InCall(v2) = InCall(v) /\ Flagged(v2) = Flagged(v)
      /\ \A kind, k : Waiting(v2, kind, k) = Waiting(v, kind, k)
  BY DEF Taken, InCall, Flagged, Waiting
<1>3. \A k : Held(M, q, x, k) => Held(M2, q2, x, k)
  BY HeldBut DEF Owned
<1>4. v.up => InCall(v) /\ ~Flagged(v) /\ v.c.kind = m.kind /\ v.c.k = m.k /\ m.k \in v.act
  BY <1>1 DEF Waiting, XInvOf, XLocal
<1> HIDE DEF m
<1>5. XQueue(x, v2, q2, M2)
  BY DEF XQueue, Taken
<1>6. XBusy(x, v2, q2, M2)
  <2> SUFFICES ASSUME v.up, NEW i, Owned(M2, x, i)
               PROVE  /\ Single(q2, i)
                      /\ \A kind \in Kinds : Busy(q2, kind, i) => Waiting(v, kind, M2[i].k)
                      /\ M2[i].k \in v.act \/ Rm(q2, i)
    BY <1>1, <1>2 DEF XBusy, Taken
  <2>1. CASE i = r
    BY <1>1, <1>4, <2>1 DEF m
  <2>2. CASE i # r
    <3>1. /\ Owned(M, x, i) /\ M2[i] = M[i]
          /\ Rm(q, i) => Rm(q2, i)
          /\ \A kind \in Kinds : Busy(q2, kind, i) => Busy(q, kind, i)
          /\ Single(q, i) => Single(q2, i)
      BY <2>2 DEF UntouchedBut
    <3> QED
      BY <3>1 DEF XInvOf, XBusy
  <2> QED
    BY <2>1, <2>2
<1>7. XAnswer(v2)
  BY <1>1 DEF XInvOf, XAnswer, Taken
<1>8. XDone(x, v2, q2, M2)
  BY <1>1, <1>2, <1>4 DEF XDone, Taken
<1>9. XAct(x, v2, q2, M2)
  BY <1>2, <1>3 DEF XInvOf, XAct, Taken
<1>10. XOwn(x, v2, M2)
  <2>1. \A i : Owned(M2, x, i) /\ i # r => Owned(M, x, i) /\ M2[i] = M[i] /\ M2[i].k # M2[r].k
    BY <1>1 DEF UntouchedBut, m
  <2>2. M2[r].k < v2.nextk
    BY <1>1 DEF Taken, m
  <2> QED
    BY <2>1, <2>2 DEF XInvOf, XOwn, Taken
<1>11. XLocal(v2)
  BY <1>2 DEF XInvOf, XLocal, Taken
<1> QED
  BY <1>5, <1>6, <1>7, <1>8, <1>9, <1>10, <1>11 DEF XInvOf

\* The iApp sends the deletion of number r, which x has asked for.
LEMMA DeleteTaken ==
  ASSUME NEW x, NEW v, NEW v2, NEW q, NEW M, NEW q2, NEW r, XInvOf(x, v, q, M),
         v.out # << >>, v.out[1].kind = "del", Taken(v, v2),
         UntouchedBut(x, q, M, q2, M, r),
         Owned(M, x, r), M[r].k = v.out[1].k, Rm(q, r) => Rm(q2, r),
         Single(q2, r), \A c \in Kinds : Busy(q2, c, r) => c = "del"
  PROVE  XInvOf(x, v2, q2, M)
<1> DEFINE m == v.out[1]
<1>1. v.up => Waiting(v, m.kind, m.k) /\ v.ans = {}
  BY DEF XInvOf, XQueue
<1>2. /\ InCall(v2) = InCall(v) /\ Flagged(v2) = Flagged(v)
      /\ \A kind, k : Waiting(v2, kind, k) = Waiting(v, kind, k)
  BY DEF Taken, InCall, Flagged, Waiting
<1>3. \A k : k # m.k /\ Held(M, q, x, k) => Held(M, q2, x, k)
  BY HeldBut
<1>4. v.up => InCall(v) /\ ~Flagged(v) /\ v.c.kind = "del" /\ v.c.k = m.k /\ m.k \in v.act
  BY <1>1 DEF Waiting, XInvOf, XLocal
<1>5. XQueue(x, v2, q2, M)
  BY DEF XQueue, Taken
<1>6. XBusy(x, v2, q2, M)
  <2> SUFFICES ASSUME v.up, NEW i, Owned(M, x, i)
               PROVE  /\ Single(q2, i)
                      /\ \A kind \in Kinds : Busy(q2, kind, i) => Waiting(v, kind, M[i].k)
                      /\ M[i].k \in v.act \/ Rm(q2, i)
    BY <1>1, <1>2 DEF XBusy, Taken
  <2>1. CASE i = r
    BY <1>1, <1>4, <2>1
  <2>2. CASE i # r
    <3>1. /\ Rm(q, i) => Rm(q2, i)
          /\ \A kind \in Kinds : Busy(q2, kind, i) => Busy(q, kind, i)
          /\ Single(q, i) => Single(q2, i)
      BY <2>2 DEF UntouchedBut
    <3> QED
      BY <3>1 DEF XInvOf, XBusy
  <2> QED
    BY <2>1, <2>2
<1>7. XAnswer(v2)
  BY <1>1 DEF XInvOf, XAnswer, Taken
<1>8. XDone(x, v2, q2, M)
  BY <1>1, <1>2, <1>4 DEF XDone, Taken
<1>9. XAct(x, v2, q2, M)
  BY <1>2, <1>3, <1>4 DEF XInvOf, XAct, Taken
<1>10. XOwn(x, v2, M)
  BY DEF XInvOf, XOwn, Taken
<1>11. XLocal(v2)
  BY <1>2 DEF XInvOf, XLocal, Taken
<1> QED
  BY <1>5, <1>6, <1>7, <1>8, <1>9, <1>10, <1>11 DEF XInvOf

\* rm_if_pending_subs, for an xApp that has ended.
LEMMA CleanedUp ==
  ASSUME NEW x, NEW v, NEW v2, NEW q, NEW M, NEW q2, XInvOf(x, v, q, M),
         ~v.up, v.out = << >>,
         v2.up = v.up, v2.c = v.c, v2.flag = v.flag, v2.act = v.act,
         v2.nextk = v.nextk, v2.pend = v.pend, v2.out = << >>, v2.ans = v.ans,
         v2.lone = v.lone, v2.any = v.any, ~v2.bo
  PROVE  XInvOf(x, v2, q2, M)
<1>1. v.ans = {} /\ ~InCall(v) /\ ~InCall(v2) /\ ~Flagged(v) /\ ~Flagged(v2)
  BY DEF XInvOf, XAnswer, XLocal, InCall, Flagged
<1>2. XOwn(x, v2, M)
  BY DEF XInvOf, XOwn
<1>3. XLocal(v2)
  BY <1>1 DEF XInvOf, XLocal
<1>4. XAnswer(v2)
  BY <1>1 DEF XInvOf, XAnswer
<1> QED
  BY <1>2, <1>3, <1>4 DEF XInvOf, XQueue, XBusy, XDone, XAct

\* v2 is v with the answer m on its way.
Answering(v, v2, m) ==
  /\ v2.up = v.up /\ v2.c = v.c /\ v2.flag = v.flag /\ v2.act = v.act
  /\ v2.nextk = v.nextk /\ v2.pend = v.pend /\ v2.out = v.out
  /\ v2.ans = v.ans \cup {m} /\ (v.ans = {} => v2.lone) /\ v2.bo = v.bo

\* A worker sends the answer about number r on to x, which is running.
LEMMA AnswerSent ==
  ASSUME NEW x, NEW v, NEW v2, NEW q, NEW M, NEW q2, NEW r, NEW kind \in Kinds, XInvOf(x, v, q, M),
         v.up, Owned(M, x, r), Busy(q, kind, r),
         Answering(v, v2, [kind |-> kind, k |-> M[r].k]),
         Untouched(x, q, M, q2, M), \A c \in Kinds : ~Busy(q2, c, r),
         IF kind = "sub" THEN M[r].type = "sub" /\ Clear(q2, r) ELSE Rm(q2, r)
  PROVE  XInvOf(x, v2, q2, M)
<1> DEFINE m == [kind |-> kind, k |-> M[r].k]
<1>1. Waiting(v, kind, M[r].k) /\ v.ans = {} /\ v.out = << >>
  BY DEF XInvOf, XBusy
<1>2. /\ InCall(v2) = InCall(v) /\ Flagged(v2) = Flagged(v)
      /\ \A c, k : Waiting(v2, c, k) = Waiting(v, c, k)
  BY DEF Answering, InCall, Flagged, Waiting
<1>3. \A k : Held(M, q, x, k) => Held(M, q2, x, k)
  BY HeldKept
<1>4. InCall(v) /\ ~Flagged(v) /\ v.c.kind = kind /\ v.c.k = M[r].k
  BY <1>1 DEF Waiting
<1>5. \A i : Owned(M, x, i) /\ M[i].k = v.c.k => i = r
  BY <1>4 DEF XInvOf, XOwn
<1>6. v2.ans = {m} /\ m.kind = kind /\ m.k = M[r].k /\ v2.lone
  BY <1>1 DEF Answering
<1> HIDE DEF m
<1>7. XQueue(x, v2, q2, M)
  BY <1>1 DEF XQueue, Answering
<1>8. \A i : Owned(M, x, i) => \A c \in Kinds : ~Busy(q2, c, i)
  <2> SUFFICES ASSUME NEW i, Owned(M, x, i), NEW c \in Kinds, Busy(q2, c, i)
               PROVE  FALSE
    OBVIOUS
  <2>1. Busy(q, c, i)
    BY DEF Untouched
  <2>2. Waiting(v, c, M[i].k)
    BY <2>1 DEF XInvOf, XBusy
  <2>3. i = r
    BY <1>5, <2>2 DEF Waiting
  <2> QED
    BY <2>3
<1>9. XBusy(x, v2, q2, M)
  BY <1>8 DEF XInvOf, XBusy, Untouched, Answering
<1>10. XAnswer(v2)
  BY <1>1, <1>2, <1>6 DEF XAnswer, Answering
<1>11. XDone(x, v2, q2, M)
  <2>1. kind = "sub" => Held(M, q2, x, v.c.k)
    BY <1>4 DEF Held, Owned
  <2>2. kind # "sub" => \A i : Owned(M, x, i) /\ M[i].k = v.c.k => Rm(q2, i)
    BY <1>5
  <2> QED
    BY <1>4, <2>1, <2>2 DEF XDone, Answering
<1>12. XAct(x, v2, q2, M)
  BY <1>2, <1>3 DEF XInvOf, XAct, Answering
<1>13. XOwn(x, v2, M)
  BY DEF XInvOf, XOwn, Answering
<1>14. XLocal(v2)
  BY <1>2 DEF XInvOf, XLocal, Answering
<1> QED
  BY <1>7, <1>9, <1>10, <1>11, <1>12, <1>13, <1>14 DEF XInvOf

-----------------------------------------------------------------------------
\* A number in the map is reported under, or requested, or about to be
\* forgotten.
Kept ==
  \A i \in DOMAIN map :
    \/ i \in ind
    \/ \E n \in 1..Len(toAg) : toAg[n].id = i /\ toAg[n].kind \in {"sub", "ctrl"}
    \/ \E n \in 1..Len(toRic) : toRic[n].id = i /\ toRic[n].kind \in {"del", "ctrl"}
    \/ \E n \in 1..Len(pool) : pool[n].id = i /\ pool[n].kind \in {"del", "ctrl"}

RInv == RouteInv(Route, Len(pool), map, rpend)
XInv(x) == XInvOf(x, View(x), Route, map)

\* The inductive invariant of the answers.
AInv == asserts = {} /\ RInv /\ Kept /\ \A x \in XApps : XInv(x)

\* The fields of the view.
ViewIs(x) ==
  /\ View(x).up = up[x] /\ View(x).c = ui[x] /\ View(x).flag = flag[x]
  /\ View(x).act = act[x] /\ View(x).nextk = nextk[x] /\ View(x).pend = xpend[x]
  /\ View(x).out = x2i[x] /\ View(x).ans = Answers(i2x[x]) /\ View(x).lone = Lone(i2x[x])
  /\ View(x).any = (i2x[x] # << >>) /\ View(x).bo = (x \in bounced)

\* They are what they should be ...
LEMMA ViewNow == \A x : ViewIs(x)
BY DEF ViewIs, View

\* ... in the next state as well.
LEMMA ViewThen == \A x : ViewIs(x)'
BY DEF ViewIs, View

\* A view is determined by the variables.
LEMMA ViewSame ==
  ASSUME NEW y, up'[y] = up[y], ui'[y] = ui[y], flag'[y] = flag[y], act'[y] = act[y],
         nextk'[y] = nextk[y], xpend'[y] = xpend[y], x2i'[y] = x2i[y], i2x'[y] = i2x[y],
         (y \in bounced') = (y \in bounced)
  PROVE  View(y)' = View(y)
BY DEF View

\* A step of one xApp that the iApp does not see.
LEMMA OwnStep ==
  ASSUME NEW x \in XApps, AInv, UNCHANGED <<map, rpend, pool, toAg, toRic, ind>>,
         asserts' = {}, \A y \in XApps : y # x => View(y)' = View(y),
         XInvOf(x, View(x)', Route, map)
  PROVE  AInv'
<1>1. Route' = Route
  BY DEF Route
<1>2. RInv'
  BY <1>1 DEF AInv, RInv
<1>3. Kept'
  BY DEF AInv, Kept
<1>4. \A y \in XApps : XInv(y)'
  <2> SUFFICES ASSUME NEW y \in XApps PROVE XInv(y)'
    OBVIOUS
  <2>1. CASE y = x
    BY <1>1, <2>1 DEF XInv
  <2>2. CASE y # x
    <3>1. View(y)' = View(y) /\ XInvOf(y, View(y), Route, map)
      BY <2>2 DEF AInv, XInv
    <3> QED
      BY <1>1, <3>1 DEF XInv
  <2> QED
    BY <2>1, <2>2
<1> QED
  BY <1>2, <1>3, <1>4 DEF AInv

\* Every number in the map has an owner.
LEMMA OwnedTypes ==
  ASSUME NEW x, NEW i, RTypes, Owned(map, x, i)
  PROVE  map[i].k \in Nat /\ map[i].x \in XApps /\ i \in ReqIds
BY SubscriptionAssumption DEF RTypes, Owned

\* The calls of the user's thread.
LEMMA UiA ==
  ASSUME NEW x \in XApps, SInv, AInv, Ui(x)
  PROVE  AInv'
<1> USE SubscriptionAssumption
<1> DEFINE v == View(x)
           v2 == View(x)'
<1>1. XTypes /\ RTypes /\ asserts = {}
  BY TypeParts DEF SInv, AInv
<1>2. ViewIs(x) /\ ViewIs(x)'
  BY ViewNow, ViewThen
<1>3. XInvOf(x, v, Route, map)
  BY DEF AInv, XInv
<1>4. \A i : Owned(map, x, i) => map[i].k \in Nat
  BY <1>1, OwnedTypes
<1>5. v.nextk \in Nat /\ v.act \subseteq Nat
  BY <1>1, <1>2 DEF ViewIs, XTypes
<1>6. v.up /\ ~InCall(v)
  BY <1>2 DEF ViewIs, Ui, Report, Control, RmReport, InCall
<1> HIDE DEF v, v2
<1>7. x2i[x] = << >>
  BY <1>2, <1>3, <1>6, IdleClear DEF ViewIs, v
<1>8. ASSUME NEW kind \in Kinds, NEW k \in 1..MaxProc, Call(x, kind, k)
      PROVE  /\ ui'[x] = [pc |-> "sent", kind |-> kind, k |-> k]
             /\ x2i'[x] = <<[kind |-> kind, k |-> k]>>
             /\ \A y \in XApps : y # x => ui'[y] = ui[y] /\ x2i'[y] = x2i[y]
  BY <1>1, <1>7, <1>8 DEF XTypes, Call
<1>9. CASE Report(x) \/ Control(x)
  <2>1. PICK kind \in {"sub", "ctrl"} :
          /\ Call(x, kind, nextk[x])
          /\ xpend' = IF kind = "sub" THEN [xpend EXCEPT ![x] = @ \cup {"sub"}] ELSE xpend
    BY <1>9 DEF Report, Control
  <2>2. nextk[x] \in 1..MaxProc
    BY <1>1, <1>9, StartedBound, TypeParts DEF Report, Control, Register
  <2>3. /\ ui'[x] = [pc |-> "sent", kind |-> kind, k |-> nextk[x]]
        /\ x2i'[x] = <<[kind |-> kind, k |-> nextk[x]]>>
        /\ \A y \in XApps : y # x => ui'[y] = ui[y] /\ x2i'[y] = x2i[y]
    BY <1>8, <2>1, <2>2 DEF Kinds
  <2>4. /\ act'[x] = act[x] \cup {nextk[x]} /\ nextk'[x] = nextk[x] + 1
        /\ \A y \in XApps : y # x => act'[y] = act[y] /\ nextk'[y] = nextk[y]
    BY <1>1, <1>9 DEF Report, Control, Register, XTypes
  <2>5. /\ xpend'[x] = xpend[x] \cup (IF kind = "sub" THEN {"sub"} ELSE {})
        /\ \A y \in XApps : y # x => xpend'[y] = xpend[y]
    BY <1>1, <2>1 DEF XTypes
  <2>6. UNCHANGED <<up, flag, i2x, bounced, map, req, rpend, pool, toAg, toRic, ind, asserts>>
    BY <1>9 DEF Report, Control
  <2>7. /\ v2.c = [pc |-> "sent", kind |-> kind, k |-> v.nextk]
        /\ v2.out = <<[kind |-> kind, k |-> v.nextk]>>
        /\ v2.act = v.act \cup {v.nextk} /\ v2.nextk = v.nextk + 1
        /\ v2.pend = v.pend \cup (IF kind = "sub" THEN {"sub"} ELSE {})
        /\ v2.up = v.up /\ v2.ans = v.ans /\ v2.lone = v.lone /\ v2.any = v.any /\ v2.bo = v.bo
    BY <1>2, <2>3, <2>4, <2>5, <2>6 DEF ViewIs, v, v2
  <2>8. XInvOf(x, v2, Route, map)
    BY <1>3, <1>4, <1>5, <1>6, <2>7, NewCall
  <2>9. \A y \in XApps : y # x => View(y)' = View(y)
    BY <2>3, <2>4, <2>5, <2>6, ViewSame
  <2> QED
    BY <1>1, <2>6, <2>8, <2>9, OwnStep DEF v2
<1>10. CASE \E k \in 1..MaxProc : RmReport(x, k)
  <2>1. PICK k \in 1..MaxProc : RmReport(x, k)
    BY <1>10
  <2>2. /\ ui'[x] = [pc |-> "sent", kind |-> "del", k |-> k]
        /\ x2i'[x] = <<[kind |-> "del", k |-> k]>>
        /\ \A y \in XApps : y # x => ui'[y] = ui[y] /\ x2i'[y] = x2i[y]
    BY <1>8, <2>1 DEF RmReport, Kinds
  <2>3. UNCHANGED <<up, flag, act, nextk, xpend, i2x, bounced, map, rpend, pool, toAg, toRic, ind, asserts>>
    BY <2>1 DEF RmReport
  <2>4. k \in v.act
    BY <1>2, <2>1 DEF RmReport, ViewIs, v
  <2>5. /\ v2.c = [pc |-> "sent", kind |-> "del", k |-> k]
        /\ v2.out = <<[kind |-> "del", k |-> k]>>
        /\ v2.act = v.act /\ v2.nextk = v.nextk /\ v2.pend = v.pend
        /\ v2.up = v.up /\ v2.ans = v.ans /\ v2.lone = v.lone /\ v2.any = v.any /\ v2.bo = v.bo
    BY <1>2, <2>2, <2>3 DEF ViewIs, v, v2
  <2>6. XInvOf(x, v2, Route, map)
    BY <1>3, <1>6, <2>4, <2>5, NewDelete
  <2>7. \A y \in XApps : y # x => View(y)' = View(y)
    BY <2>2, <2>3, ViewSame
  <2> QED
    BY <1>1, <2>3, <2>6, <2>7, OwnStep DEF v2
<1> QED
  BY <1>9, <1>10 DEF Ui

\* The rest of a call, in the user's thread.
LEMMA UiStepA ==
  ASSUME NEW x \in XApps, SInv, AInv, UiStep(x)
  PROVE  AInv'
<1> DEFINE v == View(x)
           v2 == View(x)'
<1>1. XTypes /\ RTypes /\ asserts = {}
  BY TypeParts DEF SInv, AInv
<1>2. ViewIs(x) /\ ViewIs(x)'
  BY ViewNow, ViewThen
<1>3. XInvOf(x, v, Route, map)
  BY DEF AInv, XInv
<1>4. ui[x] \in {Idle} \cup CallRecord
  BY <1>1 DEF XTypes
<1> HIDE DEF v, v2
<1>5. CASE UiPend(x)
  <2>1. UNCHANGED <<up, flag, act, nextk, x2i, i2x, bounced, map, rpend, pool, toAg, toRic, ind, asserts>>
    BY <1>5 DEF UiPend
  <2>2. ui[x].pc = "sent" /\ ui[x].kind # "sub" /\ ui[x] \in CallRecord
    BY <1>4, <1>5 DEF UiPend, Idle
  <2>3. /\ ui'[x].pc = "pended" /\ ui'[x].kind = ui[x].kind /\ ui'[x].k = ui[x].k
        /\ \A y \in XApps : y # x => ui'[y] = ui[y]
    BY <1>1, <1>5, <2>2 DEF UiPend, XTypes, CallRecord
  <2>4. /\ xpend'[x] = xpend[x] \cup {ui[x].kind}
        /\ \A y \in XApps : y # x => xpend'[y] = xpend[y]
    BY <1>1, <1>5 DEF UiPend, XTypes
  <2>5. v.pend = {}
    BY <1>2, <1>3, <2>2 DEF XInvOf, XLocal, ViewIs, v
  <2>6. /\ v.c.pc \in {"sent", "pended"} /\ v2.c.pc \in {"pended", "wait"} /\ v2.c.pc = "pended"
        /\ v2.c.kind = v.c.kind /\ v2.c.k = v.c.k
        /\ v2.pend = {v.c.kind}
        /\ v2.up = v.up /\ v2.act = v.act /\ v2.nextk = v.nextk /\ v2.out = v.out
        /\ v2.ans = v.ans /\ v2.lone = v.lone /\ v2.any = v.any /\ v2.bo = v.bo
    BY <1>2, <2>1, <2>2, <2>3, <2>4, <2>5 DEF ViewIs, v, v2
  <2>7. XInvOf(x, v2, Route, map)
    BY <1>3, <2>6, CallGoesOn DEF Flagged
  <2>8. \A y \in XApps : y # x => View(y)' = View(y)
    BY <2>1, <2>3, <2>4, ViewSame
  <2> QED
    BY <1>1, <2>1, <2>7, <2>8, OwnStep DEF v2
<1>6. CASE UiWait(x)
  <2>1. UNCHANGED <<up, act, nextk, xpend, x2i, i2x, bounced, map, rpend, pool, toAg, toRic, ind, asserts>>
    BY <1>6 DEF UiWait
  <2>2. /\ ui[x].pc = "pended" \/ (ui[x].pc = "sent" /\ ui[x].kind = "sub")
        /\ ui[x] \in CallRecord
    BY <1>4, <1>6 DEF UiWait, Idle
  <2>3. /\ ui'[x].pc = "wait" /\ ui'[x].kind = ui[x].kind /\ ui'[x].k = ui[x].k
        /\ \A y \in XApps : y # x => ui'[y] = ui[y]
    BY <1>1, <1>6, <2>2 DEF UiWait, XTypes, CallRecord
  <2>4. flag'[x] = FALSE /\ \A y \in XApps : y # x => flag'[y] = flag[y]
    BY <1>1, <1>6 DEF UiWait, XTypes
  <2>5. v.pend = {v.c.kind}
    BY <1>2, <1>3, <2>2 DEF XInvOf, XLocal, ViewIs, v, Flagged
  <2>6. /\ v.c.pc \in {"sent", "pended"} /\ v2.c.pc \in {"pended", "wait"}
        /\ v2.c.kind = v.c.kind /\ v2.c.k = v.c.k /\ v2.flag = FALSE
        /\ v2.pend = {v.c.kind}
        /\ v2.up = v.up /\ v2.act = v.act /\ v2.nextk = v.nextk /\ v2.out = v.out
        /\ v2.ans = v.ans /\ v2.lone = v.lone /\ v2.any = v.any /\ v2.bo = v.bo
    BY <1>2, <2>1, <2>2, <2>3, <2>4, <2>5 DEF ViewIs, v, v2
  <2>7. XInvOf(x, v2, Route, map)
    BY <1>3, <2>6, CallGoesOn DEF Flagged
  <2>8. \A y \in XApps : y # x => View(y)' = View(y)
    BY <2>1, <2>3, <2>4, ViewSame
  <2> QED
    BY <1>1, <2>1, <2>7, <2>8, OwnStep DEF v2
<1>7. CASE UiReturn(x)
  <2>1. UNCHANGED <<up, flag, nextk, xpend, x2i, i2x, bounced, map, rpend, pool, toAg, toRic, ind, asserts>>
    BY <1>7 DEF UiReturn
  <2>2. ui'[x] = Idle /\ \A y \in XApps : y # x => ui'[y] = ui[y]
    BY <1>1, <1>7 DEF UiReturn, XTypes
  <2>3. /\ act'[x] = IF ui[x].kind = "sub" THEN act[x] ELSE act[x] \ {ui[x].k}
        /\ \A y \in XApps : y # x => act'[y] = act[y]
    BY <1>1, <1>7 DEF UiReturn, XTypes
  <2>4. v.up /\ Flagged(v) /\ ~InCall(v2)
    BY <1>2, <1>7, <2>2 DEF UiReturn, ViewIs, v, v2, Flagged, InCall, Idle
  <2>5. /\ v2.act = IF v.c.kind = "sub" THEN v.act ELSE v.act \ {v.c.k}
        /\ v2.up = v.up /\ v2.nextk = v.nextk /\ v2.out = v.out /\ v2.pend = v.pend
        /\ v2.ans = v.ans /\ v2.lone = v.lone /\ v2.any = v.any /\ v2.bo = v.bo
    BY <1>2, <2>1, <2>3 DEF ViewIs, v, v2
  <2>6. XInvOf(x, v2, Route, map)
    BY <1>3, <2>4, <2>5, CallReturns
  <2>7. \A y \in XApps : y # x => View(y)' = View(y)
    BY <2>1, <2>2, <2>3, ViewSame
  <2> QED
    BY <1>1, <2>1, <2>6, <2>7, OwnStep DEF v2
<1> QED
  BY <1>5, <1>6, <1>7 DEF UiStep

\* The answers among the messages that are left when the first is taken.
LEMMA AnswersTail ==
  ASSUME NEW s \in Seq(IMsg), s # << >>
  PROVE  /\ Head(s).kind = "ind" => Answers(Tail(s)) = Answers(s) /\ (Lone(s) => Lone(Tail(s)))
         /\ Head(s).kind # "ind" /\ Lone(s) => Answers(Tail(s)) = {} /\ Lone(Tail(s))
         /\ Head(s).kind # "ind" => Head(s) \in Answers(s)
<1>1. PICK l \in Nat : l + 1 = Len(s)
  <2>1. Len(s) \in Nat /\ Len(s) # 0
    OBVIOUS
  <2> QED
    BY <2>1
<1>2. Len(Tail(s)) = l /\ \A n \in 1..l : Tail(s)[n] = s[n + 1]
  BY <1>1
<1>3. Head(s) = s[1] /\ 1 \in 1..(l + 1) /\ \A n \in 1..l : n + 1 \in 1..(l + 1)
  BY <1>1
<1> DEFINE t == Tail(s)
<1> HIDE DEF t
<1>4. \A n \in 1..(l + 1) : n = 1 \/ \E k \in 1..l : n = k + 1 /\ s[n] = t[k]
  <2> SUFFICES ASSUME NEW n \in 1..(l + 1), n # 1
               PROVE  \E k \in 1..l : n = k + 1 /\ s[n] = t[k]
    OBVIOUS
  <2>1. n - 1 \in 1..l /\ n = (n - 1) + 1
    OBVIOUS
  <2> QED
    BY <1>2, <2>1 DEF t
<1>5. CASE Head(s).kind = "ind"
  <2>1. Answers(t) \subseteq Answers(s)
    BY <1>1, <1>2, <1>3 DEF Answers, t
  <2>2. Answers(s) \subseteq Answers(t)
    <3> SUFFICES ASSUME NEW n \in 1..(l + 1), s[n].kind # "ind"
                 PROVE  s[n] \in Answers(t)
      BY <1>1 DEF Answers
    <3>1. PICK k \in 1..l : s[n] = t[k]
      BY <1>3, <1>4, <1>5
    <3> QED
      BY <1>2, <3>1 DEF Answers, t
  <2>3. Lone(s) => Lone(t)
    <3> SUFFICES ASSUME Lone(s), NEW n \in 1..l, NEW k \in 1..l, t[n].kind # "ind", t[k].kind # "ind"
                 PROVE  n = k
      BY <1>2 DEF Lone, t
    <3>1. n + 1 = k + 1
      BY <1>1, <1>2, <1>3 DEF Lone, t
    <3> QED
      BY <3>1
  <2> QED
    BY <1>5, <2>1, <2>2, <2>3 DEF t
<1>6. CASE Head(s).kind # "ind"
  <2>1. Head(s) \in Answers(s)
    BY <1>1, <1>3, <1>6 DEF Answers
  <2>2. ASSUME Lone(s), NEW n \in 1..l
        PROVE  t[n].kind = "ind"
    <3>1. n + 1 # 1
      OBVIOUS
    <3> QED
      BY <1>1, <1>2, <1>3, <1>6, <2>2, <3>1 DEF Lone, t
  <2>3. Lone(s) => Answers(t) = {} /\ Lone(t)
    BY <1>2, <2>2 DEF Answers, Lone, t
  <2> QED
    BY <1>6, <2>1, <2>3 DEF t
<1> QED
  BY <1>5, <1>6

\* An empty queue has no answer.
LEMMA NoAnswers == Answers(<< >>) = {} /\ Lone(<< >>)
BY DEF Answers, Lone

\* The end of an xApp, and its event loop.
LEMMA XappA ==
  ASSUME NEW x \in XApps, Prompt, SInv, AInv, XappEnd(x) \/ XappStep(x)
  PROVE  AInv'
<1> DEFINE v == View(x)
           v2 == View(x)'
<1>1. XTypes /\ RTypes /\ asserts = {}
  BY TypeParts DEF SInv, AInv
<1>2. ViewIs(x) /\ ViewIs(x)'
  BY ViewNow, ViewThen
<1>3. XInvOf(x, v, Route, map)
  BY DEF AInv, XInv
<1>4. i2x[x] \in Seq(IMsg)
  BY <1>1 DEF XTypes
<1> HIDE DEF v, v2
<1>5. CASE XappEnd(x)
  <2>1. UNCHANGED <<nextk, map, req, rpend, pool, toAg, toRic, ind, asserts>>
    BY <1>5 DEF XappEnd
  <2>2. /\ up'[x] = FALSE /\ ui'[x] = Idle /\ act'[x] = {} /\ xpend'[x] = {}
        /\ x2i'[x] \in {x2i[x], << >>} /\ i2x'[x] = << >>
    BY <1>1, <1>5 DEF XappEnd, XTypes
  <2>3. \A y \in XApps : y # x =>
          /\ up'[y] = up[y] /\ ui'[y] = ui[y] /\ flag'[y] = flag[y] /\ act'[y] = act[y]
          /\ xpend'[y] = xpend[y] /\ x2i'[y] = x2i[y] /\ i2x'[y] = i2x[y]
    BY <1>1, <1>5 DEF XappEnd, XTypes
  <2>4. \A y \in XApps : y # x => (y \in bounced') = (y \in bounced)
    BY <1>5 DEF XappEnd
  <2>5. /\ v2.up = FALSE /\ ~InCall(v2) /\ v2.act = {} /\ v2.pend = {}
        /\ v2.nextk = v.nextk /\ v2.out \in {v.out, << >>} /\ v2.ans = {} /\ v2.lone
        /\ v2.any = FALSE
    <3>1. v2.up = FALSE /\ v2.act = {} /\ v2.pend = {} /\ v2.nextk = v.nextk
      BY <1>2, <2>1, <2>2 DEF ViewIs, v, v2
    <3>2. v2.out \in {v.out, << >>} /\ v2.c = Idle
      BY <1>2, <2>2 DEF ViewIs, v, v2
    <3>3. ~InCall(v2)
      BY <3>2 DEF InCall, Idle
    <3>4. v2.ans = Answers(i2x'[x]) /\ v2.lone = Lone(i2x'[x]) /\ v2.any = (i2x'[x] # << >>)
      BY <1>2 DEF ViewIs, v2
    <3>5. v2.ans = {} /\ v2.lone
      BY <2>2, <3>4, NoAnswers
    <3>6. v2.any = FALSE
      BY <2>2, <3>4
    <3> QED
      BY <3>1, <3>2, <3>3, <3>5, <3>6
  <2>6. XInvOf(x, v2, Route, map)
    BY <1>3, <2>5, Ended
  <2>7. \A y \in XApps : y # x => View(y)' = View(y)
    BY <2>1, <2>3, <2>4, ViewSame
  <2> QED
    BY <1>1, <2>1, <2>6, <2>7, OwnStep DEF v2
<1>6. CASE XappIndication(x)
  <2>1. UNCHANGED <<xappVars, x2i, bounced, map, rpend, pool, toAg, toRic, ind, asserts>>
    BY <1>6 DEF XappIndication
  <2>2. i2x'[x] = Tail(i2x[x]) /\ \A y \in XApps : y # x => i2x'[y] = i2x[y]
    BY <1>1, <1>6 DEF XappIndication, XTypes
  <2>3. i2x[x] # << >> /\ Head(i2x[x]).kind = "ind"
    BY <1>6 DEF XappIndication
  <2>4. Answers(i2x'[x]) = Answers(i2x[x]) /\ (Lone(i2x[x]) => Lone(i2x'[x]))
    BY <1>4, <2>2, <2>3, AnswersTail
  <2>5. Alike(v, v2)
    BY <1>2, <2>1, <2>3, <2>4 DEF ViewIs, v, v2, Alike, xappVars
  <2>6. Untouched(x, Route, map, Route, map)
    BY DEF Untouched
  <2>7. XInvOf(x, v2, Route, map)
    BY <1>3, <2>5, <2>6, Frame
  <2>8. \A y \in XApps : y # x => View(y)' = View(y)
    BY <2>1, <2>2, ViewSame DEF xappVars
  <2> QED
    BY <1>1, <2>1, <2>7, <2>8, OwnStep DEF v2
<1>7. CASE PromptUser(x) /\ XappAnswer(x)
  <2> DEFINE m == Head(i2x[x])
  <2>1. UNCHANGED <<up, ui, act, nextk, x2i, bounced, map, req, rpend, pool, toAg, toRic, ind>>
    BY <1>7 DEF XappAnswer
  <2>2. i2x'[x] = Tail(i2x[x]) /\ \A y \in XApps : y # x => i2x'[y] = i2x[y]
    BY <1>1, <1>7 DEF XappAnswer, XTypes
  <2>3. i2x[x] # << >> /\ m.kind # "ind" /\ ui[x].pc = "wait"
    BY <1>7 DEF XappAnswer, PromptUser
  <2>4. /\ xpend'[x] = xpend[x] \ {m.kind} /\ flag'[x] = TRUE
        /\ \A y \in XApps : y # x => xpend'[y] = xpend[y] /\ flag'[y] = flag[y]
    BY <1>1, <1>7 DEF XappAnswer, XTypes
  <2>5. asserts' = asserts \cup {a \in {"ric_req_id not registered"} : m.k \notin act[x]}
                           \cup {a \in {"xApp pending event"} : m.kind \notin xpend[x]}
    BY <1>7 DEF XappAnswer
  <2> HIDE DEF m
  <2>6. Lone(i2x[x])
    BY <1>2, <1>3 DEF XInvOf, XAnswer, ViewIs, v
  <2>7. Answers(i2x'[x]) = {} /\ Lone(i2x'[x]) /\ m \in Answers(i2x[x])
    BY <1>4, <2>2, <2>3, <2>6, AnswersTail DEF m
  <2>8. /\ m \in v.ans /\ v.c.pc = "wait"
        /\ v2.pend = v.pend \ {m.kind} /\ v2.flag = TRUE /\ v2.c = v.c /\ v2.ans = {} /\ v2.lone
        /\ v2.any => v.any
        /\ v2.up = v.up /\ v2.act = v.act /\ v2.nextk = v.nextk /\ v2.out = v.out /\ v2.bo = v.bo
    BY <1>2, <2>1, <2>3, <2>4, <2>7 DEF ViewIs, v, v2
  <2>9. XInvOf(x, v2, Route, map) /\ m.k \in v.act /\ m.kind \in v.pend
    BY <1>3, <2>8, AnswerHandled
  <2>10. asserts' = {}
    BY <1>1, <1>2, <2>5, <2>9 DEF ViewIs, v
  <2>11. \A y \in XApps : y # x => View(y)' = View(y)
    BY <2>1, <2>2, <2>4, ViewSame
  <2> QED
    BY <2>1, <2>9, <2>10, <2>11, OwnStep DEF v2
<1> QED
  BY <1>5, <1>6, <1>7 DEF XappStep

-----------------------------------------------------------------------------
\* Where an element of the queue comes from.
LEMMA RouteCases ==
  ASSUME NEW q, NEW P, NEW R, NEW A, NEW n \in 1..Len(q), RouteOf(q, P, R, A)
  PROVE  \/ n \in 1..Len(P) /\ q[n] = P[n]
         \/ \E m \in 1..Len(R) : n = Len(P) + m /\ q[n] = Lift(R[m])
         \/ \E m \in 1..Len(A) : n = Len(P) + Len(R) + m /\ q[n] = Lift(A[m])
<1>1. PICK a, b, c \in Nat : a = Len(P) /\ b = Len(R) /\ c = Len(A)
  BY DEF RouteOf
<1>2. Len(q) = a + b + c /\ n \in Nat /\ n >= 1 /\ n <= a + b + c
  BY <1>1 DEF RouteOf
<1>3. CASE n <= a
  BY <1>1, <1>2, <1>3 DEF RouteOf
<1>4. CASE n > a /\ n <= a + b
  <2>1. PICK m \in 1..b : n = a + m
    <3>1. n - a \in 1..b /\ n = a + (n - a)
      BY <1>2, <1>4
    <3> QED
      BY <3>1
  <2> QED
    BY <1>1, <2>1 DEF RouteOf
<1>5. CASE n > a + b
  <2>1. PICK m \in 1..c : n = a + b + m
    <3>1. n - (a + b) \in 1..c /\ n = a + b + (n - (a + b))
      BY <1>2, <1>5
    <3> QED
      BY <3>1
  <2> QED
    BY <1>1, <2>1 DEF RouteOf
<1> QED
  BY <1>2, <1>3, <1>4, <1>5

\* What NoOrphan's invariant says of the queue.
RouteLife ==
  /\ RouteOf(Route, pool, toRic, toAg)
  /\ StagesOf(Route)
  /\ \A n \in 1..Len(Route) : Route[n].id < req
  /\ \A n \in 1..Len(Route) : Route[n].pc = "rm" => n <= Len(pool) /\ Route[n].kind # "ind"
  /\ Route \in Seq(Task0) /\ Len(pool) <= Len(Route) /\ Len(Route) \in Nat /\ Len(pool) \in Nat

\* It follows from it.
LEMMA RouteLives == SInv => RouteLife
<1> SUFFICES ASSUME SInv PROVE RouteLife
  OBVIOUS
<1>1. RTypes
  BY TypeParts DEF SInv
<1>2. RouteOf(Route, pool, toRic, toAg)
  BY <1>1, RouteNow
<1>3. ASSUME NEW n \in 1..Len(Route)
      PROVE  /\ Route[n].id < req
             /\ Route[n].pc = "rm" => n <= Len(pool) /\ Route[n].kind # "ind"
             /\ Route[n].pc # "start" => Route[n].kind # "ind"
             /\ Route[n].pc = "rm" => Route[n].kind # "sub"
  <2>1. CASE n \in 1..Len(pool) /\ Route[n] = pool[n]
    <3>1. pool[n] \in Task0 /\ n <= Len(pool)
      BY <1>1, <2>1 DEF RTypes
    <3>2. pool[n].id < req /\ (pool[n].pc = "find" => pool[n].kind # "ind")
          /\ (pool[n].pc = "rm" => pool[n].kind \in {"del", "ctrl"})
      BY <2>1 DEF SInv, Life, Numbers, Stages, Ends
    <3> QED
      BY <2>1, <3>1, <3>2 DEF Task0
  <2>2. CASE \E m \in 1..Len(toRic) : Route[n] = Lift(toRic[m])
    BY <2>2 DEF SInv, Life, Numbers, Lift
  <2>3. CASE \E m \in 1..Len(toAg) : Route[n] = Lift(toAg[m])
    BY <2>3 DEF SInv, Life, Numbers, Lift
  <2> QED
    BY <1>2, <2>1, <2>2, <2>3, RouteCases
<1>4. StagesOf(Route)
  BY <1>3 DEF StagesOf
<1>5. Route \in Seq(Task0) /\ Len(pool) <= Len(Route) /\ Len(Route) \in Nat /\ Len(pool) \in Nat
  <2>1. PICK a, b, c \in Nat : a = Len(pool) /\ b = Len(toRic) /\ c = Len(toAg)
    BY <1>2 DEF RouteOf
  <2>2. Len(Route) = a + b + c /\ a <= a + b + c
    BY <1>2, <2>1 DEF RouteOf
  <2> QED
    BY <1>2, <2>1, <2>2 DEF RouteOf
<1> QED
  BY <1>2, <1>3, <1>4, <1>5 DEF RouteLife

\* In the next state too.
LEMMA RouteLivesNext == SInv' => RouteLife'
BY RouteLives, PTL

\* What a step of the iApp or the RIC changes of the views.
LEMMA AllFrame ==
  ASSUME NEW y \in XApps, AInv, Untouched(y, Route, map, Route', map'),
         Alike(View(y), View(y)')
  PROVE  XInv(y)'
BY Frame DEF AInv, XInv

\* A view that stays is alike.
LEMMA SameAlike ==
  ASSUME NEW y, View(y)' = View(y)
  PROVE  Alike(View(y), View(y)')
BY DEF Alike

\* The iApp gives a number to a request.
LEMMA IappRequestA ==
  ASSUME NEW x \in XApps, SInv, AInv, IappRequest(x)
  PROVE  AInv'
<1> DEFINE m == Head(x2i[x])
<1>1. XTypes /\ RTypes /\ asserts = {}
  BY TypeParts DEF SInv, AInv
<1>2. SInv'
  BY IappRequestOK
<1>3. RouteLife /\ RouteLife'
  BY <1>2, RouteLives, RouteLivesNext
<1>4. m \in XMsg /\ m.kind \in {"sub", "ctrl"} /\ x2i[x] # << >> /\ m = x2i[x][1]
  <2>1. x2i[x] \in Seq(XMsg) /\ x2i[x] # << >> /\ m.kind # "del"
    BY <1>1 DEF XTypes, IappRequest
  <2>2. m \in XMsg /\ m = x2i[x][1]
    BY <2>1
  <2> HIDE DEF m
  <2>3. m.kind \in Kinds
    BY <2>2 DEF XMsg
  <2> QED
    BY <2>1, <2>2, <2>3 DEF Kinds
<1>5. PICK r \in ReqIds : r = req
  BY <1>1 DEF RTypes
<1>6. r \notin DOMAIN map
  BY <1>1, <1>5 DEF SInv, Life, Numbers, RTypes, ReqIds
<1>7. /\ rpend' = rpend \cup {[kind |-> m.kind, id |-> r]}
      /\ toAg' = Append(toAg, [kind |-> m.kind, id |-> r])
      /\ map' = [i \in DOMAIN map \cup {r} |->
                   IF i = r THEN [x |-> x, k |-> m.k, type |-> m.kind] ELSE map[i]]
      /\ asserts' = asserts \cup {a \in {"ric_req_id already in the map"} : r \in DOMAIN map}
      /\ x2i' = [x2i EXCEPT ![x] = Tail(@)]
      /\ UNCHANGED <<xappVars, i2x, bounced, pool, toRic, ind>>
  BY <1>5 DEF IappRequest
<1> HIDE DEF m
<1>8. asserts' = {}
  BY <1>1, <1>6, <1>7
<1>9. PICK q, q2, M2, l : q = Route /\ q2 = Route' /\ M2 = map' /\ l = Len(Route) /\ l \in Nat
  BY <1>3 DEF RouteLife
<1>10. /\ Len(q2) = l + 1 /\ \A n \in 1..l : q2[n] = q[n]
       /\ q2[l + 1] = [kind |-> m.kind, id |-> r, pc |-> "start"]
  <2>1. PICK A2 \in Seq(Msg) : A2 = toAg'
    BY <1>2, TypePartsNext DEF SInv, RTypes
  <2>2. RouteOf(q, pool, toRic, toAg) /\ RouteOf(q2, pool, toRic, A2)
    BY <1>3, <1>7, <1>9, <2>1 DEF RouteLife
  <2>3. PICK a \in Nat : a = Len(toAg)
    BY <1>1 DEF RTypes
  <2>4. [kind |-> m.kind, id |-> r] \in Msg
    BY <1>4, <1>5 DEF Msg, Kinds
  <2>5. Len(A2) = a + 1 /\ (\A n \in 1..a : A2[n] = toAg[n]) /\ A2[a + 1] = [kind |-> m.kind, id |-> r]
    <3>1. PICK e \in Msg : e = [kind |-> m.kind, id |-> r]
      BY <2>4
    <3>2. A2 = Append(toAg, e)
      BY <1>7, <2>1, <3>1
    <3>3. Len(A2) = a + 1 /\ (\A n \in 1..a : A2[n] = toAg[n]) /\ A2[a + 1] = e
      BY <1>1, <2>3, <3>2, AppendProperties DEF RTypes
    <3> QED
      BY <3>1, <3>3
  <2>6. /\ Len(q2) = l + (Len(A2) - a) /\ \A n \in 1..l : q2[n] = q[n]
        /\ \A n \in (a + 1)..Len(A2) : q2[l + (n - a)] = Lift(A2[n])
    <3>1. pool \in Seq(Task0) /\ toRic \in Seq(Msg) /\ toAg \in Seq(Msg) /\ l = Len(q)
      BY <1>1, <1>9 DEF RTypes
    <3>2. Len(toAg) <= Len(A2) /\ \A n \in 1..Len(toAg) : A2[n] = toAg[n]
      BY <2>3, <2>5
    <3>3. /\ Len(q2) = Len(q) + (Len(A2) - Len(toAg)) /\ \A n \in 1..Len(q) : q2[n] = q[n]
          /\ \A n \in (Len(toAg) + 1)..Len(A2) : q2[Len(q) + (n - Len(toAg))] = Lift(A2[n])
      BY <2>2, <3>1, <3>2, IappAdds
    <3> QED
      BY <2>3, <3>1, <3>3
  <2>7. q2[l + ((a + 1) - a)] = Lift(A2[a + 1]) /\ (a + 1) - a = 1
    BY <2>5, <2>6
  <2> QED
    BY <2>5, <2>6, <2>7 DEF Lift
<1>11. /\ DOMAIN M2 = DOMAIN map \cup {r} /\ \A i \in DOMAIN map : M2[i] = map[i]
       /\ M2[r] = [x |-> x, k |-> m.k, type |-> m.kind]
  BY <1>6, <1>7, <1>9
<1>12. \A n \in 1..l : q[n].id # r
  <2>1. \A n \in 1..l : q[n].id < r /\ q[n].id \in Nat
    <3>1. \A n \in 1..l : q[n].id < r /\ q[n] \in Task0
      BY <1>3, <1>5, <1>9 DEF RouteLife
    <3> QED
      BY <3>1 DEF Task0, ReqIds
  <2> QED
    BY <1>5, <2>1 DEF ReqIds
<1>13. PICK p \in Nat : p = Len(pool) /\ p <= l /\ RouteInv(q, p, map, rpend)
  BY <1>3, <1>9 DEF RouteLife, AInv, RInv
<1>14. /\ RouteInv(q2, p, M2, rpend')
       /\ SeenBut(q, q2, {r}) /\ RmKept(q, q2) /\ Only(q2, r, m.kind)
  <2>1. PICK kind \in {"sub", "ctrl"} : kind = m.kind
    BY <1>4
  <2>2. Len(q) = l /\ Len(q) \in Nat /\ p <= Len(q) /\ RouteInv(q, p, map, rpend)
    BY <1>9, <1>13
  <2>3. Put(q, q2, r, kind)
    BY <1>10, <1>12, <2>1, <2>2 DEF Put
  <2>4. Entered(map, M2, r, kind)
    BY <1>6, <1>11, <2>1 DEF Entered
  <2>5. Pended(rpend, rpend', kind, r)
    BY <1>7, <2>1 DEF Pended
  <2>6. /\ RouteInv(q2, p, M2, rpend')
        /\ SeenBut(q, q2, {r}) /\ RmKept(q, q2) /\ Only(q2, r, kind)
    <3>1. RequestStep(q, q2, p, map, M2, rpend, rpend', r, kind)
      BY <2>2, <2>3, <2>4, <2>5 DEF RequestStep
    <3> QED
      BY <3>1, RequestedOK
  <2> QED
    BY <2>1, <2>6
<1>15. RInv'
  BY <1>7, <1>9, <1>13, <1>14 DEF RInv
<1>16. Kept'
  <2> SUFFICES ASSUME NEW i \in DOMAIN map'
               PROVE  \/ i \in ind
                      \/ \E n \in 1..Len(toAg') : toAg'[n].id = i /\ toAg'[n].kind \in {"sub", "ctrl"}
                      \/ \E n \in 1..Len(toRic) : toRic[n].id = i /\ toRic[n].kind \in {"del", "ctrl"}
                      \/ \E n \in 1..Len(pool) : pool[n].id = i /\ pool[n].kind \in {"del", "ctrl"}
    BY <1>7 DEF Kept
  <2>1. PICK a \in Nat : a = Len(toAg)
    BY <1>1 DEF RTypes
  <2>2. /\ Len(toAg') = a + 1 /\ \A n \in 1..a : toAg'[n] = toAg[n]
        /\ toAg'[a + 1] = [kind |-> m.kind, id |-> r]
    <3>1. PICK e \in Msg : e = [kind |-> m.kind, id |-> r]
      BY <1>4, <1>5 DEF Msg, Kinds
    <3>2. toAg' = Append(toAg, e)
      BY <1>7, <3>1
    <3>3. Len(toAg') = a + 1 /\ (\A n \in 1..a : toAg'[n] = toAg[n]) /\ toAg'[a + 1] = e
      BY <1>1, <2>1, <3>2, AppendProperties DEF RTypes
    <3> QED
      BY <3>1, <3>3
  <2>3. (\A n \in 1..a : n \in 1..(a + 1)) /\ a + 1 \in 1..(a + 1)
    OBVIOUS
  <2>4. CASE i = r
    <3>1. toAg'[a + 1].id = i /\ toAg'[a + 1].kind \in {"sub", "ctrl"}
      BY <1>4, <2>2, <2>4
    <3> QED
      BY <2>2, <2>3, <3>1
  <2>5. CASE i # r
    <3>1. i \in DOMAIN map
      BY <1>9, <1>11, <2>5
    <3>2. \A n \in 1..Len(toAg) : n \in 1..Len(toAg') /\ toAg'[n] = toAg[n]
      BY <2>1, <2>2, <2>3
    <3> QED
      BY <3>1, <3>2 DEF AInv, Kept
  <2> QED
    BY <2>4, <2>5
<1>17. ASSUME NEW y \in XApps, y # x
       PROVE  XInv(y)'
  <2>1. View(y)' = View(y)
    <3>1. x2i'[y] = x2i[y]
      BY <1>1, <1>7, <1>17 DEF XTypes
    <3> QED
      BY <1>7, <3>1, ViewSame DEF xappVars
  <2>2. \A i : Owned(M2, y, i) => i # r /\ i \in DOMAIN map /\ M2[i] = map[i]
    BY <1>11, <1>17 DEF Owned
  <2>3. \A i : Owned(map, y, i) => i # r /\ Owned(M2, y, i) /\ M2[i] = map[i]
    BY <1>6, <1>11 DEF Owned
  <2>4. Untouched(y, q, map, q2, M2)
    BY <1>14, <2>2, <2>3 DEF Untouched, Owned, SeenBut, RmKept
  <2> QED
    BY <1>9, <2>1, <2>4, AllFrame, SameAlike
<1>18. XInv(x)'
  <2> DEFINE v == View(x)
             v2 == View(x)'
  <2>1. ViewIs(x) /\ ViewIs(x)'
    BY ViewNow, ViewThen
  <2>2. XInvOf(x, v, q, map)
    BY <1>9 DEF AInv, XInv
  <2> HIDE DEF v, v2
  <2>3. v.out # << >> /\ v.out[1] = m
    BY <1>4, <2>1 DEF ViewIs, v
  <2>4. Len(x2i[x]) = 1
    BY <2>1, <2>2, <2>3 DEF XInvOf, XQueue, ViewIs, v
  <2>5. x2i'[x] = << >>
    <3>1. x2i'[x] = Tail(x2i[x]) /\ x2i[x] \in Seq(XMsg)
      BY <1>1, <1>7 DEF XTypes
    <3>2. Len(Tail(x2i[x])) = 0 /\ Tail(x2i[x]) \in Seq(XMsg)
      BY <1>4, <2>4, <3>1
    <3> QED
      BY <3>1, <3>2, EmptySeq
  <2>6. Taken(v, v2)
    BY <1>7, <2>1, <2>5 DEF ViewIs, v, v2, Taken, xappVars
  <2>7. Owned(M2, x, r) /\ M2[r].k = m.k
    BY <1>11 DEF Owned
  <2>8. UntouchedBut(x, q, map, q2, M2, r)
    BY <1>11, <1>14 DEF UntouchedBut, Owned, SeenBut, RmKept
  <2>9. XInvOf(x, v2, q2, M2)
    BY <1>4, <1>6, <1>14, <2>2, <2>3, <2>6, <2>7, <2>8, RequestTaken DEF Only
  <2> QED
    BY <1>9, <2>9 DEF XInv, v2
<1> QED
  BY <1>8, <1>15, <1>16, <1>17, <1>18 DEF AInv

\* Deletions are sent.
LEMMA FwdDeleteA ==
  ASSUME NEW ids, SInv, SInv', AInv, ids \subseteq DOMAIN map, Subscribed(map, ids), FwdDelete(ids),
         UNCHANGED <<map, req, pool, toRic, ind>>
  PROVE  /\ RInv' /\ Kept'
         /\ SeenBut(Route, Route', ids) /\ RmKept(Route, Route')
         /\ \A i : Clear(Route, i) => Only(Route', i, "del")
<1>1. TypeOK /\ Numbers /\ RTypes /\ RTypes'
  BY TypeParts, TypePartsNext DEF SInv, Life
<1>2. RouteLife /\ RouteLife'
  BY RouteLives, RouteLivesNext
<1> DEFINE fr == Fresh(ids, rpend)
<1>3. PendedAll(rpend, rpend', fr) /\ SendDeletes(fr) /\ fr \subseteq DOMAIN map
  BY DEF FwdDelete, Fresh, PendedAll
<1>4. PICK fresh : fresh = fr
  OBVIOUS
<1> HIDE DEF fr
<1>5. PICK q, q2, A2, l, a, b, p :
        /\ q = Route /\ q2 = Route' /\ A2 = toAg' /\ l = Len(Route) /\ a = Len(toAg)
        /\ b = Len(toAg') /\ p = Len(pool)
        /\ l \in Nat /\ a \in Nat /\ b \in Nat /\ p \in Nat /\ p <= l
  <2>1. Len(toAg) \in Nat /\ Len(toAg') \in Nat
    BY <1>1 DEF RTypes
  <2> QED
    BY <1>2, <2>1 DEF RouteLife
<1>6. /\ A2 \in Seq(Msg) /\ a <= b /\ \A n \in 1..a : A2[n] = toAg[n]
  BY <1>1, <1>3, <1>5, DeletesSent
<1>7. /\ \A n \in (a + 1)..b : A2[n].kind = "del" /\ A2[n].id \in fresh
      /\ \A n, k \in (a + 1)..b : A2[n].id = A2[k].id => n = k
      /\ \A i \in fresh : \E n \in (a + 1)..b : A2[n].id = i
  BY <1>1, <1>3, <1>4, <1>5, DeletesEach
<1>8. /\ Len(q2) = l + (b - a) /\ \A n \in 1..l : q2[n] = q[n]
      /\ \A n \in (a + 1)..b : q2[l + (n - a)] = Lift(A2[n])
  <2>1. RouteOf(q, pool, toRic, toAg) /\ RouteOf(q2, pool, toRic, A2)
    BY <1>2, <1>5 DEF RouteLife
  <2>2. pool \in Seq(Task0) /\ toRic \in Seq(Msg) /\ toAg \in Seq(Msg)
    BY <1>1 DEF RTypes
  <2>3. Len(toAg) <= Len(A2) /\ \A n \in 1..Len(toAg) : A2[n] = toAg[n]
    BY <1>5, <1>6
  <2>4. /\ Len(q2) = Len(q) + (Len(A2) - Len(toAg)) /\ \A n \in 1..Len(q) : q2[n] = q[n]
        /\ \A n \in (Len(toAg) + 1)..Len(A2) : q2[Len(q) + (n - Len(toAg))] = Lift(A2[n])
    BY <1>6, <2>1, <2>2, <2>3, IappAdds
  <2>5. Len(q) = l /\ Len(A2) = b /\ Len(toAg) = a
    BY <1>5
  <2> QED
    BY <2>4, <2>5
<1>9. PICK h \in Nat : h = l + (b - a) /\ Len(q2) = h /\ l <= h /\ h - l = b - a
  <2>1. l \in Nat /\ a \in Nat /\ b \in Nat /\ a <= b
    BY <1>5, <1>6
  <2>2. l + (b - a) \in Nat /\ l <= l + (b - a) /\ (l + (b - a)) - l = b - a
    BY <2>1
  <2>3. Len(q2) = l + (b - a)
    BY <1>8
  <2> QED
    BY <2>2, <2>3
<1>10. ASSUME NEW n \in (l + 1)..h
       PROVE  \E k \in (a + 1)..b : n = l + (k - a) /\ q2[n] = Lift(A2[k])
  <2>1. PICK k \in (a + 1)..b : k = a + (n - l) /\ n = l + (k - a)
    <3>1. a + (n - l) \in (a + 1)..b /\ n = l + ((a + (n - l)) - a)
      BY <1>5, <1>6, <1>9
    <3> QED
      BY <3>1
  <2> QED
    BY <1>8, <2>1
<1>11. \A k \in (a + 1)..b : l + (k - a) \in (l + 1)..h
  BY <1>5, <1>6, <1>9
<1>12. ASSUME NEW n \in (l + 1)..h
       PROVE  q2[n].kind = "del" /\ q2[n].pc = "start" /\ q2[n].id \in fresh
  <2>1. PICK k \in (a + 1)..b : q2[n] = Lift(A2[k])
    BY <1>10
  <2>2. A2[k].kind = "del" /\ A2[k].id \in fresh
    BY <1>7
  <2> QED
    BY <2>1, <2>2 DEF Lift
<1>13. ASSUME NEW n \in (l + 1)..h, NEW k \in (l + 1)..h, q2[n].id = q2[k].id
       PROVE  n = k
  <2>1. PICK i \in (a + 1)..b : n = l + (i - a) /\ q2[n] = Lift(A2[i])
    BY <1>10
  <2>2. PICK j \in (a + 1)..b : k = l + (j - a) /\ q2[k] = Lift(A2[j])
    BY <1>10
  <2>3. A2[i].id = A2[j].id
    BY <1>13, <2>1, <2>2 DEF Lift
  <2> QED
    BY <1>7, <2>1, <2>2, <2>3
<1>14. ASSUME NEW i \in fresh
       PROVE  \E n \in (l + 1)..h : q2[n].id = i
  <2>1. PICK k \in (a + 1)..b : A2[k].id = i
    BY <1>7
  <2>2. q2[l + (k - a)].id = i
    <3>1. q2[l + (k - a)] = Lift(A2[k])
      BY <1>8
    <3> QED
      BY <2>1, <3>1 DEF Lift
  <2> QED
    BY <1>11, <2>2
<1>15. PutDeletes(q, q2, fresh)
  <2>1. Len(q) = l /\ Len(q2) = h
    BY <1>5, <1>9
  <2> QED
    BY <1>8, <1>9, <1>12, <1>13, <1>14, <2>1 DEF PutDeletes
<1>16. DeleteStep(q, q2, p, map, rpend, rpend', ids, fresh)
  <2>1. RouteInv(q, p, map, rpend)
    BY <1>5 DEF AInv, RInv
  <2> QED
    BY <1>3, <1>4, <1>5, <1>9, <1>15, <2>1 DEF DeleteStep, fr
<1>17. /\ RouteInv(q2, p, map, rpend')
       /\ SeenBut(q, q2, ids) /\ RmKept(q, q2)
       /\ \A i : Clear(q, i) => Only(q2, i, "del")
  BY <1>16, DeletedOK
<1>18. Kept'
  <2>1. \A n \in 1..Len(toAg) : n \in 1..Len(toAg') /\ toAg'[n] = toAg[n]
    BY <1>5, <1>6
  <2> QED
    BY <2>1 DEF AInv, Kept
<1> QED
  BY <1>5, <1>17, <1>18 DEF RInv

\* The deletions of the numbers of one xApp do not concern another one.
LEMMA NotConcerned ==
  ASSUME NEW y, NEW ids, NEW q, NEW q2, NEW M, SeenBut(q, q2, ids), RmKept(q, q2),
         \A i : Owned(M, y, i) => i \notin ids
  PROVE  Untouched(y, q, M, q2, M)
BY DEF Untouched, SeenBut, RmKept

\* The iApp deletes the one subscription that was asked for.
LEMMA IappDeleteA ==
  ASSUME NEW x \in XApps, ~Shared, SInv, AInv, IappDelete(x)
  PROVE  AInv'
<1> DEFINE m == Head(x2i[x])
           v == View(x)
           v2 == View(x)'
           found == {i \in DOMAIN map : SameId(x, m.k, i)}
           first == {i \in found : \A j \in found : map[i].x <= map[j].x}
<1>1. XTypes /\ RTypes /\ asserts = {}
  BY TypeParts DEF SInv, AInv
<1>2. SInv'
  BY IappOK DEF IappStep
<1>3. ViewIs(x) /\ ViewIs(x)'
  BY ViewNow, ViewThen
<1>4. XInvOf(x, v, Route, map)
  BY DEF AInv, XInv
<1>5. /\ x2i[x] # << >> /\ m.kind = "del" /\ FwdDelete(first)
      /\ asserts' = asserts \cup {a \in {"Not found xApp RIC ID"} : found = {}}
                            \cup {a \in {"not a subscription"} : \E i \in first : map[i].type # "sub"}
      /\ x2i' = [x2i EXCEPT ![x] = Tail(@)]
      /\ UNCHANGED <<xappVars, i2x, bounced, map, req, pool, toRic, ind>>
  BY DEF IappDelete
<1>6. x2i[x] \in Seq(XMsg) /\ m = x2i[x][1]
  <2>1. x2i[x] \in Seq(XMsg) /\ x2i[x] # << >>
    BY <1>1, <1>5 DEF XTypes
  <2> QED
    BY <2>1
<1> HIDE DEF m, v, v2
<1>7. v.out # << >> /\ v.out[1] = m /\ v.out[1].kind = "del" /\ Held(map, Route, x, m.k) /\ Len(x2i[x]) = 1
  BY <1>3, <1>4, <1>5, <1>6 DEF ViewIs, v, XInvOf, XQueue
<1>8. PICK r \in DOMAIN map : map[r].x = x /\ map[r].k = m.k /\ map[r].type = "sub" /\ Clear(Route, r)
  BY <1>7 DEF Held
<1>9. found = {r}
  <2>1. r \in found
    BY <1>8 DEF SameId
  <2>2. ASSUME NEW i \in found PROVE i = r
    <3>1. i \in DOMAIN map /\ map[i].k = m.k /\ map[i].x = x
      BY <2>2 DEF SameId, RanFunc
    <3> QED
      BY <1>4, <1>8, <3>1 DEF XInvOf, XOwn, Owned
  <2> QED
    BY <2>1, <2>2
<1> HIDE DEF found
<1>10. first = {r}
  <2>1. map[r].x <= map[r].x
    BY <1>8, SubscriptionAssumption
  <2> QED
    BY <1>9, <2>1
<1> HIDE DEF first
<1>11. asserts' = {}
  BY <1>1, <1>5, <1>8, <1>9, <1>10
<1>12. /\ RInv' /\ Kept'
       /\ SeenBut(Route, Route', first) /\ RmKept(Route, Route')
       /\ \A i : Clear(Route, i) => Only(Route', i, "del")
  <2>1. first \subseteq DOMAIN map /\ Subscribed(map, first)
    BY <1>8, <1>10 DEF Subscribed
  <2> QED
    BY <1>2, <1>5, <2>1, FwdDeleteA
<1>13. ASSUME NEW y \in XApps, y # x
       PROVE  XInv(y)'
  <2>1. View(y)' = View(y)
    <3>1. x2i'[y] = x2i[y]
      BY <1>1, <1>5, <1>13 DEF XTypes
    <3> QED
      BY <1>5, <3>1, ViewSame DEF xappVars
  <2>2. \A i : Owned(map, y, i) => i \notin first
    BY <1>8, <1>10, <1>13 DEF Owned
  <2>3. Untouched(y, Route, map, Route', map)
    BY <1>12, <2>2, NotConcerned
  <2> QED
    BY <1>5, <2>1, <2>3, AllFrame, SameAlike
<1>14. XInv(x)'
  <2>1. x2i'[x] = << >>
    <3>1. x2i'[x] = Tail(x2i[x])
      BY <1>1, <1>5 DEF XTypes
    <3>2. x2i[x] \in Seq(XMsg) /\ x2i[x] # << >> /\ Len(x2i[x]) = 1
      BY <1>5, <1>6, <1>7
    <3>3. Len(Tail(x2i[x])) = 0 /\ Tail(x2i[x]) \in Seq(XMsg)
      BY <3>2
    <3> QED
      BY <3>1, <3>3, EmptySeq
  <2>2. Taken(v, v2)
    BY <1>3, <1>5, <2>1 DEF ViewIs, v, v2, Taken, xappVars
  <2>3. UntouchedBut(x, Route, map, Route', map, r)
    BY <1>10, <1>12 DEF UntouchedBut, SeenBut, RmKept
  <2>4. Owned(map, x, r) /\ map[r].k = v.out[1].k
    BY <1>7, <1>8 DEF Owned
  <2>5. Rm(Route, r) => Rm(Route', r)
    BY <1>12 DEF RmKept
  <2>6. Single(Route', r) /\ \A c \in Kinds : Busy(Route', c, r) => c = "del"
    BY <1>8, <1>12 DEF Only
  <2>7. XInvOf(x, v2, Route', map)
    BY <1>4, <1>7, <2>2, <2>3, <2>4, <2>5, <2>6, DeleteTaken
  <2> QED
    BY <1>5, <2>7 DEF XInv, v2
<1> QED
  BY <1>11, <1>12, <1>13, <1>14 DEF AInv

\* The iApp deletes the subscriptions of an xApp that has ended.
LEMMA IappBounceA ==
  ASSUME NEW x \in XApps, SInv, AInv, IappBounce(x)
  PROVE  AInv'
<1> DEFINE v == View(x)
           v2 == View(x)'
           ids == {i \in DOMAIN map : map[i].x = x /\ map[i].type = "sub"}
<1>1. XTypes /\ RTypes /\ asserts = {}
  BY TypeParts DEF SInv, AInv
<1>2. SInv'
  BY IappOK DEF IappStep
<1>3. ViewIs(x) /\ ViewIs(x)'
  BY ViewNow, ViewThen
<1>4. XInvOf(x, v, Route, map)
  BY DEF AInv, XInv
<1>5. /\ x \in bounced /\ x2i[x] = << >> /\ bounced' = bounced \ {x} /\ FwdDelete(ids)
      /\ UNCHANGED <<xappVars, x2i, i2x, map, req, pool, toRic, ind, asserts>>
  BY DEF IappBounce
<1> HIDE DEF v, v2
<1>6. ids \subseteq DOMAIN map /\ Subscribed(map, ids)
  BY DEF Subscribed
<1>7. \A y, i : y # x /\ Owned(map, y, i) => i \notin ids
  BY DEF Owned
<1> HIDE DEF ids
<1>8. /\ RInv' /\ Kept'
      /\ SeenBut(Route, Route', ids) /\ RmKept(Route, Route')
  BY <1>2, <1>5, <1>6, FwdDeleteA
<1>9. ASSUME NEW y \in XApps, y # x
      PROVE  XInv(y)'
  <2>1. View(y)' = View(y)
    BY <1>5, <1>9, ViewSame DEF xappVars
  <2>2. Untouched(y, Route, map, Route', map)
    BY <1>7, <1>8, <1>9, NotConcerned
  <2> QED
    BY <1>5, <2>1, <2>2, AllFrame, SameAlike
<1>10. XInv(x)'
  <2>1. v.bo /\ ~v2.bo /\ v.out = << >>
    BY <1>3, <1>5 DEF ViewIs, v, v2
  <2>2. ~v.up
    BY <1>4, <2>1 DEF XInvOf, XLocal
  <2>3. /\ v2.up = v.up /\ v2.c = v.c /\ v2.flag = v.flag /\ v2.act = v.act
        /\ v2.nextk = v.nextk /\ v2.pend = v.pend /\ v2.out = << >> /\ v2.ans = v.ans
        /\ v2.lone = v.lone /\ v2.any = v.any
    BY <1>3, <1>5 DEF ViewIs, v, v2, xappVars
  <2>4. XInvOf(x, v2, Route', map)
    BY <1>4, <2>1, <2>2, <2>3, CleanedUp
  <2> QED
    BY <1>5, <2>4 DEF XInv, v2
<1> QED
  BY <1>1, <1>5, <1>8, <1>9, <1>10 DEF AInv

\* A step beyond the iApp after which the xApps need not know anything new.
LEMMA InnerStep ==
  ASSUME AInv, UNCHANGED <<xappVars, x2i, i2x, bounced, map>>, asserts' = {}, RInv', Kept',
         Seen(Route, Route'), RmKept(Route, Route')
  PROVE  AInv'
<1> SUFFICES ASSUME NEW y \in XApps
             PROVE  XInv(y)'
  BY DEF AInv
<1>1. View(y)' = View(y)
  BY ViewSame DEF xappVars
<1>2. Untouched(y, Route, map, Route', map)
  BY DEF Untouched, Seen, RmKept
<1> QED
  BY <1>1, <1>2, AllFrame, SameAlike

\* A queue is seen as itself.
LEMMA SeenSelf == \A q : Seen(q, q) /\ RmKept(q, q)
BY DEF Seen, RmKept

\* A queue after its head was taken.
LEMMA TailElements ==
  ASSUME NEW S, NEW s \in Seq(S), s # << >>
  PROVE  /\ Head(s) = s[1] /\ Head(s) \in S /\ Tail(s) \in Seq(S)
         /\ \A n \in 1..Len(s) : n # 1 => \E k \in 1..Len(Tail(s)) : Tail(s)[k] = s[n]
<1>1. PICK l \in Nat : l + 1 = Len(s)
  <2>1. Len(s) \in Nat /\ Len(s) # 0
    BY EmptySeq
  <2> QED
    BY <2>1
<1>2. Len(Tail(s)) = l /\ \A n \in 1..l : Tail(s)[n] = s[n + 1]
  BY <1>1
<1>3. ASSUME NEW n \in 1..Len(s), n # 1
      PROVE  \E k \in 1..Len(Tail(s)) : Tail(s)[k] = s[n]
  <2>1. n - 1 \in 1..l /\ n = (n - 1) + 1
    BY <1>1, <1>3
  <2> QED
    BY <1>2, <2>1
<1> QED
  BY <1>3

\* A queue after something was put at its end.
LEMMA AppendElements ==
  ASSUME NEW S, NEW s \in Seq(S), NEW e \in S
  PROVE  /\ \A n \in 1..Len(s) : n \in 1..Len(Append(s, e)) /\ Append(s, e)[n] = s[n]
         /\ \E n \in 1..Len(Append(s, e)) : Append(s, e)[n] = e
<1>1. PICK l \in Nat : l = Len(s)
  OBVIOUS
<1>2. Len(Append(s, e)) = l + 1 /\ (\A n \in 1..l : Append(s, e)[n] = s[n]) /\ Append(s, e)[l + 1] = e
  BY <1>1, AppendProperties
<1>3. (\A n \in 1..l : n \in 1..(l + 1)) /\ l + 1 \in 1..(l + 1)
  OBVIOUS
<1> QED
  BY <1>1, <1>2, <1>3

\* The agent answers.
LEMMA AgentHandleA ==
  ASSUME SInv, AInv, AgentHandle
  PROVE  AInv'
<1>1. SInv'
  BY AgentHandleOK
<1>2. RTypes /\ RTypes' /\ asserts = {}
  BY <1>1, TypeParts, TypePartsNext DEF SInv, AInv
<1>3. RouteLife /\ RouteLife'
  BY <1>1, RouteLives, RouteLivesNext
<1>4. /\ toAg # << >> /\ toRic' = Append(toRic, Head(toAg)) /\ toAg' = Tail(toAg)
      /\ ind' = CASE Head(toAg).kind = "sub" -> ind \cup {Head(toAg).id}
                  [] Head(toAg).kind = "del" -> ind \ {Head(toAg).id}
                  [] OTHER -> ind
      /\ UNCHANGED <<xappVars, x2i, i2x, bounced, map, req, rpend, pool, asserts>>
  BY DEF AgentHandle
<1>5. pool \in Seq(Task0) /\ toRic \in Seq(Msg) /\ toAg \in Seq(Msg)
  BY <1>2 DEF RTypes
<1>6. Route' = Route
  <2>1. RouteOf(Route, pool, toRic, toAg) /\ RouteOf(Route', pool, Append(toRic, Head(toAg)), Tail(toAg))
    BY <1>3, <1>4 DEF RouteLife
  <2> QED
    BY <1>4, <1>5, <2>1, AgentMoves
<1>7. RInv'
  BY <1>4, <1>6 DEF AInv, RInv
<1>8. Kept'
  <2> SUFFICES ASSUME NEW i \in DOMAIN map
               PROVE  \/ i \in ind'
                      \/ \E n \in 1..Len(toAg') : toAg'[n].id = i /\ toAg'[n].kind \in {"sub", "ctrl"}
                      \/ \E n \in 1..Len(toRic') : toRic'[n].id = i /\ toRic'[n].kind \in {"del", "ctrl"}
                      \/ \E n \in 1..Len(pool) : pool[n].id = i /\ pool[n].kind \in {"del", "ctrl"}
    BY <1>4 DEF Kept
  <2>1. PICK e \in Msg : e = Head(toAg) /\ e = toAg[1]
    BY <1>4, <1>5, TailElements
  <2>2. \A n \in 1..Len(toAg) : n # 1 => \E k \in 1..Len(toAg') : toAg'[k] = toAg[n]
    BY <1>4, <1>5, TailElements
  <2>3. /\ \A n \in 1..Len(toRic) : n \in 1..Len(toRic') /\ toRic'[n] = toRic[n]
        /\ \E n \in 1..Len(toRic') : toRic'[n] = e
    <3>1. toRic' = Append(toRic, e) /\ toRic \in Seq(Msg) /\ e \in Msg
      BY <1>4, <1>5, <2>1
    <3>2. /\ \A n \in 1..Len(toRic) : n \in 1..Len(Append(toRic, e)) /\ Append(toRic, e)[n] = toRic[n]
          /\ \E n \in 1..Len(Append(toRic, e)) : Append(toRic, e)[n] = e
      BY <3>1, AppendElements
    <3> QED
      BY <3>1, <3>2
  <2>4. CASE i \in ind
    BY <1>4, <2>1, <2>3, <2>4
  <2>5. CASE \E n \in 1..Len(toAg) : toAg[n].id = i /\ toAg[n].kind \in {"sub", "ctrl"}
    <3>1. PICK n \in 1..Len(toAg) : toAg[n].id = i /\ toAg[n].kind \in {"sub", "ctrl"}
      BY <2>5
    <3>2. CASE n = 1
      BY <1>4, <2>1, <2>3, <3>1, <3>2
    <3>3. CASE n # 1
      BY <2>2, <3>1, <3>3
    <3> QED
      BY <3>2, <3>3
  <2>6. CASE \E n \in 1..Len(toRic) : toRic[n].id = i /\ toRic[n].kind \in {"del", "ctrl"}
    BY <2>3, <2>6
  <2> QED
    BY <2>4, <2>5, <2>6 DEF AInv, Kept
<1>9. Seen(Route, Route') /\ RmKept(Route, Route')
  BY <1>6, SeenSelf
<1> QED
  BY <1>2, <1>4, <1>7, <1>8, <1>9, InnerStep

\* The agent reports.
LEMMA AgentIndicateA ==
  ASSUME SInv, AInv, NEW i \in ind, AgentIndicate(i)
  PROVE  AInv'
<1>1. SInv'
  BY AgentIndicateOK
<1>2. RTypes /\ RTypes' /\ asserts = {}
  BY <1>1, TypeParts, TypePartsNext DEF SInv, AInv
<1>3. RouteLife /\ RouteLife'
  BY <1>1, RouteLives, RouteLivesNext
<1>4. PICK m \in Msg : m.kind = "ind" /\ toRic' = Append(toRic, m)
  <2>1. [kind |-> "ind", id |-> i] \in Msg
    BY <1>2 DEF RTypes, Msg
  <2> QED
    BY <2>1 DEF AgentIndicate
<1>5. UNCHANGED <<xappVars, x2i, i2x, bounced, map, req, rpend, pool, toAg, ind, asserts>>
  BY DEF AgentIndicate
<1>6. pool \in Seq(Task0) /\ toRic \in Seq(Msg) /\ toAg \in Seq(Msg)
  BY <1>2 DEF RTypes
<1>7. PICK q, q2, l, p : /\ q = Route /\ q2 = Route' /\ l = Len(Route) /\ l \in Nat
                         /\ p = Len(pool) /\ p \in Nat /\ p <= l
  BY <1>3 DEF RouteLife
<1>8. PICK j \in (p + 1)..(l + 1) :
        /\ Len(q2) = l + 1 /\ q2[j] = Lift(m)
        /\ \A n \in 1..l : IF n < j THEN q2[n] = q[n] ELSE q2[n + 1] = q[n]
  <2>1. RouteOf(q, pool, toRic, toAg) /\ RouteOf(q2, pool, Append(toRic, m), toAg)
    BY <1>3, <1>4, <1>5, <1>7 DEF RouteLife
  <2>2. Inserted(q, q2, Len(pool), m)
    BY <1>6, <2>1, AgentAdds
  <2>3. Len(q) = l /\ Len(pool) = p
    BY <1>7
  <2> QED
    BY <2>2, <2>3 DEF Inserted
<1>9. InsertStep(q, q2, p, j, map, rpend)
  <2>1. q2[j].kind = "ind" /\ q2[j].pc = "start"
    BY <1>4, <1>8 DEF Lift
  <2>2. q \in Seq(Task0) /\ q2 \in Seq(Task0) /\ StagesOf(q2)
    BY <1>3, <1>7 DEF RouteLife
  <2>3. Len(q) = l /\ p \in 0..l
    BY <1>7
  <2>4. RouteInv(q, p, map, rpend)
    BY <1>7 DEF AInv, RInv
  <2> QED
    BY <1>8, <2>1, <2>2, <2>3, <2>4 DEF InsertStep
<1>10. RouteInv(q2, p, map, rpend) /\ Seen(q, q2) /\ \A k : Rm(q, k) => Rm(q2, k)
  BY <1>9, InsertedOK
<1>11. RInv'
  BY <1>5, <1>7, <1>10 DEF RInv
<1>12. Kept'
  <2>1. \A n \in 1..Len(toRic) : n \in 1..Len(toRic') /\ toRic'[n] = toRic[n]
    BY <1>4, <1>6, AppendElements
  <2> QED
    BY <1>5, <2>1 DEF AInv, Kept
<1>13. Seen(Route, Route') /\ RmKept(Route, Route')
  BY <1>7, <1>10 DEF RmKept
<1> QED
  BY <1>2, <1>5, <1>11, <1>12, <1>13, InnerStep

\* The RIC hands a message to the pool.
LEMMA RicReceiveA ==
  ASSUME Prompt, SInv, AInv, PromptWorkers, RicReceive
  PROVE  AInv'
<1>1. SInv'
  BY RicReceiveOK
<1>2. RTypes /\ RTypes' /\ asserts = {}
  BY <1>1, TypeParts, TypePartsNext DEF SInv, AInv
<1>3. RouteLife /\ RouteLife'
  BY <1>1, RouteLives, RouteLivesNext
<1>4. /\ toRic # << >> /\ pool' = Append(pool, Lift(Head(toRic))) /\ toRic' = Tail(toRic)
      /\ Head(toRic).kind = "del" =>
           ~\E t \in Range(pool) : t.kind # "ind" /\ t.id = Head(toRic).id
      /\ UNCHANGED <<xappVars, x2i, i2x, bounced, map, req, rpend, toAg, ind, asserts>>
  BY DEF RicReceive, Lift, PromptWorkers
<1>5. pool \in Seq(Task0) /\ toRic \in Seq(Msg) /\ toAg \in Seq(Msg)
  BY <1>2 DEF RTypes
<1>6. PICK q : q = Route /\ Route' = q
  <2>1. /\ RouteOf(Route, pool, toRic, toAg)
        /\ RouteOf(Route', Append(pool, Lift(Head(toRic))), Tail(toRic), toAg)
    BY <1>3, <1>4 DEF RouteLife
  <2> QED
    BY <1>4, <1>5, <2>1, RicTakes
<1>7. PICK m \in Msg : m = Head(toRic) /\ m = toRic[1] /\ Lift(m) \in Task0
  <2>1. Head(toRic) \in Msg /\ Head(toRic) = toRic[1]
    BY <1>4, <1>5, TailElements
  <2>2. \A e \in Msg : Lift(e) \in Task0
    BY DEF Lift, Msg, Task0
  <2> QED
    BY <2>1, <2>2
<1>8. PICK p \in Nat : /\ p = Len(pool) /\ Len(pool') = p + 1 /\ p + 1 <= Len(q) /\ q[p + 1] = Lift(m)
                       /\ \A n \in 1..p : q[n] = pool[n]
  <2>1. PICK p \in Nat : p = Len(pool)
    BY <1>5
  <2>2. Len(pool') = p + 1 /\ pool'[p + 1] = Lift(m) /\ \A n \in 1..p : pool'[n] = pool[n]
    BY <1>4, <1>5, <1>7, <2>1, AppendProperties
  <2>3. /\ Len(pool') <= Len(q) /\ \A n \in 1..Len(pool') : q[n] = pool'[n]
    BY <1>3, <1>6 DEF RouteLife, RouteOf
  <2>4. \A n \in 1..p : n \in 1..(p + 1)
    BY <2>1
  <2>5. p + 1 \in 1..(p + 1)
    BY <2>1
  <2> QED
    BY <2>1, <2>2, <2>3, <2>4, <2>5
<1>9. TakeStep(q, p, map, rpend)
  <2>1. Len(q) \in Nat /\ \A n \in 1..Len(q) : q[n].kind \in Kinds \cup {"ind"}
    <3>1. Len(q) \in Nat /\ \A n \in 1..Len(q) : q[n] \in Task0
      BY <1>3, <1>6 DEF RouteLife, RouteOf
    <3> QED
      BY <3>1 DEF Task0
  <2>2. q[p + 1].kind = m.kind /\ q[p + 1].id = m.id
    BY <1>8 DEF Lift
  <2>3. m.kind = "del" => \A n \in 1..p : ~(q[n].kind # "ind" /\ q[n].id = m.id)
    <3>1. \A n \in 1..p : pool[n] \in Range(pool)
      <4>1. \A n \in 1..p : n \in DOMAIN pool
        BY <1>5, <1>8
      <4> QED
        BY <4>1 DEF Range
    <3> QED
      BY <1>4, <1>7, <1>8, <3>1
  <2>4. RouteInv(q, p, map, rpend)
    BY <1>6, <1>8 DEF AInv, RInv
  <2> QED
    BY <1>8, <2>1, <2>2, <2>3, <2>4 DEF TakeStep
<1>10. RInv'
  <2>1. RouteInv(q, p + 1, map, rpend)
    BY <1>9, TakenOK
  <2> QED
    BY <1>4, <1>6, <1>8, <2>1 DEF RInv
<1>11. Kept'
  <2>1. \A n \in 1..Len(toRic) : n # 1 => \E k \in 1..Len(toRic') : toRic'[k] = toRic[n]
    BY <1>4, <1>5, TailElements
  <2>2. /\ \A n \in 1..Len(pool) : n \in 1..Len(pool') /\ pool'[n] = pool[n]
        /\ \E n \in 1..Len(pool') : pool'[n] = Lift(m)
    <3>1. PICK e \in Task0 : e = Lift(m)
      BY <1>7
    <3>2. pool' = Append(pool, e) /\ pool \in Seq(Task0)
      BY <1>4, <1>5, <1>7, <3>1
    <3>3. /\ \A n \in 1..Len(pool) : n \in 1..Len(Append(pool, e)) /\ Append(pool, e)[n] = pool[n]
          /\ \E n \in 1..Len(Append(pool, e)) : Append(pool, e)[n] = e
      BY <3>2, AppendElements
    <3> QED
      BY <3>1, <3>2, <3>3
  <2>3. Lift(m).id = toRic[1].id /\ Lift(m).kind = toRic[1].kind
    BY <1>7 DEF Lift
  <2> SUFFICES ASSUME NEW i \in DOMAIN map
               PROVE  \/ i \in ind
                      \/ \E n \in 1..Len(toAg) : toAg[n].id = i /\ toAg[n].kind \in {"sub", "ctrl"}
                      \/ \E n \in 1..Len(toRic') : toRic'[n].id = i /\ toRic'[n].kind \in {"del", "ctrl"}
                      \/ \E n \in 1..Len(pool') : pool'[n].id = i /\ pool'[n].kind \in {"del", "ctrl"}
    BY <1>4 DEF Kept
  <2>4. CASE \E n \in 1..Len(toRic) : toRic[n].id = i /\ toRic[n].kind \in {"del", "ctrl"}
    <3>1. PICK n \in 1..Len(toRic) : toRic[n].id = i /\ toRic[n].kind \in {"del", "ctrl"}
      BY <2>4
    <3>2. CASE n = 1
      BY <2>2, <2>3, <3>1, <3>2
    <3>3. CASE n # 1
      BY <2>1, <3>1, <3>3
    <3> QED
      BY <3>2, <3>3
  <2> QED
    BY <2>2, <2>4 DEF AInv, Kept
<1>12. Seen(Route, Route') /\ RmKept(Route, Route')
  BY <1>6, SeenSelf
<1> QED
  BY <1>2, <1>4, <1>10, <1>11, <1>12, InnerStep

-----------------------------------------------------------------------------
\* A message is put at the end of what is on the way to an xApp.
LEMMA AnswersAppend ==
  ASSUME NEW s \in Seq(IMsg), NEW e \in IMsg
  PROVE  /\ e.kind = "ind" => /\ Answers(Append(s, e)) = Answers(s)
                              /\ Lone(s) => Lone(Append(s, e))
         /\ e.kind # "ind" => /\ Answers(Append(s, e)) = Answers(s) \cup {e}
                              /\ Answers(s) = {} => Lone(Append(s, e))
<1>1. PICK l, t : l \in Nat /\ l = Len(s) /\ t = Append(s, e)
  <2>1. Len(s) \in Nat
    OBVIOUS
  <2> QED
    BY <2>1
<1>2. Len(t) = l + 1 /\ (\A n \in 1..l : t[n] = s[n]) /\ t[l + 1] = e
  BY <1>1, AppendProperties
<1>3. /\ \A n \in 1..(l + 1) : n \in 1..l \/ n = l + 1
      /\ \A n \in 1..l : n \in 1..(l + 1)
      /\ l + 1 \in 1..(l + 1)
  BY <1>1
<1>4. CASE e.kind = "ind"
  <2>1. Answers(t) = Answers(s)
    BY <1>1, <1>2, <1>3, <1>4 DEF Answers
  <2>2. Lone(s) => Lone(t)
    BY <1>1, <1>2, <1>3, <1>4 DEF Lone
  <2> QED
    BY <1>1, <1>4, <2>1, <2>2
<1>5. CASE e.kind # "ind"
  <2>1. \A n \in 1..l : s[n].kind # "ind" => s[n] \in Answers(s) /\ s[n] \in Answers(t)
    BY <1>1, <1>2, <1>3 DEF Answers
  <2>2. e \in Answers(t)
    BY <1>2, <1>3, <1>5 DEF Answers
  <2>3. Answers(s) \subseteq Answers(t)
    BY <1>1, <2>1 DEF Answers
  <2>4. Answers(t) \subseteq Answers(s) \cup {e}
    BY <1>2, <1>3, <2>1 DEF Answers
  <2>5. Answers(s) = {} => \A n \in 1..l : s[n].kind = "ind"
    BY <2>1
  <2>6. Answers(s) = {} => Lone(t)
    BY <1>2, <1>3, <2>5 DEF Lone
  <2> QED
    BY <1>1, <1>5, <2>2, <2>3, <2>4, <2>6
<1> QED
  BY <1>4, <1>5

\* The iApp sends something to an xApp.
LEMMA ToXappViews ==
  ASSUME XTypes, RTypes, NEW i \in DOMAIN map, NEW kind \in Kinds \cup {"ind"}, ToXapp(i, kind),
         NEW x, x = map[i].x, UNCHANGED <<xappVars, x2i>>
  PROVE  /\ \A y \in XApps : y # x => View(y)' = View(y)
         /\ kind = "ind" \/ ~up[x] => Alike(View(x), View(x)')
         /\ kind # "ind" /\ up[x] =>
              Answering(View(x), View(x)', [kind |-> kind, k |-> map[i].k])
<1>1. map[i] \in [x : XApps, k : 1..MaxProc, type : Kinds]
  BY DEF RTypes
<1>2. x \in XApps /\ map[i].k \in 1..MaxProc
  BY <1>1
<1>3. PICK e \in IMsg : e = [kind |-> kind, k |-> map[i].k] /\ e.kind = kind
  <2>1. [kind |-> kind, k |-> map[i].k] \in IMsg
    BY <1>2 DEF IMsg
  <2>2. [kind |-> kind, k |-> map[i].k].kind = kind
    OBVIOUS
  <2> QED
    BY <2>1, <2>2
<1>4. /\ up[x] => i2x' = [i2x EXCEPT ![x] = Append(@, e)] /\ bounced' = bounced
      /\ ~up[x] => i2x' = i2x /\ bounced' = bounced \cup {x}
  BY <1>2, <1>3 DEF ToXapp
<1>5. i2x[x] \in Seq(IMsg)
  BY <1>2 DEF XTypes
<1>6. ASSUME NEW y \in XApps, y # x
      PROVE  View(y)' = View(y)
  <2>1. i2x'[y] = i2x[y] /\ (y \in bounced') = (y \in bounced)
    BY <1>4, <1>6 DEF XTypes
  <2> QED
    BY <2>1, ViewSame DEF xappVars
<1> DEFINE v == View(x)
           v2 == View(x)'
<1>7. ViewIs(x) /\ ViewIs(x)'
  BY ViewNow, ViewThen
<1> HIDE DEF v, v2
<1>8. /\ v2.up = v.up /\ v2.c = v.c /\ v2.flag = v.flag /\ v2.act = v.act
      /\ v2.nextk = v.nextk /\ v2.pend = v.pend /\ v2.out = v.out /\ v.up = up[x]
  BY <1>7 DEF ViewIs, v, v2, xappVars
<1>9. CASE ~up[x]
  <2>1. /\ v2.ans = v.ans /\ v2.lone = v.lone /\ v2.any = v.any
    BY <1>4, <1>7, <1>9 DEF ViewIs, v, v2
  <2>2. Alike(v, v2)
    BY <1>8, <1>9, <2>1 DEF Alike
  <2> QED
    BY <1>2, <1>6, <1>9, <2>2 DEF v, v2
<1>10. CASE up[x]
  <2>1. PICK s \in Seq(IMsg) : s = i2x[x]
    BY <1>5
  <2>2. i2x'[x] = Append(s, e) /\ bounced' = bounced
    BY <1>2, <1>4, <1>10, <2>1 DEF XTypes
  <2>3. /\ v.ans = Answers(s) /\ v.lone = Lone(s) /\ v2.ans = Answers(Append(s, e))
        /\ v2.lone = Lone(Append(s, e)) /\ v2.bo = v.bo
    BY <1>7, <2>1, <2>2 DEF ViewIs, v, v2
  <2>4. CASE kind = "ind"
    <3>1. Answers(Append(s, e)) = Answers(s) /\ (Lone(s) => Lone(Append(s, e)))
      BY <1>3, <2>4, AnswersAppend
    <3>2. Alike(v, v2)
      BY <1>8, <1>10, <2>3, <3>1 DEF Alike
    <3> QED
      BY <1>2, <1>6, <2>4, <3>2 DEF v, v2
  <2>5. CASE kind # "ind"
    <3>1. /\ Answers(Append(s, e)) = Answers(s) \cup {e}
          /\ Answers(s) = {} => Lone(Append(s, e))
      BY <1>3, <2>5, AnswersAppend
    <3>2. Answering(v, v2, e)
      BY <1>8, <2>3, <3>1 DEF Answering
    <3> QED
      BY <1>2, <1>3, <1>6, <1>10, <2>5, <3>2 DEF v, v2
  <2> QED
    BY <2>4, <2>5
<1> QED
  BY <1>9, <1>10

\* A queue without its j-th element has all the others.
LEMMA RemoveAtKeeps ==
  ASSUME NEW S, NEW s \in Seq(S), NEW j \in 1..Len(s)
  PROVE  \A k \in 1..Len(s) : k # j => \E n \in 1..Len(RemoveAt(s, j)) : RemoveAt(s, j)[n] = s[k]
<1> SUFFICES ASSUME NEW k \in 1..Len(s), k # j
             PROVE  \E n \in 1..Len(RemoveAt(s, j)) : RemoveAt(s, j)[n] = s[k]
  OBVIOUS
<1>1. PICK l \in Nat : l + 1 = Len(s)
  <2>1. Len(s) \in Nat /\ Len(s) # 0
    OBVIOUS
  <2> QED
    BY <2>1
<1>2. PICK t : t = RemoveAt(s, j)
  OBVIOUS
<1>3. Len(t) = l /\ \A n \in 1..l : t[n] = IF n < j THEN s[n] ELSE s[n + 1]
  <2>1. Len(s) - 1 = l
    BY <1>1
  <2>2. Len(RemoveAt(s, j)) = Len(s) - 1
        /\ \A n \in 1..(Len(s) - 1) : RemoveAt(s, j)[n] = IF n < j THEN s[n] ELSE s[n + 1]
    BY RemoveAtIndex
  <2> QED
    BY <1>2, <2>1, <2>2
<1>4. CASE k < j
  <2>1. k \in 1..l
    BY <1>1, <1>4
  <2> QED
    BY <1>2, <1>3, <1>4, <2>1
<1>5. CASE k > j
  <2>1. k - 1 \in 1..l /\ (k - 1) + 1 = k /\ ~(k - 1 < j)
    BY <1>1, <1>5
  <2> QED
    BY <1>2, <1>3, <2>1
<1> QED
  BY <1>4, <1>5

\* What a worker that finishes a task leaves.
LEMMA PoolGone ==
  ASSUME SInv, SInv', AInv, NEW j \in 1..Len(pool), pool' = RemoveAt(pool, j),
         UNCHANGED <<toAg, toRic>>, pool[j].kind = "ind" \/ pool[j].pc # "start"
  PROVE  /\ RouteInv(Route', Len(pool'), map, rpend) /\ Seen(Route, Route')
         /\ \A i : Rm(Route, i) /\ ~(pool[j].pc = "rm" /\ pool[j].id = i) => Rm(Route', i)
         /\ pool[j].kind # "ind" /\ Single(Route, pool[j].id) => Clear(Route', pool[j].id)
         /\ Without(Route, Route', j) /\ Route[j] = pool[j]
<1>1. RTypes
  BY TypeParts DEF SInv
<1>2. RouteLife /\ RouteLife'
  BY RouteLives, RouteLivesNext
<1>3. PICK q, q2, l, p : /\ q = Route /\ q2 = Route' /\ l = Len(Route) /\ l \in Nat
                         /\ p = Len(pool) /\ p \in Nat /\ p <= l
  BY <1>2 DEF RouteLife
<1>4. Without(q, q2, j) /\ Len(pool') = p - 1
  <2>1. RouteOf(q, pool, toRic, toAg) /\ RouteOf(q2, RemoveAt(pool, j), toRic, toAg)
    BY <1>2, <1>3 DEF RouteLife
  <2>2. pool \in Seq(Task0) /\ toRic \in Seq(Msg) /\ toAg \in Seq(Msg)
    BY <1>1 DEF RTypes
  <2>3. Without(q, q2, j) /\ Len(RemoveAt(pool, j)) = Len(pool) - 1
    BY <2>1, <2>2, TaskGone
  <2> QED
    BY <1>3, <2>3
<1>5. q[j] = pool[j]
  BY <1>2, <1>3 DEF RouteLife, RouteOf
<1>6. DoneStep(q, q2, p, j, map, rpend)
  <2>1. q \in Seq(Task0) /\ q2 \in Seq(Task0) /\ StagesOf(q2)
    BY <1>2, <1>3 DEF RouteLife
  <2>2. p \in 1..Len(q) /\ j \in 1..p
    BY <1>3
  <2>3. \A e \in rpend : e.kind # "ind"
    BY <1>1 DEF RTypes, Kinds
  <2>4. RouteInv(q, p, map, rpend)
    BY <1>3 DEF AInv, RInv
  <2> QED
    BY <1>4, <1>5, <2>1, <2>2, <2>3, <2>4 DEF DoneStep
<1>7. /\ RouteInv(q2, p - 1, map, rpend) /\ Seen(q, q2)
      /\ \A i : Rm(q, i) /\ ~(q[j].pc = "rm" /\ q[j].id = i) => Rm(q2, i)
      /\ q[j].kind # "ind" /\ Single(q, q[j].id) => Clear(q2, q[j].id)
  BY <1>6, WithoutOK
<1> QED
  BY <1>3, <1>4, <1>5, <1>7

\* What a worker that goes on with a task does to the queue.
LEMMA PoolOn ==
  ASSUME SInv, SInv', NEW j \in 1..Len(pool), NEW pc \in {"find", "rm"},
         pool' = [pool EXCEPT ![j].pc = pc], UNCHANGED <<toAg, toRic>>
  PROVE  /\ Len(pool') = Len(pool) /\ j \in 1..Len(Route) /\ Route[j] = pool[j]
         /\ Stepped(Route, Route', j) /\ Route'[j].pc = pc
<1>1. RTypes
  BY TypeParts DEF SInv
<1>2. RouteLife /\ RouteLife'
  BY RouteLives, RouteLivesNext
<1>3. PICK q, q2, P2 : q = Route /\ q2 = Route' /\ P2 = pool'
  OBVIOUS
<1>4. /\ Len(P2) = Len(pool) /\ Len(q2) = Len(q) /\ j \in 1..Len(q)
      /\ q2[j].kind = q[j].kind /\ q2[j].id = q[j].id /\ q2[j].pc = pc
      /\ \A n \in 1..Len(q) : n # j => q2[n] = q[n]
  <2>1. RouteOf(q, pool, toRic, toAg) /\ RouteOf(q2, P2, toRic, toAg) /\ P2 = [pool EXCEPT ![j].pc = pc]
    BY <1>2, <1>3 DEF RouteLife
  <2>2. pool \in Seq(Task0) /\ toRic \in Seq(Msg) /\ toAg \in Seq(Msg)
    BY <1>1 DEF RTypes
  <2>3. OnStep(pool, toRic, toAg, q, q2, P2, j, pc)
    BY <2>1, <2>2 DEF OnStep
  <2> QED
    BY <2>3, TaskOn
<1>5. q[j] = pool[j]
  BY <1>2, <1>3 DEF RouteLife, RouteOf
<1> QED
  BY <1>3, <1>4, <1>5 DEF Stepped

\* A task that goes on keeps its number and kind.
LEMMA KeptOn ==
  ASSUME AInv, RTypes, NEW j \in 1..Len(pool), NEW pc, pool' = [pool EXCEPT ![j].pc = pc],
         UNCHANGED <<map, toAg, toRic, ind>>
  PROVE  Kept'
<1>1. pool \in Seq(Task0)
  BY DEF RTypes
<1>2. ASSUME NEW n \in 1..Len(pool)
      PROVE  n \in 1..Len(pool') /\ pool'[n].id = pool[n].id /\ pool'[n].kind = pool[n].kind
  <2>1. pool[n] \in Task0 /\ pool[j] \in Task0
    BY <1>1
  <2>2. Len(pool') = Len(pool) /\ pool'[n] = IF n = j THEN [pool[j] EXCEPT !.pc = pc] ELSE pool[n]
    BY <1>1
  <2> QED
    BY <2>1, <2>2 DEF Task0
<1> QED
  BY <1>2 DEF AInv, Kept

\* A task that ends is no longer needed.
LEMMA KeptGone ==
  ASSUME AInv, RTypes, NEW j \in 1..Len(pool), pool' = RemoveAt(pool, j),
         DOMAIN map' \subseteq DOMAIN map,
         pool[j].kind \in {"del", "ctrl"} => pool[j].id \notin DOMAIN map',
         UNCHANGED <<toAg, toRic, ind>>
  PROVE  Kept'
<1>1. \A k \in 1..Len(pool) : k # j => \E n \in 1..Len(pool') : pool'[n] = pool[k]
  BY RemoveAtKeeps DEF RTypes
<1> SUFFICES ASSUME NEW i \in DOMAIN map'
             PROVE  \/ i \in ind
                    \/ \E n \in 1..Len(toAg) : toAg[n].id = i /\ toAg[n].kind \in {"sub", "ctrl"}
                    \/ \E n \in 1..Len(toRic) : toRic[n].id = i /\ toRic[n].kind \in {"del", "ctrl"}
                    \/ \E n \in 1..Len(pool') : pool'[n].id = i /\ pool'[n].kind \in {"del", "ctrl"}
  BY DEF Kept
<1>2. CASE \E n \in 1..Len(pool) : pool[n].id = i /\ pool[n].kind \in {"del", "ctrl"}
  <2>1. PICK n \in 1..Len(pool) : pool[n].id = i /\ pool[n].kind \in {"del", "ctrl"}
    BY <1>2
  <2>2. n # j
    BY <2>1
  <2> QED
    BY <1>1, <2>1, <2>2
<1> QED
  BY <1>2 DEF AInv, Kept

\* An indication is passed on, or dropped.
LEMMA TaskIndicationA ==
  ASSUME SInv, AInv, NEW j \in DOMAIN pool, TaskIndication(j)
  PROVE  AInv'
<1>1. SInv'
  BY TaskOK DEF Task
<1>2. XTypes /\ RTypes /\ asserts = {} /\ j \in 1..Len(pool)
  BY TypeParts DEF SInv, AInv, RTypes
<1>3. /\ pool[j].kind = "ind" /\ pool' = RemoveAt(pool, j)
      /\ UNCHANGED <<xappVars, x2i, map, req, rpend, toAg, toRic, ind, asserts>>
      /\ IF pool[j].id \in DOMAIN map THEN ToXapp(pool[j].id, "ind") ELSE UNCHANGED <<i2x, bounced>>
  BY DEF TaskIndication
<1>4. pool[j].pc # "rm"
  BY <1>2, <1>3 DEF SInv, Life, Stages, Ends
<1>5. RouteInv(Route', Len(pool'), map, rpend) /\ Seen(Route, Route') /\ RmKept(Route, Route')
  BY <1>1, <1>2, <1>3, <1>4, PoolGone DEF RmKept
<1>6. RInv'
  BY <1>3, <1>5 DEF RInv
<1>7. Kept'
  BY <1>2, <1>3, KeptGone
<1>8. CASE pool[j].id \notin DOMAIN map
  BY <1>2, <1>3, <1>5, <1>6, <1>7, <1>8, InnerStep
<1>9. CASE pool[j].id \in DOMAIN map
  <2>1. PICK i \in DOMAIN map : i = pool[j].id
    BY <1>9
  <2>2. PICK x : x = map[i].x
    OBVIOUS
  <2>3. ToXapp(i, "ind")
    BY <1>3, <2>1
  <2>4. (\A y \in XApps : y # x => View(y)' = View(y)) /\ Alike(View(x), View(x)')
    BY <1>2, <1>3, <2>2, <2>3, ToXappViews
  <2>5. ASSUME NEW y \in XApps
        PROVE  XInv(y)'
    <3>1. Alike(View(y), View(y)')
      BY <2>4, SameAlike
    <3>2. Untouched(y, Route, map, Route', map)
      BY <1>5 DEF Untouched, Seen, RmKept
    <3> QED
      BY <1>3, <3>1, <3>2, AllFrame
  <2> QED
    BY <1>2, <1>3, <1>6, <1>7, <2>5 DEF AInv
<1> QED
  BY <1>8, <1>9

\* A worker begins with an answer, whose event is pending.
LEMMA TaskStopPendingA ==
  ASSUME SInv, AInv, NEW j \in DOMAIN pool, TaskStopPending(j)
  PROVE  AInv'
<1>1. SInv'
  BY TaskOK DEF Task
<1>2. RTypes /\ asserts = {} /\ j \in 1..Len(pool)
  BY TypeParts DEF SInv, AInv, RTypes
<1>3. PICK ev : ev = [kind |-> pool[j].kind, id |-> pool[j].id]
  OBVIOUS
<1>4. /\ pool[j].kind # "ind" /\ pool[j].pc = "start" /\ pool' = [pool EXCEPT ![j].pc = "find"]
      /\ asserts' = asserts \cup {a \in {"RIC pending event"} : ev \notin rpend}
      /\ rpend' = rpend \ {ev}
      /\ UNCHANGED <<xappVars, x2i, i2x, bounced, map, req, toAg, toRic, ind>>
  BY <1>3 DEF TaskStopPending
<1>5. RouteLife /\ RouteLife'
  BY <1>1, RouteLives, RouteLivesNext
<1>6. PICK q, q2, p : q = Route /\ q2 = Route' /\ p = Len(pool)
  OBVIOUS
<1>7. /\ Len(pool') = p /\ j \in 1..Len(q) /\ q[j] = pool[j]
      /\ Stepped(q, q2, j) /\ q2[j].pc = "find"
  BY <1>1, <1>2, <1>4, <1>6, PoolOn
<1>8. BeginStep(q, q2, p, j, map, rpend)
  <2>1. p \in Nat /\ p <= Len(q) /\ Len(q) \in Nat /\ StagesOf(q2)
    BY <1>5, <1>6 DEF RouteLife
  <2>2. RouteInv(q, p, map, rpend)
    BY <1>6 DEF AInv, RInv
  <2> QED
    BY <1>2, <1>4, <1>7, <2>1, <2>2 DEF BeginStep, RTypes
<1>9. /\ RouteInv(q2, p, map, rpend \ {[kind |-> q[j].kind, id |-> q[j].id]}) /\ Seen(q, q2)
      /\ \A i : Rm(q, i) => Rm(q2, i)
      /\ [kind |-> q[j].kind, id |-> q[j].id] \in rpend
  BY <1>8, BegunOK
<1>10. RInv' /\ ev \in rpend
  BY <1>3, <1>4, <1>6, <1>7, <1>9 DEF RInv
<1>11. asserts' = {}
  BY <1>2, <1>4, <1>10
<1>12. Kept'
  BY <1>2, <1>4, KeptOn
<1>13. Seen(Route, Route') /\ RmKept(Route, Route')
  BY <1>6, <1>9 DEF RmKept
<1> QED
  BY <1>4, <1>10, <1>11, <1>12, <1>13, InnerStep

\* The map forgets a number, which it knows.
LEMMA TaskRemoveA ==
  ASSUME SInv, AInv, NEW j \in DOMAIN pool, TaskRemove(j)
  PROVE  AInv'
<1>1. SInv'
  BY TaskOK DEF Task
<1>2. RTypes /\ asserts = {} /\ j \in 1..Len(pool)
  BY TypeParts DEF SInv, AInv, RTypes
<1>3. PICK r, M2 : r = pool[j].id /\ M2 = map'
  OBVIOUS
<1>4. /\ pool[j].pc = "rm" /\ pool' = RemoveAt(pool, j)
      /\ asserts' = asserts \cup {a \in {"rm_map_ric_id"} : r \notin DOMAIN map}
      /\ map' = [i \in DOMAIN map \ {r} |-> map[i]]
      /\ UNCHANGED <<xappVars, x2i, i2x, bounced, req, rpend, toAg, toRic, ind>>
  BY <1>3 DEF TaskRemove
<1>5. RouteLife /\ RouteLife'
  BY <1>1, RouteLives, RouteLivesNext
<1>6. PICK q, q2, p, p2 : q = Route /\ q2 = Route' /\ p = Len(pool) /\ p2 = Len(pool')
  OBVIOUS
<1>7. /\ RouteInv(q2, p2, map, rpend) /\ Seen(q, q2)
      /\ \A i : Rm(q, i) /\ i # r => Rm(q2, i)
      /\ Without(q, q2, j) /\ q[j] = pool[j]
  BY <1>1, <1>2, <1>3, <1>4, <1>6, PoolGone
<1>8. p \in Nat /\ p <= Len(q) /\ Len(q) \in Nat /\ j \in 1..p /\ j \in 1..Len(q)
  BY <1>2, <1>5, <1>6 DEF RouteLife
<1>9. \A n \in 1..Len(q) : q[n].pc = "rm" => n <= p /\ q[n].kind # "ind"
  BY <1>5, <1>6 DEF RouteLife
<1>10. q[j].kind # "ind" /\ q[j].pc = "rm" /\ q[j].id = r
  BY <1>3, <1>4, <1>7, <1>8, <1>9
<1>11. RouteInv(q, p, map, rpend)
  BY <1>6 DEF AInv, RInv
<1>12. r \in DOMAIN map
  BY <1>8, <1>10, <1>11 DEF RouteInv, KindsOK
<1>13. asserts' = {}
  BY <1>2, <1>4, <1>12
<1>14. DOMAIN M2 = DOMAIN map \ {r} /\ \A i \in DOMAIN M2 : M2[i] = map[i]
  BY <1>3, <1>4
<1>15. RInv'
  <2>1. ForgetStep(q, q2, p, p2, j, map, M2, rpend)
    BY <1>7, <1>8, <1>9, <1>10, <1>11, <1>14 DEF ForgetStep
  <2>2. RouteInv(q2, p2, M2, rpend)
    BY <2>1, ForgottenOK
  <2> QED
    BY <1>3, <1>4, <1>6, <2>2 DEF RInv
<1>16. Kept'
  BY <1>2, <1>3, <1>4, <1>14, KeptGone
<1>17. ASSUME NEW y \in XApps
       PROVE  XInv(y)'
  <2>1. View(y)' = View(y)
    BY <1>4, ViewSame DEF xappVars
  <2>2. ~Clear(q, r)
    BY <1>8, <1>10 DEF Clear
  <2>3. \A i : Owned(M2, y, i) => Owned(map, y, i) /\ M2[i] = map[i] /\ i # r
    BY <1>14 DEF Owned
  <2>4. \A i : Owned(map, y, i) /\ i # r => Owned(M2, y, i) /\ M2[i] = map[i]
    BY <1>14 DEF Owned
  <2>5. Untouched(y, q, map, q2, M2)
    BY <1>7, <2>2, <2>3, <2>4 DEF Untouched, Seen
  <2> QED
    BY <1>3, <1>6, <2>1, <2>5, AllFrame, SameAlike
<1> QED
  BY <1>13, <1>15, <1>16, <1>17 DEF AInv

\* An answer that is sent on, whose number is in the map.
LEMMA FoundA ==
  ASSUME SInv, AInv, NEW j \in 1..Len(pool), NEW kind \in Kinds, NEW i \in DOMAIN map,
         kind = pool[j].kind, i = pool[j].id, pool[j].pc = "find", ToXapp(i, kind), asserts' = asserts,
         RInv', Kept', Seen(Route, Route'), RmKept(Route, Route'), Route[j] = pool[j], j \in 1..Len(Route),
         Single(Route, i) =>
           IF kind = "sub" THEN Clear(Route', i)
           ELSE Rm(Route', i) /\ \A c \in Kinds : ~Busy(Route', c, i),
         UNCHANGED <<xappVars, x2i, map>>
  PROVE  AInv'
<1>1. XTypes /\ RTypes /\ asserts = {}
  BY TypeParts DEF SInv, AInv
<1>2. PICK x : x = map[i].x
  OBVIOUS
<1>3. kind # "ind"
  BY DEF Kinds
<1>4. /\ \A y \in XApps : y # x => View(y)' = View(y)
      /\ ~up[x] => Alike(View(x), View(x)')
      /\ up[x] => Answering(View(x), View(x)', [kind |-> kind, k |-> map[i].k])
  BY <1>1, <1>2, <1>3, ToXappViews
<1>5. \A y : Untouched(y, Route, map, Route', map)
  BY DEF Untouched, Seen, RmKept
<1>6. ASSUME NEW y \in XApps, y # x \/ ~up[x]
      PROVE  XInv(y)'
  <2>1. Alike(View(y), View(y)')
    BY <1>4, <1>6, SameAlike
  <2> QED
    BY <1>5, <2>1, AllFrame
<1>7. ASSUME up[x], x \in XApps
      PROVE  XInv(x)'
  <2> DEFINE v == View(x)
             v2 == View(x)'
  <2>1. ViewIs(x) /\ XInvOf(x, v, Route, map)
    BY <1>7, ViewNow DEF AInv, XInv
  <2>2. Answering(v, v2, [kind |-> kind, k |-> map[i].k])
    BY <1>4, <1>7
  <2> HIDE DEF v, v2
  <2>3. v.up /\ Owned(map, x, i)
    BY <1>2, <1>7, <2>1 DEF ViewIs, v, Owned
  <2>4. Single(Route, i)
    BY <2>1, <2>3 DEF XInvOf, XBusy
  <2>5. Busy(Route, kind, i)
    BY DEF Busy
  <2>6. \A c \in Kinds : ~Busy(Route', c, i)
    <3>1. Clear(Route', i) => \A c \in Kinds : ~Busy(Route', c, i)
      BY DEF Clear, Busy, Kinds
    <3> QED
      BY <2>4, <3>1
  <2>7. IF kind = "sub" THEN map[i].type = "sub" /\ Clear(Route', i) ELSE Rm(Route', i)
    <3>1. kind = "sub" => map[i].type = "sub"
      BY DEF AInv, RInv, RouteInv, KindsOK
    <3> QED
      BY <2>4, <3>1
  <2>8. XInvOf(x, v2, Route', map)
    BY <1>5, <2>1, <2>2, <2>3, <2>5, <2>6, <2>7, AnswerSent
  <2> QED
    BY <2>8 DEF XInv, v2
<1> QED
  BY <1>1, <1>6, <1>7 DEF AInv

\* The iApp looks a number up.
LEMMA TaskFindA ==
  ASSUME SInv, AInv, NEW j \in DOMAIN pool, TaskFind(j)
  PROVE  AInv'
<1>1. SInv'
  BY TaskOK DEF Task
<1>2. XTypes /\ RTypes /\ asserts = {} /\ j \in 1..Len(pool) /\ pool[j] \in Task0
  BY TypeParts DEF SInv, AInv, RTypes
<1>3. PICK i, kind : i = pool[j].id /\ kind = pool[j].kind
  OBVIOUS
<1>4. /\ pool[j].pc = "find"
      /\ IF i \in DOMAIN map
         THEN /\ ToXapp(i, kind) /\ asserts' = asserts
              /\ pool' = IF kind = "sub" THEN RemoveAt(pool, j) ELSE [pool EXCEPT ![j].pc = "rm"]
         ELSE /\ UNCHANGED <<i2x, bounced>>
              /\ asserts' = asserts \cup {a \in {"RIC Req Id not found!"} : kind # "del"}
              /\ pool' = RemoveAt(pool, j)
      /\ UNCHANGED <<xappVars, x2i, map, req, rpend, toAg, toRic, ind>>
  BY <1>3 DEF TaskFind
<1>5. RouteLife /\ RouteLife'
  BY <1>1, RouteLives, RouteLivesNext
<1>6. kind \in Kinds /\ kind # "ind"
  <2>1. kind # "ind"
    BY <1>2, <1>3, <1>4 DEF SInv, Life, Stages
  <2> QED
    BY <1>2, <1>3, <2>1 DEF Task0
<1>7. j \in 1..Len(Route) /\ Route[j] = pool[j]
  BY <1>2, <1>5 DEF RouteLife, RouteOf
<1>8. CASE i \notin DOMAIN map
  <2>1. pool' = RemoveAt(pool, j) /\ asserts' = asserts \cup {a \in {"RIC Req Id not found!"} : kind # "del"}
    BY <1>4, <1>8
  <2>2. kind = "del"
    <3>1. kind \notin {"sub", "ctrl"}
      BY <1>3, <1>7, <1>8 DEF AInv, RInv, RouteInv, KindsOK
    <3> QED
      BY <1>6, <3>1 DEF Kinds
  <2>3. asserts' = {}
    BY <1>2, <2>1, <2>2
  <2>4. RouteInv(Route', Len(pool'), map, rpend) /\ Seen(Route, Route') /\ RmKept(Route, Route')
    BY <1>1, <1>2, <1>4, <2>1, PoolGone DEF RmKept
  <2>5. RInv'
    BY <1>4, <2>4 DEF RInv
  <2>6. Kept'
    BY <1>2, <1>3, <1>4, <1>8, <2>1, KeptGone
  <2> QED
    BY <1>4, <1>8, <2>3, <2>4, <2>5, <2>6, InnerStep
<1>9. CASE i \in DOMAIN map /\ kind = "sub"
  <2>1. pool' = RemoveAt(pool, j) /\ ToXapp(i, kind) /\ asserts' = asserts
    BY <1>4, <1>9
  <2>2. /\ RouteInv(Route', Len(pool'), map, rpend) /\ Seen(Route, Route') /\ RmKept(Route, Route')
        /\ Single(Route, i) => Clear(Route', i)
    BY <1>1, <1>2, <1>3, <1>4, <1>6, <2>1, PoolGone DEF RmKept
  <2>3. RInv'
    BY <1>4, <2>2 DEF RInv
  <2>4. Kept'
    BY <1>2, <1>3, <1>4, <1>9, <2>1, KeptGone
  <2> QED
    BY <1>2, <1>3, <1>4, <1>6, <1>7, <1>9, <2>1, <2>2, <2>3, <2>4, FoundA
<1>10. CASE i \in DOMAIN map /\ kind # "sub"
  <2>1. pool' = [pool EXCEPT ![j].pc = "rm"] /\ ToXapp(i, kind) /\ asserts' = asserts
    BY <1>4, <1>10
  <2>2. PICK q, q2, p : q = Route /\ q2 = Route' /\ p = Len(pool)
    OBVIOUS
  <2>3. Len(pool') = p /\ Stepped(q, q2, j) /\ q2[j].pc = "rm" /\ q[j] = pool[j] /\ j \in 1..Len(q)
    BY <1>1, <1>2, <1>4, <2>1, <2>2, PoolOn
  <2>4. SendStep(q, q2, p, j, map, rpend)
    <3>1. p \in Nat /\ p <= Len(q) /\ Len(q) \in Nat /\ StagesOf(q2)
      BY <1>5, <2>2 DEF RouteLife
    <3>2. RouteInv(q, p, map, rpend)
      BY <2>2 DEF AInv, RInv
    <3> QED
      BY <1>3, <1>4, <1>10, <2>3, <3>1, <3>2 DEF SendStep
  <2>5. /\ RouteInv(q2, p, map, rpend) /\ Seen(q, q2)
        /\ \A k : Rm(q, k) => Rm(q2, k)
        /\ Rm(q2, q[j].id)
        /\ Single(q, q[j].id) => \A c \in Kinds : ~Busy(q2, c, q[j].id)
    BY <2>4, SentOnOK
  <2>6. RInv' /\ Seen(Route, Route') /\ RmKept(Route, Route')
    BY <1>4, <2>2, <2>3, <2>5 DEF RInv, RmKept
  <2>7. Single(Route, i) => Rm(Route', i) /\ \A c \in Kinds : ~Busy(Route', c, i)
    BY <1>3, <2>2, <2>3, <2>5
  <2>8. Kept'
    BY <1>2, <1>4, <2>1, KeptOn
  <2> QED
    BY <1>2, <1>3, <1>4, <1>6, <1>7, <1>10, <2>1, <2>6, <2>7, <2>8, FoundA
<1> QED
  BY <1>8, <1>9, <1>10

-----------------------------------------------------------------------------
\* In the initial state nothing is under way.
LEMMA AInit == Init => AInv
<1> SUFFICES ASSUME Init PROVE AInv
  OBVIOUS
<1>1. RouteOf(Route, pool, toRic, toAg)
  BY SInit, TypeParts, RouteNow DEF SInv
<1>2. Len(pool) = 0 /\ Len(toRic) = 0 /\ Len(toAg) = 0
  BY DEF Init
<1>3. PICK q : q = Route /\ Len(q) = 0
  BY <1>1, <1>2 DEF RouteOf
<1>4. \A n : n \notin 1..Len(q) /\ n \notin 1..0
  BY <1>3
<1>5. DOMAIN map = {} /\ rpend = {} /\ asserts = {}
  BY DEF Init
<1>6. RInv
  BY <1>2, <1>3, <1>4, <1>5 DEF RInv, RouteInv, FirstOK, DelOne, PoolOne, RpendOK, KindsOK
<1>7. Kept
  BY <1>5 DEF Kept
<1>8. ASSUME NEW x \in XApps
      PROVE  XInv(x)
  <2> DEFINE v == View(x)
  <2>1. ViewIs(x)
    BY ViewNow
  <2> HIDE DEF v
  <2>2. /\ v.up /\ v.c = Idle /\ v.act = {} /\ v.pend = {} /\ v.out = << >>
        /\ v.ans = {} /\ v.lone /\ ~v.any /\ ~v.bo
    BY <2>1, NoAnswers DEF Init, ViewIs, v
  <2>3. ~InCall(v) /\ v.c.pc = "idle"
    BY <2>2 DEF InCall, Idle
  <2>4. \A i : ~Owned(map, x, i)
    BY <1>5 DEF Owned
  <2>5. XInvOf(x, v, Route, map)
    BY <2>2, <2>3, <2>4 DEF XInvOf, XQueue, XBusy, XAnswer, XDone, XAct, XOwn, XLocal
  <2> QED
    BY <2>5 DEF XInv, v
<1> QED
  BY <1>5, <1>6, <1>7, <1>8 DEF AInv

\* A step that changes nothing.
LEMMA AStutter ==
  ASSUME AInv, UNCHANGED vars
  PROVE  AInv'
<1>1. /\ UNCHANGED <<xappVars, x2i, i2x, bounced, map>>
      /\ UNCHANGED <<req, rpend, pool, toAg, toRic, ind, asserts>>
  BY DEF vars
<1>2. Route' = Route
  BY <1>1 DEF Route
<1>3. RInv' /\ Kept' /\ asserts' = {}
  BY <1>1, <1>2 DEF AInv, RInv, Kept
<1> QED
  BY <1>1, <1>2, <1>3, SeenSelf, InnerStep

\* Every step keeps the answers in order when no thread is held up for as long
\* as a round trip takes and the xApps use different RAN functions.
LEMMA AStep ==
  ASSUME Prompt, ~Shared, SInv, AInv, [Next]_vars
  PROVE  AInv'
<1>1. CASE \E x \in XApps : Ui(x) \/ UiStep(x) \/ XappEnd(x) \/ XappStep(x) \/ IappStep(x)
  BY <1>1, UiA, UiStepA, XappA, IappRequestA, IappDeleteA, IappBounceA DEF IappStep
<1>2. CASE AgentHandle
  BY <1>2, AgentHandleA
<1>3. CASE \E i \in ind : AgentIndicate(i)
  BY <1>3, AgentIndicateA
<1>4. CASE PromptWorkers /\ RicReceive
  BY <1>4, RicReceiveA
<1>5. CASE \E j \in DOMAIN pool : Task(j)
  BY <1>5, TaskIndicationA, TaskStopPendingA, TaskFindA, TaskRemoveA DEF Task
<1>6. CASE UNCHANGED vars
  BY <1>6, AStutter
<1> QED
  BY <1>1, <1>2, <1>3, <1>4, <1>5, <1>6 DEF Next

\* The invariant of the answers holds throughout.
THEOREM AInductive ==
  ASSUME Prompt, ~Shared
  PROVE  Spec => [](SInv /\ AInv)
<1>1. Init => SInv /\ AInv
  BY SInit, AInit
<1>2. (SInv /\ AInv) /\ [Next]_vars => (SInv /\ AInv)'
  BY SStep, AStep
<1> QED
  BY <1>1, <1>2, PTL DEF Spec

\* None of the assertions on identifiers and pending events fails: the pending
\* event and the pair in the map of every answer are there, for every number of
\* xApps, of workers and of requests, when workers and threads are prompt and
\* no two xApps use the same RAN function.
THEOREM NoAssertFailsCorrect ==
  ASSUME Prompt, ~Shared
  PROVE  Spec => []NoAssertFails
<1>1. AInv => NoAssertFails
  BY DEF AInv, NoAssertFails
<1> QED
  BY <1>1, AInductive, PTL

\* An answer that reaches an xApp answers the call its user's thread is in.
THEOREM AnswersMatchCallsCorrect ==
  ASSUME Prompt, ~Shared
  PROVE  Spec => []AnswersMatchCalls
<1>1. SInv /\ AInv => AnswersMatchCalls
  <2> SUFFICES ASSUME SInv, AInv, NEW x \in XApps, up[x], NEW m \in Range(i2x[x]), m.kind # "ind"
               PROVE  ui[x].pc # "idle" /\ ui[x].kind = m.kind /\ ui[x].k = m.k
    BY DEF AnswersMatchCalls
  <2>1. i2x[x] \in Seq(IMsg)
    BY TypeParts DEF SInv, XTypes
  <2>2. PICK n \in 1..Len(i2x[x]) : m = i2x[x][n]
    BY <2>1 DEF Range
  <2>3. m \in Answers(i2x[x])
    BY <2>2 DEF Answers
  <2>4. ViewIs(x) /\ XInvOf(x, View(x), Route, map)
    BY ViewNow DEF AInv, XInv
  <2>5. Waiting(View(x), m.kind, m.k)
    BY <2>3, <2>4 DEF XInvOf, XAnswer, ViewIs
  <2> QED
    BY <2>4, <2>5 DEF Waiting, InCall, ViewIs
<1> QED
  BY <1>1, AInductive, PTL

\* When nothing is under way the xApps, the iApp, the RIC and the agent agree
\* on the subscriptions there are.
THEOREM QuietAgreesCorrect ==
  ASSUME Prompt, ~Shared
  PROVE  Spec => []QuietAgrees
<1>1. SInv /\ AInv => QuietAgrees
  <2> SUFFICES ASSUME SInv, AInv, Quiet
               PROVE  /\ rpend = {} /\ ind = DOMAIN map
                      /\ \A x \in XApps :
                           /\ xpend[x] = {}
                           /\ up[x] => act[x] = {map[i].k : i \in {j \in ind : map[j].x = x}}
    BY DEF QuietAgrees
  <2>1. RouteOf(Route, pool, toRic, toAg)
    BY RouteLives DEF RouteLife
  <2>2. Len(pool) = 0 /\ Len(toRic) = 0 /\ Len(toAg) = 0
    BY DEF Quiet
  <2>3. PICK q : q = Route /\ Len(q) = 0
    BY <2>1, <2>2 DEF RouteOf
  <2>4. \A n : n \notin 1..Len(q) /\ n \notin 1..0
    BY <2>3
  <2>5. rpend = {}
    BY <2>3, <2>4 DEF AInv, RInv, RouteInv, RpendOK
  <2>6. ind = DOMAIN map
    <3>1. ind \subseteq DOMAIN map
      BY DEF SInv, Life, Reporting
    <3>2. DOMAIN map \subseteq ind
      BY <2>2, <2>4 DEF AInv, Kept
    <3> QED
      BY <3>1, <3>2
  <2>7. ASSUME NEW x \in XApps
        PROVE  /\ xpend[x] = {}
               /\ up[x] => act[x] = {map[i].k : i \in {j \in ind : map[j].x = x}}
    <3> DEFINE v == View(x)
    <3>1. ViewIs(x) /\ XInvOf(x, v, q, map)
      BY <2>3, ViewNow DEF AInv, XInv
    <3> HIDE DEF v
    <3>2. v.up = up[x] /\ v.act = act[x] /\ v.pend = xpend[x] /\ v.c.pc = "idle" /\ ~InCall(v)
      BY <3>1 DEF ViewIs, v, Quiet, InCall
    <3>3. xpend[x] = {}
      BY <3>1, <3>2 DEF XInvOf, XLocal
    <3>4. ASSUME up[x], NEW k \in act[x]
          PROVE  \E i \in ind : map[i].x = x /\ map[i].k = k
      BY <2>6, <3>1, <3>2, <3>4 DEF XInvOf, XAct, Held
    <3>5. ASSUME up[x], NEW i \in ind, map[i].x = x
          PROVE  map[i].k \in act[x]
      <4>1. ~Rm(q, i)
        BY <2>4 DEF Rm
      <4> QED
        BY <2>6, <3>1, <3>2, <3>5, <4>1 DEF XInvOf, XBusy, Owned
    <3> QED
      BY <3>3, <3>4, <3>5
  <2> QED
    BY <2>5, <2>6, <2>7
<1> QED
  BY <1>1, AInductive, PTL
=============================================================================
