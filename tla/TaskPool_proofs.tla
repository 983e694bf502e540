-------------------------- MODULE TaskPool_proofs --------------------------
(***************************************************************************)
(* Proofs about the task manager, for every number of workers, batch size  *)
(* and number of tasks, and every interleaving of the submitter with the   *)
(* workers.                                                                *)
(*                                                                         *)
(* ExactlyOnce counts; its inductive form Places does not: a task is in    *)
(* one set only, no sequence holds it twice, and a worker that takes a     *)
(* batch has executed all of the one before (RunOK), or that one would be  *)
(* overwritten.  Held says that the steps between a lock and its unlock    *)
(* are made by the thread that holds the mutex, which is why each of them  *)
(* may be one step.                                                        *)
(***************************************************************************)
EXTENDS TaskPool, SequenceTheorems, FiniteSetTheorems, TLAPS

-----------------------------------------------------------------------------
(* The ring operations, on the tasks they move.                            *)

\* push_back adds the one task it is given.
LEMMA AppendRange ==
  ASSUME NEW S, NEW s \in Seq(S), NEW x \in S
  PROVE  /\ Append(s, x) \in Seq(S)
         /\ Range(Append(s, x)) = Range(s) \cup {x}
         /\ IsInjective(s) /\ x \notin Range(s) => IsInjective(Append(s, x))
<1> DEFINE a == Append(s, x)
<1>1. /\ a \in Seq(S) /\ Len(a) = Len(s) + 1 /\ Len(s) \in Nat
      /\ \A i \in 1..Len(s) : a[i] = s[i]
      /\ a[Len(s) + 1] = x
  BY AppendProperties, LenProperties
<1>2. DOMAIN a = 1..(Len(s) + 1) /\ DOMAIN s = 1..Len(s)
  BY <1>1, LenProperties
<1> HIDE DEF a
<1>3. Range(a) = Range(s) \cup {x}
  <2>1. \A y \in Range(a) : y \in Range(s) \cup {x}
    BY <1>1, <1>2 DEF Range
  <2>2. \A y \in Range(s) : y \in Range(a)
    BY <1>1, <1>2 DEF Range
  <2>3. x \in Range(a)
    BY <1>1, <1>2 DEF Range
  <2> QED
    BY <2>1, <2>2, <2>3
<1>4. IsInjective(s) /\ x \notin Range(s) => IsInjective(a)
  BY <1>1, <1>2 DEF Range, IsInjective
<1> QED
  BY <1>1, <1>3, <1>4 DEF a

\* Copying the first n elements and erasing them splits the tasks in two.
LEMMA SplitRange ==
  ASSUME NEW S, NEW s \in Seq(S), NEW n \in 0..Len(s), IsInjective(s)
  PROVE  /\ SubSeq(s, 1, n) \in Seq(S) /\ SubSeq(s, n + 1, Len(s)) \in Seq(S)
         /\ Len(SubSeq(s, 1, n)) = n
         /\ IsInjective(SubSeq(s, 1, n)) /\ IsInjective(SubSeq(s, n + 1, Len(s)))
         /\ Range(SubSeq(s, 1, n)) \cup Range(SubSeq(s, n + 1, Len(s))) = Range(s)
         /\ Range(SubSeq(s, 1, n)) \cap Range(SubSeq(s, n + 1, Len(s))) = {}
<1> DEFINE a == SubSeq(s, 1, n)
           b == SubSeq(s, n + 1, Len(s))
           m == Len(s) - n
<1>1. Len(s) \in Nat /\ DOMAIN s = 1..Len(s) /\ \A i \in 1..Len(s) : s[i] \in S
  BY LenProperties
<1>1a. Len(s) \in Nat /\ n \in Nat /\ n <= Len(s)
  BY <1>1
<1>2. /\ a \in Seq(S) /\ Len(a) = n
      /\ \A i \in 1..n : a[i] = s[i]
  <2>1. /\ a \in Seq(S) /\ Len(a) = IF 1 <= n THEN n - 1 + 1 ELSE 0
        /\ \A i \in 1..(n - 1 + 1) : a[i] = s[1 + i - 1]
    BY <1>1, SubSeqProperties
  <2> QED
    BY <1>1, <2>1
<1>3. /\ b \in Seq(S) /\ Len(b) = m
      /\ \A i \in 1..m : b[i] = s[n + i]
  <2>1. /\ b \in Seq(S)
        /\ Len(b) = IF n + 1 <= Len(s) THEN Len(s) - (n + 1) + 1 ELSE 0
        /\ \A i \in 1..(Len(s) - (n + 1) + 1) : b[i] = s[(n + 1) + i - 1]
    BY <1>1, SubSeqProperties
  <2>2. Len(s) - (n + 1) + 1 = m /\ \A i \in Int : (n + 1) + i - 1 = n + i
    BY <1>1
  <2>3. \A i \in 1..m : b[i] = s[n + i]
    <3> SUFFICES ASSUME NEW i \in 1..m PROVE b[i] = s[n + i]
      OBVIOUS
    <3>1. b[i] = s[(n + 1) + i - 1]
      BY <2>1, <2>2
    <3> QED
      BY <2>2, <3>1
  <2>4. Len(b) = m
    <3> HIDE DEF b
    <3>1. CASE n + 1 <= Len(s)
      BY <1>1, <2>1, <3>1
    <3>2. CASE ~(n + 1 <= Len(s))
      <4>1. n = Len(s)
        BY <1>1a, <3>2
      <4>2. m = 0
        BY <1>1a, <4>1
      <4> QED
        BY <2>1, <3>2, <4>2
    <3> QED
      BY <3>1, <3>2
  <2> QED
    BY <2>1, <2>3, <2>4
<1>4. DOMAIN a = 1..n /\ DOMAIN b = 1..m
  BY <1>2, <1>3, LenProperties
<1>5. n \in Nat /\ m \in Nat /\ Len(s) = n + m
  BY <1>1
<1> HIDE DEF a, b, m
<1>5a. /\ \A i \in 1..n : i \in DOMAIN s
       /\ \A i \in 1..m : n + i \in DOMAIN s
  BY <1>1, <1>5
<1>6. IsInjective(a) /\ IsInjective(b)
  <2>1. ASSUME NEW i \in 1..n, NEW j \in 1..n, a[i] = a[j] PROVE i = j
    BY <1>2, <1>5a, <2>1 DEF IsInjective
  <2>2. ASSUME NEW i \in 1..m, NEW j \in 1..m, b[i] = b[j] PROVE i = j
    <3>1. n + i = n + j
      BY <1>3, <1>5a, <2>2 DEF IsInjective
    <3> QED
      BY <1>5, <3>1
  <2> QED
    BY <1>4, <2>1, <2>2 DEF IsInjective
<1>7. Range(a) \cup Range(b) \subseteq Range(s)
  <2>1. ASSUME NEW i \in 1..n PROVE a[i] \in Range(s)
    BY <1>2, <1>5a DEF Range
  <2>2. ASSUME NEW i \in 1..m PROVE b[i] \in Range(s)
    BY <1>3, <1>5a DEF Range
  <2> QED
    BY <1>4, <2>1, <2>2 DEF Range
<1>8. Range(s) \subseteq Range(a) \cup Range(b)
  <2> SUFFICES ASSUME NEW i \in 1..Len(s) PROVE s[i] \in Range(a) \cup Range(b)
    BY <1>1 DEF Range
  <2>1. CASE i <= n
    BY <1>1, <1>2, <1>4, <1>5, <2>1 DEF Range
  <2>2. CASE i > n
    <3>1. i - n \in 1..m /\ s[i] = b[i - n]
      BY <1>1, <1>3, <1>5, <2>2
    <3> QED
      BY <1>4, <3>1 DEF Range
  <2> QED
    BY <1>1, <1>5, <2>1, <2>2
<1>9. Range(a) \cap Range(b) = {}
  <2> SUFFICES ASSUME NEW i \in 1..n, NEW j \in 1..m, a[i] = b[j] PROVE FALSE
    BY <1>4 DEF Range
  <2>1. s[i] = s[n + j] /\ i \in 1..Len(s) /\ n + j \in 1..Len(s)
    BY <1>2, <1>3, <1>5
  <2>2. i = n + j
    BY <1>1, <2>1 DEF IsInjective
  <2> QED
    BY <1>5, <2>2
<1> QED
  BY <1>2, <1>3, <1>6, <1>7, <1>8, <1>9 DEF a, b

\* Executing the first task of a batch removes that task.
LEMMA TailRange ==
  ASSUME NEW S, NEW s \in Seq(S), s # << >>, IsInjective(s)
  PROVE  /\ Tail(s) \in Seq(S) /\ Head(s) \in Range(s)
         /\ Len(s) \in Nat \ {0}
         /\ Len(s) = 1 <=> Tail(s) = << >>
         /\ IsInjective(Tail(s))
         /\ Range(Tail(s)) = Range(s) \ {Head(s)}
<1> DEFINE t == Tail(s)
<1>1. /\ Len(s) \in Nat \ {0} /\ DOMAIN s = 1..Len(s) /\ Head(s) = s[1]
  BY LenProperties, EmptySeq
<1>2. /\ t \in Seq(S) /\ Len(t) = Len(s) - 1
      /\ \A i \in 1..Len(t) : t[i] = s[i + 1]
  BY HeadTailProperties
<1>3. DOMAIN t = 1..(Len(s) - 1)
  BY <1>2, LenProperties
<1>4. Len(s) = 1 <=> t = << >>
  BY <1>1, <1>2, EmptySeq
<1> HIDE DEF t
<1>5. IsInjective(t)
  <2> SUFFICES ASSUME NEW i \in 1..(Len(s) - 1), NEW j \in 1..(Len(s) - 1), t[i] = t[j]
               PROVE  i = j
    BY <1>3 DEF IsInjective
  <2>1. i + 1 \in DOMAIN s /\ j + 1 \in DOMAIN s /\ s[i + 1] = s[j + 1]
    BY <1>1, <1>2
  <2>2. i + 1 = j + 1
    BY <2>1 DEF IsInjective
  <2> QED
    BY <1>1, <2>2
<1>6. Head(s) \in Range(s)
  BY <1>1 DEF Range
<1>7. Range(t) \subseteq Range(s) \ {Head(s)}
  BY <1>1, <1>2, <1>3 DEF Range, IsInjective
<1>8. Range(s) \ {Head(s)} \subseteq Range(t)
  <2> SUFFICES ASSUME NEW i \in 1..Len(s), s[i] # s[1] PROVE s[i] \in Range(t)
    BY <1>1 DEF Range
  <2>1. i - 1 \in 1..(Len(s) - 1) /\ t[i - 1] = s[i]
    BY <1>1, <1>2
  <2> QED
    BY <1>3, <2>1 DEF Range
<1> QED
  BY <1>1, <1>2, <1>4, <1>5, <1>6, <1>7, <1>8 DEF t

\* Nothing is in an empty ring.
LEMMA EmptyRange == Range(<< >>) = {} /\ IsInjective(<< >>)
BY DEF Range, IsInjective

\* A task occurs once in a sequence that holds it and repeats nothing, and
\* otherwise not at all.
LEMMA OccursOnce ==
  ASSUME NEW S, NEW s \in Seq(S), IsInjective(s), NEW t
  PROVE  Occurs(t, s) = IF t \in Range(s) THEN 1 ELSE 0
<1> DEFINE D == {k \in DOMAIN s : s[k] = t}
<1>1. CASE t \in Range(s)
  <2>1. PICK k \in DOMAIN s : s[k] = t
    BY <1>1 DEF Range
  <2>2. D = {k}
    BY <2>1 DEF IsInjective
  <2>3. Cardinality({k}) = 1
    BY FS_Singleton
  <2> QED
    BY <1>1, <2>2, <2>3 DEF Occurs
<1>2. CASE t \notin Range(s)
  <2>1. D = {}
    BY <1>2 DEF Range
  <2>2. Cardinality({}) = 0
    BY FS_EmptySet
  <2> QED
    BY <1>2, <2>1, <2>2 DEF Occurs
<1> QED
  BY <1>1, <1>2

-----------------------------------------------------------------------------
(* The invariant.                                                          *)

\* Task t waits in a queue of w or in the batch w executes.
In(t, w) == t \in Range(q[w]) \/ t \in Range(run[w])

\* Where the loops of the submitting thread stand.
MainOK ==
  /\ main.pc \in {"try", "done", "set", "tell"} => main.i < NumThreads
  /\ main.pc \in {"try", "block", "push", "signal"} => index >= 1
  /\ main.pc # "freed" => lost = {}

\* A worker has a batch exactly while it executes it.
RunOK == \A w \in Workers : wpc[w] = "run" <=> run[w] # << >>

NoRepeat ==
  \A w \in Workers :
    /\ IsInjective(q[w]) /\ IsInjective(run[w])
    /\ Range(q[w]) \cap Range(run[w]) = {}

\* A task that waits has been submitted, is nowhere else, and was not
\* executed.
Apart ==
  \A w \in Workers, t \in Tasks :
    In(t, w) => /\ t <= index /\ ran[t] = 0 /\ t \notin InHand /\ t \notin lost
                /\ \A v \in Workers : In(t, v) => v = w

\* The other places exclude each other too, and one of them holds the task.
Account ==
  \A t \in Tasks :
    /\ ran[t] \in {0, 1}
    /\ t > index \/ t \in InHand \/ t \in lost => ran[t] = 0
    /\ t \in lost => t <= index /\ t \notin InHand
    /\ t <= index => \/ ran[t] = 1 \/ t \in InHand \/ t \in lost
                     \/ \E w \in Workers : In(t, w)

Places == NoRepeat /\ Apart /\ Account

IInv == TypeOK /\ MainOK /\ RunOK /\ Places

\* The queue the submitter or a worker turns to is one of the pool's.
LEMMA TargetOK ==
  /\ Workers # {}
  /\ \A n \in Nat : n % NumThreads \in Workers
  /\ index \in Nat /\ index >= 1 => \A i \in Nat : Target(i) \in Workers
<1> USE PoolAssumption DEF Workers
<1>1. 0 \in Workers
  OBVIOUS
<1>2. \A n \in Nat : n % NumThreads \in Workers
  OBVIOUS
<1>3. ASSUME index \in Nat, index >= 1, NEW i \in Nat PROVE Target(i) \in Workers
  <2>1. i + index - 1 \in Nat
    BY <1>3
  <2> QED
    BY <1>2, <2>1 DEF Target
<1> QED
  BY <1>1, <1>2, <1>3

\* The pool begins with empty queues.
THEOREM InitOK == Init => IInv
<1> SUFFICES ASSUME Init PROVE IInv
  OBVIOUS
<1> USE PoolAssumption DEF Init
<1>1. TypeOK
  <2>1. << >> \in Seq(Tasks)
    BY EmptySeq
  <2>2. 0 \in Workers /\ \A w \in Workers : w \in Nat
    BY DEF Workers
  <2>3. Free \in 0..Free /\ 0 \in 0..NumThreads /\ 0 \in 0..NTasks
    BY DEF Free
  <2> QED
    BY <2>1, <2>2, <2>3 DEF TypeOK
<1>2. MainOK
  BY DEF MainOK
<1>3. RunOK
  BY DEF RunOK
<1>4. \A w \in Workers, t \in Tasks : ~In(t, w)
  BY EmptyRange DEF In
<1>5. Places
  <2>1. NoRepeat
    BY EmptyRange DEF NoRepeat
  <2>2. Apart
    BY <1>4 DEF Apart
  <2>3. Account
    BY DEF Account, InHand, Tasks
  <2> QED
    BY <2>1, <2>2, <2>3 DEF Places
<1> QED
  BY <1>1, <1>2, <1>3, <1>5 DEF IInv

\* A step that moves no task.
LEMMA PlacesSame ==
  ASSUME Places, UNCHANGED <<q, run, ran, lost, index>>, InHand' = InHand
  PROVE  Places'
BY DEF Places, NoRepeat, Apart, Account, In

\* Taking a batch moves the first tasks of a queue to the worker.
LEMMA TakeOK ==
  ASSUME IInv, NEW w \in Workers, NEW k \in Workers, TakeBatch(w, k),
         q[k] # << >>, run[w] = << >>, UNCHANGED <<ran, lost, index, main>>
  PROVE  /\ Places'
         /\ q' \in [Workers -> Seq(Tasks)] /\ run' \in [Workers -> Seq(Tasks)]
         /\ run'[w] # << >> /\ \A v \in Workers : v # w => run'[v] = run[v]
<1> USE DEF IInv, Places
<1> DEFINE n == Batched(k)
           a == SubSeq(q[k], 1, n)
           b == SubSeq(q[k], n + 1, Len(q[k]))
<1>1. q[k] \in Seq(Tasks) /\ IsInjective(q[k]) /\ q \in [Workers -> Seq(Tasks)]
      /\ run \in [Workers -> Seq(Tasks)]
  BY DEF TypeOK, NoRepeat
<1>2. n \in 1..Len(q[k])
  BY <1>1, PoolAssumption, EmptySeq, LenProperties DEF Batched
<1>3. Len(q[k]) \in Nat
  BY <1>1, LenProperties
<1>4. /\ a \in Seq(Tasks) /\ b \in Seq(Tasks) /\ Len(a) = n
      /\ IsInjective(a) /\ IsInjective(b)
      /\ Range(a) \cup Range(b) = Range(q[k]) /\ Range(a) \cap Range(b) = {}
  <2>1. n \in 0..Len(q[k])
    BY <1>2, <1>3
  <2> HIDE DEF n
  <2> QED
    BY <1>1, <2>1, SplitRange
<1>5. run' = [run EXCEPT ![w] = a] /\ q' = [q EXCEPT ![k] = b]
  BY DEF TakeBatch
<1> HIDE DEF n, a, b
<1>6. a # << >>
  <2>1. Len(a) # 0
    BY <1>2, <1>3, <1>4
  <2> QED
    BY <2>1, EmptySeq
<1>7. /\ \A v \in Workers : q'[v] = IF v = k THEN b ELSE q[v]
      /\ \A v \in Workers : run'[v] = IF v = w THEN a ELSE run[v]
  BY <1>1, <1>5
<1>8. Range(run[w]) = {}
  BY EmptyRange
<1>9. InHand' = InHand
  BY DEF InHand
<1>10. \A v \in Workers, t \in Tasks :
         /\ t \in Range(q'[v]) => t \in Range(q[v])
         /\ t \in Range(run'[v]) =>
              t \in Range(run[v]) \/ (v = w /\ t \in Range(q[k]))
  BY <1>4, <1>7
<1>11. NoRepeat'
  <2> SUFFICES ASSUME NEW v \in Workers
               PROVE  /\ IsInjective(q'[v]) /\ IsInjective(run'[v])
                      /\ Range(q'[v]) \cap Range(run'[v]) = {}
    BY DEF NoRepeat
  <2>1. IsInjective(q'[v]) /\ IsInjective(run'[v])
    BY <1>4, <1>7 DEF NoRepeat
  <2>2. ASSUME NEW t, t \in Range(q'[v]), t \in Range(run'[v]) PROVE FALSE
    <3>0. q[v] \in Seq(Tasks) /\ Range(q[v]) \subseteq Tasks
      BY <1>1, RangeOfSeq
    <3>1. CASE v = w /\ v = k
      BY <1>4, <1>7, <2>2, <3>1
    <3>2. CASE v # w
      BY <1>4, <1>7, <2>2, <3>2 DEF NoRepeat
    <3>3. CASE v = w /\ v # k
      <4>1. t \in Range(q[v]) /\ t \in Range(q[k])
        BY <1>4, <1>7, <2>2, <3>3
      <4>2. v = k
        BY <3>0, <4>1 DEF Apart, In
      <4> QED
        BY <3>3, <4>2
    <3> QED
      BY <3>1, <3>2, <3>3
  <2> QED
    BY <2>1, <2>2
<1>12. ASSUME NEW t \in Tasks, NEW v \in Workers, In(t, v)'
       PROVE  \/ In(t, v) /\ (t \in Range(a) => v = w)
              \/ v = w /\ t \in Range(a) /\ In(t, k)
  <2>1. CASE t \in Range(q'[v])
    <3>1. t \in Range(q[v])
      BY <1>10, <2>1
    <3>2. t \in Range(a) => FALSE
      <4> SUFFICES ASSUME t \in Range(a) PROVE FALSE
        OBVIOUS
      <4>1. t \in Range(q[k])
        BY <1>4
      <4>2. v = k
        BY <3>1, <4>1 DEF Apart, In
      <4> QED
        BY <1>4, <1>7, <2>1, <4>2
    <3> QED
      BY <3>1, <3>2 DEF In
  <2>2. CASE t \in Range(run'[v])
    <3>1. CASE v = w
      BY <1>4, <1>7, <2>2, <3>1 DEF In
    <3>2. CASE v # w
      <4>1. t \in Range(run[v])
        BY <1>7, <2>2, <3>2
      <4>2. t \in Range(a) => FALSE
        <5> SUFFICES ASSUME t \in Range(a) PROVE FALSE
          OBVIOUS
        <5>1. t \in Range(q[k])
          BY <1>4
        <5>2. v = k
          BY <4>1, <5>1 DEF Apart, In
        <5> QED
          BY <4>1, <5>1, <5>2 DEF NoRepeat
      <4> QED
        BY <4>1, <4>2 DEF In
    <3> QED
      BY <3>1, <3>2
  <2> QED
    BY <1>12, <2>1, <2>2 DEF In
<1>13. ASSUME NEW t \in Tasks, NEW v \in Workers, In(t, v)
       PROVE  \E u \in Workers : In(t, u)'
  <2>1. CASE t \in Range(run[v])
    <3>1. v # w
      BY <1>8, <2>1
    <3> QED
      BY <1>7, <2>1, <3>1 DEF In
  <2>2. CASE t \in Range(q[v])
    <3>1. CASE v # k
      BY <1>7, <2>2, <3>1 DEF In
    <3>2. CASE v = k
      <4>1. t \in Range(run'[w]) \/ t \in Range(q'[k])
        BY <1>4, <1>7, <2>2, <3>2
      <4> QED
        BY <4>1 DEF In
    <3> QED
      BY <3>1, <3>2
  <2> QED
    BY <1>13, <2>1, <2>2 DEF In
<1>14. Apart'
  <2> SUFFICES ASSUME NEW v \in Workers, NEW t \in Tasks, In(t, v)'
               PROVE  /\ t <= index /\ ran[t] = 0 /\ t \notin InHand /\ t \notin lost
                      /\ \A u \in Workers : In(t, u)' => u = v
    BY <1>9 DEF Apart
  <2>1. In(t, v) \/ In(t, k)
    BY <1>12
  <2>2. ASSUME NEW u \in Workers, In(t, u)' PROVE u = v
    <3>1. CASE t \in Range(a)
      BY <1>12, <2>2, <3>1
    <3>2. CASE t \notin Range(a)
      <4>1. In(t, v) /\ In(t, u)
        BY <1>12, <2>2, <3>2
      <4> QED
        BY <4>1 DEF Apart
    <3> QED
      BY <3>1, <3>2
  <2> QED
    BY <2>1, <2>2 DEF Apart
<1>15. Account'
  BY <1>9, <1>13 DEF Account
<1>16. q' \in [Workers -> Seq(Tasks)] /\ run' \in [Workers -> Seq(Tasks)]
  BY <1>1, <1>4, <1>5
<1> QED
  BY <1>6, <1>7, <1>11, <1>14, <1>15, <1>16
\* A pushed task goes from the submitter to one queue.
LEMMA PushBackOK ==
  ASSUME IInv, PushBack
  PROVE  Places' /\ q' \in [Workers -> Seq(Tasks)]
<1> USE DEF IInv, Places
<1>1. /\ main.pc = "push" /\ main.on \in Workers /\ index \in Tasks
      /\ main' = [main EXCEPT !.pc = "signal"]
      /\ UNCHANGED <<run, ran, lost, index>>
  BY PoolAssumption DEF PushBack, TypeOK, MainOK, Tasks
<1>2. InHand = {index} /\ InHand' = {}
  BY <1>1 DEF InHand, TypeOK
<1> DEFINE k == main.on
           a == Append(q[k], index)
<1>3. q \in [Workers -> Seq(Tasks)] /\ q' = [q EXCEPT ![k] = a]
  BY DEF PushBack, TypeOK
<1>4. \A v \in Workers : ~In(index, v)
  BY <1>1, <1>2 DEF Apart
<1>5. /\ a \in Seq(Tasks) /\ IsInjective(a)
      /\ Range(a) = Range(q[k]) \cup {index}
  BY <1>1, <1>3, <1>4, AppendRange DEF NoRepeat, In
<1> HIDE DEF a
<1>6. \A v \in Workers : q'[v] = IF v = k THEN a ELSE q[v]
  BY <1>3
<1>7. \A v \in Workers, t \in Tasks : In(t, v)' <=> In(t, v) \/ (t = index /\ v = k)
  BY <1>1, <1>5, <1>6 DEF In
<1>8. NoRepeat'
  <2> SUFFICES ASSUME NEW v \in Workers
               PROVE  /\ IsInjective(q'[v]) /\ IsInjective(run[v])
                      /\ Range(q'[v]) \cap Range(run[v]) = {}
    BY <1>1 DEF NoRepeat
  <2>1. CASE v = k
    <3>1. index \notin Range(run[v])
      BY <1>4 DEF In
    <3> QED
      BY <1>5, <1>6, <2>1, <3>1 DEF NoRepeat
  <2>2. CASE v # k
    BY <1>6, <2>2 DEF NoRepeat
  <2> QED
    BY <2>1, <2>2
<1>9. Apart'
  <2> SUFFICES ASSUME NEW v \in Workers, NEW t \in Tasks, In(t, v)'
               PROVE  /\ t <= index /\ ran[t] = 0 /\ t \notin lost
                      /\ \A u \in Workers : In(t, u)' => u = v
    BY <1>1, <1>2 DEF Apart
  <2>1. CASE t = index
    <3>1. \A u \in Workers : In(t, u)' => u = k
      BY <1>4, <1>7, <2>1
    <3>2. ran[t] = 0 /\ t \notin lost
      BY <1>1, <1>2, <2>1 DEF Account
    <3> QED
      BY <1>1, <2>1, <3>1, <3>2 DEF Tasks
  <2>2. CASE t # index
    <3>1. \A u \in Workers : In(t, u)' <=> In(t, u)
      BY <1>7, <2>2
    <3> QED
      BY <3>1 DEF Apart
  <2> QED
    BY <2>1, <2>2
<1>10. Account'
  <2> SUFFICES ASSUME NEW t \in Tasks
               PROVE  /\ ran[t] \in {0, 1}
                      /\ t > index \/ t \in lost => ran[t] = 0
                      /\ t \in lost => t <= index
                      /\ t <= index => \/ ran[t] = 1 \/ t \in lost
                                       \/ \E w \in Workers : In(t, w)'
    BY <1>1, <1>2 DEF Account
  <2>1. CASE t = index
    BY <1>1, <1>7, <2>1 DEF Account
  <2>2. CASE t # index
    BY <1>2, <1>7, <2>2 DEF Account
  <2> QED
    BY <2>1, <2>2
<1> QED
  BY <1>1, <1>3, <1>5, <1>8, <1>9, <1>10

\* An executed task leaves the batch.
LEMMA ExecuteOK ==
  ASSUME IInv, NEW w \in Workers, Execute(w)
  PROVE  /\ Places' /\ RunOK'
         /\ run' \in [Workers -> Seq(Tasks)] /\ ran' \in [Tasks -> Nat]
<1> USE DEF IInv, Places
<1>1. /\ wpc[w] = "run" /\ run[w] # << >>
      /\ UNCHANGED <<q, main, index, lost>> /\ InHand' = InHand
  BY DEF Execute, RunOK, InHand
<1> DEFINE h == Head(run[w])
           a == Tail(run[w])
<1>2. /\ run \in [Workers -> Seq(Tasks)] /\ run' = [run EXCEPT ![w] = a]
      /\ ran \in [Tasks -> Nat] /\ ran' = [ran EXCEPT ![h] = @ + 1]
      /\ wpc' = [wpc EXCEPT ![w] = IF Len(run[w]) = 1 THEN "scan" ELSE "run"]
      /\ wpc \in [Workers -> {"scan", "steal", "run", "pop", "own", "wait",
                              "woken", "exit"}]
  BY DEF Execute, TypeOK
<1>3. /\ a \in Seq(Tasks) /\ h \in Range(run[w]) /\ IsInjective(a)
      /\ Len(run[w]) = 1 <=> a = << >>
      /\ Range(a) = Range(run[w]) \ {h}
  BY <1>1, <1>2, TailRange DEF NoRepeat
<1> HIDE DEF h, a
<1>4. h \in Tasks /\ In(h, w)
  BY <1>2, <1>3, RangeOfSeq DEF In
<1>5. ran[h] = 0 /\ h <= index /\ h \notin InHand /\ h \notin lost
      /\ \A v \in Workers : In(h, v) => v = w
  BY <1>4 DEF Apart
<1>6. \A v \in Workers : run'[v] = IF v = w THEN a ELSE run[v]
  BY <1>2
<1>7. \A t \in Tasks : ran'[t] = IF t = h THEN 1 ELSE ran[t]
  BY <1>2, <1>4, <1>5
<1>8. \A v \in Workers, t \in Tasks : In(t, v)' <=> In(t, v) /\ t # h
  <2> SUFFICES ASSUME NEW v \in Workers, NEW t \in Tasks
               PROVE  In(t, v)' <=> In(t, v) /\ t # h
    OBVIOUS
  <2>1. CASE v = w
    <3>1. h \notin Range(q[w])
      BY <1>3 DEF NoRepeat
    <3> QED
      BY <1>1, <1>3, <1>6, <2>1, <3>1 DEF In
  <2>2. CASE v # w
    <3>1. In(t, v)' <=> In(t, v)
      BY <1>1, <1>6, <2>2 DEF In
    <3> QED
      BY <1>5, <2>2, <3>1
  <2> QED
    BY <2>1, <2>2
<1>9. NoRepeat'
  <2> SUFFICES ASSUME NEW v \in Workers
               PROVE  /\ IsInjective(q[v]) /\ IsInjective(run'[v])
                      /\ Range(q[v]) \cap Range(run'[v]) = {}
    BY <1>1 DEF NoRepeat
  <2> QED
    BY <1>3, <1>6 DEF NoRepeat
<1>10. Apart'
  <2> SUFFICES ASSUME NEW v \in Workers, NEW t \in Tasks, In(t, v)'
               PROVE  /\ t <= index /\ ran'[t] = 0 /\ t \notin InHand /\ t \notin lost
                      /\ \A u \in Workers : In(t, u)' => u = v
    BY <1>1 DEF Apart
  <2>1. In(t, v) /\ t # h
    BY <1>8
  <2> QED
    BY <1>7, <1>8, <2>1 DEF Apart
<1>11. Account'
  <2> SUFFICES ASSUME NEW t \in Tasks
               PROVE  /\ ran'[t] \in {0, 1}
                      /\ t > index \/ t \in InHand \/ t \in lost => ran'[t] = 0
                      /\ t \in lost => t <= index /\ t \notin InHand
                      /\ t <= index => \/ ran'[t] = 1 \/ t \in InHand \/ t \in lost
                                       \/ \E v \in Workers : In(t, v)'
    BY <1>1 DEF Account
  <2>1. CASE t = h
    <3>1. ~(t > index)
      BY <1>4, <1>5, <2>1 DEF TypeOK, Tasks
    <3> QED
      BY <1>5, <1>7, <2>1, <3>1
  <2>2. CASE t # h
    BY <1>7, <1>8, <2>2 DEF Account
  <2> QED
    BY <2>1, <2>2
<1>12. RunOK'
  BY <1>2, <1>3, <1>6 DEF RunOK
<1>13. run' \in [Workers -> Seq(Tasks)] /\ ran' \in [Tasks -> Nat]
  BY <1>2, <1>3, <1>4, <1>5
<1> QED
  BY <1>9, <1>10, <1>11, <1>12, <1>13

\* The next task is in the submitter's hand.
LEMMA AsyncOK ==
  ASSUME IInv, Async
  PROVE  Places'
<1> USE DEF IInv, Places
<1>1. /\ index \in Nat /\ index' = index + 1 /\ index + 1 \in Tasks
      /\ UNCHANGED <<q, run, ran, lost>> /\ InHand = {} /\ InHand' = {index + 1}
  BY PoolAssumption DEF Async, TypeOK, Tasks, InHand
<1>2. \A t \in Tasks : t \in Nat
  BY DEF Tasks
<1>3. \A v \in Workers, t \in Tasks : In(t, v)' <=> In(t, v)
  BY <1>1 DEF In
<1>4. NoRepeat'
  BY <1>1 DEF NoRepeat
<1>5. Apart'
  <2> SUFFICES ASSUME NEW v \in Workers, NEW t \in Tasks, In(t, v)
               PROVE  /\ t <= index + 1 /\ ran[t] = 0 /\ t # index + 1 /\ t \notin lost
                      /\ \A u \in Workers : In(t, u) => u = v
    BY <1>1, <1>3 DEF Apart
  <2>1. t <= index /\ ran[t] = 0 /\ t \notin lost /\ \A u \in Workers : In(t, u) => u = v
    BY DEF Apart
  <2> QED
    BY <1>1, <1>2, <2>1
<1>6. Account'
  <2> SUFFICES ASSUME NEW t \in Tasks
               PROVE  /\ ran[t] \in {0, 1}
                      /\ t > index + 1 \/ t = index + 1 \/ t \in lost => ran[t] = 0
                      /\ t \in lost => t <= index + 1 /\ t # index + 1
                      /\ t <= index + 1 => \/ ran[t] = 1 \/ t = index + 1 \/ t \in lost
                                           \/ \E v \in Workers : In(t, v)
    BY <1>1, <1>3 DEF Account
  <2>1. t > index + 1 \/ t = index + 1 => t > index
    BY <1>1, <1>2
  <2>2. t <= index => t <= index + 1 /\ t # index + 1
    BY <1>1, <1>2
  <2>3. t <= index + 1 => t <= index \/ t = index + 1
    BY <1>1, <1>2
  <2> QED
    BY <1>1, <2>1, <2>2, <2>3 DEF Account
<1> QED
  BY <1>4, <1>5, <1>6

\* What is left in the queues when the workers are gone is thrown away.
LEMMA JoinAndFreeOK ==
  ASSUME IInv, JoinAndFree
  PROVE  Places' /\ q' \in [Workers -> Seq(Tasks)] /\ lost' \subseteq Tasks
<1> USE DEF IInv, Places
<1>1. /\ UNCHANGED <<run, ran, index>> /\ lost = {} /\ InHand = {} /\ InHand' = {}
      /\ q' = [w \in Workers |-> << >>]
      /\ \A w \in Workers : run[w] = << >>
  BY DEF JoinAndFree, TypeOK, MainOK, RunOK, InHand
<1>2. lost' = UNION {Range(q[w]) : w \in Workers}
  <2>1. \A w \in Workers : 1..Len(q[w]) = DOMAIN q[w]
    BY LenProperties DEF TypeOK
  <2>2. lost' = UNION {{q[w][k] : k \in 1..Len(q[w])} : w \in Workers}
    BY DEF JoinAndFree
  <2>3. \A x : x \in lost' <=> \E w \in Workers : \E k \in DOMAIN q[w] : x = q[w][k]
    BY <2>1, <2>2
  <2> QED
    BY <2>3 DEF Range
<1>3. /\ \A w \in Workers, t \in Tasks : In(t, w) <=> t \in Range(q[w])
      /\ \A w \in Workers, t \in Tasks : ~In(t, w)'
  BY <1>1, EmptyRange DEF In
<1>4. \A t \in Tasks : t \in lost' <=> \E w \in Workers : In(t, w)
  BY <1>2, <1>3
<1>5. NoRepeat'
  BY <1>1, EmptyRange DEF NoRepeat
<1>6. Apart'
  BY <1>3 DEF Apart
<1>7. Account'
  <2> SUFFICES ASSUME NEW t \in Tasks
               PROVE  /\ ran[t] \in {0, 1}
                      /\ t > index \/ t \in lost' => ran[t] = 0
                      /\ t \in lost' => t <= index
                      /\ t <= index => \/ ran[t] = 1 \/ t \in lost'
    BY <1>1 DEF Account
  <2> QED
    BY <1>1, <1>4 DEF Account, Apart
<1>8. q' \in [Workers -> Seq(Tasks)]
  BY <1>1, EmptySeq
<1>9. lost' \subseteq Tasks
  <2>1. \A w \in Workers : Range(q[w]) \subseteq Tasks
    BY RangeOfSeq DEF TypeOK
  <2> QED
    BY <1>2, <2>1
<1> QED
  BY <1>5, <1>6, <1>7, <1>8, <1>9
\* Every step of the submitting thread keeps the invariant.
LEMMA MainStepOK ==
  ASSUME IInv, MainNext
  PROVE  IInv'
<1> USE DEF IInv
<1>0. /\ NumThreads \in Nat \ {0} /\ NTasks \in Nat /\ index \in 0..NTasks
      /\ \A k \in Workers : k \in Nat /\ k < NumThreads
      /\ Main \in 0..Free /\ Free \in 0..Free
      /\ main.i \in 0..NumThreads /\ main.on \in Workers /\ 0 \in Workers
  BY PoolAssumption DEF TypeOK, Workers, Main, Free
<1>1. ASSUME NEW k \in Workers
      PROVE  Lock(k, Main) \/ Unlock(k) => mtx' \in [Workers -> 0..Free]
  <2>1. mtx \in [Workers -> 0..Free]
    BY DEF TypeOK
  <2> QED
    BY <1>0, <2>1 DEF Lock, Unlock
<1>2. ASSUME NEW k \in Workers, Signal(k), UNCHANGED run
      PROVE  /\ wpc' \in [Workers -> {"scan", "steal", "run", "pop", "own", "wait",
                                      "woken", "exit"}]
             /\ RunOK'
  BY <1>2 DEF Signal, TypeOK, RunOK
<1>3. CASE Async
  <2>1. TypeOK'
    BY <1>0, <1>3 DEF Async, TypeOK
  <2>2. MainOK' /\ RunOK'
    BY <1>0, <1>3 DEF Async, MainOK, RunOK
  <2> QED
    BY <1>3, <2>1, <2>2, AsyncOK
<1>4. CASE TryPushBusy
  <2>1. main.i < NumThreads /\ main.i + 1 \in 0..NumThreads
    BY <1>0, <1>4 DEF TryPushBusy, MainOK
  <2>2. TypeOK'
    BY <1>4, <2>1 DEF TryPushBusy, TypeOK
  <2>3. MainOK' /\ RunOK'
    BY <1>0, <1>4, <2>1 DEF TryPushBusy, MainOK, RunOK, TypeOK
  <2>4. InHand' = InHand
    BY <1>4 DEF TryPushBusy, InHand, TypeOK
  <2> QED
    BY <1>4, <2>2, <2>3, <2>4, PlacesSame DEF TryPushBusy
<1>5. CASE TryPushLock \/ PushLock
  <2>1. PICK i \in {0, main.i} :
          /\ main.pc \in {"try", "block"} /\ Lock(Target(i), Main)
          /\ main' = [main EXCEPT !.pc = "push", !.on = Target(i)]
          /\ UNCHANGED <<q, done, wpc, it, run, ran, index, lost>>
    BY <1>5 DEF TryPushLock, PushLock
  <2>2. index >= 1 /\ Target(i) \in Workers
    BY <1>0, <2>1, TargetOK DEF MainOK
  <2>3. TypeOK'
    BY <1>1, <2>1, <2>2 DEF TypeOK
  <2>4. MainOK' /\ RunOK'
    BY <2>1, <2>2 DEF MainOK, RunOK, TypeOK
  <2>5. InHand' = InHand
    BY <2>1 DEF InHand, TypeOK
  <2> QED
    BY <2>1, <2>3, <2>4, <2>5, PlacesSame
<1>6. CASE PushBack
  <2>1. TypeOK'
    BY <1>0, <1>1, <1>6, PushBackOK DEF PushBack, TypeOK
  <2>2. MainOK' /\ RunOK'
    BY <1>6 DEF PushBack, MainOK, RunOK, TypeOK
  <2> QED
    BY <1>6, <2>1, <2>2, PushBackOK
<1>7. CASE PushSignal
  <2>1. TypeOK' /\ RunOK'
    BY <1>0, <1>2, <1>7 DEF PushSignal, TypeOK
  <2>2. MainOK' /\ InHand' = InHand
    BY <1>7 DEF PushSignal, MainOK, InHand, TypeOK
  <2> QED
    BY <1>7, <2>1, <2>2, PlacesSame DEF PushSignal
<1>8. CASE Stop
  <2>1. TypeOK'
    <3>1. main' = [pc |-> "done", i |-> 0, on |-> 0] /\ 0 \in 0..NumThreads
      BY <1>0, <1>8 DEF Stop
    <3>2. main' \in [pc : {"idle", "try", "block", "push", "signal", "done", "set",
                           "tell", "join", "freed"},
                     i : 0..NumThreads, on : Workers]
      BY <1>0, <3>1
    <3> QED
      BY <1>8, <3>2 DEF Stop, TypeOK
  <2>2. MainOK' /\ RunOK' /\ InHand' = InHand
    BY <1>0, <1>8 DEF Stop, MainOK, RunOK, InHand, TypeOK
  <2> QED
    BY <1>8, <2>1, <2>2, PlacesSame DEF Stop
<1>9. CASE DoneLock
  <2>0. main.i \in Workers
    BY <1>0, <1>9 DEF DoneLock, MainOK, Workers
  <2>1. TypeOK'
    BY <1>1, <1>9, <2>0 DEF DoneLock, TypeOK
  <2>2. MainOK' /\ RunOK' /\ InHand' = InHand
    BY <1>9 DEF DoneLock, MainOK, RunOK, InHand, TypeOK
  <2> QED
    BY <1>9, <2>1, <2>2, PlacesSame DEF DoneLock
<1>10. CASE DoneSet
  <2>0. main.i \in Workers
    BY <1>0, <1>10 DEF DoneSet, MainOK, Workers
  <2>1. TypeOK'
    BY <1>1, <1>10, <2>0 DEF DoneSet, TypeOK
  <2>2. MainOK' /\ RunOK' /\ InHand' = InHand
    BY <1>10 DEF DoneSet, MainOK, RunOK, InHand, TypeOK
  <2> QED
    BY <1>10, <2>1, <2>2, PlacesSame DEF DoneSet
<1>11. CASE DoneSignal
  <2>0. main.i \in Workers /\ main.i + 1 \in 0..NumThreads
    BY <1>0, <1>11 DEF DoneSignal, MainOK, Workers
  <2>1. TypeOK' /\ RunOK'
    BY <1>2, <1>11, <2>0 DEF DoneSignal, TypeOK
  <2>2. MainOK'
    <3>1. /\ main'.pc = IF main.i + 1 = NumThreads THEN "join" ELSE "done"
          /\ main'.i = main.i + 1 /\ lost' = lost /\ main.pc = "tell"
      BY <1>11 DEF DoneSignal, TypeOK
    <3>2. main.i + 1 # NumThreads => main.i + 1 < NumThreads
      BY <1>0, <2>0
    <3>3. lost' = {}
      BY <3>1 DEF MainOK
    <3> QED
      BY <3>1, <3>2, <3>3 DEF MainOK
  <2>3. InHand' = InHand
    BY <1>11 DEF DoneSignal, InHand, TypeOK
  <2> QED
    BY <1>11, <2>1, <2>2, <2>3, PlacesSame DEF DoneSignal
<1>12. CASE JoinAndFree
  <2>1. TypeOK'
    BY <1>12, JoinAndFreeOK DEF JoinAndFree, TypeOK
  <2>2. MainOK' /\ RunOK'
    BY <1>12 DEF JoinAndFree, MainOK, RunOK, TypeOK
  <2> QED
    BY <1>12, <2>1, <2>2, JoinAndFreeOK
<1> QED
  BY <1>3, <1>4, <1>5, <1>6, <1>7, <1>8, <1>9, <1>10, <1>11, <1>12 DEF MainNext

\* Every step of a worker keeps the invariant.
LEMMA WorkerStepOK ==
  ASSUME IInv, NEW w \in Workers, WorkerStep(w) \/ SpuriousWakeup(w)
  PROVE  IInv'
<1> USE DEF IInv
<1> DEFINE k == it[w] % NumThreads
           PCs == {"scan", "steal", "run", "pop", "own", "wait", "woken", "exit"}
<1>0. /\ w \in 0..Free /\ Free \in 0..Free /\ k \in Workers /\ it[w] \in Nat
      /\ wpc \in [Workers -> PCs] /\ it \in [Workers -> Nat]
  <2>1. it[w] \in Nat /\ wpc \in [Workers -> PCs] /\ it \in [Workers -> Nat]
    BY DEF TypeOK
  <2>2. w \in 0..Free /\ Free \in 0..Free
    BY PoolAssumption DEF Workers, Free
  <2> QED
    BY <2>1, <2>2, TargetOK
<1> HIDE DEF k
<1>1. ASSUME NEW l \in Workers
      PROVE  Lock(l, w) \/ Unlock(l) => mtx' \in [Workers -> 0..Free]
  <2>1. mtx \in [Workers -> 0..Free]
    BY DEF TypeOK
  <2> QED
    BY <1>0, <2>1 DEF Lock, Unlock
<1>2. UNCHANGED main => InHand' = InHand \/ index' # index
  BY DEF InHand
\* A step that moves no task and does not enter or leave "run".
<1>3. ASSUME UNCHANGED <<q, done, run, ran, main, index, lost>>,
             mtx' \in [Workers -> 0..Free],
             NEW pc \in PCs \ {"run"}, wpc' = [wpc EXCEPT ![w] = pc], wpc[w] # "run",
             it' \in [Workers -> Nat]
      PROVE  IInv'
  <2>1. TypeOK'
    BY <1>0, <1>3 DEF TypeOK
  <2>2. MainOK' /\ RunOK'
    BY <1>0, <1>3 DEF MainOK, RunOK
  <2> QED
    BY <1>2, <1>3, <2>1, <2>2, PlacesSame
<1>4. ASSUME NextQueue(w)
      PROVE  /\ it' \in [Workers -> Nat]
             /\ \E pc \in {"pop", "scan"} : wpc' = [wpc EXCEPT ![w] = pc]
  <2>1. it' = [it EXCEPT ![w] = @ + 1] /\ it' \in [Workers -> Nat]
    BY <1>0, <1>4 DEF NextQueue
  <2>2. CASE it[w] + 1 = NumIt(w)
    BY <1>4, <2>1, <2>2 DEF NextQueue
  <2>3. CASE it[w] + 1 # NumIt(w)
    BY <1>4, <2>1, <2>3 DEF NextQueue
  <2> QED
    BY <2>1, <2>2, <2>3
<1>5. CASE TryPopBusy(w)
  BY <1>0, <1>3, <1>4, <1>5 DEF TryPopBusy, TypeOK
<1>6. CASE TryPopLock(w)
  BY <1>0, <1>1, <1>3, <1>6 DEF TryPopLock, k
<1>7. CASE TryPopEmpty(w)
  BY <1>0, <1>1, <1>3, <1>4, <1>7 DEF TryPopEmpty, k
<1>8. CASE PopLock(w)
  BY <1>0, <1>1, <1>3, <1>8 DEF PopLock
<1>9. CASE PopWait(w)
  BY <1>0, <1>1, <1>3, <1>9 DEF PopWait
<1>10. CASE PopDone(w)
  BY <1>0, <1>1, <1>3, <1>10 DEF PopDone
<1>11. CASE SpuriousWakeup(w)
  BY <1>0, <1>3, <1>11 DEF SpuriousWakeup, TypeOK
<1>12. CASE TryPopTake(w) \/ PopTake(w)
  <2>1. PICK l \in Workers :
          /\ wpc[w] # "run" /\ q[l] # << >> /\ TakeBatch(w, l) /\ Unlock(l)
          /\ wpc' = [wpc EXCEPT ![w] = "run"]
          /\ UNCHANGED <<done, it, ran, main, index, lost>>
    BY <1>0, <1>12 DEF TryPopTake, PopTake, k
  <2>2. run[w] = << >>
    BY <2>1 DEF RunOK
  <2>3. /\ Places'
        /\ q' \in [Workers -> Seq(Tasks)] /\ run' \in [Workers -> Seq(Tasks)]
        /\ run'[w] # << >> /\ \A v \in Workers : v # w => run'[v] = run[v]
    BY <2>1, <2>2, TakeOK
  <2>4. TypeOK'
    BY <1>0, <1>1, <2>1, <2>3 DEF TypeOK
  <2>5. MainOK' /\ RunOK'
    BY <1>0, <2>1, <2>3 DEF MainOK, RunOK
  <2> QED
    BY <2>3, <2>4, <2>5
<1>13. CASE Execute(w)
  <2>1. /\ Places' /\ RunOK'
        /\ run' \in [Workers -> Seq(Tasks)] /\ ran' \in [Tasks -> Nat]
    BY <1>13, ExecuteOK
  <2>2. it' \in [Workers -> Nat] /\ wpc' \in [Workers -> PCs]
    <3>1. w \in Nat
      BY <1>0
    <3> QED
      BY <1>0, <1>13, <3>1 DEF Execute
  <2>3. TypeOK' /\ MainOK'
    BY <1>13, <2>1, <2>2 DEF Execute, TypeOK, MainOK
  <2> QED
    BY <2>1, <2>3
<1> QED
  BY <1>5, <1>6, <1>7, <1>8, <1>9, <1>10, <1>11, <1>12, <1>13 DEF WorkerStep

\* Every step keeps the invariant.
THEOREM StepOK == IInv /\ [Next]_vars => IInv'
<1> SUFFICES ASSUME IInv, [Next]_vars PROVE IInv'
  OBVIOUS
<1>1. CASE UNCHANGED vars
  BY <1>1 DEF IInv, TypeOK, MainOK, RunOK, Places, NoRepeat, Apart, Account, In, InHand, vars
<1> QED
  BY <1>1, MainStepOK, WorkerStepOK DEF Next

\* The invariant holds in every reachable state.
THEOREM Inductive == Spec => []IInv
BY InitOK, StepOK, PTL DEF Spec

-----------------------------------------------------------------------------
(* The theorems.                                                           *)

\* Every submitted task is in exactly one place, whatever the interleaving of
\* pushes, steals and executions: none is executed twice and none disappears
\* (task_manager.c: async_task_manager, worker_thread, free_task_manager).
THEOREM ExactlyOnceCorrect == Spec => []ExactlyOnce
<1>1. IInv => ExactlyOnce
  <2> SUFFICES ASSUME IInv, NEW t \in 1..index
               PROVE  LET place == [w \in Workers |-> Occurs(t, q[w]) + Occurs(t, run[w])]
                          held  == {w \in Workers : place[w] > 0}
                      IN  /\ \A w \in Workers : place[w] <= 1
                          /\ Cardinality(held) + ran[t]
                               + (IF t \in InHand THEN 1 ELSE 0)
                               + (IF t \in lost THEN 1 ELSE 0) = 1
    BY DEF ExactlyOnce, IInv
  <2> USE DEF IInv, Places
  <2> DEFINE place == [w \in Workers |-> Occurs(t, q[w]) + Occurs(t, run[w])]
             held  == {w \in Workers : place[w] > 0}
  <2>1. t \in Tasks /\ t \in Nat /\ index \in Nat /\ t <= index
    BY PoolAssumption DEF TypeOK, Tasks
  <2>2. ASSUME NEW w \in Workers
        PROVE  place[w] = IF In(t, w) THEN 1 ELSE 0
    <3>1. Occurs(t, q[w]) = IF t \in Range(q[w]) THEN 1 ELSE 0
      BY OccursOnce DEF NoRepeat, TypeOK
    <3>2. Occurs(t, run[w]) = IF t \in Range(run[w]) THEN 1 ELSE 0
      BY OccursOnce DEF NoRepeat, TypeOK
    <3>3. ~(t \in Range(q[w]) /\ t \in Range(run[w]))
      BY DEF NoRepeat
    <3>4. place[w] = Occurs(t, q[w]) + Occurs(t, run[w])
      OBVIOUS
    <3> QED
      BY <3>1, <3>2, <3>3, <3>4 DEF In
  <2>3. held = {w \in Workers : In(t, w)}
    BY <2>2
  <2> HIDE DEF place
  <2>4. \A w \in Workers : place[w] <= 1
    BY <2>2
  <2>5. /\ Cardinality(held) + ran[t] + (IF t \in InHand THEN 1 ELSE 0)
           + (IF t \in lost THEN 1 ELSE 0) = 1
    <3>1. CASE \E w \in Workers : In(t, w)
      <4>1. PICK w \in Workers : In(t, w)
        BY <3>1
      <4>2. /\ ran[t] = 0 /\ t \notin InHand /\ t \notin lost
            /\ \A v \in Workers : In(t, v) => v = w
        BY <2>1, <4>1 DEF Apart
      <4>3. held = {w}
        BY <2>3, <4>1, <4>2
      <4>4. Cardinality(held) = 1
        BY <4>3, FS_Singleton
      <4> HIDE DEF held
      <4> QED
        BY <4>2, <4>4
    <3>2. CASE ~\E w \in Workers : In(t, w)
      <4>1. held = {}
        BY <2>3, <3>2
      <4>2. Cardinality(held) = 0
        BY <4>1, FS_EmptySet
      <4>3. /\ ran[t] \in {0, 1}
            /\ t \in InHand \/ t \in lost => ran[t] = 0
            /\ t \in lost => t \notin InHand
            /\ ran[t] = 1 \/ t \in InHand \/ t \in lost
        BY <2>1, <3>2 DEF Account
      <4> HIDE DEF held
      <4> QED
        BY <4>2, <4>3
    <3> QED
      BY <3>1, <3>2
  <2> QED
    BY <2>4, <2>5 DEF place
<1> QED
  BY <1>1, Inductive, PTL

\* No wakeup is lost: the signal for a sleeping worker's task, or for its end,
\* is still to come (task_manager.c: push_not_q, pop_not_q, done_not_q).
THEOREM NoLostWakeupCorrect == Spec => []NoLostWakeup
<1>1. Init => NoLostWakeup
  BY DEF Init, NoLostWakeup
<1>2. IInv /\ NoLostWakeup /\ [Next]_vars => NoLostWakeup'
  <2> SUFFICES ASSUME IInv, NoLostWakeup, [Next]_vars, NEW w \in Workers, wpc'[w] = "wait"
               PROVE  /\ q'[w] # << >> => main'.pc = "signal" /\ main'.on = w
                      /\ done'[w] => main'.pc = "tell" /\ main'.i = w
    BY DEF NoLostWakeup
  <2> USE DEF IInv, TypeOK, NoLostWakeup
  <2>1. CASE UNCHANGED vars
    BY <2>1 DEF vars
  <2>2. CASE MainNext
    <3>1. CASE Async \/ TryPushBusy \/ TryPushLock \/ PushLock \/ Stop \/ DoneLock
      BY <3>1 DEF Async, TryPushBusy, TryPushLock, PushLock, Stop, DoneLock
    <3>2. CASE PushBack
      BY <3>2 DEF PushBack
    <3>3. CASE PushSignal
      BY <3>3 DEF PushSignal, Signal
    <3>4. CASE DoneSet
      BY <3>4 DEF DoneSet
    <3>5. CASE DoneSignal
      BY <3>5 DEF DoneSignal, Signal
    <3>6. CASE JoinAndFree
      BY <3>6 DEF JoinAndFree
    <3> QED
      BY <2>2, <3>1, <3>2, <3>3, <3>4, <3>5, <3>6 DEF MainNext
  <2>3. ASSUME NEW v \in Workers, WorkerStep(v) \/ SpuriousWakeup(v)
        PROVE  /\ q'[w] # << >> => main'.pc = "signal" /\ main'.on = w
               /\ done'[w] => main'.pc = "tell" /\ main'.i = w
    <3>0. UNCHANGED <<main, done>>
      BY <2>3 DEF WorkerStep, SpuriousWakeup, TryPopBusy, TryPopLock, TryPopEmpty,
                  TryPopTake, PopLock, PopWait, PopDone, PopTake, Execute
    <3>1. CASE TryPopBusy(v) \/ TryPopLock(v) \/ TryPopEmpty(v) \/ PopLock(v) \/ PopDone(v)
               \/ Execute(v) \/ SpuriousWakeup(v)
      BY <3>0, <3>1 DEF TryPopBusy, TryPopLock, TryPopEmpty, PopLock, PopDone, Execute,
                        SpuriousWakeup, NextQueue
    <3>2. CASE PopWait(v)
      BY <3>0, <3>2 DEF PopWait
    <3>3. CASE TryPopTake(v) \/ PopTake(v)
      <4>1. wpc[w] = "wait"
        BY <3>3 DEF TryPopTake, PopTake
      <4>2. it[v] % NumThreads \in Workers
        BY TargetOK
      <4>3. q'[w] # << >> => q[w] # << >>
        BY <3>3, <4>2 DEF TryPopTake, PopTake, TakeBatch
      <4> QED
        BY <3>0, <4>1, <4>3
    <3> QED
      BY <2>3, <3>1, <3>2, <3>3 DEF WorkerStep
  <2> QED
    BY <2>1, <2>2, <2>3 DEF Next
<1> QED
  BY <1>1, <1>2, Inductive, PTL DEF Spec
-----------------------------------------------------------------------------
(* Mutual exclusion.                                                       *)

\* A thread that works on a ring holds its mutex.
Held ==
  /\ \A w \in Workers :
       /\ wpc[w] = "steal" => mtx[it[w] % NumThreads] = w
       /\ wpc[w] = "own" => mtx[w] = w
  /\ main.pc = "push" => mtx[main.on] = Main
  /\ main.pc = "set" => mtx[main.i] = Main

\* Whoever is between the lock of a queue and the unlock: the submitter at a
\* push or a done, a worker that steals or that pops from its own queue.
Inside(th, k) ==
  \/ th = Main /\ main.pc = "push" /\ main.on = k
  \/ th = Main /\ main.pc = "set" /\ main.i = k
  \/ th \in Workers /\ wpc[th] = "steal" /\ it[th] % NumThreads = k
  \/ th \in Workers /\ wpc[th] = "own" /\ th = k

\* At most one thread works on a queue's ring and done flag at a time: the
\* steps the model takes under a mutex are not interleaved in the code either
\* (task_manager.c: try_push_not_q, push_not_q, try_pop_not_q, pop_not_q,
\* done_not_q).
THEOREM MutualExclusion ==
  Spec => [](\A k \in Workers : \A a, b \in Workers \cup {Main} :
               Inside(a, k) /\ Inside(b, k) => a = b)
<1> DEFINE ME == \A k \in Workers : \A a, b \in Workers \cup {Main} :
                   Inside(a, k) /\ Inside(b, k) => a = b
<1>1. Init => Held
  BY DEF Init, Held
<1>2. IInv /\ Held /\ [Next]_vars => Held'
  <2> SUFFICES ASSUME IInv, Held, [Next]_vars PROVE Held'
    OBVIOUS
  <2> USE DEF IInv
  <2> DEFINE PCs == {"scan", "steal", "run", "pop", "own", "wait", "woken", "exit"}
  <2>0. /\ mtx \in [Workers -> 0..Free] /\ wpc \in [Workers -> PCs]
        /\ it \in [Workers -> Nat]
        /\ \A w \in Workers : it[w] % NumThreads \in Workers
        /\ \A w \in Workers : w # Main /\ w # Free
        /\ Main # Free /\ main.on \in Workers
        /\ main.pc \in {"try", "done", "set", "tell"} => main.i \in Workers
    <3>1. mtx \in [Workers -> 0..Free] /\ it \in [Workers -> Nat] /\ main.on \in Workers
          /\ wpc \in [Workers -> PCs]
      BY DEF TypeOK
    <3>2. \A w \in Workers : it[w] % NumThreads \in Workers
      BY <3>1, TargetOK
    <3>3. \A w \in Workers : w # Main /\ w # Free
      BY PoolAssumption DEF Workers, Main, Free
    <3>4. Main # Free
      BY PoolAssumption DEF Main, Free
    <3>5. main.pc \in {"try", "done", "set", "tell"} => main.i \in Workers
      BY PoolAssumption DEF TypeOK, MainOK, Workers
    <3> QED
      BY <3>1, <3>2, <3>3, <3>4, <3>5
  <2>1. CASE UNCHANGED vars
    BY <2>1 DEF vars, Held
  <2>2. CASE Async \/ TryPushBusy \/ Stop \/ JoinAndFree
    <3>1. main'.pc \notin {"push", "set"} /\ UNCHANGED <<wpc, it, mtx>>
      <4>1. CASE Async \/ Stop \/ JoinAndFree
        BY <4>1 DEF Async, Stop, JoinAndFree, TypeOK
      <4>2. CASE TryPushBusy
        BY <4>2 DEF TryPushBusy, TypeOK
      <4> QED
        BY <2>2, <4>1, <4>2
    <3> QED
      BY <3>1 DEF Held
  <2>3. CASE TryPushLock \/ PushLock
    <3>1. PICK k : /\ Lock(k, Main) /\ main' = [main EXCEPT !.pc = "push", !.on = k]
                   /\ UNCHANGED <<wpc, it>> /\ k \in Workers
      <4>0. index \in Nat /\ (main.pc \in {"try", "block"} => index >= 1)
        BY PoolAssumption DEF MainOK, TypeOK
      <4>1. \A i \in Nat : main.pc \in {"try", "block"} => Target(i) \in Workers
        BY <4>0, TargetOK
      <4>2. main.i \in Nat
        BY PoolAssumption DEF TypeOK
      <4> QED
        BY <2>3, <4>1, <4>2 DEF TryPushLock, PushLock
    <3>2. main'.pc = "push" /\ main'.on = k
      BY <3>1 DEF TypeOK
    <3>3. \A l \in Workers : mtx'[l] = IF l = k THEN Main ELSE mtx[l]
      BY <2>0, <3>1 DEF Lock
    <3>4. mtx[k] = Free
      BY <3>1 DEF Lock
    <3> QED
      BY <2>0, <3>1, <3>2, <3>3, <3>4 DEF Held
  <2>4. CASE DoneLock
    <3>1. main.i \in Workers /\ main'.pc = "set" /\ main'.i = main.i /\ UNCHANGED <<wpc, it>>
      BY <2>0, <2>4 DEF DoneLock, TypeOK
    <3>2. \A l \in Workers : mtx'[l] = IF l = main.i THEN Main ELSE mtx[l]
      BY <2>0, <2>4, <3>1 DEF DoneLock, Lock
    <3>3. mtx[main.i] = Free
      BY <2>4 DEF DoneLock, Lock
    <3> QED
      BY <2>0, <3>1, <3>2, <3>3 DEF Held
  <2>5. CASE PushBack \/ DoneSet
    <3>1. PICK k \in Workers : /\ mtx[k] = Main /\ Unlock(k)
                               /\ main'.pc \notin {"push", "set"} /\ UNCHANGED <<wpc, it>>
      <4>1. CASE PushBack
        BY <2>0, <4>1 DEF PushBack, Held, TypeOK
      <4>2. CASE DoneSet
        BY <2>0, <4>2 DEF DoneSet, Held, TypeOK
      <4> QED
        BY <2>5, <4>1, <4>2
    <3>2. \A l \in Workers : mtx'[l] = IF l = k THEN Free ELSE mtx[l]
      BY <2>0, <3>1 DEF Unlock
    <3> QED
      BY <2>0, <3>1, <3>2 DEF Held
  <2>6. CASE PushSignal \/ DoneSignal
    <3>1. PICK k \in Workers : /\ Signal(k) /\ main'.pc \notin {"push", "set"}
                               /\ UNCHANGED <<mtx, it>>
      <4>1. CASE PushSignal
        BY <2>0, <4>1 DEF PushSignal, TypeOK
      <4>2. CASE DoneSignal
        BY <2>0, <4>2 DEF DoneSignal, TypeOK
      <4> QED
        BY <2>6, <4>1, <4>2
    <3>2. \A v \in Workers : wpc'[v] \in {"steal", "own"} => wpc[v] = wpc'[v]
      BY <2>0, <3>1 DEF Signal
    <3> QED
      BY <2>0, <3>1, <3>2 DEF Held
  <2>7. ASSUME NEW w \in Workers, WorkerStep(w) \/ SpuriousWakeup(w) PROVE Held'
    <3>0. UNCHANGED main /\ \A v \in Workers : v # w => wpc'[v] = wpc[v] /\ it'[v] = it[v]
      BY <2>0, <2>7 DEF WorkerStep, SpuriousWakeup, TryPopBusy, TryPopLock, TryPopEmpty,
                        TryPopTake, PopLock, PopWait, PopDone, PopTake, Execute, NextQueue
    <3>1. CASE TryPopBusy(w) \/ Execute(w) \/ SpuriousWakeup(w)
      <4>1. UNCHANGED mtx /\ wpc'[w] \notin {"steal", "own"}
        BY <2>0, <3>1 DEF TryPopBusy, Execute, SpuriousWakeup, NextQueue
      <4> QED
        BY <2>0, <3>0, <4>1 DEF Held
    <3>2. CASE TryPopLock(w)
      <4> DEFINE k == it[w] % NumThreads
      <4>1. /\ mtx[k] = Free /\ wpc'[w] = "steal" /\ it' = it
            /\ \A l \in Workers : mtx'[l] = IF l = k THEN w ELSE mtx[l]
        BY <2>0, <3>2 DEF TryPopLock, Lock
      <4>2. k \in Workers
        BY <2>0
      <4> QED
        BY <2>0, <3>0, <4>1, <4>2 DEF Held
    <3>3. CASE PopLock(w)
      <4>1. /\ mtx[w] = Free /\ wpc'[w] = "own"
            /\ \A l \in Workers : mtx'[l] = IF l = w THEN w ELSE mtx[l]
        BY <2>0, <3>3 DEF PopLock, Lock
      <4> QED
        BY <2>0, <3>0, <4>1 DEF Held
    <3>4. CASE \/ TryPopEmpty(w) \/ TryPopTake(w)
               \/ PopWait(w) \/ PopDone(w) \/ PopTake(w)
      <4>1. PICK k \in Workers : /\ mtx[k] = w /\ Unlock(k)
                                 /\ wpc'[w] \notin {"steal", "own"}
        <5>1. CASE TryPopEmpty(w) \/ TryPopTake(w)
          <6>1. wpc[w] = "steal" /\ Unlock(it[w] % NumThreads)
            BY <5>1 DEF TryPopEmpty, TryPopTake
          <6>2. mtx[it[w] % NumThreads] = w /\ it[w] % NumThreads \in Workers
            BY <2>0, <6>1 DEF Held
          <6>3. wpc'[w] \notin {"steal", "own"}
            BY <2>0, <5>1 DEF TryPopEmpty, TryPopTake, NextQueue
          <6> QED
            BY <6>1, <6>2, <6>3
        <5>2. CASE PopWait(w) \/ PopDone(w) \/ PopTake(w)
          <6>1. wpc[w] = "own" /\ Unlock(w) /\ wpc'[w] \notin {"steal", "own"}
            BY <2>0, <5>2 DEF PopWait, PopDone, PopTake
          <6>2. mtx[w] = w
            BY <6>1 DEF Held
          <6> QED
            BY <6>1, <6>2
        <5> QED
          BY <3>4, <5>1, <5>2
      <4>2. \A l \in Workers : mtx'[l] = IF l = k THEN Free ELSE mtx[l]
        BY <2>0, <4>1 DEF Unlock
      <4> QED
        BY <2>0, <3>0, <4>1, <4>2 DEF Held
    <3> QED
      BY <2>7, <3>1, <3>2, <3>3, <3>4 DEF WorkerStep
  <2> QED
    BY <2>1, <2>2, <2>3, <2>4, <2>5, <2>6, <2>7 DEF Next, MainNext
<1>3. Held => ME
  <2> SUFFICES ASSUME Held, NEW k \in Workers, NEW a \in Workers \cup {Main}, Inside(a, k)
               PROVE  mtx[k] = a
    OBVIOUS
  <2>1. CASE a = Main /\ (\/ main.pc = "push" /\ main.on = k
                          \/ main.pc = "set" /\ main.i = k)
    BY <2>1 DEF Held
  <2>2. CASE a \in Workers /\ (\/ wpc[a] = "steal" /\ it[a] % NumThreads = k
                               \/ wpc[a] = "own" /\ a = k)
    BY <2>2 DEF Held
  <2> QED
    BY <2>1, <2>2 DEF Inside
<1> QED
  BY <1>1, <1>2, <1>3, Inductive, PTL DEF Spec
=============================================================================
