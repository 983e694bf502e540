------------------------------ MODULE TaskPool ------------------------------
(***************************************************************************)
(* The RIC's task manager (src/util/alg_ds/ds/task_man/task_manager.c):    *)
(* one notification queue (mutex, condition variable, ring, done flag) and *)
(* one worker thread per queue.  The RIC's event loop, the only submitter, *)
(* hands every received SCTP message to async_task_manager; free_near_ric  *)
(* stops the loop and then calls free_task_manager.                        *)
(*                                                                         *)
(* A step is what one thread does between two operations on a mutex or     *)
(* condition variable, so that trylock can find a mutex taken, a worker    *)
(* can steal between another's test and its wait, and a signal, sent after *)
(* the unlock, can come late.  A task is its submission number.  The ring  *)
(* is a sequence here; SeqRing shows it behaves as one.                    *)
(***************************************************************************)
EXTENDS Integers, Sequences, FiniteSets

CONSTANTS
  NumThreads,  \* len_thr: queues, and worker threads
  Batch,       \* 4096: tasks one pop takes at most
  Rounds,      \* 3: the factor of num_it
  NTasks,      \* bound: tasks the event loop submits
  Stops        \* whether free_near_ric is called

ASSUME PoolAssumption ==
  /\ NumThreads \in Nat \ {0}
  /\ Batch \in Nat \ {0}
  /\ Rounds \in Nat \ {0}
  /\ NTasks \in Nat
  /\ Stops \in BOOLEAN

VARIABLES
  q,       \* the ring of every queue
  done,    \* its done flag
  mtx,     \* which thread holds its mutex
  wpc,     \* where every worker is
  it,      \* the i of its scan of the queues
  run,     \* the tasks of its batch it has not executed yet
  ran,     \* history: how often a task was executed
  main,    \* the submitting thread: place, loop index, queue it works on
  index,   \* man->index, modulo nothing: it is 64 bits wide
  lost     \* history: tasks thrown away by free_task_manager

vars == <<q, done, mtx, wpc, it, run, ran, main, index, lost>>

Workers == 0..(NumThreads - 1)
Main == NumThreads      \* the event loop, then the thread that frees the pool
Free == NumThreads + 1  \* no thread
Tasks == 1..NTasks

NumIt(w) == Rounds * (NumThreads + w)

Init ==
  /\ q = [w \in Workers |-> << >>]
  /\ done = [w \in Workers |-> FALSE]
  /\ mtx = [w \in Workers |-> Free]
  /\ wpc = [w \in Workers |-> "scan"]
  /\ it = [w \in Workers |-> w]
  /\ run = [w \in Workers |-> << >>]
  /\ ran = [t \in Tasks |-> 0]
  /\ main = [pc |-> "idle", i |-> 0, on |-> 0]
  /\ index = 0
  /\ lost = {}

Lock(k, th) == mtx[k] = Free /\ mtx' = [mtx EXCEPT ![k] = th]
Unlock(k) == mtx' = [mtx EXCEPT ![k] = Free]

\* pthread_cond_signal: the only thread that waits on a queue's condition
\* variable is the queue's own worker.  With nobody waiting it does nothing.
Signal(k) ==
  wpc' = [wpc EXCEPT ![k] = IF @ = "wait" THEN "woken" ELSE @]
-----------------------------------------------------------------------------
(***************************************************************************)
(* async_task_manager, called by the event loop: try every queue once,     *)
(* beginning with the next one in turn, then block on that one.            *)
(***************************************************************************)
Target(i) == (i + index - 1) % NumThreads

Async ==
  /\ main.pc = "idle"
  /\ index < NTasks
  /\ index' = index + 1
  /\ main' = [pc |-> "try", i |-> 0, on |-> 0]
  /\ UNCHANGED <<q, done, mtx, wpc, it, run, ran, lost>>

TryPushBusy ==
  /\ main.pc = "try"
  /\ mtx[Target(main.i)] # Free
  /\ main' = [main EXCEPT !.i = @ + 1,
                          !.pc = IF main.i + 1 = NumThreads THEN "block"
                                                            ELSE "try"]
  /\ UNCHANGED <<q, done, mtx, wpc, it, run, ran, index, lost>>

TryPushLock ==
  /\ main.pc = "try"
  /\ Lock(Target(main.i), Main)
  /\ main' = [main EXCEPT !.pc = "push", !.on = Target(main.i)]
  /\ UNCHANGED <<q, done, wpc, it, run, ran, index, lost>>

PushLock ==
  /\ main.pc = "block"
  /\ Lock(Target(0), Main)
  /\ main' = [main EXCEPT !.pc = "push", !.on = Target(0)]
  /\ UNCHANGED <<q, done, wpc, it, run, ran, index, lost>>

\* Fault: nobody is signalled.
PushSilent ==
  /\ main.pc = "signal"
  /\ main' = [main EXCEPT !.pc = "idle"]
  /\ UNCHANGED <<q, done, mtx, wpc, it, run, ran, index, lost>>

\* seq_ring_push_back and unlock, in try_push_not_q and in push_not_q.
PushBack ==
  /\ main.pc = "push"
  /\ q' = [q EXCEPT ![main.on] = Append(@, index)]
  /\ Unlock(main.on)
  /\ main' = [main EXCEPT !.pc = "signal"]
  /\ UNCHANGED <<done, wpc, it, run, ran, index, lost>>

PushSignal ==
  /\ main.pc = "signal"
  /\ Signal(main.on)
  /\ main' = [main EXCEPT !.pc = "idle"]
  /\ UNCHANGED <<q, done, mtx, it, run, ran, index, lost>>
-----------------------------------------------------------------------------
(***************************************************************************)
(* worker_thread: scan the queues with trylock, then block on its own.     *)
(***************************************************************************)
Batched(k) == IF Len(q[k]) < Batch THEN Len(q[k]) ELSE Batch

\* Fault: the last task copied is not erased.
TakeBatchShort(w, k) ==
  /\ run' = [run EXCEPT ![w] = SubSeq(q[k], 1, Batched(k))]
  /\ q' = [q EXCEPT ![k] = SubSeq(@, Batched(k), Len(@))]

\* Copies the first tasks of queue k and erases them from its ring.
TakeBatch(w, k) ==
  /\ run' = [run EXCEPT ![w] = SubSeq(q[k], 1, Batched(k))]
  /\ q' = [q EXCEPT ![k] = SubSeq(@, Batched(k) + 1, Len(@))]

\* The scan goes on with the next queue, or gives up.
NextQueue(w) ==
  /\ it' = [it EXCEPT ![w] = @ + 1]
  /\ wpc' = [wpc EXCEPT ![w] = IF it[w] + 1 = NumIt(w) THEN "pop" ELSE "scan"]

TryPopBusy(w) ==
  /\ wpc[w] = "scan"
  /\ mtx[it[w] % NumThreads] # Free
  /\ NextQueue(w)
  /\ UNCHANGED <<q, done, mtx, run, ran, main, index, lost>>

TryPopLock(w) ==
  /\ wpc[w] = "scan"
  /\ Lock(it[w] % NumThreads, w)
  /\ wpc' = [wpc EXCEPT ![w] = "steal"]
  /\ UNCHANGED <<q, done, it, run, ran, main, index, lost>>

TryPopEmpty(w) ==
  /\ wpc[w] = "steal"
  /\ q[it[w] % NumThreads] = << >>
  /\ Unlock(it[w] % NumThreads)
  /\ NextQueue(w)
  /\ UNCHANGED <<q, done, run, ran, main, index, lost>>

TryPopTake(w) ==
  /\ wpc[w] = "steal"
  /\ q[it[w] % NumThreads] # << >>
  /\ TakeBatch(w, it[w] % NumThreads)
  /\ Unlock(it[w] % NumThreads)
  /\ wpc' = [wpc EXCEPT ![w] = "run"]
  /\ UNCHANGED <<done, it, ran, main, index, lost>>

\* The mutex is taken on entry and again when pthread_cond_wait returns.
PopLock(w) ==
  /\ wpc[w] \in {"pop", "woken"}
  /\ Lock(w, w)
  /\ wpc' = [wpc EXCEPT ![w] = "own"]
  /\ UNCHANGED <<q, done, it, run, ran, main, index, lost>>

\* Fault: the worker tests only whether its queue is empty before it waits.
PopWaitBlind(w) ==
  /\ wpc[w] = "own"
  /\ q[w] = << >>
  /\ Unlock(w)
  /\ wpc' = [wpc EXCEPT ![w] = "wait"]
  /\ UNCHANGED <<q, done, it, run, ran, main, index, lost>>

PopWait(w) ==
  /\ wpc[w] = "own"
  /\ q[w] = << >> /\ ~done[w]
  /\ Unlock(w)
  /\ wpc' = [wpc EXCEPT ![w] = "wait"]
  /\ UNCHANGED <<q, done, it, run, ran, main, index, lost>>

SpuriousWakeup(w) ==
  /\ wpc[w] = "wait"
  /\ wpc' = [wpc EXCEPT ![w] = "woken"]
  /\ UNCHANGED <<q, done, mtx, it, run, ran, main, index, lost>>

PopDone(w) ==
  /\ wpc[w] = "own"
  /\ done[w]
  /\ Unlock(w)
  /\ wpc' = [wpc EXCEPT ![w] = "exit"]
  /\ UNCHANGED <<q, done, it, run, ran, main, index, lost>>

PopTake(w) ==
  /\ wpc[w] = "own"
  /\ q[w] # << >> /\ ~done[w]
  /\ TakeBatch(w, w)
  /\ Unlock(w)
  /\ wpc' = [wpc EXCEPT ![w] = "run"]
  /\ UNCHANGED <<done, it, ran, main, index, lost>>

\* One task of the batch; after the last one the scan begins anew.
Execute(w) ==
  /\ wpc[w] = "run"
  /\ ran' = [ran EXCEPT ![Head(run[w])] = @ + 1]
  /\ run' = [run EXCEPT ![w] = Tail(@)]
  /\ wpc' = [wpc EXCEPT ![w] = IF Len(run[w]) = 1 THEN "scan" ELSE "run"]
  /\ it' = [it EXCEPT ![w] = IF Len(run[w]) = 1 THEN w ELSE @]
  /\ UNCHANGED <<q, done, mtx, main, index, lost>>
-----------------------------------------------------------------------------
(***************************************************************************)
(* free_task_manager, after the event loop has stopped: done_not_q on      *)
(* every queue, join every worker, free every queue with what is in it.    *)
(***************************************************************************)
Stop ==
  /\ Stops
  /\ main.pc = "idle"
  /\ main' = [pc |-> "done", i |-> 0, on |-> 0]
  /\ UNCHANGED <<q, done, mtx, wpc, it, run, ran, index, lost>>

DoneLock ==
  /\ main.pc = "done"
  /\ Lock(main.i, Main)
  /\ main' = [main EXCEPT !.pc = "set"]
  /\ UNCHANGED <<q, done, wpc, it, run, ran, index, lost>>

DoneSet ==
  /\ main.pc = "set"
  /\ done' = [done EXCEPT ![main.i] = TRUE]
  /\ Unlock(main.i)
  /\ main' = [main EXCEPT !.pc = "tell"]
  /\ UNCHANGED <<q, wpc, it, run, ran, index, lost>>

\* Fault: done is set and nobody is signalled.
DoneSilent ==
  /\ main.pc = "tell"
  /\ main' = [main EXCEPT !.i = @ + 1,
                          !.pc = IF main.i + 1 = NumThreads THEN "join"
                                                            ELSE "done"]
  /\ UNCHANGED <<q, done, mtx, wpc, it, run, ran, index, lost>>

DoneSignal ==
  /\ main.pc = "tell"
  /\ Signal(main.i)
  /\ main' = [main EXCEPT !.i = @ + 1,
                          !.pc = IF main.i + 1 = NumThreads THEN "join"
                                                            ELSE "done"]
  /\ UNCHANGED <<q, done, mtx, it, run, ran, index, lost>>

\* clean is NULL in the RIC: the tasks left in a ring are neither executed
\* nor handed back.
JoinAndFree ==
  /\ main.pc = "join"
  /\ \A w \in Workers : wpc[w] = "exit"
  /\ lost' = UNION {{q[w][k] : k \in 1..Len(q[w])} : w \in Workers}
  /\ q' = [w \in Workers |-> << >>]
  /\ main' = [main EXCEPT !.pc = "freed"]
  /\ UNCHANGED <<done, mtx, wpc, it, run, ran, index>>
-----------------------------------------------------------------------------
MainNext ==
  \/ Async \/ TryPushBusy \/ TryPushLock \/ PushLock \/ PushBack \/ PushSignal
  \/ Stop \/ DoneLock \/ DoneSet \/ DoneSignal \/ JoinAndFree

WorkerStep(w) ==
  \/ TryPopBusy(w) \/ TryPopLock(w) \/ TryPopEmpty(w) \/ TryPopTake(w)
  \/ PopLock(w) \/ PopWait(w) \/ PopDone(w) \/ PopTake(w) \/ Execute(w)

Next == MainNext \/ \E w \in Workers : WorkerStep(w) \/ SpuriousWakeup(w)

Spec == Init /\ [][Next]_vars

(***************************************************************************)
(* The scheduler runs every thread that can go on, tasks return, and a     *)
(* thread blocked on a mutex that is released again and again gets it in   *)
(* the end.  Nothing is assumed of the event loop between two tasks (Async *)
(* and Stop) and of spurious wakeups.                                      *)
(***************************************************************************)
Fairness ==
  /\ WF_vars(MainNext /\ main.pc # "idle")
  /\ SF_vars(PushLock) /\ SF_vars(DoneLock)
  /\ \A w \in Workers : WF_vars(WorkerStep(w)) /\ SF_vars(PopLock(w))

FairSpec == Spec /\ Fairness
-----------------------------------------------------------------------------
TypeOK ==
  /\ q \in [Workers -> Seq(Tasks)]
  /\ done \in [Workers -> BOOLEAN]
  /\ mtx \in [Workers -> 0..Free]
  /\ wpc \in [Workers -> {"scan", "steal", "run", "pop", "own", "wait",
                          "woken", "exit"}]
  /\ it \in [Workers -> Nat]
  /\ run \in [Workers -> Seq(Tasks)]
  /\ ran \in [Tasks -> Nat]
  /\ main \in [pc : {"idle", "try", "block", "push", "signal", "done", "set",
                     "tell", "join", "freed"},
               i : 0..NumThreads, on : Workers]
  /\ index \in 0..NTasks
  /\ lost \subseteq Tasks

InHand == IF main.pc \in {"try", "block", "push"} THEN {index} ELSE {}

\* How often task t occurs in the sequence s.
Occurs(t, s) == Cardinality({k \in DOMAIN s : s[k] = t})

\* Every submitted task is in exactly one place: with the submitter, in one
\* queue, in one worker's batch, executed, or thrown away with its queue.  In
\* particular no task is executed twice and none disappears while two workers
\* and the submitter work on the same ring.
ExactlyOnce ==
  /\ TypeOK
  /\ \A t \in 1..index :
       LET place == [w \in Workers |-> Occurs(t, q[w]) + Occurs(t, run[w])]
           held  == {w \in Workers : place[w] > 0}
       IN  /\ \A w \in Workers : place[w] <= 1
           /\ Cardinality(held) + ran[t]
                + (IF t \in InHand THEN 1 ELSE 0)
                + (IF t \in lost THEN 1 ELSE 0) = 1

\* No lost wakeup: a worker asleep on its condition variable although there
\* is something to do in its queue, or the pool is to stop, is about to be
\* signalled by the thread that put it there.
NoLostWakeup ==
  \A w \in Workers :
    wpc[w] = "wait" =>
      /\ q[w] # << >> => main.pc = "signal" /\ main.on = w
      /\ done[w] => main.pc = "tell" /\ main.i = w

\* Every submitted task is executed in the end, whichever queue it went to
\* and whoever sleeps, unless the pool is freed with the task still queued.
EveryTaskRuns == \A t \in Tasks : index >= t ~> ran[t] = 1 \/ t \in lost

\* free_task_manager returns: every worker notices that it is to stop.
StopTerminates == main.pc = "done" ~> main.pc = "freed"
=============================================================================
