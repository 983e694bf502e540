------------------------------ MODULE TaskFifo ------------------------------
(***************************************************************************)
(* What a queue of the task manager promises of its container: an          *)
(* unbounded FIFO to which tasks are appended one by one and from which    *)
(* the oldest n are removed at once.                                       *)
(***************************************************************************)
EXTENDS Naturals, Sequences

CONSTANT Task

VARIABLES fifo,   \* the tasks, oldest first
          taken   \* the tasks removed by the latest removal

fvars == <<fifo, taken>>

Init == fifo = << >> /\ taken = << >>

Push(t) == fifo' = Append(fifo, t) /\ taken' = taken

Take(n) ==
  /\ taken' = SubSeq(fifo, 1, n)
  /\ fifo' = SubSeq(fifo, n + 1, Len(fifo))

Next == (\E t \in Task : Push(t)) \/ (\E n \in 1..Len(fifo) : Take(n))

Spec == Init /\ [][Next]_fvars
=============================================================================
