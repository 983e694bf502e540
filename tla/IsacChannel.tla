---------------------------- MODULE IsacChannel ----------------------------
(***************************************************************************)
(* What the PHY-to-agent CSI hand-over promises, with no array, index or   *)
(* memory in it: a FIFO of at most Cap snapshots into which the PHY        *)
(* publishes without ever blocking and from which the E2 agent takes a     *)
(* prefix.  A snapshot is its publication number.  When the FIFO is full   *)
(* the oldest snapshot makes room and is counted; a snapshot for which     *)
(* there is no memory is not published.                                    *)
(***************************************************************************)
EXTENDS Integers, Sequences

CONSTANTS
  Cap,        \* snapshots the channel holds
  MaxTake,    \* snapshots one reading takes at most
  CountMod    \* the drop counter counts modulo CountMod

VARIABLES
  queue,      \* publication numbers not yet read, oldest first
  next,       \* number of the next snapshot published
  drops,      \* snapshots overwritten before they were read, mod CountMod
  taken       \* publication numbers of the latest reading

cvars == <<queue, next, drops, taken>>

Init ==
  /\ queue = << >>
  /\ next = 0
  /\ drops = 0
  /\ taken = << >>

\* The FIFO after the room for one more snapshot has been made.
Room == IF Len(queue) = Cap THEN Tail(queue) ELSE queue

Drops == IF Len(queue) = Cap THEN (drops + 1) % CountMod ELSE drops

Publish ==
  /\ queue' = Append(Room, next)
  /\ next' = next + 1
  /\ drops' = Drops
  /\ taken' = taken

\* Memory for the snapshot was refused after the room had been made for it.
PublishRefused ==
  /\ queue' = Room
  /\ drops' = Drops
  /\ UNCHANGED <<next, taken>>

Take ==
  \E n \in 0..MaxTake :
    /\ n <= Len(queue)
    /\ taken' = SubSeq(queue, 1, n)
    /\ queue' = SubSeq(queue, n + 1, Len(queue))
    /\ UNCHANGED <<next, drops>>

Next == Publish \/ PublishRefused \/ Take

Spec == Init /\ [][Next]_cvars
=============================================================================
