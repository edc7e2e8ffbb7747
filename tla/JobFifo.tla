------------------------------ MODULE JobFifo -------------------------------
(***************************************************************************)
(* What the thread pool's message queue promises: a bounded first-in       *)
(* first-out queue that can be closed.  A closed queue accepts and hands   *)
(* out nothing; what is left in it is taken out, once, by whoever closed   *)
(* it.                                                                     *)
(***************************************************************************)
EXTENDS Naturals, Sequences

CONSTANTS Jobs, Capacity

VARIABLES queue, closed

Init == queue = <<>> /\ closed = FALSE

Put(j) ==
  /\ ~closed /\ Len(queue) < Capacity
  /\ queue' = Append(queue, j)
  /\ UNCHANGED closed

Take ==
  /\ ~closed /\ queue # <<>>
  /\ queue' = Tail(queue)
  /\ UNCHANGED closed

Close == ~closed /\ closed' = TRUE /\ UNCHANGED queue

Drain == closed /\ queue' = <<>> /\ UNCHANGED closed

Next == Take \/ Close \/ Drain \/ \E j \in Jobs : Put(j)

Spec == Init /\ [][Next]_<<queue, closed>>
=============================================================================
