--------------------------- MODULE CircularBuffer ---------------------------
(***************************************************************************)
(* circular_buffer<T> (mpmc_bounded_queue.h): an array with a write index  *)
(* `head', a read index `tail' and a separate `size', which tells a full   *)
(* buffer from an empty one.                                               *)
(***************************************************************************)
EXTENDS Naturals

\* A buffer with room for cap items; `nothing' is a default constructed item.
NewBuffer(cap, nothing) ==
  [array |-> [i \in 0 .. cap - 1 |-> nothing], head |-> 0, tail |-> 0, size |-> 0]

IsEmpty(b) == b.size = 0
IsFull(b, cap) == b.size = cap

\* Faulty: the write index does not wrap where the array ends.
PushFrontLate(b, cap, item) ==
  [b EXCEPT !.array[b.head] = item,
            !.head = IF b.head = cap - 1 THEN b.head ELSE b.head + 1,
            !.size = @ + 1]

PushFront(b, cap, item) ==
  [b EXCEPT !.array[b.head] = item, !.head = (b.head + 1) % cap, !.size = @ + 1]

Back(b) == b.array[b.tail]

\* Faulty: the read index does not wrap.
PopBackUnwrapped(b, cap) == [b EXCEPT !.tail = b.tail + 1, !.size = @ - 1]

PopBack(b, cap) == [b EXCEPT !.tail = (b.tail + 1) % cap, !.size = @ - 1]

\* What the buffer holds, oldest first.
Contents(b, cap) == [i \in 1 .. b.size |-> b.array[(b.tail + i - 1) % cap]]
=============================================================================
