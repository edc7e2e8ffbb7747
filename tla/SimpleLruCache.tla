--------------------------- MODULE SimpleLruCache ---------------------------
(***************************************************************************)
(* The list operations of SimpleLruCache<K, V>: a std::list of (key,       *)
(* value) pairs, most recently used first, with four capacity fields.      *)
(*                                                                         *)
(* A list is represented by the sequence of its keys (a key occurs at most *)
(* once); the module that uses it keeps the values in a function of the    *)
(* keys.  The free list Pool only recycles list nodes and is left out.     *)
(***************************************************************************)
EXTENDS Naturals, Sequences, SequencesExt

\* avs/minmax.h: the upper limit is applied first, so the lower one wins.
Clamp(n, lo, hi) ==
  LET m == IF n > hi THEN hi ELSE n IN IF m < lo THEN lo ELSE m

\* The capacity fields of one list.
Limits(min, max, requested) ==
  [min |-> min, max |-> max, requested |-> requested,
   real |-> Clamp(requested, min, max)]

\* trim() walks from the back over the size - RealCapacity oldest keys ...
Surplus(order, cap) == {order[i] : i \in (cap + 1) .. Len(order)}

\* ... and unlinks those the evict event does not refuse; remove() unlinks one.
Without(order, S) ==
  LET kept[i \in 0 .. Len(order)] ==
        IF i = 0 THEN <<>>
        ELSE IF order[i] \in S THEN kept[i - 1] ELSE Append(kept[i - 1], order[i])
  IN kept[Len(order)]

\* Faulty: the found node is copied to the front instead of moved.
TouchCopies(order, k) == <<k>> \o order

\* A key that is found moves to the front, a new one enters at the front.
Touch(order, k) == <<k>> \o Without(order, {k})
=============================================================================
