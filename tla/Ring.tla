-------------------------------- MODULE Ring --------------------------------
(***************************************************************************)
(* The ring buffer that the message queues of lab04 and lab05 share: an     *)
(* array `buffer` with `capacity` slots numbered from 0, the index `head`   *)
(* of the oldest element and the number `count` of elements.  The queues    *)
(* differ in how they block and wake their clients, not in this arithmetic, *)
(* so it is stated (and reasoned about) once.                               *)
(***************************************************************************)
EXTENDS Naturals

CONSTANT Junk   \* what malloc and shmget leave in a slot nobody wrote yet

\* The slot `i` places after `head`: (q->head + i) % capacity.
Slot(head, i, capacity) == (head + i) % capacity

\* Mutant of Succ: the index does not wrap.
SuccNoWrap(i, capacity) == i + 1

\* The slot after `i`: (q->tail + 1) % q->capacity and the same for head.
Succ(i, capacity) == (i + 1) % capacity

\* The elements in the order in which they will be taken out.
Contents(buffer, head, count, capacity) ==
  [i \in 1..count |-> buffer[Slot(head, i - 1, capacity)]]

\* Mutant of Relocate: the elements are copied from the newest on.
RelocateReversed(buffer, head, count, oldcap, newcap) ==
  [i \in 0..(newcap - 1) |->
      IF i < count THEN buffer[Slot(head, count - 1 - i, oldcap)] ELSE Junk]

\* The array a resize allocates: the elements copied to its front in queue
\* order, the slots behind them as malloc returned them.
Relocate(buffer, head, count, oldcap, newcap) ==
  [i \in 0..(newcap - 1) |->
      IF i < count THEN buffer[Slot(head, i, oldcap)] ELSE Junk]

=============================================================================
