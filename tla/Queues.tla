------------------------------- MODULE Queues -------------------------------
(* What a loop over the front of a queue takes out of it: the entries from *)
(* the first on, up to the first that must stay.                           *)
EXTENDS Naturals, Sequences

(* How many of the positions 1 .. n lead a set before one that is not in it. *)
Leading(set, n) ==
  CHOOSE k \in 0 .. n : 1 .. k \subseteq set /\ (k < n => k + 1 \notin set)

(* while (!queue.empty() && ...) queue.pop_front() *)
DropFront(queue, set) == SubSeq(queue, Leading(set, Len(queue)) + 1, Len(queue))

=============================================================================
