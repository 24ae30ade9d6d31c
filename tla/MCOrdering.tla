----------------------------- MODULE MCOrdering -----------------------------
(* Ordering on small instances. *)
EXTENDS Ordering, TLC

\* The threads share one node.
OneNode == [t \in Threads |-> CHOOSE n \in Nodes : TRUE]

\* A clock that may read before the epoch, within the range and beyond it.
MCReadings == -1..(MaxPhysicalMs + 1)

ThreadSymmetry == Permutations(Threads)
=============================================================================
