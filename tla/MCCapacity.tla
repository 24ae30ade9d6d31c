----------------------------- MODULE MCCapacity -----------------------------
(* Capacity on small instances. *)
EXTENDS Capacity, TLC

\* Callers are interchangeable.
CallerSymmetry == Permutations(Callers)
=============================================================================
