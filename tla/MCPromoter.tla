----------------------------- MODULE MCPromoter -----------------------------
(* Promoter on small instances. *)
EXTENDS Promoter, TLC

\* Entries alternate between the shards.
MCShardOf == [k \in Entries |-> k % ShardCount]

\* Invocations are interchangeable.
WorkerSymmetry == Permutations(Workers)
=============================================================================
