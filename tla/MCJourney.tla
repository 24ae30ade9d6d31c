----------------------------- MODULE MCJourney -----------------------------
(* Journey on small instances. *)
EXTENDS Journey, TLC

CONSTANTS f1, s1, s2

\* Another shard for each count: 0 of 2, 2 of 3, 8 of 11 or more.
MCHashOf == f1 :> 8

\* None yet, or one; which one makes no difference.
MCFirstSecrets == {NoSecret, s1}
=============================================================================
