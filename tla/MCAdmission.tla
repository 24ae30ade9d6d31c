---------------------------- MODULE MCAdmission ----------------------------
(* Admission on small instances. *)
EXTENDS Admission, TLC

CONSTANTS c1, c2, c3, f1, f2, s1

\* Two calls race for one fan, a third is for another fan of the same shard.
MCFanOf   == c1 :> f1 @@ c2 :> f1 @@ c3 :> f2
MCShardOf == [f \in Fans |-> s1]
=============================================================================
