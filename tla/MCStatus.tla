------------------------------ MODULE MCStatus ------------------------------
(* Status on small instances. *)
EXTENDS Status, TLC

\* The last fan has somebody ahead in either shard, and two in its own.
MCShardOf == 1 :> 0 @@ 2 :> 1 @@ 3 :> 1 @@ 4 :> 1

\* CONFIG seeded with the window of the release, and with a shorter one.
MCWindows == { [sweep |-> 1, browse |-> 1], [sweep |-> 1, browse |-> 3] }
=============================================================================
