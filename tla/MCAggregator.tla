---------------------------- MODULE MCAggregator ----------------------------
(* Aggregator on small instances. *)
EXTENDS Aggregator
=============================================================================
