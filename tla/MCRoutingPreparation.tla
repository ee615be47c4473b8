-------------------------- MODULE MCRoutingPreparation -------------------------
(***************************************************************************)
(* Three or four shards constructed by two threads, over several           *)
(* invocations on the same cache directory.                                *)
(***************************************************************************)
EXTENDS RoutingPreparation

BothPolicies == {"reuse", "refresh"}
ReuseOnly == {"reuse"}
================================================================================
