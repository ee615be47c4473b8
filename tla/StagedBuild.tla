------------------------------ MODULE StagedBuild ------------------------------
(***************************************************************************)
(* What the construction of a temporal operator promises, whatever its     *)
(* checkpoints, releases and interruptions: measurement shards first, then *)
(* the temporal fragments made from them, then the operator artifact, then *)
(* the parent-aware layers that announce it.  A stage adds its pieces only *)
(* when the stage before it is complete, and a caller is served only with  *)
(* an operator that every layer announces.  What is on disk may be moved   *)
(* aside, damaged or out of date at any time.                              *)
(***************************************************************************)
CONSTANTS
  Units,   \* pieces of the first two stages
  Layers   \* pieces of the announcement

VARIABLES
  shards,      \* measurement shards that are valid now
  fragments,   \* temporal fragments
  published,   \* the artifact is in place
  announced,   \* complete layers
  served       \* a caller holds the operator

stages == <<shards, fragments, published, announced, served>>

Init == shards = {} /\ fragments = {} /\ ~published /\ announced = {} /\ ~served

AddShard ==
  /\ \E s \in Units \ shards : shards' = shards \cup {s}
  /\ UNCHANGED <<fragments, published, announced, served>>

AddFragment ==
  /\ shards = Units
  /\ \E s \in Units \ fragments : fragments' = fragments \cup {s}
  /\ UNCHANGED <<shards, published, announced, served>>

\* The fragments alone make the operator: a shard lost since is not needed.
Publish ==
  /\ fragments = Units /\ ~published /\ published'
  /\ UNCHANGED <<shards, fragments, announced, served>>

Announce ==
  /\ published
  /\ \E l \in Layers \ announced : announced' = announced \cup {l}
  /\ UNCHANGED <<shards, fragments, published, served>>

Serve ==
  /\ published /\ announced = Layers /\ served'
  /\ UNCHANGED <<shards, fragments, published, announced>>

\* Another release makes other shards valid.
Rerelease ==
  /\ shards' \in SUBSET Units /\ ~served'
  /\ UNCHANGED <<fragments, published, announced>>

\* Pieces are moved aside or damaged, or a layer is about to be written again.
Withdraw ==
  /\ shards' \in SUBSET shards /\ fragments' \in SUBSET fragments
  /\ announced' \in SUBSET announced /\ (published' => published)
  /\ ~served'

Next == AddShard \/ AddFragment \/ Publish \/ Announce \/ Serve \/ Rerelease \/ Withdraw
Spec == Init /\ [][Next]_stages
================================================================================
