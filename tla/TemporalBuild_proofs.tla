-------------------------- MODULE TemporalBuild_proofs -------------------------
(***************************************************************************)
(* Proofs about TemporalBuild.  Every step of a construction is a step of  *)
(* the shard builder or leaves it alone, so that what is proved of the     *)
(* builder holds of constructions.  Where all releases pack the tasks in   *)
(* the same shards, a construction implements StagedBuild and publishes    *)
(* only exact operators.                                                   *)
(***************************************************************************)
EXTENDS TemporalBuild, MeasurementShards_proofs

\* The releases differ in their kernel only.
OnePacking ==
  /\ \A c, d \in Settings : Packing[c] = Packing[d]
  /\ \A c \in Settings : Len(Packing[c]) = MaxShards

\* The shards of a packing partition the tasks.
Partition ==
  \A c \in Settings : \A t \in Tasks :
    \E i \in Shards(c) : \A j \in Shards(c) : t \in Packing[c][j] <=> j = i

\* The builder runs inside its stage only.
BuilderInStage ==
  /\ stage # "shards" => pc = "idle"
  /\ stage # "idle" => outcome = "none"
  /\ stage = "assemble" => result = "complete"

\* The fragments merged are on disk; a later stage starts from nothing.
MergedOnDisk ==
  /\ stage = "assemble" =>
       Len(merged) <= MaxShards /\ \A i \in 1 .. Len(merged) : fragments[i] \in Settings
  /\ stage \notin {"assemble", "hierarchy"} /\ outcome = "none" => merged = <<>> /\ writing = 1
  /\ stage = "assemble" => writing = 1

\* The artifact is made in its turn, from one fragment for every shard.
ArtifactInTurn ==
  /\ stage \in {"call", "shards", "assemble"} => artifact = None
  /\ stage = "hierarchy" =>
       artifact # None /\ loadable /\ \A d \in Directories : d < writing => d \in hierarchy
  /\ artifact # None => Len(artifact) = MaxShards

BuildIInv == BuildTypeOK /\ IInv /\ BuilderInStage /\ MergedOnDisk /\ ArtifactInTurn
--------------------------------------------------------------------------------
(* Steps of a construction are steps of the shard builder *)

\* Every step is one of the shard builder or leaves its variables alone.
LEMMA BuildStepIsShardStep == BuildNext => [Next]_vars
<1>1. Attempt \/ Exit \/ ProcessCrash => Next
  BY DEF Attempt, Exit, ProcessCrash, Next, Environment
<1>2. DamageCheckpoint \/ DamageArtifact \/ ExpireDeadline \/ MoveCheckpoints => [Next]_vars
  BY DEF DamageCheckpoint, DamageArtifact, ExpireDeadline, MoveCheckpoints, Next, Environment
<1>3. CallBuilder \/ BuildShards \/ ShardsReturn => [Next]_vars
  BY DEF CallBuilder, BuildShards, ShardsReturn, Next, Environment
<1>4. Activation \/ MoveArtifact \/ Reuse \/ StopAssembly \/ ReuseFragment \/ FragmentFails
      \/ BuildFragment \/ SaveArtifact \/ RemoveDirectory \/ PlaceDirectory \/ Finish
      => UNCHANGED vars
  BY DEF Activation, LookUp, PreflightRefuses, Repair, Unjustified, StopRouting,
     PrepareRouting, RoutingFails, RoutingUnaffordable, Routed, MoveArtifact, Reuse,
     StopAssembly, ReuseFragment, FragmentFails, BuildFragment, SaveArtifact, RemoveDirectory,
     PlaceDirectory, Finish
<1> QED BY <1>1, <1>2, <1>3, <1>4 DEF BuildNext, Progress, Preparation

\* A construction behaves as the shard builder: what holds of every behaviour
\* of the builder holds of constructions, whatever their policies.
THEOREM ConstructionRunsBuilder == BuildSpec => Spec
<1>1. BuildInit => Init
  BY DEF BuildInit
<1>2. [BuildNext]_buildVars => [Next]_vars
  BY BuildStepIsShardStep DEF buildVars
<1> QED BY <1>1, <1>2, PTL DEF BuildSpec, Spec
--------------------------------------------------------------------------------
(* The invariant of constructions *)

LEMMA BuildInitHolds == BuildInit => BuildIInv
<1> SUFFICES ASSUME BuildInit PROVE BuildIInv
  OBVIOUS
<1>1. IInv
  BY InitHolds DEF BuildInit
<1>2. BuildTypeOK
  <2>1. fragments \in [Numbers -> Settings \cup {None, Torn}]
    BY DEF BuildInit, NoFragments
  <2>2. merged = <<>> /\ merged \in Seq(Settings) /\ writing \in 1 .. 2 * NumLayers + 1
    BY LayersAssumption DEF BuildInit
  <2>3. /\ hierarchy \subseteq Directories /\ condition \in {"sound", "invalid", "torn"}
        /\ artifact \in Seq(Settings) \cup {None} /\ changes \in 0 .. MaxChanges
    BY LayersAssumption DEF BuildInit
  <2>4. /\ stage = "idle" /\ operation = "activate" /\ policy = "reuse_only" /\ outcome = "none"
        /\ {sharded, npzTorn} \subseteq BOOLEAN /\ routing \in {"none", "complete", "torn"}
    BY DEF BuildInit
  <2> QED BY <1>1, <2>1, <2>2, <2>3, <2>4 DEF BuildTypeOK, IInv, Outcomes, Policies
<1>3. BuilderInStage /\ MergedOnDisk /\ ArtifactInTurn
  BY DEF BuildInit, Init, BuilderInStage, MergedOnDisk, ArtifactInTurn
<1> QED BY <1>1, <1>2, <1>3 DEF BuildIInv

\* Steps before the preparation.
LEMMA ActivationKeeps ==
  ASSUME OnePacking, BuildIInv,
         \/ LookUp \/ PreflightRefuses \/ Repair \/ Unjustified \/ StopRouting
         \/ PrepareRouting \/ RoutingFails \/ RoutingUnaffordable \/ Routed
  PROVE  BuildIInv'
<1> USE LayersAssumption, ShardsAssumption
<1>1. IInv'
  BY StutterPreserves DEF LookUp, PreflightRefuses, Repair, Unjustified, StopRouting,
     PrepareRouting, RoutingFails, RoutingUnaffordable, Routed, BuildIInv
<1>2. /\ UNCHANGED <<vars, request, npzTorn, fragments, merged, hierarchy, writing, changes>>
      /\ stage \in {"look", "routing", "routed", "prepare"}
      /\ stage' \in {"idle", "routing", "routed", "prepare"}
      /\ routing' \in {routing, "complete"}
      /\ artifact' \in {artifact, None} /\ condition' \in {condition, "sound"}
  BY DEF LookUp, PreflightRefuses, Repair, Unjustified, StopRouting, PrepareRouting,
     RoutingFails, RoutingUnaffordable, Routed, End, Continue, prepared, published
<1>3. outcome' \in Outcomes /\ (stage' # "idle" => outcome' = outcome)
  BY DEF LookUp, PreflightRefuses, Repair, Unjustified, StopRouting, PrepareRouting,
     RoutingFails, RoutingUnaffordable, Routed, End, Continue, BuildIInv, BuildTypeOK, Outcomes
<1>4. BuildTypeOK'
  BY <1>1, <1>2, <1>3 DEF IInv, BuildIInv, BuildTypeOK, request
<1>5. BuilderInStage'
  BY <1>2, <1>3 DEF BuildIInv, BuilderInStage, vars
<1>6. MergedOnDisk'
  BY <1>2, <1>3 DEF BuildIInv, MergedOnDisk, BuilderInStage
<1>7. ArtifactInTurn'
  BY <1>2 DEF BuildIInv, ArtifactInTurn
<1> QED BY <1>1, <1>4, <1>5, <1>6, <1>7 DEF BuildIInv

\* Decisions about the artifact and the deadline.
LEMMA DecisionKeeps ==
  ASSUME OnePacking, BuildIInv,
         MoveArtifact \/ Reuse \/ StopAssembly \/ FragmentFails
  PROVE  BuildIInv'
<1> USE LayersAssumption, ShardsAssumption
<1>1. IInv'
  BY StutterPreserves DEF MoveArtifact, Reuse, StopAssembly, FragmentFails, BuildIInv
<1>2. BuildTypeOK'
  BY <1>1 DEF MoveArtifact, Reuse, StopAssembly, FragmentFails, End, Continue, IInv, BuildIInv,
         BuildTypeOK, Outcomes, Policies, request, prepared, published, Directories, MayAssemble
<1>3. BuilderInStage'
  BY DEF MoveArtifact, Reuse, StopAssembly, FragmentFails, End, Continue, BuildIInv,
         BuilderInStage, MayAssemble, vars
<1>4. MergedOnDisk'
  BY DEF MoveArtifact, Reuse, StopAssembly, FragmentFails, End, Continue, BuildIInv, BuildTypeOK,
         MergedOnDisk, BuilderInStage, MayAssemble
<1>5. ArtifactInTurn'
  BY DEF MoveArtifact, Reuse, StopAssembly, FragmentFails, End, Continue, BuildIInv, BuildTypeOK,
         ArtifactInTurn, published
<1> QED BY <1>1, <1>2, <1>3, <1>4, <1>5 DEF BuildIInv

\* The layers of the hierarchy.
LEMMA LayersKeep ==
  ASSUME OnePacking, BuildIInv,
         RemoveDirectory \/ PlaceDirectory \/ Finish
  PROVE  BuildIInv'
<1>1. IInv'
  BY StutterPreserves DEF RemoveDirectory, PlaceDirectory, Finish, BuildIInv
<1>2. /\ stage = "hierarchy" /\ artifact # None /\ loadable /\ hierarchy \subseteq Directories
      /\ NumLayers \in Nat /\ writing \in 1 .. 2 * NumLayers + 1
      /\ \A d \in Directories : d < writing => d \in hierarchy
      /\ UNCHANGED <<vars, request, prepared, fragments, merged, artifact, condition, changes>>
  BY LayersAssumption
  DEF RemoveDirectory, PlaceDirectory, Finish, BuildIInv, BuildTypeOK, ArtifactInTurn, published
<1>3. hierarchy' \subseteq Directories /\ writing' \in 1 .. 2 * NumLayers + 1
  <2>1. hierarchy' \subseteq Directories
    BY <1>2 DEF RemoveDirectory, PlaceDirectory, Finish, published
  <2>2. writing' = writing \/ (writing \in Directories /\ writing' = writing + 1)
    BY <1>2 DEF RemoveDirectory, PlaceDirectory, Finish
  <2> QED BY <1>2, <2>1, <2>2 DEF Directories
<1>4. outcome' \in Outcomes /\ stage' \in {"idle", "hierarchy"}
  BY <1>2 DEF RemoveDirectory, PlaceDirectory, Finish, End, Outcomes, BuildIInv, BuildTypeOK
<1>5. BuildTypeOK'
  BY <1>1, <1>2, <1>3, <1>4 DEF IInv, BuildIInv, BuildTypeOK, request, prepared
<1>6. BuilderInStage'
  BY DEF RemoveDirectory, PlaceDirectory, Finish, End, BuildIInv, BuilderInStage,
         vars
<1>7. MergedOnDisk'
  BY DEF RemoveDirectory, PlaceDirectory, Finish, End, BuildIInv, BuildTypeOK,
         MergedOnDisk, BuilderInStage
<1>8. stage' = "hierarchy" => \A d \in Directories : d < writing' => d \in hierarchy'
  <2>1. ASSUME RemoveDirectory PROVE \A d \in Directories : d < writing' => d \in hierarchy'
    BY <1>2, <2>1 DEF RemoveDirectory, Directories
  <2>2. ASSUME PlaceDirectory PROVE \A d \in Directories : d < writing' => d \in hierarchy'
    <3> SUFFICES ASSUME NEW d \in Directories, d < writing' PROVE d \in hierarchy'
      OBVIOUS
    <3>1. d < writing \/ d = writing
      BY <1>2, <2>2 DEF PlaceDirectory, Directories
    <3> QED BY <1>2, <2>2, <3>1 DEF PlaceDirectory
  <2>3. ASSUME Finish PROVE stage' = "idle"
    BY <2>3 DEF Finish, End
  <2> QED BY <2>1, <2>2, <2>3
<1>9. ArtifactInTurn'
  BY <1>2, <1>4, <1>8 DEF BuildIInv, ArtifactInTurn, Directories, loadable
<1> QED BY <1>1, <1>5, <1>6, <1>7, <1>9 DEF BuildIInv

\* A fragment found or made is appended to those merged.
LEMMA FragmentKeeps ==
  ASSUME OnePacking, BuildIInv, ReuseFragment \/ BuildFragment
  PROVE  BuildIInv'
<1>1. /\ UNCHANGED <<vars, stage, request, prepared, published, writing, outcome, changes>>
      /\ stage = "assemble" /\ Position \in 1 .. MaxShards /\ Position \in Numbers
  BY ShardsAssumption
  DEF ReuseFragment, BuildFragment, MayAssemble, Shards, OnePacking, BuildIInv, IInv, TypeOK,
      Numbers
<1>2. PICK c \in Settings :
        /\ merged' = Append(merged, c) /\ fragments' = [fragments EXCEPT ![Position] = c]
  BY <1>1 DEF ReuseFragment, BuildFragment, BuildIInv, BuildTypeOK, IInv, TypeOK
<1>3. /\ merged \in Seq(Settings) /\ merged' \in Seq(Settings)
      /\ Len(merged) \in Nat /\ Len(merged') = Len(merged) + 1 /\ Position = Len(merged')
      /\ fragments \in [Numbers -> Settings \cup {None, Torn}]
  BY <1>2 DEF BuildIInv, BuildTypeOK, Position
<1>4. IInv'
  BY <1>1, StutterPreserves DEF BuildIInv
<1>5. BuildTypeOK'
  <2>1. fragments' \in [Numbers -> Settings \cup {None, Torn}]
    BY <1>2, <1>3
  <2> QED BY <1>1, <1>3, <1>4, <2>1
          DEF IInv, BuildIInv, BuildTypeOK, request, prepared, published
<1>6. BuilderInStage' /\ ArtifactInTurn'
  BY <1>1 DEF BuildIInv, BuilderInStage, ArtifactInTurn, vars, published, loadable
<1>7. MergedOnDisk'
  <2>1. \A i \in 1 .. Len(merged) : fragments[i] \in Settings
    BY <1>1 DEF BuildIInv, MergedOnDisk
  <2>2. \A i \in 1 .. Len(merged') : fragments'[i] \in Settings
    <3> SUFFICES ASSUME NEW i \in 1 .. Len(merged') PROVE fragments'[i] \in Settings
      OBVIOUS
    <3>1. i = Position \/ i \in 1 .. Len(merged)
      BY <1>3
    <3>2. Position \in Nat /\ Position <= MaxShards /\ MaxShards \in Nat
      BY <1>1, ShardsAssumption
    <3>3. i \in Numbers
      BY <1>3, <3>2 DEF Numbers
    <3> QED BY <1>2, <1>3, <2>1, <3>1, <3>3, NoneIsNoSetting
  <2> QED BY <1>1, <1>3, <2>2 DEF BuildIInv, MergedOnDisk
<1> QED BY <1>4, <1>5, <1>6, <1>7 DEF BuildIInv

\* Every fragment is merged when the artifact is saved.
LEMMA AllMerged ==
  ASSUME OnePacking, BuildIInv, SaveArtifact
  PROVE  /\ merged \in Seq(Settings) /\ Len(merged) = MaxShards /\ merged # None
         /\ \A i \in Numbers : fragments[i] \in Settings
<1>1. merged \in Seq(Settings) /\ Len(merged) \in Nat /\ Len(merged) <= MaxShards
  BY DEF SaveArtifact, BuildIInv, BuildTypeOK, MergedOnDisk
<1>2. Shards(setting) = 1 .. MaxShards
  BY DEF Shards, OnePacking, BuildIInv, IInv, TypeOK
<1>3. Len(merged) = MaxShards
  BY <1>1, <1>2, ShardsAssumption DEF SaveArtifact, Position
<1> QED BY <1>1, <1>3, LayersAssumption DEF SaveArtifact, BuildIInv, MergedOnDisk, Numbers

LEMMA SaveArtifactKeeps ==
  ASSUME OnePacking, BuildIInv, SaveArtifact
  PROVE  BuildIInv'
<1>1. IInv'
  BY StutterPreserves DEF SaveArtifact, BuildIInv
<1>2. BuildTypeOK'
  BY <1>1, AllMerged
  DEF SaveArtifact, Continue, IInv, BuildIInv, BuildTypeOK, request, prepared
<1>3. BuilderInStage' /\ MergedOnDisk'
  BY DEF SaveArtifact, Continue, BuildIInv, BuilderInStage, MergedOnDisk, vars
<1>4. ArtifactInTurn'
  <2>1. writing' = 1 /\ \A d \in Directories : ~(d < 1)
    BY DEF SaveArtifact, BuildIInv, MergedOnDisk, Directories
  <2> QED BY <2>1, AllMerged DEF SaveArtifact, Continue, ArtifactInTurn, loadable
<1> QED BY <1>1, <1>2, <1>3, <1>4 DEF BuildIInv

--------------------------------------------------------------------------------
(* Steps of the builder and of its environment *)

\* What every step between two attempts leaves.
LEMMA RequestKeeps ==
  ASSUME OnePacking, BuildIInv, Attempt \/ Exit \/ ProcessCrash
  PROVE  BuildIInv'
<1>1. Configure \/ Crash
  BY DEF Attempt, Exit, ProcessCrash
<1>2. IInv' /\ pc' = "idle"
  BY <1>1, ConfigurePreserves, CrashPreserves
  DEF BuildIInv, Configure, Crash, disk
<1>3. /\ UNCHANGED <<prepared, fragments, artifact, condition, hierarchy>>
      /\ outcome' = "none" /\ changes' \in 0 .. MaxChanges
      /\ stage' \in {"idle", "look", "prepare"} /\ merged' \in {merged, <<>>}
      /\ writing' \in {writing, 1}
      /\ merged' = <<>> /\ writing' = 1
  <2>1. CASE Attempt
    <3>1. merged = <<>> /\ writing = 1
      BY <2>1 DEF Attempt, BuildIInv, MergedOnDisk
    <3>2. changes' \in 0 .. MaxChanges
      BY <2>1, LayersAssumption DEF Attempt, BuildIInv, BuildTypeOK
    <3> QED BY <2>1, <3>1, <3>2 DEF Attempt, published
  <2>2. CASE Exit \/ ProcessCrash
    BY <2>2 DEF Exit, ProcessCrash, Forget, published, BuildIInv, BuildTypeOK
  <2> QED BY <2>1, <2>2
<1>4. operation' \in {"activate", "prepare"} /\ policy' \in Policies /\ sharded' \in BOOLEAN
  BY DEF Attempt, Exit, ProcessCrash, Forget, Policies
<1>5. BuildTypeOK'
  <2>1. merged' \in Seq(Settings) /\ writing' \in 1 .. 2 * NumLayers + 1
    BY <1>3, LayersAssumption
  <2> QED BY <1>2, <1>3, <1>4, <2>1 DEF BuildIInv, BuildTypeOK, IInv, Outcomes, prepared
<1>6. BuilderInStage' /\ MergedOnDisk' /\ ArtifactInTurn'
  BY <1>2, <1>3 DEF BuildIInv, BuilderInStage, MergedOnDisk, ArtifactInTurn, loadable
<1> QED BY <1>2, <1>5, <1>6 DEF BuildIInv

\* What is on disk is damaged, or the deadline passes.
LEMMA OutsideKeeps ==
  ASSUME OnePacking, BuildIInv, DamageCheckpoint \/ DamageArtifact \/ ExpireDeadline
  PROVE  BuildIInv'
<1>1. IInv'
  BY DamagePreserves, ExpirePreserves, StutterPreserves
  DEF BuildIInv, DamageCheckpoint, DamageArtifact, ExpireDeadline
<1>2. /\ pc' = pc /\ result' = result
      /\ UNCHANGED <<stage, request, merged, artifact, hierarchy, writing, outcome>>
      /\ condition' \in {"sound", "invalid", "torn"}
      /\ stage # "idle" => condition' = condition
  BY DEF DamageCheckpoint, DamageArtifact, ExpireDeadline, Damage, Expire, vars, pool, published,
         BuildIInv, BuildTypeOK
<1>3. /\ fragments' \in [Numbers -> Settings \cup {None, Torn}]
      /\ stage # "idle" => fragments' = fragments
  BY DEF DamageCheckpoint, DamageArtifact, ExpireDeadline, BuildIInv, BuildTypeOK
<1>4. /\ changes' \in 0 .. MaxChanges /\ npzTorn' \in BOOLEAN
      /\ routing' \in {"none", "complete", "torn"}
  <2>1. /\ changes \in 0 .. MaxChanges /\ MaxChanges \in Nat
        /\ npzTorn \in BOOLEAN /\ routing \in {"none", "complete", "torn"}
    BY LayersAssumption DEF BuildIInv, BuildTypeOK
  <2>2. changes' = changes \/ (changes < MaxChanges /\ changes' = changes + 1)
    BY DEF DamageCheckpoint, DamageArtifact, ExpireDeadline
  <2>3. routing' \in {routing, "none", "torn"} /\ npzTorn' \in {npzTorn, TRUE}
    BY DEF DamageCheckpoint, DamageArtifact, ExpireDeadline, prepared
  <2>4. changes' \in 0 .. MaxChanges
    BY <2>1, <2>2
  <2> QED BY <2>1, <2>3, <2>4
<1>5. BuildTypeOK'
  BY <1>1, <1>2, <1>3, <1>4 DEF BuildIInv, BuildTypeOK, IInv, request, published
<1>6. BuilderInStage' /\ MergedOnDisk' /\ ArtifactInTurn'
  BY <1>2, <1>3 DEF BuildIInv, BuilderInStage, MergedOnDisk, ArtifactInTurn, loadable
<1> QED BY <1>1, <1>5, <1>6 DEF BuildIInv

LEMMA MoveCheckpointsKeeps ==
  ASSUME OnePacking, BuildIInv, MoveCheckpoints
  PROVE  BuildIInv'
<1>1. IInv' /\ pc' = pc /\ result' = result
  BY DiscardPreserves DEF BuildIInv, MoveCheckpoints, Discard
<1>2. fragments' \in [Numbers -> Settings \cup {None, Torn}]
  BY DEF MoveCheckpoints, NoFragments
<1>3. BuildTypeOK'
  BY <1>1, <1>2 DEF MoveCheckpoints, Continue, BuildIInv, BuildTypeOK, IInv, request, published
<1>4. BuilderInStage' /\ MergedOnDisk' /\ ArtifactInTurn'
  BY <1>1 DEF MoveCheckpoints, Continue, BuildIInv, BuilderInStage, MergedOnDisk,
              ArtifactInTurn, published, loadable
<1> QED BY <1>1, <1>3, <1>4 DEF BuildIInv

\* The builder is called, runs and returns; its result decides the next stage.
LEMMA BuilderKeeps ==
  ASSUME OnePacking, BuildIInv, CallBuilder \/ BuildShards \/ ShardsReturn
  PROVE  BuildIInv'
<1>1. IInv'
  <2>1. CallBuilder => Call \/ UNCHANGED vars
    BY DEF CallBuilder
  <2>2. BuildShards => Next
    BY DEF BuildShards, Next
  <2>3. ShardsReturn => TakeResult
    BY DEF ShardsReturn
  <2> QED BY <2>1, <2>2, <2>3, CallPreserves, TakeResultPreserves, StepPreserves, StutterPreserves
          DEF BuildIInv
<1>2. /\ UNCHANGED <<request, prepared, fragments, merged, published, writing, changes>>
      /\ stage' \in {"idle", "shards", "assemble"} /\ stage \in {"call", "shards"}
      /\ outcome' \in Outcomes
  BY <1>1 DEF CallBuilder, BuildShards, ShardsReturn, End, Continue, BuildIInv, BuildTypeOK,
              Outcomes, IInv, TypeOK
<1>3. BuildTypeOK'
  BY <1>1, <1>2 DEF BuildIInv, BuildTypeOK, IInv, request, prepared, published
<1>4. BuilderInStage'
  <2>1. CASE CallBuilder
    BY <2>1 DEF CallBuilder, End, Continue, BuildIInv, BuilderInStage, vars
  <2>2. CASE BuildShards
    BY <2>2 DEF BuildShards, BuildIInv, BuilderInStage
  <2>3. CASE ShardsReturn
    BY <2>3 DEF ShardsReturn, TakeResult, End, Continue, BuildIInv, BuilderInStage, IInv, TypeOK
  <2> QED BY <2>1, <2>2, <2>3
<1>5. outcome = "none" /\ merged = <<>> /\ writing = 1 /\ artifact = None
  BY <1>2 DEF BuildIInv, BuilderInStage, MergedOnDisk, ArtifactInTurn
<1>6. MergedOnDisk' /\ ArtifactInTurn'
  BY <1>2, <1>5, ShardsAssumption DEF BuildIInv, MergedOnDisk, ArtifactInTurn, published, loadable
<1> QED BY <1>1, <1>3, <1>4, <1>6 DEF BuildIInv

\* Every step keeps the invariant.
LEMMA BuildStepKeeps == OnePacking /\ BuildIInv /\ [BuildNext]_buildVars => BuildIInv'
<1>1. ASSUME OnePacking, BuildIInv, BuildNext PROVE BuildIInv'
  BY <1>1, RequestKeeps, OutsideKeeps, MoveCheckpointsKeeps, BuilderKeeps, ActivationKeeps,
     DecisionKeeps, LayersKeep, FragmentKeeps, SaveArtifactKeeps
  DEF BuildNext, Progress, Activation, Preparation
<1>2. ASSUME OnePacking, BuildIInv, UNCHANGED buildVars PROVE BuildIInv'
  <2>1. IInv'
    BY <1>2, StutterPreserves DEF BuildIInv, buildVars
  <2> QED BY <1>2, <2>1
          DEF BuildIInv, BuildTypeOK, IInv, BuilderInStage, MergedOnDisk, ArtifactInTurn,
              buildVars, vars, request, prepared, published, loadable
<1> QED BY <1>1, <1>2

\* Constructions keep the invariant.
THEOREM AlwaysBuildIInv ==
  ASSUME OnePacking
  PROVE  BuildSpec => []BuildIInv
<1>1. BuildInit => BuildIInv
  BY BuildInitHolds
<1>2. BuildIInv /\ [BuildNext]_buildVars => BuildIInv'
  BY BuildStepKeeps
<1> QED BY <1>1, <1>2, PTL DEF BuildSpec
--------------------------------------------------------------------------------
(* Exact operators *)

\* Every artifact merges one fragment for every shard, so that each task is in
\* it exactly once.
THEOREM OperatorsAreExact ==
  ASSUME OnePacking, Partition
  PROVE  BuildSpec => []OperatorIsExact
<1>1. ASSUME BuildIInv PROVE OperatorIsExact
  <2> SUFFICES ASSUME artifact # None, NEW t \in Tasks
               PROVE  Cardinality({i \in DOMAIN artifact : t \in Packing[artifact[i]][i]}) = 1
    BY DEF OperatorIsExact
  <2>1. artifact \in Seq(Settings) /\ DOMAIN artifact = 1 .. MaxShards
    BY <1>1 DEF BuildIInv, BuildTypeOK, ArtifactInTurn
  <2>2. setting \in Settings /\ Shards(setting) = 1 .. MaxShards
    BY <1>1 DEF BuildIInv, IInv, TypeOK, OnePacking, Shards
  <2>3. \A i \in DOMAIN artifact : Packing[artifact[i]] = Packing[setting]
    BY <1>1, <2>1, <2>2 DEF OnePacking
  <2>4. PICK i \in 1 .. MaxShards : \A j \in 1 .. MaxShards : t \in Packing[setting][j] <=> j = i
    <3>1. \E i \in Shards(setting) : \A j \in Shards(setting) : t \in Packing[setting][j] <=> j = i
      BY <2>2 DEF Partition
    <3> QED BY <2>2, <3>1
  <2>5. {j \in DOMAIN artifact : t \in Packing[artifact[j]][j]} = {i}
    BY <2>1, <2>3, <2>4
  <2> QED BY <2>5, FS_Singleton
<1>2. BuildIInv => OperatorIsExact
  BY <1>1
<1> QED BY <1>2, AlwaysBuildIInv, PTL
--------------------------------------------------------------------------------
(* A construction implements StagedBuild *)

\* The initial state is one of the staged construction.
LEMMA StagedInit == BuildInit => Staged!Init
<1> SUFFICES ASSUME BuildInit PROVE Staged!Init
  OBVIOUS
<1>1. {s \in Numbers : files[s] = setting} = {}
  BY NoneIsNoSetting DEF BuildInit, Init
<1>2. {s \in Numbers : fragments[s] \in Settings} = {}
  BY NoneIsNoSetting DEF BuildInit, NoFragments
<1> QED BY <1>1, <1>2 DEF BuildInit, Staged!Init

\* A step that adds nothing and serves nobody withdraws.
LEMMA NothingAdded ==
  ASSUME setting' = setting, files' = files \/ files' = NoFragments \/ Damage,
         fragments' = fragments \/ fragments' = NoFragments
           \/ \E s \in Numbers, f \in {None, Torn} : fragments' = [fragments EXCEPT ![s] = f],
         artifact' # None /\ loadable' => artifact # None /\ loadable,
         hierarchy' \subseteq hierarchy,
         outcome' # "ready", BuildIInv
  PROVE  Staged!Next
<1>1. /\ setting \in Settings /\ files \in [Numbers -> Settings \cup {None, Torn}]
      /\ fragments \in [Numbers -> Settings \cup {None, Torn}]
  BY DEF BuildIInv, BuildTypeOK, IInv, TypeOK
<1>2. \A s \in Numbers : files'[s] = setting => files[s] = setting
  <2>1. Damage => \A s \in Numbers : files'[s] \in {files[s], None, Torn}
    BY <1>1 DEF Damage
  <2> QED BY <1>1, <2>1, NoneIsNoSetting DEF NoFragments
<1>3. \A s \in Numbers : fragments'[s] \in Settings => fragments[s] \in Settings
  BY <1>1, NoneIsNoSetting DEF NoFragments
<1>4. {s \in Numbers : files'[s] = setting'} \in SUBSET {s \in Numbers : files[s] = setting}
  BY <1>2
<1>5. {s \in Numbers : fragments'[s] \in Settings}
        \in SUBSET {s \in Numbers : fragments[s] \in Settings}
  BY <1>3
<1>6. Staged!Withdraw
  BY <1>4, <1>5 DEF Staged!Withdraw
<1> QED BY <1>6 DEF Staged!Next

LEMMA RequestIsStaged ==
  ASSUME BuildIInv, Attempt \/ Exit \/ ProcessCrash \/ DamageCheckpoint \/ DamageArtifact
                      \/ ExpireDeadline
  PROVE  [Staged!Next]_(Staged!stages)
<1>1. CASE Attempt
  <2>1. Staged!Rerelease
    BY <1>1 DEF Attempt, Configure, disk, published, loadable, Staged!Rerelease
  <2> QED BY <2>1 DEF Staged!Next
<1>2. CASE Exit \/ ProcessCrash
  <2>1. /\ UNCHANGED <<setting, files, fragments, artifact, loadable, hierarchy>>
        /\ outcome' = "none"
    BY <1>2 DEF Exit, ProcessCrash, Configure, Crash, Forget, disk, published, loadable
  <2> QED BY <2>1, NothingAdded
<1>3. CASE DamageCheckpoint
  <2>1. /\ UNCHANGED <<setting, artifact, loadable, hierarchy, outcome>> /\ outcome = "none"
        /\ files' = files \/ Damage
        /\ fragments' = fragments
             \/ \E s \in Numbers, f \in {None, Torn} : fragments' = [fragments EXCEPT ![s] = f]
    BY <1>3 DEF DamageCheckpoint, Damage, vars, disk, published, loadable
  <2> QED BY <2>1, NothingAdded
<1>4. CASE DamageArtifact
  <2>1. /\ UNCHANGED <<setting, files, fragments, artifact, hierarchy, outcome>>
        /\ outcome = "none" /\ ~loadable'
    BY <1>4 DEF DamageArtifact, vars, disk, loadable
  <2> QED BY <2>1, NothingAdded
<1>5. CASE ExpireDeadline
  <2>1. UNCHANGED <<setting, files, fragments, artifact, loadable, hierarchy, outcome>>
    BY <1>5 DEF ExpireDeadline, Expire, disk, published, loadable
  <2> QED BY <2>1 DEF Staged!stages
<1> QED BY <1>1, <1>2, <1>3, <1>4, <1>5

\* Only a valid hierarchy that announces an artifact is served.
LEMMA ServingIsStaged ==
  ASSUME BuildIInv, LookUp \/ Reuse \/ Finish
  PROVE  [Staged!Next]_(Staged!stages)
<1>1. /\ UNCHANGED <<setting, files, fragments, artifact, loadable, hierarchy>>
      /\ outcome' \in {"ready", "refused", "stopped", "torn", "none"}
      /\ outcome' = "ready" => artifact # None /\ loadable /\ hierarchy = Directories
  <2>1. UNCHANGED <<setting, files, fragments, artifact, loadable, hierarchy>> /\ stage # "idle"
    BY DEF LookUp, Reuse, Finish, vars, disk, published, loadable
  <2>2. outcome = "none"
    BY <2>1 DEF BuildIInv, BuilderInStage
  <2>3. CASE LookUp \/ Reuse
    BY <2>1, <2>2, <2>3 DEF LookUp, Reuse, End, Continue, Servable, Whole
  <2>4. CASE Finish
    <3>1. /\ artifact # None /\ loadable /\ hierarchy \subseteq Directories /\ NumLayers \in Nat
          /\ writing \in 1 .. 2 * NumLayers + 1 /\ writing \notin Directories
          /\ \A d \in Directories : d < writing => d \in hierarchy
      BY <2>4, LayersAssumption DEF Finish, BuildIInv, BuildTypeOK, ArtifactInTurn
    <3>2. \A d \in Directories : d < writing
      BY <3>1 DEF Directories
    <3>3. hierarchy = Directories
      BY <3>1, <3>2
    <3> QED BY <2>1, <2>4, <3>1, <3>3 DEF Finish, End
  <2> QED BY <2>1, <2>3, <2>4
<1>2. CASE outcome' = "ready"
  <2>1. Staged!Serve
    BY <1>1, <1>2 DEF Staged!Serve
  <2> QED BY <2>1 DEF Staged!Next
<1>3. CASE outcome' # "ready"
  BY <1>1, <1>3, NothingAdded
<1> QED BY <1>2, <1>3

\* Steps that only leave, continue or move aside.
LEMMA QuietIsStaged ==
  ASSUME BuildIInv,
         \/ PreflightRefuses \/ Repair \/ Unjustified \/ StopRouting \/ PrepareRouting
         \/ RoutingFails \/ RoutingUnaffordable \/ Routed \/ MoveCheckpoints \/ MoveArtifact
         \/ CallBuilder \/ ShardsReturn \/ StopAssembly \/ ReuseFragment \/ FragmentFails
         \/ RemoveDirectory
  PROVE  [Staged!Next]_(Staged!stages)
<1>1. outcome = "none"
  BY DEF PreflightRefuses, Repair, Unjustified, StopRouting, PrepareRouting,
     RoutingFails, RoutingUnaffordable, Routed, MoveCheckpoints, MoveArtifact, CallBuilder,
     ShardsReturn, StopAssembly, ReuseFragment, FragmentFails, MayAssemble, RemoveDirectory,
     BuildIInv, BuilderInStage
<1>2. outcome' # "ready"
  BY <1>1 DEF PreflightRefuses, Repair, Unjustified, StopRouting, PrepareRouting,
     RoutingFails, RoutingUnaffordable, Routed, MoveCheckpoints, MoveArtifact, CallBuilder,
     ShardsReturn, StopAssembly, ReuseFragment, FragmentFails, RemoveDirectory, End, Continue,
     BuildIInv, IInv, TypeOK
<1>3. setting' = setting /\ files' \in {files, NoFragments}
  BY DEF PreflightRefuses, Repair, Unjustified, StopRouting, PrepareRouting,
     RoutingFails, RoutingUnaffordable, Routed, MoveCheckpoints, MoveArtifact, CallBuilder,
     ShardsReturn, StopAssembly, ReuseFragment, FragmentFails, RemoveDirectory, Discard, Call,
     TakeResult, NoFragments, vars, disk
<1>4. /\ fragments' \in {fragments, NoFragments}
      /\ artifact' # None /\ loadable' => artifact # None /\ loadable
      /\ hierarchy' \subseteq hierarchy
  BY DEF PreflightRefuses, Repair, Unjustified, StopRouting, PrepareRouting,
     RoutingFails, RoutingUnaffordable, Routed, MoveCheckpoints, MoveArtifact, CallBuilder,
     ShardsReturn, StopAssembly, ReuseFragment, FragmentFails, RemoveDirectory, published, loadable
<1>5. Staged!Next
  BY <1>2, <1>3, <1>4, NothingAdded
<1> QED BY <1>5

\* A shard is published once, or was there.
LEMMA ShardsAreStaged ==
  ASSUME BuildIInv, BuildShards
  PROVE  [Staged!Next]_(Staged!stages)
<1>1. UNCHANGED <<fragments, artifact, loadable, hierarchy, outcome>>
  BY DEF BuildShards, published, loadable
<1>2. CASE Publish
  <2> DEFINE s == Smallest(Unpublished)
  <2>1. /\ s \in Numbers /\ files \in [Numbers -> Settings \cup {None, Torn}]
        /\ setting' = setting /\ files' = [files EXCEPT ![s] = setting]
    <3>1. Unpublished # {} /\ Unpublished \subseteq Numbers /\ Numbers \subseteq Nat
      BY <1>2, ShardNumbers DEF Publish, NextPublish, Unpublished, Missing, BuildIInv, IInv, TypeOK
    <3>2. s \in Numbers
      BY <3>1, SmallestIsLeast
    <3> QED BY <1>2, <3>2 DEF Publish, BuildIInv, IInv, TypeOK
  <2> HIDE DEF s
  <2>2. {t \in Numbers : files'[t] = setting'} = {t \in Numbers : files[t] = setting} \cup {s}
    BY <2>1
  <2>3. CASE files[s] = setting
    <3>1. {t \in Numbers : files'[t] = setting'} = {t \in Numbers : files[t] = setting}
      BY <2>1, <2>2, <2>3
    <3> QED BY <1>1, <3>1 DEF Staged!stages
  <2>4. CASE files[s] # setting
    <3>1. Staged!AddShard
      BY <1>1, <2>1, <2>2, <2>4 DEF Staged!AddShard
    <3> QED BY <3>1 DEF Staged!Next
  <2> QED BY <2>3, <2>4
<1>3. CASE ~Publish
  <2>1. UNCHANGED <<setting, files>>
    <3>1. \/ StopEarly \/ OpenComplete \/ OpenPartial \/ OpenTorn \/ SaveGroup \/ Support
          \/ SupportFails \/ PreflightFails \/ Plan \/ Scan \/ ScanTorn
          => UNCHANGED <<setting, files>>
      BY DEF StopEarly, OpenComplete, OpenPartial, OpenTorn, SaveGroup, Support, SupportFails,
             PreflightFails, Plan, Scan, ScanTorn, disk
    <3>2. \/ Submit \/ RefuseDispatch \/ NoRoom \/ WaitExpired \/ Collect
          \/ CheckpointManifest \/ EndPublish \/ Return \/ \E s \in Numbers : Work(s)
          => UNCHANGED <<setting, files>>
      BY DEF Submit, RefuseDispatch, NoRoom, EndDispatch, WaitExpired, Collect,
             CheckpointManifest, EndPublish, Return, Work, disk
    <3> QED BY <1>3, <3>1, <3>2 DEF BuildShards, Builder, Coordinator
  <2> QED BY <1>1, <2>1 DEF Staged!stages
<1> QED BY <1>2, <1>3

\* Fragments, the artifact and the layers each follow the stage before.
LEMMA AssemblyIsStaged ==
  ASSUME OnePacking, BuildIInv, BuildFragment \/ SaveArtifact \/ PlaceDirectory
  PROVE  [Staged!Next]_(Staged!stages)
<1>1. CASE BuildFragment
  <2>1. /\ UNCHANGED <<setting, files, artifact, loadable, hierarchy, outcome>>
        /\ Position \in Numbers /\ fragments[Position] = None
        /\ fragments' = [fragments EXCEPT ![Position] = setting]
    BY <1>1, ShardNumbers
    DEF BuildFragment, vars, disk, published, loadable, BuildIInv, IInv, TypeOK
  <2>2. Shards(setting) = Numbers
    BY DEF Shards, Numbers, OnePacking, BuildIInv, IInv, TypeOK
  <2>3. {s \in Numbers : files[s] = setting} = Numbers
    <3>1. result = "complete" /\ pc = "idle"
      BY <1>1 DEF BuildFragment, MayAssemble, BuildIInv, BuilderInStage
    <3> QED BY <2>2, <3>1 DEF BuildIInv, IInv, Outcome, CompleteIsWhole, Valid
  <2>4. setting \in Settings /\ None \notin Settings /\ fragments \in [Numbers -> Settings \cup {None, Torn}]
    BY NoneIsNoSetting DEF BuildIInv, BuildTypeOK, IInv, TypeOK
  <2>5. {s \in Numbers : fragments'[s] \in Settings}
          = {s \in Numbers : fragments[s] \in Settings} \cup {Position}
    BY <2>1, <2>4
  <2>6. Staged!AddFragment
    BY <2>1, <2>3, <2>4, <2>5 DEF Staged!AddFragment
  <2> QED BY <2>6 DEF Staged!Next
<1>2. CASE SaveArtifact
  <2>1. /\ UNCHANGED <<setting, files, fragments, hierarchy, outcome>>
        /\ artifact = None /\ artifact' = merged /\ loadable'
    BY <1>2 DEF SaveArtifact, Continue, vars, disk, BuildIInv, ArtifactInTurn, loadable
  <2>2. {s \in Numbers : fragments[s] \in Settings} = Numbers
    BY <1>2, AllMerged
  <2>3. Staged!Publish
    BY <1>2, <2>1, <2>2, AllMerged DEF Staged!Publish
  <2> QED BY <2>3 DEF Staged!Next
<1>3. CASE PlaceDirectory
  <2>1. /\ UNCHANGED <<setting, files, fragments, artifact, loadable, outcome>>
        /\ artifact # None /\ loadable
        /\ writing \in Directories \ hierarchy /\ hierarchy' = hierarchy \cup {writing}
    BY <1>3 DEF PlaceDirectory, vars, disk, BuildIInv, ArtifactInTurn, loadable
  <2>2. Staged!Announce
    BY <2>1 DEF Staged!Announce
  <2> QED BY <2>2 DEF Staged!Next
<1> QED BY <1>1, <1>2, <1>3

\* Where the releases pack alike, a construction implements StagedBuild: every
\* stage follows the one before it, through crashes, stops and damage.
THEOREM ConstructionIsStaged ==
  ASSUME OnePacking
  PROVE  BuildSpec => ImplementsStagedBuild
<1>1. BuildInit => Staged!Init
  BY StagedInit
<1>2. BuildIInv /\ [BuildNext]_buildVars => [Staged!Next]_(Staged!stages)
  <2>1. ASSUME BuildIInv, BuildNext PROVE [Staged!Next]_(Staged!stages)
    BY <2>1, RequestIsStaged, ServingIsStaged, QuietIsStaged, ShardsAreStaged, AssemblyIsStaged
    DEF BuildNext, Progress, Activation, Preparation
  <2>2. UNCHANGED buildVars => UNCHANGED Staged!stages
    BY DEF buildVars, vars, disk, published, loadable, Staged!stages
  <2> QED BY <2>1, <2>2
<1>3. BuildSpec => Staged!Spec
  BY <1>1, <1>2, AlwaysBuildIInv, PTL DEF BuildSpec, Staged!Spec
<1> QED BY <1>3 DEF ImplementsStagedBuild

\* Whatever the policies and packings, a construction redoes no shard that is on
\* disk, loses nothing to a deadline and writes only manifests that are true.
THEOREM ConstructionsKeepTheirWork ==
  BuildSpec => []NothingIsRebuilt /\ []DeadlineLosesNothing /\ ManifestWritesAreHonest
BY ConstructionRunsBuilder, NeverRebuilds, OutcomesAreWhole, ManifestsAreHonest, PTL
--------------------------------------------------------------------------------
(* Undisturbed activations *)

\* What is on disk has its type, whatever the packings.
OnDisk ==
  /\ fragments \in [Numbers -> Settings \cup {None, Torn}]
  /\ condition \in {"sound", "invalid", "torn"}

\* A rebuild meets no torn shard, group or fragment after it moved them aside.
Swept ==
  policy = "rebuild" /\ stage \in {"discard", "call", "shards", "assemble"} =>
    groups # "torn" /\ \A s \in Numbers : files[s] # Torn /\ fragments[s] # Torn

\* What an activation finds has been prepared by itself: the routing it hands
\* over is there, and an artifact without its hierarchy has been moved aside.
Prepared ==
  operation = "activate" =>
    /\ stage \in {"routed", "prepare", "discard", "call"} /\ policy # "rebuild" /\ sharded =>
         routing = "complete"
    /\ stage = "shards" /\ ~(policy = "rebuild" /\ sharded) =>
         readable /\ result # "unreadable"
    /\ stage \in {"routing", "routed", "prepare"} /\ policy = "build_or_reuse" =>
         artifact = None \/ (Whole /\ condition = "invalid")

Undisturbed == policy \in Policies /\ Prepared /\ UndisturbedSucceeds
ByDeadline == deadline = "none" => result # "stopped"

LEMMA OnDiskStep == IInv /\ OnDisk /\ [BuildNext]_buildVars => OnDisk'
<1> SUFFICES ASSUME IInv, OnDisk, [BuildNext]_buildVars PROVE OnDisk'
  OBVIOUS
<1>1. fragments' \in [Numbers -> Settings \cup {None, Torn}]
  <2>1. \/ fragments' \in {fragments, NoFragments}
        \/ \E s \in Numbers, f \in {setting, None, Torn} : fragments' = [fragments EXCEPT ![s] = f]
    <3>1. Attempt \/ Exit \/ ProcessCrash \/ DamageArtifact \/ ExpireDeadline \/ Activation
          => fragments' = fragments
      BY DEF Attempt, Exit, ProcessCrash, DamageArtifact, ExpireDeadline, Activation, LookUp,
             PreflightRefuses, Repair, Unjustified, StopRouting, PrepareRouting, RoutingFails,
             RoutingUnaffordable, Routed
    <3>2. MoveCheckpoints \/ MoveArtifact \/ Reuse \/ CallBuilder \/ BuildShards \/ ShardsReturn
          \/ StopAssembly \/ ReuseFragment \/ FragmentFails \/ SaveArtifact \/ RemoveDirectory
          \/ PlaceDirectory \/ Finish
          => fragments' \in {fragments, NoFragments}
      BY DEF MoveCheckpoints, MoveArtifact, Reuse, CallBuilder, BuildShards, ShardsReturn,
             StopAssembly, ReuseFragment, FragmentFails, SaveArtifact, RemoveDirectory,
             PlaceDirectory, Finish
    <3>3. DamageCheckpoint =>
            \/ fragments' = fragments
            \/ \E s \in Numbers, f \in {None, Torn} : fragments' = [fragments EXCEPT ![s] = f]
      BY DEF DamageCheckpoint
    <3>4. BuildFragment =>
            \E s \in Numbers : fragments' = [fragments EXCEPT ![s] = setting]
      BY ShardNumbers DEF BuildFragment, IInv, TypeOK
    <3> QED BY <3>1, <3>2, <3>3, <3>4 DEF BuildNext, Progress, Preparation, buildVars
  <2>2. setting \in Settings /\ NoFragments \in [Numbers -> Settings \cup {None, Torn}]
    BY DEF IInv, TypeOK, NoFragments
  <2> QED BY <2>1, <2>2 DEF OnDisk
<1>2. condition' \in {condition, "sound", "invalid", "torn"}
  <2>1. Attempt \/ Exit \/ ProcessCrash \/ DamageCheckpoint \/ DamageArtifact \/ ExpireDeadline
        => condition' \in {condition, "sound", "invalid", "torn"}
    BY DEF Attempt, Exit, ProcessCrash, DamageCheckpoint, DamageArtifact, ExpireDeadline, published
  <2>2. Activation => condition' \in {condition, "sound"}
    BY DEF Activation, LookUp, PreflightRefuses, Repair, Unjustified, StopRouting, PrepareRouting,
           RoutingFails, RoutingUnaffordable, Routed, published
  <2>3. Preparation => condition' \in {condition, "sound"}
    BY DEF Preparation, MoveCheckpoints, MoveArtifact, Reuse, CallBuilder, BuildShards,
           ShardsReturn, StopAssembly, ReuseFragment, FragmentFails, BuildFragment, SaveArtifact,
           RemoveDirectory, PlaceDirectory, Finish, published
  <2> QED BY <2>1, <2>2, <2>3 DEF BuildNext, Progress, buildVars, published
<1> QED BY <1>1, <1>2 DEF OnDisk

\* The builder adds no torn file.
LEMMA BuilderTearsNothing ==
  ASSUME IInv, Builder
  PROVE  /\ groups' = "torn" => groups = "torn"
         /\ \A s \in Numbers : files'[s] = Torn => files[s] = Torn
<1>1. groups' \in {groups, "sound"}
  <2>1. StopEarly \/ OpenComplete \/ OpenPartial \/ OpenTorn \/ SaveGroup \/ Support
        \/ SupportFails \/ PreflightFails \/ Plan \/ Scan \/ ScanTorn
        => groups' \in {groups, "sound"}
    BY DEF StopEarly, OpenComplete, OpenPartial, OpenTorn, SaveGroup, Support, SupportFails,
           PreflightFails, Plan, Scan, ScanTorn, disk
  <2>2. Submit \/ RefuseDispatch \/ NoRoom \/ WaitExpired \/ Collect \/ Publish
        \/ CheckpointManifest \/ EndPublish \/ Return \/ (\E s \in Numbers : Work(s))
        => groups' = groups
    BY DEF Submit, RefuseDispatch, NoRoom, EndDispatch, WaitExpired, Collect, Publish,
           CheckpointManifest, EndPublish, Return, Work, disk
  <2> QED BY <2>1, <2>2 DEF Builder, Coordinator
<1>2. files' = files \/ Publish
  <2>1. StopEarly \/ OpenComplete \/ OpenPartial \/ OpenTorn \/ SaveGroup \/ Support
        \/ SupportFails \/ PreflightFails \/ Plan \/ Scan \/ ScanTorn
        => files' = files
    BY DEF StopEarly, OpenComplete, OpenPartial, OpenTorn, SaveGroup, Support, SupportFails,
           PreflightFails, Plan, Scan, ScanTorn, disk
  <2>2. Submit \/ RefuseDispatch \/ NoRoom \/ WaitExpired \/ Collect
        \/ CheckpointManifest \/ EndPublish \/ Return \/ (\E s \in Numbers : Work(s))
        => files' = files
    BY DEF Submit, RefuseDispatch, NoRoom, EndDispatch, WaitExpired, Collect,
           CheckpointManifest, EndPublish, Return, Work, disk
  <2> QED BY <2>1, <2>2 DEF Builder, Coordinator
<1>3. setting # Torn /\ files \in [Numbers -> Settings \cup {None, Torn}]
  BY NoneIsNoSetting DEF IInv, TypeOK
<1>4. Publish => \A s \in Numbers : files'[s] \in {files[s], setting}
  BY <1>3 DEF Publish
<1> QED BY <1>1, <1>2, <1>3, <1>4

LEMMA SweptStep == IInv /\ OnDisk /\ Swept /\ [BuildNext]_buildVars => Swept'
<1> SUFFICES ASSUME IInv, OnDisk, Swept, [BuildNext]_buildVars PROVE Swept'
  OBVIOUS
<1> USE NoneIsNoSetting
<1>1. CASE Attempt \/ Exit \/ ProcessCrash \/ DamageCheckpoint \/ DamageArtifact
  BY <1>1 DEF Attempt, Exit, ProcessCrash, DamageCheckpoint, DamageArtifact, Forget, Swept
<1>2. CASE Activation
  BY <1>2 DEF Activation, LookUp, PreflightRefuses, Repair, Unjustified, StopRouting,
     PrepareRouting, RoutingFails, RoutingUnaffordable, Routed, End, Continue, Swept
<1>3. CASE MoveCheckpoints
  BY <1>3 DEF MoveCheckpoints, Discard, NoFragments, Swept
<1>4. CASE BuildShards
  BY <1>4, BuilderTearsNothing DEF BuildShards, request, Swept
<1>5. CASE BuildFragment
  <2>1. /\ UNCHANGED <<stage, policy, groups, files>> /\ stage = "assemble" /\ setting # Torn
        /\ fragments' = [fragments EXCEPT ![Position] = setting]
    BY <1>5 DEF BuildFragment, MayAssemble, vars, disk, request, IInv, TypeOK
  <2>2. \A s \in Numbers : fragments'[s] \in {fragments[s], setting}
    BY <2>1 DEF OnDisk
  <2> QED BY <2>1, <2>2 DEF Swept
<1>6. CASE MoveArtifact \/ Reuse \/ CallBuilder \/ ShardsReturn \/ StopAssembly \/ ReuseFragment
           \/ FragmentFails \/ SaveArtifact \/ RemoveDirectory \/ PlaceDirectory \/ Finish
           \/ ExpireDeadline \/ UNCHANGED buildVars
  <2>1. UNCHANGED <<policy, groups, files, fragments>>
    BY <1>6 DEF MoveArtifact, Reuse, CallBuilder, Call, ShardsReturn, TakeResult, StopAssembly,
       ReuseFragment, FragmentFails, SaveArtifact, RemoveDirectory, PlaceDirectory, Finish,
       ExpireDeadline, Expire, buildVars, vars, disk, request
  <2>2. \/ policy # "rebuild" \/ stage' = stage
        \/ stage \in {"discard", "call", "shards", "assemble"}
        \/ stage' \notin {"discard", "call", "shards", "assemble"}
    BY <1>6 DEF MoveArtifact, Reuse, CallBuilder, ShardsReturn, StopAssembly, ReuseFragment,
       FragmentFails, MayAssemble, SaveArtifact, RemoveDirectory, PlaceDirectory, Finish, End,
       Continue, ExpireDeadline, buildVars
  <2> QED BY <2>1, <2>2 DEF Swept
<1> QED BY <1>1, <1>2, <1>3, <1>4, <1>5, <1>6 DEF BuildNext, Progress, Preparation

\* A torn file is still met where nothing that it depends on has changed.
LEMMA StillTorn ==
  ASSUME MeetsTorn,
         UNCHANGED <<policy, sharded, prepared, hierarchy, artifact, condition, groups, setting,
                     files, fragments>>
  PROVE  MeetsTorn'
BY DEF MeetsTorn, TornRouting, Unreadable, Whole, Directories, TornShards, Shards, prepared

\* Between two attempts.
LEMMA RequestUndisturbed ==
  ASSUME Undisturbed, Attempt \/ Exit \/ ProcessCrash \/ DamageCheckpoint \/ DamageArtifact
                      \/ ExpireDeadline
  PROVE  Undisturbed'
<1>1. CASE Attempt
  BY <1>1 DEF Attempt, Undisturbed, Prepared, UndisturbedSucceeds
<1>2. CASE Exit \/ ProcessCrash
  BY <1>2 DEF Exit, ProcessCrash, Forget, Undisturbed, Prepared, UndisturbedSucceeds, Policies
<1>3. CASE DamageCheckpoint \/ DamageArtifact
  <2>1. stage = "idle" /\ outcome = "none" /\ UNCHANGED <<stage, request, outcome>>
    BY <1>3 DEF DamageCheckpoint, DamageArtifact
  <2> QED BY <2>1 DEF request, Undisturbed, Prepared, UndisturbedSucceeds
<1>4. CASE ExpireDeadline
  <2>1. /\ UNCHANGED <<stage, request, prepared, published, outcome, readable, result>>
        /\ deadline' = "passed"
    BY <1>4 DEF ExpireDeadline, Expire
  <2> QED BY <2>1
          DEF request, prepared, published, Undisturbed, Prepared, UndisturbedSucceeds, Whole
<1> QED BY <1>1, <1>2, <1>3, <1>4

\* An activation looks up, repairs and prepares the routing.
LEMMA ActivationUndisturbed ==
  ASSUME OnDisk, Undisturbed, Activation
  PROVE  Undisturbed'
<1>1. /\ UNCHANGED <<deadline, readable, result, request, hierarchy>>
      /\ stage \in {"look", "routing", "routed", "prepare"}
  BY DEF Activation, LookUp, PreflightRefuses, Repair, Unjustified, StopRouting, PrepareRouting,
     RoutingFails, RoutingUnaffordable, Routed, vars, published
<1>2. Prepared'
  <2>1. CASE LookUp \/ PreflightRefuses \/ Unjustified \/ StopRouting \/ RoutingFails
             \/ RoutingUnaffordable
    BY <2>1 DEF LookUp, PreflightRefuses, Unjustified, StopRouting, RoutingFails,
                RoutingUnaffordable, End, Prepared
  <2>2. CASE Repair
    <3>1. stage' = "routing" /\ UNCHANGED <<operation, policy, sharded, hierarchy>>
      BY <1>1, <2>2 DEF Repair, Continue, request
    <3>2. policy = "build_or_reuse" => artifact' = None \/ (Whole /\ condition' = "invalid")
      BY <2>2 DEF Repair, Servable, Unreadable, loadable, OnDisk
    <3> QED BY <3>1, <3>2 DEF Prepared, Whole, Directories
  <2>3. CASE PrepareRouting
    <3>1. sharded => routing' = "complete"
      BY <2>3 DEF PrepareRouting
    <3>2. /\ stage = "routing" /\ stage' = "routed"
          /\ UNCHANGED <<operation, policy, sharded, hierarchy, artifact, condition>>
      BY <2>3 DEF PrepareRouting, Continue, request, published
    <3> QED BY <3>1, <3>2 DEF Undisturbed, Prepared, Whole, Directories
  <2>4. CASE Routed
    BY <1>1, <2>4 DEF Routed, End, Continue, Undisturbed, Prepared, Whole, request, prepared,
                      published, Directories
  <2> QED BY <2>1, <2>2, <2>3, <2>4 DEF Activation
<1>3. UndisturbedSucceeds'
  <2>1. CASE LookUp \/ RoutingFails
    <3>1. /\ UNCHANGED <<vars, policy, sharded, prepared, fragments, hierarchy, artifact, condition>>
          /\ outcome' \in {"ready", "refused", "failed", "torn"}
          /\ outcome' = "refused" => policy = "reuse_only"
      BY <2>1 DEF LookUp, RoutingFails, End, request, published
    <3>2. outcome' = "torn" /\ policy # "reuse_only" => MeetsTorn
      BY <2>1 DEF LookUp, RoutingFails, End, MeetsTorn, Undisturbed, Policies
    <3>3. outcome' = "torn" /\ policy # "reuse_only" => MeetsTorn'
      BY <3>1, <3>2, StillTorn DEF vars, disk
    <3> QED BY <3>1, <3>3 DEF UndisturbedSucceeds
  <2>2. CASE PreflightRefuses \/ Unjustified \/ RoutingUnaffordable
    BY <2>2 DEF PreflightRefuses, Unjustified, RoutingUnaffordable, End, UndisturbedSucceeds
  <2>3. CASE Repair \/ PrepareRouting
    BY <2>3 DEF Repair, PrepareRouting, Continue, UndisturbedSucceeds
  <2>4. CASE StopRouting \/ Routed
    BY <1>1, <2>4 DEF StopRouting, Routed, End, Continue, MayRefuse, Expired, UndisturbedSucceeds
  <2> QED BY <2>1, <2>2, <2>3, <2>4 DEF Activation
<1> QED BY <1>1, <1>2, <1>3 DEF Undisturbed, request

\* The preparation reuses or refuses an artifact, or builds.
LEMMA PreparationUndisturbed ==
  ASSUME IInv, OnDisk, Swept, TornIsThere, Undisturbed, ByDeadline, Preparation
  PROVE  Undisturbed'
<1>1. CASE MoveCheckpoints \/ MoveArtifact
  <2>1. CASE MoveCheckpoints
    BY <2>1 DEF MoveCheckpoints, Continue, request, Undisturbed, Prepared, UndisturbedSucceeds
  <2>2. CASE MoveArtifact
    <3>1. stage = "discard" /\ stage' = "call" /\ UNCHANGED <<request, routing>>
      BY <2>2 DEF MoveArtifact, Continue, prepared
    <3> QED BY <3>1 DEF request, Undisturbed, Prepared, UndisturbedSucceeds
  <2> QED BY <1>1, <2>1, <2>2
<1>2. CASE Reuse
  <2>1. /\ UNCHANGED <<deadline, readable, result, request, hierarchy, artifact, condition, routing>>
        /\ stage = "prepare" /\ policy # "rebuild" /\ stage' \in {"idle", "call"}
    BY <1>2 DEF Reuse, End, Continue, vars, prepared, published
  <2>2. Prepared'
    BY <2>1 DEF Undisturbed, Prepared, request
  <2>3. UndisturbedSucceeds'
    <3> SUFFICES ASSUME stage' = "idle", operation = "activate", policy # "reuse_only"
                 PROVE  /\ outcome' \in {"ready", "refused"}
                        /\ outcome' = "refused" =>
                             Whole' /\ artifact' # None /\ condition' = "invalid"
      BY <2>1 DEF UndisturbedSucceeds, request
    <3>1. policy = "build_or_reuse"
      BY <2>1 DEF Undisturbed, Policies
    <3>2. artifact # None
      BY <1>2, <3>1 DEF Reuse, Continue
    <3>3. Whole /\ condition = "invalid"
      BY <2>1, <3>1, <3>2 DEF Undisturbed, Prepared
    <3>4. outcome' \in {"ready", "refused"}
      BY <1>2, <3>2, <3>3 DEF Reuse, End, Unreadable
    <3> QED BY <2>1, <3>2, <3>3, <3>4 DEF Whole, Directories
  <2> QED BY <2>1, <2>2, <2>3 DEF Undisturbed, request
<1>3. CASE CallBuilder
  <2>1. /\ UNCHANGED <<deadline, request>> /\ stage = "call" /\ policy \in Policies
        /\ \/ stage' = "idle" /\ outcome' = "stopped" /\ deadline # "none"
           \/ /\ stage' = "shards" /\ result' = "none"
              /\ readable' = (operation = "activate" /\ sharded => routing = "complete")
    BY <1>3 DEF CallBuilder, End, Continue, Call, MayRefuse, vars, Undisturbed
  <2>2. stage' = "shards" /\ operation = "activate" /\ ~(policy = "rebuild" /\ sharded)
        => readable'
    BY <2>1 DEF Undisturbed, Prepared
  <2> QED BY <2>1, <2>2 DEF Undisturbed, Prepared, UndisturbedSucceeds, request
<1>4. CASE BuildShards
  <2>1. stage = "shards" /\ UNCHANGED <<stage, request>>
    BY <1>4 DEF BuildShards
  <2>2. StopEarly \/ OpenComplete \/ OpenPartial \/ OpenTorn \/ SaveGroup \/ Support
        \/ SupportFails \/ PreflightFails \/ Plan \/ Scan \/ ScanTorn
        => /\ readable' = readable
           /\ readable /\ result # "unreadable" => result' # "unreadable"
    BY DEF StopEarly, OpenComplete, OpenPartial, OpenTorn, SaveGroup, Support, SupportFails,
           PreflightFails, Plan, Scan, ScanTorn, Leave
  <2>3. Submit \/ RefuseDispatch \/ NoRoom \/ WaitExpired \/ Collect \/ Publish
        \/ CheckpointManifest \/ EndPublish \/ Return \/ (\E s \in Numbers : Work(s))
        => /\ readable' = readable
           /\ result # "unreadable" => result' # "unreadable"
    BY DEF Submit, RefuseDispatch, NoRoom, EndDispatch, WaitExpired, Collect, Publish,
           CheckpointManifest, EndPublish, Return, Work, Leave
  <2> QED BY <1>4, <2>1, <2>2, <2>3
          DEF BuildShards, Builder, Coordinator, Undisturbed, Prepared, UndisturbedSucceeds, request
<1>5. CASE ShardsReturn
  <2>1. /\ UNCHANGED <<deadline, setting, disk, operation, policy, sharded>>
        /\ UNCHANGED <<prepared, fragments, hierarchy, artifact, condition>> /\ stage = "shards"
        /\ \/ stage' = "idle" /\ outcome' = result
           \/ stage' = "idle" /\ outcome' = "stopped" /\ deadline = "passed"
           \/ stage' = "assemble"
        /\ result # "refused" \/ stage' # "idle"
    BY <1>5 DEF ShardsReturn, TakeResult, End, Continue, Expired, IInv, TypeOK, request, published
  <2>2. outcome' = "torn" /\ stage' = "idle" /\ policy # "reuse_only" => MeetsTorn'
    <3> SUFFICES ASSUME outcome' = "torn", stage' = "idle", policy # "reuse_only" PROVE MeetsTorn'
      OBVIOUS
    <3>1. groups = "torn" \/ TornShards # {}
      BY <2>1 DEF TornIsThere
    <3>2. policy # "rebuild"
      <4>1. TornShards # {} => \E s \in Numbers : files[s] = Torn
        BY ShardNumbers DEF TornShards, IInv, TypeOK
      <4> QED BY <2>1, <3>1, <4>1 DEF Swept
    <3>3. MeetsTorn
      BY <3>1, <3>2 DEF MeetsTorn, Undisturbed, Policies
    <3> QED BY <2>1, <3>3, StillTorn DEF disk
  <2> QED BY <2>1, <2>2 DEF ByDeadline, Undisturbed, Prepared, UndisturbedSucceeds
<1>6. CASE StopAssembly
  BY <1>6 DEF StopAssembly, End, MayRefuse, vars, request, Undisturbed, Prepared,
              UndisturbedSucceeds
<1>7. CASE ReuseFragment \/ BuildFragment \/ SaveArtifact \/ RemoveDirectory \/ PlaceDirectory
  BY <1>7 DEF ReuseFragment, BuildFragment, MayAssemble, SaveArtifact, RemoveDirectory,
              PlaceDirectory, Continue, request, Undisturbed, Prepared, UndisturbedSucceeds
<1>8. CASE FragmentFails
  <2>1. /\ UNCHANGED <<vars, operation, policy, sharded, prepared, fragments, hierarchy, artifact,
                       condition>>
        /\ stage = "assemble" /\ stage' = "idle" /\ outcome' = "torn"
        /\ Position \in Shards(setting) /\ fragments[Position] = Torn
    BY <1>8 DEF FragmentFails, MayAssemble, End, request, published
  <2>2. policy # "rebuild"
    BY <2>1, ShardNumbers DEF Swept, IInv, TypeOK
  <2>3. policy # "reuse_only" => MeetsTorn
    BY <2>1, <2>2 DEF MeetsTorn, Undisturbed, Policies
  <2>4. policy # "reuse_only" => MeetsTorn'
    BY <2>1, <2>3, StillTorn DEF vars, disk
  <2> QED BY <2>1, <2>4 DEF Undisturbed, Prepared, UndisturbedSucceeds
<1>9. CASE Finish
  BY <1>9 DEF Finish, End, Expired, vars, request, Undisturbed, Prepared, UndisturbedSucceeds
<1> QED BY <1>1, <1>2, <1>3, <1>4, <1>5, <1>6, <1>7, <1>8, <1>9 DEF Preparation

\* An activation that may build, without a deadline, ends with an operator or
\* says why none can be had, whatever the packings, the pool and the history of
\* what is on disk; a torn file is a reason only where it is one that the
\* activation opens: for a rebuild, one of the routing.
THEOREM UndisturbedEndsWell == BuildSpec => []UndisturbedSucceeds
<1> DEFINE Inductive == OnDisk /\ Swept /\ Undisturbed
<1>1. BuildInit => Inductive
  BY DEF BuildInit, NoFragments, OnDisk, Swept, Undisturbed, Prepared, UndisturbedSucceeds, Policies
<1>2. IInv /\ TornIsThere /\ ByDeadline /\ Inductive /\ [BuildNext]_buildVars => Inductive'
  <2> SUFFICES ASSUME IInv, TornIsThere, ByDeadline, Inductive, [BuildNext]_buildVars
               PROVE  Undisturbed'
    BY OnDiskStep, SweptStep
  <2>1. CASE UNCHANGED buildVars
    <3>1. /\ UNCHANGED <<vars, stage, request, outcome>>
          /\ UNCHANGED <<prepared, fragments, hierarchy, artifact, condition>>
      BY <2>1 DEF buildVars, published
    <3>2. MeetsTorn => MeetsTorn'
      BY <3>1, StillTorn DEF vars, disk, request
    <3> QED BY <3>1, <3>2
            DEF vars, request, prepared, Undisturbed, Prepared, UndisturbedSucceeds, Whole, Directories
  <2> QED BY <2>1, RequestUndisturbed, ActivationUndisturbed, PreparationUndisturbed
          DEF BuildNext, Progress
<1>3. BuildSpec => []IInv /\ []TornIsThere /\ []ByDeadline
  BY ConstructionRunsBuilder, AlwaysIInv, TornIsFound, StopsNeedDeadline, PTL DEF ByDeadline
<1>4. Inductive => UndisturbedSucceeds
  BY DEF Undisturbed
<1> HIDE DEF Inductive
<1> QED BY <1>1, <1>2, <1>3, <1>4, PTL DEF BuildSpec
================================================================================
