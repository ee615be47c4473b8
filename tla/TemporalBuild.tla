------------------------------ MODULE TemporalBuild -----------------------------
(***************************************************************************)
(* Construction of the direct scheduled temporal operator                  *)
(* (direct_scheduled_temporal_builder.py): activation and explicit         *)
(* preparation call the shard builder of MeasurementShards, turn every     *)
(* shard into a persistent temporal fragment, merge the fragments, publish *)
(* the artifact and then the layers of the hierarchy that announce it      *)
(* (hierarchical_artifacts.py), each a directory that is removed and put   *)
(* back.  Policies reuse, repair or rebuild what is on disk.  The process  *)
(* may die between any two writes, a deadline may pass at any time, a      *)
(* later attempt may run another release, and files may be damaged in      *)
(* between: a reader treats them as absent or, when they are torn, raises  *)
(* an exception that nothing catches.                                      *)
(*                                                                         *)
(* The artifact is known by the release that made each of its fragments.   *)
(* Routing preparation is one step (RoutingPreparation has its detail).    *)
(***************************************************************************)
EXTENDS MeasurementShards

CONSTANTS
  NumLayers,    \* length of ARTIFACT_LAYERS
  MaxChanges    \* bound on new releases and damaged files

ASSUME LayersAssumption ==
  NumLayers \in Nat \ {0} /\ MaxChanges \in Nat /\ None \notin Seq(Settings)

VARIABLES
  stage,          \* where the attempt is; "idle": between attempts
  operation,      \* "activate" or "prepare"
  policy,         \* "reuse_only", "build_or_reuse" or "rebuild"
  sharded,        \* routing_preparation_config is given
  routing,        \* routing shards in the checkpoint directory: "none",
                  \* "complete" or "torn"
  npzTorn,        \* routing.npz is there and torn
  fragments,      \* setting under which every temporal fragment was made
  merged,         \* settings of the fragments merged so far
  artifact,       \* the published artifact: the fragments it merges, or None
  condition,      \* of its files: "sound", "invalid" or "torn"
  hierarchy,      \* complete directories of the hierarchy, in writing order
  writing,        \* the directory being written
  outcome,        \* how the last attempt ended, "none" after its process exits
  changes         \* counter of the bound

published == <<artifact, condition, hierarchy>>
request == <<operation, policy, sharded>>
prepared == <<routing, npzTorn>>
buildVars == <<vars, stage, request, prepared, fragments, merged, published, writing, outcome,
               changes>>
--------------------------------------------------------------------------------
\* A checkpoint and a published manifest for every layer.
Directories == 1 .. 2 * NumLayers
Whole == hierarchy = Directories
loadable == condition = "sound"
Servable == Whole /\ artifact # None /\ loadable
NoFragments == [s \in Numbers |-> None]
Policies == {"reuse_only", "build_or_reuse", "rebuild"}

BuildInit ==
  /\ Init
  /\ stage = "idle" /\ operation = "activate" /\ policy = "reuse_only" /\ sharded = FALSE
  /\ routing = "none" /\ npzTorn = FALSE
  /\ fragments = NoFragments /\ merged = <<>> /\ writing = 1
  /\ artifact = None /\ condition = "sound" /\ hierarchy = {}
  /\ outcome = "none" /\ changes = 0

End(o) == stage' = "idle" /\ outcome' = o
Continue(s) == stage' = s /\ UNCHANGED outcome

\* may_start can refuse before the deadline and grant after it (StopEarly).
MayRefuse == deadline # "none"
Expired == deadline = "passed"
--------------------------------------------------------------------------------
(* Between attempts *)

\* A call of activate_ or prepare_direct_scheduled_temporal_operator.
Attempt ==
  /\ stage = "idle" /\ outcome = "none" /\ Configure
  /\ operation' \in {"activate", "prepare"} /\ policy' \in Policies
  /\ sharded' \in (IF operation' = "activate" THEN BOOLEAN ELSE {FALSE})
  /\ stage' = IF operation' = "activate" THEN "look" ELSE "prepare"
  /\ changes' = changes + (IF setting' = setting THEN 0 ELSE 1) /\ changes' <= MaxChanges
  /\ UNCHANGED <<prepared, fragments, merged, published, writing, outcome>>

Forget ==
  /\ operation' = "activate" /\ policy' = "reuse_only" /\ sharded' = FALSE
  /\ stage' = "idle" /\ merged' = <<>> /\ writing' = 1 /\ outcome' = "none"

\* The process leaves after its attempt; it may also die before.
Exit ==
  /\ stage = "idle" /\ outcome # "none"
  /\ Configure /\ setting' = setting /\ deadline' = "none" /\ Forget
  /\ UNCHANGED <<prepared, fragments, published, changes>>

ProcessCrash ==
  /\ stage # "idle" /\ Crash /\ Forget
  /\ UNCHANGED <<prepared, fragments, published, changes>>

\* A file of the checkpoint directory is lost, no longer validates or is torn;
\* routing.npz may be there since any earlier activation.
DamageCheckpoint ==
  /\ stage = "idle" /\ outcome = "none" /\ changes < MaxChanges /\ changes' = changes + 1
  /\ \/ Damage /\ UNCHANGED <<prepared, fragments>>
     \/ /\ \E s \in Numbers : /\ fragments[s] # None
                              /\ \E f \in {None, Torn} : fragments' = [fragments EXCEPT ![s] = f]
        /\ UNCHANGED <<vars, prepared>>
     \/ routing # "none" /\ routing' \in {"none", "torn"} /\ UNCHANGED <<vars, npzTorn, fragments>>
     \/ npzTorn' = TRUE /\ UNCHANGED <<vars, routing, fragments>>
  /\ UNCHANGED <<stage, request, merged, published, writing, outcome>>

\* A file of the artifact is lost or altered; a torn one keeps its size.
DamageArtifact ==
  /\ stage = "idle" /\ outcome = "none" /\ changes < MaxChanges /\ changes' = changes + 1
  /\ artifact # None /\ condition' \in {"invalid", "torn"}
  /\ UNCHANGED <<vars, stage, request, prepared, fragments, merged, artifact, hierarchy, writing,
                 outcome>>

ExpireDeadline ==
  Expire /\ UNCHANGED <<stage, request, prepared, fragments, merged, published, writing, outcome,
                        changes>>
--------------------------------------------------------------------------------
(* Activation *)

\* The artifact is opened, since every layer announces it, and a block is torn.
Unreadable == Whole /\ artifact # None /\ condition = "torn"

\* A valid hierarchy and its artifact are loaded; reuse_only refuses otherwise.
LookUp ==
  /\ stage = "look" /\ policy # "rebuild"
  /\ \/ Servable /\ End("ready")
     \/ ~Servable /\ ~Unreadable /\ policy = "reuse_only" /\ End("refused")
     \/ Unreadable /\ End("torn")
  /\ UNCHANGED <<vars, request, prepared, fragments, merged, published, writing, changes>>

\* Mutant: an artifact without a valid hierarchy is left in place.
RepairLeaves ==
  /\ stage = "look" /\ policy # "reuse_only"
  /\ policy = "rebuild" \/ ~(Servable \/ Unreadable)
  /\ Continue("routing")
  /\ UNCHANGED <<vars, request, prepared, fragments, merged, published, writing, changes>>

\* An artifact without a valid hierarchy is moved aside before it is rebuilt;
\* one that every layer announces is left in place, even if it does not validate.
Repair ==
  /\ stage = "look" /\ policy # "reuse_only"
  /\ policy = "rebuild" \/ ~(Servable \/ Unreadable)
  /\ IF policy = "build_or_reuse" /\ ~Whole
     THEN artifact' = None /\ condition' = "sound"
     ELSE UNCHANGED <<artifact, condition>>
  /\ Continue("routing")
  /\ UNCHANGED <<vars, request, prepared, fragments, merged, hierarchy, writing, changes>>

\* The audit of positive boardings raises, before anything is looked up.
PreflightRefuses ==
  /\ \/ stage = "look" /\ policy # "reuse_only"
     \/ stage = "prepare"
  /\ End("failed")
  /\ UNCHANGED <<vars, request, prepared, fragments, merged, published, writing, changes>>

\* Mode auto: the expected saving does not justify the construction.
Unjustified ==
  /\ stage = "routing" /\ End("declined")
  /\ UNCHANGED <<vars, request, prepared, fragments, merged, published, writing, changes>>

\* The routing is not in routing.npz, or that file is not opened.
ToBePrepared == sharded \/ ~npzTorn

StopRouting ==
  /\ stage = "routing" /\ ToBePrepared /\ MayRefuse /\ End("stopped")
  /\ UNCHANGED <<vars, request, prepared, fragments, merged, published, writing, changes>>

\* prepare_fixed_routing_sharded completes its shards, and replaces torn ones if
\* its own policy is to refresh; without shards the routing is loaded from
\* routing.npz, or made by the factory and saved there.
PrepareRouting ==
  /\ stage = "routing" /\ ToBePrepared
  /\ routing' = IF sharded THEN "complete" ELSE routing
  /\ Continue("routed")
  /\ UNCHANGED <<vars, request, npzTorn, fragments, merged, published, writing, changes>>

\* What the activation loads of the routing is torn.
TornRouting == IF sharded THEN routing = "torn" ELSE npzTorn

\* The factory or a routing worker raises, or the manifest of the routing shards
\* is refused; or a torn file of the routing raises, whatever the policy of the
\* activation.
RoutingFails ==
  /\ stage = "routing"
  /\ \/ ToBePrepared /\ End("failed")
     \/ TornRouting /\ End("torn")
  /\ UNCHANGED <<vars, request, prepared, fragments, merged, published, writing, changes>>

\* MemoryError: the sharded preparation stopped under its resource policy.
RoutingUnaffordable ==
  /\ stage = "routing" /\ sharded /\ End("unaffordable")
  /\ UNCHANGED <<vars, request, prepared, fragments, merged, published, writing, changes>>

Routed ==
  /\ stage = "routed"
  /\ IF Expired THEN End("stopped") ELSE Continue("prepare")
  /\ UNCHANGED <<vars, request, prepared, fragments, merged, published, writing, changes>>
--------------------------------------------------------------------------------
(* Preparation *)

\* policy "rebuild": the checkpoint directory is moved aside, with everything
\* below it, the routing shards of this very activation included.
MoveCheckpoints ==
  /\ stage = "prepare" /\ policy = "rebuild"
  /\ Discard
  /\ routing' = "none" /\ npzTorn' = FALSE /\ fragments' = NoFragments
  /\ Continue("discard")
  /\ UNCHANGED <<request, merged, published, writing, changes>>

MoveArtifact ==
  /\ stage = "discard" /\ artifact' = None /\ condition' = "sound" /\ Continue("call")
  /\ UNCHANGED <<vars, request, prepared, fragments, merged, hierarchy, writing, changes>>

\* Mutant: a published artifact is served without its hierarchy.
ReuseArtifactOnly ==
  /\ stage = "prepare" /\ policy # "rebuild"
  /\ IF artifact # None THEN End("ready")
     ELSE IF policy = "reuse_only" THEN End("refused") ELSE Continue("call")
  /\ UNCHANGED <<vars, request, prepared, fragments, merged, published, writing, changes>>

\* An artifact is served if it and its hierarchy are valid and refused otherwise:
\* ObsoleteArtifactFormatError or PreparedArtifactUnavailableError.
Reuse ==
  /\ stage = "prepare" /\ policy # "rebuild"
  /\ IF artifact # None
     THEN End(IF Servable THEN "ready" ELSE IF Unreadable THEN "torn" ELSE "refused")
     ELSE IF policy = "reuse_only" THEN End("refused") ELSE Continue("call")
  /\ UNCHANGED <<vars, request, prepared, fragments, merged, published, writing, changes>>

\* Routing shards are read by the builder; another source is in memory.
CallBuilder ==
  /\ stage = "call"
  /\ \/ MayRefuse /\ End("stopped") /\ UNCHANGED vars
     \/ /\ Call /\ Continue("shards")
        /\ readable' = (operation = "activate" /\ sharded => routing = "complete")
  /\ UNCHANGED <<request, prepared, fragments, merged, published, writing, changes>>

BuildShards ==
  /\ stage = "shards" /\ Builder
  /\ UNCHANGED <<stage, request, prepared, fragments, merged, published, writing, outcome, changes>>

ThreadsWork ==
  /\ stage = "shards" /\ \E s \in Numbers : Work(s)
  /\ UNCHANGED <<stage, request, prepared, fragments, merged, published, writing, outcome, changes>>

ShardsReturn ==
  /\ stage = "shards" /\ pc = "idle"
  /\ TakeResult
  /\ IF result # "complete" THEN End(result)
     ELSE IF Expired THEN End("stopped") ELSE Continue("assemble")
  /\ UNCHANGED <<request, prepared, fragments, merged, published, writing, changes>>
--------------------------------------------------------------------------------
(* Assembly: _finalize_temporal_blocks *)

StopAssembly ==
  /\ stage = "assemble" /\ MayRefuse /\ End("stopped")
  /\ UNCHANGED <<vars, request, prepared, fragments, merged, published, writing, changes>>

Position == Len(merged) + 1

\* Each fragment is followed by a check of expired, the first by none before it.
MayAssemble == stage = "assemble" /\ (Expired => merged = <<>>)

\* The fragment of the shard with this number, whatever release wrote it.
ReuseFragment ==
  /\ MayAssemble
  /\ Position \in Shards(setting) /\ fragments[Position] \in Settings
  /\ merged' = Append(merged, fragments[Position])
  /\ UNCHANGED <<vars, stage, request, prepared, fragments, published, writing, outcome, changes>>

\* A torn fragment is not quarantined: it ends this attempt and the next ones.
FragmentFails ==
  /\ MayAssemble
  /\ Position \in Shards(setting) /\ fragments[Position] = Torn
  /\ End("torn")
  /\ UNCHANGED <<vars, request, prepared, fragments, merged, published, writing, changes>>

\* The shard is loaded, cut in temporal blocks and persisted as a fragment.
BuildFragment ==
  /\ MayAssemble
  /\ Position \in Shards(setting) /\ fragments[Position] = None /\ files[Position] = setting
  /\ fragments' = [fragments EXCEPT ![Position] = setting]
  /\ merged' = Append(merged, setting)
  /\ UNCHANGED <<vars, stage, request, prepared, published, writing, outcome, changes>>

\* Mutant: a deadline that passes saves what is merged so far.
SaveArtifactEarly ==
  /\ stage = "assemble" /\ (Expired \/ Position \notin Shards(setting))
  /\ artifact' = merged /\ condition' = "sound" /\ Continue("hierarchy")
  /\ UNCHANGED <<vars, request, prepared, fragments, merged, hierarchy, writing, changes>>

\* save_temporal_block_operator: staged, then renamed into place.
SaveArtifact ==
  /\ stage = "assemble" /\ Position \notin Shards(setting)
  /\ artifact' = merged /\ condition' = "sound" /\ Continue("hierarchy")
  /\ UNCHANGED <<vars, request, prepared, fragments, merged, hierarchy, writing, changes>>
--------------------------------------------------------------------------------
(* Hierarchy: _publish_direct_hierarchy and _write_to_namespace *)

RemoveDirectory ==
  /\ stage = "hierarchy" /\ writing \in hierarchy
  /\ hierarchy' = hierarchy \ {writing}
  /\ UNCHANGED <<vars, stage, request, prepared, fragments, merged, artifact, condition, writing,
                 outcome, changes>>

PlaceDirectory ==
  /\ stage = "hierarchy" /\ writing \in Directories \ hierarchy
  /\ hierarchy' = hierarchy \cup {writing} /\ writing' = writing + 1
  /\ UNCHANGED <<vars, stage, request, prepared, fragments, merged, artifact, condition, outcome,
                 changes>>

\* Everything is published; a deadline that has passed is still a stop.
Finish ==
  /\ stage = "hierarchy" /\ writing \notin Directories
  /\ End(IF Expired THEN "stopped" ELSE "ready")
  /\ UNCHANGED <<vars, request, prepared, fragments, merged, published, writing, changes>>
--------------------------------------------------------------------------------
Activation ==
  \/ LookUp \/ PreflightRefuses \/ Repair \/ Unjustified \/ StopRouting \/ PrepareRouting
  \/ RoutingFails \/ RoutingUnaffordable \/ Routed
Preparation ==
  \/ MoveCheckpoints \/ MoveArtifact \/ Reuse \/ CallBuilder \/ BuildShards \/ ShardsReturn
  \/ StopAssembly \/ ReuseFragment \/ FragmentFails \/ BuildFragment \/ SaveArtifact
  \/ RemoveDirectory \/ PlaceDirectory \/ Finish
Progress == Activation \/ Preparation
BuildNext == Attempt \/ Exit \/ ProcessCrash \/ DamageCheckpoint \/ DamageArtifact \/ ExpireDeadline
             \/ Progress

\* The process runs until its attempt ends, and so do the threads of the pool
\* while its coordinator polls an expired deadline.
BuildFairness == WF_buildVars(Progress) /\ WF_buildVars(ThreadsWork)
BuildSpec == BuildInit /\ [][BuildNext]_buildVars /\ BuildFairness
--------------------------------------------------------------------------------
(* Properties *)

Outcomes == {"none", "ready", "refused", "declined", "stopped", "failed", "unreadable",
             "unaffordable", "torn"}

BuildTypeOK ==
  /\ TypeOK
  /\ stage \in {"idle", "look", "routing", "routed", "prepare", "discard", "call", "shards",
                "assemble", "hierarchy"}
  /\ operation \in {"activate", "prepare"} /\ policy \in Policies
  /\ {sharded, npzTorn} \subseteq BOOLEAN /\ routing \in {"none", "complete", "torn"}
  /\ fragments \in [Numbers -> Settings \cup {None, Torn}]
  /\ merged \in Seq(Settings) /\ artifact \in Seq(Settings) \cup {None}
  /\ condition \in {"sound", "invalid", "torn"}
  /\ hierarchy \subseteq Directories /\ writing \in 1 .. 2 * NumLayers + 1
  /\ outcome \in Outcomes /\ changes \in 0 .. MaxChanges

\* A published operator merges every task of the construction exactly once,
\* whichever attempts, releases and fragments it comes from.
OperatorIsExact ==
  artifact # None =>
    \A t \in Tasks :
      Cardinality({i \in DOMAIN artifact : t \in Packing[artifact[i]][i]}) = 1

\* A torn file that the attempt opens: a rebuild moves the checkpoint directory
\* aside, but only after it has loaded the routing from it.
MeetsTorn ==
  \/ TornRouting
  \/ /\ policy = "build_or_reuse"
     /\ \/ Unreadable \/ groups = "torn" \/ TornShards # {}
        \/ \E s \in Shards(setting) : fragments[s] = Torn

\* An activation that may build, without a deadline, fails at most because the
\* routing, a worker or the support discovery failed, a preflight found the
\* construction unsafe, or the memory budget is too small: it ends with an
\* operator or says that none is justified, whatever crashes and stops left on
\* disk before, and repairs what explicit preparation would refuse.  The damage
\* it does not get past is a torn file, which a rebuild gets past unless it is
\* one of the routing, and an artifact that does not validate although every
\* layer announces it, which is neither replaced nor served.  A rebuild with
\* sharded routing is left out: it moves away the routing it has just prepared.
UndisturbedSucceeds ==
  /\ stage = "idle" /\ operation = "activate" /\ policy # "reuse_only"
  /\ deadline = "none" /\ ~(policy = "rebuild" /\ sharded)
  => /\ outcome \notin {"stopped", "unreadable"}
     /\ outcome = "refused" => Whole /\ artifact # None /\ condition = "invalid"
     /\ outcome = "torn" => MeetsTorn

\* Every attempt comes to an end: no thread, buffer or check leaves it waiting.
EveryAttemptEnds == (stage # "idle") ~> (stage = "idle")

\* The stages of a construction, in the terms of its specification.
Staged == INSTANCE StagedBuild WITH
  Units <- Numbers, Layers <- Directories,
  shards <- {s \in Numbers : files[s] = setting},
  fragments <- {s \in Numbers : fragments[s] \in Settings},
  published <- artifact # None /\ loadable,
  announced <- hierarchy,
  served <- outcome = "ready"

\* Every step of the construction, of a crash and of a later attempt is a step
\* of the staged construction or leaves its stages alone (one packing).
ImplementsStagedBuild == Staged!Spec
================================================================================
