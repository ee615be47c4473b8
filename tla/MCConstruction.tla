---------------------------- MODULE MCConstruction -----------------------------
(* One construction of the temporal operator, or one of the services it runs *)
(* beside and that share no state with it.                                   *)
EXTENDS TemporalBuild, BlockOperatorCache, RoutingExecutor, ConstructionReporter,
        SupportDiscovery

\* Two releases with the same packing and another kernel.
SamePacking == [c \in {1, 2} |-> <<{1}, {2}, {3}>>]
BlockBytes == <<2, 2, 2, 6>>
GroupEntries == <<1, 2, 1>>

VARIABLE part

partVars == <<buildVars, cacheVars, execVars, reporterVars, discoveryVars, part>>

MCInit ==
  /\ part \in {"build", "cache", "executor", "reporter", "support"}
  /\ BuildInit /\ setting = 1
  /\ CacheInit /\ ExecInit /\ ReporterInit
  /\ DiscoveryInit /\ release = 1

MCNext ==
  /\ UNCHANGED part
  /\ \/ /\ part = "build" /\ BuildNext
        /\ UNCHANGED <<cacheVars, execVars, reporterVars, discoveryVars>>
     \/ /\ part = "cache" /\ CacheNext
        /\ UNCHANGED <<buildVars, execVars, reporterVars, discoveryVars>>
     \/ /\ part = "executor" /\ ExecNext
        /\ UNCHANGED <<buildVars, cacheVars, reporterVars, discoveryVars>>
     \/ /\ part = "reporter" /\ ReporterNext
        /\ UNCHANGED <<buildVars, cacheVars, execVars, discoveryVars>>
     \/ /\ part = "support" /\ DiscoveryNext
        /\ UNCHANGED <<buildVars, cacheVars, execVars, reporterVars>>

MCSpec == MCInit /\ [][MCNext]_partVars /\ BuildFairness /\ ExecFairness
================================================================================
