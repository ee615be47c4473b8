--------------------------- MODULE RoutingPreparation --------------------------
(***************************************************************************)
(* Bounded preparation of fixed-routing shards by a thread pool            *)
(* (sharded_fixed_routing.py, _prepare_fixed_routing_sharded_threads).     *)
(* The coordinator scans the shard cache, dispatches the missing shards to *)
(* worker threads in canonical order and publishes their completions in    *)
(* that order, although they finish in any order, in an atomic manifest.   *)
(* Each worker writes its own shard file.  Budgets on time, resident       *)
(* memory and cache size stop the dispatch; a worker may fail, the         *)
(* coordinator may be interrupted, and the process or the machine may die. *)
(*                                                                         *)
(* Every shard has size one.  Readings of the clock and of the resident    *)
(* memory may or may not exceed their budgets.                             *)
(***************************************************************************)
EXTENDS Integers, FiniteSets

CONSTANTS
  NumShards,        \* shards of the plan
  Workers,          \* construction_workers
  MaxCache,         \* maximum_cache_bytes, in shards
  CachePolicies,    \* subset of {"reuse", "refresh"}
  Durabilities,     \* values of durable_progress
  Nothing,          \* no manifest, no result
  MaxWorkerFailures, MaxAborts, MaxDeaths, MaxCalls   \* bounds

Shards == 1 .. NumShards
ManifestStatuses == {"in_progress", "completed", "deadline_reached", "memory_budget_reached",
                     "interrupted", "corrupt"}
Manifests == [names : SUBSET Shards, status : ManifestStatuses]

ASSUME RoutingAssumption ==
  /\ {NumShards, Workers} \subseteq Nat \ {0}
  /\ MaxCache \in Nat
  /\ CachePolicies \subseteq {"reuse", "refresh"}
  /\ Durabilities \subseteq BOOLEAN
  /\ {MaxWorkerFailures, MaxAborts, MaxDeaths, MaxCalls} \subseteq Nat
  /\ Nothing \notin Manifests

VARIABLES
  durable,      \* durable_progress: files are fsynced before they are renamed
  step,         \* what the coordinator is about to do; "down": no process
  cachePolicy,  \* reuse or refresh
  missing,      \* the shards to construct
  admitted,     \* admitted_workers
  dispatched,   \* the first submitted_shards of missing
  active,       \* futures in the dictionary of the coordinator
  arrived,      \* futures returned by wait and not yet looked at
  buffered,     \* results received and not yet published
  completed,    \* cache hits and published shards
  failed,       \* failed_shards
  nextEmit,     \* next_emit
  predicted,    \* a predicted shard duration is known
  exhausted, stopStatus,
  worker,       \* state of the future of each shard
  files,        \* the shard files on disk
  manifest,     \* manifest.json, or Nothing
  unsynced,     \* shard files a power loss may damage; 0 is the manifest
  returned,     \* the result of the last invocation, Nothing if it raised
  workerFailures, aborts, deaths, calls   \* counters of the bounds

progress == <<dispatched, active, arrived, buffered, completed, failed, nextEmit,
              predicted, exhausted, stopStatus>>
plan == <<durable, cachePolicy, missing, admitted>>
disk == <<files, manifest, unsynced>>
tallies == <<workerFailures, aborts, deaths, calls>>
preparationVars == <<plan, step, progress, worker, disk, returned, tallies>>
--------------------------------------------------------------------------------
Idle == [s \in Shards |-> "none"]
Smallest(S) == CHOOSE s \in S : \A t \in S : s <= t

\* Mutant: the manifest also names the shards in construction.
ContentDispatched(names, s) == [names |-> names \cup dispatched, status |-> s]

\* What _write_manifest records.
Content(names, s) == [names |-> names, status |-> s]

WriteManifest(names, s) ==
  /\ manifest' = Content(names, s)
  /\ unsynced' = IF durable THEN unsynced ELSE unsynced \cup {0}
  /\ UNCHANGED files

Queued == missing \ dispatched
CacheFull == Cardinality(completed) + Cardinality(active) + 1 > MaxCache

PreparationInit ==
  /\ durable \in Durabilities /\ cachePolicy = "reuse"
  /\ step = "down" /\ missing = {} /\ admitted = 0
  /\ dispatched = {} /\ active = {} /\ arrived = {} /\ buffered = {} /\ completed = {}
  /\ failed = 0 /\ nextEmit = 1 /\ predicted = FALSE /\ exhausted = FALSE
  /\ stopStatus = "completed" /\ worker = Idle
  /\ files = [s \in Shards |-> "absent"] /\ manifest = Nothing /\ unsynced = {}
  /\ returned = Nothing
  /\ workerFailures = 0 /\ aborts = 0 /\ deaths = 0 /\ calls = 0
--------------------------------------------------------------------------------
(* Planning, cache scan and admission *)

Unreadable == manifest # Nothing /\ manifest.status = "corrupt"

\* _validate_existing_manifest accepts the manifest.
Start ==
  /\ step = "down" /\ calls < MaxCalls
  /\ cachePolicy' \in CachePolicies
  /\ cachePolicy' = "refresh" \/ ~Unreadable
  /\ step' = "scan" /\ calls' = calls + 1
  /\ missing' = {} /\ admitted' = 0
  /\ dispatched' = {} /\ active' = {} /\ arrived' = {} /\ buffered' = {} /\ completed' = {}
  /\ failed' = 0 /\ nextEmit' = 1 /\ predicted' = FALSE /\ exhausted' = FALSE
  /\ stopStatus' = "completed" /\ worker' = Idle /\ returned' = Nothing
  /\ UNCHANGED <<durable, disk, workerFailures, aborts, deaths>>

\* FixedRoutingShardCacheError: the manifest is corrupt.
Refuse ==
  /\ step = "down" /\ calls < MaxCalls
  /\ "reuse" \in CachePolicies /\ Unreadable
  /\ returned' = Nothing /\ calls' = calls + 1
  /\ UNCHANGED <<plan, step, progress, worker, disk, workerFailures, aborts, deaths>>

Reusable == IF cachePolicy = "reuse" THEN {s \in Shards : files[s] = "valid"} ELSE {}

\* Shards that load_fixed_routing_shard cannot even open: what numpy raises is
\* not among the exceptions that lead to a quarantine.
TornShards == IF cachePolicy = "reuse" THEN {s \in Shards : files[s] = "torn"} ELSE {}

\* Mutant: the manifest is believed instead of the files.
ScanManifest ==
  /\ step = "scan" /\ TornShards = {}
  /\ completed' = IF manifest = Nothing THEN {} ELSE manifest.names \cap Reusable
  /\ missing' = Shards \ completed'
  /\ step' = "admit"
  /\ UNCHANGED <<durable, cachePolicy, admitted, dispatched, active, arrived, buffered, failed,
                 nextEmit, predicted, exhausted, stopStatus, worker, disk, returned, tallies>>

\* Valid files are reused; the others are quarantined or will be replaced.
ScanCache ==
  /\ step = "scan" /\ TornShards = {}
  /\ completed' = Reusable /\ missing' = Shards \ Reusable
  /\ files' = [s \in Shards |->
                 IF cachePolicy = "reuse" /\ files[s] = "corrupt" THEN "absent" ELSE files[s]]
  /\ step' = "admit"
  /\ UNCHANGED <<durable, cachePolicy, admitted, dispatched, active, arrived, buffered, failed,
                 nextEmit, predicted, exhausted, stopStatus, worker, manifest, unsynced, returned,
                 tallies>>

\* The scan stops at the first torn shard, in this and every later invocation;
\* what it quarantined before stays so.
ScanFails ==
  /\ step = "scan" /\ TornShards # {}
  /\ files' = [s \in Shards |->
                 IF files[s] = "corrupt" /\ s < Smallest(TornShards) THEN "absent" ELSE files[s]]
  /\ step' = "down"
  /\ UNCHANGED <<plan, progress, worker, manifest, unsynced, returned, tallies>>

\* Leave with a result before or after the pool: final manifest, then return.
ReturnResult(s) ==
  /\ WriteManifest(completed, s)
  /\ returned' = Content(completed, s)
  /\ step' = "down"
  /\ UNCHANGED <<plan, progress, worker, tallies>>

AllCached == step = "admit" /\ missing = {} /\ ReturnResult("completed")

\* The memory ceiling admits no worker.
Decline == step = "admit" /\ missing # {} /\ ReturnResult("memory_budget_reached")

Admit ==
  /\ step = "admit" /\ missing # {}
  /\ admitted' \in 1 .. Workers /\ admitted' <= Cardinality(missing)
  /\ step' = "compile"
  /\ UNCHANGED <<durable, cachePolicy, missing, progress, worker, disk, returned, tallies>>

\* deadline_stop before tracing, or after tracing, lowering or compilation.
DeadlineInCompilation == step = "compile" /\ ReturnResult("deadline_reached")

\* A duration is known from the configuration or from the manifest, or not.
Compile ==
  /\ step = "compile"
  /\ nextEmit' = Smallest(missing) /\ predicted' \in BOOLEAN
  /\ step' = "dispatch"
  /\ UNCHANGED <<plan, dispatched, active, arrived, buffered, completed, failed, exhausted,
                 stopStatus, worker, disk, returned, tallies>>
--------------------------------------------------------------------------------
(* Dispatch *)

Room == Cardinality(active) < admitted /\ ~exhausted

\* Mutant: the shards are taken from the plan instead of from those missing.
DispatchFromPlan ==
  /\ step = "dispatch" /\ Room /\ ~CacheFull /\ Queued # {}
  /\ LET s == Smallest(Shards \ dispatched)
     IN  /\ dispatched' = dispatched \cup {s} /\ active' = active \cup {s}
         /\ worker' = [worker EXCEPT ![s] = "queued"]
  /\ UNCHANGED <<plan, step, arrived, buffered, completed, failed, nextEmit, predicted,
                 exhausted, stopStatus, disk, returned, tallies>>

\* pool.submit of the next missing shard.
Dispatch ==
  /\ step = "dispatch" /\ Room /\ ~CacheFull /\ Queued # {}
  /\ LET s == Smallest(Queued)
     IN  /\ dispatched' = dispatched \cup {s} /\ active' = active \cup {s}
         /\ worker' = [worker EXCEPT ![s] = "queued"]
  /\ UNCHANGED <<plan, step, arrived, buffered, completed, failed, nextEmit, predicted,
                 exhausted, stopStatus, disk, returned, tallies>>

\* The inner loop ends: wait for a completion, or leave when nothing is active.
EndDispatch(stop, s) ==
  /\ exhausted' = stop /\ stopStatus' = s
  /\ step' = IF active = {} THEN "finish" ELSE "wait"
  /\ UNCHANGED <<plan, dispatched, active, arrived, buffered, completed, failed, nextEmit,
                 predicted, worker, disk, returned, tallies>>

NoRoom == step = "dispatch" /\ ~Room /\ EndDispatch(exhausted, stopStatus)

\* The resident memory or the cache budget forbids another shard: wait for the
\* active ones, or stop when there are none.
MemoryGuardWaits == step = "dispatch" /\ Room /\ active # {} /\ EndDispatch(exhausted, stopStatus)
MemoryGuardStops ==
  step = "dispatch" /\ Room /\ active = {} /\ EndDispatch(TRUE, "memory_budget_reached")

\* The remaining time is shorter than the predicted duration.
DeadlineGuardStops ==
  step = "dispatch" /\ Room /\ ~CacheFull /\ predicted /\ EndDispatch(TRUE, "deadline_reached")

\* Mutant: the end of the shards is not remembered.
AllSubmittedForgotten ==
  /\ step = "dispatch" /\ Room /\ ~CacheFull /\ Queued = {}
  /\ step' = "wait"
  /\ UNCHANGED <<plan, progress, worker, disk, returned, tallies>>
AllSubmitted ==
  step = "dispatch" /\ Room /\ ~CacheFull /\ Queued = {} /\ EndDispatch(TRUE, stopStatus)
--------------------------------------------------------------------------------
(* Completions *)

Finished == {s \in active : worker[s] \in {"done", "failed", "cancelled"}}

\* wait(active, return_when=FIRST_COMPLETED).
Wait ==
  /\ step = "wait" /\ Finished # {}
  /\ arrived' = Finished
  /\ step' = "collect"
  /\ UNCHANGED <<plan, dispatched, active, buffered, completed, failed, nextEmit, predicted,
                 exhausted, stopStatus, worker, disk, returned, tallies>>

\* A result is buffered; the deadline may have passed in the meantime.
CollectResult(s) ==
  /\ step = "collect" /\ s \in arrived /\ worker[s] = "done"
  /\ arrived' = arrived \ {s} /\ active' = active \ {s} /\ buffered' = buffered \cup {s}
  /\ worker' = [worker EXCEPT ![s] = "none"]
  /\ predicted' = TRUE
  /\ \/ UNCHANGED <<exhausted, stopStatus>>
     \/ exhausted' = TRUE /\ stopStatus' = "deadline_reached"
  /\ UNCHANGED <<plan, step, dispatched, completed, failed, nextEmit, disk, returned, tallies>>

\* Mutant: the failed shard is not counted.
CollectFailureUncounted(s) ==
  /\ step = "collect" /\ s \in arrived /\ worker[s] \in {"failed", "cancelled"}
  /\ arrived' = arrived \ {s} /\ active' = active \ {s}
  /\ worker' = [t \in Shards |-> IF t = s THEN "none" ELSE worker[t]]
  /\ stopStatus' = "interrupted"
  /\ WriteManifest(completed, "interrupted")
  /\ step' = "drain"
  /\ UNCHANGED <<plan, dispatched, buffered, completed, failed, nextEmit, predicted,
                 exhausted, returned, tallies>>

\* A worker failed: what has not started is cancelled, the manifest is written
\* and RuntimeError leaves the with statement of the pool.
CollectFailure(s) ==
  /\ step = "collect" /\ s \in arrived /\ worker[s] \in {"failed", "cancelled"}
  /\ arrived' = arrived \ {s} /\ active' = active \ {s}
  /\ failed' = failed + 1 /\ stopStatus' = "interrupted"
  /\ worker' = [t \in Shards |->
                  IF t = s THEN "none"
                  ELSE IF t \in active /\ worker[t] = "queued" THEN "cancelled" ELSE worker[t]]
  /\ WriteManifest(completed, "interrupted")
  /\ step' = "drain"
  /\ UNCHANGED <<plan, dispatched, buffered, completed, nextEmit, predicted, exhausted,
                 returned, tallies>>

AllCollected ==
  /\ step = "collect" /\ arrived = {}
  /\ step' = "publish"
  /\ UNCHANGED <<plan, progress, worker, disk, returned, tallies>>

\* Mutant: cache hits are not skipped.
EmitAfterNext(done, s) == s + 1

\* The next shard after s that is not completed.
EmitAfter(done, s) == Smallest({t \in s + 1 .. NumShards + 1 : t \notin done})

\* Mutant: results are published as they arrive.
PublishAny ==
  /\ step = "publish" /\ buffered # {}
  /\ \E s \in buffered :
       /\ buffered' = buffered \ {s} /\ completed' = completed \cup {s}
       /\ nextEmit' = IF s = nextEmit THEN EmitAfter(completed', s) ELSE nextEmit
  /\ WriteManifest(completed', "in_progress")
  /\ UNCHANGED <<plan, step, dispatched, active, arrived, failed, predicted, exhausted, stopStatus,
                 worker, returned, tallies>>

\* The next shard in canonical order is published.
Publish ==
  /\ step = "publish" /\ nextEmit \in buffered
  /\ buffered' = buffered \ {nextEmit} /\ completed' = completed \cup {nextEmit}
  /\ WriteManifest(completed', "in_progress")
  /\ nextEmit' = EmitAfter(completed', nextEmit)
  /\ UNCHANGED <<plan, step, dispatched, active, arrived, failed, predicted, exhausted, stopStatus,
                 worker, returned, tallies>>

\* while active or not exhausted.
AllPublished ==
  /\ step = "publish" /\ nextEmit \notin buffered
  /\ step' = IF active # {} \/ ~exhausted THEN "dispatch" ELSE "finish"
  /\ UNCHANGED <<plan, progress, worker, disk, returned, tallies>>

Finish == step = "finish" /\ ReturnResult(stopStatus)

\* Mutant: the exception does not wait for the pool.
RaiseAtOnce ==
  /\ step = "drain"
  /\ step' = "down"
  /\ UNCHANGED <<plan, progress, worker, disk, returned, tallies>>

\* The with statement ends when no thread has anything left to run.
Raise ==
  /\ step = "drain" /\ \A s \in Shards : worker[s] \notin {"queued", "running", "saved"}
  /\ step' = "down"
  /\ UNCHANGED <<plan, progress, worker, disk, returned, tallies>>
--------------------------------------------------------------------------------
(* Worker threads: construct *)

Advance(s, from, to) ==
  /\ worker[s] = from
  /\ worker' = [worker EXCEPT ![s] = to]

BeginShard(s) ==
  /\ Advance(s, "queued", "running")
  /\ UNCHANGED <<plan, step, progress, disk, returned, tallies>>

\* save_fixed_routing_shard replaces the file atomically.
Save(s) ==
  /\ Advance(s, "running", "saved")
  /\ files' = [files EXCEPT ![s] = "valid"]
  /\ unsynced' = IF durable THEN unsynced ELSE unsynced \cup {s}
  /\ UNCHANGED <<plan, step, progress, manifest, returned, tallies>>

Complete(s) ==
  /\ Advance(s, "saved", "done")
  /\ UNCHANGED <<plan, step, progress, disk, returned, tallies>>

Fail(s) ==
  /\ workerFailures < MaxWorkerFailures
  /\ Advance(s, "running", "failed") \/ Advance(s, "saved", "failed")
  /\ workerFailures' = workerFailures + 1
  /\ UNCHANGED <<plan, step, progress, disk, returned, aborts, deaths, calls>>

\* KeyboardInterrupt reaches the coordinator while the pool is open.
InterruptPreparation ==
  /\ step \in {"dispatch", "wait", "collect", "publish"} /\ aborts < MaxAborts
  /\ step' = "drain"
  /\ aborts' = aborts + 1
  /\ UNCHANGED <<plan, progress, worker, disk, returned, workerFailures, deaths, calls>>

\* The process dies; with the machine, files not yet synchronised may be damaged.
CrashPreparation ==
  /\ step # "down" \/ unsynced # {}
  /\ deaths < MaxDeaths
  /\ \E lost \in SUBSET unsynced : \E torn \in SUBSET (lost \ {0}) :
       /\ files' = [s \in Shards |->
                      IF s \in torn THEN "torn" ELSE IF s \in lost THEN "corrupt" ELSE files[s]]
       /\ manifest' = IF 0 \in lost THEN Content({}, "corrupt") ELSE manifest
       /\ unsynced' = IF lost = {} THEN unsynced ELSE {}
  /\ step' = "down" /\ worker' = Idle /\ returned' = Nothing
  /\ deaths' = deaths + 1
  /\ UNCHANGED <<plan, progress, workerFailures, aborts, calls>>

Planning == \/ ScanCache \/ ScanFails \/ AllCached \/ Decline
            \/ Admit \/ DeadlineInCompilation \/ Compile
Dispatching == \/ Dispatch \/ NoRoom \/ MemoryGuardWaits \/ MemoryGuardStops
               \/ DeadlineGuardStops \/ AllSubmitted
Collecting == \/ Wait \/ (\E s \in Shards : CollectResult(s) \/ CollectFailure(s))
              \/ AllCollected \/ Publish \/ AllPublished \/ Finish \/ Raise
Coordinator == Planning \/ Dispatching \/ Collecting
Thread(s) == BeginShard(s) \/ Save(s) \/ Complete(s)

PreparationNext ==
  \/ Start \/ Refuse \/ Coordinator
  \/ \E s \in Shards : Thread(s) \/ Fail(s)
  \/ InterruptPreparation \/ CrashPreparation

\* The coordinator and every thread of the pool run; nobody has to start an
\* invocation, to interrupt it or to fail.
PreparationFairness ==
  /\ WF_preparationVars(Coordinator)
  /\ \A s \in Shards : WF_preparationVars(Thread(s))

PreparationSpec == PreparationInit /\ [][PreparationNext]_preparationVars /\ PreparationFairness
--------------------------------------------------------------------------------
(* Properties *)

PlanTypeOK ==
  /\ durable \in BOOLEAN /\ cachePolicy \in {"reuse", "refresh"}
  /\ missing \subseteq Shards /\ admitted \in 0 .. Workers

ProgressTypeOK ==
  /\ step \in {"down", "scan", "admit", "compile", "dispatch", "wait", "collect", "publish",
             "finish", "drain"}
  /\ active \cup buffered \subseteq dispatched /\ dispatched \subseteq missing
  /\ arrived \subseteq active /\ completed \subseteq Shards
  /\ failed \in Nat /\ nextEmit \in 1 .. NumShards + 1
  /\ predicted \in BOOLEAN /\ exhausted \in BOOLEAN /\ stopStatus \in ManifestStatuses

FilesTypeOK ==
  /\ worker \in [Shards -> {"none", "queued", "running", "saved", "done", "failed", "cancelled"}]
  /\ files \in [Shards -> {"absent", "valid", "corrupt", "torn"}]
  /\ manifest \in Manifests \cup {Nothing} /\ returned \in Manifests \cup {Nothing}
  /\ unsynced \subseteq Shards \cup {0}

CountersTypeOK == {workerFailures, aborts, deaths, calls} \subseteq Nat

\* The variables have their types, and only missing shards are constructed: the
\* futures of the coordinator are among the dispatched shards, these among the
\* missing ones (missing[submitted_shards]).
PreparationTypeOK == PlanTypeOK /\ ProgressTypeOK /\ FilesTypeOK /\ CountersTypeOK

\* completed_shards + active_workers + buffered_shards + queued_shards +
\* failed_shards = total_shards at every progress event (gravity_estimation.md
\* and the RuntimeError of emit_progress).
AccountingExact ==
  step \notin {"down", "scan"} =>
    Cardinality(completed) + Cardinality(active) + Cardinality(buffered)
      + Cardinality(Queued) + failed = NumShards

\* What the manifest names is on disk: with durable progress, whatever failed or
\* died, every shard recorded as completed has a valid file.
ManifestOnDisk ==
  durable /\ manifest # Nothing => \A s \in manifest.names : files[s] = "valid"

\* Shards are published in canonical order although they finish in any order:
\* the missing shards before next_emit, and no others, are completed.
PublishedInOrder ==
  step \in {"dispatch", "wait", "collect", "publish", "finish"} =>
    missing \cap completed = {s \in missing : s < nextEmit}

\* A result that says "completed" covers every shard, and every file is valid:
\* the routing it returns can be loaded.
CompletedIsPrepared ==
  returned # Nothing /\ returned.status = "completed" =>
    returned.names = Shards /\ \A s \in Shards : files[s] = "valid"

\* A restart that reuses the cache never constructs a valid shard again, not even
\* one that a failed, interrupted or killed invocation left out of the manifest.
NoRecomputation ==
  [][\A s \in Shards :
       cachePolicy = "reuse" /\ worker[s] = "running" /\ worker'[s] = "saved"
         => files[s] # "valid"]_preparationVars

\* No thread writes to the cache after the invocation is over, when the next one
\* may be scanning it.
NoThreadOutlivesInvocation ==
  step = "down" => \A s \in Shards : worker[s] \notin {"queued", "running", "saved"}

\* Every invocation returns or raises: the coordinator never waits for a future
\* that nobody completes, and never spins with nothing left to dispatch.
PreparationEnds == step # "down" ~> step = "down"

\* The configuration bounds total cache bytes (gravity_estimation.md).
CacheBounded ==
  cachePolicy = "reuse" /\ Cardinality(Shards \ missing) <= MaxCache =>
    Cardinality({s \in Shards : files[s] = "valid"}) <= MaxCache
================================================================================
