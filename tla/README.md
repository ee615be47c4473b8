# TLA+ models of public_transportation

`public_transportation` estimates origin-destination flows of a public
transport network from counts. Its numerical kernels are pure functions; what
is hard to get right, and hard to test, is the machinery around them: long runs
that stop on budgets, are interrupted or killed, and continue from files written
by earlier processes; caches built by several threads; schedules that decide
which updates may be merged as independent. These modules model that machinery.

Paths below are relative to `src/public_transportation/inference/` unless they
start with `docs/` or `tests/`.

## 1. The system

### Components

| component | state | operations | interacts with |
|---|---|---|---|
| Block schedule (`block_coordinate/scheduling.py`, `estimator._schedule`) | none; inputs are the partition and the measurement rows of each block | conflict graph, first-fit colouring, cyclic, shuffled and interleaved orders | called by the estimator before the loop |
| Block-coordinate estimator (`block_coordinate/estimator.py`) | flow, prediction, objective, best solution, sweep, position, counters, drawn schedules; invocation budgets | `run`: resume or initialise, solve a batch, journal it, compact, report, stop | checkpoint store, solver, selected block builder, operator cache, callbacks |
| Checkpoint store (`block_coordinate/checkpoint_store.py`) | compact checkpoint, journal records, commit markers, `journal_sequence` | `initialize`, `append_accepted_update`, `compact`, `load` | files only |
| Support preflight (`block_coordinate/support_preflight.py`) | completed groups, destination and block summaries, status, one checkpoint file | `run_support_preflight`, resume, `authorize_block_coordinate_pilot` | sharded routing resources; its result gates pilots |
| Fixed-routing preparation (`sharded_fixed_routing.py`) | shard files, manifest; futures, reorder buffer, next shard to publish | cache scan, admission, dispatch, construction in threads, ordered publication, manifest | temporal builder, progress heartbeat |
| Parallel routing executor (`parallel_routing_executor.py`) | thread pool, retained evaluations, pending identity | forward, reverse, execute, release, close | gravity operator through callbacks of the numerical library |
| Block operator cache (`block_coordinate/operator_cache.py`) | operators by recency, per-key locks, disk files | get, retain and evict, release | the threads that construct the operators of a batch |
| Support discovery (`fixed_routing_origin_support.py`, `_discover_support` of the builder) | a raw fragment and a compact payload for every destination group, the support index; pending futures | probe, submit, compute, save, count, index | shard builder, deadline, routing shards |
| Measurement shard builder (`fixed_routing_sharded_builder.py`) | support checkpoint, shard files, manifest; futures, reorder buffer | open, support, plan, recovery scan, dispatch, publish, stop | temporal builder, deadline, reporter |
| Hierarchical artifact store (`hierarchical_artifacts.py`) | a directory for every layer and its checkpoint | save, overwrite, load, validate | temporal builder |
| Construction control (`construction_control.py`) | deadline, bounded event queue and its thread, delivery lock | `may_start`, `expired`; queued and synchronous events, flush | all builders |
| Temporal builder (`direct_scheduled_temporal_builder.py`) | temporal fragments, the operator artifact | activate, prepare; reuse, repair or rebuild | routing preparation, shard builder, artifact store, control |
| Gravity estimation (`gravity/`) | optimiser iterate, checkpoint, fidelity ladder | evaluate, callback, checkpoint, resume | routing executor |
| Domain, preprocessing, measurement mapping, assignment, Bayesian and likelihood estimation, audit, visualisation | immutable values | pure functions, sampling, file input, plots | the estimators |

### Hard behaviours

- *Crash and restart.* The estimator, the preflight and the preparation all
  write files from which another process continues. Each file is replaced
  atomically, but a logical step often takes several files (journal record,
  marker, compact checkpoint; shard, manifest).
- *`KeyboardInterrupt`.* It is caught, and what is in memory at that moment is
  persisted. The handler runs wherever the interrupt arrived.
- *Threads.* Shards are constructed by a pool whose completions arrive in any
  order, and published in canonical order; failures cancel only what has not
  started.
- *Damaged files.* Every reader catches a list of exceptions and quarantines or
  ignores the file; an archive that is cut short or empty makes `numpy.load` raise
  another one, which ends the call, and every later call that opens the file.
- *Policies over leftovers.* An activation meets whatever stopped, crashed or older
  constructions left: shards without a manifest, fragments without shards, an
  artifact without its layers. Its policy says whether to reuse, repair, rebuild
  or refuse.
- *Handles and identities that outlive a call.* An operator in a cache, arrays
  retained for the reverse product, an event in a queue.
- *Budgets.* Time, memory, cache size, updates, sweeps. Each has its own point of
  test, its own status, and its own idea of what is kept.
- *Invocations that differ.* Limits may change between invocations, and results
  measured under one policy are used under another.

`PROJECT.json` lists under `hazards` each place where one of these bites, with
the properties that cover it.

### What makes the components correct

- Schedule: blocks solved together are independent; every block is in exactly one
  nonempty batch.
- Estimator and store: a directory can always be loaded; what is loaded is one
  consistent state, one the estimator was in; counters, position and schedule
  agree; what was announced as committed stays; the run ends.
- Preflight: the checkpoint is a prefix of an uninterrupted run or, after a recording
  that was cut short, such a prefix with repetitions that are known; statuses and
  safety flags tell the truth; resumed runs lose nothing.
- Preparation: shards are neither lost nor counted twice; the manifest names only
  what is on disk; nothing valid is constructed again; no thread outlives its
  invocation; the invocation ends.
- Shard builder: no valid shard is constructed again, whatever the manifest
  says; a manifest names only files that validate; a deadline loses nothing that
  was dispatched; a complete result is whole.
- Support discovery: whatever ends a call, the groups it consumed are on disk; the
  group whose turn it is can be found; the index is over payloads of its release.
- Temporal builder: a published operator contains every task once; shards,
  fragments, artifact and layers follow each other, also across crashes; an
  activation without a deadline finds its way out of whatever it meets, except
  torn files; every attempt ends.
- Services: the handles of a batch stay usable; the retained evaluation is the
  latest one; a phase boundary is delivered after the events before it.

## 2. Modules

| module | models |
|---|---|
| `BlockSchedule` | the orders and batches as pure operators (reference definitions) |
| `ConflictColoring` | the loops of `build_block_conflict_graph` and `color_block_conflict_graph` |
| `ConflictColoring_proofs` | theorems about `ConflictColoring` |
| `BlockEstimator` | `run` of the estimator composed with the checkpoint store |
| `BlockRecovery` | `load` as an operator on the disk, the recovery properties, the refinement |
| `DurableProgress` | abstract specification of the estimator's checkpoint directory |
| `BlockEstimator_proofs` | theorems about `BlockEstimator` |
| `SupportPreflight` | `run_support_preflight`, its checkpoint, resume policy and authorization |
| `SupportPreflight_proofs` | theorems about `SupportPreflight` |
| `RoutingPreparation` | the thread strategy of fixed-routing preparation |
| `RoutingPreparation_proofs` | theorems about `RoutingPreparation` |
| `MeasurementShards` | the resumable builder of measurement shards with its pool |
| `MeasurementShards_proofs` | theorems about `MeasurementShards` |
| `SupportDiscovery` | the discovery of the support group by group, which `MeasurementShards` takes as one step |
| `TemporalBuild` | activation and preparation of the temporal operator, on top of `MeasurementShards` |
| `StagedBuild` | abstract specification of a construction in stages |
| `TemporalBuild_proofs` | theorems about `TemporalBuild` |
| `BlockOperatorCache` | retention and eviction of block operators under batches |
| `RoutingExecutor` | the persistent routing executor and its adapter |
| `ConstructionReporter` | the delivery of progress events |
| `Services_proofs` | theorems about the cache, the executor, the reporter and `SupportDiscovery` |
| `InductionLemmas` | induction over intervals and finite sets, and sums, for the proof modules |
| `MC...` | instances for TLC |

Definitions prefixed by a comment "Mutant" are plausible errors in the definition
that follows them. No specification uses them; each property is known to fail
when one of them takes the place of its original (`mutants` in `PROJECT.json`).

### ConflictColoring and BlockSchedule

`support` (rows per block) and `couplings` are inputs, chosen in `Init`.
`JoinOwners` is one iteration of the loop over blocks that joins each block to
the earlier owners of its rows; `AddCouplings` the loop over declared couplings;
`TryNextColor` and `AssignColor` the `while` and the `append` of first fit.
`phase` is the program counter. `BlockSchedule` defines the colouring a second
time, as a recursive function over the conflict relation; `AgreesWithReference`
checks the loops against it, and the estimator's instances take their schedules
from it.

### BlockEstimator

One process at a time works on a directory. `pc` names what it is about to do:

| `pc` | code | actions |
|---|---|---|
| `down` | no process | `StartFresh`, `Resume` |
| `replay` | `load` | `ReplayNext`, `ReplayRejects`, `ReplayDone` |
| `loop` | top of the `while` in `run` | `StopBySweepBudget`, `StopByDeadline`, `StopByUpdateBudget`, `MissingBatchSize`, `StopInConstruction`, `NumericalFailure`, `SolveBatch` |
| `journal`, `commit`, `ack` | `append_accepted_update` | `WriteJournal`, `WriteCommit`, `Acknowledge` |
| `compact`, `unlink` | `compact` of the store | `SkipCompact`, `WriteCompact`, `UnlinkNext`, `UnlinkDone` |
| `report` | event, callback, reasons to stop | `StopAfterBatch`, `StopAfterSweep`, `Continue` |
| `finish` | after the loop | `WriteCompact`, `Return` |

`Interrupt` and `Crash` may happen between any two of these. The numerical
content is abstracted to what recovery can confuse: a flow is the number of
accepted updates of each block, a prediction the number of deltas added for each
block, an objective a level together with the flow it was evaluated at. With
correct code these always agree; every way of mixing parts of two states makes
them differ. Which blocks of a batch are accepted, the new level (it may rise by
the acceptance tolerance, `Slack`), convergence, callback requests, the clock and
numerical failures are nondeterministic. `Batch` is cut to the remaining update
budget as in the code, and `BatchSizes` has entries only where batches start, so
the `KeyError` of a missing one is an action (`MissingBatchSize`).

`BlockRecovery` states what a restart would find. `Replays` is the loop of `load`: the
state after each record from the compact checkpoint on, `None` once a record
does not fit; `Loaded` is the last of them, taken at the end of the committed run of
the journal. `Replays` is a recursive function and not a RECURSIVE operator, so that
a proof may use it.

`DurableProgress` is what a caller may rely on: memory runs ahead, `saved` is what
a restart recovers, one file replacement saves everything or nothing, nothing is
announced (`checkpoint_committed`) before it is saved, `saved` never goes back
below what was announced. `ImplementsDurableProgress` maps `saved` to
`Loaded.acc`, so the journal, the markers, the compact checkpoint and every unlink
are steps or stutters of it: writing a commit marker is `Save`, writing the
journal file is a stutter, and so is each unlink of a record older than the
compact checkpoint.

### SupportPreflight

`work` holds the three lists the code appends to; `AppendBlock`,
`AppendDestination` and `AppendCompleted` are separate steps because a crash or an
exception may come between them: `KeyboardInterrupt` at any of them (`Interrupt`), an
exception of `resource_observer` before the destination summary (`OtherFailure`). What
is recorded of the group is then written to the checkpoint, and a resume records the
group again. `cuts` is a history variable: the number of recordings cut short like
this. `StopInsideChunk` leaves the chunk loop and the
group loop (`break` and the test after it) and discards the group. `Return` is
the `finally` clause: whether the checkpoint is written depends on the status and
on `retain_partial_results`. `status` starts as `completed`, as in the code, and
`PeriodicPersist` records it as it is. `Resumable` is `_validate_resume_policy`.
`Authorized` is `authorize_block_coordinate_pilot`.

A block has one size, which stands for its rows, nonzeros and bytes; the policy
has one limit, which stands for the three. The retained summaries are counted.
Clock and resident memory are readings that may or may not exceed the budget.

### RoutingPreparation

`step` is the coordinator's: `scan`, `admit`, `compile`, `dispatch`, `wait`,
`collect`, `publish`, `finish`, and `drain` while an exception leaves the `with`
statement of the pool. `worker[s]` is the future of shard `s`: `queued`,
`running`, `saved` (its file is on disk), `done`, `failed`, `cancelled`. `active`,
`buffered`, `completed`, `failed` and `Queued` are the five counts of a progress
event. `MemoryGuardWaits`, `MemoryGuardStops` and `DeadlineGuardStops` are the
guards in the inner loop, in the code's order: the cache guard counts `completed`
and `active`. `files` and `manifest` are the disk; `unsynced` holds the files
that a power loss may damage when `durable_progress` is off. `Crash` kills the
process and, with the machine, damages any of them: a damaged shard is `corrupt`, which
the scan quarantines, or `torn`, an archive that cannot be opened, at which the scan
raises (`ScanFails`) unless the policy is to refresh.

### MeasurementShards

One call of `prepare_sharded_fixed_routing_measurement_operator` after the other
works on a directory. `files[s]` is the setting (kernel version and packing limits)
under which shard file `s` validates, `None` if there is none or its reader treats it
as absent (it expects `KeyError`, `OSError` and `ValueError`), or `Torn` if opening it
raises `BadZipFile` or `EOFError`, which nothing catches. `manifest` is the file or
`None`, `support` the support checkpoint, `groups` whether there are group fragments
of the discovery and whether one of them is torn.

| `pc` | code | actions |
|---|---|---|
| `open` | a complete manifest is validated | `OpenComplete`, `OpenPartial`, `OpenTorn`, `PreflightFails` |
| `support` | support checkpoint, or discovery | `SaveGroup`, `Support`, `SupportFails` |
| `plan` | audit, plan, first manifest | `Plan`, `PreflightFails` |
| `scan` | recovery scan | `Scan`, `ScanTorn` |
| `dispatch` | inner `while` | `Submit`, `RefuseDispatch`, `NoRoom` |
| `wait` | `wait` and the loop over finished futures | `WaitExpired`, `Collect` |
| `publish`, `checkpoint` | `publish`, `checkpoint_manifest` | `Publish`, `CheckpointManifest`, `EndPublish` |
| `leave` | end of the pool and what follows | `Return` |

`reused` and `completed` are the shards found valid and those valid now;
`worker`, `buffered` and `dispatched` the futures, the reorder buffer and the
submitted prefix of the missing shards. `Publish` replaces a file and
`CheckpointManifest` the manifest in separate steps, since a crash may come between.
A failing future ends the loop over the finished ones (`Collect`), so the results
after it are lost, as in the code. `deadline` is `none`, `ahead` or `passed`.
`may_start` asks for a margin, so it may refuse while the deadline is ahead; with
the default margin of zero it never refuses, not even after the deadline, because
the remaining time is cut at zero. The model therefore lets those steps go on and
stops only where the code asks `expired` or has a predicted duration.

The environment starts calls, changes the release, lets the deadline pass, damages
files between calls (each may be lost, be refused by its reader, or be torn), and kills
the process. A call that opens a torn file ends as `torn`, and so does each one after it.

### SupportDiscovery

The detail of the steps `SaveGroup`, `Support` and `SupportFails` of
`MeasurementShards`: one call after the other
discovers the support in one directory. `raw[g]` and `compact[g]` are the release
under which the two files of group `g` validate, or how they are damaged; `index`
is `support_manifest.json`.

| `phase` | code | actions |
|---|---|---|
| `open` | the index of an earlier call | `StopBeforeSupport`, `UseIndex`, `RefuseIndex`, `Discover` |
| `probe` | first loop of `_analyze_parallel_support` | `ProbeGroup`, `ProbeFails` |
| `submit` | `submit_available` | `SubmitGroup`, `RefuseSubmission`, `EndSubmission` |
| `group` | top of the loop over groups, with one worker | `RefuseGroup`, `OpenFragment`, `GroupFails`, `EndGroups` |
| `group` | the same, with a pool | `TakeCached`, `TakeFuture`, `FutureFails`, `FutureExpires`, `GroupFails`, `EndGroups` |
| `compute` | the chunks of origins of one group, in the calling thread | `StopInGroup`, `ComputeGroup` |
| `save` | `_save_group_checkpoint` | `SaveFragment` |
| `consume` | `consume_compact_group` | `ExceedCeiling`, `QuarantinePayload`, `ConsumeGroup` |
| `leave` | `shutdown` of the pool | `LeaveGroups` |
| `publish` | `_save_support_checkpoint` | `PublishIndex` |

`thread[g]` is the future of group `g` in `pending`; `sent` are the groups before
`next_missing`. Durations are abstracted to whether the mean of the last three is
zero, which it is when all of them were cached: then `may_start` refuses nothing
under the default margin (`NothingPredicted`). The number of entries of a group is
a constant, since it is computed from the inputs.

### TemporalBuild and StagedBuild

`TemporalBuild` extends `MeasurementShards`: its steps in stage `shards` are the
builder's steps (`BuildShards`), so the two programs are composed step by step.

| `stage` | code | actions |
|---|---|---|
| `look` | `activate_...`: look-up, quarantine | `LookUp`, `PreflightRefuses`, `Repair` |
| `routing`, `routed` | routing preparation | `Unjustified`, `StopRouting`, `PrepareRouting`, `RoutingFails`, `RoutingUnaffordable`, `Routed` |
| `prepare`, `discard`, `call` | `prepare_...`: policy, reuse, call of the builder | `MoveCheckpoints`, `MoveArtifact`, `Reuse`, `CallBuilder` |
| `shards` | the builder | `BuildShards`, `ShardsReturn` |
| `assemble` | `_finalize_temporal_blocks`, `save_temporal_block_operator` | `ReuseFragment`, `FragmentFails`, `BuildFragment`, `StopAssembly`, `SaveArtifact` |
| `hierarchy` | `_publish_direct_hierarchy` | `RemoveDirectory`, `PlaceDirectory`, `Finish` |

`artifact` is the sequence of the settings under which its fragments were made:
that is what decides which tasks it contains. `condition` says whether its files are
sound, do not validate (the readers quarantine or refuse), or hold an array that cannot
be opened. The same three cases exist for the temporal fragments, the routing shards
(`routing`) and `routing.npz` (`npzTorn`, which an activation without a routing
configuration opens). `hierarchy` is the set of complete
directories among those of the layers and their checkpoints; replacing one is
two steps, because the old directory is removed before the new one is in place.
`StagedBuild` is what a user of the construction may rely on: a stage grows only
when the one before is complete, and an operator is served only when all of it is
announced; anything may be withdrawn. `ImplementsStagedBuild` maps the valid
shards, the fragments, a loadable artifact and the layers to its variables.

### BlockOperatorCache, RoutingExecutor, ConstructionReporter

`BlockOperatorCache`: `retained` is `_retained` from the oldest entry to the newest;
`Hit`, `Miss` and `Retain` are the three parts of `get` between which the cache's
lock is free, `broken` the handles a batch holds that an eviction has released.

`RoutingExecutor`: `jobs` are the futures of the product in progress, `orphans` the
threads that still run batches of a product that failed, `evaluations`
`_retained_evaluations`. `Forward` is the callback that first releases what an
earlier forward product retained.

`ConstructionReporter`: `queue` counts `_sink_queue`; `owed[t]` is, for an emitting
thread, the number of events enqueued before its emission began that the sink has
not finished. `lock` is `_emit_lock`.

## 3. What the runs show

| run | instance | distinct states |
|---|---|---|
| `estimator_recovery` | 3 blocks, 1 sweep, 3 invocations, 2 crashes, 1 interrupt, journaled | 293,999 |
| `estimator_sweeps` | 3 blocks, 2 sweeps, 3 invocations, 1 crash, with and without journal | 980,533 |
| `estimation_setup` | 4 blocks, 2 rows, all support patterns, up to 2 couplings; 3 groups, 3 blocks, 2 policies, 3 invocations, 1 interrupt, 1 failure, 1 crash; 3 shards, 2 threads, 2 invocations, two of a failure, an interrupt and a crash | 678,738 |
| `construction` | 3 shards, 2 workers, 2 releases with one packing, 1 change of release or damaged file, any number of attempts and crashes; 3 groups with 1, 2 and 1 entries, ceilings 2 and 4, 1 or 2 support workers; 4 blocks in a cache of 2; 3 batches, 2 threads, 3 forward products; 2 emitters, a queue of 2 | 660,440 |
| `commit_interrupted`, `limits_extended`, `pending_block`, `preflight_pilot`, `preflight_interrupted`, `routing_cache_budget`, `repacked_fragments`, `torn_files` | small instances | violations, section 6 |

Why the bounds are enough to meet the interesting cases:

- *Four blocks, two rows* give every graph in which a colour is skipped, a middle
  colour is free, or a coupling joins blocks of different rows. Every assignment
  of rows is an initial state. A row joins all its blocks, so two rows and at most two
  coupled pairs already give every graph on four blocks; more couplings would only give
  the same graphs again. Couplings are given as increasing pairs in the instance; the
  proofs cover any number and any orientation.
- *Three blocks, of which the first and third do not conflict,* give a batch of
  two and a batch of one in interleaved order. With compaction every two accepted
  updates, a chain of records across a compaction occurs inside one sweep. Two
  sweeps give a rollover of the schedule before, at and after a resume. Three
  invocations and two crashes allow a crash while the files of an earlier crash
  are being cleaned up. Two levels are enough for an improvement after a rise.
- *Three groups*: one of one chunk with a block above the limit of one of the
  policies, one with two chunks and two blocks (so that a stop inside a group leaves
  something behind), one without a block. The two policies differ in cadence, retention
  and both limits. Three invocations with an interrupt and a failure allow a recording
  to be cut, resumed, cut again and completed, under the other policy each time. The
  structural mode, which records no blocks, runs with the full selection only.
- *Three shards, two threads*: a completion out of order, a gap filled by a cache
  hit, and a queued shard while one fails. The second invocation starts from any
  disk the first can leave. Of a failing worker, an interrupt and a crash, any two
  happen: one in each invocation, or two in the first, after which the second still
  has the directory that results. The cache budget is larger than the plan: the guard on
  resident memory takes the same branches at any moment, and `routing_cache_budget`
  has the small budget.

- *One construction.* Three shards with two workers and room for two results give
  a result that waits in the buffer for a slower shard, a shard that waits for room,
  and a gap filled by a reused file; a manifest after every two shards lags behind
  by one. Attempts are not bounded: crashes, stops and retries happen in any number
  and order, only changes of release and damage are counted (`MaxChanges`), and one
  of them is enough to meet a manifest, a fragment or an artifact that does not
  fit the rest, or a torn file of any kind, in every attempt after it. One layer has two directories, its checkpoint and its manifest.
- *Support.* With three groups and two threads a result waits behind the head of the
  line, cached groups lie before, between and after missing ones, and a group is
  submitted after another was consumed. The smaller ceiling is exceeded at the
  second group, the larger never. One change of release or damaged file
  (`MaxMishaps`), any number of calls and crashes. The releases are symmetric, so the
  first is the initial one.
- *Services.* Three small blocks and one above the byte budget, in a cache of two
  blocks, meet both limits and the handle that alone exceeds one; two threads and
  three batches leave a queued batch behind a running one; two emitters contend
  for the lock while the sink has an event in hand.

Two runs check several programs beside each other: the initial state says which of them
runs (`part`), so the states add up instead of multiplying. In `estimation_setup` they
are the colouring, the preflight and the routing preparation, which share no state: they
come before an estimation, each on its own. In `construction` they are the temporal
builder, the discovery of its support and each of the three services. The services
share no state with the builder. The discovery does, through its fragments and its
index, which the builder knows as `groups` and `support`: a fragment it saves is
`SaveGroup`, its result `complete` is `Support`, a stop is `StopEarly`, and every other
end is `SupportFails`. That action has three disjuncts: a torn fragment in `groups`
(`ProbeFails`, `GroupFails` on a fragment that cannot be opened), routing shards that
cannot be read, and, whatever is on disk, `failed` (a group or a thread that raises,
`GroupFails`, `FutureFails`, and `ExceedCeiling`).

Runs with `CHECK_DEADLOCK FALSE` model programs that stop: the colouring ends, and
no invocation starts once the bound on invocations is reached.

### Interrupt points

In the passing runs `KeyboardInterrupt` reaches the estimator at every point of
its loop except between the replacement of the commit marker and the assignment
of `journal_sequence`; that point is the run `commit_interrupted`. In the
preflight it reaches every point, also between the appends that record one group:
these are a loop over the blocks with readings of the clock and of memory in it, not an
instant. `CheckpointIsWhole` says what a checkpoint holds then, and the run
`preflight_interrupted` refutes the stronger statement of the documentation. The
theorems about the estimator that need the exclusion have it as a hypothesis. Its
`InterruptPoints` is a constant, so what holds without the hypothesis is proved for
interrupts at every point.

### Fairness

- `ConflictColoring`: weak fairness of the whole loop; a sequential program runs.
- `BlockEstimator`, `SupportPreflight`: weak fairness of `Process`, the steps of a
  running process. Starting, resuming, interrupting and crashing are not fair:
  nobody has to do them. No choice inside `Process` is fair, so the properties do
  not depend on convergence, on acceptance or on the deadline passing.
- `RoutingPreparation`: weak fairness of the coordinator and of each worker thread
  separately, since the operating system runs each of them. Failing is not fair.
- `TemporalBuild`: weak fairness of `Progress`, the steps of a running attempt, and
  of the threads of the pool, which the coordinator polls for (`wait` with a
  timeout), so that polling alone must not count as progress. Attempts, crashes,
  damage and the passing of the deadline are not fair.
- `RoutingExecutor`: weak fairness of the pool: its threads run and a batch ends,
  with a result or an exception. Products need not be asked for.

## 4. What is proved

TLAPS proves, for every value of the constants that satisfies the named
assumptions:

| theorem | statement | assumptions |
|---|---|---|
| `ColoringTypes` | `ColoringSpec => []ColoringTypeOK` | `NumBlocksAssumption` |
| `GraphIsExact` | `ColoringSpec => []AdjacencyExact` | `NumBlocksAssumption` |
| `BatchesAreConflictFree` | `ColoringSpec => []BatchesConflictFree` | `NumBlocksAssumption` |
| `BatchesAreNonempty` | `ColoringSpec => []NoEmptyBatch` | `NumBlocksAssumption` |
| `LoopsComputeColors` | `ColoringSpec => []AgreesWithReference` | `NumBlocksAssumption` |
| `EstimatorTypes` | `Spec => []TypeOK` | `ConstantsAssumption`, `ConfigsAssumption` |
| `AttemptsAreAccounted` | `Spec => []AttemptsAccounted` | `ConstantsAssumption`, `ConfigsAssumption` |
| `StatesAreConsistent` | `Spec => []StateConsistent` | the same, `SchedulesAssumption`, no interrupt at `ack` |
| `SweepsUpdateOnce` | `Spec => []OncePerSweep` | the same |
| `CheckpointsAreLoadable` | `Spec => []CheckpointLoadable` | the same |
| `ResultsAreResumable` | `Spec => []ResultIsResumable` | the same |
| `ProgressIsDurable` | `Spec => ImplementsDurableProgress` | the same |
| `AnnouncedSurvives` | `Spec => []Durable!Promise` | the same |
| `PreflightTypeCorrect` | `Spec => []TypeOK` | `PreflightAssumption` |
| `ResumeKeepsProgress` | `Spec => ProgressKept` | `PreflightAssumption` |
| `UnsafeBlocksAreMarked` | `Spec => []UnsafeBlocksMarked` | `PreflightAssumption` |
| `OvershootIsBounded` | `Spec => []RetainedOvershootBounded` | `PreflightAssumption` |
| `PartialResultIsOnDisk` | `Spec => []PartialResultOnDisk` | `PreflightAssumption` |
| `CheckpointStaysWhole` | `Spec => []CheckpointIsWhole` | `PreflightAssumption` |
| `CompletionIsComplete` (preflight) | `Spec => []CompletedIsComplete` | `PreflightAssumption` |
| `PreparationTypes` | `PreparationSpec => []PreparationTypeOK` | `RoutingAssumption` |
| `AccountingIsExact` | `PreparationSpec => []AccountingExact` | `RoutingAssumption` |
| `ManifestIsOnDisk` | `PreparationSpec => []ManifestOnDisk` | `RoutingAssumption` |
| `PublicationInOrder` | `PreparationSpec => []PublishedInOrder` | `RoutingAssumption` |
| `CompletionIsComplete` (routing) | `PreparationSpec => []CompletedIsPrepared` | `RoutingAssumption` |
| `ThreadsEndFirst` | `PreparationSpec => []NoThreadOutlivesInvocation` | `RoutingAssumption` |
| `ValidShardsAreKept` | `PreparationSpec => NoRecomputation` | `RoutingAssumption` |
| `NeverRebuilds` | `Spec => []NothingIsRebuilt` | `ShardsAssumption` |
| `OutcomesAreWhole` | `Spec => []CompleteIsWhole /\ []DeadlineLosesNothing` | `ShardsAssumption` |
| `ManifestsAreHonest` | `Spec => ManifestWritesAreHonest` | `ShardsAssumption` |
| `StopsNeedDeadline` | `Spec => [](deadline = "none" => result # "stopped")` | `ShardsAssumption` |
| `TornIsFound` | `Spec => []TornIsThere`: a call ends as `torn` only while a torn file is there | `ShardsAssumption` |
| `ConstructionRunsBuilder` | `BuildSpec => Spec` (of the shard builder) | `ShardsAssumption`, `LayersAssumption` |
| `ConstructionsKeepTheirWork` | the three properties of the builder, for `BuildSpec` | the same |
| `SupportIsKept` | `DiscoverySpec => []SupportLosesNothing` | `DiscoveryAssumption` |
| `HeadIsFound` | `DiscoverySpec => []HeadIsPending` | `DiscoveryAssumption` |
| `NothingIsRepeated` | `DiscoverySpec => []NoGroupIsRepeated` | `DiscoveryAssumption` |
| `IndexIsWritten` | `DiscoverySpec => IndexIsHonest` | `DiscoveryAssumption` |
| `OperatorsAreExact` | `BuildSpec => []OperatorIsExact` | `ShardsAssumption`, `LayersAssumption`, `OnePacking`, `Partition` |
| `ConstructionIsStaged` | `BuildSpec => ImplementsStagedBuild` | `ShardsAssumption`, `LayersAssumption`, `OnePacking` |
| `UndisturbedEndsWell` | `BuildSpec => []UndisturbedSucceeds` | `ShardsAssumption`, `LayersAssumption` |
| `HandlesAreUsable` | `CacheSpec => []HeldHandlesAreUsable` | `CacheAssumption` |
| `LatestIsRetained` | `ExecSpec => []OnlyTheLatestIsRetained` | none |
| `BoundariesFollow` | `ReporterSpec => []BoundaryFollowsQueue` | `ReporterAssumption` |

The theorems about a component are in the module of its name with `_proofs`, those
about the cache, the executor, the reporter and the discovery in `Services_proofs`.
The properties that the passing runs check are all proved but for the five of
section 5. The types of the colouring, and of the modules that state no `TypeOK` of their own, are
part of the inductive invariants in the proof modules; the runs do not repeat them.

*Colouring.* The properties speak of the finished graph and of final colours, so
they are not inductive. `IInv` adds: while rows are scanned, adjacency and owners
are exact on the blocks before `index` (`GraphSoFar`); once scanned, the graph is
exact for shared rows (`GraphScanned`); nothing is coloured before; and every
colour below the candidate is unavailable (`CandidateIsLeast`), which is what makes
first fit leave no gap: a colour that is unavailable is the colour of an earlier
neighbour. Conflict-freedom then follows from exactness of the graph, because a
block takes a colour none of its earlier neighbours has. `AgreesWithReference` needs one
more invariant, `FirstFit`: the colours of the blocks before `index` solve the
equation of first fit (`Fit`). The reference is a recursive function, of which
TLAPS knows only that it satisfies its equation if anything does. So the proof gives a
solution, the colours that the loop ends with (`ColorsSolve`), and shows by
induction over the blocks that there is no other (`OneSolution`).

*Estimator.* `IInv` is `TypeOK /\ AttemptsAccounted`. It is inductive because it
speaks of the disk as well as of the memory: a resume takes a state from the
compact checkpoint, a replay takes counters from a journal record, and a crash
leaves any prefix of the writes. Types need the accounting (a rollover happens
only at the end of a schedule) and the accounting needs the types (positions are
at most `NumBlocks`; `PlannedBatch` shows that a batch never goes beyond it, from
`ConfigsAssumption`). The two theorems cover crashes at every step, interrupts at any
set of points, and any number of invocations: the bounds are constants.

*Recovery.* The other properties of the estimator follow from `RecoveryInv`, on top of
`IInv`. `DiskIntact` says that the records from the compact checkpoint to the end of
the committed run form a `Chain`: each is committed as it was written, fits the state
before it, and leads to a state whose parts belong together and in which no block is
ahead of its sweep (`Sound`); and there is no marker beyond the end. A chain determines what
`load` finds (`ChainRecovers`: the chain's states solve the recursive equation of
`Replays`, and only they do), so each write is an argument on chains: a record without
its marker changes nothing, a marker makes the chain longer by one, a compact
checkpoint makes it empty, an unlink of older records leaves it alone.
`MemoryFollows` relates memory to that, for each `pc`: in the loop, with a journal, they
differ only by rejected batches (`SameProgress`), so that the next record fits although
the position on disk is behind; between the record and the marker, memory is what the
record leads to. The step that rules out an interrupt at `ack` is the final
compaction: there `seq` is one behind the end of the chain, and a compact
checkpoint written under it has a record that does not fit. That is not an
artefact of the proof but finding 1 (`commit_interrupted`), hence the hypothesis
`"ack" \notin InterruptPoints`. (The run for `OncePerSweep` does have interrupts
there; the theorem does not cover them.) `SchedulesAssumption`, that a drawn schedule
has no block twice, is what `_schedule` makes: a range, a permutation, or the
concatenation of disjoint batches. `ProgressIsDurable` shows step by step that memory, the
chain and the announcements move as `DurableProgress` allows.

*Preflight.* Four invariants on top of each other, all with interrupts and failures at
every point. `OrderInv`: what is completed is a prefix of the selection, what is pending
is the rest of it (a recursive filter, shown equal to a suffix by induction), a
checkpoint on disk is behind memory in the same order, and the status is `completed` at
the end only if every group is. `BudgetInv`: what is retained exceeds the limit by at
most the group in progress, a partial result is the checkpoint, and a block above the
limit of its policy is marked, in memory and on disk, across changes of policy:
`Resumable` admits a policy only if no block of the checkpoint exceeds it. `CoverInv`: the
summaries are those of the completed groups and of the next one, in the order of the
selection, and the last ones of a completed group are its own, whole and in order;
what comes before them repeats a part of them, left by a recording that was cut short,
and there is at most one destination more than groups for each cut. It is inductive
because a group that was cut is the next one of the selection, so a resume begins with it
and appends all of it after the part. `ExactInv` holds as long as nothing was cut: the
summaries are those of an uninterrupted run over the same groups, as a recursive
reference defines them, or, between the appends that record one group, what they lack is
still in the queue. A cut ends the second for good (`cuts` only grows), and that is what
the code does, not a gap of the proof: `preflight_interrupted` has a cut and a completed
run that differs from the uninterrupted one. `CheckpointIsWhole` joins the two.

*Preparation.* None of the properties is inductive. `IInv` adds five parts.
`Partition`: the sets a progress event counts are disjoint and, but for failed
shards, cover the plan; the accounting follows by moving one shard at a time.
`Threads`: a future that is not idle belongs to `active`, except while an exception
drains the pool; the pool is empty when the process is down. `Order`: `nextEmit` is
the first shard not published, dispatch ends normally only with an empty queue,
and the loop ends only with no active future; a completed result is then complete
because a shard that is not published would be `nextEmit` itself, and buffered.
`Disk`: whatever is buffered or completed has a valid file until files that were not
synchronised are damaged, which only happens when the process goes down. `Fresh`:
what is queued, or runs, has no valid file when the cache is reused.
`SmallestIsLeast`, which `nextEmit` and the dispatch rest on, is proved from the
well-foundedness of inclusion on finite sets.

*Shard builder.* `IInv` joins five parts. `NotPooling`: before the pool nothing is in
it. `FilesMatch`: from the scan on, the files that validate are exactly the
completed shards, and the manifest carries the setting in force; this is what makes
a manifest honest and a rebuild impossible. `Placed`: a missing shard is queued,
active, buffered or completed, and only one of them, except for the results lost
after a failure. `Ordered`: what is dispatched comes first among the missing, and
the buffer holds nothing publishable when the builder dispatches or waits; so when
the loop ends without a failure and without an active future, the buffer is empty:
the smallest shard dispatched and not published would be publishable. That is
`DeadlineLosesNothing`, for any number of workers and shards. `Outcome`: what was
returned stays true until the next step of the environment.

*Construction.* `ConstructionRunsBuilder` shows that each step of `TemporalBuild`
is a step of the builder or a stutter, so the builder's theorems carry over.
`BuildIInv` adds that the builder runs only in its stage, that what is merged is a
prefix of the fragments on disk (`MergedOnDisk`), and that the directories before
`writing` are in place while the layers are written, after the artifact
(`ArtifactInTurn`). `OnePacking` (releases pack alike) is needed: without it the
statement is false, and `repacked_fragments` is its counterexample. `Partition`
says that a packing contains each task once, which is what `_stream_pack_storage_shards`
makes. The refinement is proved by one lemma for each group of steps: those that add
a shard, a fragment, the artifact, a layer, those that serve, and the quiet ones.

`UndisturbedEndsWell` needs no assumption on packings. Its invariant is about what an
activation has arranged for itself before it hands over (`Prepared`): the routing
exists when the builder is called, and an artifact that would make explicit
preparation refuse has been moved aside, unless it is one that every layer announces. The
remaining endings come from the builder, which reports a stop only under a deadline
(`StopsNeedDeadline`): without one the dispatch goes on until every missing shard is
submitted or a worker fails, because the limits of the pool admit a shard as soon as no
future is active (`EmptyPoolHasRoom`; the buffer is then empty, by `NothingBuffered`).
A torn file ends an activation, and the theorem says which: one that is there
(`TornIsFound`) and that the policy lets the activation open (`MeetsTorn`). For a rebuild
that is a file of the routing only, since `Swept` is invariant: once the checkpoint
directory is moved aside nothing torn is in it, and the builder and the assembly write
nothing that is.

*Support.* `DiscoveryIInv` has, beside types and the state in which a call starts:
`OnDisk`, that the groups before `head` have their two files and, once it is saved,
the head its fragment; `Submitted`, that what was submitted is a prefix of the
groups without a fragment and what is pending was submitted and not yet consumed;
`Absent`, that those groups have no valid fragment. `HeadIsFound` is the argument
behind `pending.pop(group)`: when the loop takes a group the pool is full or has
nothing to submit, so were the head neither cached nor pending, something after it
would be pending (`WaitsForSomething`) although the head, which is smaller, was not
submitted. It needs no fairness and no bound on the workers.

*Cache.* Hits and retentions move a handle to the recent end of `retained`, so the
handles a batch holds are always the most recent entries (`AtEnd`). An eviction
keeps the longest end that fits the two budgets. When the whole batch fits, an end that
begins at a handle of the batch is a part of the batch, so it fits as well
(`FittingEndIsKept`, from monotonicity of sums over finite sets), and no handle in
use is dropped. `looking` is disjoint from what is retained, since a block is looked up
only after a miss; that keeps entries distinct.

*Executor.* What is retained is the arrays of the latest forward product, and they
are known as pending or belong to the reverse product in progress; the next
forward product releases the first case, the end of the reverse the second.

*Reporter.* An emitter's `owed` is at most the number of unfinished events, and
`Queue.join` returns when there are none; whatever finishes later was enqueued
later.

*Induction.* The library's induction theorems take an operator as a parameter, which
the installed provers cannot instantiate. `InductionLemmas` states them of sets: a set with the
first number of an interval, and with each number whose predecessor it has, contains the
interval (`IntervalInduction`, `UpwardInduction`); a set with each subset of a finite set
all of whose smaller subsets it has, contains them all (`SubsetInduction`). From
these follow the existence, recursion and monotonicity of finite sums. Each recursive function (`Replays`, the reference colouring, the
preflight's reference and its pending groups) is treated in the same way: some function
satisfies its equation, hence the function does; what is needed of its values follows by
induction.

## 5. What is only model-checked

- Liveness (`ColoringTerminates`, `InvocationEnds`, `PreparationEnds`,
  `EveryAttemptEnds`, `EveryProductEnds`): it rests on fairness and so on ENABLED, which
  the prover does not reach. These are the only properties of passing runs without a
  theorem.
- `OncePerSweep` with an interrupt at `ack`, which `estimator_sweeps` allows: the theorem
  excludes it, since its argument needs a directory that loads.
- `DurableProgress` has no liveness part, so its refinement is proved in full;
  whether an update that was decided is saved in the end is not stated.
- The runs of section 6 refute statements on small instances; nothing is proved of the
  other instances.

The assumptions on constants are evaluated by TLC on each instance.

## 6. Disagreements between the code and what is said of it

Each is a run that TLC ends with a counterexample; `findings` in `PROJECT.json`
quotes the statement.

1. *An interrupt inside the commit of an update makes the directory unreadable*
   (`commit_interrupted`). The marker becomes visible before `journal_sequence` is
   assigned (`checkpoint_store.py:217`). The handler's final `compact` writes the
   state after the update under the old sequence number and keeps the record; every
   later `load` finds a committed record that does not fit and raises.
2. *An interleaved run cut by `maximum_block_updates` cannot be extended*
   (`limits_extended`). The run stops inside a colour batch; resumed with a larger
   limit it looks up a batch size at a position where no batch starts
   (`estimator.py:569`).
3. *A run stopped by the deadline during construction may return a position that a
   resume does not start from* (`pending_block`). The final checkpoint is skipped
   (`estimator.py:617`), so a block rejected before the pending one is not on disk.
4. *A killed preflight leaves a checkpoint that authorizes a pilot*
   (`preflight_pilot`). Periodic checkpoints carry the status `completed`
   (`support_preflight.py:674`).
5. *The cache may exceed `maximum_cache_bytes`* (`routing_cache_budget`). The guard
   does not count results in the reorder buffer (`sharded_fixed_routing.py:1978`).

6. *Fragments survive a change of packing* (`repacked_fragments`). A temporal fragment
   is found by the number of its shard (`direct_scheduled_temporal_builder.py:611`).
   An assembly interrupted under one packing and repeated under another merges
   fragments of both: tasks are missing or counted twice, and the artifact is
   published as if it were exact.
7. *An interrupt while a group is recorded changes the summaries of the resumed run*
   (`preflight_interrupted`). The handler keeps what was appended of the group
   (`support_preflight.py:945`, the appends at 912-922), the `finally` clause writes it,
   and the resume appends the group again, whereas
   `docs/source/streaming_support_preflight_report.md` says "Interrupt plus resume produces
   the same ordered deterministic summaries as an uninterrupted run". `CheckpointIsWhole` says what is still true.
8. *A torn file is neither quarantined nor recomputed* (`torn_files`). `numpy.load` of an
   archive that is cut short raises `zipfile.BadZipFile`, and of an empty file `EOFError`;
   the loaders of support fragments (`fixed_routing_origin_support.py:464`, `:549`), of
   measurement shards (`fixed_routing_sharded_builder.py:2559`, `:2854`), of temporal
   fragments and of `routing.npz` (`direct_scheduled_temporal_builder.py:1817`, `:2855`)
   and of routing shards (`sharded_fixed_routing.py:905`) catch only `KeyError`, `OSError`,
   `ValueError` and, some of them, `JSONDecodeError`. The call ends with the exception,
   and so does every later one that opens the file, whereas
   `docs/reports/direct_scheduled_construction_deadline_audit.md:48-49` says "corrupt or
   incompatible fragments are quarantined and recomputed". The reader of the compact payloads
   converts both (`fixed_routing_sharded_builder.py:846`). `UndisturbedSucceeds` says
   which activations are spared: those whose policy does not open the file, such as a
   rebuild, which moves all but the routing aside first.

The following were met in modelling and have no run of their own; where the model
excludes one from a property, the property says so.

- *A rebuild throws away the routing it has just prepared.* With a routing preparation
  configuration and `force_rebuild`, activation completes the routing shards below the
  checkpoint directory and then moves that directory away
  (`direct_scheduled_temporal_builder.py:2150`); the support discovery that reads those
  shards then fails. `UndisturbedSucceeds` excludes this combination.
- *An artifact that does not load, although all layers announce it,* is neither
  quarantined (`direct_scheduled_temporal_builder.py:2801` looks at the hierarchy only)
  nor replaced: activation with `build_or_reuse` is refused until a rebuild. The second
  exception in `UndisturbedSucceeds`.
- *A crash between the artifact and its last layer* makes explicit preparation
  (`reuse_or_build`) refuse until a rebuild, whereas activation repairs it.
- *The default safety margin is zero,* and `may_start` compares it with a remaining time
  that is never negative (`construction_control.py:305`): after the deadline the checks
  before the support, the scan, the assembly and the artifact grant every start. Only
  the checks of `expired` stop. `docs/source/bounded_scheduled_operator_construction.md:10`
  gives the margin the purpose of preventing a new unit of work.
- *A deadline that passes while the last piece is published* is reported as a stop
  although everything is on disk (`fixed_routing_sharded_builder.py:3324`,
  `direct_scheduled_temporal_builder.py:2417`); the next call finds it complete.
- *A complete routing preparation may be returned as stopped by memory* because the guards
  run before the test that all shards are submitted (`sharded_fixed_routing.py:1963`);
  activation turns that into `MemoryError` (`RoutingUnaffordable`).
- *`next_resumable_position`* is the number of completed shards, not the first missing
  one (`direct_scheduled_temporal_builder.py:3022`).
- *With several support workers more than one group is repeated.* When the call ends, what
  the threads ahead of the head have finished is dropped (`LeaveGroups`), whereas lines
  50-52 of the same report say that only the unfinished chunk or group can be repeated. A
  refused submission also announces as `next_resumable_position` the first group not
  submitted, behind the groups in flight that are lost
  (`fixed_routing_origin_support.py:590`).
- *The progress of the batched routing strategy* counts a failed batch twice, as failed and
  as active (`sharded_fixed_routing.py:2262-2287`, `:2448-2462`): with progress enabled the
  event that announces the failure raises `RuntimeError` in its place, and the manifest
  with the status of the failure is not written. Read, not modelled.
- *A batch larger than `maximum_retained_blocks`* (2 by default) uses handles that were
  released (`block_coordinate/operator_cache.py:378`). `HeldHandlesAreUsable` is about
  batches that fit.
- *An event enqueued between the flush and the lock* of a synchronous event is
  delivered after it (`construction_control.py:1071`), and a full queue drops events of
  every kind (`construction_control.py:879`).

## 7. Not modelled

- *Floating-point content*: objectives, gradients, routing probabilities, sparse
  values, residuals. Every model keeps what control depends on (accepted or not, above
  or below a limit, which tasks) and leaves the value to a nondeterministic choice.
  This is the larger part of the source: the assignment model, the block
  solver, gravity and Bayesian estimation, the audit.
- *Gravity estimation* (`gravity/`): it also writes a checkpoint, but the order of its
  evaluations and callbacks is that of an external optimiser, and what a resume
  could confuse are values of one vector.
- *Domain, scenario, preprocessing, measurement mapping, visualisation*: functions of
  immutable tables, with no state, order or failure to interleave. Their correctness is
  that of table lookups and of formats, for which unit tests are the better tool.
- *Matrix-free operator*: a cache of shards under one lock that is held during each
  product; nothing interleaves.
- Inside the modelled components: the sequential and batched strategies of the routing
  preparation and its heartbeat; support discovery without a checkpoint directory, its
  materialised reference mode, its reuse diagnostics and sampled validation;
  the packed operator cache and constructions without an
  artifact directory; the package revision in the shard provenance; the quarantine of
  old support files; the file cache below the block operators; the planning of batches
  of the routing executor; the authorization of a selected block schedule; interrupts
  inside `SolveBatch`.
