--------------------------- MODULE MeasurementShards ---------------------------
(***************************************************************************)
(* The resumable builder of the sharded measurement operator               *)
(* (fixed_routing_sharded_builder.py,                                      *)
(* prepare_sharded_fixed_routing_measurement_operator).  It discovers the  *)
(* support, packs the tasks in storage shards, keeps the shard files that  *)
(* are valid under the settings in force, constructs the missing ones in a *)
(* thread pool and publishes them in canonical order, with an atomic       *)
(* manifest that may lag behind the files.  The process may die at any     *)
(* step, a worker may fail, a deadline may stop it, and a new release may  *)
(* change the settings: the kernel version or the packing limits.  Files   *)
(* may be damaged between two calls.  A reader of an .npz archive expects  *)
(* OSError, ValueError and KeyError, and treats the file as absent; of an  *)
(* archive that is cut short, empty or fails its CRC, numpy raises         *)
(* BadZipFile or EOFError, which ends the call and every later one.        *)
(***************************************************************************)
EXTENDS Integers, FiniteSets, Sequences

CONSTANTS
  Settings,         \* kernel version and packing limits: what provenance records
  Tasks,            \* tasks of the construction, whatever their packing
  Packing,          \* for every setting, the tasks of its storage shards
  MaxShards,        \* the longest packing
  Workers,          \* config.workers
  MaxResident,      \* config.maximum_resident_shards
  CheckpointEvery,  \* config.manifest_checkpoint_shards
  None,             \* no file, or one that its reader takes for none
  Torn              \* an archive of which numpy raises BadZipFile or EOFError

Numbers == 1 .. MaxShards
Manifests == [setting : Settings, names : SUBSET Numbers]

ASSUME ShardsAssumption ==
  /\ MaxShards \in Nat
  /\ Packing \in [Settings -> Seq(SUBSET Tasks)]
  /\ \A c \in Settings : Len(Packing[c]) \in 1 .. MaxShards
  /\ {Workers, MaxResident, CheckpointEvery} \subseteq Nat \ {0}
  /\ None \notin Settings \cup Manifests /\ Torn \notin Settings \cup {None}

VARIABLES
  setting,     \* the configuration of the running release
  deadline,    \* "none", "ahead" or "passed"
  readable,    \* the routing source handed over can be read
  pc,          \* what the builder is about to do; "idle": it is not running
  reused,      \* shards found valid by the recovery scan
  dispatched,  \* the first submitted shards of those missing
  worker,      \* state of the future of each shard
  buffered,    \* results received and not yet published
  completed,   \* reused and published shards
  stop,        \* stop_dispatch
  late,        \* deadline_reason is set
  failed,      \* worker_error is set
  result,      \* how the last call ended
  support,     \* the support checkpoint is on disk
  groups,      \* group fragments of the support: "none", "sound" or one is "torn"
  files,       \* setting of every valid shard file
  manifest     \* manifest.json, or None

pool == <<reused, dispatched, worker, buffered, completed, stop, late, failed>>
disk == <<support, groups, files, manifest>>
vars == <<setting, deadline, readable, pc, pool, result, disk>>
--------------------------------------------------------------------------------
Shards(c) == 1 .. Len(Packing[c])
Smallest(S) == CHOOSE s \in S : \A t \in S : s <= t

\* The shards load_sparse_shard accepts: their provenance is the one in force.
Valid == {s \in Shards(setting) : files[s] = setting}
Invalid == Shards(setting) \ Valid
TornShards == {s \in Shards(setting) : files[s] = Torn}
Missing == Shards(setting) \ reused
Queued == Missing \ dispatched
Active == {s \in Numbers : worker[s] # "none"}
Running == {s \in Numbers : worker[s] = "running"}
Finished == Active \ Running
Unpublished == Missing \ completed
AdmittedWorkers == Smallest({Workers, MaxResident, Cardinality(Missing)})

Accepted == manifest # None /\ manifest.setting = setting
MarkedComplete == Accepted /\ manifest.names = Shards(setting)

Idle == [s \in Numbers |-> "none"]
EmptyPool ==
  /\ reused' = {} /\ dispatched' = {} /\ worker' = Idle /\ buffered' = {} /\ completed' = {}
  /\ stop' = FALSE /\ late' = FALSE /\ failed' = FALSE

Init ==
  /\ setting \in Settings /\ deadline = "none" /\ readable = TRUE /\ pc = "idle"
  /\ reused = {} /\ dispatched = {} /\ worker = Idle /\ buffered = {} /\ completed = {}
  /\ stop = FALSE /\ late = FALSE /\ failed = FALSE /\ result = "none"
  /\ support = FALSE /\ groups = "none"
  /\ files = [s \in Numbers |-> None] /\ manifest = None

\* Leave with a result, or with ConstructionDeadlineStop or another exception.
Leave(r) == pc' = "idle" /\ result' = r
--------------------------------------------------------------------------------
(* The caller and its environment *)

\* A release with its settings; a deadline for the next call.
Configure ==
  /\ pc = "idle"
  /\ setting' \in Settings /\ deadline' \in {"none", "ahead"}
  /\ readable' = TRUE /\ result' = "none" /\ EmptyPool
  /\ UNCHANGED <<pc, disk>>

Expire ==
  /\ deadline = "ahead" /\ deadline' = "passed"
  /\ UNCHANGED <<setting, readable, pc, pool, result, disk>>

\* The builder is called with a routing source that can be read or not.
Call ==
  /\ pc = "idle" /\ pc' = "open"
  /\ readable' \in BOOLEAN /\ result' = "none" /\ EmptyPool
  /\ UNCHANGED <<setting, deadline, disk>>

\* The caller takes the result; nothing else of the call remains.
TakeResult ==
  /\ pc = "idle" /\ result # "none" /\ EmptyPool
  /\ UNCHANGED <<setting, deadline, readable, pc, result, disk>>

\* A file is lost, no longer validates, or is torn.
Damage ==
  /\ pc = "idle" /\ result = "none"
  /\ \/ /\ \E s \in Numbers : /\ files[s] # None
                              /\ \E f \in {None, Torn} : files' = [files EXCEPT ![s] = f]
        /\ UNCHANGED <<support, groups, manifest>>
     \/ manifest' = None /\ UNCHANGED <<support, groups, files>>
     \/ support' = FALSE /\ UNCHANGED <<groups, files, manifest>>
     \/ groups # "none" /\ groups' \in {"none", "torn"} /\ UNCHANGED <<support, files, manifest>>
  /\ UNCHANGED <<setting, deadline, readable, pc, pool, result>>

\* The caller moves the whole directory aside.
Discard ==
  /\ pc = "idle" /\ result = "none"
  /\ support' = FALSE /\ groups' = "none"
  /\ files' = [s \in Numbers |-> None] /\ manifest' = None
  /\ UNCHANGED <<setting, deadline, readable, pc, pool, result>>

\* The process dies: only what is on disk remains.
Crash ==
  /\ pc' = "idle" /\ deadline' = "none" /\ readable' = TRUE /\ result' = "none" /\ EmptyPool
  /\ UNCHANGED <<setting, disk>>
--------------------------------------------------------------------------------
(* Opening, support, plan and recovery scan *)

\* A check of the deadline fails: the directory stays as it is.  may_start asks
\* for the safety margin in what remains, so it can refuse before the deadline;
\* but a remainder is never negative, so with the default margin of zero it
\* grants even after it.  expired, asked once the support is on disk, does not.
StopEarly ==
  /\ \/ pc \in {"open", "support", "scan"} /\ deadline # "none"
     \/ pc = "plan" /\ deadline = "passed"
  /\ Leave("stopped")
  /\ UNCHANGED <<setting, deadline, readable, pool, disk>>

\* Every shard of a complete manifest still validates.
OpenComplete ==
  /\ pc = "open" /\ MarkedComplete /\ Valid = Shards(setting)
  /\ Leave("complete")
  /\ UNCHANGED <<setting, deadline, readable, pool, disk>>

\* The shards of a complete manifest are validated up to the first that does
\* not load.
TornFirst == MarkedComplete /\ TornShards # {} /\ Smallest(Invalid) \in TornShards

OpenPartial ==
  /\ pc = "open" /\ ~(MarkedComplete /\ Valid = Shards(setting)) /\ ~TornFirst
  /\ pc' = "support"
  /\ UNCHANGED <<setting, deadline, readable, pool, result, disk>>

\* The exception of a torn shard reaches the caller, at every call.
OpenTorn ==
  /\ pc = "open" /\ TornFirst
  /\ Leave("torn")
  /\ UNCHANGED <<setting, deadline, readable, pool, disk>>

\* _discover_support computes a group and saves its fragment.
SaveGroup ==
  /\ pc = "support" /\ ~support /\ readable
  /\ groups = "none" /\ groups' = "sound"
  /\ UNCHANGED <<setting, deadline, readable, pc, pool, result, support, files, manifest>>

\* _load_support_checkpoint, or the end of the discovery, which opens the
\* fragments it finds, and _save_support_checkpoint.
Support ==
  /\ pc = "support" /\ (support \/ (readable /\ groups = "sound"))
  /\ support' = TRUE /\ pc' = "plan"
  /\ UNCHANGED <<setting, deadline, readable, pool, result, groups, files, manifest>>

\* A group cannot be computed or has more entries than the ceiling; the routing
\* shards cannot be read; a torn fragment is not quarantined.
SupportFails ==
  /\ pc = "support" /\ ~support
  /\ \/ Leave("failed")
     \/ ~readable /\ Leave("unreadable")
     \/ groups = "torn" /\ Leave("torn")
  /\ UNCHANGED <<setting, deadline, readable, pool, disk>>

\* The audit of positive boardings, or the operational preflight of the plan,
\* finds the construction unsafe; both also look at a complete directory.
PreflightFails ==
  /\ \/ pc = "plan"
     \/ pc = "open" /\ MarkedComplete /\ Valid = Shards(setting)
  /\ Leave("failed")
  /\ UNCHANGED <<setting, deadline, readable, pool, disk>>

\* The plan is restored from the manifest, or made and saved with no shard.
Plan ==
  /\ pc = "plan"
  /\ manifest' = IF Accepted THEN manifest ELSE [setting |-> setting, names |-> {}]
  /\ IF deadline = "passed" THEN Leave("stopped") ELSE pc' = "scan" /\ UNCHANGED result
  /\ UNCHANGED <<setting, deadline, readable, pool, support, groups, files>>

\* Mutant: the manifest is believed instead of the files.
ScanManifest ==
  /\ pc = "scan" /\ TornShards = {}
  /\ reused' = manifest.names \cap Valid /\ completed' = reused'
  /\ manifest' = [setting |-> setting, names |-> reused']
  /\ IF reused' = Shards(setting) THEN Leave("complete") ELSE pc' = "dispatch" /\ UNCHANGED result
  /\ UNCHANGED <<setting, deadline, readable, dispatched, worker, buffered, stop, late, failed,
                 support, groups, files>>

\* Mutant: a shard file is accepted whatever its provenance.
ScanAnyProvenance ==
  /\ pc = "scan" /\ TornShards = {}
  /\ reused' = {s \in Shards(setting) : files[s] \in Settings} /\ completed' = reused'
  /\ manifest' = [setting |-> setting, names |-> reused']
  /\ IF reused' = Shards(setting) THEN Leave("complete") ELSE pc' = "dispatch" /\ UNCHANGED result
  /\ UNCHANGED <<setting, deadline, readable, dispatched, worker, buffered, stop, late, failed,
                 support, groups, files>>

\* The recovery scan; the manifest is rewritten with what it found.
Scan ==
  /\ pc = "scan" /\ TornShards = {}
  /\ reused' = Valid /\ completed' = Valid
  /\ manifest' = [setting |-> setting, names |-> Valid]
  /\ IF Valid = Shards(setting) THEN Leave("complete") ELSE pc' = "dispatch" /\ UNCHANGED result
  /\ UNCHANGED <<setting, deadline, readable, dispatched, worker, buffered, stop, late, failed,
                 support, groups, files>>

\* A torn shard raises before the manifest is rewritten, at every call.
ScanTorn ==
  /\ pc = "scan" /\ TornShards # {}
  /\ Leave("torn")
  /\ UNCHANGED <<setting, deadline, readable, pool, disk>>
--------------------------------------------------------------------------------
(* The pool *)

HasRoom ==
  /\ ~stop /\ Queued # {}
  /\ Cardinality(Active) < AdmittedWorkers
  /\ Cardinality(Active) + Cardinality(buffered) < MaxResident

\* Without a margin nothing refuses before the first shard predicts a duration.
Submit ==
  /\ pc = "dispatch" /\ HasRoom /\ (deadline = "passed" => completed = reused)
  /\ dispatched' = dispatched \cup {Smallest(Queued)}
  /\ worker' = [worker EXCEPT ![Smallest(Queued)] = "running"]
  /\ UNCHANGED <<setting, deadline, readable, pc, reused, buffered, completed, stop, late,
                 failed, result, disk>>

EndDispatch ==
  /\ pc' = IF Active = {} THEN "leave" ELSE "wait"
  /\ UNCHANGED <<setting, deadline, readable, reused, dispatched, worker, buffered, completed,
                 failed, result, disk>>

\* The next shard cannot start within the safety margin of the deadline.
RefuseDispatch ==
  pc = "dispatch" /\ HasRoom /\ deadline # "none" /\ stop' = TRUE /\ late' = TRUE /\ EndDispatch

\* Mutant: wait() is entered with no future at all.
NoRoomWaits ==
  /\ pc = "dispatch" /\ ~HasRoom /\ pc' = "wait"
  /\ UNCHANGED <<setting, deadline, readable, pool, result, disk>>

NoRoom == pc = "dispatch" /\ ~HasRoom /\ EndDispatch /\ UNCHANGED <<stop, late>>

\* _construct_measurement_shard stages a file, or raises.
Work(s) ==
  /\ worker[s] = "running"
  /\ \E r \in {"staged", "failed"} : worker' = [worker EXCEPT ![s] = r]
  /\ UNCHANGED <<setting, deadline, readable, pc, reused, dispatched, buffered, completed, stop,
                 late, failed, result, disk>>

\* wait() timed out and the deadline has passed.
WaitExpired ==
  /\ pc = "wait" /\ Finished = {} /\ deadline = "passed"
  /\ stop' = TRUE /\ late' = TRUE /\ pc' = "dispatch"
  /\ UNCHANGED <<setting, deadline, readable, reused, dispatched, worker, buffered, completed,
                 failed, result, disk>>

Broken == {s \in Finished : worker[s] = "failed"}

\* The finished futures in canonical order, up to the first that failed.
Collect ==
  /\ pc = "wait" /\ Finished # {}
  /\ LET good == {s \in Finished : \A b \in Broken : s < b}
         seen == IF Broken = {} THEN good ELSE good \cup {Smallest(Broken)}
     IN  /\ buffered' = buffered \cup good
         /\ worker' = [s \in Numbers |-> IF s \in seen THEN "none" ELSE worker[s]]
  /\ failed' = (Broken # {}) /\ stop' = (stop \/ Broken # {})
  /\ pc' = "publish"
  /\ UNCHANGED <<setting, deadline, readable, reused, dispatched, completed, late, result, disk>>

NextPublish == Unpublished # {} /\ Smallest(Unpublished) \in buffered

\* A manifest is due after every CheckpointEvery shards and after the last.
CheckpointDue ==
  \/ Cardinality(completed' \ reused) % CheckpointEvery = 0
  \/ completed' = Shards(setting)

\* os.replace of the staged file.
Publish ==
  /\ pc = "publish" /\ NextPublish
  /\ LET s == Smallest(Unpublished)
     IN  /\ files' = [files EXCEPT ![s] = setting]
         /\ completed' = completed \cup {s} /\ buffered' = buffered \ {s}
  /\ pc' = IF CheckpointDue THEN "checkpoint" ELSE "publish"
  /\ UNCHANGED <<setting, deadline, readable, reused, dispatched, worker, stop, late, failed,
                 result, support, groups, manifest>>

\* What _manifest records.
Content == [setting |-> setting, names |-> completed]

CheckpointManifest ==
  /\ pc = "checkpoint" /\ manifest' = Content /\ pc' = "publish"
  /\ UNCHANGED <<setting, deadline, readable, pool, result, support, groups, files>>

\* Mutant: a passed deadline leaves the loop at once.
EndPublishLeaves ==
  /\ pc = "publish" /\ ~NextPublish
  /\ pc' = IF failed \/ deadline = "passed" THEN "leave" ELSE "dispatch"
  /\ stop' = (stop \/ (~failed /\ deadline = "passed"))
  /\ late' = (late \/ (~failed /\ deadline = "passed"))
  /\ UNCHANGED <<setting, deadline, readable, reused, dispatched, worker, buffered, completed,
                 failed, result, disk>>

\* The contiguous results are published: leave on a failure, note the deadline.
EndPublish ==
  /\ pc = "publish" /\ ~NextPublish
  /\ pc' = IF failed THEN "leave" ELSE "dispatch"
  /\ stop' = (stop \/ (~failed /\ deadline = "passed"))
  /\ late' = (late \/ (~failed /\ deadline = "passed"))
  /\ UNCHANGED <<setting, deadline, readable, reused, dispatched, worker, buffered, completed,
                 failed, result, disk>>

\* The pool waits for its threads; then an exception or the complete manifest.
Return ==
  /\ pc = "leave" /\ Running = {}
  /\ IF failed THEN Leave("failed")
     ELSE IF late \/ Queued # {} THEN Leave("stopped") ELSE Leave("complete")
  /\ manifest' = IF failed \/ late \/ Queued # {} THEN Content ELSE manifest
  /\ worker' = Idle
  /\ UNCHANGED <<setting, deadline, readable, reused, dispatched, buffered, completed, stop, late,
                 failed, support, groups, files>>
--------------------------------------------------------------------------------
Coordinator ==
  \/ StopEarly \/ OpenComplete \/ OpenPartial \/ OpenTorn \/ SaveGroup \/ Support \/ SupportFails
  \/ PreflightFails \/ Plan \/ Scan \/ ScanTorn
  \/ Submit \/ RefuseDispatch \/ NoRoom \/ WaitExpired \/ Collect \/ Publish
  \/ CheckpointManifest \/ EndPublish \/ Return
Builder == Coordinator \/ \E s \in Numbers : Work(s)
Environment == Configure \/ Expire \/ Call \/ TakeResult \/ Damage \/ Discard \/ Crash

Next == Builder \/ Environment
Spec == Init /\ [][Next]_vars
--------------------------------------------------------------------------------
(* Properties *)

TypeOK ==
  /\ setting \in Settings /\ deadline \in {"none", "ahead", "passed"} /\ readable \in BOOLEAN
  /\ pc \in {"idle", "open", "support", "plan", "scan", "dispatch", "wait", "publish",
             "checkpoint", "leave"}
  /\ {reused, dispatched, buffered, completed} \subseteq SUBSET Shards(setting)
  /\ worker \in [Numbers -> {"none", "running", "staged", "failed"}]
  /\ {stop, late, failed, support} \subseteq BOOLEAN /\ groups \in {"none", "sound", "torn"}
  /\ result \in {"none", "complete", "stopped", "failed", "unreadable", "torn"}
  /\ files \in [Numbers -> Settings \cup {None, Torn}] /\ manifest \in Manifests \cup {None}

\* Whenever the manifest is written, every shard it names as completed is a
\* file that validates under the provenance the manifest carries, in whatever
\* order the workers finished and whatever releases wrote the directory before.
ManifestWritesAreHonest ==
  [][manifest' \notin {manifest, None} =>
       \A s \in manifest'.names : files[s] = manifest'.setting]_vars

\* No thread constructs a shard whose valid file is already on disk, although
\* the manifest on disk may not name it: a resume redoes nothing.
NothingIsRebuilt == \A s \in Running : files[s] # setting

\* When a deadline stops the construction, every shard handed to a thread has
\* been published and the manifest on disk names all that are: neither the
\* in-order buffer nor the lagging manifest loses finished work.
DeadlineLosesNothing ==
  result = "stopped" /\ dispatched # {} =>
    /\ dispatched \subseteq completed /\ Accepted /\ manifest.names = completed

\* A corrupt support fragment or shard is quarantined or rejected, and made
\* again: no call ends with an exception about what is on disk.
DamageIsRepaired == result # "torn"

\* A call that returns has a valid file for every shard of the plan.
CompleteIsWhole == result = "complete" /\ pc = "idle" => Valid = Shards(setting)
================================================================================
