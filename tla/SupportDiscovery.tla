---------------------------- MODULE SupportDiscovery ----------------------------
(***************************************************************************)
(* The discovery of the measurement support, one destination group at a    *)
(* time (fixed_routing_origin_support.py, analyze_fixed_routing_origin_    *)
(* support and _analyze_parallel_support), and what the shard builder makes *)
(* of it (fixed_routing_sharded_builder.py, _discover_support): every group *)
(* is saved as a raw fragment, counted against a ceiling, saved again as a *)
(* compact payload, and the last of them is followed by an index.  It is   *)
(* the detail of the step Support of MeasurementShards.                    *)
(*                                                                         *)
(* With one worker the groups are computed one after the other; with more, *)
(* threads compute ahead and the results are consumed in the order of the  *)
(* groups.  The process may die at any step, a worker may fail, a deadline *)
(* may stop it, files may be damaged between two calls.                    *)
(***************************************************************************)
EXTENDS Integers, FiniteSets

CONSTANTS
  Releases,     \* what the support provenance records
  NumGroups,    \* destination groups
  Entries,      \* origin-specific entries of every group
  Ceilings,     \* values of max_materialized_support_entries
  PoolSizes,    \* values of support_workers
  NoFile,       \* no file
  Garbled,      \* a file whose reader raises what its caller expects
  Unopenable,   \* an archive that zipfile cannot open: BadZipFile is not expected
  MaxMishaps    \* bound on new releases and damaged files

Groups == 1 .. NumGroups

ASSUME DiscoveryAssumption ==
  /\ NumGroups \in Nat \ {0} /\ Entries \in [Groups -> Nat]
  /\ Ceilings \subseteq Nat /\ PoolSizes \subseteq Nat \ {0} /\ MaxMishaps \in Nat
  /\ {NoFile, Garbled, Unopenable} \cap Releases = {}
  /\ NoFile \notin {Garbled, Unopenable} /\ Garbled # Unopenable

VARIABLES
  release,    \* provenance of the running release
  ceiling,    \* its max_materialized_support_entries
  poolSize,   \* its number of support workers
  due,        \* deadline of the call: "none", "ahead" or "passed"
  phase,      \* what the discovery is about to do; "idle": no call
  head,       \* the group probed, or consumed next
  cached,     \* groups whose fragment was found valid
  sent,       \* groups submitted to the pool
  thread,     \* state of the future of each group in pending
  verdict,    \* how the loop over the groups was left
  ended,      \* how the last call ended
  raw,        \* support_groups: release of every fragment
  compact,    \* compact_support_groups: release of every payload
  index,      \* support_manifest.json
  mishaps     \* counter of the bound

call == <<ceiling, poolSize, due>>
progress == <<head, cached, sent, thread, verdict>>
store == <<raw, compact, index>>
discoveryVars == <<release, call, phase, progress, ended, store, mishaps>>
--------------------------------------------------------------------------------
\* Entries of the first n groups: cumulative_entries after them.
Total[n \in 0 .. NumGroups] == IF n = 0 THEN 0 ELSE Total[n - 1] + Entries[n]

\* _load_group_checkpoint accepts the fragment.
Usable(g) == raw[g] = release

Uncached == Groups \ cached
Unsent == Uncached \ sent
Outstanding == {g \in Groups : thread[g] # "none"}
NextUnsent(g) == g \in Unsent /\ \A h \in Unsent : g <= h
Admitted ==
  LET missing == IF Uncached = {} THEN 1 ELSE Cardinality(Uncached)
  IN  IF poolSize <= missing THEN poolSize ELSE missing
Room == Unsent # {} /\ Cardinality(Outstanding) < Admitted

\* The mean of the last three durations, of which a cached group took none.
NothingPredicted == \A g \in Groups : head - 3 <= g /\ g < head => g \in cached

\* may_start asks for the predicted duration and the margin in what remains.
MayBegin == due = "passed" => NothingPredicted

NoThreads == [g \in Groups |-> "none"]
Fresh == head' = 1 /\ cached' = {} /\ sent' = {} /\ thread' = NoThreads /\ verdict' = "none"
Forgotten == Fresh /\ ceiling' = 0 /\ poolSize' = 1 /\ due' = "none" /\ phase' = "idle"

DiscoveryInit ==
  /\ release \in Releases /\ ceiling = 0 /\ poolSize = 1 /\ due = "none"
  /\ phase = "idle" /\ ended = "none"
  /\ head = 1 /\ cached = {} /\ sent = {} /\ thread = NoThreads /\ verdict = "none"
  /\ raw = [g \in Groups |-> NoFile] /\ compact = [g \in Groups |-> NoFile] /\ index = NoFile
  /\ mishaps = 0

EndDiscovery(e) == phase' = "idle" /\ ended' = e
Abandon(v) == phase' = "leave" /\ verdict' = v
--------------------------------------------------------------------------------
(* The caller and its environment *)

StartDiscovery ==
  /\ phase = "idle" /\ ended = "none" /\ phase' = "open"
  /\ release' \in Releases /\ ceiling' \in Ceilings /\ poolSize' \in PoolSizes
  /\ due' \in {"none", "ahead"}
  /\ mishaps' = mishaps + (IF release' = release THEN 0 ELSE 1) /\ mishaps' <= MaxMishaps
  /\ UNCHANGED <<progress, ended, store>>

\* The caller has the result.
Dismiss ==
  /\ phase = "idle" /\ ended # "none" /\ Forgotten /\ ended' = "none"
  /\ UNCHANGED <<release, store, mishaps>>

\* The process dies: only what is on disk remains.
DiscoveryCrash ==
  /\ phase # "idle" /\ Forgotten
  /\ UNCHANGED <<release, ended, store, mishaps>>

PassDue ==
  /\ due = "ahead" /\ due' = "passed"
  /\ UNCHANGED <<release, ceiling, poolSize, phase, progress, ended, store, mishaps>>

\* A file is lost or altered.
Deteriorate ==
  /\ phase = "idle" /\ ended = "none" /\ mishaps < MaxMishaps /\ mishaps' = mishaps + 1
  /\ \/ \E g \in Groups, f \in {NoFile, Garbled, Unopenable} :
          raw[g] # NoFile /\ raw' = [raw EXCEPT ![g] = f] /\ UNCHANGED <<compact, index>>
     \/ \E g \in Groups, f \in {NoFile, Garbled} :
          compact[g] # NoFile /\ compact' = [compact EXCEPT ![g] = f] /\ UNCHANGED <<raw, index>>
     \/ index # NoFile /\ index' \in {NoFile, Garbled} /\ UNCHANGED <<raw, compact>>
  /\ UNCHANGED <<release, call, phase, progress, ended>>
--------------------------------------------------------------------------------
(* The index of an earlier call *)

StopBeforeSupport ==
  /\ phase = "open" /\ due # "none" /\ EndDiscovery("stopped")
  /\ UNCHANGED <<release, call, progress, store, mishaps>>

\* The index is of this release and every payload has the checksum it records.
IndexedPayloads == \A g \in Groups : compact[g] = release

UseIndex ==
  /\ phase = "open" /\ index = release /\ Total[NumGroups] <= ceiling /\ IndexedPayloads
  /\ EndDiscovery(IF due = "passed" THEN "stopped" ELSE "complete")
  /\ UNCHANGED <<release, call, progress, store, mishaps>>

\* MemoryError is not among the exceptions that lead to a new discovery.
RefuseIndex ==
  /\ phase = "open" /\ index = release /\ Total[NumGroups] > ceiling
  /\ EndDiscovery("refused")
  /\ UNCHANGED <<release, call, progress, store, mishaps>>

\* An index that does not validate is quarantined.
Discover ==
  /\ phase = "open"
  /\ index = release => Total[NumGroups] <= ceiling /\ ~IndexedPayloads
  /\ index' = NoFile /\ phase' = IF poolSize = 1 THEN "group" ELSE "probe"
  /\ UNCHANGED <<release, call, progress, ended, raw, compact, mishaps>>
--------------------------------------------------------------------------------
(* Discovery in the calling thread *)

Sequential == phase = "group" /\ poolSize = 1 /\ head \in Groups

RefuseGroup ==
  /\ Sequential /\ due # "none" /\ Abandon("stopped")
  /\ UNCHANGED <<release, call, head, cached, sent, thread, ended, store, mishaps>>

\* A valid fragment is used; another is quarantined and the group computed.
OpenFragment ==
  /\ Sequential /\ MayBegin /\ raw[head] # Unopenable
  /\ IF Usable(head)
     THEN cached' = cached \cup {head} /\ phase' = "consume" /\ UNCHANGED raw
     ELSE raw' = [raw EXCEPT ![head] = NoFile] /\ phase' = "compute" /\ UNCHANGED cached
  /\ UNCHANGED <<release, call, head, sent, thread, verdict, ended, compact, index, mishaps>>

\* The deadline is looked at before every chunk of origins.
StopInGroup ==
  /\ phase = "compute" /\ due = "passed" /\ Abandon("stopped")
  /\ UNCHANGED <<release, call, head, cached, sent, thread, ended, store, mishaps>>

ComputeGroup ==
  /\ phase = "compute" /\ phase' = "save"
  /\ UNCHANGED <<release, call, progress, ended, store, mishaps>>

\* The routing of the group, or its fragment, cannot be read: the exception
\* reaches the caller.
GroupFails ==
  /\ Sequential \/ (phase = "group" /\ head \in cached)
  /\ Abandon("failed")
  /\ UNCHANGED <<release, call, head, cached, sent, thread, ended, store, mishaps>>
--------------------------------------------------------------------------------
(* Discovery in a pool *)

\* Every fragment is loaded once to know the groups that miss one.
ProbeGroup ==
  /\ phase = "probe" /\ raw[head] # Unopenable
  /\ IF Usable(head)
     THEN cached' = cached \cup {head} /\ UNCHANGED raw
     ELSE raw' = [raw EXCEPT ![head] = NoFile] /\ UNCHANGED cached
  /\ IF head = NumGroups THEN head' = 1 /\ phase' = "submit"
                         ELSE head' = head + 1 /\ UNCHANGED phase
  /\ UNCHANGED <<release, call, sent, thread, verdict, ended, compact, index, mishaps>>

ProbeFails ==
  /\ phase = "probe" /\ raw[head] = Unopenable /\ Abandon("failed") /\ head' = 1
  /\ UNCHANGED <<release, call, cached, sent, thread, ended, store, mishaps>>

SubmitGroup ==
  /\ phase = "submit" /\ Room /\ MayBegin
  /\ \E g \in Groups : /\ NextUnsent(g) /\ sent' = sent \cup {g}
                       /\ thread' = [thread EXCEPT ![g] = "running"]
  /\ UNCHANGED <<release, call, phase, head, cached, verdict, ended, store, mishaps>>

RefuseSubmission ==
  /\ phase = "submit" /\ Room /\ due # "none" /\ Abandon("stopped")
  /\ UNCHANGED <<release, call, head, cached, sent, thread, ended, store, mishaps>>

EndSubmission ==
  /\ phase = "submit" /\ ~Room /\ phase' = "group"
  /\ UNCHANGED <<release, call, progress, ended, store, mishaps>>

\* _compute_group_support_result returns or raises.
ThreadEnds(g) ==
  /\ thread[g] = "running"
  /\ \E r \in {"done", "failed"} : thread' = [thread EXCEPT ![g] = r]
  /\ UNCHANGED <<release, call, phase, head, cached, sent, verdict, ended, store, mishaps>>

Pooled == phase = "group" /\ poolSize > 1 /\ head \in Groups

\* The fragment is loaded a second time, with the routing of the group.
TakeCached ==
  /\ Pooled /\ head \in cached /\ phase' = "consume"
  /\ UNCHANGED <<release, call, progress, ended, store, mishaps>>

\* Mutant: the ceiling is compared before the fragment is saved.
TakeFutureCounted ==
  /\ Pooled /\ head \notin cached /\ thread[head] = "done"
  /\ thread' = [thread EXCEPT ![head] = "none"]
  /\ IF Total[head] > ceiling THEN Abandon("over") ELSE phase' = "save" /\ UNCHANGED verdict
  /\ UNCHANGED <<release, call, head, cached, sent, ended, store, mishaps>>

TakeFuture ==
  /\ Pooled /\ head \notin cached /\ thread[head] = "done"
  /\ thread' = [thread EXCEPT ![head] = "none"] /\ phase' = "save"
  /\ UNCHANGED <<release, call, head, cached, sent, verdict, ended, store, mishaps>>

FutureFails ==
  /\ Pooled /\ head \notin cached /\ thread[head] = "failed" /\ Abandon("failed")
  /\ UNCHANGED <<release, call, head, cached, sent, thread, ended, store, mishaps>>

\* result() is given what remains less the margin.
FutureExpires ==
  /\ Pooled /\ head \notin cached /\ thread[head] = "running" /\ due # "none"
  /\ Abandon("stopped")
  /\ UNCHANGED <<release, call, head, cached, sent, thread, ended, store, mishaps>>
--------------------------------------------------------------------------------
(* The groups in their order *)

\* _save_group_checkpoint: staged, validated and moved in place.
SaveFragment ==
  /\ phase = "save" /\ raw' = [raw EXCEPT ![head] = release] /\ phase' = "consume"
  /\ UNCHANGED <<release, call, progress, ended, compact, index, mishaps>>

ExceedCeiling ==
  /\ phase = "consume" /\ Total[head] > ceiling /\ Abandon("over")
  /\ UNCHANGED <<release, call, head, cached, sent, thread, ended, store, mishaps>>

\* A payload that does not validate, or has other contents, is quarantined.
QuarantinePayload ==
  /\ phase = "consume" /\ Total[head] <= ceiling /\ compact[head] \notin {NoFile, release}
  /\ compact' = [compact EXCEPT ![head] = NoFile]
  /\ UNCHANGED <<release, call, phase, progress, ended, raw, index, mishaps>>

\* The payload is kept, or staged and moved in place.
ConsumeGroup ==
  /\ phase = "consume" /\ Total[head] <= ceiling /\ compact[head] \in {NoFile, release}
  /\ compact' = [compact EXCEPT ![head] = release]
  /\ head' = head + 1 /\ phase' = IF poolSize = 1 THEN "group" ELSE "submit"
  /\ UNCHANGED <<release, call, cached, sent, thread, verdict, ended, raw, index, mishaps>>

EndGroups ==
  /\ phase = "group" /\ head \notin Groups /\ Abandon("complete")
  /\ UNCHANGED <<release, call, head, cached, sent, thread, ended, store, mishaps>>

\* shutdown waits for the threads that run; what they return is dropped.
LeaveGroups ==
  /\ phase = "leave" /\ \A g \in Groups : thread[g] # "running"
  /\ thread' = NoThreads
  /\ IF verdict = "complete" THEN phase' = "publish" /\ UNCHANGED ended ELSE EndDiscovery(verdict)
  /\ UNCHANGED <<release, call, head, cached, sent, verdict, store, mishaps>>

PublishIndex ==
  /\ phase = "publish" /\ index' = release
  /\ EndDiscovery(IF due = "passed" THEN "stopped" ELSE "complete")
  /\ UNCHANGED <<release, call, progress, raw, compact, mishaps>>
--------------------------------------------------------------------------------
CallerSteps == StartDiscovery \/ Dismiss \/ DiscoveryCrash \/ PassDue \/ Deteriorate
IndexSteps == StopBeforeSupport \/ UseIndex \/ RefuseIndex \/ Discover \/ PublishIndex
SequentialSteps == RefuseGroup \/ OpenFragment \/ StopInGroup \/ ComputeGroup \/ GroupFails
PoolSteps ==
  \/ ProbeGroup \/ ProbeFails \/ SubmitGroup \/ RefuseSubmission \/ EndSubmission
  \/ TakeCached \/ TakeFuture \/ FutureFails \/ FutureExpires
  \/ \E g \in Groups : ThreadEnds(g)
GroupSteps ==
  SaveFragment \/ ExceedCeiling \/ QuarantinePayload \/ ConsumeGroup \/ EndGroups \/ LeaveGroups

DiscoveryNext == CallerSteps \/ IndexSteps \/ SequentialSteps \/ PoolSteps \/ GroupSteps
DiscoverySpec == DiscoveryInit /\ [][DiscoveryNext]_discoveryVars
--------------------------------------------------------------------------------
(* Properties *)

\* However a call ends short of the whole support, every group it consumed has
\* its fragment and its payload on disk for the next call; and the group at
\* which the ceiling was exceeded has its fragment, so that a call with a
\* sufficient ceiling does not compute it again.
SupportLosesNothing ==
  ended \in {"stopped", "failed", "over"} =>
    /\ \A g \in Groups : g < head => raw[g] = release /\ compact[g] = release
    /\ ended = "over" => head \in Groups /\ raw[head] = release

\* The group whose turn it is has a fragment or a future in pending: the pop of
\* the dictionary finds it, in whatever order the threads end and however the
\* cached groups lie between the others.
HeadIsPending == Pooled => head \in cached \/ thread[head] # "none"

\* Whenever the index is written, it is over payloads of its own release.
IndexIsHonest ==
  [][index' \notin {index, NoFile, Garbled} => index' = release /\ IndexedPayloads]_discoveryVars

\* No thread computes a group whose fragment is on disk.
NoGroupIsRepeated == \A g \in Groups : thread[g] = "running" => raw[g] # release
================================================================================
