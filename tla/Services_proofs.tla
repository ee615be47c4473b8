----------------------------- MODULE Services_proofs ----------------------------
(***************************************************************************)
(* Proofs about the services beside a construction, which share no state:  *)
(* the routing executor, the progress reporter, the discovery of the       *)
(* origin support and the block operator cache, each for every value of    *)
(* its constants.                                                          *)
(***************************************************************************)
EXTENDS RoutingExecutor, ConstructionReporter, SupportDiscovery, BlockOperatorCache,
        InductionLemmas, SequenceTheorems

(***************************************************************************)
(* The routing executor retains at most the evaluation of the latest       *)
(* forward product, whatever fails between a product and its reverse, and  *)
(* however the adapter interleaves its calls.                              *)
(***************************************************************************)

\* What is retained belongs to the latest forward product, and is known either
\* as pending or to the reverse product in progress, which will forget it.
ExecIInv ==
  /\ evaluations \subseteq {attempt}
  /\ product \in {"none", "forward", "reverse", "execute"}
  /\ evaluations # {} /\ product # "reverse" => pendingId = attempt
  /\ product \in {"forward", "reverse"} => working = attempt
  /\ product = "forward" => evaluations = {}
  /\ closed => evaluations = {} /\ product = "none"

LEMMA ExecInitHolds == ExecInit => ExecIInv
BY DEF ExecInit, ExecIInv

\* Calls of the adapter.
LEMMA AdapterKeeps == ExecIInv /\ Adapter => ExecIInv'
<1> SUFFICES ASSUME ExecIInv, Adapter PROVE ExecIInv'
  OBVIOUS
<1>1. CASE Forward
  <2>1. evaluations' = {} /\ working' = attempt'
    BY <1>1 DEF Forward, ExecIInv
  <2> QED BY <1>1, <2>1 DEF Forward, Begin, ExecIInv
<1>2. CASE ReverseEvaluation
  <2>1. CASE pendingId \in evaluations
    BY <1>2, <2>1 DEF ReverseEvaluation, Begin, ExecIInv
  <2>2. CASE pendingId \notin evaluations
    <3>1. evaluations = {} /\ UNCHANGED <<callVars, closed, attempt>>
      BY <1>2, <2>2 DEF ReverseEvaluation, ExecIInv
    <3> QED BY <1>2, <3>1 DEF ReverseEvaluation, callVars, ExecIInv
  <2> QED BY <2>1, <2>2
<1>3. CASE Execute
  BY <1>3 DEF Execute, Begin, ExecIInv
<1>4. CASE ReleasePending
  BY <1>4 DEF ReleasePending, callVars, ExecIInv
<1>5. CASE Close \/ Reopen
  BY <1>5 DEF Close, Reopen, callVars, ExecIInv
<1> QED BY <1>1, <1>2, <1>3, <1>4, <1>5 DEF Adapter

\* Steps of a product and of the threads.
LEMMA ProductKeeps == ExecIInv /\ Pool => ExecIInv'
<1> SUFFICES ASSUME ExecIInv, Pool PROVE ExecIInv'
  OBVIOUS
<1>1. CASE Dispatch \/ EndOrphan \/ \E b \in Batches : Take(b) \/ RunBatch(b) \/ CollectBatch(b)
  BY <1>1 DEF Dispatch, EndOrphan, Take, RunBatch, CollectBatch, ExecIInv
<1>2. CASE Fail
  BY <1>2 DEF Fail, ExecIInv
<1>3. CASE ReturnSum
  BY <1>3 DEF ReturnSum, ExecIInv
<1> QED BY <1>1, <1>2, <1>3 DEF Pool

\* A reverse product never runs on arrays older than the latest forward
\* product, and a forward product that fails leaves none behind.
THEOREM LatestIsRetained == ExecSpec => []OnlyTheLatestIsRetained
<1>1. ExecIInv /\ [ExecNext]_execVars => ExecIInv'
  <2>1. ExecIInv /\ UNCHANGED execVars => ExecIInv'
    BY DEF execVars, callVars, ExecIInv
  <2> QED BY <2>1, AdapterKeeps, ProductKeeps DEF ExecNext
<1>2. ExecIInv => OnlyTheLatestIsRetained
  BY DEF ExecIInv, OnlyTheLatestIsRetained
<1> QED BY <1>1, <1>2, ExecInitHolds, PTL DEF ExecSpec
--------------------------------------------------------------------------------
(***************************************************************************)
(* A phase boundary follows every event enqueued before its emission       *)
(* began, for any number of emitting threads and queue size.               *)
(***************************************************************************)

\* The events an emitter waits for are still unfinished, and none are left when
\* it has flushed.
ReporterIInv ==
  /\ ReporterTypeOK
  /\ \A t \in Emitters :
       /\ owed[t] <= Unfinished
       /\ emitting[t] \in {"flushed", "delivering"} => owed[t] = 0

LEMMA MinOfTwo ==
  ASSUME NEW a \in Nat, NEW b \in Nat
  PROVE  Min({a, b}) \in {a, b} /\ Min({a, b}) <= a /\ Min({a, b}) <= b
BY DEF Min

LEMMA MaxOfTwo ==
  ASSUME NEW a \in Int, NEW b \in Int
  PROVE  Max({a, b}) \in {a, b} /\ Max({a, b}) >= a /\ Max({a, b}) >= b
BY DEF Max

LEMMA ReporterInitHolds == ReporterInit => ReporterIInv
BY ReporterAssumption DEF ReporterInit, ReporterIInv, ReporterTypeOK, Unfinished

\* An event is added, or dropped from a full queue.
LEMMA EnqueueKeeps == ReporterIInv /\ Enqueue => ReporterIInv'
<1> SUFFICES ASSUME ReporterIInv, Enqueue PROVE ReporterIInv'
  OBVIOUS
<1>1. queue \in 0 .. QueueSize /\ queue' = Min({queue + 1, QueueSize}) /\ QueueSize \in Nat
  BY ReporterAssumption DEF ReporterIInv, ReporterTypeOK, Enqueue
<1>2. queue' \in queue .. QueueSize
  BY <1>1, MinOfTwo
<1> QED BY <1>1, <1>2 DEF Enqueue, ReporterIInv, ReporterTypeOK, Unfinished

\* The sink finishes one event, which every emitter that waits for it counts.
LEMMA TaskDoneKeeps ==
  ASSUME ReporterIInv, TaskDone, sink # "idle", sink' = "idle", UNCHANGED <<queue, emitting, lock>>
  PROVE  ReporterIInv'
<1>1. ASSUME NEW t \in Emitters
      PROVE  /\ owed'[t] \in 0 .. QueueSize + 1 /\ owed'[t] <= queue
             /\ owed[t] = 0 => owed'[t] = 0
  <2>1. owed[t] \in 0 .. QueueSize + 1 /\ owed[t] <= queue + 1 /\ queue \in Nat /\ QueueSize \in Nat
    BY ReporterAssumption DEF ReporterIInv, ReporterTypeOK, Unfinished
  <2>2. owed'[t] = Max({owed[t] - 1, 0})
    BY DEF TaskDone
  <2>3. owed[t] - 1 \in Int /\ 0 \in Int
    BY <2>1
  <2>4. Max({owed[t] - 1, 0}) \in {owed[t] - 1, 0} /\ Max({owed[t] - 1, 0}) >= 0
    BY <2>3, MaxOfTwo
  <2>5. owed'[t] \in {owed[t] - 1, 0} /\ owed'[t] >= 0
    BY <2>2, <2>4
  <2> QED BY <2>1, <2>5
<1>2. owed' \in [Emitters -> 0 .. QueueSize + 1]
  BY <1>1 DEF TaskDone
<1> QED BY <1>1, <1>2 DEF ReporterIInv, ReporterTypeOK, Unfinished

LEMMA SinkKeeps == ReporterIInv /\ (SinkTakes \/ SinkDelivers \/ SinkRecords) => ReporterIInv'
<1> SUFFICES ASSUME ReporterIInv, SinkTakes \/ SinkDelivers \/ SinkRecords PROVE ReporterIInv'
  OBVIOUS
<1>1. CASE SinkTakes
  BY <1>1, ReporterAssumption DEF SinkTakes, ReporterIInv, ReporterTypeOK, Unfinished
<1>2. CASE SinkDelivers /\ sink' = "raised"
  BY <1>2 DEF SinkDelivers, TaskDone, ReporterIInv, ReporterTypeOK, Unfinished
<1>3. CASE SinkRecords \/ (SinkDelivers /\ sink' # "raised")
  BY <1>3, TaskDoneKeeps DEF SinkDelivers, SinkRecords
<1> QED BY <1>1, <1>2, <1>3

LEMMA EmitKeeps ==
  ASSUME ReporterIInv, NEW t \in Emitters, BeginEmit(t) \/ Flushed(t) \/ TakeLock(t) \/ Delivered(t)
  PROVE  ReporterIInv'
<1>1. CASE BeginEmit(t)
  <2>1. Unfinished \in 0 .. QueueSize + 1
    BY ReporterAssumption DEF ReporterIInv, ReporterTypeOK, Unfinished
  <2> QED BY <1>1, <2>1 DEF BeginEmit, ReporterIInv, ReporterTypeOK, Unfinished
<1>2. CASE Flushed(t)
  BY <1>2 DEF Flushed, ReporterIInv, ReporterTypeOK, Unfinished
<1>3. CASE TakeLock(t) \/ Delivered(t)
  BY <1>3 DEF TakeLock, Delivered, ReporterIInv, ReporterTypeOK, Unfinished
<1> QED BY <1>1, <1>2, <1>3

\* A phase boundary is delivered after every event enqueued before it.
THEOREM BoundariesFollow == ReporterSpec => []BoundaryFollowsQueue
<1>1. ReporterIInv /\ [ReporterNext]_reporterVars => ReporterIInv'
  <2>1. ReporterIInv /\ UNCHANGED reporterVars => ReporterIInv'
    BY DEF reporterVars, ReporterIInv, ReporterTypeOK, Unfinished
  <2> QED BY <2>1, EnqueueKeeps, SinkKeeps, EmitKeeps DEF ReporterNext
<1>2. ReporterIInv => BoundaryFollowsQueue
  BY DEF ReporterIInv, BoundaryFollowsQueue
<1> QED BY <1>1, <1>2, ReporterInitHolds, PTL DEF ReporterSpec
--------------------------------------------------------------------------------
(***************************************************************************)
(* The discovery of the support, for every number of groups and workers,   *)
(* every ceiling, deadline, crash and damage.  The inductive invariant     *)
(* says what is on disk of the groups before the head, where the groups    *)
(* after it are (cached, submitted in order, or not yet), and that a loop  *)
(* that waits for a group has something outstanding.                       *)
(***************************************************************************)

Looping == {"submit", "group", "compute", "save", "consume", "leave", "publish"}
Phases == {"idle", "open", "probe"} \cup Looping
Files == Releases \cup {NoFile, Garbled, Unopenable}

Types ==
  /\ release \in Releases /\ poolSize \in Nat \ {0} /\ phase \in Phases
  /\ head \in 1 .. NumGroups + 1 /\ cached \subseteq Groups /\ sent \subseteq Groups
  /\ thread \in [Groups -> {"none", "running", "done", "failed"}]
  /\ raw \in [Groups -> Files] /\ compact \in [Groups -> Files]
  /\ phase \in {"probe", "compute", "save", "consume"} => head \in Groups

\* A call starts from nothing, and only a running one has a verdict pending.
Starts ==
  /\ phase # "idle" => ended = "none"
  /\ phase = "open" \/ (phase = "idle" /\ ended = "none") =>
       head = 1 /\ cached = {} /\ sent = {}
  /\ phase \in {"idle", "open", "probe", "compute", "publish"} \/ poolSize = 1 =>
       thread = NoThreads
  /\ phase = "probe" \/ poolSize = 1 => sent = {}
  /\ phase \in {"probe", "submit"} => poolSize > 1
  /\ phase = "compute" => poolSize = 1
  /\ phase = "leave" => verdict # "none"

\* What the groups before the head have on disk.
OnDisk ==
  /\ phase \in Looping => \A g \in Groups : g < head => raw[g] = release /\ compact[g] = release
  /\ phase \in Looping \cup {"probe"} => \A g \in cached : raw[g] = release
  /\ phase = "consume" => raw[head] = release
  /\ phase = "leave" /\ verdict = "over" => head \in Groups /\ raw[head] = release
  /\ (phase = "leave" /\ verdict = "complete") \/ phase = "publish" => head = NumGroups + 1

\* Groups are submitted in order; those at the head and after it are outstanding.
Submitted ==
  phase \in {"submit", "group", "save", "consume"} /\ poolSize > 1 =>
    /\ sent \cap cached = {}
    /\ \A s \in sent : \A h \in Uncached : h < s => h \in sent
    /\ \A g \in Groups : thread[g] # "none" => g \in sent /\ g >= head
    /\ \A g \in Groups : g < head => g \in cached \cup sent
    /\ phase \in {"save", "consume"} => thread[head] = "none" /\ head \in cached \cup sent
    /\ \A s \in sent : s > head \/ (s = head /\ phase \in {"submit", "group"}) =>
         thread[s] # "none"
    /\ phase = "group" => Unsent = {} \/ Outstanding # {}

\* What is neither cached nor consumed has no fragment.
Absent ==
  /\ phase = "probe" => \A g \in Groups : g < head /\ g \notin cached => raw[g] # release
  /\ phase \in {"submit", "group", "save"} /\ poolSize > 1 =>
       \A g \in Groups : g >= head /\ g \notin cached => raw[g] # release
  /\ phase = "consume" /\ poolSize > 1 =>
       \A g \in Groups : g > head /\ g \notin cached => raw[g] # release

DiscoveryIInv ==
  /\ Types /\ Starts /\ OnDisk /\ Submitted /\ Absent /\ SupportLosesNothing
  /\ NoGroupIsRepeated
--------------------------------------------------------------------------------
\* The numbers of the groups.
LEMMA GroupNumbers == Groups \subseteq Nat /\ IsFiniteSet(Groups) /\ NumGroups \in Nat \ {0}
BY DiscoveryAssumption, FS_Interval DEF Groups

\* A full pool, or one with nothing to submit, is what the coordinator waits for.
LEMMA WaitsForSomething ==
  ASSUME Types, ~Room PROVE Unsent = {} \/ Outstanding # {}
<1> SUFFICES ASSUME Unsent # {}, Outstanding = {} PROVE FALSE
  OBVIOUS
<1>1. Cardinality(Outstanding) = 0
  BY FS_EmptySet
<1>2. Uncached # {} /\ IsFiniteSet(Uncached)
  BY GroupNumbers, FS_Subset DEF Unsent, Uncached
<1>3. Cardinality(Uncached) \in Nat /\ Cardinality(Uncached) # 0
  BY <1>2, FS_CardinalityType, FS_EmptySet
<1>4. Admitted >= 1
  BY <1>3 DEF Admitted, Types
<1> QED BY <1>1, <1>3, <1>4 DEF Room, Types, Admitted

\* A release is the name of no other state of a file.
LEMMA ReleaseIsNoOther == \A r \in Releases : r \notin {NoFile, Garbled, Unopenable}
BY DiscoveryAssumption

LEMMA DiscoveryInitHolds == DiscoveryInit => DiscoveryIInv
BY GroupNumbers, ReleaseIsNoOther
   DEF DiscoveryInit, DiscoveryIInv, Types, Starts, OnDisk, Submitted, Absent, Phases, Looping,
       Files, NoThreads, SupportLosesNothing, NoGroupIsRepeated
--------------------------------------------------------------------------------
LEMMA CallerKeeps == DiscoveryIInv /\ CallerSteps => DiscoveryIInv'
<1> SUFFICES ASSUME DiscoveryIInv, CallerSteps PROVE DiscoveryIInv'
  OBVIOUS
<1> USE GroupNumbers, ReleaseIsNoOther DEF DiscoveryIInv, NoThreads, progress, store, call
<1>1. CASE StartDiscovery
  <2>1. Types' /\ Starts'
    BY <1>1, DiscoveryAssumption DEF StartDiscovery, Types, Starts, Phases, Looping
  <2>2. OnDisk' /\ Submitted' /\ Absent' /\ NoGroupIsRepeated'
    BY <1>1 DEF StartDiscovery, Starts, OnDisk, Submitted, Absent, NoGroupIsRepeated, Looping
  <2>3. SupportLosesNothing'
    BY <1>1 DEF StartDiscovery, SupportLosesNothing
  <2> QED BY <2>1, <2>2, <2>3
<1>2. CASE Dismiss \/ DiscoveryCrash
  <2>1. Forgotten /\ UNCHANGED <<release, store>> /\ ended' = "none"
    BY <1>2 DEF Dismiss, DiscoveryCrash, Starts
  <2> QED
    BY <2>1 DEF Forgotten, Fresh, Types, Starts, OnDisk, Submitted, Absent, NoGroupIsRepeated,
                SupportLosesNothing, Phases, Looping
<1>3. CASE PassDue
  BY <1>3 DEF PassDue, Types, Starts, OnDisk, Submitted, Absent, NoGroupIsRepeated,
              SupportLosesNothing, Unsent, Uncached, Outstanding
<1>4. CASE Deteriorate
  <2>1. phase = "idle" /\ ended = "none" /\ UNCHANGED <<release, call, phase, progress, ended>>
    BY <1>4 DEF Deteriorate
  <2>2. raw' \in [Groups -> Files] /\ compact' \in [Groups -> Files]
    BY <1>4 DEF Deteriorate, Types, Files
  <2> QED
    BY <2>1, <2>2 DEF Types, Starts, OnDisk, Submitted, Absent, NoGroupIsRepeated,
                      SupportLosesNothing, Looping
<1> QED BY <1>1, <1>2, <1>3, <1>4 DEF CallerSteps

LEMMA IndexKeeps == DiscoveryIInv /\ IndexSteps => DiscoveryIInv'
<1> SUFFICES ASSUME DiscoveryIInv, IndexSteps PROVE DiscoveryIInv'
  OBVIOUS
<1> USE GroupNumbers DEF DiscoveryIInv, NoThreads, progress, store, call
<1>1. CASE StopBeforeSupport \/ UseIndex \/ RefuseIndex
  <2>1. /\ phase = "open" /\ phase' = "idle" /\ ended' \in {"stopped", "complete", "refused"}
        /\ UNCHANGED <<release, call, progress, store>>
    BY <1>1 DEF StopBeforeSupport, UseIndex, RefuseIndex, EndDiscovery
  <2>2. head = 1 /\ thread = NoThreads
    BY <2>1 DEF Starts
  <2>3. Types' /\ Starts'
    BY <2>1 DEF Types, Starts, Phases, Looping
  <2>4. OnDisk' /\ Submitted' /\ Absent' /\ NoGroupIsRepeated'
    BY <2>1, <2>2 DEF OnDisk, Submitted, Absent, NoGroupIsRepeated, Looping
  <2>5. SupportLosesNothing'
    BY <2>1, <2>2 DEF SupportLosesNothing, Groups
  <2> QED BY <2>3, <2>4, <2>5
<1>2. CASE Discover
  <2>1. /\ phase = "open" /\ head = 1 /\ cached = {} /\ sent = {} /\ thread = NoThreads
        /\ UNCHANGED <<release, call, progress, ended, raw, compact>>
    BY <1>2 DEF Discover, Starts
  <2>2. (phase' = "group" /\ poolSize = 1) \/ (phase' = "probe" /\ poolSize > 1)
    BY <1>2 DEF Discover, Types
  <2>3. Types' /\ Starts'
    BY <2>1, <2>2 DEF Types, Starts, Phases, Looping, Groups
  <2>4. OnDisk' /\ Submitted' /\ Absent'
    BY <2>1, <2>2 DEF Types, OnDisk, Submitted, Absent, Groups
  <2>5. NoGroupIsRepeated' /\ SupportLosesNothing'
    BY <2>1, <2>2 DEF Starts, NoGroupIsRepeated, SupportLosesNothing
  <2> QED BY <2>3, <2>4, <2>5
<1>3. CASE PublishIndex
  BY <1>3 DEF PublishIndex, EndDiscovery, Types, Starts, OnDisk, Submitted, Absent,
              NoGroupIsRepeated, SupportLosesNothing, Phases, Looping
<1> QED BY <1>1, <1>2, <1>3 DEF IndexSteps

LEMMA SequentialKeeps == DiscoveryIInv /\ SequentialSteps => DiscoveryIInv'
<1> SUFFICES ASSUME DiscoveryIInv, SequentialSteps PROVE DiscoveryIInv'
  OBVIOUS
<1> USE GroupNumbers, ReleaseIsNoOther DEF DiscoveryIInv, NoThreads, store, call
<1>1. CASE RefuseGroup \/ StopInGroup \/ GroupFails
  <2>1. /\ phase \in {"group", "compute"} /\ phase' = "leave" /\ verdict' \in {"stopped", "failed"}
        /\ UNCHANGED <<release, call, head, cached, sent, thread, ended, store>>
    BY <1>1 DEF RefuseGroup, StopInGroup, GroupFails, Sequential, Abandon
  <2> QED
    BY <2>1 DEF Types, Starts, OnDisk, Submitted, Absent, NoGroupIsRepeated,
                SupportLosesNothing, Phases, Looping
<1>2. CASE OpenFragment
  <2>1. /\ phase = "group" /\ poolSize = 1 /\ head \in Groups /\ thread = NoThreads
        /\ UNCHANGED <<release, call, head, sent, thread, verdict, ended, compact>>
        /\ ended = "none"
    BY <1>2 DEF OpenFragment, Sequential, Starts
  <2>2. CASE raw[head] = release
    <3>1. phase' = "consume" /\ cached' = cached \cup {head} /\ raw' = raw
      BY <1>2, <2>2 DEF OpenFragment, Usable
    <3> QED
      BY <2>1, <2>2, <3>1 DEF Types, Starts, OnDisk, Submitted, Absent, NoGroupIsRepeated,
                              SupportLosesNothing, Phases, Looping
  <2>3. CASE raw[head] # release
    <3>1. phase' = "compute" /\ cached' = cached /\ raw' = [raw EXCEPT ![head] = NoFile]
      BY <1>2, <2>3 DEF OpenFragment, Usable
    <3>2. Types' /\ Starts'
      BY <2>1, <3>1 DEF Types, Starts, Phases, Looping, Files
    <3>3. OnDisk' /\ Submitted' /\ Absent' /\ NoGroupIsRepeated' /\ SupportLosesNothing'
      BY <2>1, <2>3, <3>1 DEF Types, OnDisk, Submitted, Absent, NoGroupIsRepeated,
                              SupportLosesNothing, Looping
    <3> QED BY <3>2, <3>3
  <2> QED BY <2>2, <2>3
<1>3. CASE ComputeGroup
  BY <1>3 DEF ComputeGroup, progress, Types, Starts, OnDisk, Submitted, Absent,
              NoGroupIsRepeated, SupportLosesNothing, Phases, Looping
<1> QED BY <1>1, <1>2, <1>3 DEF SequentialSteps

LEMMA PoolKeeps == DiscoveryIInv /\ PoolSteps => DiscoveryIInv'
<1> SUFFICES ASSUME DiscoveryIInv, PoolSteps PROVE DiscoveryIInv'
  OBVIOUS
<1> USE GroupNumbers, ReleaseIsNoOther DEF DiscoveryIInv, NoThreads, store, call
<1>1. CASE ProbeGroup
  <2>1. phase = "probe" /\ head \in Groups /\ poolSize > 1 /\ sent = {} /\ thread = NoThreads
    BY <1>1 DEF ProbeGroup, Types, Starts
  <2>2. UNCHANGED <<release, call, sent, thread, verdict, ended, compact>> /\ ended = "none"
    BY <1>1 DEF ProbeGroup, Starts
  <2>3. \/ head = NumGroups /\ head' = 1 /\ phase' = "submit"
        \/ head < NumGroups /\ head' = head + 1 /\ phase' = "probe"
    BY <1>1, <2>1 DEF ProbeGroup, Groups
  <2>4. \/ raw[head] = release /\ cached' = cached \cup {head} /\ raw' = raw
        \/ raw[head] # release /\ cached' = cached /\ raw' = [raw EXCEPT ![head] = NoFile]
    BY <1>1 DEF ProbeGroup, Usable
  <2>5. raw' \in [Groups -> Files] /\ cached' \subseteq Groups
    BY <2>1, <2>4 DEF Types, Files
  <2>6. Types' /\ Starts'
    BY <2>1, <2>2, <2>3, <2>5 DEF Types, Starts, Phases, Looping, Groups
  <2>7. /\ \A g \in cached' : raw'[g] = release
        /\ \A g \in Groups : g <= head /\ g \notin cached' => raw'[g] # release
    <3>1. \A g \in cached : raw[g] = release
      BY <2>1 DEF OnDisk
    <3>2. \A g \in Groups : g < head /\ g \notin cached => raw[g] # release
      BY <2>1 DEF Absent
    <3>3. \A g \in Groups : g <= head => g < head \/ g = head
      BY <2>1
    <3>4. CASE raw[head] = release
      BY <2>4, <3>1, <3>2, <3>3, <3>4
    <3>5. CASE raw[head] # release
      BY <2>1, <2>4, <3>1, <3>2, <3>3, <3>5 DEF Types
    <3> QED BY <3>4, <3>5
  <2>8. OnDisk' /\ Submitted' /\ Absent'
    BY <2>1, <2>2, <2>3, <2>7 DEF Types, OnDisk, Submitted, Absent, Looping, Groups
  <2>9. NoGroupIsRepeated' /\ SupportLosesNothing'
    BY <2>1, <2>2 DEF NoGroupIsRepeated, SupportLosesNothing
  <2> QED BY <2>6, <2>8, <2>9
<1>2. CASE ProbeFails
  <2>1. /\ phase = "probe" /\ phase' = "leave" /\ verdict' = "failed" /\ head' = 1
        /\ UNCHANGED <<release, call, cached, sent, thread, ended, store>>
    BY <1>2 DEF ProbeFails, Abandon
  <2>2. Types' /\ Starts'
    BY <2>1 DEF Types, Starts, Phases, Looping, Groups
  <2> QED
    BY <2>1, <2>2 DEF Types, Starts, OnDisk, Submitted, Absent, NoGroupIsRepeated,
                SupportLosesNothing, Looping, Groups
<1>3. CASE SubmitGroup
  <2>1. PICK g \in Groups : /\ NextUnsent(g) /\ sent' = sent \cup {g}
                           /\ thread' = [thread EXCEPT ![g] = "running"]
    BY <1>3 DEF SubmitGroup
  <2>2. /\ phase = "submit" /\ poolSize > 1
        /\ UNCHANGED <<release, call, phase, head, cached, verdict, ended, store>>
    BY <1>3 DEF SubmitGroup, Starts
  <2>3. g \notin cached /\ g \notin sent /\ g >= head /\ raw[g] # release
    <3>1. g \notin cached /\ g \notin sent
      BY <2>1 DEF NextUnsent, Unsent, Uncached
    <3>2. g >= head
      BY <2>2, <3>1 DEF Submitted, Types
    <3> QED BY <2>2, <3>1, <3>2 DEF Absent
  <2>4. Types' /\ Starts'
    BY <2>1, <2>2 DEF Types, Starts, Phases, Looping
  <2>5. Submitted'
    BY <2>1, <2>2, <2>3 DEF Submitted, NextUnsent, Unsent, Uncached, Types
  <2>6. OnDisk' /\ Absent' /\ NoGroupIsRepeated' /\ SupportLosesNothing'
    BY <2>1, <2>2, <2>3 DEF Types, OnDisk, Absent, NoGroupIsRepeated, SupportLosesNothing
  <2> QED BY <2>4, <2>5, <2>6
<1>4. CASE RefuseSubmission \/ FutureFails \/ FutureExpires
  <2>1. /\ phase \in {"submit", "group"} /\ poolSize > 1
        /\ phase' = "leave" /\ verdict' \in {"stopped", "failed"}
        /\ UNCHANGED <<release, call, head, cached, sent, thread, ended, store>>
    BY <1>4 DEF RefuseSubmission, FutureFails, FutureExpires, Pooled, Abandon, Starts
  <2> QED
    BY <2>1 DEF Types, Starts, OnDisk, Submitted, Absent, NoGroupIsRepeated,
                SupportLosesNothing, Phases, Looping
<1>5. CASE EndSubmission
  <2>1. Unsent = {} \/ Outstanding # {}
    BY <1>5, WaitsForSomething DEF EndSubmission
  <2> QED
    BY <1>5, <2>1 DEF EndSubmission, progress, Types, Starts, OnDisk, Submitted, Absent,
                      NoGroupIsRepeated, SupportLosesNothing, Phases, Looping, Unsent, Uncached,
                      Outstanding
<1>6. CASE TakeCached
  BY <1>6 DEF TakeCached, Pooled, progress, Types, Starts, OnDisk, Submitted, Absent,
              NoGroupIsRepeated, SupportLosesNothing, Phases, Looping, Uncached
<1>7. CASE TakeFuture
  <2>1. phase = "group" /\ poolSize > 1 /\ head \in Groups /\ phase' = "save"
        /\ thread[head] = "done"
        /\ thread' = [thread EXCEPT ![head] = "none"]
        /\ UNCHANGED <<release, call, head, cached, sent, verdict, ended, store>>
    BY <1>7 DEF TakeFuture, Pooled
  <2>2. Types' /\ Starts'
    BY <2>1 DEF Types, Starts, Phases, Looping
  <2>3. Submitted'
    BY <2>1 DEF Types, Submitted, Uncached
  <2>4. OnDisk' /\ Absent' /\ NoGroupIsRepeated' /\ SupportLosesNothing'
    BY <2>1 DEF Types, OnDisk, Absent, NoGroupIsRepeated, SupportLosesNothing, Looping
  <2> QED BY <2>2, <2>3, <2>4
<1>8. ASSUME NEW g \in Groups, ThreadEnds(g) PROVE DiscoveryIInv'
  <2>1. PICK r \in {"done", "failed"} : thread' = [thread EXCEPT ![g] = r]
    BY <1>8 DEF ThreadEnds
  <2>2. /\ thread[g] = "running"
        /\ UNCHANGED <<release, call, phase, head, cached, sent, verdict, ended, store>>
    BY <1>8 DEF ThreadEnds
  <2>3. \A h \in Groups : thread'[h] # "none" <=> thread[h] # "none"
    BY <2>1, <2>2 DEF Types
  <2>4. thread # NoThreads /\ Outstanding' = Outstanding /\ Unsent' = Unsent
    BY <2>2, <2>3 DEF Outstanding, Unsent, Uncached, Types
  <2>5. Types' /\ Starts'
    BY <2>1, <2>2, <2>4 DEF Types, Starts
  <2>6. Submitted'
    <3> HIDE DEF NoThreads
    <3> QED BY <2>2, <2>3, <2>4 DEF Submitted, Types, Uncached
  <2>7. OnDisk' /\ Absent' /\ NoGroupIsRepeated' /\ SupportLosesNothing'
    BY <2>1, <2>2 DEF Types, OnDisk, Absent, NoGroupIsRepeated, SupportLosesNothing
  <2> QED BY <2>5, <2>6, <2>7
<1> QED BY <1>1, <1>2, <1>3, <1>4, <1>5, <1>6, <1>7, <1>8 DEF PoolSteps

LEMMA GroupsKeep == DiscoveryIInv /\ GroupSteps => DiscoveryIInv'
<1> SUFFICES ASSUME DiscoveryIInv, GroupSteps PROVE DiscoveryIInv'
  OBVIOUS
<1> USE GroupNumbers, ReleaseIsNoOther DEF DiscoveryIInv, NoThreads, store, call
<1>1. CASE SaveFragment
  <2>1. phase = "save" /\ head \in Groups /\ phase' = "consume"
        /\ raw' = [raw EXCEPT ![head] = release]
        /\ UNCHANGED <<release, call, progress, ended, compact>>
    BY <1>1 DEF SaveFragment, Types
  <2> USE DEF progress
  <2>2. Types' /\ Starts'
    BY <2>1 DEF Types, Starts, Phases, Looping, Files
  <2>3. Submitted' /\ Absent'
    BY <2>1 DEF Types, Submitted, Absent, Uncached
  <2>4. OnDisk' /\ SupportLosesNothing'
    BY <2>1 DEF Types, Starts, OnDisk, SupportLosesNothing, Looping
  <2>5. NoGroupIsRepeated'
    <3>1. poolSize = 1 \/ poolSize > 1
      BY DEF Types
    <3> QED BY <2>1, <3>1 DEF Types, Starts, Submitted, NoGroupIsRepeated
  <2> QED BY <2>2, <2>3, <2>4, <2>5
<1>2. CASE ExceedCeiling
  BY <1>2 DEF ExceedCeiling, Abandon, Types, Starts, OnDisk, Submitted, Absent,
              NoGroupIsRepeated, SupportLosesNothing, Phases, Looping
<1>3. CASE QuarantinePayload
  <2>1. phase = "consume" /\ head \in Groups /\ compact' = [compact EXCEPT ![head] = NoFile]
        /\ UNCHANGED <<release, call, phase, progress, ended, raw>>
    BY <1>3 DEF QuarantinePayload, Types
  <2> USE DEF progress
  <2>2. Types' /\ Starts'
    BY <2>1 DEF Types, Starts, Files
  <2>3. Submitted' /\ Absent' /\ NoGroupIsRepeated'
    BY <2>1 DEF Types, Submitted, Absent, NoGroupIsRepeated, Uncached
  <2>4. OnDisk' /\ SupportLosesNothing'
    BY <2>1 DEF Types, Starts, OnDisk, SupportLosesNothing, Looping
  <2> QED BY <2>2, <2>3, <2>4
<1>4. CASE ConsumeGroup
  <2>1. /\ phase = "consume" /\ head \in Groups /\ head' = head + 1
        /\ compact' = [compact EXCEPT ![head] = release]
        /\ phase' = IF poolSize = 1 THEN "group" ELSE "submit"
        /\ UNCHANGED <<release, call, cached, sent, thread, verdict, ended, raw>>
    BY <1>4 DEF ConsumeGroup, Types
  <2>2. Types' /\ Starts'
    BY <2>1 DEF Types, Starts, Phases, Looping, Files, Groups
  <2>3. Submitted' /\ Absent'
    BY <2>1 DEF Types, Submitted, Absent, Uncached
  <2>4. OnDisk' /\ SupportLosesNothing'
    BY <2>1 DEF Types, Starts, OnDisk, SupportLosesNothing, Looping
  <2>5. NoGroupIsRepeated'
    BY <2>1 DEF NoGroupIsRepeated
  <2> QED BY <2>2, <2>3, <2>4, <2>5
<1>5. CASE EndGroups
  <2>1. head = NumGroups + 1
    BY <1>5 DEF EndGroups, Types, Groups
  <2> QED
    BY <1>5, <2>1 DEF EndGroups, Abandon, Types, Starts, OnDisk, Submitted, Absent,
                NoGroupIsRepeated, SupportLosesNothing, Phases, Looping
<1>6. CASE LeaveGroups
  <2>1. /\ phase = "leave" /\ thread' = NoThreads
        /\ \/ phase' = "publish" /\ verdict = "complete" /\ UNCHANGED ended
           \/ phase' = "idle" /\ ended' = verdict
        /\ UNCHANGED <<release, call, head, cached, sent, verdict, store>>
    BY <1>6 DEF LeaveGroups, EndDiscovery
  <2>2. ended = "none" /\ verdict # "none"
    BY <2>1 DEF Starts
  <2>3. Types' /\ Starts'
    BY <2>1, <2>2 DEF Types, Starts, Phases, Looping
  <2>4. OnDisk' /\ SupportLosesNothing'
    BY <2>1 DEF Types, OnDisk, SupportLosesNothing, Looping
  <2>5. Submitted' /\ Absent' /\ NoGroupIsRepeated'
    BY <2>1 DEF Submitted, Absent, NoGroupIsRepeated
  <2> QED BY <2>3, <2>4, <2>5
<1> QED BY <1>1, <1>2, <1>3, <1>4, <1>5, <1>6 DEF GroupSteps
--------------------------------------------------------------------------------
LEMMA DiscoveryIsInductive == DiscoverySpec => []DiscoveryIInv
<1>1. DiscoveryIInv /\ [DiscoveryNext]_discoveryVars => DiscoveryIInv'
  <2>1. DiscoveryIInv /\ UNCHANGED discoveryVars => DiscoveryIInv'
    BY DEF discoveryVars, call, progress, store, DiscoveryIInv, Types, Starts, OnDisk, Submitted,
           Absent, SupportLosesNothing, NoGroupIsRepeated, Uncached, Unsent, Outstanding
  <2> QED
    BY <2>1, CallerKeeps, IndexKeeps, SequentialKeeps, PoolKeeps, GroupsKeep DEF DiscoveryNext
<1> QED BY <1>1, DiscoveryInitHolds, PTL DEF DiscoverySpec

\* However a call ends, what it consumed is on disk for the next one, whatever
\* crashed, failed, expired or was damaged before.
THEOREM SupportIsKept == DiscoverySpec => []SupportLosesNothing
<1>1. DiscoveryIInv => SupportLosesNothing
  BY DEF DiscoveryIInv
<1> QED BY <1>1, DiscoveryIsInductive, PTL

\* The pop of the pending dictionary finds the group whose turn it is: were it
\* neither cached nor outstanding, something after it would be, and the groups
\* are submitted in order.
THEOREM HeadIsFound == DiscoverySpec => []HeadIsPending
<1>1. DiscoveryIInv => HeadIsPending
  <2> SUFFICES ASSUME DiscoveryIInv, Pooled, head \notin cached, thread[head] = "none"
               PROVE  FALSE
    BY DEF HeadIsPending
  <2> USE GroupNumbers
  <2>1. phase = "group" /\ poolSize > 1 /\ head \in Groups /\ head \in Uncached
    BY DEF Pooled, Uncached
  <2>2. head \notin sent
    BY <2>1 DEF DiscoveryIInv, Submitted
  <2>3. Outstanding # {}
    BY <2>1, <2>2 DEF DiscoveryIInv, Submitted, Unsent
  <2>4. PICK g \in Groups : thread[g] # "none"
    BY <2>3 DEF Outstanding
  <2>5. g \in sent /\ g > head
    <3>1. g >= head /\ g # head /\ g \in sent
      BY <2>1, <2>4 DEF DiscoveryIInv, Submitted
    <3> QED BY <2>1, <3>1
  <2> QED BY <2>1, <2>2, <2>5 DEF DiscoveryIInv, Submitted
<1> QED BY <1>1, DiscoveryIsInductive, PTL

\* No thread computes a group whose fragment a former call left on disk.
THEOREM NothingIsRepeated == DiscoverySpec => []NoGroupIsRepeated
<1>1. DiscoveryIInv => NoGroupIsRepeated
  BY DEF DiscoveryIInv
<1> QED BY <1>1, DiscoveryIsInductive, PTL

\* The index is only written over payloads of its own release.
THEOREM IndexIsWritten == DiscoverySpec => IndexIsHonest
<1>1. ASSUME DiscoveryIInv, [DiscoveryNext]_discoveryVars, index' \notin {index, NoFile, Garbled}
      PROVE  index' = release /\ IndexedPayloads
  <2>1. PublishIndex
    BY <1>1 DEF DiscoveryNext, discoveryVars, CallerSteps, IndexSteps, SequentialSteps, PoolSteps,
       GroupSteps, StartDiscovery, Dismiss, DiscoveryCrash, PassDue, Deteriorate,
       StopBeforeSupport, UseIndex, RefuseIndex, Discover, RefuseGroup, OpenFragment, StopInGroup,
       ComputeGroup, GroupFails, ProbeGroup, ProbeFails, SubmitGroup, RefuseSubmission,
       EndSubmission, TakeCached, TakeFuture, FutureFails, FutureExpires, ThreadEnds, SaveFragment,
       ExceedCeiling, QuarantinePayload, ConsumeGroup, EndGroups, LeaveGroups, store
  <2>2. phase = "publish" /\ index' = release
    BY <2>1 DEF PublishIndex
  <2>3. head = NumGroups + 1 /\ phase \in Looping
    BY <1>1, <2>2 DEF DiscoveryIInv, OnDisk, Looping
  <2>4. \A g \in Groups : g < head
    BY <2>3, GroupNumbers DEF Groups
  <2> QED BY <1>1, <2>2, <2>3, <2>4 DEF DiscoveryIInv, OnDisk, IndexedPayloads
<1> QED BY <1>1, DiscoveryIsInductive, PTL DEF DiscoverySpec, IndexIsHonest

--------------------------------------------------------------------------------
(* The block operator cache: sequences without repetition *)

\* The entries of a sequence.
LEMMA SeqEntries ==
  ASSUME NEW S, NEW s \in Seq(S)
  PROVE  /\ Len(s) \in Nat /\ DOMAIN s = 1 .. Len(s)
         /\ \A i \in 1 .. Len(s) : s[i] \in S
         /\ Range(s) = {s[i] : i \in 1 .. Len(s)} /\ Range(s) \subseteq S
<1>1. Len(s) \in Nat /\ DOMAIN s = 1 .. Len(s)
  BY LenProperties
<1>2. \A i \in 1 .. Len(s) : s[i] \in S
  BY ElementOfSeq
<1>3. Range(s) = {s[i] : i \in 1 .. Len(s)}
  BY <1>1 DEF Range
<1>4. Range(s) \subseteq S
  BY <1>2, <1>3
<1> QED BY <1>1, <1>2, <1>3, <1>4, Zenon

\* An entry taken out leaves the others in their order.
LEMMA WithoutKeepsOrder ==
  ASSUME NEW S, NEW s \in Seq(S), IsInjective(s), NEW b
  PROVE  /\ Without(s, b) \in Seq(S) /\ b \notin Range(Without(s, b))
         /\ Range(s) \subseteq Range(Without(s, b)) \cup {b}
         /\ \E from \in [1 .. Len(Without(s, b)) -> 1 .. Len(s)] :
              /\ \A i \in 1 .. Len(Without(s, b)) : Without(s, b)[i] = s[from[i]]
              /\ \A i, j \in 1 .. Len(Without(s, b)) : i < j => from[i] < from[j]
<1>0. /\ Len(s) \in Nat /\ DOMAIN s = 1 .. Len(s)
      /\ \A i \in 1 .. Len(s) : s[i] \in S
      /\ Range(s) = {s[i] : i \in 1 .. Len(s)}
  BY SeqEntries
<1>1. CASE b \notin Range(s)
  <2>1. Without(s, b) = s
    BY <1>1 DEF Without
  <2> DEFINE from == [i \in 1 .. Len(s) |-> i]
  <2>2. /\ from \in [1 .. Len(s) -> 1 .. Len(s)] /\ \A i \in 1 .. Len(s) : s[i] = s[from[i]]
        /\ \A i, j \in 1 .. Len(s) : i < j => from[i] < from[j]
    OBVIOUS
  <2> HIDE DEF from
  <2> QED BY <1>1, <2>1, <2>2
<1>2. CASE b \in Range(s)
  <2> DEFINE n == CHOOSE m \in DOMAIN s : s[m] = b
             front == SubSeq(s, 1, n - 1)
             back == SubSeq(s, n + 1, Len(s))
             t == front \o back
             from == [i \in 1 .. Len(s) - 1 |-> IF i < n THEN i ELSE i + 1]
  <2>1. n \in 1 .. Len(s) /\ s[n] = b
    BY <1>0, <1>2
  <2>2. Without(s, b) = t
    BY <1>2 DEF Without, RemoveAt
  <2> HIDE DEF n
  <2>3. front \in Seq(S) /\ Len(front) = n - 1 /\ \A i \in 1 .. n - 1 : front[i] = s[i]
    <3>1. n - 1 \in Int /\ 1 \in Int /\ \A i \in 1 .. n - 1 : s[i] \in S
      BY <1>0, <2>1
    <3>2. front \in Seq(S) /\ Len(front) = IF 1 <= n - 1 THEN n - 1 - 1 + 1 ELSE 0
      BY <3>1, SubSeqProperties
    <3>3. \A i \in 1 .. n - 1 - 1 + 1 : front[i] = s[1 + i - 1]
      BY <3>1, SubSeqProperties
    <3>4. \A i \in 1 .. n - 1 : i \in 1 .. n - 1 - 1 + 1 /\ 1 + i - 1 = i
      BY <2>1
    <3> HIDE DEF front
    <3> QED BY <2>1, <3>2, <3>3, <3>4
  <2>4. back \in Seq(S) /\ Len(back) = Len(s) - n /\ \A i \in 1 .. Len(s) - n : back[i] = s[n + i]
    <3>1. n + 1 \in Int /\ Len(s) \in Int /\ \A i \in n + 1 .. Len(s) : s[i] \in S
      BY <1>0, <2>1
    <3>2. back \in Seq(S) /\ Len(back) = IF n + 1 <= Len(s) THEN Len(s) - (n + 1) + 1 ELSE 0
      BY <3>1, SubSeqProperties
    <3>3. \A i \in 1 .. Len(s) - (n + 1) + 1 : back[i] = s[n + 1 + i - 1]
      BY <3>1, SubSeqProperties
    <3>4. \A i \in 1 .. Len(s) - n : i \in 1 .. Len(s) - (n + 1) + 1 /\ n + 1 + i - 1 = n + i
      BY <1>0, <2>1
    <3>5. (IF n + 1 <= Len(s) THEN Len(s) - (n + 1) + 1 ELSE 0) = Len(s) - n
      <4>1. PICK m \in Nat : m = Len(s)
        BY <1>0
      <4>2. n \in 1 .. m
        BY <2>1, <4>1
      <4>3. (IF n + 1 <= m THEN m - (n + 1) + 1 ELSE 0) = m - n
        BY <4>2
      <4> QED BY <4>1, <4>3
    <3> HIDE DEF back
    <3>6. back \in Seq(S) /\ Len(back) = Len(s) - n
      BY <3>2, <3>5
    <3>7. \A i \in 1 .. Len(s) - n : back[i] = s[n + i]
      BY <3>3, <3>4
    <3> QED BY <3>6, <3>7
  <2> HIDE DEF front, back
  <2>5. t \in Seq(S)
    BY <2>3, <2>4, ConcatProperties
  <2>6. Len(t) = Len(s) - 1
    <3>1. Len(t) = Len(front) + Len(back)
      BY <2>3, <2>4, ConcatProperties
    <3> QED BY <1>0, <2>1, <2>3, <2>4, <3>1
  <2>7. ASSUME NEW i \in 1 .. Len(s) - 1 PROVE from[i] \in 1 .. Len(s) /\ t[i] = s[from[i]]
    <3>1. from[i] = (IF i < n THEN i ELSE i + 1) /\ from[i] \in 1 .. Len(s)
      BY <1>0, <2>1
    <3> HIDE DEF from
    <3>2. Len(front) + Len(back) = Len(s) - 1
      BY <1>0, <2>1, <2>3, <2>4
    <3>3. t[i] = IF i <= Len(front) THEN front[i] ELSE back[i - Len(front)]
      <4>1. i \in 1 .. Len(front) + Len(back)
        BY <3>2
      <4> QED BY <2>3, <2>4, <4>1, ConcatProperties
    <3> HIDE DEF t
    <3>4. CASE i < n
      <4>1. i <= n - 1 /\ i \in 1 .. n - 1
        BY <2>1, <3>4
      <4> QED BY <2>3, <3>1, <3>3, <3>4, <4>1
    <3>5. CASE ~ (i < n)
      <4>1. ~ (i <= n - 1) /\ i - (n - 1) \in 1 .. Len(s) - n /\ n + (i - (n - 1)) = i + 1
        BY <1>0, <2>1, <3>5
      <4>2. t[i] = back[i - (n - 1)]
        BY <2>3, <3>3, <4>1
      <4> QED BY <2>4, <3>1, <3>5, <4>1, <4>2
    <3> QED BY <3>4, <3>5
  <2>8. from \in [1 .. Len(s) - 1 -> 1 .. Len(s)]
    BY <2>7
  <2>9. \A i, j \in 1 .. Len(s) - 1 : i < j => from[i] < from[j]
    BY <1>0, <2>1
  <2>10. DOMAIN t = 1 .. Len(s) - 1
    BY <2>5, <2>6, LenProperties
  <2>11. b \notin Range(t)
    <3>1. \A i \in 1 .. Len(s) - 1 : from[i] # n
      BY <1>0, <2>1
    <3>2. \A i \in 1 .. Len(s) - 1 : s[from[i]] # s[n]
      <4> HIDE DEF from
      <4> QED BY <1>0, <2>1, <2>8, <3>1 DEF IsInjective
    <3> HIDE DEF from, t
    <3> QED BY <2>1, <2>7, <2>10, <3>2 DEF Range
  <2>12. Range(s) \subseteq Range(t) \cup {b}
    <3> SUFFICES ASSUME NEW k \in 1 .. Len(s), k # n PROVE s[k] \in Range(t)
      BY <1>0, <2>1
    <3>1. PICK i \in 1 .. Len(s) - 1 : from[i] = k
      <4>1. CASE k < n
        <5>1. k \in 1 .. Len(s) - 1 /\ from[k] = k
          BY <1>0, <2>1, <4>1
        <5> QED BY <5>1
      <4>2. CASE ~ (k < n)
        <5>1. k - 1 \in 1 .. Len(s) - 1 /\ from[k - 1] = k
          BY <1>0, <2>1, <4>2
        <5> QED BY <5>1
      <4> QED BY <4>1, <4>2
    <3> HIDE DEF from, t
    <3> QED BY <2>7, <2>10, <3>1 DEF Range
  <2> HIDE DEF from, t
  <2> QED BY <2>2, <2>5, <2>6, <2>7, <2>8, <2>9, <2>11, <2>12
<1> QED BY <1>1, <1>2
--------------------------------------------------------------------------------
(* The block operator cache: handles in use sit at the recent end *)

\* A set of naturals has the least member that Min chooses.
LEMMA LeastOfSet ==
  ASSUME NEW S \in SUBSET Nat, S # {}
  PROVE  Min(S) \in S /\ \A m \in S : Min(S) <= m
<1>1. PICK k \in S : TRUE
  OBVIOUS
<1> DEFINE Least == \E x \in S : \A y \in S : x <= y
           Good == {n \in 0 .. k : (\E m \in S : m <= n) => Least}
<1>2. k \in Nat
  BY <1>1
<1>3. 0 \in Good
  <2>1. ASSUME NEW m \in S, m <= 0 PROVE \A y \in S : m <= y
    BY <2>1
  <2> QED BY <1>2, <2>1
<1>4. ASSUME NEW n \in 1 .. k, n - 1 \in Good PROVE n \in Good
  <2>1. ASSUME NEW m \in S, m <= n PROVE Least
    <3>1. CASE \E l \in S : l <= n - 1
      BY <1>4, <3>1
    <3>2. CASE ~ \E l \in S : l <= n - 1
      <4>1. \A y \in S : m <= y
        BY <2>1, <3>2
      <4> QED BY <4>1
    <3> QED BY <3>1, <3>2
  <2> HIDE DEF Least
  <2> QED BY <1>4, <2>1
<1>5. 0 .. k \subseteq Good
  <2> HIDE DEF Good
  <2> QED BY <1>2, <1>3, <1>4, IntervalInduction
<1>6. Least
  <2> HIDE DEF Least
  <2> QED BY <1>1, <1>2, <1>5
<1> QED BY <1>6 DEF Min

\* Part of what fits the retention limits fits them.
LEMMA FitsSubset ==
  ASSUME NEW T \in SUBSET Blocks, NEW S \in SUBSET T, Fits(T)
  PROVE  Fits(S)
<1>1. IsFiniteSet(T) /\ IsFiniteSet(S)
  BY CacheAssumption, FS_Subset
<1>2. Cardinality(S) \in Nat /\ Cardinality(T) \in Nat /\ Cardinality(S) <= Cardinality(T)
  BY <1>1, FS_Subset, FS_CardinalityType
<1>3. SumFunctionOnSet(Bytes, S) <= SumFunctionOnSet(Bytes, T)
  BY <1>1, CacheAssumption, SumMonotone
<1>4. SumFunctionOnSet(Bytes, S) \in Nat /\ SumFunctionOnSet(Bytes, T) \in Nat
  BY <1>1, CacheAssumption, SumType
<1> QED BY <1>2, <1>3, <1>4, CacheAssumption DEF Fits, TotalBytes

LEMMA FitsEmpty == Fits({})
<1>1. Cardinality({}) = 0
  BY FS_EmptySet
<1>2. SumFunctionOnSet(Bytes, {}) = 0
  BY FS_EmptySet, SumRecursion
<1> QED BY <1>1, <1>2, CacheAssumption DEF Fits, TotalBytes

\* Everything in s after a member of A is a member of A.
AtEnd(s, A) == \A i, j \in 1 .. Len(s) : i < j /\ s[i] \in A => s[j] \in A

\* Taking an entry out, adding one, and dropping the oldest keep the entries
\* distinct and the members of A at the end.
LEMMA WithoutEntry ==
  ASSUME NEW S, NEW s \in Seq(S), IsInjective(s), NEW b, NEW A, AtEnd(s, A)
  PROVE  LET t == Without(s, b)
         IN  /\ t \in Seq(S) /\ IsInjective(t) /\ AtEnd(t, A)
             /\ b \notin Range(t) /\ Range(t) \subseteq Range(s)
             /\ Range(s) \subseteq Range(t) \cup {b}
<1> DEFINE t == Without(s, b)
<1>1. t \in Seq(S) /\ b \notin Range(t) /\ Range(s) \subseteq Range(t) \cup {b}
  BY WithoutKeepsOrder
<1>2. PICK from \in [1 .. Len(t) -> 1 .. Len(s)] :
        /\ \A i \in 1 .. Len(t) : t[i] = s[from[i]]
        /\ \A i, j \in 1 .. Len(t) : i < j => from[i] < from[j]
  BY WithoutKeepsOrder
<1> HIDE DEF t
<1>3. /\ Len(t) \in Nat /\ DOMAIN t = 1 .. Len(t) /\ Range(t) = {t[i] : i \in 1 .. Len(t)}
      /\ Len(s) \in Nat /\ DOMAIN s = 1 .. Len(s) /\ Range(s) = {s[i] : i \in 1 .. Len(s)}
  BY <1>1, SeqEntries
<1>4. Range(t) \subseteq Range(s)
  BY <1>2, <1>3
<1>5. IsInjective(t)
  <2> SUFFICES ASSUME NEW i \in 1 .. Len(t), NEW j \in 1 .. Len(t), t[i] = t[j] PROVE i = j
    BY <1>3 DEF IsInjective
  <2>1. from[i] = from[j]
    BY <1>2, <1>3 DEF IsInjective
  <2>2. from[i] \in Int /\ i \in Int /\ j \in Int
    BY <1>2, <1>3
  <2> QED BY <1>2, <2>1, <2>2
<1>6. AtEnd(t, A)
  BY <1>2 DEF AtEnd
<1> QED BY <1>1, <1>4, <1>5, <1>6 DEF t

LEMMA AppendedEntry ==
  ASSUME NEW S, NEW s \in Seq(S), IsInjective(s), NEW b \in S, b \notin Range(s),
         NEW A, AtEnd(s, A)
  PROVE  LET t == Append(s, b)
         IN  /\ t \in Seq(S) /\ IsInjective(t) /\ AtEnd(t, A \cup {b})
             /\ Range(t) = Range(s) \cup {b}
<1> DEFINE t == Append(s, b)
<1>1. /\ t \in Seq(S) /\ Len(t) = Len(s) + 1
      /\ \A i \in 1 .. Len(s) : t[i] = s[i]
      /\ t[Len(s) + 1] = b
  BY AppendProperties
<1> HIDE DEF t
<1>2. /\ DOMAIN t = 1 .. Len(t) /\ Range(t) = {t[i] : i \in 1 .. Len(t)}
      /\ DOMAIN s = 1 .. Len(s) /\ Range(s) = {s[i] : i \in 1 .. Len(s)}
  BY <1>1, SeqEntries
<1>3. PICK m \in Nat : m = Len(s)
  BY SeqEntries
<1>4. 1 .. m + 1 = 1 .. m \cup {m + 1} /\ m + 1 \notin 1 .. m
  OBVIOUS
<1>5. Range(t) = Range(s) \cup {b}
  BY <1>1, <1>2, <1>3, <1>4
<1>6. IsInjective(t)
  <2> SUFFICES ASSUME NEW i \in 1 .. m + 1, NEW j \in 1 .. m + 1, t[i] = t[j] PROVE i = j
    BY <1>1, <1>2, <1>3 DEF IsInjective
  <2>1. \A k \in 1 .. m : t[k] = s[k] /\ s[k] # b
    BY <1>1, <1>2, <1>3
  <2>2. t[m + 1] = b
    BY <1>1, <1>3
  <2>3. CASE i \in 1 .. m /\ j \in 1 .. m
    BY <1>2, <1>3, <2>1, <2>3 DEF IsInjective
  <2> QED BY <1>4, <2>1, <2>2, <2>3
<1>7. AtEnd(t, A \cup {b})
  <2> SUFFICES ASSUME NEW i \in 1 .. m + 1, NEW j \in 1 .. m + 1, i < j, t[i] \in A \cup {b}
               PROVE  t[j] \in A \cup {b}
    BY <1>1, <1>3 DEF AtEnd
  <2>1. i \in 1 .. m
    OBVIOUS
  <2>2. t[i] = s[i] /\ s[i] \in A
    BY <1>1, <1>2, <1>3, <2>1
  <2>3. CASE j \in 1 .. m
    BY <1>1, <1>3, <2>1, <2>2, <2>3 DEF AtEnd
  <2>4. CASE j = m + 1
    BY <1>1, <1>3, <2>4
  <2> QED BY <1>4, <2>3, <2>4
<1> QED BY <1>1, <1>5, <1>6, <1>7 DEF t

\* What remains when the n oldest entries are dropped.
LEMMA DroppedEntries ==
  ASSUME NEW S, NEW s \in Seq(S), IsInjective(s), NEW A, AtEnd(s, A), NEW n \in 0 .. Len(s)
  PROVE  LET t == SubSeq(s, n + 1, Len(s))
         IN  /\ t \in Seq(S) /\ IsInjective(t) /\ AtEnd(t, A)
             /\ Range(t) = {s[i] : i \in n + 1 .. Len(s)}
<1> DEFINE t == SubSeq(s, n + 1, Len(s))
<1>1. PICK m \in Nat : m = Len(s)
  BY SeqEntries
<1>2. n \in 0 .. m /\ n + 1 \in Int /\ \A i \in n + 1 .. m : s[i] \in S
  <2>1. n \in 0 .. m
    BY <1>1
  <2>2. \A i \in n + 1 .. m : i \in 1 .. m
    BY <2>1
  <2>3. \A i \in 1 .. m : s[i] \in S
    BY <1>1, SeqEntries
  <2> QED BY <2>1, <2>2, <2>3
<1>3. /\ t \in Seq(S) /\ Len(t) = IF n + 1 <= m THEN m - (n + 1) + 1 ELSE 0
      /\ \A i \in 1 .. m - (n + 1) + 1 : t[i] = s[n + 1 + i - 1]
  <2>1. \A i \in n + 1 .. Len(s) : s[i] \in S
    BY <1>1, <1>2
  <2>2. /\ t \in Seq(S) /\ Len(t) = IF n + 1 <= Len(s) THEN Len(s) - (n + 1) + 1 ELSE 0
        /\ \A i \in 1 .. Len(s) - (n + 1) + 1 : t[i] = s[n + 1 + i - 1]
    <3>1. n + 1 \in Int /\ Len(s) \in Int
      BY <1>1, <1>2
    <3> QED BY <2>1, <3>1, SubSeqProperties
  <2> HIDE DEF t
  <2> QED BY <1>1, <2>2
<1> HIDE DEF t
<1>4. Len(t) = m - n /\ \A i \in 1 .. m - n : t[i] = s[n + i] /\ n + i \in 1 .. m
  <2>1. /\ (IF n + 1 <= m THEN m - (n + 1) + 1 ELSE 0) = m - n
        /\ \A i \in 1 .. m - n : i \in 1 .. m - (n + 1) + 1 /\ n + 1 + i - 1 = n + i
                                 /\ n + i \in 1 .. m
    BY <1>2
  <2> QED BY <1>3, <2>1
<1>5. /\ DOMAIN t = 1 .. m - n /\ Range(t) = {t[i] : i \in 1 .. m - n} /\ DOMAIN s = 1 .. m
  BY <1>1, <1>3, <1>4, SeqEntries
<1>6. Range(t) = {s[i] : i \in n + 1 .. m}
  <2>1. \A i \in n + 1 .. m : i - n \in 1 .. m - n /\ n + (i - n) = i
    BY <1>2
  <2>2. \A i \in 1 .. m - n : n + i \in n + 1 .. m
    BY <1>2
  <2>3. \A i \in n + 1 .. m : t[i - n] = s[i]
    BY <1>4, <2>1
  <2>4. ASSUME NEW i \in n + 1 .. m PROVE s[i] \in Range(t)
    <3>1. i - n \in 1 .. m - n /\ t[i - n] = s[i]
      BY <2>1, <2>3
    <3> QED BY <1>5, <3>1
  <2>5. ASSUME NEW i \in 1 .. m - n PROVE t[i] \in {s[k] : k \in n + 1 .. m}
    BY <1>4, <2>2
  <2> QED BY <1>5, <2>4, <2>5
<1>7. IsInjective(t)
  <2> SUFFICES ASSUME NEW i \in 1 .. m - n, NEW j \in 1 .. m - n, t[i] = t[j] PROVE i = j
    BY <1>5 DEF IsInjective
  <2>1. n + i = n + j
    BY <1>4, <1>5 DEF IsInjective
  <2> QED BY <1>2, <2>1
<1>8. AtEnd(t, A)
  <2> SUFFICES ASSUME NEW i \in 1 .. m - n, NEW j \in 1 .. m - n, i < j, t[i] \in A
               PROVE  t[j] \in A
    BY <1>4 DEF AtEnd
  <2>1. n + i < n + j
    BY <1>2
  <2> QED BY <1>1, <1>4, <2>1 DEF AtEnd
<1> QED BY <1>1, <1>3, <1>6, <1>7, <1>8 DEF t

\* If the end of s that lies in A would fit, dropping the oldest entries until
\* the rest fits drops no member of A.
LEMMA FittingEndIsKept ==
  ASSUME NEW s \in Seq(Blocks), IsInjective(s), NEW A, AtEnd(s, A), A # {}, A \subseteq Range(s),
         Fits(A)
  PROVE  LET dropped == Min({n \in 0 .. Len(s) : Fits(Range(SubSeq(s, n + 1, Len(s))))})
         IN  A \subseteq Range(SubSeq(s, dropped + 1, Len(s)))
<1> DEFINE Rest(n) == Range(SubSeq(s, n + 1, Len(s)))
           Enough == {n \in 0 .. Len(s) : Fits(Rest(n))}
           At == {i \in 1 .. Len(s) : s[i] \in A}
<1>1. PICK m \in Nat : m = Len(s)
  BY SeqEntries
<1>2. Range(s) = {s[i] : i \in 1 .. m} /\ Range(s) \subseteq Blocks
  BY <1>1, SeqEntries
<1>3. \A n \in 0 .. m : Rest(n) = {s[i] : i \in n + 1 .. m}
  BY <1>1, DroppedEntries
<1> HIDE DEF Rest
<1>4. PICK first \in At : \A i \in At : first <= i
  <2>1. At # {} /\ At \in SUBSET Nat
    BY <1>1, <1>2
  <2> HIDE DEF At
  <2> QED BY <2>1, LeastOfSet
<1>5. first \in 1 .. m /\ first - 1 \in 0 .. m /\ (first - 1) + 1 = first
  BY <1>1, <1>4
<1>6. \A i \in first .. m : s[i] \in A
  <2> SUFFICES ASSUME NEW i \in first .. m PROVE s[i] \in A
    OBVIOUS
  <2>1. s[first] \in A
    BY <1>4
  <2>2. i = first \/ (i \in 1 .. m /\ first < i)
    BY <1>5
  <2> QED BY <1>1, <1>5, <2>1, <2>2 DEF AtEnd
<1>7. Rest(first - 1) \subseteq A
  BY <1>3, <1>5, <1>6
<1>8. first - 1 \in Enough
  <2>1. Fits(Rest(first - 1))
    BY <1>2, <1>7, FitsSubset
  <2> QED BY <1>1, <1>5, <2>1
<1>9. PICK n \in Enough : n = Min(Enough) /\ n <= first - 1
  <2>1. Enough # {} /\ Enough \in SUBSET Nat
    BY <1>1, <1>8
  <2> HIDE DEF Enough
  <2> QED BY <1>8, <2>1, LeastOfSet
<1>10. A \subseteq Rest(n)
  <2> SUFFICES ASSUME NEW i \in 1 .. m, s[i] \in A PROVE s[i] \in Rest(n)
    BY <1>2
  <2>1. first <= i
    BY <1>1, <1>4
  <2>2. n \in 0 .. m /\ i \in n + 1 .. m
    BY <1>1, <1>5, <1>9, <2>1
  <2> QED BY <1>3, <2>2
<1> QED BY <1>9, <1>10 DEF Rest

\* The handles in use are the most recently used entries, and nothing that is
\* being loaded is retained.
CacheInv ==
  /\ CacheTypeOK
  /\ looking \cap Range(retained) = {}
  /\ AtEnd(retained, held)
  /\ HeldHandlesAreUsable

LEMMA CacheInvInit == CacheInit => CacheInv
<1> SUFFICES ASSUME CacheInit PROVE CacheInv
  OBVIOUS
<1> DEFINE s == <<>>
<1>1. s \in Seq(Blocks) /\ Len(s) = 0
  OBVIOUS
<1>2. DOMAIN s = {} /\ Range(s) = {}
  BY DEF Range
<1>3. retained = s
  BY DEF CacheInit
<1> HIDE DEF s
<1>4. CacheTypeOK
  BY <1>1, <1>2, <1>3 DEF CacheInit, CacheTypeOK, IsInjective
<1>5. AtEnd(retained, held)
  BY <1>1, <1>3 DEF AtEnd
<1> QED BY <1>4, <1>5 DEF CacheInit, CacheInv, HeldHandlesAreUsable

LEMMA CacheInvStep == CacheInv /\ [CacheNext]_cacheVars => CacheInv'
<1> SUFFICES ASSUME CacheInv, [CacheNext]_cacheVars PROVE CacheInv'
  OBVIOUS
<1> USE DEF CacheInv, CacheTypeOK, HeldHandlesAreUsable
<1>0. /\ batch \subseteq Blocks /\ looking \subseteq batch /\ broken \subseteq held
      /\ held \subseteq batch /\ raised \subseteq batch
      /\ retained \in Seq(Blocks) /\ IsInjective(retained)
      /\ looking \cap Range(retained) = {} /\ AtEnd(retained, held)
      /\ Fits(batch) => broken = {}
  OBVIOUS
<1>1. CASE StartBatch
  <2>1. broken = {} /\ held = {} /\ looking = {} /\ raised = {}
    BY <1>0, <1>1 DEF StartBatch
  <2> QED BY <1>0, <1>1, <2>1 DEF StartBatch
<1>2. CASE EndBatch
  BY <1>0, <1>2 DEF EndBatch, AtEnd
<1>3. CASE Release
  <2>1. broken = {} /\ held = {} /\ looking = {} /\ raised = {}
    BY <1>0, <1>3 DEF Release
  <2>2. CASE retained' = <<>>
    <3> DEFINE s == <<>>
    <3>1. s \in Seq(Blocks) /\ Len(s) = 0 /\ DOMAIN s = {}
      OBVIOUS
    <3>2. retained' = s
      BY <2>2
    <3> HIDE DEF s
    <3>3. IsInjective(s) /\ AtEnd(s, held)
      BY <2>1, <3>1 DEF IsInjective, AtEnd
    <3> QED BY <1>0, <1>3, <2>1, <3>1, <3>2, <3>3 DEF Release
  <2>3. CASE \E b \in Blocks : retained' = Without(retained, b)
    <3>1. PICK b \in Blocks : retained' = Without(retained, b)
      BY <2>3
    <3>2. retained' \in Seq(Blocks) /\ IsInjective(retained') /\ AtEnd(retained', held)
      BY <1>0, <3>1, WithoutEntry
    <3> QED BY <1>0, <1>3, <2>1, <3>2 DEF Release
  <2> QED BY <1>3, <2>2, <2>3 DEF Release
<1>4. ASSUME NEW b \in Blocks, Hit(b) PROVE CacheInv'
  <2> DEFINE t == Without(retained, b)
  <2>1. /\ t \in Seq(Blocks) /\ IsInjective(t) /\ AtEnd(t, held) /\ b \notin Range(t)
        /\ Range(t) \subseteq Range(retained)
    BY <1>0, WithoutEntry
  <2>2. retained' = Append(t, b) /\ b \in Range(retained) /\ b \in batch /\ b \notin looking
    BY <1>4 DEF Hit, MovedToEnd, Free
  <2> HIDE DEF t
  <2> DEFINE r == Append(t, b)
  <2>3. r \in Seq(Blocks) /\ IsInjective(r) /\ AtEnd(r, held \cup {b}) /\ Range(r) = Range(t) \cup {b}
    BY <2>1, AppendedEntry
  <2> HIDE DEF r
  <2>4. retained' = r
    BY <2>2 DEF r
  <2> QED BY <1>0, <1>4, <2>1, <2>2, <2>3, <2>4 DEF Hit
<1>5. ASSUME NEW b \in Blocks, Miss(b) PROVE CacheInv'
  BY <1>0, <1>5 DEF Miss, Free
<1>6. ASSUME NEW b \in Blocks, Raise(b) PROVE CacheInv'
  BY <1>0, <1>6 DEF Raise
<1>7. ASSUME NEW b \in Blocks, Retain(b) PROVE CacheInv'
  <2> DEFINE all == MovedToEnd(retained, b)
             Enough == {n \in 0 .. Len(all) : Fits(Range(SubSeq(all, n + 1, Len(all))))}
             dropped == Min(Enough)
             kept == SubSeq(all, dropped + 1, Len(all))
  <2>1. b \in looking /\ b \notin Range(retained) /\ b \in batch
    BY <1>0, <1>7 DEF Retain
  <2>2. all = Append(retained, b)
    BY <2>1 DEF MovedToEnd, Without
  <2>3. /\ looking' = looking \ {b} /\ held' = held \cup {b} /\ batch' = batch /\ raised' = raised
        /\ IF MaxRetained = 0 THEN UNCHANGED <<retained, broken>>
           ELSE /\ retained' = kept
                /\ broken' = broken \cup ((held \cap Range(all)) \ Range(kept))
    BY <1>7 DEF Retain
  <2>4. CASE MaxRetained = 0
    <3>1. Fits(batch) => FALSE
      <4>1. IsFiniteSet(batch) /\ batch # {}
        BY <1>0, <2>1, CacheAssumption, FS_Subset
      <4>2. Cardinality(batch) \in Nat /\ Cardinality(batch) # 0
        BY <4>1, FS_EmptySet, FS_CardinalityType
      <4> QED BY <2>4, <4>2 DEF Fits
    <3>2. ASSUME NEW i \in 1 .. Len(retained), NEW j \in 1 .. Len(retained), i < j,
                 retained[i] \in held'
          PROVE  retained[j] \in held'
      <4>1. retained[i] \in Range(retained)
        BY <1>0, SeqEntries
      <4> QED BY <1>0, <2>1, <2>3, <3>2, <4>1 DEF AtEnd
    <3>3. AtEnd(retained', held')
      BY <2>3, <2>4, <3>2 DEF AtEnd
    <3> QED BY <1>0, <2>1, <2>3, <2>4, <3>1, <3>3
  <2>5. CASE MaxRetained # 0
    <3>1. /\ all \in Seq(Blocks) /\ IsInjective(all) /\ AtEnd(all, held \cup {b})
          /\ Range(all) = Range(retained) \cup {b}
      BY <1>0, <2>1, <2>2, AppendedEntry
    <3>2. retained' = kept /\ broken' = broken \cup ((held \cap Range(all)) \ Range(kept))
      BY <2>3, <2>5
    <3> HIDE DEF all
    <3>3. Len(all) \in Nat /\ Range(all) = {all[i] : i \in 1 .. Len(all)}
      BY <3>1, SeqEntries
    <3>4. dropped \in 0 .. Len(all)
      <4>1. Enough \in SUBSET Nat
        BY <3>3
      <4>2. Range(SubSeq(all, Len(all) + 1, Len(all))) = {}
        <5>1. Len(all) \in 0 .. Len(all)
          BY <3>3
        <5>2. Range(SubSeq(all, Len(all) + 1, Len(all))) = {all[i] : i \in Len(all) + 1 .. Len(all)}
          BY <3>1, <5>1, DroppedEntries
        <5>3. Len(all) + 1 .. Len(all) = {}
          BY <3>3
        <5> QED BY <5>2, <5>3
      <4>3. Len(all) \in Enough
        <5>1. Len(all) \in 0 .. Len(all)
          BY <3>3
        <5>2. Fits(Range(SubSeq(all, Len(all) + 1, Len(all))))
          BY <4>2, FitsEmpty, Zenon
        <5> QED BY <5>1, <5>2, Zenon
      <4> HIDE DEF Enough
      <4>4. dropped \in Enough
        BY <4>1, <4>3, LeastOfSet
      <4> QED BY <4>4 DEF Enough
    <3> HIDE DEF dropped
    <3>5. /\ kept \in Seq(Blocks) /\ IsInjective(kept) /\ AtEnd(kept, held \cup {b})
          /\ Range(kept) = {all[i] : i \in dropped + 1 .. Len(all)}
      BY <3>1, <3>4, DroppedEntries
    <3>6. Range(kept) \subseteq Range(all)
      <4>1. \A i \in dropped + 1 .. Len(all) : i \in 1 .. Len(all)
        BY <3>3, <3>4
      <4> QED BY <3>3, <3>5, <4>1
    <3>7. ASSUME Fits(batch) PROVE held \cap Range(all) \subseteq Range(kept)
      <4> DEFINE A == (held \cup {b}) \cap Range(all)
      <4>1. /\ A # {} /\ A \subseteq Range(all) /\ A \in SUBSET batch
            /\ batch \in SUBSET Blocks
        BY <1>0, <2>1, <3>1
      <4>2. AtEnd(all, A)
        <5>1. \A i \in 1 .. Len(all) : all[i] \in Range(all)
          BY <3>3
        <5> QED BY <3>1, <5>1 DEF AtEnd
      <4>3. Fits(A)
        BY <3>7, <4>1, FitsSubset
      <4> HIDE DEF A
      <4>4. A \subseteq Range(kept)
        BY <3>1, <4>1, <4>2, <4>3, FittingEndIsKept DEF dropped
      <4> QED BY <4>4 DEF A
    <3> HIDE DEF kept
    <3>8. looking' \cap Range(retained') = {}
      BY <1>0, <2>3, <3>1, <3>2, <3>6
    <3>9. Fits(batch') => broken' = {}
      BY <1>0, <2>3, <3>2, <3>7
    <3> QED BY <1>0, <2>1, <2>3, <3>2, <3>5, <3>8, <3>9
  <2> QED BY <2>4, <2>5
<1>8. CASE UNCHANGED cacheVars
  BY <1>0, <1>8 DEF cacheVars
<1> QED BY <1>1, <1>2, <1>3, <1>4, <1>5, <1>6, <1>7, <1>8 DEF CacheNext

\* Whatever the blocks, their sizes and the limits: a batch that fits the
\* retention limits uses no handle that another thread's eviction released.
THEOREM HandlesAreUsable == CacheSpec => []HeldHandlesAreUsable
<1>1. CacheSpec => []CacheInv
  BY CacheInvInit, CacheInvStep, PTL DEF CacheSpec
<1>2. CacheInv => HeldHandlesAreUsable
  BY DEF CacheInv
<1> QED BY <1>1, <1>2, PTL
================================================================================
