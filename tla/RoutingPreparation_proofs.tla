----------------------- MODULE RoutingPreparation_proofs -----------------------
(***************************************************************************)
(* Proofs about the preparation of routing shards, for every number of     *)
(* shards and threads, every cache budget, and however many workers fail,  *)
(* interrupts arrive, processes die and invocations follow each other.     *)
(***************************************************************************)
EXTENDS RoutingPreparation, FiniteSetTheorems, WellFoundedInduction, TLAPS

\* The stages in which the pool is open and no exception has left it.
Pool == {"dispatch", "wait", "collect", "publish", "finish"}
Busy == {"queued", "running", "saved"}

\* Before the pool opens nothing is dispatched, failed or stopped.
NotStarted ==
  step \in {"scan", "admit", "compile"} =>
    dispatched = {} /\ failed = 0 /\ ~exhausted /\ stopStatus = "completed"

\* Every shard is in exactly one of the sets a progress event counts, but for
\* those that failed.
Partition ==
  step \notin {"down", "scan"} =>
    /\ missing \cup completed = Shards
    /\ active \cap buffered = {}
    /\ completed \cap (active \cup buffered \cup Queued) = {}
    /\ step # "drain" => dispatched \subseteq active \cup buffered \cup completed

\* Only the futures of the coordinator have a thread, and none after the end.
Threads ==
  /\ NoThreadOutlivesInvocation
  /\ step \notin {"down", "drain"} => \A s \in Shards : worker[s] # "none" => s \in active
  /\ step # "down" => \A s \in Shards : worker[s] # "none" => s \in dispatched

\* nextEmit is the first shard not published; dispatch ends normally only when
\* nothing is queued, and the loop only when nothing is active.
Order ==
  /\ PublishedInOrder
  /\ step \in Pool \cup {"compile"} => admitted > 0 /\ missing # {}
  /\ step \in Pool =>
       /\ nextEmit \in Shards => nextEmit \in missing \ completed
       /\ exhausted /\ stopStatus = "completed" => Queued = {}
  /\ step \in {"dispatch", "finish"} => nextEmit \notin buffered
  /\ step = "finish" => exhausted /\ active = {}

\* What is counted as done has a valid file, until a power loss damages files
\* that were not synchronised.
Disk ==
  /\ durable => unsynced = {}
  /\ step # "down" \/ durable =>
       /\ \A s \in completed \cup buffered : files[s] = "valid"
       /\ \A s \in Shards : worker[s] \in {"saved", "done"} => files[s] = "valid"
  /\ ManifestOnDisk
  /\ returned # Nothing => step = "down"
  /\ CompletedIsPrepared

\* What is still to be constructed has no valid file.
Fresh ==
  step \notin {"down", "scan"} /\ cachePolicy = "reuse" =>
    \A s \in Shards :
      s \in Queued \/ worker[s] \in {"queued", "running"} => files[s] # "valid"

IInv ==
  /\ PreparationTypeOK
  /\ NotStarted
  /\ Partition
  /\ AccountingExact
  /\ Threads
  /\ Order
  /\ Disk
  /\ Fresh
--------------------------------------------------------------------------------
(* Smallest elements and cardinalities *)

\* A nonempty set of naturals has a smallest element: among the sets of the
\* elements up to each one, some is minimal for inclusion.
LEMMA SmallestIsLeast ==
  ASSUME NEW S \in SUBSET Nat, S # {}
  PROVE  Smallest(S) \in S /\ \A t \in S : Smallest(S) <= t
<1> DEFINE UpTo(n) == {t \in S : t <= n}
           Segments == {UpTo(n) : n \in S}
<1>1. \A n \in S : IsFiniteSet(UpTo(n))
  BY FS_BoundedSetOfNaturals
<1>2. Segments \subseteq FiniteSubsetsOf(Nat) /\ Segments # {}
  BY <1>1 DEF FiniteSubsetsOf
<1>3. PICK least \in Segments :
        \A other \in Segments : <<other, least>> \notin StrictSubsetOrdering(Nat)
  <2> HIDE DEF Segments
  <2> QED BY <1>2, FS_StrictSubsetOrderingWellFounded, WFMin
<1>4. PICK n \in S : least = UpTo(n)
  OBVIOUS
<1>5. \A t \in S : n <= t
  <2> SUFFICES ASSUME NEW t \in S, t < n PROVE FALSE
    OBVIOUS
  <2>1. t \in Nat /\ n \in Nat /\ \A u \in S : u \in Nat
    OBVIOUS
  <2>2. n \in UpTo(n) /\ n \notin UpTo(t)
    BY <2>1
  <2>3. UpTo(t) \subseteq UpTo(n)
    <3>1. \A u \in S : u <= t => u <= n
      BY <2>1
    <3> QED BY <3>1
  <2>4. UpTo(t) \in SUBSET Nat /\ UpTo(n) \in SUBSET Nat /\ UpTo(t) \in Segments
    BY <2>1
  <2> HIDE DEF UpTo, Segments
  <2>5. <<UpTo(t), UpTo(n)>> \in StrictSubsetOrdering(Nat)
    BY <2>2, <2>3, <2>4 DEF StrictSubsetOrdering
  <2> QED BY <1>3, <1>4, <2>4, <2>5
<1> QED BY <1>5 DEF Smallest

LEMMA ShardNumbers ==
  /\ NumShards \in Nat /\ Shards \subseteq Nat
  /\ \A s \in Shards : s \in 1 .. NumShards + 1
<1>1. NumShards \in Nat
  BY RoutingAssumption
<1> QED BY <1>1 DEF Shards

LEMMA Counts ==
  ASSUME NEW S \in SUBSET Shards
  PROVE  /\ IsFiniteSet(S) /\ Cardinality(S) \in Nat
         /\ \A x \in Shards \ S : Cardinality(S \cup {x}) = Cardinality(S) + 1
         /\ \A x \in S : Cardinality(S \ {x}) = Cardinality(S) - 1
<1>1. IsFiniteSet(Shards)
  BY FS_Interval, RoutingAssumption DEF Shards
<1> QED BY <1>1, FS_Subset, FS_CardinalityType, FS_AddElement, FS_RemoveElement

LEMMA InitIInv == PreparationInit => IInv
<1> SUFFICES ASSUME PreparationInit PROVE IInv
  OBVIOUS
<1> USE RoutingAssumption DEF PreparationInit
<1>1. PreparationTypeOK
  <2>1. PlanTypeOK /\ CountersTypeOK
    BY DEF PlanTypeOK, CountersTypeOK
  <2>2. nextEmit \in 1 .. NumShards + 1
    OBVIOUS
  <2>3. ProgressTypeOK
    BY <2>2 DEF ProgressTypeOK, ManifestStatuses
  <2>4. FilesTypeOK
    BY DEF FilesTypeOK, Idle
  <2> QED BY <2>1, <2>3, <2>4 DEF PreparationTypeOK
<1>2. NotStarted /\ Partition /\ AccountingExact /\ Fresh
  BY DEF NotStarted, Partition, AccountingExact, Fresh
<1>3. Threads
  BY DEF Threads, NoThreadOutlivesInvocation, Idle
<1>4. Order
  BY DEF Order, PublishedInOrder, Pool
<1>5. Disk
  BY DEF Disk, ManifestOnDisk, CompletedIsPrepared, Idle
<1> QED BY <1>1, <1>2, <1>3, <1>4, <1>5 DEF IInv
--------------------------------------------------------------------------------
(* Planning *)

LEMMA StartStep == IInv /\ (Start \/ Refuse) => IInv'
<1> SUFFICES ASSUME IInv, Start \/ Refuse PROVE IInv'
  OBVIOUS
<1> USE RoutingAssumption
<1>1. CASE Start
  <2> USE <1>1 DEF Start
  <2>1. PreparationTypeOK'
    <3>1. PlanTypeOK' /\ CountersTypeOK'
      BY DEF IInv, PreparationTypeOK, PlanTypeOK, CountersTypeOK
    <3>2. nextEmit' \in 1 .. NumShards + 1
      OBVIOUS
    <3>3. ProgressTypeOK'
      BY <3>2 DEF ProgressTypeOK, ManifestStatuses
    <3>4. FilesTypeOK'
      BY DEF IInv, PreparationTypeOK, FilesTypeOK, Idle, disk
    <3> QED BY <3>1, <3>3, <3>4 DEF PreparationTypeOK
  <2>2. NotStarted' /\ Partition' /\ AccountingExact' /\ Fresh'
    BY DEF NotStarted, Partition, AccountingExact, Fresh
  <2>3. Threads'
    BY DEF Threads, NoThreadOutlivesInvocation, Idle
  <2>4. Order'
    BY DEF Order, PublishedInOrder, Pool
  <2>5. Disk'
    BY DEF IInv, Disk, disk, ManifestOnDisk, CompletedIsPrepared, Idle
  <2> QED BY <2>1, <2>2, <2>3, <2>4, <2>5 DEF IInv
<1>2. CASE Refuse
  <2> USE <1>2 DEF Refuse, plan, progress, disk
  <2>1. PreparationTypeOK'
    BY DEF IInv, PreparationTypeOK, PlanTypeOK, ProgressTypeOK, FilesTypeOK, CountersTypeOK
  <2>2. NotStarted' /\ Partition' /\ AccountingExact' /\ Fresh'
    BY DEF NotStarted, Partition, AccountingExact, Fresh
  <2>3. Threads'
    BY DEF IInv, Threads, NoThreadOutlivesInvocation
  <2>4. Order'
    BY DEF Order, PublishedInOrder, Pool
  <2>5. Disk'
    BY DEF IInv, Disk, ManifestOnDisk, CompletedIsPrepared
  <2> QED BY <2>1, <2>2, <2>3, <2>4, <2>5 DEF IInv
<1> QED BY <1>1, <1>2

LEMMA ScanCacheStep == IInv /\ ScanCache => IInv'
<1> SUFFICES ASSUME IInv, ScanCache PROVE IInv'
  OBVIOUS
<1> USE RoutingAssumption DEF IInv, ScanCache
<1>1. Reusable \subseteq Shards /\ \A s \in Reusable : files[s] = "valid"
  BY DEF Reusable
<1>2. dispatched = {} /\ active = {} /\ buffered = {} /\ \A s \in Shards : worker[s] = "none"
  BY DEF NotStarted, PreparationTypeOK, ProgressTypeOK, Threads
<1>3. PreparationTypeOK'
  <2>1. PlanTypeOK' /\ CountersTypeOK'
    BY <1>1 DEF PreparationTypeOK, PlanTypeOK, CountersTypeOK, tallies
  <2>2. ProgressTypeOK' /\ FilesTypeOK'
    BY <1>1, <1>2 DEF PreparationTypeOK, ProgressTypeOK, FilesTypeOK
  <2> QED BY <2>1, <2>2 DEF PreparationTypeOK
<1>4. Queued' = Shards \ Reusable
  BY <1>2 DEF Queued
<1>5. NotStarted' /\ Partition'
  BY <1>1, <1>2, <1>4 DEF NotStarted, Partition
<1>6. AccountingExact'
  <2>1. Cardinality(Reusable) + Cardinality(Shards \ Reusable) = NumShards
    <3>1. IsFiniteSet(Shards) /\ Cardinality(Shards) = NumShards
      BY FS_Interval DEF Shards
    <3>2. Shards \cap Reusable = Reusable /\ Cardinality(Reusable) \in Nat
      BY <1>1, Counts
    <3>3. Cardinality(Shards \ Reusable) = Cardinality(Shards) - Cardinality(Reusable)
      BY <3>1, <3>2, FS_Difference
    <3> QED BY <3>1, <3>2, <3>3
  <2>2. Cardinality(Reusable) \in Nat /\ Cardinality(Shards \ Reusable) \in Nat
    BY <1>1, Counts
  <2>3. Cardinality({}) = 0
    BY FS_EmptySet
  <2> QED BY <1>2, <1>4, <2>1, <2>2, <2>3 DEF AccountingExact, NotStarted
<1>7. Threads' /\ Order'
  BY <1>2 DEF Threads, NoThreadOutlivesInvocation, Order, PublishedInOrder, Pool
<1>8. Disk'
  BY <1>1, <1>2
    DEF Disk, ManifestOnDisk, CompletedIsPrepared, PreparationTypeOK, FilesTypeOK, Manifests
<1>9. Fresh'
  BY <1>2, <1>4 DEF Fresh, Reusable, PreparationTypeOK, FilesTypeOK
<1> QED BY <1>3, <1>5, <1>6, <1>7, <1>8, <1>9 DEF IInv

\* A torn shard ends the scan; only corrupt files have been moved aside.
LEMMA ScanFailsStep == IInv /\ ScanFails => IInv'
<1> SUFFICES ASSUME IInv, ScanFails PROVE IInv'
  OBVIOUS
<1> USE DEF ScanFails, plan, progress, tallies
<1>1. /\ files' \in [Shards -> {"absent", "valid", "corrupt", "torn"}]
      /\ \A s \in Shards : files[s] = "valid" => files'[s] = "valid"
  BY DEF IInv, PreparationTypeOK, FilesTypeOK
<1>2. dispatched = {} /\ \A s \in Shards : worker[s] = "none"
  BY DEF IInv, NotStarted, Threads
<1>3. PreparationTypeOK'
  <2>1. PlanTypeOK' /\ CountersTypeOK'
    BY DEF IInv, PreparationTypeOK, PlanTypeOK, CountersTypeOK
  <2>2. ProgressTypeOK'
    BY DEF IInv, PreparationTypeOK, ProgressTypeOK
  <2>3. FilesTypeOK'
    BY <1>1 DEF IInv, PreparationTypeOK, FilesTypeOK
  <2> QED BY <2>1, <2>2, <2>3 DEF PreparationTypeOK
<1>4. NotStarted' /\ Partition' /\ AccountingExact' /\ Fresh'
  BY DEF NotStarted, Partition, AccountingExact, Fresh
<1>5. Threads' /\ Order'
  BY <1>2 DEF Threads, NoThreadOutlivesInvocation, Order, PublishedInOrder, Pool
<1>6. Disk'
  <2>1. manifest # Nothing => manifest.names \subseteq Shards
    BY DEF IInv, PreparationTypeOK, FilesTypeOK, Manifests
  <2>2. completed \subseteq Shards /\ buffered \subseteq Shards
    BY DEF IInv, PreparationTypeOK, ProgressTypeOK, PlanTypeOK
  <2>3. returned = Nothing
    BY DEF IInv, Disk
  <2> QED BY <1>1, <1>2, <2>1, <2>2, <2>3 DEF IInv, Disk, ManifestOnDisk, CompletedIsPrepared
<1> QED BY <1>3, <1>4, <1>5, <1>6 DEF IInv

\* A result is returned: one that says "completed" must have every shard.
LEMMA ReturnStep ==
  ASSUME IInv, NEW s \in ManifestStatuses, ReturnResult(s), step \in {"admit", "compile", "finish"},
         s = "completed" => completed = Shards
  PROVE  IInv'
<1> USE DEF ReturnResult, WriteManifest, plan, progress, tallies
<1>1. active = {} /\ step \notin {"down", "drain", "scan"}
  BY DEF IInv, Order, NotStarted, PreparationTypeOK, ProgressTypeOK
<1>2. Content(completed, s) \in Manifests /\ Content(completed, s).names = completed
      /\ Content(completed, s).status = s
  BY DEF Content, Manifests, IInv, PreparationTypeOK, ProgressTypeOK
<1>3. PreparationTypeOK'
  <2>1. PlanTypeOK' /\ ProgressTypeOK' /\ CountersTypeOK'
    BY DEF IInv, PreparationTypeOK, PlanTypeOK, ProgressTypeOK, CountersTypeOK
  <2>2. FilesTypeOK'
    BY <1>2 DEF IInv, PreparationTypeOK, FilesTypeOK
  <2> QED BY <2>1, <2>2 DEF PreparationTypeOK
<1>4. NotStarted' /\ Partition' /\ AccountingExact' /\ Fresh'
  BY DEF NotStarted, Partition, AccountingExact, Fresh
<1>5. Threads'
  BY <1>1 DEF IInv, Threads, NoThreadOutlivesInvocation
<1>6. Order'
  BY DEF Order, PublishedInOrder, Pool
<1>7. Disk'
  BY <1>1, <1>2
    DEF IInv, Disk, ManifestOnDisk, CompletedIsPrepared, PreparationTypeOK, ProgressTypeOK
<1> QED BY <1>3, <1>4, <1>5, <1>6, <1>7 DEF IInv

LEMMA EarlyReturnStep == IInv /\ (AllCached \/ Decline \/ DeadlineInCompilation) => IInv'
<1> SUFFICES ASSUME IInv, AllCached \/ Decline \/ DeadlineInCompilation PROVE IInv'
  OBVIOUS
<1>1. {"completed", "memory_budget_reached", "deadline_reached"} \subseteq ManifestStatuses
  BY DEF ManifestStatuses
<1>2. CASE AllCached
  <2>1. completed = Shards
    BY <1>2 DEF AllCached, IInv, Partition, PreparationTypeOK, ProgressTypeOK
  <2> QED BY <1>1, <1>2, <2>1, ReturnStep DEF AllCached
<1>3. CASE Decline
  BY <1>1, <1>3, ReturnStep DEF Decline
<1>4. CASE DeadlineInCompilation
  BY <1>1, <1>4, ReturnStep DEF DeadlineInCompilation
<1> QED BY <1>2, <1>3, <1>4

LEMMA AdmitStep == IInv /\ Admit => IInv'
<1> SUFFICES ASSUME IInv, Admit PROVE IInv'
  OBVIOUS
<1> USE DEF Admit, progress, disk, tallies
<1>1. admitted' \in 0 .. Workers /\ admitted' > 0
  BY RoutingAssumption
<1>2. PreparationTypeOK'
  BY <1>1 DEF IInv, PreparationTypeOK, PlanTypeOK, ProgressTypeOK, FilesTypeOK, CountersTypeOK
<1>3. NotStarted' /\ Partition' /\ AccountingExact' /\ Fresh'
  BY DEF IInv, NotStarted, Partition, AccountingExact, Fresh, Queued
<1>4. Threads' /\ Order'
  BY <1>1 DEF IInv, Threads, NoThreadOutlivesInvocation, Order, PublishedInOrder, Pool
<1>5. Disk'
  BY DEF IInv, Disk, ManifestOnDisk, CompletedIsPrepared
<1> QED BY <1>2, <1>3, <1>4, <1>5 DEF IInv

LEMMA CompileStep == IInv /\ Compile => IInv'
<1> SUFFICES ASSUME IInv, Compile PROVE IInv'
  OBVIOUS
<1> USE DEF Compile, plan, disk, tallies
<1>1. dispatched = {} /\ active = {} /\ buffered = {} /\ ~exhausted /\ missing \subseteq Shards
      /\ missing \cap completed = {}
  BY DEF IInv, NotStarted, Partition, Queued, PreparationTypeOK, PlanTypeOK, ProgressTypeOK
<1>2. nextEmit' \in missing /\ \A s \in missing : nextEmit' <= s
  <2>1. missing \in SUBSET Nat /\ missing # {}
    BY <1>1 DEF IInv, Order, Shards
  <2> QED BY <2>1, SmallestIsLeast
<1>3. nextEmit' \in 1 .. NumShards + 1
  BY <1>1, <1>2, ShardNumbers
<1>4. PreparationTypeOK'
  <2>1. PlanTypeOK' /\ FilesTypeOK' /\ CountersTypeOK'
    BY DEF IInv, PreparationTypeOK, PlanTypeOK, FilesTypeOK, CountersTypeOK
  <2>2. ProgressTypeOK'
    BY <1>3 DEF IInv, PreparationTypeOK, ProgressTypeOK
  <2> QED BY <2>1, <2>2 DEF PreparationTypeOK
<1>5. NotStarted' /\ Partition' /\ AccountingExact' /\ Fresh'
  BY <1>1 DEF IInv, NotStarted, Partition, AccountingExact, Fresh, Queued
<1>6. Threads'
  BY DEF IInv, Threads, NoThreadOutlivesInvocation
<1>7. Order'
  <2>1. \A s \in missing : ~(s < nextEmit')
    BY <1>1, <1>2 DEF Shards
  <2>2. PublishedInOrder'
    BY <1>1, <2>1 DEF PublishedInOrder
  <2> QED BY <1>1, <1>2, <2>2 DEF IInv, Order, Pool
<1>8. Disk'
  BY DEF IInv, Disk, ManifestOnDisk, CompletedIsPrepared
<1> QED BY <1>4, <1>5, <1>6, <1>7, <1>8 DEF IInv
--------------------------------------------------------------------------------
(* Dispatch *)

LEMMA DispatchStep == IInv /\ Dispatch => IInv'
<1> SUFFICES ASSUME IInv, Dispatch PROVE IInv'
  OBVIOUS
<1> USE DEF Dispatch, plan, disk, tallies
<1>1. PICK s \in Queued :
        /\ dispatched' = dispatched \cup {s} /\ active' = active \cup {s}
        /\ worker' = [worker EXCEPT ![s] = "queued"]
  <2>1. Queued \in SUBSET Nat /\ Queued # {}
    BY ShardNumbers DEF IInv, PreparationTypeOK, PlanTypeOK, Queued
  <2> QED BY <2>1, SmallestIsLeast
<1>2. s \in missing /\ s \in Shards /\ s \notin dispatched /\ s \notin active
      /\ s \notin buffered /\ s \notin completed
  BY <1>1 DEF Queued, IInv, PreparationTypeOK, PlanTypeOK, ProgressTypeOK, Partition
<1>3. Queued' = Queued \ {s}
  BY <1>1 DEF Queued
<1>4. PreparationTypeOK'
  <2>1. PlanTypeOK' /\ CountersTypeOK'
    BY DEF IInv, PreparationTypeOK, PlanTypeOK, CountersTypeOK
  <2>2. ProgressTypeOK'
    BY <1>1, <1>2 DEF IInv, PreparationTypeOK, ProgressTypeOK
  <2>3. FilesTypeOK'
    BY <1>1, <1>2 DEF IInv, PreparationTypeOK, FilesTypeOK
  <2> QED BY <2>1, <2>2, <2>3 DEF PreparationTypeOK
<1>5. NotStarted' /\ Partition'
  BY <1>1, <1>2, <1>3 DEF IInv, NotStarted, Partition
<1>6. AccountingExact'
  <2>1. completed \in SUBSET Shards /\ active \in SUBSET Shards /\ buffered \in SUBSET Shards
        /\ Queued \in SUBSET Shards /\ failed \in Nat
    BY DEF IInv, PreparationTypeOK, PlanTypeOK, ProgressTypeOK, Queued
  <2>2. Cardinality(active') = Cardinality(active) + 1
    BY <1>1, <1>2, <2>1, Counts
  <2>3. Cardinality(Queued') = Cardinality(Queued) - 1
    BY <1>1, <1>3, <2>1, Counts
  <2>4. Cardinality(completed) \in Nat /\ Cardinality(active) \in Nat
        /\ Cardinality(buffered) \in Nat /\ Cardinality(Queued) \in Nat
    BY <2>1, Counts
  <2> QED BY <2>1, <2>2, <2>3, <2>4 DEF IInv, AccountingExact
<1>7. Threads'
  BY <1>1, <1>2 DEF IInv, Threads, NoThreadOutlivesInvocation, PreparationTypeOK, FilesTypeOK
<1>8. Order'
  BY <1>1, <1>2, <1>3 DEF IInv, Order, PublishedInOrder, Room
<1>9. Disk'
  BY <1>1 DEF IInv, Disk, ManifestOnDisk, CompletedIsPrepared, PreparationTypeOK, FilesTypeOK
<1>10. Fresh'
  BY <1>1, <1>2, <1>3 DEF IInv, Fresh, PreparationTypeOK, FilesTypeOK
<1> QED BY <1>4, <1>5, <1>6, <1>7, <1>8, <1>9, <1>10 DEF IInv

LEMMA EndDispatchStep ==
  ASSUME IInv, step = "dispatch", NEW stop \in BOOLEAN, NEW s \in ManifestStatuses,
         EndDispatch(stop, s),
         active = {} => stop,
         stop /\ s = "completed" => Queued = {}
  PROVE  IInv'
<1> USE DEF EndDispatch, plan, disk, tallies
<1>1. PreparationTypeOK'
  <2>1. PlanTypeOK' /\ FilesTypeOK' /\ CountersTypeOK'
    BY DEF IInv, PreparationTypeOK, PlanTypeOK, FilesTypeOK, CountersTypeOK
  <2>2. ProgressTypeOK'
    BY DEF IInv, PreparationTypeOK, ProgressTypeOK
  <2> QED BY <2>1, <2>2 DEF PreparationTypeOK
<1>2. NotStarted' /\ Partition' /\ AccountingExact' /\ Fresh'
  BY DEF IInv, NotStarted, Partition, AccountingExact, Fresh, Queued
<1>3. Threads'
  BY DEF IInv, Threads, NoThreadOutlivesInvocation
<1>4. Order'
  BY DEF IInv, Order, PublishedInOrder, Pool, Queued
<1>5. Disk'
  BY DEF IInv, Disk, ManifestOnDisk, CompletedIsPrepared
<1> QED BY <1>1, <1>2, <1>3, <1>4, <1>5 DEF IInv

LEMMA DispatchingStep == IInv /\ Dispatching => IInv'
<1> SUFFICES ASSUME IInv, Dispatching PROVE IInv'
  OBVIOUS
<1>1. {"memory_budget_reached", "deadline_reached"} \subseteq ManifestStatuses
      /\ stopStatus \in ManifestStatuses /\ exhausted \in BOOLEAN
  BY DEF ManifestStatuses, IInv, PreparationTypeOK, ProgressTypeOK
<1>2. step = "dispatch" /\ exhausted /\ stopStatus = "completed" => Queued = {}
  BY DEF IInv, Order, Pool
<1>3. CASE Dispatch
  BY <1>3, DispatchStep
<1>4. CASE NoRoom
  <2>1. active = {} => exhausted
    BY <1>4, FS_EmptySet, RoutingAssumption
       DEF NoRoom, Room, IInv, Order, Pool, PreparationTypeOK, PlanTypeOK
  <2> QED BY <1>1, <1>2, <1>4, <2>1, EndDispatchStep DEF NoRoom
<1>5. CASE MemoryGuardWaits
  BY <1>1, <1>2, <1>5, EndDispatchStep DEF MemoryGuardWaits
<1>6. CASE MemoryGuardStops
  BY <1>1, <1>6, EndDispatchStep DEF MemoryGuardStops
<1>7. CASE DeadlineGuardStops
  BY <1>1, <1>7, EndDispatchStep DEF DeadlineGuardStops
<1>8. CASE AllSubmitted
  BY <1>1, <1>8, EndDispatchStep DEF AllSubmitted
<1> QED BY <1>3, <1>4, <1>5, <1>6, <1>7, <1>8 DEF Dispatching
--------------------------------------------------------------------------------
(* Completions *)

LEMMA WaitStep == IInv /\ (Wait \/ AllCollected) => IInv'
<1> SUFFICES ASSUME IInv, Wait \/ AllCollected PROVE IInv'
  OBVIOUS
<1> USE DEF Wait, AllCollected, Finished, plan, progress, disk, tallies
<1>1. PreparationTypeOK'
  <2>1. PlanTypeOK' /\ FilesTypeOK' /\ CountersTypeOK'
    BY DEF IInv, PreparationTypeOK, PlanTypeOK, FilesTypeOK, CountersTypeOK
  <2>2. ProgressTypeOK'
    BY DEF IInv, PreparationTypeOK, ProgressTypeOK
  <2> QED BY <2>1, <2>2 DEF PreparationTypeOK
<1>2. NotStarted' /\ Partition' /\ AccountingExact' /\ Fresh'
  BY DEF IInv, NotStarted, Partition, AccountingExact, Fresh, Queued
<1>3. Threads'
  BY DEF IInv, Threads, NoThreadOutlivesInvocation
<1>4. Order'
  BY DEF IInv, Order, PublishedInOrder, Pool, Queued
<1>5. Disk'
  BY DEF IInv, Disk, ManifestOnDisk, CompletedIsPrepared
<1> QED BY <1>1, <1>2, <1>3, <1>4, <1>5 DEF IInv

\* A collected future is in no other count.
LEMMA ArrivedShard ==
  ASSUME IInv, NEW s \in arrived, step = "collect"
  PROVE  /\ s \in active /\ s \in dispatched /\ s \in missing /\ s \in Shards
         /\ s \notin buffered /\ s \notin completed /\ s \notin Queued
BY DEF IInv, PreparationTypeOK, PlanTypeOK, ProgressTypeOK, Partition, Queued

\* The sizes of the counted sets.
LEMMA Sizes ==
  ASSUME IInv
  PROVE  /\ completed \in SUBSET Shards /\ active \in SUBSET Shards
         /\ buffered \in SUBSET Shards /\ Queued \in SUBSET Shards /\ failed \in Nat
         /\ Cardinality(completed) \in Nat /\ Cardinality(active) \in Nat
         /\ Cardinality(buffered) \in Nat /\ Cardinality(Queued) \in Nat
<1>1. completed \in SUBSET Shards /\ active \in SUBSET Shards
      /\ buffered \in SUBSET Shards /\ Queued \in SUBSET Shards /\ failed \in Nat
  BY DEF IInv, PreparationTypeOK, PlanTypeOK, ProgressTypeOK, Queued
<1> QED BY <1>1, Counts

LEMMA CollectResultStep == ASSUME NEW s \in Shards PROVE IInv /\ CollectResult(s) => IInv'
<1> SUFFICES ASSUME IInv, CollectResult(s) PROVE IInv'
  OBVIOUS
<1> USE DEF CollectResult, plan, disk, tallies
<1>1. s \in active /\ s \in dispatched /\ s \in missing /\ s \notin buffered
      /\ s \notin completed /\ s \notin Queued
  BY ArrivedShard
<1>2. PreparationTypeOK'
  <2>1. PlanTypeOK' /\ CountersTypeOK'
    BY DEF IInv, PreparationTypeOK, PlanTypeOK, CountersTypeOK
  <2>2. ProgressTypeOK'
    BY <1>1 DEF IInv, PreparationTypeOK, ProgressTypeOK, ManifestStatuses
  <2>3. FilesTypeOK'
    BY DEF IInv, PreparationTypeOK, FilesTypeOK
  <2> QED BY <2>1, <2>2, <2>3 DEF PreparationTypeOK
<1>3. Queued' = Queued
  BY DEF Queued
<1>4. NotStarted' /\ Partition'
  BY <1>1, <1>3 DEF IInv, NotStarted, Partition
<1>5. AccountingExact'
  <2>1. Cardinality(active') = Cardinality(active) - 1
    BY <1>1, Sizes, Counts
  <2>2. Cardinality(buffered') = Cardinality(buffered) + 1
    BY <1>1, Sizes, Counts
  <2> QED BY <1>3, <2>1, <2>2, Sizes DEF IInv, AccountingExact
<1>6. Threads'
  BY DEF IInv, Threads, NoThreadOutlivesInvocation, PreparationTypeOK, FilesTypeOK
<1>7. Order'
  BY <1>1, <1>3 DEF IInv, Order, PublishedInOrder, Pool
<1>8. Disk'
  BY DEF IInv, Disk, ManifestOnDisk, CompletedIsPrepared, PreparationTypeOK, FilesTypeOK
<1>9. Fresh'
  BY <1>3 DEF IInv, Fresh, PreparationTypeOK, FilesTypeOK
<1> QED BY <1>2, <1>4, <1>5, <1>6, <1>7, <1>8, <1>9 DEF IInv

LEMMA CollectFailureStep == ASSUME NEW s \in Shards PROVE IInv /\ CollectFailure(s) => IInv'
<1> SUFFICES ASSUME IInv, CollectFailure(s) PROVE IInv'
  OBVIOUS
<1> USE DEF CollectFailure, WriteManifest, plan, tallies
<1>1. s \in active /\ s \in dispatched /\ s \in missing /\ s \notin buffered
      /\ s \notin completed /\ s \notin Queued
  BY ArrivedShard
<1>2. Content(completed, "interrupted") \in Manifests
      /\ Content(completed, "interrupted").names = completed
  BY DEF Content, Manifests, ManifestStatuses, IInv, PreparationTypeOK, ProgressTypeOK
<1>3. PreparationTypeOK'
  <2>1. PlanTypeOK' /\ CountersTypeOK'
    BY DEF IInv, PreparationTypeOK, PlanTypeOK, CountersTypeOK
  <2>2. ProgressTypeOK'
    BY <1>1 DEF IInv, PreparationTypeOK, ProgressTypeOK, ManifestStatuses
  <2>3. FilesTypeOK'
    BY <1>2 DEF IInv, PreparationTypeOK, FilesTypeOK
  <2> QED BY <2>1, <2>2, <2>3 DEF PreparationTypeOK
<1>4. Queued' = Queued
  BY DEF Queued
<1>5. NotStarted' /\ Partition'
  BY <1>1, <1>4 DEF IInv, NotStarted, Partition
<1>6. AccountingExact'
  <2>1. Cardinality(active') = Cardinality(active) - 1
    BY <1>1, Sizes, Counts
  <2> QED BY <1>4, <2>1, Sizes DEF IInv, AccountingExact
<1>7. Threads' /\ Order'
  BY DEF IInv, Threads, NoThreadOutlivesInvocation, Order, PublishedInOrder, Pool
<1>8. \A t \in Shards : worker'[t] \in {"queued", "running", "saved", "done"} =>
                          worker[t] = worker'[t]
  BY DEF IInv, PreparationTypeOK, FilesTypeOK
<1>9. Disk'
  BY <1>2, <1>8 DEF IInv, Disk, ManifestOnDisk, CompletedIsPrepared
<1>10. Fresh'
  BY <1>4, <1>8 DEF IInv, Fresh
<1> QED BY <1>3, <1>5, <1>6, <1>7, <1>9, <1>10 DEF IInv

\* nextEmit moves to the first shard after it that is not completed.
LEMMA PublishStep == IInv /\ Publish => IInv'
<1> SUFFICES ASSUME IInv, Publish PROVE IInv'
  OBVIOUS
<1> USE DEF Publish, WriteManifest, plan, tallies
<1>1. nextEmit \in dispatched /\ nextEmit \in missing /\ nextEmit \in Shards
      /\ nextEmit \in buffered /\ nextEmit \notin active /\ nextEmit \notin Queued
      /\ nextEmit \notin completed
  BY DEF IInv, PreparationTypeOK, PlanTypeOK, ProgressTypeOK, Partition, Queued
<1>2. nextEmit' \in nextEmit + 1 .. NumShards + 1 /\ nextEmit' \notin completed'
      /\ \A t \in nextEmit + 1 .. NumShards + 1 : t \notin completed' => nextEmit' <= t
  <2> DEFINE Rest == {t \in nextEmit + 1 .. NumShards + 1 : t \notin completed'}
  <2>1. NumShards + 1 \in Rest
    BY <1>1, RoutingAssumption DEF Shards, IInv, PreparationTypeOK, ProgressTypeOK
  <2>2. Rest \in SUBSET Nat
    BY <1>1, RoutingAssumption DEF Shards
  <2>3. nextEmit' = Smallest(Rest)
    BY DEF EmitAfter
  <2>4. nextEmit' \in Rest /\ \A t \in Rest : nextEmit' <= t
    <3> HIDE DEF Rest, Publish
    <3>1. Rest # {}
      BY <2>1
    <3>2. Smallest(Rest) \in Rest /\ \A t \in Rest : Smallest(Rest) <= t
      BY <2>2, <3>1, SmallestIsLeast
    <3> QED BY <2>3, <3>2
  <2> QED BY <2>4
<1>3. Content(completed', "in_progress") \in Manifests
      /\ Content(completed', "in_progress").names = completed'
  BY <1>1 DEF Content, Manifests, ManifestStatuses, IInv, PreparationTypeOK, ProgressTypeOK
<1>4. PreparationTypeOK'
  <2>1. PlanTypeOK' /\ CountersTypeOK'
    BY DEF IInv, PreparationTypeOK, PlanTypeOK, CountersTypeOK
  <2>2. nextEmit' \in 1 .. NumShards + 1
    BY <1>1, <1>2, RoutingAssumption DEF Shards
  <2>3. ProgressTypeOK'
    BY <1>1, <2>2 DEF IInv, PreparationTypeOK, ProgressTypeOK
  <2>4. FilesTypeOK'
    BY <1>3 DEF IInv, PreparationTypeOK, FilesTypeOK
  <2> QED BY <2>1, <2>3, <2>4 DEF PreparationTypeOK
<1>5. Queued' = Queued
  BY DEF Queued
<1>6. NotStarted' /\ Partition'
  BY <1>1, <1>5 DEF IInv, NotStarted, Partition
<1>7. AccountingExact'
  <2>1. Cardinality(buffered') = Cardinality(buffered) - 1
    BY <1>1, Sizes, Counts
  <2>2. Cardinality(completed') = Cardinality(completed) + 1
    BY <1>1, Sizes, Counts
  <2> QED BY <1>5, <2>1, <2>2, Sizes DEF IInv, AccountingExact
<1>8. Threads' /\ Fresh'
  BY <1>5 DEF IInv, Threads, NoThreadOutlivesInvocation, Fresh
<1>9. Order'
  <2>1. PublishedInOrder'
    <3>1. missing \cap completed = {s \in missing : s < nextEmit}
      BY DEF IInv, Order, PublishedInOrder
    <3>2. \A s \in missing : s \in completed' <=> s < nextEmit'
      <4>1. \A s \in missing : s \in Nat /\ s \in 1 .. NumShards + 1
        BY ShardNumbers DEF IInv, PreparationTypeOK, PlanTypeOK
      <4>2. nextEmit \in Nat /\ nextEmit' \in Nat /\ nextEmit < nextEmit'
        BY <1>1, <1>2, ShardNumbers
      <4>3. ASSUME NEW s \in missing, s < nextEmit
            PROVE  s \in completed' /\ s < nextEmit'
        BY <3>1, <4>1, <4>2, <4>3
      <4>4. ASSUME NEW s \in missing, s > nextEmit
            PROVE  s \in completed' <=> s < nextEmit'
        <5>1. s \notin completed
          BY <3>1, <4>1, <4>2, <4>4
        <5>2. s \in nextEmit + 1 .. NumShards + 1
          BY <4>1, <4>2, <4>4
        <5>3. s \notin completed'
          BY <1>1, <4>1, <4>2, <4>4, <5>1
        <5>4. nextEmit' <= s
          BY <1>2, <5>2, <5>3
        <5>5. ~(s < nextEmit')
          BY <4>1, <4>2, <5>4
        <5> QED BY <5>3, <5>5
      <4> QED BY <4>1, <4>2, <4>3, <4>4
    <3> QED BY <3>2 DEF PublishedInOrder
  <2>2. nextEmit' \in Shards => nextEmit' \in missing' \ completed'
    BY <1>2 DEF IInv, Partition
  <2> QED BY <1>5, <2>1, <2>2 DEF IInv, Order, Pool
<1>10. Disk'
  BY <1>1, <1>3 DEF IInv, Disk, ManifestOnDisk, CompletedIsPrepared
<1> QED BY <1>4, <1>6, <1>7, <1>8, <1>9, <1>10 DEF IInv

LEMMA AllPublishedStep == IInv /\ AllPublished => IInv'
<1> SUFFICES ASSUME IInv, AllPublished PROVE IInv'
  OBVIOUS
<1> USE DEF AllPublished, plan, progress, disk, tallies
<1>1. PreparationTypeOK'
  <2>1. PlanTypeOK' /\ FilesTypeOK' /\ CountersTypeOK'
    BY DEF IInv, PreparationTypeOK, PlanTypeOK, FilesTypeOK, CountersTypeOK
  <2>2. ProgressTypeOK'
    BY DEF IInv, PreparationTypeOK, ProgressTypeOK
  <2> QED BY <2>1, <2>2 DEF PreparationTypeOK
<1>2. NotStarted' /\ Partition' /\ AccountingExact' /\ Fresh'
  BY DEF IInv, NotStarted, Partition, AccountingExact, Fresh, Queued
<1>3. Threads'
  BY DEF IInv, Threads, NoThreadOutlivesInvocation
<1>4. Order'
  BY DEF IInv, Order, PublishedInOrder, Pool, Queued
<1>5. Disk'
  BY DEF IInv, Disk, ManifestOnDisk, CompletedIsPrepared
<1> QED BY <1>1, <1>2, <1>3, <1>4, <1>5 DEF IInv

\* With nothing queued, active or buffered at nextEmit, everything is completed.
LEMMA FinishStep == IInv /\ Finish => IInv'
<1> SUFFICES ASSUME IInv, Finish PROVE IInv'
  OBVIOUS
<1>1. stopStatus \in ManifestStatuses /\ step = "finish"
  BY DEF Finish, IInv, PreparationTypeOK, ProgressTypeOK
<1>2. ASSUME stopStatus = "completed" PROVE completed = Shards
  <2>1. Queued = {} /\ active = {} /\ nextEmit \notin buffered
    BY <1>1, <1>2 DEF IInv, Order, Pool
  <2>2. missing \subseteq buffered \cup completed
    BY <1>1, <2>1 DEF IInv, Partition, Queued
  <2>3. nextEmit \notin Shards
    BY <1>1, <2>1, <2>2 DEF IInv, Order, Pool
  <2>4. nextEmit = NumShards + 1
    BY <2>3, ShardNumbers DEF IInv, PreparationTypeOK, ProgressTypeOK, Shards
  <2>5. \A s \in missing : s < nextEmit
    BY <2>4, ShardNumbers DEF IInv, PreparationTypeOK, PlanTypeOK, Shards
  <2>6. missing \subseteq completed
    BY <1>1, <2>5 DEF IInv, Order, PublishedInOrder
  <2> QED BY <1>1, <2>6 DEF IInv, Partition
<1> QED BY <1>1, <1>2, ReturnStep DEF Finish

\* An exception leaves the pool: once at the end of drain, or to reach it.
LEMMA RaiseStep == IInv /\ (Raise \/ InterruptPreparation) => IInv'
<1> SUFFICES ASSUME IInv, Raise \/ InterruptPreparation PROVE IInv'
  OBVIOUS
<1> USE DEF Raise, InterruptPreparation, plan, progress, disk, tallies
<1>1. PreparationTypeOK'
  <2>1. PlanTypeOK' /\ FilesTypeOK' /\ CountersTypeOK'
    BY DEF IInv, PreparationTypeOK, PlanTypeOK, FilesTypeOK, CountersTypeOK
  <2>2. ProgressTypeOK'
    BY DEF IInv, PreparationTypeOK, ProgressTypeOK
  <2> QED BY <2>1, <2>2 DEF PreparationTypeOK
<1>2. NotStarted' /\ Partition' /\ AccountingExact' /\ Fresh'
  BY DEF IInv, NotStarted, Partition, AccountingExact, Fresh, Queued
<1>3. Threads' /\ Order'
  BY DEF IInv, Threads, NoThreadOutlivesInvocation, Order, PublishedInOrder, Pool
<1>4. Disk'
  BY DEF IInv, Disk, ManifestOnDisk, CompletedIsPrepared
<1> QED BY <1>1, <1>2, <1>3, <1>4 DEF IInv
--------------------------------------------------------------------------------
(* Worker threads, crashes *)

\* A thread takes a step, or fails: it is a future of the coordinator before and
\* after, unless an exception is leaving the pool.
LEMMA ThreadStep == ASSUME NEW s \in Shards PROVE IInv /\ (Thread(s) \/ Fail(s)) => IInv'
<1> SUFFICES ASSUME IInv, Thread(s) \/ Fail(s) PROVE IInv'
  OBVIOUS
<1>1. CASE BeginShard(s) \/ Save(s) \/ Complete(s) \/ Fail(s)
  <2>1. step # "down" /\ worker[s] \in Busy
    BY <1>1
      DEF BeginShard, Save, Complete, Fail, Advance, IInv, Threads, NoThreadOutlivesInvocation, Busy
  <2>2. worker' = [worker EXCEPT ![s] = worker'[s]]
        /\ worker'[s] \in {"running", "saved", "done", "failed"}
    BY <1>1 DEF BeginShard, Save, Complete, Fail, Advance, IInv, PreparationTypeOK, FilesTypeOK
  <2>3. \A t \in Shards : t # s => worker'[t] = worker[t]
    BY <2>2 DEF IInv, PreparationTypeOK, FilesTypeOK
  <2>4. /\ files' = [files EXCEPT ![s] = "valid"] \/ files' = files
        /\ worker'[s] \in {"saved", "done"} => files'[s] = "valid"
        /\ worker'[s] = "running" => worker[s] = "queued" /\ files' = files
    <3>1. CASE BeginShard(s)
      BY <3>1 DEF BeginShard, Advance, disk, IInv, PreparationTypeOK, FilesTypeOK
    <3>2. CASE Save(s)
      BY <3>2 DEF Save, Advance, IInv, PreparationTypeOK, FilesTypeOK
    <3>3. CASE Complete(s)
      BY <2>1, <3>3 DEF Complete, Advance, disk, IInv, Disk, PreparationTypeOK, FilesTypeOK
    <3>4. CASE Fail(s)
      BY <3>4 DEF Fail, Advance, disk, IInv, PreparationTypeOK, FilesTypeOK
    <3> QED BY <1>1, <3>1, <3>2, <3>3, <3>4
  <2>5. \A t \in Shards : files[t] = "valid" => files'[t] = "valid"
    BY <2>4 DEF IInv, PreparationTypeOK, FilesTypeOK
  <2>6. \A t \in Shards : t # s => files'[t] = files[t]
    BY <2>4 DEF IInv, PreparationTypeOK, FilesTypeOK
  <2>7. /\ UNCHANGED <<durable, step, cachePolicy, missing, admitted, dispatched, active, arrived,
                       buffered, completed, failed, nextEmit, predicted, exhausted, stopStatus,
                       manifest, returned>>
        /\ durable => unsynced' = unsynced
    BY <1>1 DEF BeginShard, Save, Complete, Fail, Advance, plan, progress, disk, tallies
  <2>8. PreparationTypeOK'
    <3>1. PlanTypeOK' /\ ProgressTypeOK'
      BY <2>7 DEF IInv, PreparationTypeOK, PlanTypeOK, ProgressTypeOK
    <3>2. FilesTypeOK'
      BY <1>1
        DEF BeginShard, Save, Complete, Fail, Advance, plan, disk, IInv, PreparationTypeOK, FilesTypeOK
    <3>3. CountersTypeOK'
      BY <1>1
        DEF BeginShard, Save, Complete, Fail, Advance, tallies, IInv, PreparationTypeOK, CountersTypeOK
    <3> QED BY <3>1, <3>2, <3>3 DEF PreparationTypeOK
  <2>9. NotStarted' /\ Partition' /\ AccountingExact' /\ Order'
    BY <2>7 DEF IInv, NotStarted, Partition, AccountingExact, Queued, Order, PublishedInOrder, Pool
  <2>10. Threads'
    BY <2>1, <2>3, <2>7 DEF IInv, Threads, NoThreadOutlivesInvocation, Busy
  <2>11. Disk'
    <3>1. ManifestOnDisk'
      <4>1. durable /\ manifest # Nothing => manifest \in Manifests /\ manifest.names \subseteq Shards
        BY DEF IInv, PreparationTypeOK, FilesTypeOK, Manifests
      <4> QED BY <2>5, <2>7, <4>1 DEF IInv, Disk, ManifestOnDisk
    <3>2. \A t \in completed' \cup buffered' : files'[t] = "valid"
      BY <2>1, <2>5, <2>7 DEF IInv, Disk, PreparationTypeOK, PlanTypeOK, ProgressTypeOK
    <3>3. \A t \in Shards : worker'[t] \in {"saved", "done"} => files'[t] = "valid"
      BY <2>1, <2>3, <2>4, <2>5 DEF IInv, Disk
    <3>4. returned' = Nothing
      BY <2>1, <2>7 DEF IInv, Disk
    <3>5. durable' => unsynced' = {}
      BY <2>7 DEF IInv, Disk
    <3> QED BY <3>1, <3>2, <3>3, <3>4, <3>5 DEF Disk, CompletedIsPrepared
  <2>12. Fresh'
    <3>1. s \notin Queued
      BY <2>1 DEF IInv, Threads, Busy, Queued
    <3>2. Queued' = Queued
      BY <2>7 DEF Queued
    <3> SUFFICES ASSUME step \notin {"down", "scan"}, cachePolicy = "reuse", NEW t \in Shards,
                        t \in Queued \/ worker'[t] \in {"queued", "running"}
                 PROVE  files'[t] # "valid"
      BY <2>7, <3>2 DEF Fresh
    <3>3. CASE t = s
      BY <2>2, <2>4, <3>1, <3>3 DEF IInv, Fresh
    <3>4. CASE t # s
      BY <2>3, <2>6, <3>4 DEF IInv, Fresh
    <3> QED BY <3>3, <3>4
  <2> QED BY <2>8, <2>9, <2>10, <2>11, <2>12 DEF IInv
<1> QED BY <1>1 DEF Thread

LEMMA CrashStep == IInv /\ CrashPreparation => IInv'
<1> SUFFICES ASSUME IInv, CrashPreparation PROVE IInv'
  OBVIOUS
<1> USE DEF CrashPreparation, plan, progress
<1>1. /\ files' \in [Shards -> {"absent", "valid", "corrupt", "torn"}]
      /\ manifest' \in Manifests \cup {Nothing} /\ unsynced' \subseteq Shards \cup {0}
  BY DEF IInv, PreparationTypeOK, FilesTypeOK, Content, Manifests, ManifestStatuses
<1>2. PreparationTypeOK'
  <2>1. PlanTypeOK' /\ CountersTypeOK'
    BY DEF IInv, PreparationTypeOK, PlanTypeOK, CountersTypeOK
  <2>2. ProgressTypeOK'
    BY DEF IInv, PreparationTypeOK, ProgressTypeOK
  <2>3. FilesTypeOK'
    BY <1>1 DEF FilesTypeOK, Idle
  <2> QED BY <2>1, <2>2, <2>3 DEF PreparationTypeOK
<1>3. NotStarted' /\ Partition' /\ AccountingExact' /\ Fresh'
  BY DEF NotStarted, Partition, AccountingExact, Fresh
<1>4. Threads' /\ Order'
  BY DEF Threads, NoThreadOutlivesInvocation, Idle, Order, PublishedInOrder, Pool
<1>5. durable => UNCHANGED <<files, manifest, unsynced>>
  <2> SUFFICES ASSUME durable PROVE UNCHANGED <<files, manifest, unsynced>>
    OBVIOUS
  <2>1. unsynced = {}
    BY DEF IInv, Disk
  <2>2. files' = [s \in Shards |-> files[s]] /\ manifest' = manifest /\ unsynced' = unsynced
    BY <2>1
  <2> QED BY <2>2 DEF IInv, PreparationTypeOK, FilesTypeOK
<1>6. Disk'
  BY <1>5 DEF IInv, Disk, ManifestOnDisk, CompletedIsPrepared, Idle
<1> QED BY <1>2, <1>3, <1>4, <1>6 DEF IInv
--------------------------------------------------------------------------------
LEMMA StutterStep == IInv /\ UNCHANGED preparationVars => IInv'
BY
  DEF IInv, preparationVars, plan, progress, disk, tallies, PreparationTypeOK, PlanTypeOK, ProgressTypeOK,
       FilesTypeOK, CountersTypeOK, NotStarted, Partition, AccountingExact, Threads,
       NoThreadOutlivesInvocation, Order, PublishedInOrder, Disk, ManifestOnDisk,
       CompletedIsPrepared, Fresh, Queued

LEMMA NextIInv == IInv /\ [PreparationNext]_preparationVars => IInv'
<1> SUFFICES ASSUME IInv, [PreparationNext]_preparationVars PROVE IInv'
  OBVIOUS
<1>1. CASE Start \/ Refuse
  BY <1>1, StartStep
<1>2. CASE Planning
  BY <1>2, ScanCacheStep, ScanFailsStep, EarlyReturnStep, AdmitStep, CompileStep DEF Planning
<1>3. CASE Dispatching
  BY <1>3, DispatchingStep
<1>4. CASE Collecting
  BY <1>4, WaitStep, CollectResultStep, CollectFailureStep, PublishStep, AllPublishedStep,
     FinishStep, RaiseStep DEF Collecting
<1>5. CASE \E s \in Shards : Thread(s) \/ Fail(s)
  BY <1>5, ThreadStep
<1>6. CASE InterruptPreparation
  BY <1>6, RaiseStep
<1>7. CASE CrashPreparation
  BY <1>7, CrashStep
<1>8. CASE UNCHANGED preparationVars
  BY <1>8, StutterStep
<1> QED BY <1>1, <1>2, <1>3, <1>4, <1>5, <1>6, <1>7, <1>8 DEF PreparationNext, Coordinator

LEMMA Invariance == PreparationSpec => []IInv
<1>1. PreparationInit => IInv
  BY InitIInv
<1>2. IInv /\ [PreparationNext]_preparationVars => IInv'
  BY NextIInv
<1> QED BY <1>1, <1>2, PTL DEF PreparationSpec

(***************************************************************************)
(* The variables of the preparation always have their types, and only      *)
(* missing shards are dispatched.                                          *)
(***************************************************************************)
THEOREM PreparationTypes == PreparationSpec => []PreparationTypeOK
<1>1. IInv => PreparationTypeOK
  BY DEF IInv
<1> QED BY <1>1, Invariance, PTL

(***************************************************************************)
(* The counts of a progress event add up to the number of shards, so       *)
(* emit_progress never raises for an invalid accounting.                   *)
(***************************************************************************)
THEOREM AccountingIsExact == PreparationSpec => []AccountingExact
<1>1. IInv => AccountingExact
  BY DEF IInv
<1> QED BY <1>1, Invariance, PTL

(***************************************************************************)
(* With durable progress every shard the manifest names has a valid file,  *)
(* whatever failed, was interrupted or lost power.                         *)
(***************************************************************************)
THEOREM ManifestIsOnDisk == PreparationSpec => []ManifestOnDisk
<1>1. IInv => ManifestOnDisk
  BY DEF IInv, Disk
<1> QED BY <1>1, Invariance, PTL

(***************************************************************************)
(* Shards are published in canonical order, in whatever order the threads  *)
(* finish and wherever the cache has gaps.                                 *)
(***************************************************************************)
THEOREM PublicationInOrder == PreparationSpec => []PublishedInOrder
<1>1. IInv => PublishedInOrder
  BY DEF IInv, Order
<1> QED BY <1>1, Invariance, PTL

(***************************************************************************)
(* A result that says "completed" covers every shard with a valid file.    *)
(***************************************************************************)
THEOREM CompletionIsComplete == PreparationSpec => []CompletedIsPrepared
<1>1. IInv => CompletedIsPrepared
  BY DEF IInv, Disk
<1> QED BY <1>1, Invariance, PTL

(***************************************************************************)
(* When an invocation is over none of its threads writes to the cache.     *)
(***************************************************************************)
THEOREM ThreadsEndFirst == PreparationSpec => []NoThreadOutlivesInvocation
<1>1. IInv => NoThreadOutlivesInvocation
  BY DEF IInv, Threads
<1> QED BY <1>1, Invariance, PTL

\* A thread runs only after the cache scan and before the end.
LEMMA RunningInPool ==
  ASSUME IInv, NEW s \in Shards, worker[s] = "running"
  PROVE  step \notin {"down", "scan"}
<1>1. step # "down"
  BY DEF IInv, Threads, NoThreadOutlivesInvocation
<1>2. step # "scan"
  BY DEF IInv, Threads, NotStarted
<1> QED BY <1>1, <1>2

(***************************************************************************)
(* A restart that reuses the cache never constructs a valid shard again.   *)
(***************************************************************************)
THEOREM ValidShardsAreKept == PreparationSpec => NoRecomputation
<1> DEFINE Step == \A s \in Shards :
             cachePolicy = "reuse" /\ worker[s] = "running" /\ worker'[s] = "saved"
               => files[s] # "valid"
<1>1. IInv /\ [PreparationNext]_preparationVars => [Step]_preparationVars
  <2> SUFFICES ASSUME IInv, PreparationNext, NEW s \in Shards, cachePolicy = "reuse",
                      worker[s] = "running", worker'[s] = "saved"
               PROVE  files[s] # "valid"
    OBVIOUS
  <2> QED BY RunningInPool DEF IInv, Fresh
<1> QED BY <1>1, Invariance, PTL DEF PreparationSpec, NoRecomputation
====
