----------------------- MODULE MeasurementShards_proofs ------------------------
(***************************************************************************)
(* Proofs about MeasurementShards, for every packing, pool and sequence of *)
(* releases, crashes and damages.  The inductive invariant says that while *)
(* the builder runs past its recovery scan, the valid files are exactly    *)
(* the completed shards; that a shard is in one place of the pool; that    *)
(* what was dispatched comes first among the missing shards; and that the  *)
(* buffer has no publishable result when the builder dispatches or waits.  *)
(***************************************************************************)
EXTENDS MeasurementShards, TLAPS, FiniteSetTheorems

Preparing == {"open", "support", "plan", "scan"}
Pooling == {"dispatch", "wait", "publish", "checkpoint", "leave"}

PoolEmpty ==
  reused = {} /\ dispatched = {} /\ worker = Idle /\ buffered = {} /\ completed = {}
NotPooling ==
  /\ pc \in Preparing => PoolEmpty /\ ~failed /\ ~late
  /\ pc = "idle" => worker = Idle
  /\ pc # "idle" => result = "none"
  /\ pc = "scan" => manifest # None

\* The files that validate are the completed shards.
FilesMatch ==
  pc \in Pooling =>
    /\ Valid = completed /\ reused \subseteq completed
    /\ manifest # None /\ manifest.setting = setting

\* A missing shard is not dispatched, in the pool, buffered, or published; the
\* result of a worker that failed is lost.
Placed ==
  pc \in Pooling =>
    /\ dispatched \cap reused = {}
    /\ completed \subseteq reused \cup dispatched
    /\ Active \subseteq dispatched \ completed
    /\ buffered \subseteq dispatched \ completed
    /\ buffered \cap Active = {}
    /\ ~failed => dispatched \subseteq completed \cup buffered \cup Active

\* Dispatch and publication keep the canonical order.
Ordered ==
  pc \in Pooling =>
    /\ \A s \in dispatched : \A t \in Missing : t < s => t \in dispatched
    /\ pc \in {"dispatch", "wait"} => ~NextPublish /\ ~failed
    /\ pc = "leave" => failed \/ (Active = {} /\ ~NextPublish)

Outcome == CompleteIsWhole /\ DeadlineLosesNothing

IInv == TypeOK /\ NotPooling /\ FilesMatch /\ Placed /\ Ordered /\ Outcome
--------------------------------------------------------------------------------
\* A nonempty set of numbers has a smallest element.
LEMMA SmallestIsLeast ==
  ASSUME NEW S \in SUBSET Nat, S # {}
  PROVE  Smallest(S) \in S /\ \A t \in S : Smallest(S) <= t
<1> DEFINE UpTo(n) == {t \in S : t <= n}
           Segments == {UpTo(n) : n \in S}
<1>1. \A n \in S : IsFiniteSet(UpTo(n))
  BY FS_BoundedSetOfNaturals
<1>2. Segments \subseteq FiniteSubsetsOf(Nat) /\ Segments # {}
  BY <1>1 DEF FiniteSubsetsOf
<1>3. PICK least \in Segments :
        \A other \in Segments : <<other, least>> \notin StrictSubsetOrdering(Nat)
  <2> HIDE DEF Segments
  <2> QED BY <1>2, FS_StrictSubsetOrderingWellFounded, WFMin
<1>4. PICK n \in S : least = UpTo(n)
  OBVIOUS
<1>5. \A t \in S : n <= t
  <2> SUFFICES ASSUME NEW t \in S, t < n PROVE FALSE
    OBVIOUS
  <2>1. t \in Nat /\ n \in Nat /\ \A u \in S : u \in Nat
    OBVIOUS
  <2>2. n \in UpTo(n) /\ n \notin UpTo(t)
    BY <2>1
  <2>3. UpTo(t) \subseteq UpTo(n)
    <3>1. \A u \in S : u <= t => u <= n
      BY <2>1
    <3> QED BY <3>1
  <2>4. UpTo(t) \in SUBSET Nat /\ UpTo(n) \in SUBSET Nat /\ UpTo(t) \in Segments
    BY <2>1
  <2> HIDE DEF UpTo, Segments
  <2>5. <<UpTo(t), UpTo(n)>> \in StrictSubsetOrdering(Nat)
    BY <2>2, <2>3, <2>4 DEF StrictSubsetOrdering
  <2> QED BY <1>3, <1>4, <2>4, <2>5
<1> QED BY <1>5 DEF Smallest

\* The storage shards of a setting are numbers.
LEMMA ShardNumbers ==
  /\ Numbers \subseteq Nat
  /\ \A c \in Settings : Shards(c) \subseteq Numbers /\ Shards(c) # {}
BY ShardsAssumption DEF Numbers, Shards

\* Neither None nor Torn is a setting.
LEMMA NoneIsNoSetting ==
  None \notin Settings /\ None \notin Manifests /\ Torn \notin Settings /\ Torn # None
BY ShardsAssumption
--------------------------------------------------------------------------------
(* The initial state *)

LEMMA InitHolds == Init => IInv
BY NoneIsNoSetting, ShardNumbers
   DEF Init, IInv, TypeOK, NotPooling, FilesMatch, Placed, Ordered, Outcome, Preparing, Pooling,
       PoolEmpty, CompleteIsWhole, DeadlineLosesNothing, Idle
--------------------------------------------------------------------------------
(* Steps of the caller and its environment *)

LEMMA ConfigurePreserves == IInv /\ Configure => IInv'
<1> SUFFICES ASSUME IInv, Configure PROVE IInv'
  OBVIOUS
<1> USE NoneIsNoSetting, ShardNumbers
<1>1. TypeOK'
  BY DEF Configure, EmptyPool, IInv, TypeOK, Idle, pool, disk, Manifests
<1>2. NotPooling'
  BY DEF Configure, EmptyPool, IInv, TypeOK, NotPooling, PoolEmpty, Preparing, Idle, pool, disk
<1>3. FilesMatch' /\ Placed' /\ Ordered'
  BY DEF Configure, IInv, TypeOK, FilesMatch, Placed, Ordered, Pooling
<1>4. Outcome'
  BY DEF Configure, EmptyPool, IInv, TypeOK, Outcome, CompleteIsWhole, DeadlineLosesNothing, pool,
         disk, Valid, Accepted
<1> QED BY <1>1, <1>2, <1>3, <1>4 DEF IInv

LEMMA CallPreserves == IInv /\ Call => IInv'
<1> SUFFICES ASSUME IInv, Call PROVE IInv'
  OBVIOUS
<1> USE NoneIsNoSetting, ShardNumbers
<1>1. TypeOK'
  BY DEF Call, EmptyPool, IInv, TypeOK, Idle, pool, disk, Manifests
<1>2. NotPooling'
  BY DEF Call, EmptyPool, IInv, TypeOK, NotPooling, PoolEmpty, Preparing, Idle, pool, disk
<1>3. FilesMatch' /\ Placed' /\ Ordered'
  BY DEF Call, IInv, TypeOK, FilesMatch, Placed, Ordered, Pooling
<1>4. Outcome'
  BY DEF Call, EmptyPool, IInv, TypeOK, Outcome, CompleteIsWhole, DeadlineLosesNothing, pool,
         disk, Valid, Accepted
<1> QED BY <1>1, <1>2, <1>3, <1>4 DEF IInv

LEMMA TakeResultPreserves == IInv /\ TakeResult => IInv'
<1> SUFFICES ASSUME IInv, TakeResult PROVE IInv'
  OBVIOUS
<1> USE NoneIsNoSetting, ShardNumbers
<1>1. TypeOK'
  BY DEF TakeResult, EmptyPool, IInv, TypeOK, Idle, pool, disk, Manifests
<1>2. NotPooling'
  BY DEF TakeResult, EmptyPool, IInv, TypeOK, NotPooling, PoolEmpty, Preparing, Idle, pool, disk
<1>3. FilesMatch' /\ Placed' /\ Ordered'
  BY DEF TakeResult, IInv, TypeOK, FilesMatch, Placed, Ordered, Pooling
<1>4. Outcome'
  BY DEF TakeResult, EmptyPool, IInv, TypeOK, Outcome, CompleteIsWhole, DeadlineLosesNothing, pool,
         disk, Valid, Accepted
<1> QED BY <1>1, <1>2, <1>3, <1>4 DEF IInv

LEMMA DamagePreserves == IInv /\ Damage => IInv'
<1> SUFFICES ASSUME IInv, Damage PROVE IInv'
  OBVIOUS
<1> USE NoneIsNoSetting, ShardNumbers
<1>1. TypeOK'
  <2>1. files' \in [Numbers -> Settings \cup {None, Torn}]
    BY DEF Damage, IInv, TypeOK
  <2>2. manifest' \in Manifests \cup {None} /\ support' \in BOOLEAN
        /\ groups' \in {"none", "sound", "torn"}
    BY DEF Damage, IInv, TypeOK
  <2> QED BY <2>1, <2>2 DEF Damage, IInv, TypeOK, pool
<1>2. NotPooling'
  BY DEF Damage, EmptyPool, IInv, TypeOK, NotPooling, PoolEmpty, Preparing, Idle, pool, disk
<1>3. FilesMatch' /\ Placed' /\ Ordered'
  BY DEF Damage, IInv, TypeOK, FilesMatch, Placed, Ordered, Pooling
<1>4. Outcome'
  BY DEF Damage, EmptyPool, IInv, TypeOK, Outcome, CompleteIsWhole, DeadlineLosesNothing, pool,
         disk, Valid, Accepted
<1> QED BY <1>1, <1>2, <1>3, <1>4 DEF IInv

LEMMA DiscardPreserves == IInv /\ Discard => IInv'
<1> SUFFICES ASSUME IInv, Discard PROVE IInv'
  OBVIOUS
<1> USE NoneIsNoSetting, ShardNumbers
<1>1. TypeOK'
  BY DEF Discard, EmptyPool, IInv, TypeOK, Idle, pool, disk, Manifests
<1>2. NotPooling'
  BY DEF Discard, EmptyPool, IInv, TypeOK, NotPooling, PoolEmpty, Preparing, Idle, pool, disk
<1>3. FilesMatch' /\ Placed' /\ Ordered'
  BY DEF Discard, IInv, TypeOK, FilesMatch, Placed, Ordered, Pooling
<1>4. Outcome'
  BY DEF Discard, EmptyPool, IInv, TypeOK, Outcome, CompleteIsWhole, DeadlineLosesNothing, pool,
         disk, Valid, Accepted
<1> QED BY <1>1, <1>2, <1>3, <1>4 DEF IInv

LEMMA CrashPreserves == IInv /\ Crash => IInv'
<1> SUFFICES ASSUME IInv, Crash PROVE IInv'
  OBVIOUS
<1> USE NoneIsNoSetting, ShardNumbers
<1>1. TypeOK'
  BY DEF Crash, EmptyPool, IInv, TypeOK, Idle, pool, disk, Manifests
<1>2. NotPooling'
  BY DEF Crash, EmptyPool, IInv, TypeOK, NotPooling, PoolEmpty, Preparing, Idle, pool, disk
<1>3. FilesMatch' /\ Placed' /\ Ordered'
  BY DEF Crash, IInv, TypeOK, FilesMatch, Placed, Ordered, Pooling
<1>4. Outcome'
  BY DEF Crash, EmptyPool, IInv, TypeOK, Outcome, CompleteIsWhole, DeadlineLosesNothing, pool,
         disk, Valid, Accepted
<1> QED BY <1>1, <1>2, <1>3, <1>4 DEF IInv

LEMMA ExpirePreserves == IInv /\ Expire => IInv'
BY NoneIsNoSetting, ShardNumbers
   DEF Expire, Leave, IInv, TypeOK, NotPooling, FilesMatch, Placed, Ordered, Outcome, Preparing,
       Pooling, PoolEmpty, CompleteIsWhole, DeadlineLosesNothing, Idle, pool, disk, Valid,
       Accepted, Active, Missing, NextPublish, Unpublished, MarkedComplete, Manifests
--------------------------------------------------------------------------------
(* Steps before the pool *)

LEMMA StopEarlyPreserves == IInv /\ StopEarly => IInv'
BY NoneIsNoSetting, ShardNumbers
   DEF StopEarly, Leave, IInv, TypeOK, NotPooling, FilesMatch, Placed, Ordered, Outcome, Preparing,
       Pooling, PoolEmpty, CompleteIsWhole, DeadlineLosesNothing, Idle, pool, disk, Valid,
       Accepted, Active, Missing, NextPublish, Unpublished, MarkedComplete, Manifests

LEMMA OpenCompletePreserves == IInv /\ OpenComplete => IInv'
BY NoneIsNoSetting, ShardNumbers
   DEF OpenComplete, Leave, IInv, TypeOK, NotPooling, FilesMatch, Placed, Ordered, Outcome, Preparing,
       Pooling, PoolEmpty, CompleteIsWhole, DeadlineLosesNothing, Idle, pool, disk, Valid,
       Accepted, Active, Missing, NextPublish, Unpublished, MarkedComplete, Manifests

LEMMA OpenPartialPreserves == IInv /\ OpenPartial => IInv'
BY NoneIsNoSetting, ShardNumbers
   DEF OpenPartial, Leave, IInv, TypeOK, NotPooling, FilesMatch, Placed, Ordered, Outcome, Preparing,
       Pooling, PoolEmpty, CompleteIsWhole, DeadlineLosesNothing, Idle, pool, disk, Valid,
       Accepted, Active, Missing, NextPublish, Unpublished, MarkedComplete, Manifests

LEMMA OpenTornPreserves == IInv /\ OpenTorn => IInv'
BY NoneIsNoSetting, ShardNumbers
   DEF OpenTorn, Leave, IInv, TypeOK, NotPooling, FilesMatch, Placed, Ordered, Outcome, Preparing,
       Pooling, PoolEmpty, CompleteIsWhole, DeadlineLosesNothing, Idle, pool, disk, Valid,
       Accepted, Active, Missing, NextPublish, Unpublished, MarkedComplete, Manifests

LEMMA SaveGroupPreserves == IInv /\ SaveGroup => IInv'
BY NoneIsNoSetting, ShardNumbers
   DEF SaveGroup, Leave, IInv, TypeOK, NotPooling, FilesMatch, Placed, Ordered, Outcome, Preparing,
       Pooling, PoolEmpty, CompleteIsWhole, DeadlineLosesNothing, Idle, pool, disk, Valid,
       Accepted, Active, Missing, NextPublish, Unpublished, MarkedComplete, Manifests

LEMMA SupportPreserves == IInv /\ Support => IInv'
BY NoneIsNoSetting, ShardNumbers
   DEF Support, Leave, IInv, TypeOK, NotPooling, FilesMatch, Placed, Ordered, Outcome, Preparing,
       Pooling, PoolEmpty, CompleteIsWhole, DeadlineLosesNothing, Idle, pool, disk, Valid,
       Accepted, Active, Missing, NextPublish, Unpublished, MarkedComplete, Manifests

LEMMA SupportFailsPreserves == IInv /\ SupportFails => IInv'
BY NoneIsNoSetting, ShardNumbers
   DEF SupportFails, Leave, IInv, TypeOK, NotPooling, FilesMatch, Placed, Ordered, Outcome, Preparing,
       Pooling, PoolEmpty, CompleteIsWhole, DeadlineLosesNothing, Idle, pool, disk, Valid,
       Accepted, Active, Missing, NextPublish, Unpublished, MarkedComplete, Manifests

LEMMA PreflightFailsPreserves == IInv /\ PreflightFails => IInv'
BY NoneIsNoSetting, ShardNumbers
   DEF PreflightFails, Leave, IInv, TypeOK, NotPooling, FilesMatch, Placed, Ordered, Outcome, Preparing,
       Pooling, PoolEmpty, CompleteIsWhole, DeadlineLosesNothing, Idle, pool, disk, Valid,
       Accepted, Active, Missing, NextPublish, Unpublished, MarkedComplete, Manifests

LEMMA PlanPreserves == IInv /\ Plan => IInv'
BY NoneIsNoSetting, ShardNumbers
   DEF Plan, Leave, IInv, TypeOK, NotPooling, FilesMatch, Placed, Ordered, Outcome, Preparing,
       Pooling, PoolEmpty, CompleteIsWhole, DeadlineLosesNothing, Idle, pool, disk, Valid,
       Accepted, Active, Missing, NextPublish, Unpublished, MarkedComplete, Manifests

LEMMA ScanTornPreserves == IInv /\ ScanTorn => IInv'
BY NoneIsNoSetting, ShardNumbers
   DEF ScanTorn, Leave, IInv, TypeOK, NotPooling, FilesMatch, Placed, Ordered, Outcome, Preparing,
       Pooling, PoolEmpty, CompleteIsWhole, DeadlineLosesNothing, Idle, pool, disk, Valid,
       Accepted, Active, Missing, NextPublish, Unpublished, MarkedComplete, Manifests

LEMMA ScanPreserves == IInv /\ Scan => IInv'
<1> SUFFICES ASSUME IInv, Scan PROVE IInv'
  OBVIOUS
<1> USE NoneIsNoSetting, ShardNumbers
<1>1. TypeOK'
  BY DEF Scan, Leave, IInv, TypeOK, Manifests, Valid
<1>2. NotPooling'
  BY DEF Scan, Leave, IInv, TypeOK, NotPooling, PoolEmpty, Preparing, Idle
<1>3. /\ reused' = Valid /\ completed' = Valid /\ dispatched' = {} /\ buffered' = {}
      /\ Active' = {} /\ ~failed' /\ Valid' = Valid /\ pc' \in {"idle", "dispatch"}
  BY DEF Scan, Leave, IInv, TypeOK, NotPooling, PoolEmpty, Preparing, Idle, Active, Valid, Numbers
<1>4. FilesMatch'
  <2>1. manifest' # None /\ manifest'.setting = setting'
    BY DEF Scan, IInv, TypeOK, Valid, Manifests
  <2> QED BY <1>3, <2>1 DEF FilesMatch
<1>5. Placed'
  BY <1>3 DEF Placed
<1>6. Ordered'
  BY <1>3 DEF Ordered, NextPublish, Pooling
<1>7. Outcome'
  BY DEF Scan, Leave, IInv, TypeOK, NotPooling, PoolEmpty, Preparing, Outcome, CompleteIsWhole, DeadlineLosesNothing, Valid
<1> QED BY <1>1, <1>2, <1>4, <1>5, <1>6, <1>7 DEF IInv
--------------------------------------------------------------------------------
(* Steps of the pool *)

LEMMA SubmitPreserves == IInv /\ Submit => IInv'
<1> SUFFICES ASSUME IInv, Submit PROVE IInv'
  OBVIOUS
<1> USE NoneIsNoSetting, ShardNumbers
<1>0. PICK s \in Queued : s = Smallest(Queued) /\ \A t \in Queued : s <= t
  <2>1. Queued \subseteq Nat /\ Queued # {}
    BY DEF Submit, HasRoom, Queued, Missing, IInv, TypeOK
  <2> QED BY <2>1, SmallestIsLeast
<1>1. /\ dispatched' = dispatched \cup {s} /\ worker' = [worker EXCEPT ![s] = "running"]
      /\ s \in Numbers /\ s \in Missing /\ s \notin dispatched /\ s \in Shards(setting)
      /\ Missing' = Missing /\ pc = "dispatch"
  BY <1>0 DEF Submit, Queued, Missing, IInv, TypeOK
<1>2. Active' = Active \cup {s}
  BY <1>1 DEF Active, IInv, TypeOK
<1>3. TypeOK'
  <2>1. worker' \in [Numbers -> {"none", "running", "staged", "failed"}]
    BY <1>1 DEF IInv, TypeOK
  <2>2. dispatched' \in SUBSET Shards(setting)
    BY <1>1 DEF IInv, TypeOK
  <2> QED BY <2>1, <2>2 DEF Submit, IInv, TypeOK, disk
<1>4. NotPooling'
  BY DEF Submit, IInv, TypeOK, NotPooling, PoolEmpty, Preparing, disk
<1>5. FilesMatch'
  BY DEF Submit, IInv, TypeOK, FilesMatch, Pooling, Valid, disk
<1>6. Placed'
  <2>1. s \notin reused /\ s \notin completed /\ s \notin buffered
    BY <1>1 DEF IInv, Placed, Pooling, Missing
  <2> QED BY <1>1, <1>2, <2>1 DEF Submit, IInv, Placed, Pooling
<1>7. Ordered'
  <2>1. \A t \in Missing : t < s => t \in dispatched
    <3>1. \A t \in Missing \ dispatched : s <= t
      BY <1>0 DEF Queued
    <3>2. Missing \subseteq Nat /\ s \in Nat
      BY <1>1 DEF Missing, IInv, TypeOK
    <3> QED BY <3>1, <3>2
  <2>2. ~NextPublish' /\ ~failed'
    BY <1>1 DEF Submit, IInv, Ordered, Pooling, NextPublish, Unpublished, Missing
  <2> QED BY <1>1, <2>1, <2>2 DEF Submit, IInv, Ordered, Pooling
<1>8. Outcome'
  BY DEF Submit, IInv, TypeOK, NotPooling, Outcome, CompleteIsWhole, DeadlineLosesNothing, disk
<1> QED BY <1>3, <1>4, <1>5, <1>6, <1>7, <1>8 DEF IInv

LEMMA WorkPreserves == \A s \in Numbers : IInv /\ Work(s) => IInv'
<1> SUFFICES ASSUME NEW s \in Numbers, IInv, Work(s) PROVE IInv'
  OBVIOUS
<1> USE NoneIsNoSetting, ShardNumbers
<1>1. PICK r \in {"staged", "failed"} : worker' = [worker EXCEPT ![s] = r]
  BY DEF Work
<1>2. Active' = Active
  BY <1>1 DEF Work, Active, IInv, TypeOK
<1>3. TypeOK'
  <2>1. worker' \in [Numbers -> {"none", "running", "staged", "failed"}]
    BY <1>1 DEF IInv, TypeOK
  <2> QED BY <2>1 DEF Work, IInv, TypeOK, disk
<1>4. pc \in Pooling
  <2>1. worker # Idle
    BY DEF Work, Idle
  <2> QED BY <2>1 DEF IInv, TypeOK, NotPooling, PoolEmpty, Preparing, Pooling
<1>5. NotPooling'
  BY <1>4 DEF Work, IInv, NotPooling, Pooling, Preparing
<1>6. FilesMatch' /\ Placed' /\ Ordered'
  BY <1>2 DEF Work, IInv, FilesMatch, Placed, Ordered, Valid, disk, NextPublish, Unpublished, Missing
<1>7. Outcome'
  BY DEF Work, IInv, Outcome, CompleteIsWhole, DeadlineLosesNothing, disk, Valid, Accepted
<1> QED BY <1>3, <1>5, <1>6, <1>7 DEF IInv

LEMMA RefuseDispatchPreserves == IInv /\ RefuseDispatch => IInv'
<1> SUFFICES ASSUME IInv, RefuseDispatch PROVE IInv'
  OBVIOUS
<1>1. TypeOK'
  BY DEF RefuseDispatch, EndDispatch, IInv, TypeOK, disk
<1>2. NotPooling'
  BY DEF RefuseDispatch, EndDispatch, IInv, TypeOK, NotPooling, PoolEmpty, Preparing, disk
<1>3. FilesMatch'
  BY DEF RefuseDispatch, EndDispatch, IInv, TypeOK, FilesMatch, Pooling, Valid, disk
<1>4. Placed'
  BY DEF RefuseDispatch, EndDispatch, IInv, TypeOK, Placed, Pooling, Active
<1>5. Ordered'
  BY DEF RefuseDispatch, EndDispatch, IInv, TypeOK, Placed, Ordered, Pooling, Active, Missing, NextPublish,
         Unpublished
<1>6. Outcome'
  BY DEF RefuseDispatch, EndDispatch, IInv, TypeOK, NotPooling, Outcome, CompleteIsWhole, DeadlineLosesNothing
<1> QED BY <1>1, <1>2, <1>3, <1>4, <1>5, <1>6 DEF IInv

LEMMA NoRoomPreserves == IInv /\ NoRoom => IInv'
<1> SUFFICES ASSUME IInv, NoRoom PROVE IInv'
  OBVIOUS
<1>1. TypeOK'
  BY DEF NoRoom, EndDispatch, IInv, TypeOK, disk
<1>2. NotPooling'
  BY DEF NoRoom, EndDispatch, IInv, TypeOK, NotPooling, PoolEmpty, Preparing, disk
<1>3. FilesMatch'
  BY DEF NoRoom, EndDispatch, IInv, TypeOK, FilesMatch, Pooling, Valid, disk
<1>4. Placed'
  BY DEF NoRoom, EndDispatch, IInv, TypeOK, Placed, Pooling, Active
<1>5. Ordered'
  BY DEF NoRoom, EndDispatch, IInv, TypeOK, Placed, Ordered, Pooling, Active, Missing, NextPublish,
         Unpublished
<1>6. Outcome'
  BY DEF NoRoom, EndDispatch, IInv, TypeOK, NotPooling, Outcome, CompleteIsWhole, DeadlineLosesNothing
<1> QED BY <1>1, <1>2, <1>3, <1>4, <1>5, <1>6 DEF IInv

LEMMA WaitExpiredPreserves == IInv /\ WaitExpired => IInv'
<1> SUFFICES ASSUME IInv, WaitExpired PROVE IInv'
  OBVIOUS
<1>1. TypeOK'
  BY DEF WaitExpired, IInv, TypeOK, disk
<1>2. NotPooling'
  BY DEF WaitExpired, IInv, TypeOK, NotPooling, PoolEmpty, Preparing, disk
<1>3. FilesMatch'
  BY DEF WaitExpired, IInv, TypeOK, FilesMatch, Pooling, Valid, disk
<1>4. Placed'
  BY DEF WaitExpired, IInv, TypeOK, Placed, Pooling, Active
<1>5. Ordered'
  BY DEF WaitExpired, IInv, TypeOK, Placed, Ordered, Pooling, Active, Missing, NextPublish,
         Unpublished
<1>6. Outcome'
  BY DEF WaitExpired, IInv, TypeOK, NotPooling, Outcome, CompleteIsWhole, DeadlineLosesNothing
<1> QED BY <1>1, <1>2, <1>3, <1>4, <1>5, <1>6 DEF IInv

LEMMA EndPublishPreserves == IInv /\ EndPublish => IInv'
<1> SUFFICES ASSUME IInv, EndPublish PROVE IInv'
  OBVIOUS
<1>1. TypeOK'
  BY DEF EndPublish, IInv, TypeOK, disk
<1>2. NotPooling'
  BY DEF EndPublish, IInv, TypeOK, NotPooling, PoolEmpty, Preparing, disk
<1>3. FilesMatch'
  BY DEF EndPublish, IInv, TypeOK, FilesMatch, Pooling, Valid, disk
<1>4. Placed'
  BY DEF EndPublish, IInv, TypeOK, Placed, Pooling, Active
<1>5. Ordered'
  BY DEF EndPublish, IInv, TypeOK, Placed, Ordered, Pooling, Active, Missing, NextPublish,
         Unpublished
<1>6. Outcome'
  BY DEF EndPublish, IInv, TypeOK, NotPooling, Outcome, CompleteIsWhole, DeadlineLosesNothing
<1> QED BY <1>1, <1>2, <1>3, <1>4, <1>5, <1>6 DEF IInv

LEMMA CollectPreserves == IInv /\ Collect => IInv'
<1> SUFFICES ASSUME IInv, Collect PROVE IInv'
  OBVIOUS
<1> USE NoneIsNoSetting, ShardNumbers
<1> DEFINE good == {s \in Finished : \A b \in Broken : s < b}
           seen == IF Broken = {} THEN good ELSE good \cup {Smallest(Broken)}
<1>1. /\ good \subseteq Finished /\ seen \subseteq Finished
      /\ good \subseteq seen /\ (Broken = {} => good = Finished)
      /\ buffered' = buffered \cup good
      /\ worker' = [s \in Numbers |-> IF s \in seen THEN "none" ELSE worker[s]]
      /\ failed' = (Broken # {})
  <2>1. Broken \subseteq Finished /\ Finished \subseteq Nat
    BY DEF Broken, Finished, Active
  <2>2. Broken # {} => Smallest(Broken) \in Broken
    BY <2>1, SmallestIsLeast
  <2> QED BY <2>1, <2>2 DEF Collect
<1>0. Broken = {} => seen = good
  OBVIOUS
<1> HIDE DEF good, seen
<1>2. Finished \subseteq Active /\ Active \subseteq Numbers /\ pc = "wait" /\ pc' = "publish"
  BY DEF Collect, Finished, Active
<1>3. Active' = Active \ seen
  BY <1>1, <1>2 DEF Active
<1>10. pc \in Pooling /\ pc' \in Pooling
  BY <1>2 DEF Pooling
<1>4. TypeOK'
  <2>1. worker' \in [Numbers -> {"none", "running", "staged", "failed"}]
    BY <1>1 DEF IInv, TypeOK
  <2>2. buffered' \in SUBSET Shards(setting)
    BY <1>1, <1>2, <1>10 DEF IInv, TypeOK, Placed
  <2> QED BY <2>1, <2>2 DEF Collect, IInv, TypeOK, disk
<1>5. NotPooling'
  BY <1>2 DEF Collect, IInv, NotPooling, Preparing
<1>6. FilesMatch'
  BY <1>10 DEF Collect, IInv, FilesMatch, Valid, disk
<1>7. Placed'
  <2>1. /\ dispatched' = dispatched /\ completed' = completed /\ reused' = reused
    BY DEF Collect
  <2>2. ~failed
    BY <1>2 DEF IInv, Ordered, Pooling
  <2>3. buffered' \subseteq dispatched \ completed /\ buffered' \cap Active' = {}
    BY <1>1, <1>2, <1>3, <1>10 DEF IInv, Placed
  <2>4. ~failed' => dispatched \subseteq completed \cup buffered' \cup Active'
    BY <1>0, <1>1, <1>2, <1>3, <1>10, <2>2 DEF IInv, Placed
  <2> QED BY <1>2, <1>3, <1>10, <2>1, <2>3, <2>4 DEF IInv, Placed
<1>8. Ordered'
  BY <1>2, <1>10 DEF Collect, IInv, Ordered, Missing
<1>9. Outcome'
  BY <1>2 DEF Collect, IInv, NotPooling, Outcome, CompleteIsWhole, DeadlineLosesNothing
<1> QED BY <1>4, <1>5, <1>6, <1>7, <1>8, <1>9 DEF IInv

LEMMA PublishPreserves == IInv /\ Publish => IInv'
<1> SUFFICES ASSUME IInv, Publish PROVE IInv'
  OBVIOUS
<1> USE NoneIsNoSetting, ShardNumbers
<1>1. PICK s \in buffered : 
        /\ s \in Shards(setting) /\ s \in Numbers
        /\ files' = [files EXCEPT ![s] = setting]
        /\ completed' = completed \cup {s} /\ buffered' = buffered \ {s}
  BY DEF Publish, NextPublish, IInv, TypeOK
<1>2. pc = "publish" /\ pc' \in {"publish", "checkpoint"} /\ pc \in Pooling /\ pc' \in Pooling
  BY DEF Publish, Pooling
<1>3. TypeOK'
  <2>1. files' \in [Numbers -> Settings \cup {None, Torn}]
    BY <1>1 DEF IInv, TypeOK
  <2>2. {completed', buffered'} \subseteq SUBSET Shards(setting)
    BY <1>1 DEF IInv, TypeOK
  <2> QED BY <1>2, <2>1, <2>2 DEF Publish, IInv, TypeOK
<1>4. NotPooling'
  BY <1>2 DEF Publish, IInv, NotPooling, Preparing
<1>5. FilesMatch'
  <2>1. Valid' = Valid \cup {s}
    BY <1>1 DEF Publish, Valid, IInv, TypeOK
  <2> QED BY <1>1, <1>2, <2>1 DEF Publish, IInv, FilesMatch
<1>6. Placed'
  <2>1. Active' = Active /\ dispatched' = dispatched /\ reused' = reused /\ failed' = failed
    BY DEF Publish, Active
  <2> QED BY <1>1, <1>2, <2>1 DEF IInv, Placed
<1>7. Ordered'
  BY <1>2 DEF Publish, IInv, Ordered, Missing
<1>8. Outcome'
  BY <1>2 DEF Publish, IInv, NotPooling, Outcome, CompleteIsWhole, DeadlineLosesNothing
<1> QED BY <1>3, <1>4, <1>5, <1>6, <1>7, <1>8 DEF IInv

LEMMA CheckpointManifestPreserves == IInv /\ CheckpointManifest => IInv'
<1> SUFFICES ASSUME IInv, CheckpointManifest PROVE IInv'
  OBVIOUS
<1> USE NoneIsNoSetting, ShardNumbers
<1>0. manifest' \in Manifests /\ manifest'.setting = setting
  BY DEF CheckpointManifest, Content, Manifests, IInv, TypeOK
<1>1. TypeOK'
  BY <1>0 DEF CheckpointManifest, IInv, TypeOK, pool
<1>2. NotPooling'
  BY DEF CheckpointManifest, IInv, NotPooling, Preparing
<1>3. FilesMatch'
  BY <1>0 DEF CheckpointManifest, IInv, FilesMatch, Pooling, Valid, pool
<1>4. Placed' /\ Ordered'
  BY DEF CheckpointManifest, IInv, Placed, Ordered, Pooling, Active, Missing, NextPublish, Unpublished, pool
<1>5. Outcome'
  BY DEF CheckpointManifest, IInv, NotPooling, Outcome, CompleteIsWhole, DeadlineLosesNothing
<1> QED BY <1>1, <1>2, <1>3, <1>4, <1>5 DEF IInv

\* Once no thread works and nothing can be published, all that was dispatched
\* has been published.
LEMMA NothingBuffered ==
  ASSUME IInv, pc \in Pooling, ~failed, Active = {}, ~NextPublish
  PROVE  buffered = {} /\ dispatched \subseteq completed
<1>1. /\ buffered \subseteq dispatched \ completed
      /\ dispatched \subseteq completed \cup buffered /\ dispatched \subseteq Missing
      /\ Missing \subseteq Nat /\ dispatched \cap reused = {}
      /\ \A s \in dispatched : \A t \in Missing : t < s => t \in dispatched
  BY ShardNumbers DEF IInv, TypeOK, Placed, Ordered, Missing
<1>2. SUFFICES ASSUME NEW b \in buffered PROVE FALSE
  BY <1>1
<1>3. Unpublished \subseteq Nat /\ b \in Unpublished
  BY <1>1 DEF Unpublished
<1>4. PICK u \in Unpublished : u = Smallest(Unpublished) /\ u <= b
  BY <1>3, SmallestIsLeast
<1>5. u \in dispatched
  <2>1. u \in Nat /\ b \in Nat /\ u \in Missing /\ b \in dispatched
    BY <1>1, <1>3 DEF Unpublished
  <2> QED BY <1>1, <1>4, <2>1
<1>6. u \in buffered
  BY <1>1, <1>5 DEF Unpublished
<1> QED BY <1>1, <1>3, <1>4, <1>6 DEF NextPublish

LEMMA NothingLeft ==
  ASSUME IInv, pc = "leave", ~failed
  PROVE  dispatched \subseteq completed
<1>1. pc \in Pooling /\ Active = {} /\ ~NextPublish
  BY DEF IInv, Ordered, Pooling
<1> QED BY <1>1, NothingBuffered

LEMMA ReturnPreserves == IInv /\ Return => IInv'
<1> SUFFICES ASSUME IInv, Return PROVE IInv'
  OBVIOUS
<1> USE NoneIsNoSetting, ShardNumbers
<1>1. TypeOK'
  BY DEF Return, Leave, Content, Idle, IInv, TypeOK, Manifests
<1>2. NotPooling'
  BY DEF Return, Leave, IInv, TypeOK, NotPooling, PoolEmpty, Preparing
<1>3. FilesMatch' /\ Placed' /\ Ordered'
  BY DEF Return, Leave, FilesMatch, Placed, Ordered, Pooling
<1>4. ~failed => dispatched \subseteq completed
  BY NothingLeft DEF Return
<1>5. CompleteIsWhole'
  <2>1. SUFFICES ASSUME result' = "complete" PROVE Valid' = Shards(setting)'
    BY DEF CompleteIsWhole
  <2>2. ~failed /\ Queued = {}
    BY <2>1 DEF Return, Leave
  <2>3. completed = Shards(setting)
    BY <1>4, <2>2 DEF Return, Queued, Missing, IInv, TypeOK, FilesMatch, Pooling
  <2> QED BY <2>3 DEF Return, IInv, FilesMatch, Pooling, Valid
<1>6. DeadlineLosesNothing'
  <2>1. SUFFICES ASSUME result' = "stopped"
                 PROVE  dispatched' \subseteq completed' /\ Accepted' /\ manifest'.names = completed'
    BY DEF DeadlineLosesNothing
  <2>2. ~failed /\ (late \/ Queued # {})
    BY <2>1 DEF Return, Leave
  <2>3. manifest' = Content
    BY <2>2 DEF Return
  <2>4. manifest' # None
    BY <2>3 DEF Content, Manifests, IInv, TypeOK
  <2> QED BY <1>4, <2>2, <2>3, <2>4 DEF Return, Accepted, Content
<1> QED BY <1>1, <1>2, <1>3, <1>5, <1>6 DEF IInv, Outcome

LEMMA StutterPreserves == IInv /\ UNCHANGED vars => IInv'
<1> SUFFICES ASSUME IInv, UNCHANGED vars PROVE IInv'
  OBVIOUS
<1>1. TypeOK' /\ NotPooling' /\ FilesMatch'
  BY DEF vars, pool, disk, IInv, TypeOK, NotPooling, PoolEmpty, FilesMatch, Valid
<1>2. Placed' /\ Ordered' /\ Outcome'
  BY DEF vars, pool, disk, IInv, Placed, Ordered, Outcome, CompleteIsWhole, DeadlineLosesNothing,
         Valid, Accepted, Active, Missing, NextPublish, Unpublished
<1> QED BY <1>1, <1>2 DEF IInv
--------------------------------------------------------------------------------
(* The theorems *)

\* Every step of the builder, its threads and its environment preserves the
\* invariant.
THEOREM StepPreserves == IInv /\ [Next]_vars => IInv'
<1> SUFFICES ASSUME IInv, [Next]_vars PROVE IInv'
  OBVIOUS
<1>1. CASE Environment
  BY <1>1, ConfigurePreserves, ExpirePreserves, CallPreserves, TakeResultPreserves,
     DamagePreserves, DiscardPreserves, CrashPreserves DEF Environment
<1>2. CASE \E s \in Numbers : Work(s)
  BY <1>2, WorkPreserves
<1>3. CASE Coordinator
  BY <1>3, StopEarlyPreserves, OpenCompletePreserves, OpenPartialPreserves, OpenTornPreserves,
     SaveGroupPreserves, SupportPreserves,
     SupportFailsPreserves, PreflightFailsPreserves, PlanPreserves, ScanPreserves,
     ScanTornPreserves, SubmitPreserves,
     RefuseDispatchPreserves, NoRoomPreserves, WaitExpiredPreserves, CollectPreserves,
     PublishPreserves, CheckpointManifestPreserves, EndPublishPreserves, ReturnPreserves
  DEF Coordinator
<1>4. CASE UNCHANGED vars
  BY <1>4, StutterPreserves
<1> QED BY <1>1, <1>2, <1>3, <1>4 DEF Next, Builder

\* The invariant holds in every reachable state of the shard builder.
THEOREM AlwaysIInv == Spec => []IInv
<1>1. Init => IInv
  BY InitHolds
<1>2. IInv /\ [Next]_vars => IInv'
  BY StepPreserves
<1> QED BY <1>1, <1>2, PTL DEF Spec

\* No thread constructs a shard whose valid file is on disk, for any packing,
\* pool and history of the directory.
THEOREM NeverRebuilds == Spec => []NothingIsRebuilt
<1>1. IInv => NothingIsRebuilt
  <2> SUFFICES ASSUME IInv, NEW s \in Running, files[s] = setting PROVE FALSE
    BY DEF NothingIsRebuilt
  <2>1. s \in Active /\ worker # Idle
    BY DEF Running, Active, Idle
  <2>2. pc \in Pooling
    BY <2>1 DEF IInv, TypeOK, NotPooling, PoolEmpty, Preparing, Pooling
  <2>3. s \in dispatched \ completed /\ Valid = completed
    BY <2>1, <2>2 DEF IInv, Placed, FilesMatch
  <2>4. s \in Shards(setting)
    BY <2>3 DEF IInv, TypeOK
  <2> QED BY <2>3, <2>4 DEF Valid
<1> QED BY <1>1, AlwaysIInv, PTL

\* A stop at a deadline leaves every submitted shard published and recorded,
\* and a call that returns has every shard: the outcomes of the builder.
THEOREM OutcomesAreWhole == Spec => []CompleteIsWhole /\ []DeadlineLosesNothing
<1>1. IInv => CompleteIsWhole /\ DeadlineLosesNothing
  BY DEF IInv, Outcome
<1> QED BY <1>1, AlwaysIInv, PTL

\* A manifest never names a shard whose file does not validate under the
\* provenance it carries, whenever it is written.
THEOREM ManifestsAreHonest == Spec => ManifestWritesAreHonest
<1> DEFINE Honest == manifest' \notin {manifest, None} =>
                       \A s \in manifest'.names : files[s] = manifest'.setting
<1>1. IInv /\ [Next]_vars => [Honest]_vars
  <2> SUFFICES ASSUME IInv, Next, manifest' \notin {manifest, None},
                      NEW s \in manifest'.names
               PROVE  files[s] = manifest'.setting
    BY DEF Honest
  <2>1. CASE Scan
    BY <2>1 DEF Scan, Valid
  <2>2. CASE CheckpointManifest \/ Return
    <3>1. manifest' = Content /\ pc \in Pooling
      BY <2>2 DEF CheckpointManifest, Return, Pooling
    <3>2. completed = Valid
      BY <3>1 DEF IInv, FilesMatch
    <3> QED BY <3>1, <3>2 DEF Content, Valid
  <2>3. CASE Plan
    BY <2>3 DEF Plan
  <2>4. CASE Environment
    BY <2>4 DEF Environment, Configure, Expire, Call, TakeResult, Damage, Discard, Crash, disk
  <2>5. CASE \E t \in Numbers : Work(t)
    BY <2>5 DEF Work, disk
  <2>6. CASE \/ StopEarly \/ OpenComplete \/ OpenPartial \/ OpenTorn \/ SaveGroup \/ Support
             \/ SupportFails \/ PreflightFails \/ ScanTorn
    BY <2>6 DEF StopEarly, OpenComplete, OpenPartial, OpenTorn, SaveGroup, Support, SupportFails,
       PreflightFails, ScanTorn, disk
  <2>7. CASE \/ Submit \/ RefuseDispatch \/ NoRoom \/ WaitExpired \/ Collect \/ Publish
             \/ EndPublish
    BY <2>7 DEF Submit, RefuseDispatch, NoRoom, WaitExpired, EndDispatch, Collect, Publish,
       EndPublish, disk
  <2> QED BY <2>1, <2>2, <2>3, <2>4, <2>5, <2>6, <2>7 DEF Next, Builder, Coordinator
<1>2. Spec => [][Honest]_vars
  BY <1>1, AlwaysIInv, PTL DEF Spec
<1> QED BY <1>2 DEF Honest, ManifestWritesAreHonest
--------------------------------------------------------------------------------
(* Without a deadline nothing is left out *)

\* The dispatch stops at a failure only, and goes on until every missing shard
\* was submitted.
Undelayed ==
  deadline = "none" =>
    /\ ~late /\ (stop => failed) /\ result # "stopped"
    /\ pc = "leave" /\ ~failed => Queued = {}

\* The limits of the pool admit a shard as soon as the pool is empty: a builder
\* that has no room then has nothing left to submit.
LEMMA EmptyPoolHasRoom ==
  ASSUME IInv, pc = "dispatch", Active = {}, ~stop, ~HasRoom
  PROVE  Queued = {}
<1> SUFFICES ASSUME Queued # {} PROVE HasRoom
  OBVIOUS
<1>1. pc \in Pooling /\ ~failed /\ ~NextPublish
  BY DEF IInv, Ordered, Pooling
<1>2. buffered = {}
  BY <1>1, NothingBuffered
<1>3. Cardinality(Active) = 0 /\ Cardinality(buffered) = 0
  BY <1>2, FS_EmptySet
<1>4. Cardinality(Missing) \in Nat \ {0}
  <2>1. Shards(setting) \subseteq Numbers /\ IsFiniteSet(Numbers)
    <3>1. Shards(setting) \subseteq Numbers
      BY ShardNumbers DEF IInv, TypeOK
    <3>2. 1 \in Int /\ MaxShards \in Int
      BY ShardsAssumption
    <3>3. IsFiniteSet(Numbers)
      BY <3>2, FS_Interval DEF Numbers
    <3> QED BY <3>1, <3>3
  <2>2. IsFiniteSet(Missing) /\ Missing # {}
    BY <2>1, FS_Subset DEF Missing, Queued
  <2> QED BY <2>2, FS_EmptySet, FS_CardinalityType
<1>5. AdmittedWorkers \in Nat \ {0} /\ MaxResident \in Nat \ {0}
  <2> DEFINE limits == {Workers, MaxResident, Cardinality(Missing)}
  <2>1. limits \subseteq Nat \ {0} /\ limits # {} /\ limits \in SUBSET Nat
    BY <1>4, ShardsAssumption
  <2>2. AdmittedWorkers \in limits
    <3> HIDE DEF limits
    <3>1. Smallest(limits) \in limits
      BY <2>1, SmallestIsLeast
    <3> QED BY <3>1 DEF AdmittedWorkers, limits
  <2> QED BY <2>1, <2>2, ShardsAssumption
<1> QED BY <1>3, <1>5 DEF HasRoom

LEMMA UndelayedStep == IInv /\ Undelayed /\ [Next]_vars => Undelayed'
<1> SUFFICES ASSUME IInv, Undelayed, [Next]_vars PROVE Undelayed'
  OBVIOUS
<1>1. CASE Configure \/ Crash \/ Call
  BY <1>1 DEF Configure, Crash, Call, EmptyPool, Undelayed, IInv, TypeOK
<1>2. CASE Expire \/ TakeResult \/ Damage \/ Discard
  BY <1>2 DEF Expire, TakeResult, Damage, Discard, EmptyPool, Undelayed, pool, Queued, Missing,
              Shards
<1>3. CASE \/ StopEarly \/ OpenComplete \/ OpenPartial \/ OpenTorn \/ SaveGroup \/ Support
           \/ SupportFails \/ PreflightFails \/ Plan \/ ScanTorn
  BY <1>3 DEF StopEarly, OpenComplete, OpenPartial, OpenTorn, SaveGroup, Support, SupportFails,
              PreflightFails, Plan, ScanTorn, Leave, Undelayed, pool, IInv, TypeOK
<1>4. CASE Scan \/ Submit \/ RefuseDispatch \/ WaitExpired \/ CheckpointManifest \/ Publish
  BY <1>4 DEF Scan, Submit, RefuseDispatch, WaitExpired, CheckpointManifest, Publish, EndDispatch,
              Leave, Undelayed, pool, IInv, TypeOK
<1>5. CASE NoRoom
  <2>1. ~failed
    BY <1>5 DEF NoRoom, IInv, Ordered, Pooling
  <2>2. ~stop /\ Active = {} => Queued = {}
    BY <1>5, EmptyPoolHasRoom DEF NoRoom
  <2> QED BY <1>5, <2>1, <2>2 DEF NoRoom, EndDispatch, Undelayed, Queued, Missing, Shards
<1>6. CASE Collect
  <2>1. ~failed
    BY <1>6 DEF Collect, IInv, Ordered, Pooling
  <2> QED BY <1>6, <2>1 DEF Collect, Undelayed
<1>7. CASE EndPublish
  BY <1>7 DEF EndPublish, Undelayed
<1>8. CASE Return
  BY <1>8 DEF Return, Leave, Undelayed
<1>9. CASE \E s \in Numbers : Work(s)
  BY <1>9 DEF Work, Undelayed, Queued, Missing, Shards
<1>10. CASE UNCHANGED vars
  BY <1>10 DEF vars, pool, Undelayed, Queued, Missing, Shards
<1> QED BY <1>1, <1>2, <1>3, <1>4, <1>5, <1>6, <1>7, <1>8, <1>9, <1>10
        DEF Next, Builder, Coordinator, Environment

\* A call without a deadline never ends as stopped: it submits every missing
\* shard unless a worker fails, whatever its limits and the directory.
THEOREM StopsNeedDeadline == Spec => [](deadline = "none" => result # "stopped")
<1>1. Init => Undelayed
  BY DEF Init, Undelayed
<1>2. IInv /\ Undelayed /\ [Next]_vars => Undelayed'
  BY UndelayedStep
<1>3. Undelayed => (deadline = "none" => result # "stopped")
  BY DEF Undelayed
<1> QED BY <1>1, <1>2, <1>3, AlwaysIInv, PTL DEF Spec
--------------------------------------------------------------------------------
(* A torn file ends a call only if it is there *)

TornIsThere == result = "torn" => groups = "torn" \/ TornShards # {}

LEMMA TornStep == IInv /\ TornIsThere /\ [Next]_vars => TornIsThere'
<1> SUFFICES ASSUME IInv, TornIsThere, [Next]_vars PROVE TornIsThere'
  OBVIOUS
<1>1. CASE Environment \/ UNCHANGED vars \/ \E s \in Numbers : Work(s)
  BY <1>1 DEF Environment, Configure, Expire, Call, TakeResult, Damage, Discard, Crash, Work, vars,
              disk, TornIsThere, TornShards, Shards
<1>2. CASE OpenTorn \/ ScanTorn \/ SupportFails
  <2>1. groups' = groups /\ TornShards' = TornShards
    BY <1>2 DEF OpenTorn, ScanTorn, SupportFails, disk, TornShards, Shards
  <2>2. result' = "torn" => groups = "torn" \/ TornShards # {}
    BY <1>2 DEF OpenTorn, ScanTorn, SupportFails, TornFirst, Leave
  <2> QED BY <2>1, <2>2 DEF TornIsThere
<1>3. CASE StopEarly \/ OpenComplete \/ OpenPartial \/ SaveGroup \/ Support \/ PreflightFails \/ Plan
  <2>1. result = "none" \/ pc = "idle"
    BY DEF IInv, NotPooling
  <2> QED BY <1>3, <2>1 DEF StopEarly, OpenComplete, OpenPartial, SaveGroup, Support,
          PreflightFails, Plan, Leave, TornIsThere
<1>4. CASE Scan \/ Submit \/ RefuseDispatch \/ NoRoom \/ WaitExpired \/ Collect
  <2>1. result = "none" \/ pc = "idle"
    BY DEF IInv, NotPooling
  <2> QED BY <1>4, <2>1 DEF Scan, Submit, RefuseDispatch, NoRoom, EndDispatch, WaitExpired,
          Collect, Leave, TornIsThere
<1>5. CASE Publish \/ CheckpointManifest \/ EndPublish \/ Return
  <2>1. result = "none" \/ pc = "idle"
    BY DEF IInv, NotPooling
  <2> QED BY <1>5, <2>1 DEF Publish, CheckpointManifest, EndPublish, Return, Leave, TornIsThere
<1> QED BY <1>1, <1>2, <1>3, <1>4, <1>5 DEF Next, Builder, Coordinator

\* A call ends with the exception of a torn file only while one is in the
\* directory: a group fragment of the support or a shard of the plan.
THEOREM TornIsFound == Spec => []TornIsThere
<1>1. Init => TornIsThere
  BY DEF Init, TornIsThere
<1>2. IInv /\ TornIsThere /\ [Next]_vars => TornIsThere'
  BY TornStep
<1> QED BY <1>1, <1>2, AlwaysIInv, PTL DEF Spec
================================================================================
