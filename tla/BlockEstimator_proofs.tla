------------------------- MODULE BlockEstimator_proofs -------------------------
(***************************************************************************)
(* Proofs about the block-coordinate estimator and its checkpoint store,   *)
(* for every number of blocks, schedule, batch structure, budget and       *)
(* number of crashes and interrupts.                                       *)
(***************************************************************************)
EXTENDS BlockRecovery, InductionLemmas

IInv == TypeOK /\ AttemptsAccounted

USE ConstantsAssumption
--------------------------------------------------------------------------------
(* Lemmas about the helpers *)

LEMMA InitialStateOK == InitialState \in State /\ Accounted(InitialState)
BY DEF InitialState, State, Flows, Objectives, Levels, Accounted

LEMMA RolloverOK ==
  ASSUME NEW m \in State, Accounted(m), m.pos = NumBlocks
  PROVE  Rollover(m) \in State /\ Accounted(Rollover(m))
<1>1. Rollover(m) \in State
  <2> DEFINE a == [m EXCEPT !.pos = 0]
  <2>1. a \in State /\ m.draws + 1 \in Nat
    BY DEF State
  <2>2. Rollover(m) = [a EXCEPT !.draws = m.draws + 1]
    BY DEF Rollover
  <2> HIDE DEF a
  <2> QED
    BY <2>1, <2>2 DEF State
<1>2. /\ Rollover(m).pos = 0 /\ Rollover(m).draws = m.draws + 1
      /\ Rollover(m).acc = m.acc /\ Rollover(m).rej = m.rej
      /\ Rollover(m).sweep = m.sweep
  BY DEF Rollover, State
<1>3. m.acc + m.rej = m.sweep * NumBlocks + 0 /\ m.draws = m.sweep
  BY DEF Accounted
<1> QED
  BY <1>1, <1>2, <1>3 DEF Accounted

LEMMA MetadataOK ==
  ASSUME NEW m \in State, Accounted(m)
  PROVE  Metadata(m) \in Metadatas /\ Accounted(Metadata(m))
BY DEF Metadata, State, Metadatas, Accounted

LEMMA ReplayedOK ==
  ASSUME NEW m \in State, NEW r, IsUpdate(r), r.meta \in Metadatas, Accounted(r.meta)
  PROVE  Replayed(m, r) \in State /\ Accounted(Replayed(m, r))
<1> DEFINE flow == [b \in Blocks |-> IF b \in r.blocks THEN r.before[b] + 1 ELSE m.flow[b]]
<1> DEFINE pred == [b \in Blocks |-> IF b \in r.blocks THEN m.pred[b] + 1 ELSE m.pred[b]]
<1>1. flow \in Flows
  BY DEF IsUpdate, State, Flows
<1>2. pred \in Flows
  BY DEF State, Flows
<1>3. Replayed(m, r) \in State
  <2> HIDE DEF flow, pred
  <2>1. Replayed(m, r) =
          [flow |-> flow, pred |-> pred,
           bestFlow |-> IF r.updated THEN flow ELSE m.bestFlow,
           obj |-> r.meta.obj, best |-> r.meta.best,
           sweep |-> r.meta.sweep, pos |-> r.meta.pos,
           acc |-> r.meta.acc, rej |-> r.meta.rej, draws |-> r.meta.draws]
    BY DEF Replayed, flow, pred
  <2> QED
    BY <1>1, <1>2, <2>1 DEF IsUpdate, State, Metadatas
<1>4. Accounted(Replayed(m, r))
  BY DEF Replayed, Accounted
<1> QED
  BY <1>3, <1>4

LEMMA WriteFiles ==
  ASSUME NEW files, NEW s, NEW content
  PROVE  /\ DOMAIN Write(files, s, content) = DOMAIN files \cup {s}
         /\ Write(files, s, content)[s] = content
         /\ \A t \in DOMAIN files \ {s} : Write(files, s, content)[t] = files[t]
BY DEF Write

LEMMA UnlinkFiles ==
  ASSUME NEW files, NEW s
  PROVE  /\ DOMAIN Unlink(files, s) = DOMAIN files \ {s}
         /\ \A t \in DOMAIN files \ {s} : Unlink(files, s)[t] = files[t]
BY DEF Unlink

(***************************************************************************)
(* A planned batch is not empty, ends within the schedule, and has at most *)
(* as many blocks as positions.                                            *)
(***************************************************************************)
LEMMA PlannedBatch ==
  ASSUME TypeOK, WithinBudgets, AtBatchStart
  PROVE  /\ mem \in State /\ mem.pos \in 0 .. NumBlocks - 1
         /\ Planned \in 1 .. NumBlocks - mem.pos
         /\ \A accepted \in SUBSET Batch :
              Cardinality(accepted) \in 0 .. Planned
<1>1. mem \in State /\ config \in Configs
  BY DEF TypeOK, MemoryTypeOK, HistoryTypeOK, WithinBudgets
<1>2. /\ mem.pos \in 0 .. NumBlocks - 1
      /\ BatchSizes[config.order][mem.pos] \in 1 .. NumBlocks - mem.pos
  BY <1>1, ConfigsAssumption DEF AtBatchStart
<1>3. limits.updates - Attempts \in Nat \ {0}
  <2>1. limits.updates \in Nat
    <3>1. limits.updates \in UpdateBudgets \cup {0}
      BY DEF TypeOK, MemoryTypeOK
    <3> QED BY <3>1, ConstantsAssumption
  <2>2. Attempts \in Nat /\ Attempts < limits.updates
    BY <1>1 DEF WithinBudgets, Attempts, State
  <2> QED BY <2>1, <2>2
<1>4. Planned \in 1 .. NumBlocks - mem.pos
  BY <1>2, <1>3 DEF Planned
<1>5. \A accepted \in SUBSET Batch : Cardinality(accepted) \in 0 .. Planned
  <2> DEFINE S == mem.pos + 1 .. mem.pos + Planned
  <2> DEFINE f == [p \in S |-> Schedule[config.order][mem.draws][p]]
  <2>1. IsFiniteSet(S) /\ Cardinality(S) = Planned
    <3>1. mem.pos + 1 \in Int /\ mem.pos + Planned \in Int /\ mem.pos + 1 <= mem.pos + Planned
      BY <1>2, <1>4
    <3>2. IsFiniteSet(S) /\ Cardinality(S) = (mem.pos + Planned) - (mem.pos + 1) + 1
      BY <3>1, FS_Interval
    <3> QED
      BY <1>2, <1>4, <3>2
  <2>2. f \in Surjection(S, Batch)
    BY DEF Batch, Surjection
  <2>3. IsFiniteSet(Batch) /\ Cardinality(Batch) <= Planned
    <3> HIDE DEF f, S
    <3> QED
      BY <2>1, <2>2, FS_Surjection
  <2> QED
    BY <1>4, <2>3, FS_Subset, FS_CardinalityType
<1> QED
  BY <1>1, <1>2, <1>4, <1>5
--------------------------------------------------------------------------------
(* The invariant is inductive *)

LEMMA NothingOK == IsUpdate(Nothing) /\ Nothing.fatal \in BOOLEAN
BY DEF Nothing, IsUpdate

LEMMA NoLimitsOK == NoLimits \in [sweeps : SweepBudgets \cup {0}, updates : UpdateBudgets \cup {0}]
BY DEF NoLimits

LEMMA InitIInv == Init => IInv
<1> SUFFICES ASSUME Init PROVE IInv
  OBVIOUS
<1> USE NothingOK, NoLimitsOK DEF Init
<1>1. Files = {} /\ Markers = {}
  BY DEF Files, Markers, NoFiles
<1>2. MemoryTypeOK
  BY DEF MemoryTypeOK
<1>3. DiskTypeOK
  BY <1>1 DEF DiskTypeOK
<1>4. HistoryTypeOK
  BY DEF HistoryTypeOK
<1>5. AttemptsAccounted
  BY <1>1 DEF AttemptsAccounted
<1> QED
  BY <1>2, <1>3, <1>4, <1>5 DEF IInv, TypeOK

\* A step that writes no file has only its memory to account for.
LEMMA SameDisk ==
  ASSUME IInv, UNCHANGED disk, MemoryTypeOK', HistoryTypeOK',
         mem' # None => mem' = mem \/ Accounted(mem')
  PROVE  IInv'
<1>1. compact' = compact /\ journal' = journal /\ Files' = Files /\ Markers' = Markers
  BY DEF disk, Files, Markers
<1>2. DiskTypeOK'
  BY <1>1 DEF IInv, TypeOK, DiskTypeOK
<1>3. AttemptsAccounted'
  BY <1>1 DEF IInv, AttemptsAccounted
<1> QED
  BY <1>2, <1>3 DEF IInv, TypeOK

LEMMA SameHistory ==
  ASSUME TypeOK, UNCHANGED <<config, reported, counters>>
  PROVE  HistoryTypeOK'
BY DEF TypeOK, HistoryTypeOK, counters

LEMMA RaiseStep ==
  ASSUME IInv, NEW how, Raise(how), HistoryTypeOK'
  PROVE  IInv'
<1>1. MemoryTypeOK'
  BY NothingOK, NoLimitsOK DEF MemoryTypeOK, Raise
<1> QED
  BY <1>1, SameDisk DEF Raise

LEMMA StopStep ==
  ASSUME IInv, NEW how, Stop(how), preserved' \in BOOLEAN, HistoryTypeOK', pc # "down"
  PROVE  IInv'
<1>1. MemoryTypeOK'
  BY DEF IInv, TypeOK, MemoryTypeOK, Stop, disk
<1> QED
  BY <1>1, SameDisk DEF Stop

\* What a running process may rely on.
LEMMA RunningState ==
  ASSUME IInv, pc # "down"
  PROVE  mem \in State /\ Accounted(mem) /\ mem # None /\ compact # None
BY DEF IInv, TypeOK, MemoryTypeOK, AttemptsAccounted

LEMMA StartFreshStep == IInv /\ StartFresh => IInv'
<1> SUFFICES ASSUME IInv, StartFresh PROVE IInv'
  OBVIOUS
<1> USE DEF StartFresh
<1>1. /\ compact' \in [seq : Nat, state : State] /\ compact' # None
      /\ mem' \in State /\ mem' # None
      /\ mem' = InitialState /\ compact'.state = InitialState
  BY InitialStateOK
<1>2. Files' = Files /\ Markers' = Markers /\ journal' = journal
  BY DEF Files, Markers
<1>3. MemoryTypeOK'
  BY <1>1, NothingOK DEF MemoryTypeOK
<1>4. DiskTypeOK'
  BY <1>1, <1>2 DEF IInv, TypeOK, DiskTypeOK
<1>5. HistoryTypeOK'
  BY DEF IInv, TypeOK, HistoryTypeOK
<1>6. AttemptsAccounted'
  BY <1>1, <1>2, InitialStateOK DEF IInv, AttemptsAccounted
<1> QED
  BY <1>3, <1>4, <1>5, <1>6 DEF IInv, TypeOK

LEMMA ResumeStep == IInv /\ Resume => IInv'
<1> SUFFICES ASSUME IInv, Resume PROVE IInv'
  OBVIOUS
<1> USE DEF Resume
<1>1. /\ compact \in [seq : Nat, state : State] /\ compact' = compact
      /\ mem' = compact.state /\ seq' \in Nat
      /\ mem' \in State /\ mem' # None /\ Accounted(mem')
  BY DEF IInv, TypeOK, DiskTypeOK, AttemptsAccounted, disk
<1>2. MemoryTypeOK'
  BY <1>1, NothingOK DEF MemoryTypeOK
<1>3. HistoryTypeOK'
  BY DEF IInv, TypeOK, HistoryTypeOK
<1> QED
  BY <1>1, <1>2, <1>3, SameDisk

LEMMA ReplayNextStep == IInv /\ ReplayNext => IInv'
<1> SUFFICES ASSUME IInv, ReplayNext PROVE IInv'
  OBVIOUS
<1> USE DEF ReplayNext
<1>1. /\ seq + 1 \in Files
      /\ IsUpdate(journal[seq + 1]) /\ journal[seq + 1].meta \in Metadatas
      /\ Accounted(journal[seq + 1].meta)
  BY DEF IInv, TypeOK, DiskTypeOK, AttemptsAccounted, Committed
<1>2. mem' \in State /\ Accounted(mem') /\ mem' # None /\ compact # None
  BY <1>1, ReplayedOK, RunningState
<1>3. MemoryTypeOK'
  BY <1>2 DEF IInv, TypeOK, MemoryTypeOK, disk
<1>4. HistoryTypeOK'
  BY SameHistory DEF IInv
<1> QED
  BY <1>2, <1>3, <1>4, SameDisk

LEMMA ReplayDoneStep == IInv /\ ReplayDone => IInv'
<1> SUFFICES ASSUME IInv, ReplayDone PROVE IInv'
  OBVIOUS
<1> USE DEF ReplayDone
<1>1. mem' \in State /\ Accounted(mem') /\ mem' # None /\ compact # None
  BY RolloverOK, RunningState
<1>2. MemoryTypeOK'
  BY <1>1 DEF IInv, TypeOK, MemoryTypeOK, disk
<1>3. HistoryTypeOK'
  BY SameHistory DEF IInv
<1> QED
  BY <1>1, <1>2, <1>3, SameDisk

LEMMA ContinueStep == IInv /\ Continue => IInv'
<1> SUFFICES ASSUME IInv, Continue PROVE IInv'
  OBVIOUS
<1> USE DEF Continue
<1>1. mem' \in State /\ Accounted(mem') /\ mem' # None /\ compact # None
  BY RolloverOK, RunningState
<1>2. MemoryTypeOK'
  BY <1>1 DEF IInv, TypeOK, MemoryTypeOK, disk
<1>3. HistoryTypeOK'
  BY RunningState DEF IInv, TypeOK, HistoryTypeOK, Tell, State, counters
<1> QED
  BY <1>1, <1>2, <1>3, SameDisk

(***************************************************************************)
(* The state after a batch: positions advance by the planned length, and   *)
(* so do the attempts, however many of its blocks were accepted.           *)
(***************************************************************************)
LEMMA AfterBatchOK ==
  ASSUME IInv, WithinBudgets, AtBatchStart,
         NEW accepted \in SUBSET Blocks, accepted \subseteq Batch, NEW level \in Levels
  PROVE  AfterBatch(accepted, level) \in State /\ Accounted(AfterBatch(accepted, level))
<1> DEFINE m == AfterBatch(accepted, level)
           k == Cardinality(accepted)
           flow == [b \in Blocks |-> IF b \in accepted THEN mem.flow[b] + 1 ELSE mem.flow[b]]
           pred == [b \in Blocks |-> IF b \in accepted THEN mem.pred[b] + 1 ELSE mem.pred[b]]
           objective == IF accepted = {} THEN mem.obj ELSE [at |-> flow, level |-> level]
           improved == objective.level < mem.best.level
           position == mem.pos + Planned
<1>1. /\ mem \in State /\ Accounted(mem) /\ mem.pos \in 0 .. NumBlocks - 1
      /\ Planned \in 1 .. NumBlocks - mem.pos
      /\ k \in 0 .. Planned
  BY PlannedBatch, RunningState DEF IInv, WithinBudgets
<1>2. flow \in Flows /\ pred \in Flows
  BY <1>1 DEF State, Flows
<1>3. objective \in Objectives
  <2> HIDE DEF flow
  <2> QED
    BY <1>1, <1>2 DEF State, Objectives
<1>4. /\ m.sweep = IF position = NumBlocks THEN mem.sweep + 1 ELSE mem.sweep
      /\ m.pos = position /\ m.acc = mem.acc + k
      /\ m.rej = mem.rej + Planned - k /\ m.draws = mem.draws
  BY DEF AfterBatch
<1>5. m = [flow |-> flow, pred |-> pred, obj |-> objective,
           bestFlow |-> IF improved THEN flow ELSE mem.bestFlow,
           best |-> IF improved THEN objective ELSE mem.best,
           sweep |-> IF position = NumBlocks THEN mem.sweep + 1 ELSE mem.sweep,
           pos |-> position, acc |-> mem.acc + k, rej |-> mem.rej + Planned - k,
           draws |-> mem.draws]
  BY DEF AfterBatch
<1>6. /\ mem.sweep \in Nat /\ mem.acc \in Nat /\ mem.rej \in Nat /\ mem.draws \in Nat
      /\ mem.bestFlow \in Flows /\ mem.best \in Objectives
  BY <1>1 DEF State
<1>7. /\ position \in 1 .. NumBlocks /\ mem.acc + k \in Nat /\ mem.rej + Planned - k \in Nat
  BY <1>1, <1>6
<1>8. m \in State
  <2> HIDE DEF m, flow, pred, objective, improved, position, k
  <2> QED
    BY <1>2, <1>3, <1>5, <1>6, <1>7 DEF State
<1>9. Accounted(m)
  <2> HIDE DEF m, k
  <2>1. /\ mem.acc + mem.rej = mem.sweep * NumBlocks + mem.pos
        /\ mem.draws = mem.sweep + 1
    BY <1>1 DEF Accounted
  <2>2. m.acc + m.rej = mem.sweep * NumBlocks + position
    <3> DEFINE product == mem.sweep * NumBlocks
    <3>1. product \in Int /\ mem.acc + mem.rej = product + mem.pos
      BY <1>6, <2>1
    <3>2. m.acc + m.rej = product + mem.pos + Planned
      <4> HIDE DEF product
      <4> QED
        BY <1>1, <1>4, <1>6, <3>1
    <3> QED
      BY <1>1, <3>1, <3>2
  <2>3. CASE position = NumBlocks
    <3>1. (mem.sweep + 1) * NumBlocks = mem.sweep * NumBlocks + NumBlocks
      BY <1>6
    <3> QED
      BY <1>4, <1>6, <2>1, <2>2, <2>3, <3>1 DEF Accounted
  <2>4. CASE position # NumBlocks
    BY <1>4, <1>6, <2>1, <2>2, <2>4 DEF Accounted
  <2> QED
    BY <2>3, <2>4
<1> QED
  BY <1>8, <1>9

LEMMA SolveBatchStep ==
  ASSUME IInv, NEW accepted \in SUBSET Blocks, NEW level \in Levels, NEW fatal \in BOOLEAN,
         SolveBatch(accepted, level, fatal)
  PROVE  IInv'
<1> USE DEF SolveBatch
<1>1. mem' \in State /\ Accounted(mem') /\ mem' # None
  BY AfterBatchOK
<1>2. mem \in State /\ compact # None
  BY RunningState DEF WithinBudgets
<1>3. IsUpdate(update') /\ update'.fatal \in BOOLEAN
  BY <1>2 DEF IsUpdate, State, Flows
<1>4. pc' \in {"journal", "compact"}
  OBVIOUS
<1>5. MemoryTypeOK'
  BY <1>1, <1>2, <1>3, <1>4 DEF IInv, TypeOK, MemoryTypeOK, disk
<1>6. HistoryTypeOK'
  BY SameHistory DEF IInv
<1> QED
  BY <1>1, <1>5, <1>6, SameDisk

LEMMA WriteJournalStep == IInv /\ WriteJournal => IInv'
<1> SUFFICES ASSUME IInv, WriteJournal PROVE IInv'
  OBVIOUS
<1> USE DEF WriteJournal
<1>1. /\ Files' = Files \cup {seq + 1} /\ Markers' = Markers
      /\ journal'[seq + 1] = Record
      /\ \A s \in Files \ {seq + 1} : journal'[s] = journal[s]
  <2>1. journal' = Write(journal, seq + 1, Record) /\ commit' = commit
    OBVIOUS
  <2> HIDE DEF WriteJournal
  <2>2. /\ DOMAIN journal' = DOMAIN journal \cup {seq + 1}
        /\ journal'[seq + 1] = Record
        /\ \A s \in DOMAIN journal \ {seq + 1} : journal'[s] = journal[s]
    BY <2>1 DEF Write
  <2> QED
    BY <2>1, <2>2 DEF Files, Markers
<1>2. /\ IsUpdate(update) /\ Record.blocks = update.blocks /\ Record.before = update.before
      /\ Record.updated = update.updated /\ Record.meta = Metadata(mem)
  BY DEF IInv, TypeOK, MemoryTypeOK, Record
<1>3. IsUpdate(Record) /\ Record.meta \in Metadatas /\ Accounted(Record.meta)
  BY <1>2, MetadataOK, RunningState DEF IsUpdate
<1>4. MemoryTypeOK'
  BY DEF IInv, TypeOK, MemoryTypeOK
<1>5. DiskTypeOK'
  BY <1>1, <1>3 DEF IInv, TypeOK, MemoryTypeOK, DiskTypeOK
<1>6. HistoryTypeOK'
  BY SameHistory DEF IInv
<1>7. AttemptsAccounted'
  BY <1>1, <1>3 DEF IInv, AttemptsAccounted
<1> QED
  BY <1>4, <1>5, <1>6, <1>7 DEF IInv, TypeOK

LEMMA WriteCommitStep == IInv /\ WriteCommit => IInv'
<1> SUFFICES ASSUME IInv, WriteCommit PROVE IInv'
  OBVIOUS
<1> USE DEF WriteCommit
<1>1. Files' = Files /\ Markers' = Markers \cup {seq + 1}
  <2>1. commit' = Write(commit, seq + 1, journal[seq + 1]) /\ journal' = journal
    OBVIOUS
  <2> HIDE DEF WriteCommit
  <2> QED
    BY <2>1, WriteFiles DEF Files, Markers
<1>2. MemoryTypeOK'
  BY DEF IInv, TypeOK, MemoryTypeOK
<1>3. DiskTypeOK'
  BY <1>1 DEF IInv, TypeOK, MemoryTypeOK, DiskTypeOK
<1>4. HistoryTypeOK'
  BY SameHistory DEF IInv
<1>5. AttemptsAccounted'
  BY <1>1 DEF IInv, AttemptsAccounted
<1> QED
  BY <1>2, <1>3, <1>4, <1>5 DEF IInv, TypeOK

LEMMA WriteCompactStep == IInv /\ WriteCompact => IInv'
<1> SUFFICES ASSUME IInv, WriteCompact PROVE IInv'
  OBVIOUS
<1> USE DEF WriteCompact
<1>1. mem \in State /\ Accounted(mem) /\ mem # None
  BY RunningState
<1>2. /\ compact' \in [seq : Nat, state : State] /\ compact' # None
      /\ compact'.state = mem
  BY <1>1 DEF IInv, TypeOK, MemoryTypeOK
<1>3. Files' = Files /\ Markers' = Markers
  BY DEF Files, Markers
<1>4. MemoryTypeOK'
  BY <1>2 DEF IInv, TypeOK, MemoryTypeOK
<1>5. DiskTypeOK'
  BY <1>2, <1>3 DEF IInv, TypeOK, DiskTypeOK
<1>6. HistoryTypeOK'
  BY SameHistory DEF IInv
<1>7. AttemptsAccounted'
  BY <1>1, <1>2, <1>3 DEF IInv, AttemptsAccounted
<1> QED
  BY <1>4, <1>5, <1>6, <1>7 DEF IInv, TypeOK

LEMMA UnlinkNextStep == IInv /\ UnlinkNext => IInv'
<1> SUFFICES ASSUME IInv, UnlinkNext PROVE IInv'
  OBVIOUS
<1> USE DEF UnlinkNext, memory
<1>1. /\ Files' \subseteq Files /\ Markers' \subseteq Markers
      /\ \A s \in Files' : journal'[s] = journal[s]
  <2>1. PICK s : \/ journal' = Unlink(journal, s) /\ commit' = commit
                 \/ commit' = Unlink(commit, s) /\ journal' = journal
    OBVIOUS
  <2> HIDE DEF UnlinkNext
  <2>2. CASE journal' = Unlink(journal, s) /\ commit' = commit
    BY <2>2, UnlinkFiles DEF Files, Markers
  <2>3. CASE commit' = Unlink(commit, s) /\ journal' = journal
    BY <2>3, UnlinkFiles DEF Files, Markers
  <2> QED
    BY <2>1, <2>2, <2>3
<1>2. MemoryTypeOK'
  BY DEF IInv, TypeOK, MemoryTypeOK
<1>3. DiskTypeOK'
  BY <1>1 DEF IInv, TypeOK, DiskTypeOK
<1>4. HistoryTypeOK'
  BY SameHistory DEF IInv
<1>5. AttemptsAccounted'
  BY <1>1 DEF IInv, AttemptsAccounted
<1> QED
  BY <1>2, <1>3, <1>4, <1>5 DEF IInv, TypeOK

\* Steps that only move on, or tell the callback.
LEMMA BookkeepingStep ==
  IInv /\ (Acknowledge \/ SkipCompact \/ UnlinkDone \/ StopAfterBatch
           \/ StopAfterSweep \/ Return) => IInv'
<1> SUFFICES ASSUME IInv, Acknowledge \/ SkipCompact \/ UnlinkDone \/ StopAfterBatch
                          \/ StopAfterSweep \/ Return
             PROVE  IInv'
  OBVIOUS
<1> USE DEF Acknowledge, SkipCompact, UnlinkDone, StopAfterBatch, StopAfterSweep, Return
<1>1. /\ mem' = mem /\ UNCHANGED disk /\ mem \in State /\ mem # None /\ compact # None
  BY RunningState
<1>2. MemoryTypeOK'
  <2>1. /\ pc' \in {"compact", "report", "finish", "down"}
        /\ limits' = limits /\ update' = update /\ preserved' = preserved
    OBVIOUS
  <2>2. seq' \in Nat /\ compact' = compact
    BY DEF IInv, TypeOK, MemoryTypeOK, disk
  <2>3. committed' = TRUE \/ committed' = committed
    BY Zenon
  <2>4. committed' \in BOOLEAN
    BY <2>3 DEF IInv, TypeOK, MemoryTypeOK
  <2> QED
    BY <1>1, <2>1, <2>2, <2>4 DEF IInv, TypeOK, MemoryTypeOK
<1>3. reported' \in Nat
  BY <1>1 DEF IInv, TypeOK, HistoryTypeOK, Tell, State
<1>4. HistoryTypeOK'
  BY <1>3 DEF IInv, TypeOK, HistoryTypeOK, counters
<1> QED
  BY <1>1, <1>2, <1>4, SameDisk

LEMMA StoppingStep ==
  IInv /\ (StopBySweepBudget \/ StopByDeadline \/ StopByUpdateBudget
           \/ StopInConstruction \/ NumericalFailure \/ Interrupt) => IInv'
<1> SUFFICES ASSUME IInv, StopBySweepBudget \/ StopByDeadline \/ StopByUpdateBudget
                          \/ StopInConstruction \/ NumericalFailure \/ Interrupt
             PROVE  IInv'
  OBVIOUS
<1>0. pc # "down"
  BY DEF StopBySweepBudget, StopByDeadline, StopByUpdateBudget,
     StopInConstruction, NumericalFailure, Interrupt, WithinBudgets
<1>1. PICK how : Stop(how)
  BY DEF StopBySweepBudget, StopByDeadline, StopByUpdateBudget,
     StopInConstruction, NumericalFailure, Interrupt
<1>2. preserved' \in BOOLEAN
  BY DEF IInv, TypeOK, MemoryTypeOK, StopBySweepBudget, StopByDeadline, StopByUpdateBudget,
     StopInConstruction, NumericalFailure, Interrupt
<1>3. HistoryTypeOK'
  BY <1>1 DEF IInv, TypeOK, HistoryTypeOK, Stop, counters, StopBySweepBudget, StopByDeadline,
     StopByUpdateBudget, StopInConstruction, NumericalFailure, Interrupt
<1> QED
  BY <1>0, <1>1, <1>2, <1>3, StopStep

LEMMA FailingStep == IInv /\ (ReplayRejects \/ MissingBatchSize \/ Crash) => IInv'
<1> SUFFICES ASSUME IInv, ReplayRejects \/ MissingBatchSize \/ Crash PROVE IInv'
  OBVIOUS
<1>1. PICK how : Raise(how)
  BY DEF ReplayRejects, MissingBatchSize, Crash
<1>2. HistoryTypeOK'
  BY <1>1 DEF IInv, TypeOK, HistoryTypeOK, Raise, counters, ReplayRejects,
     MissingBatchSize, Crash
<1> QED
  BY <1>1, <1>2, RaiseStep

LEMMA NextIInv == IInv /\ [Next]_vars => IInv'
<1> SUFFICES ASSUME IInv, [Next]_vars PROVE IInv'
  OBVIOUS
<1>1. CASE StartFresh \/ Resume \/ ReplayNext \/ ReplayDone \/ Continue
  BY <1>1, StartFreshStep, ResumeStep, ReplayNextStep, ReplayDoneStep, ContinueStep
<1>2. CASE \E accepted \in SUBSET Blocks, level \in Levels, fatal \in BOOLEAN :
             SolveBatch(accepted, level, fatal)
  BY <1>2, SolveBatchStep
<1>3. CASE WriteJournal \/ WriteCommit \/ WriteCompact \/ UnlinkNext
  BY <1>3, WriteJournalStep, WriteCommitStep, WriteCompactStep, UnlinkNextStep
<1>4. CASE Acknowledge \/ SkipCompact \/ UnlinkDone \/ StopAfterBatch
           \/ StopAfterSweep \/ Return
  BY <1>4, BookkeepingStep
<1>5. CASE StopBySweepBudget \/ StopByDeadline \/ StopByUpdateBudget
           \/ StopInConstruction \/ NumericalFailure \/ Interrupt
  BY <1>5, StoppingStep
<1>6. CASE ReplayRejects \/ MissingBatchSize \/ Crash
  BY <1>6, FailingStep
<1>7. CASE UNCHANGED vars
  BY <1>7 DEF vars, memory, disk, counters, IInv, TypeOK, MemoryTypeOK, DiskTypeOK,
     HistoryTypeOK, AttemptsAccounted, Files, Markers
<1> QED
  BY <1>1, <1>2, <1>3, <1>4, <1>5, <1>6, <1>7 DEF Next, Process

LEMMA Invariance == Spec => []IInv
<1>1. Init => IInv
  BY InitIInv
<1>2. IInv /\ [Next]_vars => IInv'
  BY NextIInv
<1> QED
  BY <1>1, <1>2, PTL DEF Spec
--------------------------------------------------------------------------------
(***************************************************************************)
(* Memory, checkpoint and journal files hold values of their types, and a  *)
(* running process never misses its state or its checkpoint.               *)
(***************************************************************************)
THEOREM EstimatorTypes == Spec => []TypeOK
<1>1. IInv => TypeOK
  BY DEF IInv
<1> QED
  BY <1>1, Invariance, PTL

(***************************************************************************)
(* Attempts, sweep, position and schedules drawn agree in memory and in    *)
(* every file a restart may read, whatever was rejected, lost, replayed or *)
(* cut by an update budget.                                                *)
(***************************************************************************)
THEOREM AttemptsAreAccounted == Spec => []AttemptsAccounted
<1>1. IInv => AttemptsAccounted
  BY DEF IInv
<1> QED
  BY <1>1, Invariance, PTL
--------------------------------------------------------------------------------
(* What a restart finds *)

\* The parts of a state belong together, and no block is ahead of the sweep.
Sound(order, m) == Consistent(m) /\ NoneTwice(order, m)

\* The journal from the compact checkpoint c to its last record replays without
\* a gap or a mismatch, through the states f.
Chain(order, c, records, markers, last, f) ==
  /\ c \in [seq : Nat, state : State] /\ last \in Nat /\ c.seq <= last
  /\ f \in [c.seq .. last -> State] /\ f[c.seq] = c.state
  /\ \A s \in c.seq + 1 .. last :
       /\ s \in DOMAIN records /\ s \in DOMAIN markers /\ markers[s] = records[s]
       /\ Fits(f[s - 1], records[s]) /\ f[s] = Replayed(f[s - 1], records[s])
  /\ DOMAIN markers \subseteq 0 .. last
  /\ \A s \in c.seq .. last : Sound(order, f[s])

\* What the disk holds: nothing, or an intact chain.
DiskIntact ==
  IF compact = None THEN Files = {} /\ Markers = {}
  ELSE Chain(config.order, compact, journal, commit, LastReplayable,
             Replays(compact, journal, commit, LastReplayable))

\* Equal but for the batches that were rejected since.
SameProgress(m, n) ==
  /\ m.flow = n.flow /\ m.pred = n.pred /\ m.obj = n.obj
  /\ m.bestFlow = n.bestFlow /\ m.best = n.best /\ m.acc = n.acc

\* How the state in memory relates to what a restart would find.
MemoryFollows ==
  /\ mem # None => Sound(config.order, mem)
  /\ pc = "replay" => /\ seq \in compact.seq .. LastReplayable
                      /\ mem = Replays(compact, journal, commit, LastReplayable)[seq]
  /\ pc \notin {"down", "replay"} => seq = IF pc = "ack" THEN LastReplayable - 1
                                           ELSE LastReplayable
  /\ pc \in {"loop", "compact", "report"} /\ config.save => SameProgress(mem, Loaded)
  /\ pc \in {"journal", "commit"} =>
       mem = Replayed(Loaded, Record) /\ Fits(Loaded, Record) /\ config.save
  /\ pc = "commit" => seq + 1 \in Files /\ journal[seq + 1] = Record
  /\ pc = "ack" => Loaded = mem /\ config.save
  /\ pc = "unlink" => compact = [seq |-> seq, state |-> mem]
  /\ pc \in {"compact", "report"} /\ committed => Loaded = mem
  /\ pc = "down" /\ outcome = "returned" /\ ~ preserved => Loaded = mem

RecoveryInv == DiskIntact /\ MemoryFollows
--------------------------------------------------------------------------------
(* Lemmas about chains *)

\* LastReplayable, of any files.
EndOf(c, records, markers) ==
  Max({c.seq} \cup
      {s \in DOMAIN records : s > c.seq /\ \A t \in c.seq + 1 .. s :
                                              t \in DOMAIN records /\ t \in DOMAIN markers})

\* load finds the end of the chain and passes through its states.
LEMMA ChainRecovers ==
  ASSUME NEW order, NEW c, NEW records, NEW markers, NEW last, NEW f,
         Chain(order, c, records, markers, last, f), DOMAIN records \subseteq Nat
  PROVE  EndOf(c, records, markers) = last /\ Replays(c, records, markers, last) = f
<1>1. /\ c.seq \in Nat /\ last \in Nat /\ c.seq <= last
      /\ \A s \in c.seq + 1 .. last : s \in DOMAIN records /\ s \in DOMAIN markers
      /\ \A s \in DOMAIN markers : s <= last
  <2>1. DOMAIN markers \subseteq 0 .. last
    BY DEF Chain
  <2> QED BY <2>1 DEF Chain
<1>2. EndOf(c, records, markers) = last
  <2> DEFINE Ends == {c.seq} \cup
        {s \in DOMAIN records : s > c.seq /\ \A t \in c.seq + 1 .. s :
                                               t \in DOMAIN records /\ t \in DOMAIN markers}
  <2>1. last \in Ends
    <3>1. CASE last = c.seq
      BY <3>1
    <3>2. CASE last # c.seq
      <4>1. last \in c.seq + 1 .. last
        BY <1>1, <3>2
      <4> QED BY <1>1, <4>1
    <3> QED BY <3>1, <3>2
  <2>2. ASSUME NEW s \in Ends PROVE s \in Nat /\ s <= last
    <3>1. CASE s = c.seq
      BY <1>1, <3>1
    <3>2. CASE s # c.seq
      <4>1. s \in Nat /\ s > c.seq /\ \A t \in c.seq + 1 .. s : t \in DOMAIN markers
        BY <2>2, <3>2
      <4>2. s \in c.seq + 1 .. s
        BY <1>1, <4>1
      <4> QED BY <1>1, <4>1, <4>2
    <3> QED BY <3>1, <3>2
  <2> HIDE DEF Ends
  <2>3. \A y \in Ends : last >= y
    BY <1>1, <2>2
  <2>4. \A x \in Ends : (\A y \in Ends : x >= y) => x = last
    BY <1>1, <2>1, <2>2
  <2>5. Max(Ends) = last
    BY <2>1, <2>3, <2>4 DEF Max
  <2> QED BY <2>5 DEF EndOf, Ends
<1>3. Replays(c, records, markers, last) = f
  <2> DEFINE Step(g, s) ==
        IF s = c.seq THEN c.state
        ELSE IF g[s - 1] = None THEN None
        ELSE IF markers[s] # records[s] \/ ~ Fits(g[s - 1], records[s]) THEN None
        ELSE Replayed(g[s - 1], records[s])
      all == CHOOSE g : g = [s \in c.seq .. last |-> Step(g, s)]
  <2>1. Replays(c, records, markers, last) = all
    BY DEF Replays
  <2>2. ASSUME NEW s \in c.seq + 1 .. last
        PROVE  /\ s # c.seq /\ s - 1 \in c.seq .. last /\ f[s - 1] # None /\ markers[s] = records[s]
               /\ Fits(f[s - 1], records[s]) /\ f[s] = Replayed(f[s - 1], records[s])
    <3>1. s # c.seq /\ s - 1 \in c.seq .. last
      BY <1>1
    <3>2. f[s - 1] \in State
      BY <3>1 DEF Chain
    <3>3. f[s - 1] # None
      BY <3>2
    <3> QED BY <3>1, <3>3 DEF Chain
  <2>3. \A s \in c.seq .. last : f[s] = Step(f, s)
    <3> SUFFICES ASSUME NEW s \in c.seq .. last PROVE f[s] = Step(f, s)
      OBVIOUS
    <3>1. CASE s = c.seq
      BY <3>1 DEF Chain
    <3>2. CASE s # c.seq
      <4>1. s \in c.seq + 1 .. last
        BY <1>1, <3>2
      <4> QED BY <2>2, <4>1
    <3> QED BY <3>1, <3>2
  <2>4. f = [s \in c.seq .. last |-> Step(f, s)]
    <3>1. f = [s \in c.seq .. last |-> f[s]]
      BY DEF Chain
    <3> HIDE DEF Step
    <3> QED BY <2>3, <3>1
  <2>5. all = [s \in c.seq .. last |-> Step(all, s)]
    <3> HIDE DEF Step
    <3> QED BY <2>4
  <2>6. \A s \in c.seq .. last : all[s] = Step(all, s)
    <3> HIDE DEF all, Step
    <3> QED BY <2>5
  <2> DEFINE Same == {s \in c.seq .. last : all[s] = f[s]}
  <2> HIDE DEF all
  <2>7. c.seq \in Same
    <3>1. c.seq \in c.seq .. last
      BY <1>1
    <3> QED BY <2>3, <2>6, <3>1
  <2>8. ASSUME NEW k \in c.seq + 1 .. last, k - 1 \in Same PROVE k \in Same
    <3>1. k \in c.seq .. last /\ all[k - 1] = f[k - 1]
      BY <1>1, <2>8
    <3>2. all[k] = Step(all, k) /\ Step(all, k) = Step(f, k) /\ Step(f, k) = f[k]
      BY <2>3, <2>6, <3>1
    <3> HIDE DEF Step
    <3>3. all[k] = f[k]
      BY <3>2
    <3> QED BY <3>1, <3>3
  <2>9. c.seq .. last \subseteq Same
    <3> HIDE DEF Same, Step
    <3> QED BY <1>1, <2>7, <2>8, UpwardInduction
  <2>10. all = [s \in c.seq .. last |-> all[s]] /\ f = [s \in c.seq .. last |-> f[s]]
    <3> HIDE DEF Step
    <3>1. all = [s \in c.seq .. last |-> all[s]]
      BY <2>5
    <3>2. f = [s \in c.seq .. last |-> f[s]]
      BY DEF Chain
    <3> QED BY <3>1, <3>2
  <2> QED
    <3> HIDE DEF Step
    <3> QED BY <2>1, <2>9, <2>10
<1> QED BY <1>2, <1>3

\* A checkpoint with no later marker is a chain of its own.
LEMMA ChainStarts ==
  ASSUME NEW order, NEW c \in [seq : Nat, state : State], NEW records, NEW markers,
         DOMAIN markers \subseteq 0 .. c.seq, Sound(order, c.state)
  PROVE  Chain(order, c, records, markers, c.seq, [s \in c.seq .. c.seq |-> c.state])
<1>1. /\ c.seq \in Nat /\ c.state \in State
      /\ \A s \in c.seq .. c.seq : s = c.seq
      /\ c.seq \in c.seq .. c.seq /\ c.seq + 1 .. c.seq = {}
  OBVIOUS
<1> QED BY <1>1 DEF Chain

\* Files outside the chain do not matter, markers after it excepted.
LEMMA ChainStays ==
  ASSUME NEW order, NEW c, NEW records, NEW markers, NEW last, NEW f,
         Chain(order, c, records, markers, last, f),
         NEW newRecords, NEW newMarkers,
         \A s \in c.seq + 1 .. last :
           /\ s \in DOMAIN newRecords /\ s \in DOMAIN newMarkers
           /\ newRecords[s] = records[s] /\ newMarkers[s] = markers[s],
         DOMAIN newMarkers \subseteq 0 .. last
  PROVE  Chain(order, c, newRecords, newMarkers, last, f)
BY DEF Chain

\* A marker for the next record makes the chain longer by it.
LEMMA ChainGrows ==
  ASSUME NEW order, NEW c, NEW records, NEW markers, NEW last, NEW f,
         Chain(order, c, records, markers, last, f), last + 1 \in DOMAIN records,
         NEW m \in State, Sound(order, m),
         Fits(f[last], records[last + 1]), m = Replayed(f[last], records[last + 1])
  PROVE  Chain(order, c, records, Write(markers, last + 1, records[last + 1]), last + 1,
               [s \in c.seq .. last + 1 |-> IF s = last + 1 THEN m ELSE f[s]])
<1> DEFINE next == last + 1
           more == Write(markers, next, records[next])
           g == [s \in c.seq .. next |-> IF s = next THEN m ELSE f[s]]
<1>1. /\ c \in [seq : Nat, state : State] /\ c.seq \in Nat /\ last \in Nat /\ c.seq <= last
      /\ f \in [c.seq .. last -> State] /\ f[c.seq] = c.state
  BY DEF Chain
<1>2. /\ DOMAIN more = DOMAIN markers \cup {next} /\ more[next] = records[next]
      /\ \A t \in DOMAIN markers \ {next} : more[t] = markers[t]
  <2> HIDE DEF next
  <2> QED BY DEF Write
<1>3. \A s \in c.seq .. last : s \in c.seq .. next /\ s # next /\ g[s] = f[s]
  BY <1>1
<1>4. \A s \in c.seq .. next : s \notin c.seq .. last => s = next
  BY <1>1
<1>5. next \in c.seq .. next /\ g[next] = m
  BY <1>1
<1>6. g \in [c.seq .. next -> State]
  BY <1>1, <1>3, <1>4
<1>7. c.seq \in c.seq .. last /\ last \in c.seq .. last /\ g[c.seq] = c.state
  BY <1>1, <1>3
<1> HIDE DEF g, more
<1>8. ASSUME NEW s \in c.seq + 1 .. next
      PROVE  /\ s \in DOMAIN records /\ s \in DOMAIN more /\ more[s] = records[s]
             /\ Fits(g[s - 1], records[s]) /\ g[s] = Replayed(g[s - 1], records[s])
  <2>1. CASE s = next
    <3>1. s - 1 = last /\ s = last + 1
      BY <1>1, <2>1
    <3>2. g[last] = f[last] /\ g[s] = m
      BY <1>3, <1>5, <1>7, <2>1
    <3>3. s \in DOMAIN more /\ more[s] = records[s]
      BY <1>2, <2>1
    <3> QED BY <3>1, <3>2, <3>3
  <2>2. CASE s # next
    <3>1. s \in c.seq + 1 .. last /\ s - 1 \in c.seq .. last /\ s \in c.seq .. last
      BY <1>1, <2>2
    <3>2. g[s] = f[s] /\ g[s - 1] = f[s - 1]
      BY <1>3, <3>1
    <3>3. /\ s \in DOMAIN records /\ s \in DOMAIN markers /\ markers[s] = records[s]
          /\ Fits(f[s - 1], records[s]) /\ f[s] = Replayed(f[s - 1], records[s])
      BY <3>1 DEF Chain
    <3>4. s \in DOMAIN more /\ more[s] = markers[s]
      BY <1>2, <2>2, <3>3
    <3> QED BY <3>2, <3>3, <3>4
  <2> QED BY <2>1, <2>2
<1>9. DOMAIN more \subseteq 0 .. next
  <2>1. DOMAIN markers \subseteq 0 .. last
    BY DEF Chain
  <2>2. 0 .. last \subseteq 0 .. next /\ next \in 0 .. next
    BY <1>1
  <2> QED BY <1>2, <2>1, <2>2
<1>10. \A s \in c.seq .. next : Sound(order, g[s])
  <2>1. \A s \in c.seq .. last : Sound(order, f[s])
    BY DEF Chain
  <2> QED BY <1>3, <1>4, <1>5, <2>1
<1>11. next \in Nat /\ c.seq <= next
  BY <1>1
<1>12. Chain(order, c, records, more, next, g)
  BY <1>1, <1>6, <1>7, <1>8, <1>9, <1>10, <1>11 DEF Chain
<1> QED BY <1>12 DEF g, more
--------------------------------------------------------------------------------
(* The parts of a state stay together *)

LEMMA BlocksFinite == IsFiniteSet(Blocks)
<1>1. 1 \in Int /\ NumBlocks \in Int
  OBVIOUS
<1> QED BY <1>1, FS_Interval DEF Blocks

LEMMA InitialStateConsistent == Consistent(InitialState)
<1> DEFINE zero == [b \in Blocks |-> 0]
<1>1. zero \in [Blocks -> Nat] /\ DOMAIN zero = Blocks /\ \A b \in Blocks : zero[b] = 0
  OBVIOUS
<1>2. SumFunctionOnSet(zero, DOMAIN zero) = 0
  <2> HIDE DEF zero
  <2> QED BY <1>1, BlocksFinite, SumOfZeros
<1>3. SumFunction(zero) = 0
  BY <1>2 DEF SumFunction
<1>4. /\ InitialState.flow = zero /\ InitialState.pred = zero /\ InitialState.bestFlow = zero
      /\ InitialState.obj = [at |-> zero, level |-> MaxLevel]
      /\ InitialState.best = [at |-> zero, level |-> MaxLevel] /\ InitialState.acc = 0
  BY DEF InitialState
<1> HIDE DEF zero
<1> QED BY <1>3, <1>4 DEF Consistent

LEMMA InitialStateSound ==
  ASSUME NEW order
  PROVE  Sound(order, InitialState)
<1>1. /\ InitialState.pos = 0 /\ InitialState.sweep = 0
      /\ \A b \in Blocks : InitialState.flow[b] = 0
  BY DEF InitialState
<1>2. NoneTwice(order, InitialState)
  BY <1>1 DEF NoneTwice
<1> QED BY <1>2, InitialStateConsistent DEF Sound

\* A new schedule changes nothing but position and draws; the finished sweep
\* counts for every block.
LEMMA RolloverKeeps ==
  ASSUME NEW m \in State
  PROVE  /\ SameProgress(Rollover(m), m)
         /\ \A order : m.pos = NumBlocks /\ Sound(order, m) => Sound(order, Rollover(m))
<1>1. SameProgress(Rollover(m), m) /\ Rollover(m).sweep = m.sweep /\ Rollover(m).pos = 0
  BY DEF Rollover, SameProgress, State
<1>2. ASSUME NEW order, m.pos = NumBlocks, Sound(order, m) PROVE Sound(order, Rollover(m))
  <2>1. Consistent(Rollover(m))
    BY <1>1, <1>2 DEF Sound, SameProgress, Consistent
  <2>2. \A b \in Blocks : m.flow[b] <= m.sweep + 0
    BY <1>2 DEF Sound, NoneTwice
  <2>3. Rollover(m).flow = m.flow /\ 1 .. Rollover(m).pos = {}
    BY <1>1 DEF SameProgress
  <2>4. NoneTwice(order, Rollover(m))
    <3> DEFINE visited == {Schedule[order][Rollover(m).draws][p] : p \in 1 .. Rollover(m).pos}
    <3>1. visited = {}
      BY <2>3
    <3> QED BY <1>1, <2>2, <2>3, <3>1 DEF NoneTwice
  <2> QED BY <2>1, <2>4 DEF Sound
<1> QED BY <1>1, <1>2

\* After a batch the parts still belong together: the accepted updates are
\* counted one by one.
LEMMA AfterBatchConsistent ==
  ASSUME IInv, WithinBudgets, AtBatchStart, Consistent(mem),
         NEW accepted \in SUBSET Blocks, accepted \subseteq Batch, NEW level \in Levels
  PROVE  /\ Consistent(AfterBatch(accepted, level))
         /\ accepted = {} => SameProgress(AfterBatch(accepted, level), mem)
<1> DEFINE m == AfterBatch(accepted, level)
           k == Cardinality(accepted)
           flow == [b \in Blocks |-> IF b \in accepted THEN mem.flow[b] + 1 ELSE mem.flow[b]]
           pred == [b \in Blocks |-> IF b \in accepted THEN mem.pred[b] + 1 ELSE mem.pred[b]]
           objective == IF accepted = {} THEN mem.obj ELSE [at |-> flow, level |-> level]
           improved == objective.level < mem.best.level
<1>1. /\ mem \in State /\ mem.acc \in Nat /\ mem.flow \in [Blocks -> Nat]
      /\ mem.best.level \in Int /\ mem.obj.level \in Int
  BY RunningState DEF WithinBudgets, State, Flows, Objectives, Levels
<1>2. /\ mem.pred = mem.flow /\ mem.obj.at = mem.flow /\ mem.best.at = mem.bestFlow
      /\ mem.best.level <= mem.obj.level /\ mem.acc = SumFunction(mem.flow)
  BY DEF Consistent
<1>3. /\ m.flow = flow /\ m.pred = pred /\ m.obj = objective
      /\ m.bestFlow = (IF improved THEN flow ELSE mem.bestFlow)
      /\ m.best = (IF improved THEN objective ELSE mem.best)
      /\ m.acc = mem.acc + k
  BY DEF AfterBatch
<1>4. flow \in [Blocks -> Nat] /\ pred = flow
  BY <1>1, <1>2
<1>5. SumFunction(flow) = SumFunction(mem.flow) + k
  <2>1. \A b \in Blocks : flow[b] = IF b \in accepted THEN mem.flow[b] + 1 ELSE mem.flow[b]
    OBVIOUS
  <2>2. DOMAIN flow = Blocks /\ DOMAIN mem.flow = Blocks
    BY <1>1
  <2> HIDE DEF flow, k
  <2>3. SumFunctionOnSet(flow, Blocks) = SumFunctionOnSet(mem.flow, Blocks) + Cardinality(accepted)
    BY <1>1, <1>4, <2>1, BlocksFinite, SumIncrement
  <2> QED BY <2>2, <2>3 DEF SumFunction, k
<1>6. accepted = {} => flow = mem.flow /\ k = 0
  BY <1>1, FS_EmptySet
<1>7. objective.at = flow /\ objective.level \in Int
  BY <1>1, <1>2, <1>6 DEF Levels
<1>8. (IF improved THEN objective ELSE mem.best).level <= objective.level
  <2> HIDE DEF objective
  <2> QED BY <1>1, <1>7
<1>9. Consistent(m)
  <2> HIDE DEF m, flow, pred, objective, k
  <2> QED BY <1>2, <1>3, <1>4, <1>5, <1>7, <1>8 DEF Consistent
<1>10. ASSUME accepted = {} PROVE SameProgress(m, mem)
  <2>1. objective = mem.obj /\ ~ improved /\ m.flow = mem.flow /\ m.pred = mem.pred
    BY <1>1, <1>2, <1>3, <1>4, <1>6, <1>10
  <2> HIDE DEF m, flow, pred, k
  <2> QED BY <1>1, <1>3, <1>6, <1>10, <2>1 DEF SameProgress
<1> QED BY <1>9, <1>10

\* A batch takes blocks that its schedule has not visited yet.
LEMMA AfterBatchSound ==
  ASSUME IInv, WithinBudgets, AtBatchStart, Sound(config.order, mem),
         NEW accepted \in SUBSET Blocks, accepted \subseteq Batch, NEW level \in Levels
  PROVE  Sound(config.order, AfterBatch(accepted, level))
<1> DEFINE m == AfterBatch(accepted, level)
           S(p) == Schedule[config.order][mem.draws][p]
           visited == {S(p) : p \in 1 .. mem.pos}
           seen == {S(p) : p \in 1 .. m.pos}
<1>1. /\ mem \in State /\ mem.pos \in 0 .. NumBlocks - 1 /\ Accounted(mem)
      /\ Planned \in 1 .. NumBlocks - mem.pos
      /\ mem.sweep \in Nat /\ mem.flow \in [Blocks -> Nat]
  BY PlannedBatch, RunningState DEF IInv, WithinBudgets, State, Flows
<1>2. /\ m.flow = [b \in Blocks |-> IF b \in accepted THEN mem.flow[b] + 1 ELSE mem.flow[b]]
      /\ m.sweep = (IF m.pos = NumBlocks THEN mem.sweep + 1 ELSE mem.sweep)
      /\ m.pos = mem.pos + Planned /\ m.draws = mem.draws
  BY DEF AfterBatch
<1>3. \A p, q \in Blocks : S(p) = S(q) => p = q
  <2>1. config \in Configs /\ mem.draws = mem.sweep + 1
    BY <1>1 DEF IInv, TypeOK, HistoryTypeOK, Accounted
  <2>2. limits.sweeps \in SweepBudgets /\ mem.draws \in 1 .. limits.sweeps
    <3>1. limits.sweeps \in SweepBudgets \cup {0} /\ mem.sweep < limits.sweeps
      BY DEF IInv, TypeOK, MemoryTypeOK, WithinBudgets
    <3>2. limits.sweeps # 0 /\ limits.sweeps \in Nat
      BY <1>1, <3>1
    <3> QED BY <1>1, <2>1, <3>1, <3>2
  <2> QED BY <2>1, <2>2, SchedulesAssumption
<1>4. accepted \subseteq seen /\ accepted \cap visited = {} /\ visited \subseteq seen
  <2>1. /\ mem.pos + 1 .. mem.pos + Planned \subseteq 1 .. m.pos
        /\ 1 .. mem.pos \subseteq 1 .. m.pos /\ 1 .. m.pos \subseteq Blocks
    BY <1>1, <1>2 DEF Blocks
  <2>2. \A b \in accepted : \E p \in mem.pos + 1 .. mem.pos + Planned : b = S(p)
    BY DEF Batch
  <2>3. ASSUME NEW p \in mem.pos + 1 .. mem.pos + Planned, NEW q \in 1 .. mem.pos
        PROVE  p # q
    BY <1>1
  <2>4. \A p \in mem.pos + 1 .. mem.pos + Planned, q \in 1 .. mem.pos : S(p) # S(q)
    <3> HIDE DEF S
    <3> QED BY <1>3, <2>1, <2>3
  <2> HIDE DEF S, m
  <2> QED BY <2>1, <2>2, <2>4
<1>5. ASSUME NEW b \in Blocks
      PROVE  m.flow[b] <= m.sweep + (IF m.pos < NumBlocks /\ b \in seen THEN 1 ELSE 0)
  <2>1. mem.flow[b] <= mem.sweep + (IF b \in visited THEN 1 ELSE 0) /\ mem.flow[b] \in Nat
    BY <1>1 DEF Sound, NoneTwice
  <2>2. m.pos \in 1 .. NumBlocks
    BY <1>1, <1>2
  <2>3. m.flow[b] = IF b \in accepted THEN mem.flow[b] + 1 ELSE mem.flow[b]
    BY <1>2
  <2> HIDE DEF m, seen, visited
  <2> QED BY <1>1, <1>2, <1>4, <2>1, <2>2, <2>3
<1>6. NoneTwice(config.order, m)
  <2> HIDE DEF m
  <2> QED BY <1>2, <1>5 DEF NoneTwice
<1> QED BY <1>6, AfterBatchConsistent DEF Sound

\* The record of an accepted batch replays it: on a state with the progress
\* from before, it leads to the very state after it.
LEMMA BatchReplays ==
  ASSUME IInv, NEW accepted \in SUBSET Blocks, NEW level \in Levels, NEW fatal \in BOOLEAN,
         SolveBatch(accepted, level, fatal), accepted # {},
         NEW n \in State, SameProgress(mem, n)
  PROVE  mem' = Replayed(n, Record') /\ Fits(n, Record')
<1> DEFINE flow == [b \in Blocks |-> IF b \in accepted THEN mem.flow[b] + 1 ELSE mem.flow[b]]
           pred == [b \in Blocks |-> IF b \in accepted THEN mem.pred[b] + 1 ELSE mem.pred[b]]
           objective == [at |-> flow, level |-> level]
           before == [b \in accepted |-> mem.flow[b]]
           updated == level < mem.best.level
<1>1. mem \in State /\ mem' = AfterBatch(accepted, level)
  BY RunningState DEF WithinBudgets, SolveBatch
<1>2. /\ mem.flow = n.flow /\ mem.pred = n.pred /\ mem.obj = n.obj
      /\ mem.bestFlow = n.bestFlow /\ mem.best = n.best
  BY DEF SameProgress
<1>3. /\ Record'.blocks = accepted /\ Record'.before = before
      /\ Record'.updated = updated /\ Record'.meta = Metadata(mem')
  BY DEF SolveBatch, Record
<1>4. /\ mem'.obj = objective
      /\ mem' = [flow |-> flow, pred |-> pred, obj |-> mem'.obj,
                 bestFlow |-> IF updated THEN flow ELSE mem.bestFlow,
                 best |-> mem'.best, sweep |-> mem'.sweep, pos |-> mem'.pos,
                 acc |-> mem'.acc, rej |-> mem'.rej, draws |-> mem'.draws]
  BY <1>1 DEF AfterBatch
<1>5. Fits(n, Record')
  <2>1. \A b \in accepted : before[b] = mem.flow[b]
    OBVIOUS
  <2> HIDE DEF before
  <2> QED BY <1>2, <1>3, <2>1 DEF Fits
<1>6. /\ flow = [b \in Blocks |-> IF b \in accepted THEN before[b] + 1 ELSE n.flow[b]]
      /\ pred = [b \in Blocks |-> IF b \in accepted THEN n.pred[b] + 1 ELSE n.pred[b]]
  BY <1>2
<1>7. mem' = Replayed(n, Record')
  <2> HIDE DEF before, updated
  <2>1. Replayed(n, Record') =
          [flow |-> [b \in Blocks |-> IF b \in accepted THEN before[b] + 1 ELSE n.flow[b]],
           pred |-> [b \in Blocks |-> IF b \in accepted THEN n.pred[b] + 1 ELSE n.pred[b]],
           bestFlow |-> IF updated
                          THEN [b \in Blocks |-> IF b \in accepted THEN before[b] + 1
                                                 ELSE n.flow[b]]
                          ELSE n.bestFlow,
           obj |-> mem'.obj, best |-> mem'.best, sweep |-> mem'.sweep, pos |-> mem'.pos,
           acc |-> mem'.acc, rej |-> mem'.rej, draws |-> mem'.draws]
    BY <1>3 DEF Replayed, Metadata
  <2> HIDE DEF flow, pred, objective
  <2> QED BY <1>2, <1>4, <1>6, <2>1
<1> QED BY <1>5, <1>7
--------------------------------------------------------------------------------
(* What a restart finds is intact, and memory follows it *)

\* The chain on disk, when there is a checkpoint.
LEMMA ChainNow ==
  ASSUME IInv, RecoveryInv, compact # None
  PROVE  /\ Chain(config.order, compact, journal, commit, LastReplayable,
                  Replays(compact, journal, commit, LastReplayable))
         /\ compact.seq \in Nat /\ LastReplayable \in Nat /\ compact.seq <= LastReplayable
         /\ Files \subseteq Nat /\ Markers \subseteq 0 .. LastReplayable
         /\ Loaded \in State /\ Loaded # None /\ Sound(config.order, Loaded)
         /\ Replays(compact, journal, commit, LastReplayable)[LastReplayable] = Loaded
<1> DEFINE last == LastReplayable
           f == Replays(compact, journal, commit, last)
<1>1. Chain(config.order, compact, journal, commit, last, f)
  BY DEF RecoveryInv, DiskIntact
<1>2. Loaded = f[last]
  BY DEF Loaded
<1>3. /\ compact.seq \in Nat /\ last \in Nat /\ compact.seq <= last
      /\ f \in [compact.seq .. last -> State]
      /\ Markers \subseteq 0 .. last
      /\ \A s \in compact.seq .. last : Sound(config.order, f[s])
  <2> HIDE DEF last, f
  <2> QED BY <1>1 DEF Chain, Markers
<1>4. last \in compact.seq .. last
  <2> HIDE DEF last
  <2> QED BY <1>3
<1>5. f[last] \in State /\ Sound(config.order, f[last])
  <2> HIDE DEF last, f
  <2> QED BY <1>3, <1>4
<1>6. f[last] # None
  BY <1>5
<1>7. Files \subseteq Nat
  BY DEF IInv, TypeOK, DiskTypeOK
<1> HIDE DEF last, f
<1> QED BY <1>1, <1>2, <1>3, <1>5, <1>6, <1>7 DEF last, f

\* A chain on the disk of the next state is what a restart finds there.
LEMMA ChainNext ==
  ASSUME DiskTypeOK', compact' # None, NEW last, NEW f,
         Chain(config'.order, compact', journal', commit', last, f)
  PROVE  /\ DiskIntact' /\ LastReplayable' = last
         /\ Replays(compact', journal', commit', LastReplayable') = f
         /\ Loaded' = f[last]
<1>1. DOMAIN journal' \subseteq Nat
  BY DEF DiskTypeOK, Files
<1>2. /\ EndOf(compact', journal', commit') = last
      /\ Replays(compact', journal', commit', last) = f
  BY <1>1, ChainRecovers
<1>3. LastReplayable' = EndOf(compact', journal', commit')
  BY DEF LastReplayable, EndOf, Files, Markers, Committed
<1> QED BY <1>2, <1>3 DEF DiskIntact, Loaded

\* Steps that write no file.
LEMMA SameDiskFound ==
  ASSUME UNCHANGED disk
  PROVE  /\ compact' = compact /\ Files' = Files /\ journal' = journal
         /\ LastReplayable' = LastReplayable /\ Loaded' = Loaded
         /\ Replays(compact', journal', commit', LastReplayable')
              = Replays(compact, journal, commit, LastReplayable)
         /\ config' = config /\ DiskIntact => DiskIntact'
BY DEF disk, Files, Markers, LastReplayable, Loaded, Committed, DiskIntact

\* A process that ended holds nothing.
LEMMA RaiseFollows ==
  ASSUME RecoveryInv, NEW how, Raise(how), how # "returned"
  PROVE  RecoveryInv'
<1>1. UNCHANGED <<config, disk>> /\ pc' = "down" /\ mem' = None /\ outcome' = how
  BY DEF Raise
<1>2. DiskIntact'
  BY <1>1, SameDiskFound DEF RecoveryInv
<1>3. MemoryFollows'
  BY <1>1 DEF MemoryFollows
<1> QED BY <1>2, <1>3 DEF RecoveryInv

LEMMA StopFollows ==
  ASSUME RecoveryInv, NEW how, Stop(how), pc \notin {"down", "replay", "ack"}
  PROVE  RecoveryInv'
<1>1. UNCHANGED <<config, disk>> /\ pc' = "finish" /\ mem' = mem /\ seq' = seq
  BY DEF Stop
<1>2. DiskIntact' /\ LastReplayable' = LastReplayable
  BY <1>1, SameDiskFound DEF RecoveryInv
<1>3. MemoryFollows'
  BY <1>1, <1>2 DEF RecoveryInv, MemoryFollows
<1> QED BY <1>2, <1>3 DEF RecoveryInv

LEMMA StartFreshFollows ==
  ASSUME IInv, IInv', RecoveryInv, StartFresh
  PROVE  /\ RecoveryInv' /\ Loaded' = InitialState /\ LastReplayable' = 0
<1> USE DEF StartFresh
<1> DEFINE c == [seq |-> 0, state |-> InitialState]
           f == [s \in c.seq .. c.seq |-> c.state]
<1>1. /\ compact' = c /\ mem' = InitialState /\ seq' = 0 /\ pc' = "loop"
      /\ journal' = journal /\ commit' = commit /\ InitialState \in State
  BY InitialStateOK
<1>2. DOMAIN commit = {}
  BY DEF RecoveryInv, DiskIntact, Markers
<1>3. c \in [seq : Nat, state : State] /\ c # None
  BY <1>1
<1>4. Chain(config.order, c, journal, commit, c.seq, f)
  BY <1>2, <1>3, InitialStateSound, ChainStarts
<1>5. DiskIntact' /\ LastReplayable' = 0 /\ Loaded' = f[0]
  <2>1. DiskTypeOK'
    BY DEF IInv, TypeOK
  <2>2. Chain(config'.order, compact', journal', commit', 0, f)
    BY <1>1, <1>4
  <2> HIDE DEF f, StartFresh
  <2> QED BY <1>1, <1>3, <2>1, <2>2, ChainNext
<1>6. Loaded' = InitialState
  BY <1>5
<1>7. SameProgress(InitialState, InitialState)
  BY DEF SameProgress
<1>8. MemoryFollows'
  <2>1. pc' = "loop" /\ mem' = InitialState /\ seq' = 0 /\ committed' = FALSE
    OBVIOUS
  <2> HIDE DEF StartFresh
  <2> QED BY <1>5, <1>6, <1>7, <2>1, InitialStateSound DEF MemoryFollows
<1> QED BY <1>5, <1>6, <1>8 DEF RecoveryInv

LEMMA ResumeFollows ==
  ASSUME IInv, RecoveryInv, Resume
  PROVE  RecoveryInv'
<1> USE DEF Resume
<1>1. UNCHANGED <<config, disk>> /\ pc' = "replay" /\ mem' = compact.state /\ seq' = compact.seq
  OBVIOUS
<1>2. /\ DiskIntact' /\ LastReplayable' = LastReplayable /\ compact' = compact
      /\ Replays(compact', journal', commit', LastReplayable')
           = Replays(compact, journal, commit, LastReplayable)
  BY <1>1, SameDiskFound DEF RecoveryInv
<1> DEFINE f == Replays(compact, journal, commit, LastReplayable)
<1>3. /\ Chain(config.order, compact, journal, commit, LastReplayable, f)
      /\ compact.seq \in compact.seq .. LastReplayable
  BY ChainNow
<1>4. mem' = f[seq'] /\ seq' \in compact.seq .. LastReplayable /\ Sound(config'.order, mem')
  <2> HIDE DEF f
  <2> QED BY <1>1, <1>3 DEF Chain
<1>5. MemoryFollows'
  <2> HIDE DEF Resume
  <2> QED BY <1>1, <1>2, <1>4 DEF MemoryFollows
<1> QED BY <1>2, <1>5 DEF RecoveryInv

\* load has a record to apply exactly as long as the chain goes on, and it fits.
LEMMA ReplayIsSafe ==
  ASSUME IInv, RecoveryInv, pc = "replay"
  PROVE  /\ Committed(seq + 1) <=> seq < LastReplayable
         /\ Committed(seq + 1) =>
              /\ commit[seq + 1] = journal[seq + 1] /\ Fits(mem, journal[seq + 1])
              /\ seq + 1 \in compact.seq .. LastReplayable
              /\ Replayed(mem, journal[seq + 1])
                   = Replays(compact, journal, commit, LastReplayable)[seq + 1]
              /\ Sound(config.order, Replays(compact, journal, commit, LastReplayable)[seq + 1])
<1> DEFINE last == LastReplayable
           f == Replays(compact, journal, commit, last)
<1>1. compact # None
  BY RunningState
<1>2. /\ Chain(config.order, compact, journal, commit, last, f) /\ Markers \subseteq 0 .. last
      /\ compact.seq \in Nat /\ last \in Nat
  BY <1>1, ChainNow
<1>3. seq \in compact.seq .. last /\ mem = f[seq]
  BY DEF RecoveryInv, MemoryFollows
<1> HIDE DEF last, f
<1>4. CASE seq < last
  <2>1. seq + 1 \in compact.seq + 1 .. last /\ (seq + 1) - 1 = seq
        /\ seq + 1 \in compact.seq .. last
    BY <1>2, <1>3, <1>4
  <2>2. /\ seq + 1 \in DOMAIN journal /\ seq + 1 \in DOMAIN commit
        /\ commit[seq + 1] = journal[seq + 1]
        /\ Fits(f[seq], journal[seq + 1]) /\ f[seq + 1] = Replayed(f[seq], journal[seq + 1])
        /\ Sound(config.order, f[seq + 1])
    BY <1>2, <2>1 DEF Chain
  <2> QED BY <1>3, <1>4, <2>1, <2>2 DEF Committed, Files, Markers, last, f
<1>5. CASE ~ (seq < last)
  <2>1. seq + 1 \notin Markers
    BY <1>2, <1>3, <1>5
  <2> QED BY <1>5, <2>1 DEF Committed, last
<1> QED BY <1>4, <1>5

LEMMA ReplayNextFollows ==
  ASSUME IInv, RecoveryInv, ReplayNext
  PROVE  RecoveryInv'
<1> USE DEF ReplayNext
<1>1. UNCHANGED <<config, disk>> /\ pc' = "replay" /\ pc = "replay" /\ seq' = seq + 1
  OBVIOUS
<1>2. /\ DiskIntact' /\ LastReplayable' = LastReplayable /\ compact' = compact
      /\ Replays(compact', journal', commit', LastReplayable')
           = Replays(compact, journal, commit, LastReplayable)
  BY <1>1, SameDiskFound DEF RecoveryInv
<1>3. /\ seq' \in compact.seq .. LastReplayable /\ Sound(config'.order, mem')
      /\ mem' = Replays(compact, journal, commit, LastReplayable)[seq']
  BY ReplayIsSafe
<1>4. MemoryFollows'
  <2> HIDE DEF ReplayNext
  <2> QED BY <1>1, <1>2, <1>3 DEF MemoryFollows
<1> QED BY <1>2, <1>4 DEF RecoveryInv

\* load returns the state that a restart finds, and may draw a new schedule.
LEMMA ReplayDoneFollows ==
  ASSUME IInv, RecoveryInv, ReplayDone
  PROVE  RecoveryInv' /\ Loaded' = Loaded /\ SameProgress(mem', Loaded)
<1> USE DEF ReplayDone
<1>1. /\ UNCHANGED <<config, disk>> /\ pc' = "loop" /\ pc = "replay"
      /\ seq' = seq /\ committed' = committed
  BY Zenon
<1>2. DiskIntact' /\ LastReplayable' = LastReplayable /\ Loaded' = Loaded
  BY <1>1, SameDiskFound DEF RecoveryInv
<1>3. compact # None /\ mem \in State
  BY RunningState
<1>4. seq = LastReplayable /\ mem = Loaded
  <2>1. /\ seq \in compact.seq .. LastReplayable
        /\ mem = Replays(compact, journal, commit, LastReplayable)[seq]
    BY DEF RecoveryInv, MemoryFollows
  <2>2. ~ (seq < LastReplayable)
    BY ReplayIsSafe
  <2>3. seq = LastReplayable
    BY <1>3, <2>1, <2>2, ChainNow
  <2> QED BY <1>3, <2>1, <2>3, ChainNow
<1>5. SameProgress(mem', Loaded) /\ Sound(config'.order, mem')
  <2>1. Sound(config.order, Loaded)
    BY <1>3, ChainNow
  <2>2. (mem.pos = NumBlocks /\ mem' = Rollover(mem)) \/ mem' = mem
    OBVIOUS
  <2>3. SameProgress(mem, mem)
    BY DEF SameProgress
  <2> HIDE DEF ReplayDone
  <2>4. config' = config
    BY <1>1
  <2>5. CASE mem' = mem
    BY <1>4, <2>1, <2>3, <2>4, <2>5
  <2>6. CASE mem.pos = NumBlocks /\ mem' = Rollover(mem)
    BY <1>3, <1>4, <2>1, <2>4, <2>6, RolloverKeeps
  <2> QED BY <2>2, <2>5, <2>6
<1>6. MemoryFollows'
  <2> HIDE DEF ReplayDone
  <2> QED BY <1>1, <1>2, <1>4, <1>5 DEF MemoryFollows
<1> QED BY <1>2, <1>5, <1>6 DEF RecoveryInv

LEMMA SolveBatchFollows ==
  ASSUME IInv, RecoveryInv, NEW accepted \in SUBSET Blocks, NEW level \in Levels,
         NEW fatal \in BOOLEAN, SolveBatch(accepted, level, fatal)
  PROVE  RecoveryInv' /\ Loaded' = Loaded
<1> USE DEF SolveBatch
<1>1. /\ UNCHANGED <<config, disk>> /\ pc = "loop" /\ seq' = seq /\ committed' = FALSE
      /\ mem' = AfterBatch(accepted, level)
      /\ pc' = IF accepted # {} /\ config.save THEN "journal" ELSE "compact"
  BY DEF WithinBudgets
<1>2. DiskIntact' /\ LastReplayable' = LastReplayable /\ Loaded' = Loaded
  BY <1>1, SameDiskFound DEF RecoveryInv
<1>3. compact # None /\ mem # None /\ Sound(config.order, mem)
  BY <1>1, RunningState DEF RecoveryInv, MemoryFollows
<1>4. Loaded \in State /\ seq = LastReplayable /\ (config.save => SameProgress(mem, Loaded))
  BY <1>1, <1>3, ChainNow DEF RecoveryInv, MemoryFollows
<1>5. Sound(config'.order, mem') /\ (accepted = {} => SameProgress(mem', mem))
  BY <1>1, <1>3, AfterBatchConsistent, AfterBatchSound DEF Sound
<1>6. CASE accepted # {} /\ config.save
  <2>1. mem' = Replayed(Loaded, Record') /\ Fits(Loaded, Record')
    BY <1>4, <1>6, BatchReplays
  <2>2. pc' = "journal"
    BY <1>1, <1>6
  <2> HIDE DEF SolveBatch
  <2>3. MemoryFollows'
    BY <1>1, <1>2, <1>4, <1>5, <1>6, <2>1, <2>2 DEF MemoryFollows
  <2> QED BY <1>2, <2>3 DEF RecoveryInv
<1>7. CASE ~ (accepted # {} /\ config.save)
  <2>1. config.save => SameProgress(mem', Loaded)
    BY <1>4, <1>5, <1>7 DEF SameProgress
  <2>2. pc' = "compact"
    BY <1>1, <1>7
  <2> HIDE DEF SolveBatch
  <2>3. MemoryFollows'
    BY <1>1, <1>2, <1>4, <1>5, <2>1, <2>2 DEF MemoryFollows
  <2> QED BY <1>2, <2>3 DEF RecoveryInv
<1> QED BY <1>6, <1>7

LEMMA WriteJournalFollows ==
  ASSUME IInv, IInv', RecoveryInv, WriteJournal
  PROVE  RecoveryInv' /\ Loaded' = Loaded
<1> USE DEF WriteJournal
<1> DEFINE last == LastReplayable
           f == Replays(compact, journal, commit, last)
<1>1. /\ pc = "journal" /\ pc' = "commit" /\ mem' = mem /\ seq' = seq /\ update' = update
      /\ compact' = compact /\ commit' = commit /\ config' = config
      /\ journal' = Write(journal, seq + 1, Record)
  OBVIOUS
<1>2. compact # None /\ mem # None
  BY RunningState
<1>3. /\ Chain(config.order, compact, journal, commit, last, f) /\ seq = last
      /\ compact.seq \in Nat /\ last \in Nat /\ DOMAIN commit \subseteq 0 .. last
      /\ Loaded = f[last]
  BY <1>1, <1>2, ChainNow DEF RecoveryInv, MemoryFollows, Markers
<1>4. /\ Sound(config.order, mem) /\ mem = Replayed(Loaded, Record) /\ Fits(Loaded, Record) /\ config.save
  BY <1>1, <1>2 DEF RecoveryInv, MemoryFollows
<1> HIDE DEF last, f, WriteJournal
<1>5. /\ DOMAIN journal' = DOMAIN journal \cup {last + 1} /\ journal'[last + 1] = Record
      /\ \A s \in DOMAIN journal \ {last + 1} : journal'[s] = journal[s]
  BY <1>1, <1>3 DEF Write
<1>6. Chain(config'.order, compact', journal', commit', last, f)
  <2>1. ASSUME NEW s \in compact.seq + 1 .. last
        PROVE  /\ s \in DOMAIN journal' /\ s \in DOMAIN commit'
               /\ journal'[s] = journal[s] /\ commit'[s] = commit[s]
    <3>1. s \in DOMAIN journal /\ s \in DOMAIN commit
      BY <1>3 DEF Chain
    <3>2. s # last + 1
      BY <1>3
    <3> QED BY <1>1, <1>5, <3>1, <3>2
  <2> QED BY <1>1, <1>3, <2>1, ChainStays
<1>7. DiskIntact' /\ LastReplayable' = last /\ Loaded' = Loaded
  <2>1. DiskTypeOK'
    BY DEF IInv, TypeOK
  <2> QED BY <1>1, <1>2, <1>3, <1>6, <2>1, ChainNext
<1>8. Record' = Record
  BY <1>1 DEF Record
<1>9. seq' + 1 \in Files' /\ journal'[seq' + 1] = Record'
  BY <1>1, <1>3, <1>5, <1>8 DEF Files
<1>10. MemoryFollows'
  BY <1>1, <1>3, <1>4, <1>7, <1>8, <1>9 DEF MemoryFollows
<1> QED BY <1>7, <1>10 DEF RecoveryInv

\* The marker makes the whole of the memory durable.
LEMMA WriteCommitFollows ==
  ASSUME IInv, IInv', RecoveryInv, WriteCommit
  PROVE  RecoveryInv' /\ Loaded' = mem
<1> USE DEF WriteCommit
<1> DEFINE last == LastReplayable
           f == Replays(compact, journal, commit, last)
           g == [s \in compact.seq .. last + 1 |-> IF s = last + 1 THEN mem ELSE f[s]]
<1>1. /\ pc = "commit" /\ pc' = "ack" /\ mem' = mem /\ seq' = seq
      /\ compact' = compact /\ journal' = journal /\ config' = config
      /\ commit' = Write(commit, seq + 1, journal[seq + 1])
  OBVIOUS
<1>2. compact # None /\ mem # None /\ mem \in State
  BY RunningState
<1>3. /\ Chain(config.order, compact, journal, commit, last, f) /\ seq = last
      /\ compact.seq \in Nat /\ last \in Nat /\ compact.seq <= last /\ Loaded = f[last]
  BY <1>1, <1>2, ChainNow DEF RecoveryInv, MemoryFollows
<1>4. /\ Sound(config.order, mem) /\ mem = Replayed(Loaded, Record) /\ Fits(Loaded, Record) /\ config.save
      /\ seq + 1 \in Files /\ journal[seq + 1] = Record
  BY <1>1, <1>2 DEF RecoveryInv, MemoryFollows
<1> HIDE DEF last, f, WriteCommit
<1>5. Chain(config'.order, compact', journal', commit', last + 1, g)
  <2>1. /\ last + 1 \in DOMAIN journal /\ Fits(f[last], journal[last + 1])
        /\ mem = Replayed(f[last], journal[last + 1])
    BY <1>3, <1>4 DEF Files
  <2>2. commit' = Write(commit, last + 1, journal[last + 1])
    BY <1>1, <1>3
  <2> QED BY <1>1, <1>2, <1>3, <1>4, <2>1, <2>2, ChainGrows
<1>6. g[last + 1] = mem
  <2>1. last + 1 \in compact.seq .. last + 1
    BY <1>3
  <2> QED BY <2>1
<1>7. DiskIntact' /\ LastReplayable' = last + 1 /\ Loaded' = mem
  <2>1. DiskTypeOK'
    BY DEF IInv, TypeOK
  <2> HIDE DEF g
  <2> QED BY <1>1, <1>2, <1>5, <1>6, <2>1, ChainNext
<1>8. MemoryFollows'
  BY <1>1, <1>3, <1>4, <1>7 DEF MemoryFollows
<1> QED BY <1>7, <1>8 DEF RecoveryInv

\* So does a compact checkpoint.
LEMMA WriteCompactFollows ==
  ASSUME IInv, IInv', RecoveryInv, WriteCompact
  PROVE  RecoveryInv' /\ Loaded' = mem
<1> USE DEF WriteCompact
<1> DEFINE c == [seq |-> seq, state |-> mem]
           f == [s \in c.seq .. c.seq |-> c.state]
<1>1. /\ pc \in {"compact", "finish"} /\ pc' = "unlink" /\ mem' = mem /\ seq' = seq
      /\ compact' = c /\ commit' = commit /\ journal' = journal /\ config' = config
  BY Zenon
<1>2. compact # None /\ mem # None /\ mem \in State
  BY <1>1, RunningState
<1>3. /\ Sound(config.order, mem) /\ seq = LastReplayable /\ seq \in Nat
      /\ DOMAIN commit \subseteq 0 .. seq
  BY <1>1, <1>2, ChainNow DEF RecoveryInv, MemoryFollows, Markers
<1> HIDE DEF WriteCompact
<1>4. c \in [seq : Nat, state : State] /\ c # None /\ c.seq = seq /\ c.state = mem
  BY <1>2, <1>3
<1>5. Chain(config.order, c, journal, commit, c.seq, f)
  BY <1>3, <1>4, ChainStarts
<1>6. DiskIntact' /\ LastReplayable' = seq /\ Loaded' = f[seq]
  <2>1. DiskTypeOK'
    BY DEF IInv, TypeOK
  <2>2. Chain(config'.order, compact', journal', commit', seq, f)
    BY <1>1, <1>4, <1>5
  <2> HIDE DEF f
  <2> QED BY <1>1, <1>4, <2>1, <2>2, ChainNext
<1>7. f[seq] = mem
  BY <1>3
<1>8. MemoryFollows'
  <2> HIDE DEF f
  <2> QED BY <1>1, <1>3, <1>6, <1>7 DEF MemoryFollows
<1> QED BY <1>6, <1>7, <1>8 DEF RecoveryInv

\* Files that the compact checkpoint replaces are not replayed any more.
LEMMA UnlinkNextFollows ==
  ASSUME IInv, IInv', RecoveryInv, UnlinkNext
  PROVE  RecoveryInv' /\ Loaded' = Loaded
<1> USE DEF UnlinkNext
<1> DEFINE last == LastReplayable
           f == Replays(compact, journal, commit, last)
<1>1. pc = "unlink" /\ compact' = compact /\ UNCHANGED memory /\ UNCHANGED <<config, outcome>>
  OBVIOUS
<1>2. compact # None
  BY <1>1, RunningState
<1>3. /\ Chain(config.order, compact, journal, commit, last, f) /\ Loaded = f[last]
      /\ compact.seq \in Nat /\ last \in Nat /\ DOMAIN commit \subseteq 0 .. last
      /\ compact.seq = seq
  BY <1>1, <1>2, ChainNow DEF RecoveryInv, MemoryFollows, Markers
<1>4. PICK s \in Obsolete : \/ journal' = Unlink(journal, s) /\ commit' = commit
                            \/ commit' = Unlink(commit, s) /\ journal' = journal
  BY Zenon
<1>5. s <= seq
  BY DEF Obsolete
<1> HIDE DEF last, f, UnlinkNext
<1>6. Chain(config'.order, compact', journal', commit', last, f)
  <2>1. ASSUME NEW t \in compact.seq + 1 .. last
        PROVE  /\ t \in DOMAIN journal' /\ t \in DOMAIN commit'
               /\ journal'[t] = journal[t] /\ commit'[t] = commit[t]
    <3>1. t \in DOMAIN journal /\ t \in DOMAIN commit
      BY <1>3 DEF Chain
    <3>2. t # s
      BY <1>3, <1>5
    <3>3. CASE journal' = Unlink(journal, s) /\ commit' = commit
      BY <3>1, <3>2, <3>3 DEF Unlink
    <3>4. CASE commit' = Unlink(commit, s) /\ journal' = journal
      BY <3>1, <3>2, <3>4 DEF Unlink
    <3> QED BY <1>4, <3>3, <3>4
  <2>2. DOMAIN commit' \subseteq 0 .. last
    BY <1>3, <1>4 DEF Unlink
  <2> QED BY <1>1, <1>3, <2>1, <2>2, ChainStays
<1>7. DiskIntact' /\ LastReplayable' = last /\ Loaded' = Loaded
  <2>1. DiskTypeOK'
    BY DEF IInv, TypeOK
  <2> QED BY <1>1, <1>2, <1>3, <1>6, <2>1, ChainNext
<1>8. MemoryFollows'
  BY <1>1, <1>7 DEF RecoveryInv, MemoryFollows, memory, last
<1> QED BY <1>7, <1>8 DEF RecoveryInv

\* When the obsolete files are being removed, memory is on disk.
LEMMA UnlinkedIsLoaded ==
  ASSUME IInv, RecoveryInv, pc = "unlink"
  PROVE  Loaded = mem
<1> DEFINE f == Replays(compact, journal, commit, LastReplayable)
<1>1. /\ compact = [seq |-> seq, state |-> mem] /\ seq = LastReplayable /\ compact # None
  BY RunningState DEF RecoveryInv, MemoryFollows
<1>2. Chain(config.order, compact, journal, commit, LastReplayable, f) /\ Loaded = f[LastReplayable]
  BY <1>1, ChainNow
<1>3. f[compact.seq] = compact.state
  <2> HIDE DEF f
  <2> QED BY <1>2 DEF Chain
<1> QED BY <1>1, <1>2, <1>3

\* The counters, the event, the decisions after a batch and the end of run.
LEMMA AcknowledgeFollows ==
  ASSUME IInv, RecoveryInv, Acknowledge
  PROVE  RecoveryInv'
<1>1. /\ UNCHANGED <<config, disk>> /\ pc = "ack" /\ pc' = "compact" /\ mem' = mem /\ seq' = seq + 1
  BY DEF Acknowledge
<1>2. DiskIntact' /\ LastReplayable' = LastReplayable /\ Loaded' = Loaded
  BY <1>1, SameDiskFound DEF RecoveryInv
<1>3. Loaded = mem /\ (mem # None => Sound(config.order, mem)) /\ seq = LastReplayable - 1
  BY <1>1 DEF RecoveryInv, MemoryFollows
<1>4. SameProgress(mem, mem)
  BY DEF SameProgress
<1>5. seq' = LastReplayable'
  <2>1. LastReplayable \in Nat /\ seq \in Nat
    BY <1>1, RunningState, ChainNow DEF IInv, TypeOK, MemoryTypeOK
  <2> QED BY <1>1, <1>2, <1>3, <2>1
<1>6. MemoryFollows'
  BY <1>1, <1>2, <1>3, <1>4, <1>5 DEF MemoryFollows
<1> QED BY <1>2, <1>6 DEF RecoveryInv

LEMMA BookkeepingFollows ==
  ASSUME IInv, RecoveryInv, SkipCompact \/ UnlinkDone
  PROVE  RecoveryInv'
<1>1. /\ UNCHANGED <<config, disk>> /\ pc \in {"compact", "unlink"} /\ pc' = "report"
      /\ mem' = mem /\ seq' = seq
      /\ pc = "compact" => committed' = committed
  BY DEF SkipCompact, UnlinkDone
<1>2. DiskIntact' /\ LastReplayable' = LastReplayable /\ Loaded' = Loaded
  BY <1>1, SameDiskFound DEF RecoveryInv
<1>3. mem # None => Sound(config.order, mem)
  BY DEF RecoveryInv, MemoryFollows
<1>4. seq = LastReplayable
  BY <1>1 DEF RecoveryInv, MemoryFollows
<1>5. SameProgress(mem, mem)
  BY DEF SameProgress
<1>6. CASE pc = "compact"
  <2>1. MemoryFollows'
    BY <1>1, <1>2, <1>3, <1>4, <1>6 DEF RecoveryInv, MemoryFollows
  <2> QED BY <1>2, <2>1 DEF RecoveryInv
<1>7. CASE pc = "unlink"
  <2>1. Loaded = mem
    BY <1>7, UnlinkedIsLoaded
  <2>2. MemoryFollows'
    BY <1>1, <1>2, <1>3, <1>4, <1>5, <2>1 DEF MemoryFollows
  <2> QED BY <1>2, <2>2 DEF RecoveryInv
<1> QED BY <1>1, <1>6, <1>7

LEMMA StoppingAfterFollows ==
  ASSUME RecoveryInv, StopAfterBatch \/ StopAfterSweep
  PROVE  RecoveryInv'
<1>1. UNCHANGED <<config, disk>> /\ pc = "report" /\ pc' = "finish" /\ mem' = mem /\ seq' = seq
  BY DEF StopAfterBatch, StopAfterSweep
<1>2. DiskIntact' /\ LastReplayable' = LastReplayable
  BY <1>1, SameDiskFound DEF RecoveryInv
<1>3. MemoryFollows'
  BY <1>1, <1>2 DEF RecoveryInv, MemoryFollows
<1> QED BY <1>2, <1>3 DEF RecoveryInv

LEMMA ContinueFollows ==
  ASSUME IInv, RecoveryInv, Continue
  PROVE  RecoveryInv'
<1>1. /\ UNCHANGED <<config, disk>> /\ pc = "report" /\ pc' = "loop" /\ seq' = seq /\ config' = config
      /\ (mem.pos = NumBlocks /\ mem' = Rollover(mem)) \/ mem' = mem
  BY Zenon DEF Continue
<1>2. DiskIntact' /\ LastReplayable' = LastReplayable /\ Loaded' = Loaded
  BY <1>1, SameDiskFound DEF RecoveryInv
<1>3. mem \in State /\ Sound(config.order, mem) /\ seq = LastReplayable
  BY <1>1, RunningState DEF RecoveryInv, MemoryFollows
<1>4. config.save => SameProgress(mem, Loaded)
  BY <1>1 DEF RecoveryInv, MemoryFollows
<1>5. Sound(config'.order, mem') /\ (config.save => SameProgress(mem', Loaded))
  BY <1>1, <1>3, <1>4, RolloverKeeps DEF SameProgress
<1>6. MemoryFollows'
  BY <1>1, <1>2, <1>3, <1>5 DEF MemoryFollows
<1> QED BY <1>2, <1>6 DEF RecoveryInv

LEMMA ReturnFollows ==
  ASSUME IInv, RecoveryInv, Return
  PROVE  RecoveryInv'
<1>1. /\ UNCHANGED <<config, disk>> /\ pc' = "down" /\ mem' = mem /\ preserved' = preserved
      /\ preserved \/ pc = "unlink"
  BY DEF Return
<1>2. DiskIntact' /\ Loaded' = Loaded
  BY <1>1, SameDiskFound DEF RecoveryInv
<1>3. ~ preserved' => Loaded' = mem'
  BY <1>1, <1>2, UnlinkedIsLoaded
<1>4. MemoryFollows'
  BY <1>1, <1>2, <1>3 DEF RecoveryInv, MemoryFollows
<1> QED BY <1>2, <1>4 DEF RecoveryInv

LEMMA StoppingFollows ==
  ASSUME RecoveryInv, "ack" \notin InterruptPoints,
         StopBySweepBudget \/ StopByDeadline \/ StopByUpdateBudget
         \/ StopInConstruction \/ NumericalFailure \/ Interrupt
  PROVE  RecoveryInv'
<1> USE DEF StopBySweepBudget, StopByDeadline, StopByUpdateBudget, StopInConstruction,
            NumericalFailure, Interrupt
<1>1. PICK how : Stop(how)
  OBVIOUS
<1>2. pc \notin {"down", "replay", "ack"}
  BY DEF WithinBudgets
<1> QED BY <1>1, <1>2, StopFollows

\* load never raises, so that a process only ends by a missing batch size or
\* from outside.
LEMMA FailingFollows ==
  ASSUME IInv, RecoveryInv, ReplayRejects \/ MissingBatchSize \/ Crash
  PROVE  RecoveryInv'
<1>1. PICK how \in {"unreadable", "key_error", "crashed"} : Raise(how)
  BY DEF ReplayRejects, MissingBatchSize, Crash
<1> QED BY <1>1, RaiseFollows

LEMMA NothingFollows ==
  ASSUME RecoveryInv, UNCHANGED vars
  PROVE  RecoveryInv'
<1>1. /\ UNCHANGED <<config, disk>> /\ UNCHANGED <<pc, mem, seq, config, update, committed, preserved, outcome>>
  BY DEF vars, memory
<1>2. Record' = Record
  BY <1>1 DEF Record
<1>3. /\ DiskIntact' /\ LastReplayable' = LastReplayable /\ Loaded' = Loaded
      /\ compact' = compact /\ Files' = Files /\ journal' = journal
      /\ Replays(compact', journal', commit', LastReplayable')
           = Replays(compact, journal, commit, LastReplayable)
  BY <1>1, SameDiskFound DEF RecoveryInv
<1>4. MemoryFollows'
  BY <1>1, <1>2, <1>3 DEF RecoveryInv, MemoryFollows
<1> QED BY <1>3, <1>4 DEF RecoveryInv

LEMMA NextRecovery ==
  ASSUME "ack" \notin InterruptPoints, IInv, IInv', RecoveryInv, [Next]_vars
  PROVE  RecoveryInv'
<1>1. CASE StartFresh \/ Resume \/ ReplayNext \/ ReplayDone \/ Continue
  BY <1>1, StartFreshFollows, ResumeFollows, ReplayNextFollows, ReplayDoneFollows,
     ContinueFollows
<1>2. CASE \E accepted \in SUBSET Blocks, level \in Levels, fatal \in BOOLEAN :
             SolveBatch(accepted, level, fatal)
  BY <1>2, SolveBatchFollows
<1>3. CASE WriteJournal \/ WriteCommit \/ WriteCompact \/ UnlinkNext
  BY <1>3, WriteJournalFollows, WriteCommitFollows, WriteCompactFollows, UnlinkNextFollows
<1>4. CASE Acknowledge \/ SkipCompact \/ UnlinkDone \/ StopAfterBatch
           \/ StopAfterSweep \/ Return
  BY <1>4, AcknowledgeFollows, BookkeepingFollows, StoppingAfterFollows, ReturnFollows
<1>5. CASE StopBySweepBudget \/ StopByDeadline \/ StopByUpdateBudget
           \/ StopInConstruction \/ NumericalFailure \/ Interrupt
  BY <1>5, StoppingFollows
<1>6. CASE ReplayRejects \/ MissingBatchSize \/ Crash
  BY <1>6, FailingFollows
<1>7. CASE UNCHANGED vars
  BY <1>7, NothingFollows
<1> QED
  BY <1>1, <1>2, <1>3, <1>4, <1>5, <1>6, <1>7 DEF Next, Process

LEMMA InitRecovery == Init => RecoveryInv
<1> SUFFICES ASSUME Init PROVE RecoveryInv
  OBVIOUS
<1>1. DiskIntact
  BY DEF Init, DiskIntact, Files, Markers, NoFiles
<1>2. MemoryFollows
  BY DEF Init, MemoryFollows
<1> QED BY <1>1, <1>2 DEF RecoveryInv

LEMMA RecoveryInvariance ==
  ASSUME "ack" \notin InterruptPoints
  PROVE  Spec => [](IInv /\ RecoveryInv)
<1>1. Init => IInv /\ RecoveryInv
  BY InitIInv, InitRecovery
<1>2. (IInv /\ RecoveryInv) /\ [Next]_vars => (IInv /\ RecoveryInv)'
  BY NextIInv, NextRecovery
<1> QED
  BY <1>1, <1>2, PTL DEF Spec

LEMMA StatesAreSound ==
  ASSUME IInv, RecoveryInv
  PROVE  \A m \in States : Sound(config.order, m)
<1> SUFFICES ASSUME NEW m \in States PROVE Sound(config.order, m)
  OBVIOUS
<1>1. CASE m = mem
  BY <1>1 DEF RecoveryInv, MemoryFollows, States
<1>2. CASE m # mem
  <2>1. compact # None /\ m = Loaded
    BY <1>2 DEF States
  <2> QED BY <2>1, ChainNow
<1> QED BY <1>1, <1>2
--------------------------------------------------------------------------------
(***************************************************************************)
(* In memory and on disk, prediction, objective, best objective and count  *)
(* of updates belong to the flow they are stored with.                     *)
(***************************************************************************)
THEOREM StatesAreConsistent ==
  ASSUME "ack" \notin InterruptPoints
  PROVE  Spec => []StateConsistent
<1>1. IInv /\ RecoveryInv => StateConsistent
  BY StatesAreSound DEF StateConsistent, Sound
<1> QED
  BY <1>1, RecoveryInvariance, PTL

(***************************************************************************)
(* However often a sweep is interrupted, lost and resumed, it updates no   *)
(* block twice, in memory or in what a restart recovers.                   *)
(***************************************************************************)
THEOREM SweepsUpdateOnce ==
  ASSUME "ack" \notin InterruptPoints
  PROVE  Spec => []OncePerSweep
<1>1. IInv /\ RecoveryInv => OncePerSweep
  BY StatesAreSound DEF OncePerSweep, Sound
<1> QED
  BY <1>1, RecoveryInvariance, PTL

(***************************************************************************)
(* A directory with a compact checkpoint is loadable at every moment: the  *)
(* committed run of the journal replays on it without a gap or mismatch.   *)
(***************************************************************************)
THEOREM CheckpointsAreLoadable ==
  ASSUME "ack" \notin InterruptPoints
  PROVE  Spec => []CheckpointLoadable
<1>1. IInv /\ RecoveryInv => CheckpointLoadable
  BY ChainNow DEF CheckpointLoadable
<1> QED
  BY <1>1, RecoveryInvariance, PTL

(***************************************************************************)
(* The state that run returned is the one the next resume starts from.     *)
(***************************************************************************)
THEOREM ResultsAreResumable ==
  ASSUME "ack" \notin InterruptPoints
  PROVE  Spec => []ResultIsResumable
<1>1. RecoveryInv => ResultIsResumable
  BY DEF RecoveryInv, MemoryFollows, ResultIsResumable
<1> QED
  BY <1>1, RecoveryInvariance, PTL
--------------------------------------------------------------------------------
(* The estimator implements DurableProgress *)

\* A step that changes neither progress nor what is saved or announced.
LEMMA Stutters ==
  ASSUME UNCHANGED <<Running, Work, Saved, reported>>
  PROVE  UNCHANGED Durable!vars
BY DEF Durable!vars

LEMMA SameSaved ==
  ASSUME UNCHANGED disk
  PROVE  Saved' = Saved
BY SameDiskFound DEF Saved, Readable

LEMMA SavedIsLoaded ==
  ASSUME IInv, RecoveryInv, compact # None
  PROVE  Saved = Loaded.acc
BY ChainNow DEF Saved, Readable

LEMMA StartFreshRefines ==
  ASSUME IInv, IInv', RecoveryInv, StartFresh
  PROVE  Durable!Start
<1>1. ~ Running /\ Running' /\ compact = None /\ mem' = InitialState /\ reported' = reported
  BY DEF StartFresh, Running
<1>2. compact' # None /\ InitialState # None
  <2>1. pc' # "down"
    BY DEF StartFresh
  <2> QED BY <2>1, InitialStateOK DEF IInv, TypeOK, MemoryTypeOK
<1>3. Loaded' = InitialState /\ InitialState.acc = 0
  BY StartFreshFollows DEF InitialState
<1>4. Saved = 0 /\ Saved' = 0 /\ Work' = 0
  BY <1>1, <1>2, <1>3 DEF Saved, Readable, Work
<1> QED BY <1>1, <1>4 DEF Durable!Start

LEMMA ReplayDoneRefines ==
  ASSUME IInv, RecoveryInv, ReplayDone
  PROVE  Durable!Start
<1>1. ~ Running /\ Running' /\ UNCHANGED disk /\ reported' = reported /\ pc # "down"
  BY DEF ReplayDone, Running
<1>2. Saved' = Saved /\ Saved = Loaded.acc
  BY <1>1, RunningState, SameSaved, SavedIsLoaded
<1>3. Work' = Loaded.acc
  BY <1>1, ReplayDoneFollows DEF Work, SameProgress
<1> QED BY <1>1, <1>2, <1>3 DEF Durable!Start

LEMMA SolveBatchRefines ==
  ASSUME IInv, NEW accepted \in SUBSET Blocks, NEW level \in Levels, NEW fatal \in BOOLEAN,
         SolveBatch(accepted, level, fatal)
  PROVE  Durable!Advance \/ UNCHANGED Durable!vars
<1>1. /\ Running /\ Running' /\ UNCHANGED disk /\ reported' = reported
      /\ WithinBudgets /\ AtBatchStart /\ accepted \subseteq Batch
      /\ mem' = AfterBatch(accepted, level)
  BY DEF SolveBatch, Running, WithinBudgets
<1>2. Saved' = Saved
  BY <1>1, SameSaved
<1>3. mem \in State /\ Cardinality(accepted) \in Nat
  <2>1. mem \in State /\ Planned \in Int /\ Cardinality(accepted) \in 0 .. Planned
    BY <1>1, PlannedBatch DEF IInv
  <2> QED BY <2>1
<1>4. Work = mem.acc /\ Work' = mem.acc + Cardinality(accepted) /\ mem.acc \in Nat
  BY <1>1, <1>3 DEF Work, AfterBatch, State
<1>5. IsFiniteSet(accepted) /\ (Cardinality(accepted) = 0 <=> accepted = {})
  BY BlocksFinite, FS_Subset, FS_EmptySet
<1>6. CASE accepted = {}
  BY <1>1, <1>2, <1>3, <1>4, <1>5, <1>6 DEF Durable!vars
<1>7. CASE accepted # {}
  <2>1. Work' \in Nat /\ Work' > Work
    BY <1>3, <1>4, <1>5, <1>7
  <2> QED BY <1>1, <1>2, <2>1 DEF Durable!Advance
<1> QED BY <1>6, <1>7

LEMMA SavingRefines ==
  ASSUME IInv, IInv', RecoveryInv, WriteCommit \/ WriteCompact
  PROVE  Durable!Save
<1>1. /\ Running /\ Running' /\ mem' = mem /\ reported' = reported /\ pc # "down" /\ pc' # "down"
  BY Zenon DEF WriteCommit, WriteCompact, Running
<1>2. mem # None /\ compact' # None
  BY <1>1, RunningState DEF IInv, TypeOK, MemoryTypeOK
<1>3. Loaded' = mem
  BY WriteCommitFollows, WriteCompactFollows
<1>4. Saved' = Work /\ Work' = Work
  BY <1>1, <1>2, <1>3 DEF Saved, Readable, Work
<1> QED BY <1>1, <1>4 DEF Durable!Save

\* Files come and go without a change to what a restart recovers.
LEMMA FilesRefine ==
  ASSUME IInv, IInv', RecoveryInv, WriteJournal \/ UnlinkNext
  PROVE  UNCHANGED Durable!vars
<1>1. /\ Running /\ Running' /\ mem' = mem /\ reported' = reported
      /\ compact' = compact
  BY Zenon DEF WriteJournal, UnlinkNext, memory, Running
<1>2. Loaded' = Loaded
  BY WriteJournalFollows, UnlinkNextFollows
<1>3. Saved' = Saved /\ Work' = Work
  BY <1>1, <1>2 DEF Saved, Readable, Work
<1> QED BY <1>1, <1>3, Stutters

\* What is announced as committed is all of the memory, and it is on disk.
LEMMA ReportRefines ==
  ASSUME IInv, RecoveryInv, StopAfterBatch \/ StopAfterSweep \/ Continue
  PROVE  Durable!Announce \/ UNCHANGED Durable!vars
<1>1. /\ pc = "report" /\ Running /\ Running' /\ UNCHANGED disk /\ Tell
      /\ mem' = mem \/ mem' = Rollover(mem)
  BY Zenon DEF StopAfterBatch, StopAfterSweep, Continue, Running
<1>2. mem \in State /\ compact # None
  BY <1>1, RunningState
<1>3. Saved' = Saved /\ Work = mem.acc /\ Work' = mem.acc
  BY <1>1, <1>2, SameSaved, RolloverKeeps DEF Work, SameProgress
<1>4. CASE committed /\ mem.acc > reported
  <2>1. Loaded = mem
    BY <1>1, <1>4 DEF RecoveryInv, MemoryFollows
  <2>2. Saved = Work /\ reported' = Work
    BY <1>1, <1>2, <1>3, <1>4, <2>1, SavedIsLoaded DEF Tell
  <2> QED BY <1>1, <1>3, <2>2 DEF Durable!Announce
<1>5. CASE ~ (committed /\ mem.acc > reported)
  <2>1. reported' = reported
    BY <1>1, <1>5 DEF Tell
  <2> QED BY <1>1, <1>3, <2>1, Stutters
<1> QED BY <1>4, <1>5

\* However a process ends, what is saved and announced stays.
LEMMA EndRefines ==
  ASSUME Return \/ ReplayRejects \/ MissingBatchSize \/ Crash
  PROVE  Durable!Stop \/ UNCHANGED Durable!vars
<1>1. ~ Running' /\ UNCHANGED disk /\ reported' = reported
  BY DEF Return, ReplayRejects, MissingBatchSize, Crash, Raise, Running
<1>2. Saved' = Saved /\ Work' = 0
  BY <1>1, SameSaved DEF Work
<1>3. CASE Running
  BY <1>1, <1>2, <1>3 DEF Durable!Stop
<1>4. CASE ~ Running
  <2>1. Work = 0
    BY <1>4 DEF Work
  <2>2. Running' = Running
    BY <1>1, <1>4 DEF Running
  <2> QED BY <1>1, <1>2, <2>1, <2>2, Stutters
<1> QED BY <1>3, <1>4

LEMMA QuietRefines ==
  ASSUME Resume \/ ReplayNext \/ Acknowledge \/ SkipCompact \/ UnlinkDone
         \/ StopBySweepBudget \/ StopByDeadline \/ StopByUpdateBudget
         \/ StopInConstruction \/ NumericalFailure \/ Interrupt \/ UNCHANGED vars
  PROVE  UNCHANGED Durable!vars
<1>1. UNCHANGED disk /\ reported' = reported
  BY DEF Resume, ReplayNext, Acknowledge, SkipCompact, UnlinkDone, StopBySweepBudget,
     StopByDeadline, StopByUpdateBudget, StopInConstruction, NumericalFailure, Interrupt,
     Stop, vars
<1>2. \/ ~ Running /\ ~ Running'
      \/ Running /\ Running' /\ mem' = mem
      \/ pc' = pc /\ mem' = mem
  BY ConstantsAssumption, Zenon DEF Resume, ReplayNext, Acknowledge, SkipCompact, UnlinkDone,
     StopBySweepBudget, StopByDeadline, StopByUpdateBudget, StopInConstruction,
     NumericalFailure, Interrupt, Stop, vars, memory, Running, WithinBudgets
<1>3. Running' = Running /\ Work' = Work
  BY <1>2 DEF Running, Work
<1> QED BY <1>1, <1>3, SameSaved, Stutters

LEMMA NextRefines ==
  ASSUME IInv, IInv', RecoveryInv, [Next]_vars
  PROVE  [Durable!Next]_(Durable!vars)
<1>1. CASE StartFresh \/ ReplayDone
  BY <1>1, StartFreshRefines, ReplayDoneRefines DEF Durable!Next
<1>2. CASE \E accepted \in SUBSET Blocks, level \in Levels, fatal \in BOOLEAN :
             SolveBatch(accepted, level, fatal)
  BY <1>2, SolveBatchRefines DEF Durable!Next
<1>3. CASE WriteCommit \/ WriteCompact
  BY <1>3, SavingRefines DEF Durable!Next
<1>4. CASE WriteJournal \/ UnlinkNext
  BY <1>4, FilesRefine
<1>5. CASE StopAfterBatch \/ StopAfterSweep \/ Continue
  BY <1>5, ReportRefines DEF Durable!Next
<1>6. CASE Return \/ ReplayRejects \/ MissingBatchSize \/ Crash
  BY <1>6, EndRefines DEF Durable!Next
<1>7. CASE Resume \/ ReplayNext \/ Acknowledge \/ SkipCompact \/ UnlinkDone
           \/ StopBySweepBudget \/ StopByDeadline \/ StopByUpdateBudget
           \/ StopInConstruction \/ NumericalFailure \/ Interrupt \/ UNCHANGED vars
  BY <1>7, QuietRefines
<1> QED
  BY <1>1, <1>2, <1>3, <1>4, <1>5, <1>6, <1>7 DEF Next, Process

(***************************************************************************)
(* The estimator implements DurableProgress: every step is a start from    *)
(* what is saved, an advance, an atomic save, an announcement of what is   *)
(* saved, an end, or changes none of it.                                   *)
(***************************************************************************)
THEOREM ProgressIsDurable ==
  ASSUME "ack" \notin InterruptPoints
  PROVE  Spec => ImplementsDurableProgress
<1>1. Init => Durable!Init
  <2> SUFFICES ASSUME Init PROVE Durable!Init
    OBVIOUS
  <2>1. pc = "down" /\ compact = None /\ reported = 0
    BY DEF Init
  <2> QED BY <2>1 DEF Durable!Init, Running, Work, Saved, Readable
<1>2. (IInv /\ RecoveryInv) /\ (IInv /\ RecoveryInv)' /\ [Next]_vars
        => [Durable!Next]_(Durable!vars)
  BY NextRefines
<1> QED
  BY <1>1, <1>2, RecoveryInvariance, PTL DEF Spec, ImplementsDurableProgress, Durable!Spec

(***************************************************************************)
(* What an event announced as committed is never more than what a restart  *)
(* recovers, whatever happens after it.                                    *)
(***************************************************************************)
THEOREM AnnouncedSurvives ==
  ASSUME "ack" \notin InterruptPoints
  PROVE  Spec => []Durable!Promise
<1> DEFINE Kept == /\ Saved \in Nat /\ reported \in Nat /\ reported <= Saved
                   /\ Running => Work \in Nat /\ Saved <= Work
<1>1. Durable!Init => Kept
  BY DEF Durable!Init
<1>2. Kept /\ [Durable!Next]_(Durable!vars) => Kept'
  <2> SUFFICES ASSUME Kept, [Durable!Next]_(Durable!vars) PROVE Kept'
    OBVIOUS
  <2>1. CASE Durable!Start
    BY <2>1 DEF Durable!Start
  <2>2. CASE Durable!Advance
    BY <2>2 DEF Durable!Advance
  <2>3. CASE Durable!Save
    BY <2>3 DEF Durable!Save
  <2>4. CASE Durable!Announce
    BY <2>4 DEF Durable!Announce
  <2>5. CASE Durable!Stop
    BY <2>5 DEF Durable!Stop
  <2>6. CASE UNCHANGED Durable!vars
    BY <2>6 DEF Durable!vars
  <2> QED BY <2>1, <2>2, <2>3, <2>4, <2>5, <2>6 DEF Durable!Next
<1>3. Kept => Durable!Promise
  BY DEF Durable!Promise
<1> QED
  BY <1>1, <1>2, <1>3, ProgressIsDurable, PTL DEF ImplementsDurableProgress, Durable!Spec
================================================================================
