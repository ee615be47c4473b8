----------------------------- MODULE BlockEstimator ----------------------------
(***************************************************************************)
(* The interruptible block-coordinate estimator (estimator.py, run) on top *)
(* of its checkpoint store (checkpoint_store.py): a compact checkpoint     *)
(* plus a journal of accepted updates, each made visible by a commit       *)
(* marker.  One process at a time runs on a checkpoint directory; it may   *)
(* be killed at any step, interrupted by KeyboardInterrupt, stopped by a   *)
(* budget, and started again with resume=True.                             *)
(*                                                                         *)
(* Data are abstracted to what recovery can confuse.  A flow is the number *)
(* of accepted updates of each block, a prediction the number of deltas    *)
(* added for each block, an objective a level together with the flow it    *)
(* was evaluated at.  Every file write goes through _atomic_write, so a    *)
(* file is either absent or complete.                                      *)
(***************************************************************************)
EXTENDS Integers, FiniteSets

CONSTANTS
  NumBlocks,        \* number of eligible OD blocks
  Configs,          \* configurations of a checkpoint: [order, save, every]
  Schedule,         \* Schedule[order][d]: the block order of the d-th draw
  BatchSizes,       \* BatchSizes[order]: batch size by starting position
  SweepBudgets,     \* values of maximum_sweeps
  UpdateBudgets,    \* values of maximum_block_updates
  MaxLevel,         \* bound: objective levels are 0 .. MaxLevel
  Slack,            \* levels an accepted update may rise (its tolerance)
  None,             \* no compact checkpoint, or no state in memory
  InterruptPoints,  \* values of pc at which KeyboardInterrupt may arrive
  MaxInterrupts, MaxCrashes, MaxInvocations   \* bounds

Blocks == 1 .. NumBlocks
Levels == 0 .. MaxLevel

Flows == [Blocks -> Nat]
Objectives == [at : Flows, level : Levels]
State == [flow : Flows, pred : Flows, obj : Objectives,
          bestFlow : Flows, best : Objectives,
          sweep : Nat, pos : 0 .. NumBlocks, acc : Nat, rej : Nat, draws : Nat]

ASSUME ConstantsAssumption ==
  /\ NumBlocks \in Nat \ {0} /\ MaxLevel \in Nat /\ Slack \in Nat
  /\ MaxInterrupts \in Nat /\ MaxCrashes \in Nat /\ MaxInvocations \in Nat
  /\ SweepBudgets \subseteq Nat /\ UpdateBudgets \subseteq Nat
  /\ InterruptPoints \cap {"down", "replay"} = {}
  /\ None \notin State /\ None \notin [seq : Nat, state : State]

ASSUME ConfigsAssumption ==
  \A c \in Configs :
    /\ c.save \in BOOLEAN /\ c.every \in Nat \ {0}
    /\ DOMAIN BatchSizes[c.order] \subseteq 0 .. NumBlocks - 1
    /\ \A p \in DOMAIN BatchSizes[c.order] :
         BatchSizes[c.order][p] \in 1 .. NumBlocks - p

\* A schedule has every block once; one is drawn for each sweep.
ASSUME SchedulesAssumption ==
  \A c \in Configs, n \in SweepBudgets : \A d \in 1 .. n :
    \A p, q \in Blocks :
      Schedule[c.order][d][p] = Schedule[c.order][d][q] => p = q

VARIABLES
  config,       \* configuration shared by all invocations (it is fingerprinted)
  pc,           \* what the process is about to do; "down": no process
  mem,          \* the estimator's state in memory, or None
  seq,          \* the store's journal_sequence
  limits,       \* invocation budgets [sweeps, updates]
  update,       \* the batch just decided: [blocks, before, updated, fatal]
  committed,    \* checkpoint_committed of the batch just decided
  status,       \* result status, "none" while the loop runs
  preserved,    \* checkpoint_preserved
  compact,      \* compact-checkpoint.json: [seq, state], or None
  journal,      \* the journal-N.json files that exist, by N
  commit,       \* the journal-N.commit files: the record each holds the digest of
  outcome,      \* how the last invocation ended
  reported,     \* accepted updates the callbacks were told are committed
  interrupts, crashes, invocations            \* counters of the bounds

memory == <<pc, mem, seq, limits, update, committed, status, preserved>>
disk == <<compact, journal, commit>>
counters == <<interrupts, crashes, invocations>>
vars == <<config, memory, disk, outcome, reported, counters>>
--------------------------------------------------------------------------------
NoFiles == [s \in {} |-> None]

Files == DOMAIN journal
Markers == DOMAIN commit

\* The files with file s written, and without it.
Write(files, s, content) ==
  [t \in DOMAIN files \cup {s} |-> IF t = s THEN content ELSE files[t]]
Unlink(files, s) == [t \in DOMAIN files \ {s} |-> files[t]]

Nothing == [blocks |-> {}, before |-> [b \in {} |-> 0], updated |-> FALSE, fatal |-> FALSE]
NoLimits == [sweeps |-> 0, updates |-> 0]

Init ==
  /\ config \in Configs
  /\ pc = "down" /\ mem = None /\ seq = 0 /\ limits = NoLimits
  /\ update = Nothing /\ committed = FALSE /\ status = "none"
  /\ preserved = FALSE
  /\ compact = None /\ journal = NoFiles /\ commit = NoFiles
  /\ outcome = "none" /\ reported = 0
  /\ interrupts = 0 /\ crashes = 0 /\ invocations = 0

\* The state of a fresh run: nothing updated, first schedule drawn.
InitialState ==
  LET zero == [b \in Blocks |-> 0]
      objective == [at |-> zero, level |-> MaxLevel]
  IN  [flow |-> zero, pred |-> zero, obj |-> objective,
       bestFlow |-> zero, best |-> objective,
       sweep |-> 0, pos |-> 0, acc |-> 0, rej |-> 0, draws |-> 1]

\* Mutants: the best objective is written as the current one; the counter is
\* that of before the update; the position is one too far.
MetadataOfBest(m) == [obj |-> m.best, best |-> m.best, sweep |-> m.sweep, pos |-> m.pos,
                      acc |-> m.acc, rej |-> m.rej, draws |-> m.draws]
MetadataBefore(m) == [obj |-> m.obj, best |-> m.best, sweep |-> m.sweep, pos |-> m.pos,
                      acc |-> m.acc - 1, rej |-> m.rej, draws |-> m.draws]
MetadataTooFar(m) == [obj |-> m.obj, best |-> m.best, sweep |-> m.sweep, pos |-> m.pos + 1,
                      acc |-> m.acc, rej |-> m.rej, draws |-> m.draws]

\* The part of a state that a journal record carries whole (state_metadata).
Metadata(m) == [obj |-> m.obj, best |-> m.best, sweep |-> m.sweep, pos |-> m.pos,
                acc |-> m.acc, rej |-> m.rej, draws |-> m.draws]

\* Mutant: the old schedule is used again.
RolloverSameSchedule(m) == [m EXCEPT !.pos = 0]

\* A new schedule is drawn and the position returns to its start.
Rollover(m) == [m EXCEPT !.pos = 0, !.draws = @ + 1]
--------------------------------------------------------------------------------
(* Starting, loading and replaying *)

\* run(resume=False): store.initialize refuses a directory with a checkpoint.
StartFresh ==
  /\ pc = "down" /\ invocations < MaxInvocations
  /\ compact = None
  /\ limits' \in [sweeps : SweepBudgets, updates : UpdateBudgets]
  /\ pc' = "loop" /\ mem' = InitialState /\ seq' = 0
  /\ compact' = [seq |-> 0, state |-> InitialState]
  /\ update' = Nothing /\ committed' = FALSE /\ status' = "none"
  /\ preserved' = FALSE /\ outcome' = "none"
  /\ invocations' = invocations + 1
  /\ UNCHANGED <<config, journal, commit, reported, interrupts, crashes>>

\* run(resume=True): load reads the compact checkpoint.
Resume ==
  /\ pc = "down" /\ invocations < MaxInvocations
  /\ compact # None
  /\ limits' \in [sweeps : SweepBudgets, updates : UpdateBudgets]
  /\ pc' = "replay" /\ mem' = compact.state /\ seq' = compact.seq
  /\ update' = Nothing /\ committed' = FALSE /\ status' = "none"
  /\ preserved' = FALSE /\ outcome' = "none"
  /\ invocations' = invocations + 1
  /\ UNCHANGED <<config, disk, reported, interrupts, crashes>>

\* A journal file is replayed only when its commit marker exists.
Committed(s) == s \in Files /\ s \in Markers

\* flow_before of record r is the flow of m.
Fits(m, r) == \A b \in r.blocks : m.flow[b] = r.before[b]

\* The state after replaying record r on m.
Replayed(m, r) ==
  LET flow == [b \in Blocks |-> IF b \in r.blocks THEN r.before[b] + 1 ELSE m.flow[b]]
  IN  [flow |-> flow,
       pred |-> [b \in Blocks |-> IF b \in r.blocks THEN m.pred[b] + 1 ELSE m.pred[b]],
       bestFlow |-> IF r.updated THEN flow ELSE m.bestFlow,
       obj |-> r.meta.obj, best |-> r.meta.best,
       sweep |-> r.meta.sweep, pos |-> r.meta.pos,
       acc |-> r.meta.acc, rej |-> r.meta.rej, draws |-> r.meta.draws]

\* One iteration of load's loop.
ReplayNext ==
  /\ pc = "replay" /\ Committed(seq + 1)
  /\ commit[seq + 1] = journal[seq + 1]
  /\ Fits(mem, journal[seq + 1])
  /\ mem' = Replayed(mem, journal[seq + 1])
  /\ seq' = seq + 1
  /\ UNCHANGED <<config, pc, limits, update, committed, status, preserved,
                 disk, outcome, reported, counters>>

\* The invocation raises: nothing of its memory survives.
Raise(how) ==
  /\ pc' = "down" /\ mem' = None /\ seq' = 0 /\ limits' = NoLimits
  /\ update' = Nothing /\ committed' = FALSE /\ status' = "none"
  /\ preserved' = FALSE
  /\ outcome' = how
  /\ UNCHANGED <<config, disk, reported>>

\* load raises ValueError on a marker or a record it cannot apply.
ReplayRejects ==
  /\ pc = "replay" /\ Committed(seq + 1)
  /\ commit[seq + 1] # journal[seq + 1] \/ ~ Fits(mem, journal[seq + 1])
  /\ Raise("unreadable")
  /\ UNCHANGED counters

\* Mutant: every resumed run draws a new schedule.
ReplayDoneRedrawing ==
  /\ pc = "replay" /\ ~ Committed(seq + 1)
  /\ mem' = Rollover(mem)
  /\ pc' = "loop"
  /\ UNCHANGED <<config, seq, limits, update, committed, status, preserved,
                 disk, outcome, reported, counters>>

\* load returns; a schedule that was already finished is replaced.
ReplayDone ==
  /\ pc = "replay" /\ ~ Committed(seq + 1)
  /\ mem' = IF mem.pos = NumBlocks THEN Rollover(mem) ELSE mem
  /\ pc' = "loop"
  /\ UNCHANGED <<config, seq, limits, update, committed, status, preserved,
                 disk, outcome, reported, counters>>
--------------------------------------------------------------------------------
(* The loop: budgets, then one batch *)

Stop(how) ==
  /\ status' = how /\ pc' = "finish"
  /\ UNCHANGED <<config, mem, seq, limits, update, committed,
                 disk, outcome, reported>>

Attempts == mem.acc + mem.rej

StopBySweepBudget ==
  /\ pc = "loop" /\ mem.sweep >= limits.sweeps
  /\ Stop("stopped_by_sweep_budget")
  /\ UNCHANGED <<preserved, counters>>

\* The clock is read before the update budget is looked at.
StopByDeadline ==
  /\ pc = "loop" /\ mem.sweep < limits.sweeps
  /\ Stop("stopped_by_time_budget")
  /\ UNCHANGED <<preserved, counters>>

StopByUpdateBudget ==
  /\ pc = "loop" /\ mem.sweep < limits.sweeps
  /\ Attempts >= limits.updates
  /\ Stop("stopped_by_update_budget")
  /\ UNCHANGED <<preserved, counters>>

WithinBudgets ==
  pc = "loop" /\ mem.sweep < limits.sweeps /\ Attempts < limits.updates

\* batch_size_at_position[schedule_position] has an entry.
AtBatchStart == mem.pos \in DOMAIN BatchSizes[config.order]

\* It has none: KeyError, which no handler of run catches.
MissingBatchSize ==
  /\ WithinBudgets /\ ~ AtBatchStart
  /\ Raise("key_error")
  /\ UNCHANGED counters

\* Batch length, cut to the updates the invocation may still attempt.
Planned ==
  LET size == BatchSizes[config.order][mem.pos]
      remaining == limits.updates - Attempts
  IN  IF size < remaining THEN size ELSE remaining

Batch == {Schedule[config.order][mem.draws][p] : p \in mem.pos + 1 .. mem.pos + Planned}

\* The deadline passes while an operator of the batch is constructed.
StopInConstruction ==
  /\ WithinBudgets /\ AtBatchStart
  /\ Stop("stopped_by_time_budget")
  /\ preserved' = TRUE
  /\ UNCHANGED counters

\* FloatingPointError or LinAlgError out of the solve.
NumericalFailure ==
  /\ WithinBudgets /\ AtBatchStart
  /\ Stop("numerical_failure")
  /\ UNCHANGED <<preserved, counters>>

\* The batch solved, some of its blocks accepted, and the state advanced.
AfterBatch(accepted, level) ==
  LET flow == [b \in Blocks |-> IF b \in accepted THEN mem.flow[b] + 1 ELSE mem.flow[b]]
      objective == IF accepted = {} THEN mem.obj ELSE [at |-> flow, level |-> level]
      improved == objective.level < mem.best.level
      position == mem.pos + Planned
  IN  [flow |-> flow,
       pred |-> [b \in Blocks |-> IF b \in accepted THEN mem.pred[b] + 1 ELSE mem.pred[b]],
       obj |-> objective,
       bestFlow |-> IF improved THEN flow ELSE mem.bestFlow,
       best |-> IF improved THEN objective ELSE mem.best,
       sweep |-> IF position = NumBlocks THEN mem.sweep + 1 ELSE mem.sweep,
       pos |-> position,
       acc |-> mem.acc + Cardinality(accepted),
       rej |-> mem.rej + Planned - Cardinality(accepted),
       draws |-> mem.draws]

SolveBatch(accepted, level, fatal) ==
  /\ WithinBudgets /\ AtBatchStart
  /\ accepted \subseteq Batch
  /\ level <= mem.obj.level + Slack
  /\ accepted = {} => level = mem.obj.level
  /\ fatal => accepted # Batch
  /\ mem' = AfterBatch(accepted, level)
  /\ update' = [blocks |-> accepted,
                before |-> [b \in accepted |-> mem.flow[b]],
                updated |-> accepted # {} /\ level < mem.best.level,
                fatal |-> fatal]
  /\ committed' = FALSE
  /\ pc' = IF accepted # {} /\ config.save THEN "journal" ELSE "compact"
  /\ UNCHANGED <<config, seq, limits, status, preserved,
                 disk, outcome, reported, counters>>
--------------------------------------------------------------------------------
(* append_accepted_update and compact of the store *)

\* What journal-N.json says of the update.
Record == [blocks |-> update.blocks, before |-> update.before,
           updated |-> update.updated, meta |-> Metadata(mem)]

WriteJournal ==
  /\ pc = "journal"
  /\ journal' = Write(journal, seq + 1, Record)
  /\ pc' = "commit"
  /\ UNCHANGED <<config, mem, seq, limits, update, committed, status, preserved,
                 compact, commit, outcome, reported, counters>>

\* The marker holds the digest of the journal file as it is on disk.
WriteCommit ==
  /\ pc = "commit"
  /\ commit' = Write(commit, seq + 1, journal[seq + 1])
  /\ pc' = "ack"
  /\ UNCHANGED <<config, mem, seq, limits, update, committed, status, preserved,
                 compact, journal, outcome, reported, counters>>

\* self.journal_sequence = sequence
Acknowledge ==
  /\ pc = "ack"
  /\ seq' = seq + 1 /\ committed' = TRUE
  /\ pc' = "compact"
  /\ UNCHANGED <<config, mem, limits, update, status, preserved,
                 disk, outcome, reported, counters>>

\* Compaction is due for a finished sweep or every so many accepted updates.
CompactionDue ==
  \/ mem.pos = NumBlocks
  \/ /\ update.blocks # {}
     /\ mem.acc \div config.every
          > (mem.acc - Cardinality(update.blocks)) \div config.every

\* Not due, and compact_checkpoint_every_seconds have not passed either.
SkipCompact ==
  /\ pc = "compact" /\ ~ CompactionDue
  /\ pc' = "report"
  /\ UNCHANGED <<config, mem, seq, limits, update, committed, status, preserved,
                 disk, outcome, reported, counters>>

\* Mutant: the compact checkpoint forgets how far the journal got.
WriteCompactFromZero ==
  /\ pc = "compact" \/ (pc = "finish" /\ ~ preserved)
  /\ compact' = [seq |-> 0, state |-> mem]
  /\ pc' = "unlink"
  /\ UNCHANGED <<config, mem, seq, limits, update, committed, status, preserved,
                 journal, commit, outcome, reported, counters>>

\* _write_compact, in the loop or (pc = "finish") after it.
WriteCompact ==
  /\ pc = "compact" \/ (pc = "finish" /\ ~ preserved)
  /\ compact' = [seq |-> seq, state |-> mem]
  /\ pc' = "unlink"
  /\ UNCHANGED <<config, mem, seq, limits, update, committed, status, preserved,
                 journal, commit, outcome, reported, counters>>

Obsolete == {s \in Files \cup Markers : s <= seq}

\* Mutant: a marker without its record stays.
UnlinkRecordsOnly ==
  /\ pc = "unlink"
  /\ \E s \in Obsolete :
       /\ \A t \in Obsolete : s <= t
       /\ journal' = Unlink(journal, s)
  /\ UNCHANGED <<config, memory, compact, commit, outcome, reported, counters>>

\* One unlink of compact: files in order, the record before its marker.
UnlinkNext ==
  /\ pc = "unlink"
  /\ \E s \in Obsolete :
       /\ \A t \in Obsolete : s <= t
       /\ IF s \in Files
            THEN journal' = Unlink(journal, s) /\ UNCHANGED commit
            ELSE commit' = Unlink(commit, s) /\ UNCHANGED journal
  /\ UNCHANGED <<config, memory, compact, outcome, reported, counters>>

UnlinkDone ==
  /\ pc = "unlink" /\ status = "none" /\ Obsolete = {}
  /\ committed' = TRUE
  /\ pc' = "report"
  /\ UNCHANGED <<config, mem, seq, limits, update, status, preserved,
                 disk, outcome, reported, counters>>
--------------------------------------------------------------------------------
(* The event, the reasons to stop after a batch, and the end of run *)

Tell == reported' = IF committed /\ mem.acc > reported THEN mem.acc ELSE reported

\* The callback asks to stop, or a block of the batch failed.
StopAfterBatch ==
  /\ pc = "report"
  /\ Tell
  /\ \/ status' = "interrupted_with_approximate_solution"
     \/ update.fatal /\ status' = "numerical_failure"
  /\ pc' = "finish"
  /\ UNCHANGED <<config, mem, seq, limits, update, committed, preserved,
                 disk, outcome, counters>>

\* A finished sweep converged or used up the sweep budget.
StopAfterSweep ==
  /\ pc = "report" /\ ~ update.fatal /\ mem.pos = NumBlocks
  /\ Tell
  /\ \/ status' = "converged"
     \/ mem.sweep >= limits.sweeps /\ status' = "stopped_by_sweep_budget"
  /\ pc' = "finish"
  /\ UNCHANGED <<config, mem, seq, limits, update, committed, preserved,
                 disk, outcome, counters>>

\* The next batch, of a new schedule when the sweep is finished.
Continue ==
  /\ pc = "report" /\ ~ update.fatal
  /\ mem.pos = NumBlocks => mem.sweep < limits.sweeps
  /\ Tell
  /\ mem' = IF mem.pos = NumBlocks THEN Rollover(mem) ELSE mem
  /\ pc' = "loop"
  /\ UNCHANGED <<config, seq, limits, update, committed, status, preserved,
                 disk, outcome, counters>>

\* Mutant: a run stopped by its deadline skips the final checkpoint.
ReturnAtDeadline ==
  /\ \/ pc = "finish" /\ (preserved \/ status = "stopped_by_time_budget")
     \/ pc = "unlink" /\ status # "none" /\ Obsolete = {}
  /\ pc' = "down" /\ outcome' = "returned"
  /\ UNCHANGED <<config, mem, seq, limits, update, committed, status, preserved,
                 disk, reported, counters>>

\* run returns its result, which holds the state in memory.
Return ==
  /\ \/ pc = "finish" /\ preserved
     \/ pc = "unlink" /\ status # "none" /\ Obsolete = {}
  /\ pc' = "down" /\ outcome' = "returned"
  /\ UNCHANGED <<config, mem, seq, limits, update, committed, status, preserved,
                 disk, reported, counters>>
--------------------------------------------------------------------------------
(* The environment *)

\* KeyboardInterrupt inside the loop: handled, the run finishes in order.
Interrupt ==
  /\ interrupts < MaxInterrupts
  /\ pc \in InterruptPoints /\ status = "none"
  /\ Stop("interrupted_with_approximate_solution")
  /\ interrupts' = interrupts + 1
  /\ UNCHANGED <<preserved, crashes, invocations>>

\* The process dies (or an interrupt arrives where no handler is).
Crash ==
  /\ crashes < MaxCrashes /\ pc # "down"
  /\ Raise("crashed")
  /\ crashes' = crashes + 1
  /\ UNCHANGED <<interrupts, invocations>>

Process ==
  \/ ReplayNext \/ ReplayRejects \/ ReplayDone
  \/ StopBySweepBudget \/ StopByDeadline \/ StopByUpdateBudget
  \/ MissingBatchSize \/ StopInConstruction \/ NumericalFailure
  \/ \E accepted \in SUBSET Blocks, level \in Levels, fatal \in BOOLEAN :
        SolveBatch(accepted, level, fatal)
  \/ WriteJournal \/ WriteCommit \/ Acknowledge
  \/ SkipCompact \/ WriteCompact \/ UnlinkNext \/ UnlinkDone
  \/ StopAfterBatch \/ StopAfterSweep \/ Continue \/ Return

Next == Process \/ StartFresh \/ Resume \/ Interrupt \/ Crash

\* A running process takes its steps; nobody has to start, stop or kill it.
Spec == Init /\ [][Next]_vars /\ WF_vars(Process)
--------------------------------------------------------------------------------
IsUpdate(u) ==
  /\ u.blocks \subseteq Blocks
  /\ u.before \in [u.blocks -> Nat]
  /\ u.updated \in BOOLEAN

Metadatas == [obj : Objectives, best : Objectives, sweep : Nat,
              pos : 0 .. NumBlocks, acc : Nat, rej : Nat, draws : Nat]

MemoryTypeOK ==
  /\ pc \in {"down", "replay", "loop", "journal", "commit", "ack",
             "compact", "unlink", "report", "finish"}
  /\ mem \in State \cup {None}
  /\ pc # "down" => mem # None /\ compact # None
  /\ seq \in Nat
  /\ limits \in [sweeps : SweepBudgets \cup {0}, updates : UpdateBudgets \cup {0}]
  /\ IsUpdate(update) /\ update.fatal \in BOOLEAN
  /\ committed \in BOOLEAN /\ preserved \in BOOLEAN

DiskTypeOK ==
  /\ compact \in [seq : Nat, state : State] \cup {None}
  /\ Files \subseteq Nat /\ Markers \subseteq Nat
  /\ \A s \in Files : IsUpdate(journal[s]) /\ journal[s].meta \in Metadatas

HistoryTypeOK ==
  /\ config \in Configs
  /\ reported \in Nat
  /\ interrupts \in Nat /\ crashes \in Nat /\ invocations \in Nat

(***************************************************************************)
(* The variables have their types; a running process has a state and a     *)
(* compact checkpoint.                                                     *)
(***************************************************************************)
TypeOK == MemoryTypeOK /\ DiskTypeOK /\ HistoryTypeOK

(***************************************************************************)
(* Batches that were rejected are never journaled and a crash forgets      *)
(* them; yet in memory, in the compact checkpoint and in every journal     *)
(* record the attempts agree with sweep and position, and the number of    *)
(* schedules drawn with the sweep.  Otherwise a resumed run would miscount *)
(* its update budget or go on with the schedule of another sweep.          *)
(***************************************************************************)
Accounted(m) ==
  /\ m.acc + m.rej = m.sweep * NumBlocks + (IF m.pos = NumBlocks THEN 0 ELSE m.pos)
  /\ m.draws = IF m.pos = NumBlocks THEN m.sweep ELSE m.sweep + 1

AttemptsAccounted ==
  /\ mem # None => Accounted(mem)
  /\ compact # None => Accounted(compact.state)
  /\ \A s \in Files : Accounted(journal[s].meta)
================================================================================
