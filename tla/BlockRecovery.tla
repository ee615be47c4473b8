----------------------------- MODULE BlockRecovery -----------------------------
(***************************************************************************)
(* What a restart of the block-coordinate estimator would find at any      *)
(* moment (BlockCheckpointStore.load), and the properties that relate it   *)
(* to the estimator's memory and to what its callers were told.            *)
(***************************************************************************)
EXTENDS BlockEstimator, FiniteSetsExt, Functions

\* Last journal file of the unbroken committed run after the compact one.
LastReplayable ==
  Max({compact.seq} \cup
      {s \in Files : s > compact.seq /\ \A t \in compact.seq + 1 .. s : Committed(t)})

\* The states that load passes through: after the compact checkpoint c, and after
\* each journal record up to the last; None once it raised.
Replays(c, records, markers, last) ==
  LET after[s \in c.seq .. last] ==
        IF s = c.seq THEN c.state
        ELSE IF after[s - 1] = None THEN None
        ELSE IF markers[s] # records[s] \/ ~ Fits(after[s - 1], records[s]) THEN None
        ELSE Replayed(after[s - 1], records[s])
  IN  after

\* The state load returns, None when it raises; there is a compact checkpoint.
Loaded == Replays(compact, journal, commit, LastReplayable)[LastReplayable]

Readable == compact # None /\ Loaded # None

\* Every state somebody may go on from: the one in memory and the one on disk.
States == {m \in {mem} \cup (IF compact = None THEN {} ELSE {Loaded}) : m # None}
--------------------------------------------------------------------------------
(***************************************************************************)
(* The parts of a state belong together, in memory and after recovery: the *)
(* prediction is that of the flow, the objective that of the prediction,   *)
(* the best objective that of the best flow and not above the current one, *)
(* and every accepted update is in the flow.  load rebuilds flow and best  *)
(* flow from the journal but takes the rest from its metadata.             *)
(***************************************************************************)
Consistent(m) ==
  /\ m.pred = m.flow
  /\ m.obj.at = m.flow
  /\ m.best.at = m.bestFlow
  /\ m.best.level <= m.obj.level
  /\ m.acc = SumFunction(m.flow)

StateConsistent == \A m \in States : Consistent(m)

(***************************************************************************)
(* No block is updated twice in one sweep, however often the sweep was     *)
(* interrupted, lost and resumed.                                          *)
(***************************************************************************)
NoneTwice(order, m) ==
  LET visited == {Schedule[order][m.draws][p] : p \in 1 .. m.pos}
  IN  \A b \in Blocks :
        m.flow[b] <= m.sweep + (IF m.pos < NumBlocks /\ b \in visited THEN 1 ELSE 0)

OncePerSweep == \A m \in States : NoneTwice(config.order, m)

(***************************************************************************)
(* A directory that holds a compact checkpoint can always be loaded, at    *)
(* whatever step its last process ended.                                   *)
(***************************************************************************)
CheckpointLoadable == compact # None => Loaded # None

(***************************************************************************)
(* After run returned, resume=True starts from the very state it returned, *)
(* unless the result says that the checkpoint was left as it was.          *)
(***************************************************************************)
ResultIsResumable ==
  pc = "down" /\ outcome = "returned" /\ ~ preserved => Loaded = mem

(***************************************************************************)
(* The estimator implements DurableProgress: the disk never goes back,     *)
(* each atomic file replacement saves all of the memory or nothing, and    *)
(* what an event announced as committed survives every crash.              *)
(***************************************************************************)
Running == pc \notin {"down", "replay"}
Work == IF Running THEN mem.acc ELSE 0
Saved == IF Readable THEN Loaded.acc ELSE 0

Durable == INSTANCE DurableProgress WITH
  working <- Running, work <- Work, saved <- Saved, told <- reported

ImplementsDurableProgress == Durable!Spec

(***************************************************************************)
(* Every invocation ends: budgets and finite sweeps leave no endless loop, *)
(* replay and clean-up included.                                           *)
(***************************************************************************)
InvocationEnds == (pc # "down") ~> (pc = "down")
--------------------------------------------------------------------------------
(***************************************************************************)
(* bounded_block_coordinate_pilots.md: update, elapsed-time and sweep      *)
(* limits may be extended on resume.  A resumed run whose limits are not   *)
(* used up finds a batch at its schedule position.                         *)
(***************************************************************************)
LimitsMayBeExtended == WithinBudgets => AtBatchStart

(***************************************************************************)
(* bounded_block_coordinate_pilots.md: when the deadline passes during     *)
(* construction the checkpoint from before the pending block is preserved  *)
(* and a fresh-process resume retries that same block.                     *)
(***************************************************************************)
PendingBlockRetried ==
  pc = "down" /\ outcome = "returned" /\ preserved =>
    /\ Loaded.sweep = mem.sweep
    /\ Loaded.pos % NumBlocks = mem.pos
================================================================================
