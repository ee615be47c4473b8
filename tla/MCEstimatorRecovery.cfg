SPECIFICATION Spec
CONSTANTS
  None = None
  NumBlocks = 3
  MaxSweeps = 1
  Configs <- Journaled
  Schedule <- MCSchedule
  BatchSizes <- MCBatchSizes
  SweepBudgets <- UpToMaxSweeps
  UpdateBudgets <- AllUpdates
  MaxLevel = 2
  Slack = 1
  InterruptPoints <- LoopPoints
  MaxInterrupts = 1
  MaxCrashes = 2
  MaxInvocations = 3
INVARIANTS
  StateConsistent
  CheckpointLoadable
  ResultIsResumable
PROPERTIES
  ImplementsDurableProgress
  InvocationEnds
CHECK_DEADLOCK FALSE
