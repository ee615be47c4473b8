SPECIFICATION Spec
CONSTANTS
  None = None
  NumBlocks = 3
  MaxSweeps = 1
  Configs <- Default
  Schedule <- MCSchedule
  BatchSizes <- MCBatchSizes
  SweepBudgets <- UpToMaxSweeps
  UpdateBudgets <- AllUpdates
  MaxLevel = 1
  Slack = 1
  InterruptPoints <- AckPoint
  MaxInterrupts = 1
  MaxCrashes = 0
  MaxInvocations = 2
INVARIANTS
  CheckpointLoadable
CHECK_DEADLOCK FALSE
