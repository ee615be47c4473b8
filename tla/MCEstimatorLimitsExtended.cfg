SPECIFICATION Spec
CONSTANTS
  None = None
  NumBlocks = 3
  MaxSweeps = 1
  Configs <- Interleaved
  Schedule <- MCSchedule
  BatchSizes <- MCBatchSizes
  SweepBudgets <- UpToMaxSweeps
  UpdateBudgets <- OneOrAllUpdates
  MaxLevel = 1
  Slack = 1
  InterruptPoints <- AckPoint
  MaxInterrupts = 0
  MaxCrashes = 0
  MaxInvocations = 2
INVARIANTS
  LimitsMayBeExtended
CHECK_DEADLOCK FALSE
