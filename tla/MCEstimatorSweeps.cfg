SPECIFICATION Spec
CONSTANTS
  None = None
  NumBlocks = 3
  MaxSweeps = 2
  Configs <- Mixed
  Schedule <- MCSchedule
  BatchSizes <- MCBatchSizes
  SweepBudgets <- OnlyMaxSweeps
  UpdateBudgets <- OneOrAllUpdates
  MaxLevel = 1
  Slack = 1
  InterruptPoints <- AckPoint
  MaxInterrupts = 1
  MaxCrashes = 1
  MaxInvocations = 3
INVARIANTS
  TypeOK
  AttemptsAccounted
  OncePerSweep
CHECK_DEADLOCK FALSE
