SPECIFICATION Spec
CONSTANTS
  None = None
  Nonempty <- MCNonempty
  Selections <- Everything
  Modes <- ExactMode
  GroupBlocks <- MCGroupBlocks
  BlockSize <- MCBlockSize
  NumChunks <- MCNumChunks
  Policies <- DefaultPolicy
  MaxInterrupts = 1
  MaxFailures = 0
  MaxCrashes = 0
  MaxInvocations = 3
INVARIANTS
  InterruptResumeExact
CHECK_DEADLOCK FALSE
