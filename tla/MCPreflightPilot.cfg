SPECIFICATION Spec
CONSTANTS
  None = None
  Nonempty <- MCNonempty
  Selections <- Everything
  Modes <- ExactMode
  GroupBlocks <- MCGroupBlocks
  BlockSize <- MCBlockSize
  NumChunks <- MCNumChunks
  Policies <- DefaultPolicy
  MaxInterrupts = 1
  MaxFailures = 1
  MaxCrashes = 1
  MaxInvocations = 3
INVARIANTS
  AuthorizedIsComplete
CHECK_DEADLOCK FALSE
