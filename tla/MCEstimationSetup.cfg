SPECIFICATION MCSpec
CONSTANTS
  NumBlocks = 4
  Rows = {r1, r2}
  None = None
  Nonempty <- MCNonempty
  Selections <- MCSelections
  Modes <- AllModes
  GroupBlocks <- MCGroupBlocks
  BlockSize <- MCBlockSize
  NumChunks <- MCNumChunks
  Policies <- MCPolicies
  MaxInterrupts = 1
  MaxFailures = 1
  MaxCrashes = 1
  MaxInvocations = 3
  Nothing = Nothing
  NumShards = 3
  Workers = 2
  MaxCache = 4
  CachePolicies <- BothPolicies
  Durabilities = {TRUE, FALSE}
  MaxWorkerFailures = 1
  MaxAborts = 1
  MaxDeaths = 1
  MaxCalls = 2
INVARIANTS
  AdjacencyExact
  BatchesConflictFree
  NoEmptyBatch
  AgreesWithReference
  TypeOK
  CheckpointIsWhole
  CompletedIsComplete
  UnsafeBlocksMarked
  RetainedOvershootBounded
  PartialResultOnDisk
  PreparationTypeOK
  AccountingExact
  ManifestOnDisk
  PublishedInOrder
  CompletedIsPrepared
  NoThreadOutlivesInvocation
PROPERTIES
  ColoringTerminates
  ProgressKept
  NoRecomputation
  PreparationEnds
CHECK_DEADLOCK FALSE
