SPECIFICATION MCSpec
CONSTANTS
  Settings = {1, 2}
  Tasks = {1, 2, 3}
  Packing <- SamePacking
  MaxShards = 3
  Workers = 2
  MaxResident = 2
  CheckpointEvery = 2
  None = None
  Torn = Torn
  NumLayers = 1
  MaxChanges = 1
  Blocks = {1, 2, 3, 4}
  MaxRetained = 2
  Bytes <- BlockBytes
  MaxBytes = 5
  CacheWorkers = 2
  NumBatches = 3
  PoolWorkers = 2
  MaxForwards = 3
  Emitters = {e1, e2}
  QueueSize = 2
  NoThread = NoThread
  NoFile = NoFile
  Releases = {1, 2}
  NumGroups = 3
  Entries <- GroupEntries
  Ceilings = {2, 4}
  PoolSizes = {1, 2}
  Garbled = Garbled
  Unopenable = Unopenable
  MaxMishaps = 1
INVARIANTS
  NothingIsRebuilt
  DeadlineLosesNothing
  OperatorIsExact
  UndisturbedSucceeds
  HeldHandlesAreUsable
  OnlyTheLatestIsRetained
  BoundaryFollowsQueue
  SupportLosesNothing
PROPERTIES
  ManifestWritesAreHonest
  ImplementsStagedBuild
  EveryAttemptEnds
  EveryProductEnds
