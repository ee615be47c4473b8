SPECIFICATION PreparationSpec
CONSTANTS
  Nothing = Nothing
  NumShards = 4
  Workers = 2
  MaxCache = 3
  CachePolicies <- ReuseOnly
  Durabilities = {TRUE}
  MaxWorkerFailures = 0
  MaxAborts = 0
  MaxDeaths = 0
  MaxCalls = 1
INVARIANTS
  CacheBounded
CHECK_DEADLOCK FALSE
