SPECIFICATION BuildSpec
CONSTANTS
  Settings = {1, 2}
  Tasks = {1, 2, 3}
  Packing <- OtherPacking
  MaxShards = 3
  Workers = 2
  MaxResident = 2
  CheckpointEvery = 2
  None = None
  Torn = Torn
  NumLayers = 1
  MaxChanges = 1
INVARIANT OperatorIsExact
