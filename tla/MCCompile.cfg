CONSTANTS
  NumVars = 5
  Instances <- SmallInstances
  PartitionAbove = 1
  PartitionBelow = 4
  MaxQueries = 2
SPECIFICATION FairSpec
INVARIANTS OutputExact CacheSound
PROPERTY Termination
