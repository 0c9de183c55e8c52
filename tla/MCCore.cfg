CONSTANTS
  Jobs <- SoundJobs
  PcSpace = 64
  WordSpace = 16
  GprCount = 13
  BlockDim = 4
  StackCapacity = 4
  ThreadCount = 6
  DataChannels = 2
  StepBound = 40
SPECIFICATION FairSpec
INVARIANTS
  StoresAreSequential
  BlocksComplete
  ThreadGroups
  DoneMeansAllReturned
PROPERTIES
  EveryThreadDecodes
  AllBlocksFinish
