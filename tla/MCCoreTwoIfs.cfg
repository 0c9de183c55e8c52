CONSTANTS
  Jobs <- TwoIfsJobs
  PcSpace = 64
  WordSpace = 16
  GprCount = 13
  BlockDim = 2
  StackCapacity = 4
  ThreadCount = 2
  DataChannels = 2
  StepBound = 30
SPECIFICATION Spec
INVARIANT
  DoneMeansAllReturned
