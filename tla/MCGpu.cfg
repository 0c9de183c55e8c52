CONSTANTS
  NumCores = 2
  DataChannels = 2
  ProgramChannels = 1
  Kernels <- MCKernels
  ThreadCounts <- MCThreadCounts
  MaxThreads = 16
  StepBound = 80
  PcSpace = 256
  WordSpace = 256
  GprCount = 13
  BlockDim = 4
  StackCapacity = 4
SPECIFICATION FairSpec
INVARIANTS
  ResultIsSequential
  RequestsHeld
  NothingInFlight
PROPERTIES
  ImplementsDispatch
  LaunchCompletes
