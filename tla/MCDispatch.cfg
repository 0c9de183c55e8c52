CONSTANTS
  NumCores = 3
  ThreadsPerBlock = 2
  MaxThreads = 9
  ThreadCounts <- MCThreadCounts
SPECIFICATION FairSpec
INVARIANTS
  TypeOK
  Handshake
  ExactlyOnce
  CompletionIsTotal
PROPERTIES
  ImplementsKernelLaunch
  LaunchCompletes
