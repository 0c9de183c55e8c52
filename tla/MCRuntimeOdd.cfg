CONSTANTS
  ProgramMemory = 4
  DataMemory = 8
  Counts = 4
  Words = 16
  KernelSizes = {0, 1, 3, 9}
  Sizes = {0, 2, 3}
  Alignments = {1, 2, 3, 4}
  Files = {0, 3, 4, 6}
  ThreadCounts = {0, 3, 4}
  RawRequests <- RawSubmits
  MaxRegions = 2
SPECIFICATION Spec
INVARIANT
  RunsWholeInstructions
