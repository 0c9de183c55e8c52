CONSTANTS
  WordSpace = 8
  MaxRounds = 16
  PcSpace = 64
  GprCount = 5
  LengthSpace = 64
  BlockDim = 4
  Sources <- AllSources
  Inputs <- SomeInputs
  Threads <- OneThread
SPECIFICATION FairSpec
INVARIANTS
  ParsedAsWritten
  RegistersBalanced
  MeansTheSame
  EveryBranchJoins
PROPERTIES
  Returns
CHECK_DEADLOCK FALSE
