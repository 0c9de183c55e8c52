CONSTANTS
  NumConsumers = 3
  NumChannels = 2
  WriteEnable = TRUE
  Addresses <- SmallAddresses
  Data <- SmallData
SPECIFICATION FairSpec
INVARIANTS
  TypeOK
  ServesItsConsumer
  Exclusive
PROPERTIES
  HighPriorityServed
  ImplementsMemoryPort
