CONSTANTS
  Callers = {p, q}
  Addresses = {a1, a2}
  NoAddress = none
  Guests <- AllGuests
SPECIFICATION HostSpec
INVARIANTS
  TypeOK
  BusyMeansArmed
  OwnOutput
  FailuresAreReal
  WaitsForExecutionUniprocessor
  NothingLeaks
  HeldWhileUsed
PROPERTIES
  CallsReturn
