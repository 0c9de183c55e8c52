CONSTANTS
  Callers = {p, q}
  Addresses = {a1, a2}
  NoAddress = none
  Guests <- AllGuests
SPECIFICATION HostSpec
INVARIANT
  WaitsForExecution
