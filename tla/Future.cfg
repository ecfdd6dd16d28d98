SPECIFICATION Spec
CONSTANTS
  c1 = c1
  c2 = c2
  c3 = c3
  Clients = {c1, c2, c3}
  Nobody = nobody
  None = none
  MaxCalls = 2
INVARIANTS
  FiredGetDoesNotBlock
  NobodyLeftAsleep
PROPERTIES
  KeepsFirstValue
  CallsReturn
