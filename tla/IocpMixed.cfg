\* The same instance: what recv_exact promises of its return.
SPECIFICATION Spec
CONSTANTS
  index = index
  chunk = chunk
  other = other
  beyond = beyond
  Requests <- MCRequests
  Serves <- MCServes
  Units = 2
  NoRequest = none
  Slots = {s1, s2}
  Index = index
  Filler = filler
  MaxCalls = 3
INVARIANTS
  ReturnsWhenLanded
CHECK_DEADLOCK FALSE
