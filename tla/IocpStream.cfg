\* Three calls, bodies of two pieces (so that a receive can be partial).
SPECIFICATION FairSpec
CONSTANTS
  index = index
  chunk = chunk
  other = other
  beyond = beyond
  Requests <- MCRequests
  Serves <- MCServes
  Units = 2
  NoRequest = none
  Slots = {s1, s2}
  Index = index
  Filler = filler
  MaxCalls = 3
INVARIANTS
  OnlyMixedDerails
  DeliveredInSlot
PROPERTIES
  FetchesKeepStaging
  FetchReturns
CHECK_DEADLOCK FALSE
