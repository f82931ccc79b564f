\* Two queues and two objects, three calls on the one that mixes kinds.
SPECIFICATION FairSpec
CONSTANTS
  blas = blas
  engine = engine
  Queues = {direct, compute}
  Objects <- MCObjects
  Fences <- MCFences
  Offers <- MCOffers
  Stages <- MCStages
  MaxCalls <- MCCalls
INVARIANTS
  OnlyBareTears
  FenceCoversLists
  ReturnedMeansDone
PROPERTIES
  CallsReturn
CHECK_DEADLOCK FALSE
