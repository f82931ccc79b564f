\* Two threads and two events; four waits, so that a wait can time out and
\* the event be waited for again.
SPECIFICATION FairSpec
CONSTANTS
  Threads = {t1, t2}
  Events = {e1, e2}
  Fences = {e1, e2}
  NoFence = none
  MaxWaits = 4
INVARIANTS
  RecordOrder
PROPERTIES
  WaitsEnd
CHECK_DEADLOCK FALSE
