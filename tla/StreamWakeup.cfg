\* Two threads wait for one event without a timeout.
SPECIFICATION FairSpec
CONSTANTS
  Threads = {t1, t2}
  Events = {e1}
  Fences = {e1}
  NoFence = none
  MaxWaits = 2
PROPERTIES
  CompletedIsNotWaitedFor
CHECK_DEADLOCK FALSE
