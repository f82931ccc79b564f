\* Two threads, two addresses, so that one is reused while the other is copied.
SPECIFICATION FairSpec
CONSTANTS
  Threads = {t1, t2}
  Handles = {h1, h2}
  Foreign = foreign
  NoThread = none
  Requests <- MCRequests
  Values = {v1, v2}
  NoValue = nothing
  MaxAllocs = 3
  MaxCopies = 2
INVARIANTS
  StatsTellTheTruth
  
  OnlyLateFailuresTear
  UploadsStay
PROPERTIES
  DownloadsBringIt
  LockIsGivenBack
CHECK_DEADLOCK FALSE
