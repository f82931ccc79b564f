SPECIFICATION Spec
CONSTANTS
  t1 = t1
  t2 = t2
  fCopy = fCopy
  fDirect = fDirect
  fCompute = fCompute
  NoFence = NoFence
  Threads = {t1, t2}
  Fences = {fCopy, fDirect, fCompute}
  Queues = {"copy", "direct", "compute"}
  Objects = {"streamer", "work"}
  MaxValue = 3
  Chunks = {"small", "large", "layer"}
  Registered = {"small", "large"}
  Size <- MCSize
  Place <- MCPlace
  copyQueue = "copy"
  copyFence = fCopy
  Streamer = "streamer"
  MaxStreams = 3
  MaxOverlapped = 2
  WorkFence <- MCWorkFence
  Work = "work"
  MaxDevices = 3
INVARIANTS
  OnlyFirstChunkIsSummed
  
PROPERTIES
  WaitAllMeansDone
  CallsReturn
CHECK_DEADLOCK FALSE
