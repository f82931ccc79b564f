\* Two slots, two ordinary tensors and one too large for a single request.
SPECIFICATION FairSpec
CONSTANTS
  small = small
  big = big
  third = third
  huge = huge
  raw = raw
  zero = zero
  Tensors <- MCTensors
  Bytes <- MCBytes
  Buffers <- MCBuffers
  Fences <- MCFences
  RawBuffer = raw
  Zeroed = zero
  Oversized = {huge}
  StatusCapacity = 2
  SlotCount = 2
  Wrap = 64
  MaxTick = 4
  MaxReads = 3
INVARIANTS
  StatsAddUp
  OneReadPerSlot
  FenceMeansArrived
  DoneMeansRead
PROPERTIES
  KeepsSlotPromise
  CallsReturn
CHECK_DEADLOCK FALSE
