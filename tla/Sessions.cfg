SPECIFICATION SessionsSpec
CONSTANTS
  t1 = t1
  t2 = t2
  t3 = t3
  s1 = s1
  s2 = s2
  Operators = {"add", "mul"}
  Wanted <- MCWanted
  MaxNodes = 3
  NodeDeps <- MCNodeDeps
  MaxCommands = 4
  MaxRecorded = 6
  Tracers = {t1, t2, t3}
  Spans = {s1, s2}
  Paths = {"p"}
  MaxEvents = 2
  MaxTime = 2
  w1 = w1
  w2 = w2
  l1 = l1
  l2 = l2
  Loggers = {l1, l2}
  Writers = {w1, w2}
  Modes = {"trace", "perf"}
  Values = {"off", "1"}
  MaxSecond = 1
  MaxLogs = 3
  Specs = {"wave32", "wave64"}
  Signatures = {"foreign"}
  Contexts = {"first", "second"}
  Payloads = {"weights"}
  None = None
SYMMETRY MCSymmetry
INVARIANTS
  PlansAreRunnable
  OnlyThrowsRepeat
  OneEndCounts
  OnlyOverlapsSpoilFiles
  OnlySharingTearsLogs
  
  OnlyOldAnswersMislog
CHECK_DEADLOCK FALSE
