SPECIFICATION HandlesSpec
CONSTANTS
  t1 = t1
  t2 = t2
  d1 = d1
  d2 = d2
  q1 = q1
  b1 = b1
  b2 = b2
  r1 = r1
  c1 = c1
  c2 = c2
  cpu = cpu
  Cards = {c1, c2}
  NoCard = cpu
  Threads = {t1, t2}
  Devices = {d1, d2}
  Queues = {q1}
  Buffers = {b1, b2}
  Runtimes = {r1}
  ShownLists <- MCShownLists
  Sizes <- MCSizes
  Shapes <- MCShapes
  Wrap = 4
SYMMETRY MCSymmetry
INVARIANTS
  OwnedExactly
  RunsOnWhatIsTold
  OnlyNormOverruns
