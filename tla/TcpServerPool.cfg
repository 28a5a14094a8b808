SPECIFICATION Spec
CONSTANTS
  Servers = {s1}
  Batches = {b1}
  Count = 2
  Workers = {w1, w2}
  QueueCapacity = 1
  Connections = {c1, c2, c3, c4, c5}
  Faulty = {c1}
  Hanging = {}
  None = None
INVARIANTS
  TypeOK
  OkMeansHandled
  OneMoreAtMost
  PendingBounded
SYMMETRY PoolSymmetry
CHECK_DEADLOCK FALSE
