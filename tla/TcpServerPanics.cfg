SPECIFICATION Spec
CONSTANTS
  Servers = {s1}
  Batches = {}
  Count = 1
  Workers = {w1, w2}
  QueueCapacity = 1
  Connections = {c1, c2, c3, c4}
  Faulty = {c1, c2}
  Hanging = {}
  None = None
PROPERTIES
  ShutdownReturns
CHECK_DEADLOCK FALSE
