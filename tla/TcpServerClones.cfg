SPECIFICATION Spec
CONSTANTS
  Servers = {s1, s2}
  Batches = {}
  Count = 1
  Workers = {w1, w2}
  QueueCapacity = 1
  Connections = {c1}
  Faulty = {}
  Hanging = {}
  None = None
PROPERTIES
  ShutdownReturns
CHECK_DEADLOCK FALSE
