SPECIFICATION Spec
CONSTANTS
  Servers = {s1}
  Batches = {}
  Count = 1
  Workers = {w1, w2}
  QueueCapacity = 1
  Connections = {c1, c2, c3, c4}
  Faulty = {}
  Hanging = {c1}
  None = None
PROPERTIES
  AcceptedIsHandled
  ShutdownReturns
CHECK_DEADLOCK FALSE
