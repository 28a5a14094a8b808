SPECIFICATION Spec
CONSTANTS
  Calls = {c1}
  Units = {u1, u2}
  Runtimes = {r1}
  None = None
INVARIANTS
  OkMeansAllRan
  AllOrNothing
  NothingLeftRunning
  PanicsContained
PROPERTIES
  RemoteCallReturns
