SPECIFICATION Spec
CONSTANTS
  Threads = {t1, t2, t3}
  p1 = p1
  p2 = p2
  Participants = {p1, p2}
  Plans <- SplitPlans
  Runtimes = {r1}
  BadRuntime = rbad
  None = None
  CallTimes = {0, 1}
  Durations = {0, 1}
  Clock = {1, 2}
  MaxNodes = 1
  MaxVms = 1
  MaxLeases = 2
INVARIANTS
  DestroyReleasesAll
  DestroyedNodeGone
PROPERTIES
  ReleasedForever
  DestroyCompletes
CHECK_DEADLOCK FALSE
