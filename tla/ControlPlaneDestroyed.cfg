SPECIFICATION Spec
CONSTANTS
  Threads = {t1, t2}
  p1 = p1
  p2 = p2
  Participants = {p1, p2}
  Plans <- SinglePlans
  Runtimes = {r1}
  BadRuntime = rbad
  None = None
  CallTimes = {0, 1}
  Durations = {0, 1}
  Clock = {1, 2}
  MaxNodes = 1
  MaxVms = 1
  MaxLeases = 2
INVARIANTS
  DestroyedIsGone
CHECK_DEADLOCK FALSE
