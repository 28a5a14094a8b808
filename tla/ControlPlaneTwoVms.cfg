SPECIFICATION Spec
CONSTANTS
  Threads = {t1, t2}
  p1 = p1
  p2 = p2
  Participants = {p1, p2}
  Plans <- SinglePlans
  Runtimes = {r1}
  BadRuntime = rbad
  None = None
  CallTimes = {0, 1}
  Durations = {0, 1}
  Clock = {1, 2}
  MaxNodes = 2
  MaxVms = 2
  MaxLeases = 2
INVARIANTS
  LeasedVmBacked
  LiveLeasesStored
  NoSharedLease
SYMMETRY ThreadSymmetry
CHECK_DEADLOCK FALSE
