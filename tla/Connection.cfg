SPECIFICATION Spec
CONSTANTS
  Uuids <- SmallUuids
  NotAShare = 9
  MaxFrame = 34
  MaxSeconds = 3
  NanosPerSecond = 2
  None = None
  Requests <- SmallRequests
  Answers <- SmallAnswers
  Versions = {1, 2}
  Foreign <- SmallForeign
  Grants <- SmallGrants
  MaxGrants = 2
  ClientChains <- SmallChains
  Verified <- SmallVerified
  HostOf <- SmallHosts
  ServerHosts = {"host"}
  Error = Error
INVARIANTS
  ReadAsSent
  NoBorrowedIdentity
  AnsweredOwn
  NoStandoff
PROPERTIES
  WorkerFreed
CHECK_DEADLOCK FALSE
