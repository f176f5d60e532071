CONSTANTS
  Rpc = {r1, r2}
  Hello = hello
SPECIFICATION FairSpec
CHECK_DEADLOCK FALSE
INVARIANTS
  TypeOK
  NothingWaitsOnTheDead
  LossIsReportedOnce
  StoppedIsStopped
PROPERTIES
  StartSettles
  KillDisconnects
