CONSTANTS
  NoRsp = NoRsp
  ProcessorCount = 3
  Group <- TwoGroups
  Threads = {t1, t2}
  Fallible <- AnyAllocation
SPECIFICATION Spec
SYMMETRY ThreadSymmetry
INVARIANTS HostAlive AllTogether FreedOrLeaked OnlyCaughtLost
CHECK_DEADLOCK FALSE
