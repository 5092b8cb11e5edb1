CONSTANTS
  NoRsp = NoRsp
  ProcessorCount = 3
  Group <- TwoGroups
  Threads = {t1}
  Fallible <- AnyAllocation
SPECIFICATION FairSpec
PROPERTY BroadcastsEnd
CHECK_DEADLOCK FALSE
