CONSTANTS
  t1 = t1
  t2 = t2
  t3 = t3
  p1 = p1
  p2 = p2
  NoItem = NoItem
  Garbage = Garbage
  Threads = {t1, t2, t3}
  Items = {a}
  MaxSize = 1
  CallerIrql <- ThreeCallerIrql
  Processor <- ThreeProcessor
SPECIFICATION FairSpec
PROPERTY LockReleased
