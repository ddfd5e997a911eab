CONSTANTS
  b1 = b1  b2 = b2  b3 = b3
  Proc = {p1, p2}
  Buf = {x1, x2}
  Blk = {b1, b2}
  Data = {d1}
  None = None
  FreeList = FreeList
  Tasks <- HolderTasks
  MaxErrors = 1
SPECIFICATION FairSpec
INVARIANTS BuffersOnce NoLostWakeup NoDeadlyEmbrace
PROPERTIES EveryTaskEnds
