CONSTANTS
  b1 = b1  b2 = b2  b3 = b3
  Proc = {p1, p2}
  Buf = {x1, x2}
  Blk = {b1, b2, b3}
  Data = {d1, d2}
  None = None
  FreeList = FreeList
  Tasks <- FileTasks
  MaxErrors = 0
SYMMETRY Symmetric
SPECIFICATION Spec
INVARIANTS OneBufferPerBlock CleanMatchesDisk BwriteDurable
PROPERTIES ImplementsBlockStore
