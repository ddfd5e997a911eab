CONSTANTS
  Proc = {p1, p2}
  Su = {}
  Slot = {s1, s2}
  Blk = {b1, b2, b3}
  Name = {f1, f2}
  None = None
  NINO = 2
  NADDR = 1
  NICFREE = 2
  NICINOD = 1
  FreeAtStart = {1, 3}
  Calls = {"open", "creat", "unlink", "write", "close", "sync"}
SYMMETRY Symmetric
SPECIFICATION Spec
INVARIANTS BlocksOnce LinksCounted CountsOK OpenAlive FreshInode NoDeadlyEmbrace
