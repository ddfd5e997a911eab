SPECIFICATION Spec
CONSTANTS
  Root = root
  Proc = {root, p2, p3}
  Sched = sched
  File = {f1}
  Text = {x1}
  None = None
  NCORE = 3
  NSWAP = 6
  MaxSize = 2
  MaxOpens = 1
SYMMETRY Symmetry
CHECK_DEADLOCK FALSE
INVARIANT TextCounts
