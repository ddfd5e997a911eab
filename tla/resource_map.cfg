CONSTANTS
  Units = 11
  Hole = {4, 5}
SPECIFICATION Spec
INVARIANTS MapOK UnitsOnce Fragments
