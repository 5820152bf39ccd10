SPECIFICATION Spec
CONSTANTS
  Arts = {a1, a2, a3}
  NoArt = noart
  Deleters = {d1, d2}
  Restorers = {}
  NoOne = noone
  MaxId = 3
  MaxLen = 3
  MaxReload = 0
  HdrBytes = 2
  PageBytes = 64
  Garbage = {}
SYMMETRY MCSymmetry
INVARIANTS
  PreparedSize
CHECK_DEADLOCK FALSE
