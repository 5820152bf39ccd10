SPECIFICATION Spec
CONSTANTS
  Arts = {a1, a2}
  NoArt = noart
  Deleters = {d1, d2}
  Restorers = {r1}
  NoOne = noone
  MaxId = 3
  MaxLen = 3
  MaxReload = 0
  HdrBytes = 2
  PageBytes = 3
  Garbage = {}
SYMMETRY MCSymmetry
INVARIANTS
  AskedOnly
  
  
CHECK_DEADLOCK FALSE
