SPECIFICATION RSpec
CONSTANTS
  Arts = {a1, a2, a3, a4}
  NoArt = noart
  Deleters = {d1}
  Restorers = {}
  NoOne = noone
  MaxId = 6
  MaxLen = 4
  MaxReload = 1
  HdrBytes = 2
  PageBytes = 64
  Garbage = {5}
SYMMETRY MCSymmetry
INVARIANTS
  NowidCoversLast
CHECK_DEADLOCK FALSE
