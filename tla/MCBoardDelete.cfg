SPECIFICATION Spec
CONSTANTS
  Arts = {a1, a2, a3, a4}
  NoArt = noart
  Deleters = {d1, d2}
  Restorers = {}
  NoOne = noone
  MaxId = 4
  MaxLen = 4
  MaxReload = 0
  HdrBytes = 2
  PageBytes = 3
  Garbage = {}
SYMMETRY MCSymmetry
INVARIANTS
  TypeOK
  AskedOnly
  EntryHasFile
  ListedOnce
  Ordered
CHECK_DEADLOCK FALSE
