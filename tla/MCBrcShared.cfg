SPECIFICATION Spec
CONSTANTS
  Boards <- MCOne
  Watched = {}
  M = 3
  C = 1
  FirstId <- MCTwoIds
  MaxId <- MCThreeIds
  Sessions = {t1, t2}
  Renewed <- MCOne
  Mortal = {t1, t2}
  DiskFull = TRUE
  Stamped = FALSE
SYMMETRY MCSymmetry
CONSTRAINT MCUnmixed
INVARIANTS
  ListsDescend
