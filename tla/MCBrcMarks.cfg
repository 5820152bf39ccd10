SPECIFICATION Spec
CONSTANTS
  Boards <- MCThree
  Watched <- MCThree
  M = 3
  C = 2
  FirstId <- MCFirst
  MaxId <- MCMax
  Sessions = {t1}
  Renewed = {}
  Mortal = {}
  DiskFull = FALSE
  Stamped = TRUE
INVARIANTS
  TypeOK
  ReadStaysRead
  UnreadStaysUnread
