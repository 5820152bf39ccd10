SPECIFICATION Spec
CONSTANTS
  C = 2
  R = 3
  Main = main
  RoomNames = {main, x, y}
  ChatIds = {a, b}
  NoId = noid
  NoUid = nouid
  op = op
  plain = plain
  guest = guest
  Uids = {op, plain, guest}
  Level <- MCLevel
INVARIANTS
  TypeOK
  OccupantsExact
  RoomsDistinct
  ChatIdsDistinct
SYMMETRY MCSymmetry
VIEW MCView
PROPERTIES
  InvitedOnly
  OpStaysBehind
