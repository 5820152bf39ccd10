SPECIFICATION SSpec
CONSTANTS
  N = 2
  H = 1
  Uids <- MCUids
  HashOf <- MCHashOf
  TelnetPids = {2, 3, 4}
  Residue = {0}
  UserOf <- MCUserOf
  Web = {}
  WebUser <- MCWebUser
  Kickers = {2}
  Group <- MCGroup
  MaxKick = 2
  Signals = {"hup", "kill"}
  Backlog = 1
  Nobody = Nobody
  w1 = w1
INVARIANTS
  STypeOK
  OnlineListed
  Reclaimable
PROPERTIES
  TableSpec
CHECK_DEADLOCK FALSE
