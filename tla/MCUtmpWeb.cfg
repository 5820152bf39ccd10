SPECIFICATION FairSpec
CONSTANTS
  N = 2
  H = 1
  Uids = {1}
  HashOf <- MCHashOf
  TelnetPids = {2, 3}
  Residue = {0, 1}
  UserOf <- MCUserOf
  Web = {w1}
  WebUser <- MCWebUser
  Kickers = {2}
  Group <- MCGroup
  MaxKick = 2
  Signals = {"hup"}
  Backlog = 1
  Nobody = Nobody
  w1 = w1
INVARIANTS
  OnlineListed
  PidZeroUnanswered
PROPERTIES
  Answered
  KickEnds
CHECK_DEADLOCK FALSE
