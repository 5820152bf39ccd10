SPECIFICATION Spec
CONSTANTS
  N = 3
  H = 2
  Uids <- MCUids
  HashOf <- MCHashOf
  TelnetPids = {2}
  Residue = {0, 1}
INVARIANTS
  TypeOK
  ChainsPartition
  LookupComplete
  RingLinked
  RingSorted
  NumberExact
PROPERTIES
  PoolSpec
CHECK_DEADLOCK FALSE
