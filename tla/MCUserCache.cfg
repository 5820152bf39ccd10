SPECIFICATION FairSpec
CONSTANTS
  N = 3
  H = 1
  ann = ann
  bob = bob
  Names = {ann, bob}
  NoName = noname
  HashOf <- MCHashOf
  Searches = {r1}
  MaxReload = 1
INVARIANTS
  TypeOK
  ChainsPartition
  NamesUnique
  MissIsTrue
PROPERTIES
  SearchEnds
