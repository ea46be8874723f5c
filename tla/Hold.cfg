CONSTANTS
  Proc = {p1, p2, p3}
  Inode = {i1, i2, i3}
  NoProc = NoProc
  NoInode = NoInode
  MaxTries = 2
SPECIFICATION FairSpec
INVARIANTS
  TypeOK
  MutualExclusion
PROPERTIES
  NeverStripsAnothersFile
  RefusedOnlyByTheLiving
  ClaimSettles
  ImplementsExclusion
CHECK_DEADLOCK FALSE
