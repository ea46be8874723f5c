CONSTANTS
  t1 = t1
  t2 = t2
  t3 = t3
  NoTest = NoTest
  DoneMark = DoneMark
  Worker = {w1, w2}
  Tests <- MCTests
  Scripts <- MCScripts
SPECIFICATION FairSpec
INVARIANTS
  TypeOK
  OkMeansAllRan
  FinishedMeansDelivered
  NothingLeftUnread
PROPERTIES
  RunEnds
CHECK_DEADLOCK FALSE
