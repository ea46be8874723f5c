CONSTANTS
  NoBound = NoBound
  p1 = p1
  p2 = p2
  Path <- MCPath
  Length = {1}
  Rate = {2}
  Ambiguity = {0, 2}
  Delays = {1}
  Limits = {1}
  MaxParts = 1
  MaxDelay = 1

SPECIFICATION Spec

SYMMETRY MCPaths

INVARIANTS
  TypeOK
  PathsBracketed
  AcceptedMeetsLimits
  ViolationsAreReal
  SpreadIsTight

CHECK_DEADLOCK FALSE
