CONSTANTS
  Writer = {p1, p2}
  Checker = {p3}
  NoProc = NoProc
  d1 = d1
  d2 = d2
  Design = {d1, d2}
  Absent = Absent
  Unavailable = Unavailable
  Gates <- MCGates
  Boards <- MCBoards
  MaxChange = 3
SPECIFICATION Spec
INVARIANTS
  TypeOK
  ReadyMeansReleasable
  VerdictSound
SYMMETRY WriterSymmetry
