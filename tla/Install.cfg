CONSTANTS
  Proc = {p1, p2}
  NoProc = NoProc
  d1 = d1
  d2 = d2
  g1 = g1
  g2 = g2
  Design = {d1, d2}
  NoDesign = NoDesign
  FileOut = {bom}
  DirOut = {g1, g2}
  FabRecord = FabRecord
  Produces <- MCProduces
  MaxBuild = 3
SPECIFICATION Spec
INVARIANTS
  TypeOK
  RecordNeverAhead
  SuccessIsCoherent
  BlockedLeavesOutputs
PROPERTIES
  ImplementsArtifactSet
SYMMETRY ProcSymmetry
