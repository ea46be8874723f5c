CONSTANTS
  f1 = f1
  f2 = f2
  r1 = r1
  r2 = r2
  n1 = n1
  n2 = n2
  File = {f1, f2}
  Row = {r1, r2}
  Name = {f1, f2, n1, n2}
  Dir = {"root", "out", "gerber_dir", "reports_dir"}
  Excluded = Excluded
  NoRow = NoRow
  None = None
  Manifests <- MCManifests
SPECIFICATION Spec
INVARIANTS
  TypeOK
  NothingExportedIsLost
  InstalledSetIsComplete
  ReviewedAnglesShip
  ArchiveIsTheInstalledSet
  RecordIsOneToOne
  InputsSurvive
CHECK_DEADLOCK FALSE
