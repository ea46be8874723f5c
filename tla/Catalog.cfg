CONSTANTS
  imp1 = imp1  imp2 = imp2  imp3 = imp3
  cap1 = cap1  cap2 = cap2  cap3 = cap3  cap4 = cap4  cap5 = cap5
  cop1 = cop1  cop2 = cop2  cal1 = cal1  cal2 = cal2
  thk1 = thk1  thk2 = thk2
  None = None
  Bad = Bad
  Absent = Absent
  Torn = Torn
  Text <- MCText
  Minimum <- MCMinimum
  Tolerance = 200
  MostLayers = 32
  Pages <- MCPages
  Starts <- MCStarts
  Requests <- MCRequests
  Lines <- MCLines
  Forms <- MCForms
  Widest = 6
  Grid = 30
  Limit <- MCLimit
  MaxFail = 1
SPECIFICATION Spec
INVARIANTS
  TypeOK
  ChosenFromProvenPages
  NoChangeMeansSameChoices
  FeasibleIsStated
  ExportDescribesTheBoard
  RootsAreTheSolutions
  UsableLineIsBuildable
