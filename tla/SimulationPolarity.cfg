CONSTANTS
  None = None
  NoBound = NoBound
  ViaOhms = {0, 2}
  Ohms = {1, 2, 4}
  Rail = 12
  Boards <- MCBoards
  Declarations <- MCDeclarations
  Engines = {"binary"}
  MaxEdits = 0
SPECIFICATION Spec
INVARIANTS
  DerivedBoundsHold
CHECK_DEADLOCK FALSE
