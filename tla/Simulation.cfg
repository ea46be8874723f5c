CONSTANTS
  None = None
  NoBound = NoBound
  ViaOhms = {0, 2}
  Ohms = {1, 2, 4}
  Rail = 12
  Boards <- MCBoards
  Declarations <- MCDeclarations
  Engines = {"binary", "shared", "none"}
  MaxEdits = 1
SPECIFICATION Spec
INVARIANTS
  PassedAssertionsHold
  PassingStagesWereProven
CHECK_DEADLOCK FALSE
