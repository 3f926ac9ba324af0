CONSTANTS
  Contexts = {"list", "other", "track"}
  Singles = {"track"}
  Station <- MCStation
  None = None
  Hints <- MCHints
  Size = 2
  NearEnd = 0
  w1 = w1
  w2 = w2
  Workers = {w1, w2}
  MaxCommands = 3
SYMMETRY WorkerSymmetry
SPECIFICATION Spec
INVARIANTS TypeOK FlagsCovered OneStart SkipInContext
CHECK_DEADLOCK FALSE
