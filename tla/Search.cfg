SPECIFICATION Spec
CONSTANTS
  Workspace = {w1, w2}
  Known = {w1}
  Versions = {0, 1, 2}
  Nothing = Nothing
  Queries = {"", "q"}
  MaxMoves = 4
INVARIANT StatusTrue
INVARIANT NewerWins
PROPERTY BusyEnds
CHECK_DEADLOCK FALSE
