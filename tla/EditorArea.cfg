SPECIFICATION EdSpec
CONSTANTS
  w1 = w1
  w2 = w2
  main = main
  other = other
  Workspace = {w1, w2}
  Folder = {w1}
  Path = {main, other}
  None = None
  Kept <- OneKept
  MaxMoves = 4
  MaxSaves = 1
SYMMETRY Paths
INVARIANT SessionSaved
INVARIANT TabsStayHome
INVARIANT DirtyTold
INVARIANT OwnText
