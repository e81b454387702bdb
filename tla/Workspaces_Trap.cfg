SPECIFICATION TrapSpec
CONSTANTS
  w1 = w1
  w2 = w2
  Workspace = {w1, w2}
  Folder = {w1}
  Path = {p}
  None = None
  Kept <- FolderLast
  MaxMoves = 2
PROPERTY ErrorIsLeft
CHECK_DEADLOCK FALSE
