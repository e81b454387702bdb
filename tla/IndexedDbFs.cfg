SPECIFICATION FsSpec
CONSTANTS
  c1 = c1  c2 = c2  a = a  b = b  x = x  y = y
  Calls = {c1, c2}
  Top = {a, b}
  Below = {x, y}
  Matches = {0, 1}
  Kinds = {"write", "mkdir", "delete", "move"}
SYMMETRY Renamings
CHECK_DEADLOCK FALSE
INVARIANT FilesHaveBytes
INVARIANT TreeKept
INVARIANT MoveNeverLoses
INVARIANT CopyComplete
