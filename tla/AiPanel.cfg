SPECIFICATION Spec
CONSTANTS
  Collapsed = 32
  ExpandedMin = 120
  Default = 260
  Heights = {32, 60, 300}
  Nothing = Nothing
  MaxMoves = 5
  MaxAiMoves = 4
  MaxText = 2
  MaxUnread = 1
INVARIANT MaximizedShown
INVARIANT CollapseRemembers
INVARIANT OutputWithin
INVARIANT StopReaches
INVARIANT StoreShown
PROPERTY Prompted
CHECK_DEADLOCK FALSE
