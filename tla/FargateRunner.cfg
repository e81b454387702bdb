SPECIFICATION Spec
CONSTANTS
  \* a second and a half
  RunTimeout = 3
  Second = 2
  ColdStart = 2
INVARIANT OutputKept
INVARIANT TimeoutEarned
INVARIANT NothingStored
PROPERTY Answered
PROPERTY TaskEnds
CHECK_DEADLOCK FALSE
