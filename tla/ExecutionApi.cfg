SPECIFICATION Spec
CONSTANTS
  a1 = a1  a2 = a2  i1 = i1
  ApiRequests = {a1, a2}
  IdeRequests = {i1}
  DailyCap = 1
  MonthlyCap = 2
  DayLength = 1
  MonthLength = 2
  RateLimit = 1
  Window = 2
  MaxTime = 2
  MaxCalls = 2
  MaxIdeRows = 1
SYMMETRY Swaps
CHECK_DEADLOCK FALSE
INVARIANT OverrunBounded
INVARIANT RefusedOnlyAtCap
INVARIANT RateBound
