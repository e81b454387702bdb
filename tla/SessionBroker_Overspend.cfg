SPECIFICATION Spec
CONSTANTS
  r1 = r1  r2 = r2  r3 = r3
  u1 = u1  u2 = u2
  b1 = b1  b2 = b2
  w1 = w1  w2 = w2
  e1 = e1  e2 = e2
  Requests = {r1, r2, r3}
  Users = {u1, u2}
  Browsers = {b1, b2}
  UserOf <- TabsUserOf
  BrowserOf <- TabsBrowserOf
  Sweeps = {}
  EndHandlers = {}
  SessionOf <- EndsNone
  SessionLength = 1  \* 15 minutes
  DailyCap = 2       \* 30 minutes
  DayLength = 4
  OneAtATime = FALSE
  MaxTime = 1
  MaxCrashes = 0
CHECK_DEADLOCK FALSE
INVARIANT DailyBudget
