SPECIFICATION Spec
CONSTANTS
  r1 = r1  r2 = r2  r3 = r3
  u1 = u1  u2 = u2
  b1 = b1  b2 = b2
  w1 = w1  w2 = w2
  e1 = e1  e2 = e2
  Requests = {r1, r2, r3}
  Users = {u1, u2}
  Browsers = {b1, b2}
  UserOf <- MCUserOf
  BrowserOf <- MCBrowserOf
  Sweeps = {}
  EndHandlers = {e1}
  SessionOf <- EndsFirstOnce
  \* Two launches share an account or a browser here, so the cap lies between one
  \* and two sessions: the second grant has to be cut short.
  SessionLength = 2
  DailyCap = 3
  DayLength = 3
  OneAtATime = TRUE
  MaxTime = 3
  MaxCrashes = 0
CHECK_DEADLOCK FALSE
INVARIANT DailyBudget
INVARIANT OneActiveSession
