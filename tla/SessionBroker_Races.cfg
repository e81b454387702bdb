SPECIFICATION FairSpec
CONSTANTS
  r1 = r1  r2 = r2  r3 = r3
  u1 = u1  u2 = u2
  b1 = b1  b2 = b2
  w1 = w1  w2 = w2
  e1 = e1  e2 = e2
  Requests = {r1}
  Users = {u1, u2}
  Browsers = {b1, b2}
  UserOf <- OneUserOf
  BrowserOf <- OneBrowserOf
  Sweeps = {w1, w2}
  EndHandlers = {e1, e2}
  SessionOf <- EndsFirst
  SessionLength = 1
  DailyCap = 2
  DayLength = 4
  OneAtATime = FALSE
  MaxTime = 2
  MaxCrashes = 1
CHECK_DEADLOCK FALSE
INVARIANT TypeOK
INVARIANT StoppedMeansGone
INVARIANT LeaksOnlyByFault
INVARIANT ChargeCoversUse
PROPERTY ImplementsLease
PROPERTY ExpiredIsStopped
PROPERTY LaunchesAnswered
