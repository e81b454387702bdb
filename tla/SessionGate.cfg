SPECIFICATION Spec
CONSTANTS
  v1 = v1  v2 = v2  v3 = v3
  t1 = t1  t2 = t2
  alice = alice  bob = bob
  s1 = s1  old = old
  Nobody = Nobody
  Visits = {v1, v2, v3}
  Tokens = {t1, t2}
  Accounts = {alice, bob}
  Sessions = {s1, old}
  AccountOf <- MCAccountOf
  OwnerOf <- MCOwnerOf
  TokenOf <- MCTokenOf
  TargetOf <- MCTargetOf
  CacheTTL = 2
  MaxEntries = 1
  MaxLatency = 1
  MaxTime = 4
CHECK_DEADLOCK FALSE
INVARIANT OwnersOnly
INVARIANT CacheBounded
PROPERTY SignOutReaches
