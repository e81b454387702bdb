CONSTANTS
  s1 = s1
  s2 = s2
  s3 = s3
  b1 = b1
  b2 = b2
  g1 = g1
  g2 = g2
  old = old
  elder = elder
  addr = addr
  Addr = Addr
  other = other
  SignIns = {s1, s2, s3}
  Browsers = {b1, b2}
  People = {g1, g2}
  Legacy = {old, elder}
  Keys = {k}
  Spellings = {addr, Addr, other}
  Normal <- MCNormal
  LegacyAddress <- MCLegacyAddress
  Verified <- MCVerified
  Primary <- MCPrimary
  NoPerson = NoPerson
  NoEmail = NoEmail
  NoUser = NoUser
  Nothing = Nothing
SPECIFICATION Spec
INVARIANTS Belongs LegacyLinked NeverDeadEnds
SYMMETRY Symmetric
CHECK_DEADLOCK FALSE
