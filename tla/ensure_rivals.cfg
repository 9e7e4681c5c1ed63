SPECIFICATION RivalsSpec
CONSTANTS
  h1 = h1
  h2 = h2
  k1 = k1
  k2 = k2
  k3 = k3
  u1 = u1
  u2 = u2
  old = old
  recent = recent
  e1 = e1
  e2 = e2
  e3 = e3
  c1 = c1
  l1 = l1
  Absent = Absent
  NoRequest = NoRequest
  Runs <- TwoRuns
  Requests = {e1, e2, c1, l1}
  Keys = {k1, k2}
  Periods = {old, recent}
  Urls = {u1, u2}
  Purpose <- PurposeOf
  Key <- KeyOf
  CanonicalBase <- BaseOf
  Window <- WindowOf
  AuditResourceID <- AuditOf
  IssuedAt <- IssuedOf
  ExpiresAt <- ExpiresOf
  Skew = 1
  MaxLifetime = 1
  MaxGuardRows = 2
  Concurrency = 2
  MaxTime = 1
  MaxRestarts = 0
  MaxForeign = 0
CONSTRAINT Served
SYMMETRY RunSymmetry
INVARIANTS
  TypeOK
  EveryPutWasProved
  VerdictsAreEarned
PROPERTIES
  OverwritesAreUnseen
