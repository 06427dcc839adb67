SPECIFICATION SurfaceSpec
CONSTRAINT SurfaceBound
SYMMETRY Alike
CHECK_DEADLOCK FALSE
CONSTANTS
  a1 = a1  a2 = a2  b1 = b1  b2 = b2  w1 = w1  r1 = r1  d1 = d1  d2 = d2  d3 = d3
  t1 = t1  o1 = o1  o2 = o2  o3 = o3  i1 = i1  i2 = i2
  None = None
  p1 = p1  p2 = p2  au1 = au1  au2 = au2  e1 = e1  e2 = e2  f1 = f1  g1 = g1  dl1 = dl1  dl2 = dl2
  n1 = n1  n2 = n2  j1 = j1  j2 = j2  k1 = k1  x1 = x1  x2 = x2  x3 = x3  x4 = x4
  Calls = {a1, a2, b1, b2, w1, r1, d1, d2, d3}
  KindsOf <- Asks
  Targets = {t1}
  Ops = {o1, o2, o3}
  IssueOps = {i1, i2}
  MaxRevision = 2
  Expiries = {2}
  Deadline <- Deadlines
  ChallengeLife = 1
  GrantExpiry = 2
  MaxOperations = 3
  MaxEvents = 1
  MaxChallenges = 2
  MaxTime = 2
  Requests <- Calling
  AsksOf <- Asked
  Operators <- Operating
  Auths <- Authorizing
  Intents <- Enrolling
  IntentOf <- Grants
  LedgerOps <- Recorded
  Delegations <- Delegated
  MaxClock = 2
  Journals <- Owners
  Jobs <- Proved
  ScopeOf <- SameScope
  Nonces <- Drawn
  Keys <- Attesting
  Retirements <- Retiring
  Claims <- Claiming
  MaxCounter = 2
INVARIANTS EventAccount OneDescent SingleUse OneStory
PROPERTIES SettledStays RevocationHolds CounterPerVerification
