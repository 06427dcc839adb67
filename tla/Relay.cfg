SPECIFICATION RelaySpec
CONSTRAINT RelayBound
SYMMETRY Alike
CHECK_DEADLOCK FALSE
CONSTANTS
  r1 = r1  r2 = r2  r3 = r3  r4 = r4  r5 = r5  r6 = r6
  e1 = e1  e2 = e2  g1 = g1  u1 = u1  x1 = x1  x2 = x2
  da = da  db = db  ta = ta  tb = tb  us = us  ios = ios  watchos = watchos
  l1 = l1  l2 = l2  p1 = p1  p2 = p2  ad = ad  ae = ae
  t1 = t1  t2 = t2  t3 = t3
  v1 = v1  v2 = v2  w1 = w1  w2 = w2
  None = None
  Requests = {r1, r2, r3, r4, r5, r6}
  Installs = {i1, i2}
  Devices = {d1}
  Ips = {a1}
  KindsOf <- Roles
  Limit <- TwoPerDevice
  Window = 1
  Ttl = 1
  MaxTime = 1
  Pushes = {e1, e2, g1, u1, x1, x2}
  PushAsks <- SixAsks
  Phones = {da, db}
  DeviceTokens = {ta, tb}
  Users = {us}
  Clients = {ios, watchos}
  ClientOf <- AppOf
  Deliveries = {l1, l2}
  Leases <- TwoLeases
  Adapters = {ad, ae}
  Operations = {p1, p2}
  OperationCapacity = 1
  MaxLife = 2
  MaxHour = 2
  Verifies = {v1, v2}
  Attestations <- Attested
  Challenges <- TwoChallenges
  FreshFor = 1
  MaxChanges = 1
  Tuples = {t1, t2, t3}
  RoleOf <- TwoRoles
  CertEnds <- ChainEnds
  Responses <- Answers
  Day = 2
  CacheLife = 2
  Spacing = 1
  Timeout = 2
  MaxClock = 2
  Ids = {1, 2, 3}
  Walks = {w1, w2}
  FilterOf <- Filters
  ProofOf <- Proofs
  PageRows = 1
  MaxAge = 1
  MaxStamp = 2
INVARIANTS OneLiveToken ReportTruthful
