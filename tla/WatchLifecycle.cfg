SPECIFICATION LifecycleSpec
CONSTRAINT LifecycleBound
SYMMETRY Symmetry
CHECK_DEADLOCK FALSE
CONSTANTS
  r1 = r1  r2 = r2  r3 = r3  s1 = s1  s2 = s2  s3 = s3  q1 = q1  q2 = q2  a1 = a1  a2 = a2
  o1 = o1  o2 = o2  o3 = o3  g1 = g1  x1 = x1  i1 = i1  i2 = i2  i3 = i3  key1 = key1  key2 = key2
  None = None
  Requests = {r1, r2, r3}
  Intents <- AllIntents
  Senders = {s1, s2, s3}
  Attempts = {a1, a2}
  AttemptOf <- SameAttempt
  ExpiryOf <- Expiries
  Retirers = {q1, q2}
  RetireOps <- TwoRetirements
  Generations <- TwoGenerations
  IntentCapacity = 1
  StartCapacity = 2
  MaxTtl = 3
  MaxTime = 3
  MaxRegress = 1
  MaxRestores = 2
  MaxCrashes = 1
  Calling <- EightCalls
  AsksOf <- PairAsks
  Operators = {o1, o2, o3}
  IntentOf <- Grants
  Recoveries = {g1}
  GrantOf <- Recovery
  Receivers = {x1}
  Incarnations = {i1, i2, i3}
  Keys = {key1, key2}
  Operations = {"a", "b", "c", "d"}
  Epochs = {1, 2}
  EnrollmentCapacity = 2
  MaxClock = 1
INVARIANTS OneHistory AttemptOnce ReceiptsHonest
PROPERTIES EntryAllowed IssuerSuccession
