SPECIFICATION RendezvousSpec
CONSTRAINT RendezvousBound
SYMMETRY Alike
CHECK_DEADLOCK FALSE
CONSTANTS
  t1 = t1  t2 = t2  k1 = k1  c1 = c1  c2 = c2  c3 = c3  c4 = c4
  a1 = a1  a2 = a2  e1 = e1  e2 = e2
  ip1 = ip1  ip2 = ip2  Cleaner = Cleaner  s1 = s1  s2 = s2  n1 = n1  n2 = n2  g1 = g1  b1 = b1  b2 = b2
  None = None
  Transactions = {t1, t2}
  Keys = {k1}
  Challenges = {a1, a2}
  Calls = {c1, c2, c3, c4}
  Envelopes = {e1, e2}
  ActionOf <- Roles
  Deadline <- Deadlines
  Lease = 1
  ChallengeLife = 1
  KeyLife = 2
  MaxChallenges = 2
  MaxOperations <- Room
  MaxCounter = 2
  MaxTime = 4
  Issues <- Issuing
  Enrolls <- Attesting
  Rotations <- Rotating
  Attested <- Two
  OfferLife = 1
  EnrolledLife = 2
  PolicyEnd = 6
  MaxAdvances = 1
  MaxChanges = 1
  MaxLosses = 1
  MaxSecond = 4
  Asking <- Accepting
  AsksOf <- Asked
  Ips <- Addresses
  LaneLimit <- PerLane
  IdentityLimit = 5
  RegularMinute = 2
  TotalMinute = 3
  RegularDay = 3
  TotalDay = 4
  Identities = 3
  TransactionLimit = 2
  KeyLimit = 1
  CallLimit = 2
  PerIdentity = 1
  BudgetRows = 2
  IndexCapacity = 1
  DayLength = 2
  MaxDrops = 1
  MaxMinute = 2
INVARIANTS OneOutcome CounterOnce WithinMeans OneEnrollment
PROPERTIES EndsHaveReserve NeverUndone
