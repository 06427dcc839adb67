SPECIFICATION StoresSpec
CONSTRAINT StoresBound
SYMMETRY Symmetric
CHECK_DEADLOCK FALSE
CONSTANTS
  o1 = o1  o2 = o2  o3 = o3  o4 = o4  n1 = n1  n2 = n2  n3 = n3  n4 = n4
  p2 = p2  j1 = j1  j2 = j2  k1 = k1  d1 = d1  i1 = i1  i2 = i2  i3 = i3  w1 = w1  w2 = w2
  None = None
  Requests <- Calling
  AsksOf <- Asked
  Intents <- Drafted
  IntentOf <- Drafts
  Withdrawals <- Ended
  WithdrawalOf <- Ends
  MaxIntents = 3
  MaxClaims = 15
  MaxCrashes = 1
  Callers = {c1, c2}
  Principals = {p1}
  Epochs = {1, 2, 3}
  Bodies = {b1, b2}
  OnceKeys <- RepeatedKeys
  Restores = {r1}
  RecordLimits = {1, 2}
  OperationLimits = {2, 3, 4}
  MaxRevision = 4
  NoRestore = NoRestore
  NoBody = NoBody
  Idle = Idle
  Parents <- Enrolled
  Jobs <- Both
  Keys <- Signers
  Children <- Bound
  Admissions <- Held
  ParentExpiry <- Expiry
  ChildExpiries <- Lives
  MaxDuration = 3
  MaxValidity = 3
  ChildValidity = 3
  MaxJobs = 2
  JobClaims = 10
  MaxChildren = 1
  Values <- Signed
  MaxTime = 1
  MaxBoots = 1
INVARIANTS RecordsKept AnswersKept CounterOnce DurableTogether
PROPERTIES EpochsInOrder NoLateAnswer PositiveIsCurrent
