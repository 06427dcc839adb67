SPECIFICATION FairSpec
CHECK_DEADLOCK FALSE
CONSTANTS
  e1 = e1  e2 = e2  e3 = e3  k1 = k1  k2 = k2  k3 = k3
  p1 = p1  p2 = p2  p3 = p3  d1 = d1  d2 = d2  s1 = s1  s2 = s2
  Workers = {w1, w2}
  Events = {e1, e2}
  Operations = {k1, k2}
  Publications = {p1}
  Recipients = {d1}
  Scopes = {s1}
  OperationOf <- EventIdOperationOf
  PublicationOf <- EventIdPublicationOf
  RecipientOf <- PairRecipientOf
  ScopeOf <- PairScopeOf
  Expiry <- PairExpiry
  Deadlines = {3}
  RetryAfters = {0}
  Capacity = 2
  InstallationCapacity = 2
  RecipientBurst = 1
  Window = 1
  MaxTime = 1
  MaxToken = 0
  MaxRegress = 0
  NoRow = NoRow
PROPERTIES RequestsEnd
