SPECIFICATION Spec
CONSTRAINT Undisturbed
SYMMETRY Symmetric
CHECK_DEADLOCK FALSE
CONSTANTS
  e1 = e1  e2 = e2  e3 = e3  k1 = k1  k2 = k2  k3 = k3
  p1 = p1  p2 = p2  p3 = p3  d1 = d1  d2 = d2  s1 = s1  s2 = s2
  Workers = {w1, w2, w3}
  Events = {e1}
  Operations = {k1}
  Publications = {p1}
  Recipients = {d1}
  Scopes = {s1}
  OperationOf <- OneOperationOf
  PublicationOf <- OnePublicationOf
  RecipientOf <- OneRecipientOf
  ScopeOf <- OneScopeOf
  Expiry <- OneExpiry
  Deadlines = {4}
  RetryAfters = {0}
  Capacity = 2
  InstallationCapacity = 2
  RecipientBurst = 1
  Window = 1
  MaxTime = 3
  MaxToken = 0
  MaxRegress = 1
  NoRow = NoRow
INVARIANTS AtMostOnce
PROPERTIES DeliveryImplemented
