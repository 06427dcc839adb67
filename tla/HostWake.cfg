SPECIFICATION Spec
CONSTRAINT InACorner
CHECK_DEADLOCK FALSE
CONSTANTS
  i1 = i1  i2 = i2  s1 = s1  s2 = s2  r1 = r1  r2 = r2  v1 = v1  w0 = w0  w1 = w1  w2 = w2  w3 = w3
  p1 = p1  p2 = p2  o1 = o1  o2 = o2  o3 = o3  g1 = g1  g2 = g2
  None = None
  Calls = {i1, i2, s1, s2, r1, r2, v1, w0, w1, w2, w3}
  AsksOf <- Asks
  Purposes = {p1, p2}
  Ops = {o1, o2, o3}
  Generations = {g1, g2}
  HostOf <- OneHost
  Expiry <- Expiries
  Window = 2
  Capacity = 2
  MaxOperations = 3
  MaxWakes = 2
  MaxRevision = 2
  MaxTime = 4
INVARIANTS Spacing Truthful OneLine
