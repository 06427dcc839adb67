SPECIFICATION Spec
CONSTRAINT InACorner
CHECK_DEADLOCK FALSE
CONSTANTS
  i1 = i1  i2 = i2  i3 = i3  h1 = h1  h2 = h2  h3 = h3  k1 = k1  k2 = k2  k3 = k3
  s1 = s1  w1 = w1  v1 = v1  v2 = v2  x1 = x1
  p1 = p1  p2 = p2  p3 = p3  o1 = o1  o2 = o2  o3 = o3
  None = None
  Calls = {i1, i2, i3, h1, h2, h3, k1, k2, k3, s1, w1, v1, v2, x1}
  AsksOf <- Asks
  Purposes = {p1, p2, p3}
  Ops = {o1, o2, o3}
  Expiry <- Expiries
  AuthExpiry = 5
  PolicyExpiry = 5
  Window = 1
  MaxIntents = 14
  MaxIssuers = 3
  MaxFences = 1
  Counters = {1, 2}
  MaxTime = 1
INVARIANTS WithdrawalFinal CounterOnce
PROPERTIES WakesAreProven SettledStays
