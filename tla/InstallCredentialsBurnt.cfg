SPECIFICATION Spec
CHECK_DEADLOCK FALSE
CONSTANTS
  r1 = r1  r2 = r2  r3 = r3  r4 = r4  r5 = r5  r6 = r6
  None = None
  Requests = {r1, r2}
  Installs = {i1}
  Devices = {d1}
  Ips = {a1}
  KindsOf <- OneBuyer
  Limit <- TwoPerDevice
  Window = 1
  Ttl = 1
  MaxTime = 1
INVARIANTS UsedAfterIssuance
