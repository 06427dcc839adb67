SPECIFICATION Spec
CONSTANTS
  o1 = o1  o2 = o2  o3 = o3  o4 = o4  n1 = n1  n2 = n2  n3 = n3  n4 = n4
  Callers = {c1}
  Principals = {p1, p2}
  Epochs = {1, 2, 3}
  Bodies = {b1}
  OnceKeys <- FourKeys
  Restores = {r1}
  RecordLimits = {2, 3}
  OperationLimits = {4}
  MaxRevision = 4
  NoRestore = NoRestore
  NoBody = NoBody
  Idle = Idle
INVARIANT NoSkippedEpoch
