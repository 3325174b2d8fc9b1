SPECIFICATION Spec
CONSTANTS
  s1 = s1
  s2 = s2
  c1 = c1
  c2 = c2
  Servers = {s1}
  Clients = {c1}
  ServerOf <- OneServerOf
  Faults = {"failedBatch"}
  MaxRaw = 2
  MaxEpoch = 2
  MaxInc = 3
INVARIANT
  LostBatchLosesNothing
