SPECIFICATION BillSpec
CONSTANTS
  s1 = s1
  s2 = s2
  u1 = u1
  u2 = u2
  c1 = c1
  c2 = c2
  Servers = {s1}
  Users = {u1}
  Clients = {c1}
  ServerOf <- OneServerOf
  OwnerOf <- OneOwnerOf
  NoUser = NoUser
  Weights = {1, 2}
  Faults = {"noAttributor"}
  MaxRaw = 2
  MaxEpoch = 2
  MaxInc = 2
INVARIANT
  ClosedCycleStaysClosed
