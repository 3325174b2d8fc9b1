SPECIFICATION FairSpec
CONSTANTS
  s1 = s1
  s2 = s2
  c1 = c1
  c2 = c2
  Servers = {s1}
  Clients = {c1}
  ServerOf <- OneServerOf
  Faults = {"nullBoot", "lostReport", "failedBatch", "masterRestart", "clientRemoved"}
  MaxRaw = 2
  MaxEpoch = 2
  MaxInc = 2
INVARIANTS
  NeverOverbilled
  LedgerExact
PROPERTIES
  AnnouncedOnce
  BaselineCatchesUp
