SPECIFICATION Spec
CONSTANTS
  u1 = u1
  s1 = s1
  s2 = s2
  Users = {u1}
  Servers = {s1}
  Actors = {"enforcer", "admin", "reconciler", "cleaner", "snapshots", "drift"}
  MaxOutages = 1
INVARIANTS
  ServedForAReason
  OrphansExplained
PROPERTY
  TakenForAReason
