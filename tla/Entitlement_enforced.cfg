SPECIFICATION EnforcedSpec
CONSTANTS
  Users = {u1}
  Servers = {s1}
  Actors = {"enforcer", "admin"}
  MaxOutages = 1
  Asks = {a1}
  Plans = {"pro"}
  Callbacks = {"quota"}
  MaxMoves = 2
  Names = {}
  MaxHosts = 1
  Pushes = {p1, p2}
  Limits = {0}
  What = "flags"
  Mishaps = {"drop", "restart"}
  MaxLine = 2
PROPERTIES
  ExpiryEnforced
  QuotaEnforced
  LicenseIsObeyed
