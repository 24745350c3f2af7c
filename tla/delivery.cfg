SPECIFICATION Spec
CONSTANTS
  Senders = {s1}
  MaxBackends = 3
  DownAfter = 3
  MaxPools = 2
  Clients = {c1, c2}
  TTL = 1
  Static = FALSE
  Marks = {cookie}
  MaxVersion = 2
  MaxNow = 3
  MaxToggles = 1
  Recorders = {r1, r2}
  Viewers = {v1}
  MaxEvents = 5
  QueueCap = 2
  RingCap = 2
  Batch = 2
  MaxClears = 1
  Alerts = {a1, a2}
  Channels = {telegram, webhook}
  AlertCap = 1
  Attempts = 2
  MaxReloads = 1
  Addresses = {ip1, ip2}
  Workers = {w1, w2}
  EdgeCap = 1
  BanAge = 0
  PerPage = 1
  MaxRules = 2
  MaxCrashes = 1
INVARIANTS
  TypeOK
  FairTurn
  ServedFresh
PROPERTIES
  ShownOnce
  AlertSettles
  EdgeBanEnds
