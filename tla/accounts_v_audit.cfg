SPECIFICATION DashboardSpec

CONSTANTS
  Admins = {a1, a2}
  None = None
  a1 = a1
  a2 = a2
  d1 = d1
  d2 = d2
  s1 = s1
  Blank = Blank
  Empty = Empty
  Domains = {d1, d2}
  Settings = {s1}
  MaxRequests = 0
  MaxCrashes = 0
  Savers = {g1, g2}
  Cap = 2
  Torn = Torn
  MaxEntries = 3
  Handlers = {h1, h2}
  Names = {admin, bob}
  Primary = admin
  Nobody = Nobody
  MaxUsers = 2
  MaxActs = 3
  MaxDeaths = 0
  Nodes = {n1, n2}
  Bodies = {b1}
  Ports = {p1}
  NoNode = NoNode
  MaxSaves = 1


INVARIANTS
  TrailPersistent

CHECK_DEADLOCK FALSE
