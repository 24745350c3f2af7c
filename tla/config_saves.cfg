SPECIFICATION DashboardSpec

CONSTANTS
  Admins = {a1, a2}
  None = None
  a1 = a1
  a2 = a2
  d1 = d1
  d2 = d2
  s1 = s1
  Blank = Blank
  Empty = Empty
  Domains = {d1, d2}
  Settings = {s1}
  MaxRequests = 3
  MaxCrashes = 1
  Savers = {g1, g2}
  Cap = 2
  Torn = Torn
  MaxEntries = 3
  Handlers = {h1, h2}
  Names = {admin, bob}
  Primary = admin
  Nobody = Nobody
  MaxUsers = 2
  MaxActs = 3
  MaxDeaths = 2
  Nodes = {n1, n2, n3}
  Bodies = {b1, b2}
  Ports = {p1}
  NoNode = NoNode
  MaxSaves = 2

INVARIANTS
  DashboardTypeOK
  ListedRestorable
  SavedEverywhere
  AccountsKept
  SharedReachesAll

PROPERTIES
  RevisionsKept
  RestartKeepsSaves

SYMMETRY Symmetry

CHECK_DEADLOCK FALSE
