SPECIFICATION Spec
CONSTANTS
  Words = {"get", "post", "file", "admin", "number", "select"}
  Owasp <- MCOwasp
  Custom <- MCCustom
  Requests <- MCRequests
  NoWord = NoWord
  Levels = {1, 2, 3}
  MaxReloads = 2
  Conns = {c1, c2}
  Addrs = {a1}
  Streams = {s1, s2}
  chrome = chrome
  curl = curl
  other = other
  Kinds = {chrome, curl, other}
  Hellos <- MCHellos
  Browsers = {chrome}
  Tools = {curl}
  None = None
  Enough = 1
  Several = 2
  Many = 3
  Lots = 4
  Rates <- MCSpeeds
  UniqueRatio = 2
  MaxTotal = 5
  MaxURLs = 3
  CacheTTL = 1
  MaxAge = 2
  Procs = {p1, p2}
  Abuse = {0, 80}
  RepTTL = 2
  Patience = 1
  MaxSeen = 5
  MaxChanges = 3
INVARIANTS
  BrowsersRecognised
