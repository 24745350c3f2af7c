SPECIFICATION FairSpec

CONSTANTS
  n1 = n1
  n2 = n2
  n3 = n3
  i1 = i1
  Nodes = {n1, n2, n3}
  IPs = {i1}
  NodeName <- OneNamesake
  White <- OneWhite
  Durations = {2}
  Fresh = 1
  MaxBans = 2
  MaxUnbans = 1
  MaxRestarts = 1

INVARIANTS
  TypeOK
  NoBanOutlivesDecision

PROPERTIES
  BanReachesNamedPeers
