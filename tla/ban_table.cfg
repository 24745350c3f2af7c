SPECIFICATION FairSpec

CONSTANTS
  IPs = {i1}
  Threads = {t1, t2}
  Cleaner = cleaner
  NoIP = NoIP
  Ops <- AllOps
  Durations = {1}
  MaxBans = 2
  MaxReloads = 1
  MaxActive = 3

INVARIANTS
  TypeOK
  ProtectedNeverBanned
  EnforcedInKernel
  GaugeCoversTable

PROPERTIES
  ExpiredForgotten
