SPECIFICATION FairSpec

CONSTANTS
  IPs = {i1}
  Threads = {t1}
  Cleaner = cleaner
  NoIP = NoIP
  Ops <- LazyOps
  Durations = {1}
  MaxBans = 1
  MaxReloads = 0
  MaxActive = 3

PROPERTIES
  KernelBanEnds
