SPECIFICATION Spec

CONSTANTS
  SubTicks = 2
  CPSLimit = 2
  PageLimit = 3
  MaxSec = 2
  MaxEvents = 3
  Procs = {p1, p2}
  MaxBuckets = 2
  Limits <- MCRates
  Lenience <- MCLenience
  Penalty = 1
  Repeated = 1
  Spam = 2
  IdleTTL = 2
  MaxTime = 3
  MaxUpdates = 1
  Callers = {p1, p2}
  Nobody = Nobody
  Rates = {0, 1, 2}
  MaxSets = 2
  Conns = {c1, c2, c3}
  MaxPerIP = 1
  MaxTotal = 2
  MaxExempts = 1

INVARIANTS
  TypeOK
  NoFloodMissed
  NoMoreThanEarned
  ReloadsApply
  NeverOvercounted
SYMMETRY Symmetry
