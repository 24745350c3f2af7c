SPECIFICATION Spec

CONSTANTS
  v = v
  g1 = g1
  g2 = g2
  IPs = {v}
  Gs = {g1, g2}
  Trusted = {}
  Modes <- AllModes
  Kernel = FALSE
  HitCap = 3

INVARIANTS
  TypeOK
  OnlyEarnedPass

PROPERTIES
  NonSolversBanned

SYMMETRY SymGs
