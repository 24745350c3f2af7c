SPECIFICATION FairSpec

CONSTANTS
  leader = leader
  follower = follower
  com = com
  Nodes <- MCNodes
  Rank <- MCRank
  Load <- MCLoad
  Domains <- OneDomain
  Longer <- OneLonger
  Threshold <- OneThreshold
  Calm = 2
  Fresh = 2
  MaxUnseen = 2
  MaxChanges = 1

INVARIANTS
  TypeOK
  LocalFloodDetected
  AttackHasTraffic
  AlertsFollowLeader

PROPERTIES
  AttackEnds
  SharedFloodDetected
