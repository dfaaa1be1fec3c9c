SPECIFICATION Spec
CONSTANTS
  n1 = n1
  n2 = n2
  n3 = n3
  n4 = n4
  NoNode = NoNode
  Node = {n1, n2}
  Infos <- FullInfos
  AllowMinority = FALSE
  ForceLeader = FALSE
  MaxEpoch = 3
  MaxForgotten = 2
INVARIANTS
  OneLeaderPerEpoch
  PongsReachTheirLeader
  LeadersAreElected
PROPERTIES
  ViewsSucceed
