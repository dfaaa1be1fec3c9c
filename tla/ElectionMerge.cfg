SPECIFICATION FairSpec
CONSTANTS
  n1 = n1
  n2 = n2
  n3 = n3
  n4 = n4
  NoNode = NoNode
  Node = {n1, n2, n3}
  Infos <- FullInfos
  AllowMinority = TRUE
  ForceLeader = TRUE
  MaxEpoch = 2
  MaxForgotten = 0
PROPERTIES
  LeaderIsHeard
