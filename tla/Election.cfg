SPECIFICATION Spec
CONSTANTS
  n1 = n1
  n2 = n2
  n3 = n3
  n4 = n4
  NoNode = NoNode
  Node = {n1, n2, n3, n4}
  Infos <- FullInfos
  AllowMinority = FALSE
  ForceLeader = FALSE
  MaxEpoch = 2
  MaxForgotten = 0
INVARIANTS
  TypeOK
  AllegianceAgrees
  VoteOncePerEpoch
PROPERTIES
  ImplementsLeadership
