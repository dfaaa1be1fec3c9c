SPECIFICATION ReplicaSpec
CONSTANTS
  self = self
  p1 = p1
  h1 = h1
  h2 = h2
  NoNode = NoNode
  Node = {self, p1}
  Self = self
  MaxEpoch = 2
  Hashes = {h1, h2}
  Request = {}
  ActionsPerSecond = 1
  Views <- TurnViews
  Reported <- TurnReported
  MaxQueue = 0
INVARIANTS
  BooksAreExact
  ReplicaHasTarget
  StableIsOfLeader
  TargetMeansUnstable
PROPERTIES
  FollowerCatchesUp
