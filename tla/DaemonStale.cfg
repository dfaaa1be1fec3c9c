SPECIFICATION DaemonSpec
CONSTANTS
  self = self
  p1 = p1
  h1 = h1
  h2 = h2
  r1 = r1
  r2 = r2
  NoNode = NoNode
  Node = {self, p1}
  Self = self
  MaxEpoch = 2
  Hashes = {h1, h2}
  Scheduled = {h2}
  Views <- TurnViews
  Reported <- NoReported
  Request = {}
  ActionsPerSecond = 1
  MaxSecond = 0
  MaxQueue = 1
PROPERTIES
  PrefetchFirst
