SPECIFICATION DaemonSpec
CONSTANTS
  self = self
  p1 = p1
  h1 = h1
  h2 = h2
  r1 = r1
  r2 = r2
  NoNode = NoNode
  Node = {self, p1}
  Self = self
  MaxEpoch = 2
  Hashes = {h1}
  Scheduled = {h1}
  Views <- TurnViews
  Reported <- NoReported
  Request = {r1, r2}
  ActionsPerSecond = 1
  MaxSecond = 1
  MaxQueue = 1
INVARIANTS
  DaemonTypeOK
  OnlyLeadersServe
  PendingIsHeld
  ParentsAreKept
PROPERTIES
  PublishInLeadership
  AnswersAreInformed
