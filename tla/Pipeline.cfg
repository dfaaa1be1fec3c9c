SPECIFICATION FairSpec
CONSTANTS
  h1 = h1
  h2 = h2
  a = a
  b = b
  Schedule = {h1, h2}
  Role = {a, b}
  Assigned <- TwoThenOne
  Common <- Described
  MayFail = {a, b}
  MaxTemplates = 1
INVARIANTS
  Converged
  RerenderIsHonoured
PROPERTIES
  LatestIsApplied
