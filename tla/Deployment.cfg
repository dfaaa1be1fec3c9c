SPECIFICATION Spec
CONSTANTS
  r1 = r1
  r2 = r2
  h1 = h1
  h2 = h2
  n1 = n1
  n2 = n2
  Index = Index
  Global = Global
  Changes = Changes
  Role = {r1, r2}
  RoleOrder <- Order
  Hash = {h1, h2}
  Name = {n1, n2}
  Sections <- TwoRoles
  Id = {1, 2}
  MaxTime = 1
  MaxRows = 3
  MaxFaults = 1
  KindOrder <- Kinds
  Period <- Periods
  MaxSnapshots <- Limits
CHECK_DEADLOCK FALSE
INVARIANTS
  TypeOK
  PointersAreTrue
  IndexIsWellFormed
  FilesAreRendered
  ConditionIsHonoured
PROPERTIES
  DeploymentEnds
  SnapshotsAreKept
