SPECIFICATION Spec
CONSTANTS
  MaxEdits = 2
INVARIANTS
  NoChangeIsMissed
  RefusedIsShown
PROPERTIES
  RunsAreClean
  ConfigIsUsed
  FollowersAreQuiet
