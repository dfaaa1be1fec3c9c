SPECIFICATION Spec
CONSTANTS
  c1 = c1
  c2 = c2
  i1 = i1
  i2 = i2
  Conn = {c1, c2}
  Id = {i1, i2}
  MaxWrites = 1
INVARIANTS
  IndexIsExact
  NoChangeIsLost
PROPERTIES
  SubscribersCatchUp
