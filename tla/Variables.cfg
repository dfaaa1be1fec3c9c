SPECIFICATION Spec
CONSTANTS
  Keys = {1, 2}
  Fields = {1, 2}
  Node = 3
  Own = {4, 5}
INVARIANTS
  MostSpecificWins
