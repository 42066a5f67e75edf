\* Deletes of stored keys, whichever nodes they merge.
CONSTANTS
  Keys = {1, 2, 3, 4, 5, 6}
  Values = {a}
  NotFound = NotFound
  L = 3
  C = 2
  P1 = 4
  P2 = 3
  Positions = {0}
SPECIFICATION StoredSpec
INVARIANTS
  RootNamesNeighbours
