\* Two positions for every node; leaves of three entries, which lend, under one
\* parent or two; 4 * 6 = 3 * 4 * 2.
CONSTANTS
  Keys = {1, 2, 3, 4, 5, 6}
  Values = {a}
  NotFound = NotFound
  L = 3
  C = 3
  P1 = 4
  P2 = 2
  Positions = {0, 1}
SPECIFICATION BelowRootSpec
INVARIANTS
  EntriesKnowPositions
  SearchOrder
  AtLeastHalfFull
PROPERTIES
  ImplementsOMap
