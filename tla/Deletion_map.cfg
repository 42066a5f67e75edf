\* Three levels, the program's default, filled to capacity, with inner nodes of
\* three entries, which lend, and values told apart; 4 * 6 = 2 * 4 * 3.
CONSTANTS
  Keys = {1, 2, 3, 4, 5, 6}
  Values = {a, b}
  Marked = b
  NotFound = NotFound
  L = 3
  C = 2
  P1 = 4
  P2 = 3
  Positions = {0}
SPECIFICATION BelowRootSpec
INVARIANTS
  EveryNodeListedOnce
  NamedByGreatestKey
  SearchOrder
  AtLeastHalfFull
PROPERTIES
  ImplementsOMap
CONSTRAINT OneMarked
