\* Four levels, leaves of three entries and inner nodes of two: eight keys give
\* the root a second child and inner nodes neighbours under another parent;
\* 8 * 8 <= 3 * 6 * 2^2.
CONSTANTS
  Keys = {1, 2, 3, 4, 5, 6, 7, 8}
  Values = {a}
  NotFound = NotFound
  L = 4
  C = 3
  P1 = 6
  P2 = 2
  Positions = {0}
SPECIFICATION BelowRootSpec
INVARIANTS
  TypeOK
  EveryNodeListedOnce
  NamedByGreatestKey
  SearchOrder
  AtLeastHalfFull
PROPERTIES
  ImplementsOMap
