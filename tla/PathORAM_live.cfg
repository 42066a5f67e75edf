\* Every operation ends, also when paths part early; no symmetry, for the check of
\* liveness.
CONSTANTS
  Ids = {n1, n2}
  Vals = {u}
  NoVal = NoVal
  Depth = 3
  Z = 1
SPECIFICATION FairSpec
PROPERTIES
  OperationsEnd
