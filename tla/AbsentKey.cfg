CONSTANTS
  Ids = {n1, n2}
  Vals = {u}
  NoVal = NoVal
  Depth = 2
  Z = 1
SPECIFICATION AbsentKeySpec
INVARIANTS
  NothingForgotten
