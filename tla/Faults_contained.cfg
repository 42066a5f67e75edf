\* Three nodes compete for one-slot buckets, so that some stay in the cache,
\* while one fault hits any step.
SPECIFICATION FaultSpec
CONSTANTS
  Ids = {n1, n2, n3}
  Vals = {v1}
  NoVal = noVal
  Depth = 2
  Z = 1
  MaxFaults = 1
INVARIANTS  HarmlessWithoutFault
SYMMETRY Symmetry
CONSTRAINT SomeUnharmed
