\* Contents told apart: what is stored is compared before and after a fault.
SPECIFICATION FaultSpec
CONSTANTS
  Ids = {n1, n2}
  Vals = {v1, v2}
  NoVal = noVal
  Depth = 2
  Z = 1
  MaxFaults = 1
INVARIANTS CountAsFound
 
SYMMETRY Symmetry
