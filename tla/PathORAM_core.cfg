\* Three nodes compete for one-slot buckets, and contents are told apart: what
\* a search returns, and the table below it.
CONSTANTS
  Ids = {n1, n2, n3}
  Vals = {u, v}
  NoVal = NoVal
  Depth = 2
  Z = 1
SPECIFICATION Spec
SYMMETRY Symmetry
INVARIANTS
  TypeOK
  OneCopy
  OnRecordedPath
  RewritesWhatItRead
  TwoReads
  GreedyEviction
PROPERTIES
  ImplementsBlockStore
