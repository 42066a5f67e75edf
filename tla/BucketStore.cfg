\* Plain texts of 2 to 8 bytes over cipher blocks of 4.
CONSTANTS
  Names = {"a", "b"}
  Z = 2
  NodeSizes = {1, 2, 3, 4}
  CipherBlock = 4
  Batch = 4
  Depths = {1, 2}
  Ivs = {1, 2}
  MaxWrites = 2
SPECIFICATION Spec
INVARIANTS
  EveryBucketPrepared
  ReceivesWhatIsStored
