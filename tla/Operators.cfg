\* Levels of up to 24 nodes, in trees of up to 48 slots; the program's Z is 4.
\* Identifiers of three bytes of three values, ints of two bytes.
CONSTANTS
  MaxNodes = 24
  BucketSizes = {1, 2, 3, 4}
  Base = 3
  IntBytes = 2
  IdSize = 3
  Ints = {0, 1, 2, 3, 4, 5, 6, 7, 8}
SPECIFICATION Spec
INVARIANTS
  PathIsRowWise
  ReachableSlotsSuffice
  OrderIsOfNumbers
  IntKeysAreKeys
PROPERTIES
  CountsInOrder
CHECK_DEADLOCK FALSE
