\* Six sessions on four levels: maps begun, left, continued and dropped.
CONSTANTS
  L = 4
  MaxSessions = 6
SPECIFICATION OrderlySpec
INVARIANTS
  ServesOneMap
  AccessContinues
CHECK_DEADLOCK FALSE
