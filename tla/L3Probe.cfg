SPECIFICATION PSpec
CONSTANTS
  Width = 4
  MaxClock = 1
INVARIANTS
  L3Inv
  ScoredSessionIsWhole
PROPERTIES
  SessionEnds
\* A session ends.
CHECK_DEADLOCK FALSE
