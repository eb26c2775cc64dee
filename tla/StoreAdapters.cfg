SPECIFICATION AdapterSpec
CONSTANTS
  t1 = t1
  t2 = t2
  x = x
  y = y
  NullName = NULL
  Thread = {t1, t2}
  AgentOf <- MCAgentOf
  CellName = {x}
  ValName = {y}
  MaxCells = 1
  Stores = {"si", "pess"}
  MaxClock = 2
INVARIANTS
  SnapshotsAreReads
  VerdictIsTheGate
PROPERTIES
  ImplementsNamedStore
