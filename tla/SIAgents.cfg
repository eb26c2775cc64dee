SPECIFICATION SASpec
CONSTANTS
  t1 = t1
  t2 = t2
  a1 = a1
  a2 = a2
  Thread = {t1, t2}
  Object = {1, 2}
  ObjectOf <- MCObjectOf
  IdOf <- MCIdOf
  AgentId = {a1, a2}
  NoAgent = NoAgent
  Cell = {c1}
  Val = {v1}
  Null = Null
  PlanChoice = {NoTool}
  NameChoice = {NoTool}
  NoTool = NoTool
  VisibleTools <- MCVisible
  MaxClock = 3
  MaxOps = 3
INVARIANTS
  SSIHasNoA1
  A1OnlyWithoutWrites
  ClosedWhenQuiet
  VersionsAreOperations
