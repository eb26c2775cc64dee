\* Every operation plans x and names y, which it cannot see: any log is at level 3 at best.
SPECIFICATION VASpec
CONSTANTS
  t1 = t1
  t2 = t2
  a1 = a1
  a2 = a2
  x = x
  Thread = {t1, t2}
  Object = {1, 2}
  ObjectOf <- MCObjectOf
  IdOf <- MCIdOf
  AgentId = {a1, a2}
  PlanChoice = {x}
  NameChoice = {y}
  NoTool = NoTool
  VisibleTools <- MCVisible
  Cell = {c1}
  Val = {v, Null}
  Null = Null
  MaxClock = 3
INVARIANTS
  VanillaLevels
  StaleCommitsAreFound
  ReadsReplay
\* The model's clock bound stops a thread at its commit.
CHECK_DEADLOCK FALSE
