SPECIFICATION FairPASpec
CONSTANTS
  t1 = t1
  t2 = t2
  t3 = t3
  o1 = o1
  o2 = o2
  o3 = o3
  a1 = a1
  a2 = a2
  x = x
  Thread = {t1, t2, t3}
  Object = {o1, o3}
  ObjectOf <- MCSharedObjectOf
  IdOf <- MCTwoIdOf
  AgentId = {a1, a2}
  Cell = {c1}
  Val = {v1}
  Null = Null
  PlanChoice = {NoTool}
  NameChoice = {NoTool}
  NoTool = NoTool
  VisibleTools <- MCVisible
  MaxClock = 2
INVARIANTS
  NoLeakedHolds
  OpenKeepsItsHolds
  NoA1BetweenAgents
  EmittedClosed
  EmittedIsTrace
PROPERTIES
  HeldCellsComeBack
