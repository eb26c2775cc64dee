SPECIFICATION LSpec
CONSTANTS
  Cell = {1, 2}
  Value = {100, 1000}
  NoValue = NoValue
  MaxTxn = 2
  MaxTime = 10
  N = 2
  Text = {r1, r2}
  PlanValue = {100}
  ResultValue = {1000}
  MaxRuns = 2
  MaxCrashes = 1
INVARIANTS
  FilesBackedByOutboxes
  OnlyKeptLeaves
  SummaryAddsUp
  ReplayComesOut
PROPERTIES
  EveryRunEnds
\* The program is started MaxRuns times.
CHECK_DEADLOCK FALSE
