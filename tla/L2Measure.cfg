SPECIFICATION MSpec
CONSTANTS
  Depth = 3
  MaxSeed = 620
  Cell <- MCCell
  Value <- MCValue
  NoValue = NoValue
  MaxTxn <- MCTxns
  MaxTime = 60
INVARIANTS
  ArmsRunOneScenario
  VerifiedResidueIsRefusal
  EveryLiveEffectReleased
  CascadeMovesFlagsOnly
\* A scenario ends with its second release pass.
CHECK_DEADLOCK FALSE
