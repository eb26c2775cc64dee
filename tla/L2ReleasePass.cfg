\* A chain of two readers, committed, reviewed and released, takes thirteen
\* calls.
SPECIFICATION FairRPSpec
CONSTANTS
  Cell = {c1}
  Value = {v1}
  NoValue = NoValue
  MaxTxn = 3
  MaxTime = 13
INVARIANTS
  NoUnpropagatedA3
  NoA3
  OnePassForCausalIds
  HeldRestsOnMany
PROPERTIES
  ProvenanceFrozen
  ImplementsOutputCommit
  ReviewedStaysIn
  HeldEffectsLeave
