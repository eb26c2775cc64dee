\* A chain of two readers, all committed, and an abort take eleven calls; a
\* third writer that brings back the value a reader observed, nine.
SPECIFICATION TSpec
CONSTANTS
    Cell = {c1, c2}
    Value = {v1, v2}
    NoValue = NoValue
    MaxTxn = 3
    MaxTime = 11
SYMMETRY Symmetry
INVARIANTS
    ReadsSupported
    CommitOrderSerializable
\* At the clock's ceiling every call is refused.
CHECK_DEADLOCK FALSE
