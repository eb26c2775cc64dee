---------------------------- MODULE MCL2Temporal ----------------------------
\* A small instance of the L2 runtime with its stamps.
EXTENDS L2Temporal, TLC

Symmetry == Permutations(Cell) \cup Permutations(Value)
=============================================================================
