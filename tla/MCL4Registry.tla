---- MODULE MCL4Registry ----
EXTENDS L4Registry, TLC
\* Tools, signatures and operations are interchangeable.
Symmetry == Permutations(Tool) \cup Permutations(Op) \cup Permutations(Sig)
====
