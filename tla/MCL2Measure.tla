---- MODULE MCL2Measure ----
\* Chains of up to Depth + 2 transactions and as many rivals.
EXTENDS L2Measure
MCTxns == 2 * (Depth + 2) + 1
MCCell == 0 .. Depth + 2
MCValue == {40} \cup {69 + k : k \in 1 .. Depth + 2} \cup {899 + k : k \in 1 .. Depth + 2}
====
