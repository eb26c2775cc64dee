---- MODULE MCStoreAdapters ----
\* Two agents: x is also the name of a cell, y that of a value.
EXTENDS StoreAdapters, TLC
CONSTANTS t1, t2, x, y
MCAgentOf == (t1 :> x) @@ (t2 :> y)
====
