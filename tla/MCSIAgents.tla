---- MODULE MCSIAgents ----
\* Two threads with an Agent object and an agent id each, and no tools.
EXTENDS SIAgents, TLC
CONSTANTS t1, t2, a1, a2
MCObjectOf == (t1 :> 1) @@ (t2 :> 2)
MCIdOf == << a1, a2 >>
MCVisible == [o \in Object |-> {}]
====
