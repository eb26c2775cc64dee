---- MODULE MCPessAgents ----
\* Three threads: the first two share an Agent object, or have an object each
\* with one agent id.  Each object sees tool x only.
EXTENDS PessAgents, TLC
CONSTANTS t1, t2, t3, o1, o2, o3, a1, a2, x
MCSharedObjectOf == (t1 :> o1) @@ (t2 :> o1) @@ (t3 :> o3)
MCTwoIdOf == (o1 :> a1) @@ (o3 :> a2)
MCThreeObjectOf == (t1 :> o1) @@ (t2 :> o2) @@ (t3 :> o3)
MCSharedIdOf == MCTwoIdOf @@ (o2 :> a1)
MCVisible == [o \in Object |-> {x}]
====
