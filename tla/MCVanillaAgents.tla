---- MODULE MCVanillaAgents ----
\* Two threads with an Agent object and an agent id each, which see tool x.
EXTENDS VanillaAgents, TLC
CONSTANTS t1, t2, a1, a2, x
MCObjectOf == (t1 :> 1) @@ (t2 :> 2)
MCIdOf == << a1, a2 >>
MCVisible == << {x}, {x} >>
====
