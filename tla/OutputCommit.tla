---------------------------- MODULE OutputCommit ----------------------------
(****************************************************************************)
(* What the L2 runtime promises the outside world, without cells, values,    *)
(* clocks or reads: effects that depend on each other are held, and then     *)
(* either released for good, after everything they depend on, or retracted   *)
(* together with everything that depends on them and nothing else.           *)
(****************************************************************************)
CONSTANT Effect

VARIABLES
    status,     \* where each effect is
    deps        \* deps[e]: all the effects e depends on

ocVars == << status, deps >>

Init ==
    /\ status = [e \in Effect |-> "working"]
    /\ deps = [e \in Effect |-> {}]

\* e comes to depend on finished effects, among them all that these depend on.
\* The work on a retracted effect may go on, and a retracted one may be used.
Depend(e, D) ==
    /\ status[e] \in {"working", "retracted"}
    /\ e \notin D
    /\ \A d \in D : status[d] # "working" /\ deps[d] \subseteq D
    /\ deps' = [deps EXCEPT ![e] = @ \cup D]
    /\ UNCHANGED status

\* e is finished; nothing it depends on has been retracted.
Finish(e) ==
    /\ status[e] = "working"
    /\ \A d \in deps[e] : status[d] \in {"held", "released"}
    /\ status' = [status EXCEPT ![e] = "held"]
    /\ UNCHANGED deps

Release(e) ==
    /\ status[e] = "held"
    /\ \A d \in deps[e] : status[d] = "released"
    /\ status' = [status EXCEPT ![e] = "released"]
    /\ UNCHANGED deps

RestingOn(e) == {e} \cup {d \in Effect : e \in deps[d]}

\* e and exactly what depends on it are retracted, and nothing of it has left.
Retract(e) ==
    /\ \A d \in RestingOn(e) : status[d] # "released"
    /\ status' = [d \in Effect |->
                     IF d \in RestingOn(e) THEN "retracted" ELSE status[d]]
    /\ UNCHANGED deps

Next ==
    \E e \in Effect :
        \/ \E D \in SUBSET Effect : Depend(e, D)
        \/ Finish(e)
        \/ Release(e)
        \/ Retract(e)

Spec == Init /\ [][Next]_ocVars

=============================================================================
