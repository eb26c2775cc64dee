------------------------------ MODULE Provenance ------------------------------
(****************************************************************************)
(* The provenance detectors of src/l2_measure.rs.  A trace is a function     *)
(* from transaction ids to [committed, aborted, externalized, preds].        *)
(****************************************************************************)
EXTENDS Integers, FiniteSets

\* Every transaction reachable from t through recorded predecessors, found or
\* not: an id outside the trace ends a path.
Closure(trace, t) ==
    LET Preds(p) == IF p \in DOMAIN trace THEN trace[p].preds ELSE {}
        reach[n \in Nat] ==
            IF n = 0 THEN Preds(t)
            ELSE LET prev == reach[n - 1]
                 IN prev \cup UNION {Preds(p) : p \in prev}
    IN reach[Cardinality(DOMAIN trace)]

AbortedBasis(trace, t) ==
    \E p \in Closure(trace, t) \cap DOMAIN trace : trace[p].aborted

\* detect_a3: effects left on a basis that is now aborted.
A3(trace) ==
    \E t \in DOMAIN trace : trace[t].externalized /\ AbortedBasis(trace, t)

\* detect_a3_unpropagated: a survivor on an aborted basis.
A3Unpropagated(trace) ==
    \E t \in DOMAIN trace :
        trace[t].committed /\ ~ trace[t].aborted /\ AbortedBasis(trace, t)

\* exposed_effects, for a review that asked to retract r: what is out although
\* its basis was to be withdrawn.
Exposed(trace, r) ==
    {t \in DOMAIN trace :
        trace[t].externalized /\ (t = r \/ r \in Closure(trace, t))}

\* relabeled_after_release: flagged aborted although already out.
Relabeled(trace, r) ==
    {t \in DOMAIN trace : t # r /\ trace[t].aborted /\ trace[t].externalized}

=============================================================================
