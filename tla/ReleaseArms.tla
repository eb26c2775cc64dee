----------------------------- MODULE ReleaseArms -----------------------------
(****************************************************************************)
(* The arms that the measurement driver (src/l2_measure.rs) and the sessions *)
(* (src/l2_replay_lib.rs, l2-live/src/main.rs) compare: the verified runtime *)
(* (module L2Runtime) and two stores that release at commit, one of which    *)
(* flags the readers of a retracted transaction as well.                     *)
(****************************************************************************)
EXTENDS L2Runtime, Sequences, Provenance

VARIABLES
    uTxns, uValue, uWriter,     \* the unguarded store
    kTxns, kValue, kWriter      \* the cascading store

uVars == << uTxns, uValue, uWriter >>
kVars == << kTxns, kValue, kWriter >>

U == INSTANCE ReleaseAtCommit WITH
        txns <- uTxns, cellValue <- uValue, cellWriter <- uWriter,
        Cascades <- FALSE
K == INSTANCE ReleaseAtCommit WITH
        txns <- kTxns, cellValue <- kValue, cellWriter <- kWriter,
        Cascades <- TRUE

\* What is recorded of the verified runtime for the detectors: trace_of_runtime,
\* and trace_of of a session.
VTrace == [t \in Known |->
    [committed |-> t \in committed, aborted |-> t \in aborted,
     externalized |-> t \in externalized, preds |-> preds[t]]]

=============================================================================
