---------------------------- MODULE ReleaseAtCommit ----------------------------
(****************************************************************************)
(* The two baselines that release effects at commit: UnguardedStore          *)
(* (src/l2_unguarded.rs) and CascadeStore (src/l2_cascade.rs), which wraps   *)
(* it and differs in commit and abort only.                                  *)
(*                                                                          *)
(* Vecs and maps of a transaction are sets and total functions, as in        *)
(* L2Runtime.  The stores are plain Rust behind &mut self: no clock, no      *)
(* ceiling, and ids are positions in txns.                                   *)
(****************************************************************************)
EXTENDS Provenance

CONSTANTS
    Cell,
    NoValue,
    NoTxn,
    Cascades    \* CascadeStore rather than UnguardedStore

VARIABLES
    txns,       \* txns[t]: transaction t, for t from 0 on
    cellValue,
    cellWriter

storeVars == << txns, cellValue, cellWriter >>

NoWrites == [c \in {} |-> NoValue]

Init ==
    /\ txns = NoWrites
    /\ cellValue = [c \in Cell |-> NoValue]
    /\ cellWriter = [c \in Cell |-> NoTxn]

NextId == Cardinality(DOMAIN txns)

NewTxn == [committed |-> FALSE, aborted |-> FALSE, externalized |-> FALSE,
           readCells |-> {}, readValue |-> [c \in Cell |-> NoValue], preds |-> {}]

Begin ==
    /\ txns' = [t \in 0 .. NextId |-> IF t = NextId THEN NewTxn ELSE txns[t]]
    /\ UNCHANGED << cellValue, cellWriter >>

\* A read of a cell nobody wrote is recorded, without a value; nothing asks
\* whether the reader has committed or aborted.
Read(t, c) ==
    /\ txns' = [txns EXCEPT
         ![t].readCells = @ \cup {c},
         ![t].readValue[c] = IF cellValue[c] = NoValue THEN @ ELSE cellValue[c],
         ![t].preds = @ \cup ({cellWriter[c]} \ {NoTxn, t})]
    /\ UNCHANGED << cellValue, cellWriter >>

ReadsFresh(t) ==
    \A c \in txns[t].readCells :
        cellValue[c] # NoValue /\ cellValue[c] = txns[t].readValue[c]

CommitUnvalidated(t) == ~ txns[t].committed /\ ~ txns[t].aborted

\* Difference 1: the cascading store refuses an aborted basis.
CommitValid(t) ==
    /\ ~ txns[t].committed /\ ~ txns[t].aborted
    /\ ReadsFresh(t)
    /\ Cascades => ~ AbortedBasis(txns, t)

Commit(t, writes) ==
    /\ CommitValid(t)
    /\ txns' = [txns EXCEPT ![t].committed = TRUE, ![t].externalized = TRUE]
    /\ cellValue' = [c \in Cell |-> IF c \in DOMAIN writes THEN writes[c]
                                                          ELSE cellValue[c]]
    /\ cellWriter' = [c \in Cell |-> IF c \in DOMAIN writes THEN t
                                                           ELSE cellWriter[c]]

FlagsDirect(t) ==
    {t} \cup IF Cascades THEN {i \in DOMAIN txns : t \in txns[i].preds} ELSE {}

\* Difference 2: it flags every transaction with t in its closure, out or not.
Flags(t) ==
    {t} \cup IF Cascades THEN {i \in DOMAIN txns : t \in Closure(txns, i)} ELSE {}

Abort(t) ==
    /\ txns' = [i \in DOMAIN txns |->
                  IF i \in Flags(t) THEN [txns[i] EXCEPT !.aborted = TRUE]
                                    ELSE txns[i]]
    /\ UNCHANGED << cellValue, cellWriter >>

=============================================================================
