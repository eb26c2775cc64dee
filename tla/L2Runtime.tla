------------------------------ MODULE L2Runtime ------------------------------
(****************************************************************************)
(* The L2 runtime of src/l2_exec.rs: transactions of agents over shared     *)
(* cells with cascading abort and output commit.  Every public call of      *)
(* L2Runtime takes &mut self, so a call is one atomic step.  A call that     *)
(* returns false or None changes nothing: it is a stuttering step here.      *)
(*                                                                          *)
(* A transaction's record ExecTxn is spread over the functions and sets      *)
(* below.  HashMaps with an absent key are total functions with NoValue or   *)
(* NoTxn; the Vecs read_set, write log and predecessors are kept as what     *)
(* their readers take from them: a set, or the last entry per cell.  The     *)
(* stamps read_at and commit_time, which no guard reads, are added by        *)
(* module L2Temporal.                                                        *)
(****************************************************************************)
EXTENDS Integers

CONSTANTS
    Cell,       \* the shared cells
    Value,      \* what a cell can hold
    NoValue,    \* "the map has no entry for this cell"
    MaxTxn,     \* u64::MAX as the ceiling of next_txn
    MaxTime     \* u64::MAX as the ceiling of the clock

ASSUME L2Assumption ==
    /\ NoValue \notin Value
    /\ MaxTxn \in Nat
    /\ MaxTime \in Nat

Txn == 0 .. MaxTxn - 1

NoTxn == -1

VARIABLES
    now,            \* logical clock: one tick per accepted call
    nextTxn,        \* next id; the ids below it are the known transactions
    committed,      \* set of transactions with the committed flag
    aborted,        \* set of transactions with the aborted flag
    externalized,   \* set of transactions whose effects have left
    writes,         \* writes[t][c]: t's last write to c
    readValue,      \* readValue[t][c]: the value t last observed in c
    readFrom,       \* readFrom[t][c]: the writer it came from
    preds,          \* preds[t]: t's causal closure
    cellValue,      \* published value of a cell
    cellWriter      \* transaction that published it

vars == << now, nextTxn, committed, aborted, externalized, writes,
           readValue, readFrom, preds, cellValue, cellWriter >>

\* What a read changes, and what a commit publishes.
readVars == << readValue, readFrom, preds >>
cellVars == << cellValue, cellWriter >>

Known == 0 .. nextTxn - 1

ReadSet(t) == {c \in Cell : readFrom[t][c] # NoTxn}

WriteSet(t) == {c \in Cell : writes[t][c] # NoValue}

-----------------------------------------------------------------------------

Init ==
    /\ now = 0
    /\ nextTxn = 0
    /\ committed = {}
    /\ aborted = {}
    /\ externalized = {}
    /\ writes = [t \in Txn |-> [c \in Cell |-> NoValue]]
    /\ readValue = [t \in Txn |-> [c \in Cell |-> NoValue]]
    /\ readFrom = [t \in Txn |-> [c \in Cell |-> NoTxn]]
    /\ preds = [t \in Txn |-> {}]
    /\ cellValue = [c \in Cell |-> NoValue]
    /\ cellWriter = [c \in Cell |-> NoTxn]

\* An accepted call advances the clock; at the ceiling every call is refused.
Tick ==
    /\ now < MaxTime
    /\ now' = now + 1

Begin ==
    /\ Tick
    /\ nextTxn < MaxTxn
    /\ nextTxn' = nextTxn + 1
    /\ UNCHANGED << committed, aborted, externalized, writes, readVars,
                    cellVars >>

-----------------------------------------------------------------------------
\* Only a commit closes a transaction to writes and reads: an aborted one
\* still takes both.
OpenAlways(t) == t \in Known

Open(t) == t \in Known /\ t \notin committed

Write(t, c, v) ==
    /\ Tick
    /\ Open(t)
    /\ writes' = [writes EXCEPT ![t][c] = v]
    /\ UNCHANGED << nextTxn, committed, aborted, externalized, readVars,
                    cellVars >>

\* What reading from w adds to the reader's closure.
ClosureOf(w) == {w} \cup preds[w]

\* The observation replaces an earlier one of the same cell; the earlier
\* writer stays in the closure.
Read(t, c) ==
    /\ Tick
    /\ Open(t)
    /\ cellValue[c] # NoValue
    /\ readValue' = [readValue EXCEPT ![t][c] = cellValue[c]]
    /\ readFrom' = [readFrom EXCEPT ![t][c] = cellWriter[c]]
    /\ preds' = [preds EXCEPT ![t] = @ \cup ClosureOf(cellWriter[c])]
    /\ UNCHANGED << nextTxn, committed, aborted, externalized, writes,
                    cellVars >>

-----------------------------------------------------------------------------
AnyReads(t) == t \in Txn

\* Freshness compares values, so a cell that went away and came back is fresh.
ReadsFresh(t) == \A c \in ReadSet(t) : cellValue[c] = readValue[t][c]

CommittedPreds(t) == preds[t] \subseteq committed

PredecessorsClean(t) == preds[t] \subseteq committed \ aborted

CommitValid(t) ==
    /\ t \in Known
    /\ t \notin committed
    /\ t \notin aborted
    /\ ReadsFresh(t)
    /\ PredecessorsClean(t)

Commit(t) ==
    /\ Tick
    /\ CommitValid(t)
    /\ committed' = committed \cup {t}
    /\ cellValue' = [c \in Cell |->
                        IF c \in WriteSet(t) THEN writes[t][c] ELSE cellValue[c]]
    /\ cellWriter' = [c \in Cell |->
                        IF c \in WriteSet(t) THEN t ELSE cellWriter[c]]
    /\ UNCHANGED << nextTxn, aborted, externalized, writes, readVars >>

-----------------------------------------------------------------------------
OnlyItself(t) == {t}

CascadeBothWays(t) ==
    {t} \cup {u \in Known : t \in preds[u]} \cup (preds[t] \ externalized)

\* One pass over all ids: no transitive step, because closures are stored
\* transitively.
Cascade(t) == {t} \cup {u \in Known : t \in preds[u]}

AbortAnyone(t) == t \in Known

AbortValid(t) == t \in Known /\ t \notin externalized

\* A committed transaction can be aborted, and so can an aborted one.  Its
\* published cells keep its values.
Abort(t) ==
    /\ Tick
    /\ AbortValid(t)
    /\ aborted' = aborted \cup Cascade(t)
    /\ UNCHANGED << nextTxn, committed, externalized, writes, readVars,
                    cellVars >>

ExternalizeOnCommit(t) ==
    /\ t \in committed
    /\ t \notin aborted
    /\ t \notin externalized

ExternalizeValid(t) ==
    /\ t \in committed
    /\ t \notin aborted
    /\ t \notin externalized
    /\ preds[t] \subseteq externalized

Externalize(t) ==
    /\ Tick
    /\ ExternalizeValid(t)
    /\ externalized' = externalized \cup {t}
    /\ UNCHANGED << nextTxn, committed, aborted, writes, readVars,
                    cellVars >>

-----------------------------------------------------------------------------
Next ==
    \/ Begin
    \/ \E t \in Txn :
        \/ \E c \in Cell, v \in Value : Write(t, c, v)
        \/ \E c \in Cell : Read(t, c)
        \/ Commit(t)
        \/ Abort(t)
        \/ Externalize(t)

Spec == Init /\ [][Next]_vars

-----------------------------------------------------------------------------
\* The shape of the state: flags and writers name known transactions.
TypeOK ==
    /\ now \in 0 .. MaxTime
    /\ nextTxn \in 0 .. MaxTxn
    /\ committed \subseteq Known
    /\ aborted \subseteq Known
    /\ externalized \subseteq Known
    /\ writes \in [Txn -> [Cell -> Value \cup {NoValue}]]
    /\ readValue \in [Txn -> [Cell -> Value \cup {NoValue}]]
    /\ readFrom \in [Txn -> [Cell -> Txn \cup {NoTxn}]]
    /\ preds \in [Txn -> SUBSET Txn]
    /\ cellValue \in [Cell -> Value \cup {NoValue}]
    /\ cellWriter \in [Cell -> Txn \cup {NoTxn}]

\* An id that has not been handed out has no record.
NoRecordYet == \A t \in Txn \ Known : preds[t] = {}

\* Whatever anybody has read from was committed, and stays so
\* (inv_writers_committed).
CommittedFrozen == \A t \in Txn : preds[t] \subseteq committed

\* A transaction's closure is a strict order below it: whatever a transaction
\* depends on depends in turn only on what the transaction also records, and
\* never on the transaction itself.  The one-pass cascade of abort and the
\* direct check of externalize are only right because of this.
CausalOrder ==
    \A t \in Txn :
        /\ t \notin preds[t]
        /\ \A p \in preds[t] : preds[p] \subseteq preds[t]

\* A published value is the last write of a committed transaction
\* (inv_cell_writer_wrote): a commit publishes its log whole.
CellProvenance ==
    \A c \in Cell :
        IF cellValue[c] = NoValue
        THEN cellWriter[c] = NoTxn
        ELSE /\ cellWriter[c] \in committed
             /\ writes[cellWriter[c]][c] = cellValue[c]

\* An observed value is still what its writer wrote (inv_read_provenance), even
\* where the cell has been overwritten since.
ReadProvenance ==
    \A t \in Txn : \A c \in ReadSet(t) :
        /\ readFrom[t][c] \in preds[t]
        /\ readValue[t][c] \in Value
        /\ writes[readFrom[t][c]][c] = readValue[t][c]

\* No committed transaction that still counts rests on an aborted one (the A3
\* predicate of the runtime's first version: a3_unpropagated_witness).  Aborts
\* arrive in any order relative to the reads and commits of the dependents.
NoUnpropagatedA3 ==
    \A t \in committed \ aborted : preds[t] \cap aborted = {}

\* An effect leaves only after every effect it rests on has left.
ReleasedInOrder ==
    \A t \in externalized : t \in committed /\ preds[t] \subseteq externalized

\* No effect that has left is retracted, and none rests on a retracted one
\* (a3_witness): output commit against a review that may come at any time.
NoA3 ==
    \A t \in externalized : ({t} \cup preds[t]) \cap aborted = {}

\* The invariant the runtime carries (wf), inductive as a whole.
L2Inv ==
    /\ TypeOK
    /\ NoRecordYet
    /\ CommittedFrozen
    /\ CausalOrder
    /\ CellProvenance
    /\ ReadProvenance
    /\ NoUnpropagatedA3
    /\ ReleasedInOrder
    /\ NoA3

\* The last observation of each cell of a committed transaction that still
\* counts is backed by a writer that still counts and wrote exactly the value
\* observed (lemma_l2_reads_supported): neither a late write of the writer nor its
\* retraction can leave the reader behind.
ReadsSupported ==
    \A t \in committed \ aborted : \A c \in ReadSet(t) :
        LET w == readFrom[t][c] IN
        /\ w \in committed \ aborted
        /\ writes[w][c] = readValue[t][c]

\* Once a transaction has committed, what it wrote, read and rests on never
\* changes again, whatever calls are still made on it.
ProvenanceFrozen ==
    [][\A t \in committed :
        /\ t \in committed'
        /\ writes'[t] = writes[t]
        /\ readValue'[t] = readValue[t]
        /\ readFrom'[t] = readFrom[t]
        /\ preds'[t] = preds[t]]_vars

\* Nothing is held for ever: a committed transaction's effects leave or are
\* retracted, unless the clock has reached its ceiling and froze the runtime.
HeldEffectsLeave ==
    \A t \in Txn :
        t \in committed ~>
            (t \in externalized \/ t \in aborted \/ now = MaxTime)

-----------------------------------------------------------------------------
\* The runtime implements output commit (module OutputCommit): a transaction is
\* held from its commit until its effects leave or are retracted.
Status(t) ==
    IF t \in aborted THEN "retracted"
    ELSE IF t \in externalized THEN "released"
    ELSE IF t \in committed THEN "held"
    ELSE "working"

OC == INSTANCE OutputCommit WITH
        Effect <- Txn,
        status <- [t \in Txn |-> Status(t)],
        deps <- preds

\* Every call is a step of the abstract output commit protocol or invisible to
\* it: effects are finished and released only after what they rest on, and a
\* retraction takes the effect itself and exactly those that rest on it, the
\* unfinished ones included, so that it neither leaves a dependent behind nor
\* takes an effect that does not depend on what was reviewed.
ImplementsOutputCommit == OC!Spec

=============================================================================
