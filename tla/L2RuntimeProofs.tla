--------------------------- MODULE L2RuntimeProofs ---------------------------
(****************************************************************************)
(* Proofs about the L2 runtime for any cells, values and ceilings: the        *)
(* runtime itself, its stamps, what a release pass leaves held for any use of *)
(* the runtime between the passes, and at the end what the closure of the     *)
(* provenance detectors computes.                                            *)
(****************************************************************************)
EXTENDS L2Temporal, L2ReleasePass, Provenance, FiniteSetTheorems,
        WellFoundedInduction, TLAPS

\* Known transactions are transaction ids, and NoTxn is none.
LEMMA KnownTxn == TypeOK => Known \subseteq Txn /\ NoTxn \notin Txn
  BY L2Assumption DEF TypeOK, Known, Txn, NoTxn

\* An accepted call leaves the clock in its range.
LEMMA TickType == TypeOK /\ Tick => now' \in 0 .. MaxTime
  BY L2Assumption DEF TypeOK, Tick

\* The initial state satisfies the inductive invariant.
LEMMA InitInv == Init => L2Inv
  BY L2Assumption DEF Init, L2Inv, TypeOK, NoRecordYet, CommittedFrozen, CausalOrder,
     CellProvenance, ReadProvenance, NoUnpropagatedA3, ReleasedInOrder, NoA3,
     Known, Txn, NoTxn, ReadSet

-----------------------------------------------------------------------------
\* A begun transaction has an empty record, so nothing but the id space moves.
LEMMA BeginInv == L2Inv /\ Begin => L2Inv'
<1> SUFFICES ASSUME L2Inv, Begin PROVE L2Inv'
  OBVIOUS
<1>1. Known \subseteq Known'
  BY L2Assumption DEF L2Inv, TypeOK, Begin, Known
<1>2. TypeOK'
  <2>1. nextTxn' \in 0 .. MaxTxn
    BY L2Assumption DEF L2Inv, TypeOK, Begin
  <2> QED
    BY <1>1, <2>1, TickType DEF L2Inv, TypeOK, Begin, readVars, cellVars
<1>3. NoRecordYet'
  BY <1>1 DEF L2Inv, NoRecordYet, Begin, readVars
<1> QED
  BY <1>2, <1>3 DEF Begin, readVars, cellVars, L2Inv, CommittedFrozen, CausalOrder,
     CellProvenance, ReadProvenance, NoUnpropagatedA3, ReleasedInOrder, NoA3,
     ReadSet

\* A write touches only a transaction that is not committed, hence no writer of
\* a published cell and no origin of a read.
LEMMA WriteInv ==
  ASSUME NEW t \in Txn, NEW c \in Cell, NEW v \in Value, L2Inv, Write(t, c, v)
  PROVE  L2Inv'
<1>1. /\ t \notin committed /\ Known' = Known
      /\ UNCHANGED << committed, aborted, externalized, readValue, readFrom,
                      preds, cellValue, cellWriter >>
  BY DEF Write, Open, Known, readVars, cellVars
<1>2. TypeOK'
  BY <1>1, TickType DEF L2Inv, TypeOK, Write
<1>3. \A w \in committed : w \in Txn /\ writes'[w] = writes[w]
  BY <1>1, KnownTxn DEF Write, L2Inv, TypeOK
<1>4. CellProvenance'
  BY <1>1, <1>3 DEF L2Inv, CellProvenance
<1>5. ReadProvenance'
  BY <1>1, <1>3 DEF L2Inv, ReadProvenance, CommittedFrozen, ReadSet
<1> QED
  BY <1>1, <1>2, <1>4, <1>5 DEF L2Inv, NoRecordYet, CommittedFrozen, CausalOrder,
     NoUnpropagatedA3, ReleasedInOrder, NoA3

\* The writer of a published cell is committed, its closure is closed, and the
\* cell holds what it wrote.
LEMMA PublishedCell ==
  ASSUME L2Inv, NEW c \in Cell, cellValue[c] # NoValue
  PROVE  LET w == cellWriter[c] IN
         /\ w \in committed
         /\ w \in Txn
         /\ w # NoTxn
         /\ ClosureOf(w) \subseteq committed
         /\ ClosureOf(w) \subseteq Txn
         /\ \A p \in ClosureOf(w) : preds[p] \subseteq ClosureOf(w)
         /\ cellValue[c] \in Value
         /\ writes[w][c] = cellValue[c]
  BY KnownTxn DEF L2Inv, TypeOK, CellProvenance, CommittedFrozen, CausalOrder,
     ClosureOf

\* A read adds the writer's whole closure, which is committed and closed, to a
\* transaction that is not committed.
LEMMA ReadInv ==
  ASSUME NEW t \in Txn, NEW c \in Cell, L2Inv, Read(t, c)
  PROVE  L2Inv'
<1> DEFINE w == cellWriter[c]
           K == ClosureOf(w)
<1>1. /\ t \in Known /\ t \notin committed /\ Known' = Known
      /\ UNCHANGED << committed, aborted, externalized, writes,
                      cellValue, cellWriter >>
      /\ cellValue[c] # NoValue
  BY DEF Read, Open, Known, readVars, cellVars
<1>2. /\ w \in committed /\ w \in Txn /\ w # NoTxn
      /\ K \subseteq committed /\ K \subseteq Txn
      /\ \A p \in K : preds[p] \subseteq K
      /\ cellValue[c] \in Value
      /\ writes[w][c] = cellValue[c]
      /\ w \in K
  BY <1>1, PublishedCell DEF ClosureOf
<1>3. /\ preds' = [preds EXCEPT ![t] = @ \cup K]
      /\ readValue' = [readValue EXCEPT ![t][c] = cellValue[c]]
      /\ readFrom' = [readFrom EXCEPT ![t][c] = w]
  BY DEF Read
<1> HIDE DEF w, K
<1>4. TypeOK'
  BY <1>1, <1>2, <1>3, TickType DEF L2Inv, TypeOK, Read
<1>5. /\ preds'[t] = preds[t] \cup K
      /\ \A u \in Txn : u # t => preds'[u] = preds[u]
  BY <1>3 DEF L2Inv, TypeOK
<1>6. CommittedFrozen'
  BY <1>1, <1>2, <1>5 DEF L2Inv, CommittedFrozen
<1>7. CausalOrder'
  <2> SUFFICES ASSUME NEW u \in Txn
               PROVE  /\ u \notin preds'[u]
                      /\ \A p \in preds'[u] : preds'[p] \subseteq preds'[u]
    BY DEF CausalOrder
  <2>1. \A p \in preds'[u] : p \in committed /\ p \in Txn /\ p # t
    BY <1>1, <1>6, KnownTxn DEF CommittedFrozen, L2Inv, TypeOK
  <2>2. CASE u = t
    BY <2>1, <2>2, <1>1, <1>2, <1>5 DEF L2Inv, CausalOrder
  <2>3. CASE u # t
    BY <2>1, <2>3, <1>5 DEF L2Inv, CausalOrder
  <2> QED BY <2>2, <2>3
<1>8. CellProvenance'
  BY <1>1 DEF L2Inv, CellProvenance
<1>9. ReadProvenance'
  <2> SUFFICES ASSUME NEW u \in Txn, NEW d \in Cell, readFrom'[u][d] # NoTxn
               PROVE  /\ readFrom'[u][d] \in preds'[u]
                      /\ readValue'[u][d] \in Value
                      /\ writes'[readFrom'[u][d]][d] = readValue'[u][d]
    BY DEF ReadProvenance, ReadSet
  <2>1. CASE u = t /\ d = c
    BY <2>1, <1>1, <1>2, <1>3, <1>5 DEF L2Inv, TypeOK
  <2>2. CASE ~(u = t /\ d = c)
    <3>1. readFrom'[u][d] = readFrom[u][d] /\ readValue'[u][d] = readValue[u][d]
      BY <2>2, <1>3 DEF L2Inv, TypeOK
    <3> QED
      BY <3>1, <1>1, <1>5 DEF L2Inv, ReadProvenance, ReadSet
  <2> QED BY <2>1, <2>2
<1>10. NoUnpropagatedA3' /\ ReleasedInOrder' /\ NoA3'
  <2>1. \A u \in committed : u \in Txn /\ preds'[u] = preds[u]
    BY <1>1, <1>5, KnownTxn DEF L2Inv, TypeOK
  <2> QED
    BY <2>1, <1>1 DEF L2Inv, NoUnpropagatedA3, ReleasedInOrder, NoA3
<1>11. NoRecordYet'
  BY <1>1, <1>5 DEF L2Inv, NoRecordYet
<1> QED
  BY <1>4, <1>6, <1>7, <1>8, <1>9, <1>10, <1>11 DEF L2Inv

\* A commit publishes what the transaction wrote last; its closure is clean by
\* the guard.
LEMMA CommitInv ==
  ASSUME NEW t \in Txn, L2Inv, Commit(t)
  PROVE  L2Inv'
<1>1. /\ t \in Known /\ t \notin committed /\ Known' = Known
      /\ preds[t] \subseteq committed \ aborted
      /\ committed' = committed \cup {t}
      /\ UNCHANGED << aborted, externalized, writes, readValue, readFrom, preds >>
  BY DEF Commit, CommitValid, PredecessorsClean, Known, readVars
<1>2. \A c \in Cell : \/ /\ cellValue'[c] = writes[t][c]
                         /\ cellValue'[c] # NoValue
                         /\ cellWriter'[c] = t
                      \/ /\ cellValue'[c] = cellValue[c]
                         /\ cellWriter'[c] = cellWriter[c]
  BY DEF Commit, WriteSet
<1>3. TypeOK'
  BY <1>1, TickType DEF L2Inv, TypeOK, Commit
<1>4. CommittedFrozen' /\ CausalOrder' /\ ReadProvenance'
  BY <1>1 DEF L2Inv, CommittedFrozen, CausalOrder, ReadProvenance, ReadSet
<1>5. CellProvenance'
  BY <1>1, <1>2 DEF L2Inv, CellProvenance
<1>6. NoRecordYet' /\ NoUnpropagatedA3' /\ ReleasedInOrder' /\ NoA3'
  BY <1>1 DEF L2Inv, NoRecordYet, NoUnpropagatedA3, ReleasedInOrder, NoA3
<1> QED
  BY <1>3, <1>4, <1>5, <1>6 DEF L2Inv

\* The cascade reaches every dependent because closures are transitive, and
\* nothing released because a released transaction's closure is released.
LEMMA AbortInv ==
  ASSUME NEW t \in Txn, L2Inv, Abort(t)
  PROVE  L2Inv'
<1>1. /\ t \in Known /\ t \notin externalized /\ Known' = Known
      /\ aborted' = aborted \cup Cascade(t)
      /\ UNCHANGED << committed, externalized, writes, readValue, readFrom,
                      preds, cellValue, cellWriter >>
  BY DEF Abort, AbortValid, Known, readVars, cellVars
<1>2. TypeOK'
  BY <1>1, TickType DEF L2Inv, TypeOK, Abort, Cascade
<1>3. NoUnpropagatedA3'
  <2> SUFFICES ASSUME NEW u \in committed, u \notin aborted', NEW p \in preds[u],
                      p \in aborted'
               PROVE  FALSE
    BY <1>1 DEF NoUnpropagatedA3
  <2>1. u \in Known /\ u \in Txn /\ t \notin preds[u]
    BY <1>1, KnownTxn DEF L2Inv, TypeOK, Cascade
  <2>2. p \notin aborted
    BY <1>1 DEF L2Inv, NoUnpropagatedA3
  <2>3. p = t \/ t \in preds[p]
    BY <1>1, <2>2 DEF Cascade
  <2>4. preds[p] \subseteq preds[u]
    BY <2>1 DEF L2Inv, CausalOrder
  <2> QED BY <2>1, <2>3, <2>4
<1>4. NoA3'
  <2> SUFFICES ASSUME NEW u \in externalized, NEW p \in {u} \cup preds[u],
                      p \in Cascade(t)
               PROVE  FALSE
    BY <1>1 DEF NoA3, L2Inv
  <2>1. u \in Txn /\ preds[u] \subseteq externalized
    BY KnownTxn DEF L2Inv, TypeOK, ReleasedInOrder
  <2>2. p \in externalized /\ preds[p] \subseteq externalized
    BY <2>1 DEF L2Inv, ReleasedInOrder
  <2> QED BY <1>1, <2>2 DEF Cascade
<1> QED
  BY <1>1, <1>2, <1>3, <1>4 DEF L2Inv, NoRecordYet, CommittedFrozen, CausalOrder,
     CellProvenance, ReadProvenance, ReadSet, ReleasedInOrder

\* Only a transaction whose closure has left leaves.
LEMMA ExternalizeInv ==
  ASSUME NEW t \in Txn, L2Inv, Externalize(t)
  PROVE  L2Inv'
<1>1. /\ t \in committed /\ t \notin aborted /\ Known' = Known
      /\ preds[t] \subseteq externalized
      /\ externalized' = externalized \cup {t}
      /\ UNCHANGED << committed, aborted, writes, readValue, readFrom, preds,
                      cellValue, cellWriter >>
  BY DEF Externalize, ExternalizeValid, Known, readVars, cellVars
<1>2. TypeOK'
  BY <1>1, TickType DEF L2Inv, TypeOK, Externalize
<1>3. ReleasedInOrder'
  BY <1>1 DEF L2Inv, ReleasedInOrder
<1>4. NoA3'
  BY <1>1 DEF L2Inv, NoUnpropagatedA3, NoA3
<1> QED
  BY <1>1, <1>2, <1>3, <1>4 DEF L2Inv, NoRecordYet, CommittedFrozen, CausalOrder,
     CellProvenance, ReadProvenance, ReadSet, NoUnpropagatedA3

\* L2Inv is inductive.
LEMMA NextInv == L2Inv /\ [Next]_vars => L2Inv'
<1> SUFFICES ASSUME L2Inv, [Next]_vars PROVE L2Inv'
  OBVIOUS
<1>1. CASE UNCHANGED vars
  BY <1>1 DEF vars, L2Inv, TypeOK, NoRecordYet, CommittedFrozen, CausalOrder, CellProvenance,
     ReadProvenance, NoUnpropagatedA3, ReleasedInOrder, NoA3, ReadSet, Known
<1>2. CASE Next
  BY <1>2, BeginInv, WriteInv, ReadInv, CommitInv, AbortInv, ExternalizeInv
     DEF Next
<1> QED BY <1>1, <1>2

\* The inductive invariant holds in every reachable state of the runtime.
THEOREM Invariance == Spec => []L2Inv
<1> QED BY InitInv, NextInv, PTL DEF Spec

\* Type correctness of the runtime's records and maps.
THEOREM TypeCorrect == Spec => []TypeOK
<1>1. L2Inv => TypeOK
  BY DEF L2Inv
<1> QED BY <1>1, Invariance, PTL

-----------------------------------------------------------------------------
\* Output commit: whatever order reviews, commits and releases come in, no
\* effect that has left rests on a retracted transaction or is one.
THEOREM OutputCommitSafety == Spec => []NoA3
<1>1. L2Inv => NoA3
  BY DEF L2Inv
<1> QED BY <1>1, Invariance, PTL

\* An effect that has left rests only on effects that have left.
THEOREM EffectsLeaveInOrder == Spec => []ReleasedInOrder
<1>1. L2Inv => ReleasedInOrder
  BY DEF L2Inv
<1> QED BY <1>1, Invariance, PTL

\* The cascade leaves no committed dependent of an aborted transaction behind.
THEOREM CascadeComplete == Spec => []NoUnpropagatedA3
<1>1. L2Inv => NoUnpropagatedA3
  BY DEF L2Inv
<1> QED BY <1>1, Invariance, PTL

\* Causal closures are transitive and irreflexive: dependencies are acyclic.
THEOREM CausalityIsAnOrder == Spec => []CausalOrder
<1>1. L2Inv => CausalOrder
  BY DEF L2Inv
<1> QED BY <1>1, Invariance, PTL

\* What a committed, unaborted transaction last observed in a cell is backed by a
\* committed, unaborted writer of that value.
THEOREM ReadsAreSupported == Spec => []ReadsSupported
<1>1. ASSUME L2Inv PROVE ReadsSupported
  <2> SUFFICES ASSUME NEW t \in committed \ aborted, NEW c \in ReadSet(t)
               PROVE  /\ readFrom[t][c] \in committed \ aborted
                      /\ writes[readFrom[t][c]][c] = readValue[t][c]
    BY DEF ReadsSupported
  <2>1. t \in Txn /\ c \in Cell
    BY <1>1, KnownTxn DEF L2Inv, TypeOK, ReadSet
  <2>2. /\ readFrom[t][c] \in preds[t]
        /\ writes[readFrom[t][c]][c] = readValue[t][c]
    BY <1>1, <2>1 DEF L2Inv, ReadProvenance
  <2>3. preds[t] \subseteq committed \ aborted
    BY <1>1, <2>1 DEF L2Inv, CommittedFrozen, NoUnpropagatedA3
  <2> QED BY <2>2, <2>3
<1> QED BY <1>1, Invariance, PTL

\* The record of a committed transaction is never rewritten.
THEOREM CommittedRecordsAreFrozen == Spec => ProvenanceFrozen
<1> DEFINE Frozen == \A t \in committed :
                        /\ t \in committed'
                        /\ writes'[t] = writes[t]
                        /\ readValue'[t] = readValue[t]
                        /\ readFrom'[t] = readFrom[t]
                        /\ preds'[t] = preds[t]
<1>1. ASSUME L2Inv, [Next]_vars PROVE [Frozen]_vars
  <2>1. CASE UNCHANGED vars
    BY <2>1
  <2>2. ASSUME NEW t \in Txn, NEW c \in Cell, NEW v \in Value, Write(t, c, v)
        PROVE  Frozen
    BY <1>1, <2>2, KnownTxn DEF Write, Open, readVars, L2Inv, TypeOK
  <2>3. ASSUME NEW t \in Txn, NEW c \in Cell, Read(t, c)
        PROVE  Frozen
    BY <1>1, <2>3, KnownTxn DEF Read, Open, L2Inv, TypeOK
  <2>4. CASE \/ Begin
             \/ \E t \in Txn : Commit(t) \/ Abort(t) \/ Externalize(t)
    BY <2>4 DEF Begin, Commit, Abort, Externalize, readVars
  <2> QED BY <1>1, <2>1, <2>2, <2>3, <2>4 DEF Next
<1> QED BY <1>1, Invariance, PTL DEF Spec, ProvenanceFrozen

-----------------------------------------------------------------------------
\* The abstract state the runtime shows.
status == [t \in Txn |-> Status(t)]

\* The initial runtime shows the initial output-commit state.
LEMMA InitRefines == Init => OC!Init
  BY DEF Init, OC!Init, Status

\* A read depends on a finished writer and on all that the writer depends on.
LEMMA ReadRefines ==
  ASSUME L2Inv, NEW t \in Txn, NEW c \in Cell, Read(t, c)
  PROVE  \E D \in SUBSET Txn : OC!Depend(t, D)
<1> DEFINE D == ClosureOf(cellWriter[c])
<1>1. /\ t \notin committed /\ cellValue[c] # NoValue
      /\ committed' = committed /\ aborted' = aborted
      /\ externalized' = externalized
      /\ preds' = [preds EXCEPT ![t] = @ \cup D]
  BY DEF Read, Open
<1>2. /\ D \subseteq committed /\ D \subseteq Txn
      /\ \A p \in D : preds[p] \subseteq D
  BY <1>1, PublishedCell
<1> HIDE DEF D
<1>3. t \notin externalized /\ t \notin D
  BY <1>1, <1>2 DEF L2Inv, ReleasedInOrder
<1>4. Status(t) \in {"working", "retracted"}
  BY <1>1, <1>3 DEF Status
<1>5. \A d \in D : Status(d) # "working"
  BY <1>2 DEF Status
<1>6. [u \in Txn |-> Status(u)]' = [u \in Txn |-> Status(u)]
  BY <1>1 DEF Status
<1>7. OC!Depend(t, D)
  BY <1>1, <1>2, <1>3, <1>4, <1>5, <1>6 DEF OC!Depend
<1> QED BY <1>2, <1>7

\* A commit finishes an effect that rests on nothing retracted.
LEMMA CommitRefines ==
  ASSUME L2Inv, NEW t \in Txn, Commit(t)
  PROVE  OC!Finish(t)
<1>1. /\ t \notin committed /\ t \notin aborted
      /\ committed' = committed \cup {t}
      /\ aborted' = aborted /\ externalized' = externalized /\ preds' = preds
      /\ preds[t] \subseteq committed \ aborted
  BY DEF Commit, CommitValid, PredecessorsClean, readVars
<1>2. t \notin externalized /\ preds[t] \subseteq Txn
  BY <1>1 DEF L2Inv, ReleasedInOrder, TypeOK
<1>3. \A d \in preds[t] : Status(d) \in {"held", "released"}
  BY <1>1 DEF Status
<1>4. [u \in Txn |-> Status(u)]' = [[u \in Txn |-> Status(u)] EXCEPT ![t] = "held"]
  BY <1>1, <1>2 DEF Status
<1> QED BY <1>1, <1>2, <1>3, <1>4 DEF OC!Finish, Status

\* An abort retracts the transaction and what rests on it, and no more.
LEMMA AbortRefines ==
  ASSUME L2Inv, L2Inv', NEW t \in Txn, Abort(t)
  PROVE  OC!Retract(t)
<1>1. /\ aborted' = aborted \cup Cascade(t)
      /\ committed' = committed /\ externalized' = externalized
      /\ preds' = preds /\ t \in Known
  BY DEF Abort, AbortValid, readVars
<1>2. OC!RestingOn(t) = Cascade(t)
  <2>1. ASSUME NEW u \in Txn, t \in preds[u] PROVE u \in Known
    BY <2>1 DEF L2Inv, NoRecordYet
  <2>2. Known \subseteq Txn
    BY KnownTxn DEF L2Inv
  <2> QED BY <2>1, <2>2 DEF OC!RestingOn, Cascade
<1>3. Cascade(t) \cap externalized = {}
  BY <1>1 DEF L2Inv, NoA3
<1>4. \A d \in OC!RestingOn(t) : Status(d) # "released" /\ d \in Txn
  BY <1>2, <1>3, KnownTxn DEF Status, L2Inv, Cascade
<1>5. [u \in Txn |-> Status(u)]' =
        [d \in Txn |-> IF d \in OC!RestingOn(t) THEN "retracted"
                       ELSE [u \in Txn |-> Status(u)][d]]
  BY <1>1, <1>2 DEF Status
<1> QED BY <1>1, <1>4, <1>5 DEF OC!Retract

\* A release follows the release of all the effect rests on.
LEMMA ExternalizeRefines ==
  ASSUME L2Inv, NEW t \in Txn, Externalize(t)
  PROVE  OC!Release(t)
<1>1. /\ t \in committed /\ t \notin aborted /\ t \notin externalized
      /\ preds[t] \subseteq externalized
      /\ externalized' = externalized \cup {t}
      /\ committed' = committed /\ aborted' = aborted /\ preds' = preds
  BY DEF Externalize, ExternalizeValid, readVars
<1>2. \A d \in preds[t] : d \in Txn /\ Status(d) = "released"
  BY <1>1 DEF Status, L2Inv, TypeOK, NoA3
<1>3. [u \in Txn |-> Status(u)]' =
        [[u \in Txn |-> Status(u)] EXCEPT ![t] = "released"]
  BY <1>1 DEF Status
<1> QED BY <1>1, <1>2, <1>3 DEF OC!Release, Status

\* A step of the runtime is a step of output commit or invisible to it.
LEMMA StepRefines == L2Inv /\ L2Inv' /\ [Next]_vars => [OC!Next]_(OC!ocVars)
<1> SUFFICES ASSUME L2Inv, L2Inv', [Next]_vars
             PROVE  OC!Next \/ (status' = status /\ preds' = preds)
  BY DEF OC!ocVars, status
<1>1. CASE UNCHANGED << committed, aborted, externalized, preds >>
  BY <1>1 DEF status, Status
<1>2. CASE \/ Begin
           \/ \E t \in Txn : \E c \in Cell, v \in Value : Write(t, c, v)
           \/ UNCHANGED vars
  BY <1>2, <1>1 DEF Begin, Write, readVars, vars
<1>3. ASSUME NEW t \in Txn, \/ \E c \in Cell : Read(t, c)
                            \/ Commit(t)
                            \/ Abort(t)
                            \/ Externalize(t)
      PROVE  OC!Next
  <2>1. \/ \E D \in SUBSET Txn : OC!Depend(t, D)
        \/ OC!Finish(t) \/ OC!Retract(t) \/ OC!Release(t)
    BY <1>3, ReadRefines, CommitRefines, AbortRefines, ExternalizeRefines
  <2> QED BY <2>1 DEF OC!Next
<1> QED
  BY <1>2, <1>3 DEF Next

\* The runtime implements output commit.
THEOREM RuntimeImplementsOutputCommit == Spec => ImplementsOutputCommit
<1> QED
  BY InitRefines, StepRefines, Invariance, PTL
     DEF Spec, ImplementsOutputCommit, OC!Spec

-----------------------------------------------------------------------------

\* A stamped call is a call, so the runtime's invariant holds here too.
LEMMA StampedNext == [TNext]_tvars => [Next]_vars
  BY DEF TNext, tvars, Next, TRead, TCommit

\* The stamps add nothing a step of the runtime depends on.
LEMMA StampedInvariance == TSpec => []L2Inv
<1>1. TInit => L2Inv
  BY InitInv DEF TInit
<1>2. L2Inv /\ [TNext]_tvars => L2Inv'
  BY StampedNext, NextInv
<1> QED BY <1>1, <1>2, PTL DEF TSpec

-----------------------------------------------------------------------------
\* Without commits and reads there is nothing to stamp.
LEMMA InitTInv == TInit => L2TInv
  BY L2Assumption DEF TInit, Init, L2TInv, StampsOK, ReadTemporal,
     CausalityFollowsCommits, LatestWriterPublished, RecordIsLastObserved,
     LastReadsSerializable, ReadsWereCommitted, ReadSet, NoTxn

\* Committed transactions are ids with a stamp in the past.
LEMMA CommittedStamps ==
  ASSUME L2Inv, L2TInv, NEW w \in committed
  PROVE  /\ w \in Txn
         /\ commitTime[w] \in Nat
         /\ commitTime[w] < now
         /\ now \in Nat
  BY KnownTxn, L2Assumption DEF L2Inv, TypeOK, L2TInv, StampsOK

\* Calls that move the clock and change neither commits, closures, reads, the
\* committed transactions' writes, cells nor stamps preserve the invariant.
LEMMA QuietStep ==
  ASSUME L2Inv, L2TInv, Tick,
         UNCHANGED << committed, readValue, readFrom, preds, cellValue,
                      cellWriter, readAt, commitTime, observed >>,
         \A w \in committed : writes'[w] = writes[w]
  PROVE  L2TInv'
<1>1. now \in Nat /\ now' = now + 1
  BY L2Assumption DEF L2Inv, TypeOK, Tick
<1>2. StampsOK'
  BY <1>1, CommittedStamps, L2Assumption DEF L2TInv, StampsOK, ReadSet
<1>3. \A w \in committed : WriteSet(w)' = WriteSet(w)
  BY DEF WriteSet
<1>4. LatestWriterPublished' /\ ReadTemporal' /\ CausalityFollowsCommits'
  BY <1>3 DEF L2TInv, LatestWriterPublished, ReadTemporal,
     CausalityFollowsCommits, ReadSet
<1>5. ASSUME NEW time, NEW c, NEW v
      PROVE  LeftBefore(time, c, v)' = LeftBefore(time, c, v)
  BY <1>3 DEF LeftBefore, WritersBefore
<1>6. LastReadsSerializable' /\ ReadsWereCommitted' /\ RecordIsLastObserved'
  BY <1>5 DEF L2TInv, LastReadsSerializable, ReadsWereCommitted,
     RecordIsLastObserved, ReadSet
<1> QED BY <1>2, <1>4, <1>6 DEF L2TInv

\* A published cell holds what the last of all the commits to it wrote.
LEMMA PublishedIsLeft ==
  ASSUME L2Inv, L2TInv, NEW c \in Cell, cellValue[c] # NoValue
  PROVE  LeftBefore(now, c, cellValue[c])
<1> DEFINE w == cellWriter[c]
<1>1. /\ w \in committed /\ writes[w][c] = cellValue[c]
  BY PublishedCell
<1>2. w \in WritersBefore(now, c)
  BY <1>1, CommittedStamps DEF WritersBefore, WriteSet
<1>3. \A u \in WritersBefore(now, c) : commitTime[u] <= commitTime[w]
  BY DEF L2TInv, LatestWriterPublished, WritersBefore
<1> QED BY <1>1, <1>2, <1>3 DEF LeftBefore

\* The newest observation of a cell is the record's.
LEMMA TReadKeepsRecord ==
  ASSUME L2Inv, L2TInv, NEW t \in Txn, NEW c \in Cell, TRead(t, c)
  PROVE  RecordIsLastObserved'
<1> DEFINE new == [cell |-> c, value |-> cellValue[c], at |-> now]
<1>1. /\ cellValue[c] # NoValue
      /\ readFrom' = [readFrom EXCEPT ![t][c] = cellWriter[c]]
      /\ readValue' = [readValue EXCEPT ![t][c] = cellValue[c]]
      /\ readAt' = [readAt EXCEPT ![t][c] = now]
      /\ observed' = [observed EXCEPT ![t] = @ \cup {new}]
  BY DEF TRead, Read, Stamp, Observation
<1>2. /\ cellWriter[c] # NoTxn /\ cellValue[c] \in Value
      /\ now \in Nat
  BY <1>1, PublishedCell, L2Assumption DEF L2Inv, TypeOK
<1>3. \A u \in Txn : \A d \in Cell :
         IF u = t /\ d = c
         THEN readFrom'[u][d] # NoTxn /\ readValue'[u][d] = new.value /\ readAt'[u][d] = now
         ELSE /\ readFrom'[u][d] = readFrom[u][d]
              /\ readValue'[u][d] = readValue[u][d]
              /\ readAt'[u][d] = readAt[u][d]
  BY <1>1, <1>2 DEF L2Inv, TypeOK, L2TInv, StampsOK
<1>4. \A u \in Txn : observed'[u] = IF u = t THEN observed[u] \cup {new} ELSE observed[u]
  BY <1>1 DEF L2TInv, StampsOK
<1>5. \A u \in Txn : \A d \in ReadSet(u) : readAt[u][d] < now /\ readAt[u][d] \in Nat
  BY L2Assumption DEF L2TInv, StampsOK, ReadSet
<1>6. ASSUME NEW u \in Txn, NEW o \in observed'[u]
      PROVE  /\ o.cell \in Cell /\ readFrom'[u][o.cell] # NoTxn
             /\ o.at \in 0 .. readAt'[u][o.cell]
             /\ o.at = readAt'[u][o.cell] => o.value = readValue'[u][o.cell]
  <2>1. CASE u = t /\ o = new
    BY <2>1, <1>2, <1>3
  <2>2. CASE o \in observed[u]
    <3>1. /\ o.cell \in ReadSet(u)
          /\ o.at \in 0 .. readAt[u][o.cell]
          /\ o.at = readAt[u][o.cell] => o.value = readValue[u][o.cell]
      BY <2>2 DEF L2TInv, RecordIsLastObserved
    <3>2. o.cell \in Cell /\ readFrom[u][o.cell] # NoTxn
      BY <3>1 DEF ReadSet
    <3>3. readAt[u][o.cell] < now /\ readAt[u][o.cell] \in Nat
      BY <3>1, <1>5
    <3>4. CASE u = t /\ o.cell = c
      BY <3>1, <3>2, <3>3, <3>4, <1>2, <1>3
    <3>5. CASE ~ (u = t /\ o.cell = c)
      BY <3>1, <3>2, <3>5, <1>3
    <3> QED BY <3>4, <3>5
  <2> QED BY <2>1, <2>2, <1>4, <1>6
<1>7. ASSUME NEW u \in Txn, NEW d \in Cell, readFrom'[u][d] # NoTxn
      PROVE  [cell |-> d, value |-> readValue'[u][d], at |-> readAt'[u][d]] \in observed'[u]
  <2>1. CASE u = t /\ d = c
    BY <2>1, <1>3, <1>4
  <2>2. CASE ~ (u = t /\ d = c)
    <3>1. [cell |-> d, value |-> readValue[u][d], at |-> readAt[u][d]] \in observed[u]
      BY <2>2, <1>3, <1>7 DEF L2TInv, RecordIsLastObserved, ReadSet
    <3> QED BY <2>2, <3>1, <1>3, <1>4
  <2> QED BY <2>1, <2>2
<1> HIDE DEF new
<1> QED BY <1>6, <1>7 DEF RecordIsLastObserved, ReadSet

\* An observation of a published cell is later than its writer's commit.
LEMMA TReadInv ==
  ASSUME L2Inv, L2TInv, NEW t \in Txn, NEW c \in Cell, TRead(t, c)
  PROVE  L2TInv'
<1>1. /\ t \notin committed
      /\ now' = now + 1
      /\ now < MaxTime
      /\ cellValue[c] # NoValue
      /\ readFrom' = [readFrom EXCEPT ![t][c] = cellWriter[c]]
      /\ readValue' = [readValue EXCEPT ![t][c] = cellValue[c]]
      /\ preds' = [preds EXCEPT ![t] = @ \cup ClosureOf(cellWriter[c])]
      /\ readAt' = [readAt EXCEPT ![t][c] = now]
      /\ observed' = [observed EXCEPT ![t] =
             @ \cup {[cell |-> c, value |-> cellValue[c], at |-> now]}]
      /\ UNCHANGED << committed, writes, cellValue, cellWriter, commitTime >>
  BY DEF TRead, Read, Open, Tick, Stamp, Observation, cellVars
<1>2. /\ cellWriter[c] \in committed
      /\ commitTime[cellWriter[c]] < now
      /\ now \in Nat
  BY <1>1, PublishedCell, CommittedStamps
<1>3. \A u \in committed : /\ readFrom'[u] = readFrom[u]
                           /\ readValue'[u] = readValue[u]
                           /\ readAt'[u] = readAt[u]
                           /\ preds'[u] = preds[u]
  BY <1>1, CommittedStamps DEF L2Inv, TypeOK, L2TInv, StampsOK
<1>4. \A u \in Txn, d \in Cell :
         \/ /\ u = t /\ d = c
            /\ readFrom'[u][d] = cellWriter[c]
            /\ readAt'[u][d] = now
         \/ /\ readFrom'[u][d] = readFrom[u][d]
            /\ readAt'[u][d] = readAt[u][d]
  BY <1>1 DEF L2Inv, TypeOK, L2TInv, StampsOK
<1>5. StampsOK'
  <2>1. readAt' \in [Txn -> [Cell -> 0 .. MaxTime]]
    BY <1>1, <1>2, L2Assumption DEF L2TInv, StampsOK
  <2>4. observed' \in [Txn -> SUBSET [cell : Cell, value : Value, at : 0 .. MaxTime]]
    <3>1. now \in 0 .. MaxTime /\ cellValue[c] \in Value
      BY <1>1, <1>2, PublishedCell, L2Assumption
    <3> QED BY <3>1, <1>1 DEF L2TInv, StampsOK
  <2>2. \A u \in committed : commitTime[u] < now'
    BY <1>1, <1>2, CommittedStamps
  <2>3. \A u \in Txn : \A d \in Cell : readFrom'[u][d] # NoTxn => readAt'[u][d] < now'
    BY <1>1, <1>2, <1>4, L2Assumption DEF L2TInv, StampsOK, ReadSet
  <2> QED BY <1>1, <2>1, <2>2, <2>3, <2>4 DEF L2TInv, StampsOK, ReadSet
<1>6. ReadTemporal'
  <2> SUFFICES ASSUME NEW u \in Txn, NEW d \in Cell, readFrom'[u][d] # NoTxn
               PROVE  /\ commitTime[readFrom'[u][d]] < readAt'[u][d]
                      /\ u \in committed => readAt'[u][d] < commitTime[u]
    BY <1>1 DEF ReadTemporal, ReadSet
  <2> QED BY <1>1, <1>2, <1>4 DEF L2TInv, ReadTemporal, ReadSet
<1>7. CausalityFollowsCommits' /\ LatestWriterPublished'
  BY <1>1, <1>3 DEF L2TInv, CausalityFollowsCommits, LatestWriterPublished,
     WriteSet
<1>8. ASSUME NEW time, NEW d, NEW v
      PROVE  LeftBefore(time, d, v)' = LeftBefore(time, d, v)
  BY <1>1 DEF LeftBefore, WritersBefore, WriteSet
<1>9. LastReadsSerializable'
  BY <1>1, <1>3, <1>8 DEF L2TInv, LastReadsSerializable, ReadSet
<1>10. \A u \in Txn : \A o \in observed'[u] :
          \/ o \in observed[u]
          \/ u = t /\ o = [cell |-> c, value |-> cellValue[c], at |-> now]
  BY <1>1
<1>11. ReadsWereCommitted'
  BY <1>1, <1>8, <1>10, PublishedIsLeft DEF L2TInv, ReadsWereCommitted
<1>12. RecordIsLastObserved'
  BY <1>1, <1>10, TReadKeepsRecord
<1> QED BY <1>5, <1>6, <1>7, <1>9, <1>11, <1>12 DEF L2TInv

\* A commit comes after every earlier commit, its reads equal the published
\* values, and those are the values of the last writers.
LEMMA TCommitInv ==
  ASSUME L2Inv, L2TInv, NEW t \in Txn, TCommit(t)
  PROVE  L2TInv'
<1>1. /\ t \notin committed
      /\ now' = now + 1
      /\ now < MaxTime
      /\ preds[t] \subseteq committed
      /\ \A c \in ReadSet(t) : cellValue[c] = readValue[t][c]
      /\ committed' = committed \cup {t}
      /\ commitTime' = [commitTime EXCEPT ![t] = now]
      /\ UNCHANGED << writes, readValue, readFrom, preds, readAt, observed >>
  BY DEF TCommit, Commit, CommitValid, ReadsFresh, PredecessorsClean, Tick,
     Stamp, readVars
<1>2. now \in Nat /\ commitTime'[t] = now
  BY <1>1, L2Assumption DEF L2Inv, TypeOK, L2TInv, StampsOK
<1>3. \A w \in committed : /\ w \in Txn /\ w # t
                           /\ commitTime'[w] = commitTime[w]
                           /\ commitTime[w] \in Nat
                           /\ commitTime[w] < now
  BY <1>1, CommittedStamps DEF L2TInv, StampsOK
<1>4. \A c \in Cell : \/ /\ c \in WriteSet(t)
                         /\ cellWriter'[c] = t
                         /\ cellValue'[c] # NoValue
                      \/ /\ c \notin WriteSet(t)
                         /\ cellWriter'[c] = cellWriter[c]
                         /\ cellValue'[c] = cellValue[c]
  BY DEF TCommit, Commit, WriteSet
<1>5. StampsOK'
  <2>1. commitTime' \in [Txn -> 0 .. MaxTime]
    BY <1>1, <1>2, L2Assumption DEF L2TInv, StampsOK
  <2>2. \A w \in committed' : commitTime'[w] < now'
    BY <1>1, <1>2, <1>3
  <2>3. \A u \in Txn : \A d \in ReadSet(u) : readAt[u][d] < now'
    BY <1>1, <1>2, L2Assumption DEF L2TInv, StampsOK, ReadSet
  <2> QED BY <1>1, <2>1, <2>2, <2>3 DEF L2TInv, StampsOK, ReadSet
<1>6. ReadTemporal'
  <2> SUFFICES ASSUME NEW u \in Txn, NEW d \in ReadSet(u)
               PROVE  /\ commitTime'[readFrom[u][d]] < readAt[u][d]
                      /\ u \in committed' => readAt[u][d] < commitTime'[u]
    BY <1>1 DEF ReadTemporal, ReadSet
  <2>1. readFrom[u][d] \in committed
    BY DEF L2Inv, ReadProvenance, CommittedFrozen
  <2>2. readAt[u][d] < now
    BY DEF L2TInv, StampsOK
  <2> QED BY <1>1, <1>2, <1>3, <2>1, <2>2 DEF L2TInv, ReadTemporal
<1>7. CausalityFollowsCommits'
  <2> SUFFICES ASSUME NEW u \in committed', NEW p \in preds[u]
               PROVE  commitTime'[p] < commitTime'[u]
    BY <1>1 DEF CausalityFollowsCommits
  <2>1. u \in Txn
    BY <1>1, <1>3
  <2>2. p \in committed
    BY <2>1 DEF L2Inv, CommittedFrozen
  <2> QED BY <1>1, <1>2, <1>3, <2>2 DEF L2TInv, CausalityFollowsCommits
<1>8. LatestWriterPublished'
  <2> SUFFICES ASSUME NEW c \in Cell, NEW w \in committed', c \in WriteSet(w)
               PROVE  /\ cellValue'[c] # NoValue
                      /\ commitTime'[w] <= commitTime'[cellWriter'[c]]
    BY <1>1 DEF LatestWriterPublished, WriteSet
  <2>1. CASE c \in WriteSet(t)
    <3>1. cellWriter'[c] = t /\ cellValue'[c] # NoValue
      BY <2>1, <1>4
    <3>2. commitTime'[w] <= now
      BY <1>1, <1>2, <1>3
    <3> QED BY <3>1, <3>2, <1>2
  <2>2. CASE c \notin WriteSet(t)
    <3>1. w \in committed
      BY <2>2, <1>1
    <3>2. /\ cellValue[c] # NoValue
          /\ commitTime[w] <= commitTime[cellWriter[c]]
      BY <3>1 DEF L2TInv, LatestWriterPublished
    <3>3. cellWriter[c] \in committed
      BY <3>2, PublishedCell
    <3> QED BY <3>1, <3>2, <3>3, <1>3, <1>4, <2>2
  <2> QED BY <2>1, <2>2
<1>9. ASSUME NEW time, NEW c, NEW v, ~ (now < time), LeftBefore(time, c, v)
      PROVE  LeftBefore(time, c, v)'
  <2>1. WritersBefore(time, c)' = WritersBefore(time, c)
    BY <1>1, <1>2, <1>3, <1>9 DEF WritersBefore, WriteSet
  <2>2. \A x \in WritersBefore(time, c) : commitTime'[x] = commitTime[x]
    BY <1>3 DEF WritersBefore
  <2> QED BY <1>1, <1>9, <2>1, <2>2 DEF LeftBefore
<1>10. LastReadsSerializable'
  <2> SUFFICES ASSUME NEW u \in committed', NEW c \in Cell, c \in ReadSet(u)
               PROVE  LeftBefore(commitTime[u], c, readValue[u][c])'
    BY <1>1 DEF LastReadsSerializable, ReadSet
  <2>1. CASE u = t
    <3>1. cellValue[c] = readValue[t][c] /\ readValue[t][c] \in Value
      BY <2>1, <1>1 DEF L2Inv, ReadProvenance
    <3>2. LeftBefore(now, c, cellValue[c])
      BY <3>1, PublishedIsLeft, L2Assumption
    <3> QED BY <2>1, <3>1, <3>2, <1>1, <1>2, <1>9
  <2>2. CASE u # t
    <3>1. u \in committed /\ commitTime'[u] = commitTime[u] /\ ~ (now < commitTime[u])
      BY <2>2, <1>1, <1>2, <1>3
    <3> QED BY <3>1, <1>1, <1>9 DEF L2TInv, LastReadsSerializable
  <2> QED BY <2>1, <2>2
<1>11. ReadsWereCommitted'
  <2> SUFFICES ASSUME NEW u \in Txn, NEW o \in observed[u]
               PROVE  LeftBefore(o.at, o.cell, o.value)'
    BY <1>1 DEF ReadsWereCommitted
  <2>1. o.cell \in ReadSet(u) /\ o.at \in 0 .. readAt[u][o.cell]
    BY DEF L2TInv, RecordIsLastObserved
  <2>2. readAt[u][o.cell] < now /\ readAt[u][o.cell] \in Nat
    BY <2>1, L2Assumption DEF L2TInv, StampsOK, ReadSet
  <2>3. ~ (now < o.at)
    BY <1>2, <2>1, <2>2
  <2> QED BY <2>3, <1>9 DEF L2TInv, ReadsWereCommitted
<1>12. RecordIsLastObserved'
  BY <1>1 DEF L2TInv, RecordIsLastObserved, ReadSet
<1> QED BY <1>5, <1>6, <1>7, <1>8, <1>10, <1>11, <1>12 DEF L2TInv

\* L2TInv is inductive relative to the runtime's invariant.
LEMMA TNextInv == L2Inv /\ L2TInv /\ [TNext]_tvars => L2TInv'
<1> SUFFICES ASSUME L2Inv, L2TInv, [TNext]_tvars PROVE L2TInv'
  OBVIOUS
<1>1. CASE UNCHANGED tvars
  BY <1>1 DEF tvars, vars, stamps, L2TInv, StampsOK, ReadTemporal,
     CausalityFollowsCommits, LatestWriterPublished, RecordIsLastObserved,
     LastReadsSerializable, ReadsWereCommitted, LeftBefore, WritersBefore,
     ReadSet, WriteSet
<1>2. CASE Begin /\ UNCHANGED stamps
  BY <1>2, QuietStep DEF Begin, readVars, cellVars, stamps
<1>3. ASSUME NEW t \in Txn, NEW c \in Cell, NEW v \in Value,
             Write(t, c, v), UNCHANGED stamps
      PROVE  L2TInv'
  <2>1. \A w \in committed : writes'[w] = writes[w]
    BY <1>3, CommittedStamps DEF Write, Open, L2Inv, TypeOK
  <2> QED BY <1>3, <2>1, QuietStep DEF Write, readVars, cellVars, stamps
<1>4. ASSUME NEW t \in Txn, Abort(t) \/ Externalize(t), UNCHANGED stamps
      PROVE  L2TInv'
  BY <1>4, QuietStep DEF Abort, Externalize, readVars, cellVars, stamps
<1> QED
  BY <1>1, <1>2, <1>3, <1>4, TReadInv, TCommitInv DEF TNext

\* Invariance of the stamped runtime's inductive invariant.
THEOREM StampedRuntimeInvariance == TSpec => []L2TInv
<1> QED BY InitTInv, TNextInv, StampedInvariance, PTL DEF TSpec

\* Every read of a committed transaction was of the last committed value, and
\* either agrees with the commits before the transaction's own or was followed
\* by a re-read that saw another value.
THEOREM CommitOrderSerializability == TSpec => []CommitOrderSerializable
<1>1. ASSUME L2Inv, L2TInv PROVE CommitOrderSerializable
  <2> SUFFICES ASSUME NEW t \in committed, NEW o \in observed[t],
                      ~ LeftBefore(commitTime[t], o.cell, o.value)
               PROVE  /\ LeftBefore(o.at, o.cell, o.value)
                      /\ \E later \in observed[t] :
                            /\ later.cell = o.cell
                            /\ later.at > o.at
                            /\ later.value # o.value
    <3>1. \A t \in committed : \A o \in observed[t] : LeftBefore(o.at, o.cell, o.value)
      BY <1>1, CommittedStamps DEF L2TInv, ReadsWereCommitted
    <3> QED BY <3>1 DEF CommitOrderSerializable
  <2> DEFINE c == o.cell
             last == [cell |-> c, value |-> readValue[t][c], at |-> readAt[t][c]]
  <2>1. t \in Txn
    BY <1>1, CommittedStamps
  <2>2. LeftBefore(o.at, c, o.value)
    BY <1>1, <2>1 DEF L2TInv, ReadsWereCommitted
  <2>3. /\ c \in ReadSet(t) /\ last \in observed[t]
        /\ o.at \in 0 .. readAt[t][c]
        /\ o.at = readAt[t][c] => o.value = readValue[t][c]
    BY <1>1, <2>1 DEF L2TInv, RecordIsLastObserved
  <2>4. LeftBefore(commitTime[t], c, readValue[t][c])
    BY <1>1, <2>3 DEF L2TInv, LastReadsSerializable
  <2>5. o.value # readValue[t][c]
    BY <2>4
  <2>6. readAt[t][c] > o.at
    <3>1. readAt[t][c] \in 0 .. MaxTime
      BY <1>1, <2>1, <2>3 DEF L2TInv, StampsOK, ReadSet
    <3> QED BY <2>3, <2>5, <3>1, L2Assumption
  <2> QED BY <2>2, <2>3, <2>5, <2>6
<1> QED BY <1>1, StampedInvariance, StampedRuntimeInvariance, PTL

\* Causal dependencies follow the commit order.
THEOREM CausalityFollowsCommitOrder == TSpec => []CausalityFollowsCommits
<1>1. L2TInv => CausalityFollowsCommits
  BY DEF L2TInv
<1> QED BY <1>1, StampedRuntimeInvariance, PTL

\* An observation lies between the commit it observed and the reader's own.
THEOREM ReadsAreStampedInOrder == TSpec => []ReadTemporal
<1>1. L2TInv => ReadTemporal
  BY DEF L2TInv
<1> QED BY <1>1, StampedRuntimeInvariance, PTL

-----------------------------------------------------------------------------
\* A step of the pass is a release, or nothing the runtime sees.
LEMMA PassNext == L2Inv /\ [RPNext]_<< vars, passVars >> => [Next]_vars
<1> SUFFICES ASSUME L2Inv, [RPNext]_<< vars, passVars >> PROVE [Next]_vars
  OBVIOUS
<1>1. ASSUME Ask PROVE [Next]_vars
  <2>1. CASE Externalize(cursor)
    <3>1. cursor \in Txn
      BY <2>1, KnownTxn DEF Externalize, ExternalizeValid, L2Inv, TypeOK
    <3> QED BY <2>1, <3>1 DEF Next
  <2>2. CASE UNCHANGED vars
    BY <2>2
  <2> QED BY <1>1, <2>1, <2>2 DEF Ask
<1>2. CASE OtherCall
  BY <1>2 DEF OtherCall
<1>3. CASE \/ \E r \in committed \cup {NoTxn} : StartPass(r)
           \/ EndPass
           \/ UNCHANGED << vars, passVars >>
  BY <1>3 DEF StartPass, EndPass, vars
<1> QED
  BY <1>1, <1>2, <1>3 DEF RPNext, PassStep

\* The runtime's invariant holds with passes among the calls.
LEMMA PassRuntimeInvariance == RPSpec => []L2Inv
<1>1. RPInit => L2Inv
  BY InitInv DEF RPInit
<1>2. L2Inv /\ [RPNext]_<< vars, passVars >> => L2Inv'
  BY PassNext, NextInv
<1> QED BY <1>1, <1>2, PTL DEF RPSpec

\* A runtime that release_pass runs on behaves as the runtime does: all that is
\* proved of the runtime holds of it.
THEOREM PassesAreRuntimeCalls == RPSpec => Spec
<1>1. RPInit => Init
  BY DEF RPInit
<1> QED BY <1>1, PassNext, PassRuntimeInvariance, PTL DEF RPSpec, Spec

\* Output commit is implemented whatever passes are made.
THEOREM PassesImplementOutputCommit == RPSpec => ImplementsOutputCommit
<1> QED BY PassesAreRuntimeCalls, RuntimeImplementsOutputCommit, PTL

-----------------------------------------------------------------------------
\* A set of transactions is finite.
LEMMA TxnSetFinite ==
  ASSUME NEW S \in SUBSET Txn
  PROVE  IsFiniteSet(S) /\ Cardinality(S) \in Nat
<1>1. IsFiniteSet(Txn)
  BY FS_Interval, L2Assumption DEF Txn
<1> QED BY <1>1, FS_Subset, FS_CardinalityType

\* A committed transaction's closure is finite.
LEMMA ClosureFinite ==
  ASSUME L2Inv, NEW t \in committed
  PROVE  IsFiniteSet(preds[t]) /\ Cardinality(preds[t]) \in Nat
<1>1. preds[t] \in SUBSET Txn
  BY KnownTxn DEF L2Inv, TypeOK
<1> QED BY <1>1, TxnSetFinite

\* What a held transaction rests on is released or held, and has a smaller
\* closure.
LEMMA HeldPred ==
  ASSUME L2Inv, NEW t \in Held, NEW p \in preds[t], p \notin externalized
  PROVE  /\ p \in Held
         /\ preds[p] \subseteq preds[t]
         /\ Cardinality(preds[p]) + 1 <= Cardinality(preds[t])
<1>1. t \in Txn /\ t \in committed \ aborted
  BY KnownTxn DEF Held, L2Inv, TypeOK
<1>2. p \in committed \ aborted /\ p \in Txn
  BY <1>1, KnownTxn DEF L2Inv, CommittedFrozen, NoUnpropagatedA3, TypeOK
<1>3. preds[p] \subseteq preds[t] /\ p \notin preds[p]
  BY <1>1, <1>2 DEF L2Inv, CausalOrder
<1>4. /\ IsFiniteSet(preds[p]) /\ IsFiniteSet(preds[t])
      /\ Cardinality(preds[p]) \in Nat /\ Cardinality(preds[t]) \in Nat
  BY <1>1, <1>2, ClosureFinite
<1>5. Cardinality(preds[p]) < Cardinality(preds[t])
  <2>1. preds[p] # preds[t]
    BY <1>3
  <2> QED BY <1>3, <1>4, <2>1, FS_Subset
<1> QED BY <1>2, <1>3, <1>4, <1>5 DEF Held

\* Nobody is held and no pass has been made.
LEMMA InitPassInv == RPInit => PassInv
  BY L2Assumption DEF RPInit, Init, PassInv, PassTypeOK, AskedRestOnReviewed,
     HeldRestsOnMany, AskedRestOnMore, Held, NoTxn

\* Calls between passes start the count anew.
LEMMA OtherCallPassInv ==
  ASSUME L2Inv, L2Inv', PassInv, OtherCall
  PROVE  PassInv'
<1>1. /\ cursor = NoTxn /\ cursor' = NoTxn /\ exempt' = exempt /\ passes' = 0
      /\ committed \subseteq committed'
  BY DEF OtherCall, Next, Begin, Write, Read, Commit, Abort, Externalize
<1>2. PassTypeOK'
  BY <1>1, L2Assumption DEF PassInv, PassTypeOK
<1>2a. nextTxn' \in 0 .. MaxTxn /\ committed' \subseteq 0 .. nextTxn' - 1
      /\ preds' \in [Txn -> SUBSET Txn]
  BY DEF L2Inv, TypeOK, Known
<1>2b. committed' \subseteq Txn /\ \A t \in committed' : t \in Nat
  <2>1. \A n \in 0 .. MaxTxn : \A t \in 0 .. n - 1 : t \in 0 .. MaxTxn - 1 /\ t \in Nat
    BY L2Assumption
  <2> QED BY ONLY <1>2a, <2>1 DEF Txn
<1>3. \A t \in Held' : ~(t < cursor')
  BY <1>1, <1>2b DEF Held, NoTxn
<1>4. HeldRestsOnMany'
  <2>1. \A t \in committed' : preds'[t] \in SUBSET Txn
    BY <1>2a, <1>2b
  <2>2. \A t \in committed' : Cardinality(preds'[t]) \in Nat
    BY <2>1, TxnSetFinite
  <2> QED BY <1>1, <2>2 DEF HeldRestsOnMany, Held
<1> QED
  BY <1>2, <1>3, <1>4 DEF PassInv, AskedRestOnReviewed, AskedRestOnMore

\* The runtime stays as it is when a pass starts, and nobody has been asked.
LEMMA StartPassInv ==
  ASSUME L2Inv, PassInv, NEW r \in committed \cup {NoTxn}, StartPass(r)
  PROVE  PassInv'
<1>1. /\ cursor' = 0 /\ exempt' = r /\ passes' = passes /\ UNCHANGED vars
  BY DEF StartPass
<1>2. UNCHANGED << now, nextTxn, committed, aborted, externalized, preds >>
  BY <1>1 DEF vars
<1>3. PassTypeOK'
  BY <1>1, <1>2 DEF L2Inv, TypeOK, PassInv, PassTypeOK
<1>4. \A t \in Held : t \in Nat
  BY DEF Held, L2Inv, TypeOK, Known
<1> QED
  BY <1>1, <1>2, <1>3, <1>4 DEF PassInv, AskedRestOnReviewed, AskedRestOnMore,
     HeldRestsOnMany, Held

\* A transaction the pass has asked for and left held is the exempt one, or
\* rests on one that was held when it was asked; that one was asked before it
\* where ids are causal, and has a smaller closure in any case.
LEMMA AskPassInv ==
  ASSUME L2Inv, PassInv, Ask
  PROVE  PassInv'
<1>1. /\ cursor \in Known /\ cursor' = cursor + 1
      /\ UNCHANGED << exempt, passes, nextTxn, committed, aborted, preds >>
  BY DEF Ask, Externalize, vars, readVars
<1>2. cursor \in Nat /\ nextTxn \in Nat /\ cursor < nextTxn
  BY <1>1, L2Assumption DEF L2Inv, TypeOK, Known
<1>3. Held' \subseteq Held /\ (now' < MaxTime => now < MaxTime)
  BY L2Assumption DEF Ask, Externalize, Tick, vars, Held, L2Inv, TypeOK
<1>4. PassTypeOK'
  BY <1>1, <1>2 DEF PassInv, PassTypeOK
<1>5. HeldRestsOnMany'
  BY <1>1, <1>3 DEF PassInv, HeldRestsOnMany
<1>6. \A t \in Held' : t < cursor' => t < cursor \/ t = cursor
  BY <1>1, <1>2, <1>3 DEF Held, L2Inv, TypeOK, Known
<1>7. ASSUME now < MaxTime, cursor \in Held', cursor # exempt
      PROVE  \E p \in preds[cursor] : p \notin externalized
  BY <1>7, <1>3, L2Assumption
     DEF Ask, Asks, Externalize, ExternalizeValid, Held, vars, Tick
<1>8. AskedRestOnReviewed'
  <2> SUFFICES ASSUME now' < MaxTime, IdsAreCausal', NEW t \in Held', t < cursor'
               PROVE  exempt \in {t} \cup preds[t]
    BY <1>1 DEF AskedRestOnReviewed
  <2>1. IdsAreCausal /\ t \in Held /\ now < MaxTime
    BY <1>1, <1>3 DEF IdsAreCausal
  <2>2. CASE t < cursor
    BY <2>1, <2>2 DEF PassInv, AskedRestOnReviewed
  <2>3. CASE t = cursor /\ t # exempt
    <3>1. PICK p \in preds[t] : p \notin externalized
      BY <2>1, <2>3, <1>7
    <3>2. p \in Held /\ preds[p] \subseteq preds[t]
      BY <2>1, <3>1, HeldPred
    <3>3. p < cursor
      BY <2>1, <2>3, <3>1 DEF IdsAreCausal, Held
    <3>4. exempt \in {p} \cup preds[p]
      BY <2>1, <3>2, <3>3 DEF PassInv, AskedRestOnReviewed
    <3> QED BY <3>1, <3>2, <3>4
  <2> QED BY <1>6, <2>2, <2>3
<1>9. AskedRestOnMore'
  <2> SUFFICES ASSUME now' < MaxTime, exempt = NoTxn, NEW t \in Held', t < cursor'
               PROVE  Cardinality(preds[t]) >= passes + 1
    BY <1>1 DEF AskedRestOnMore
  <2>1. t \in Held /\ now < MaxTime
    BY <1>3
  <2>2. CASE t < cursor
    BY <2>1, <2>2 DEF PassInv, AskedRestOnMore
  <2>3. CASE t = cursor
    <3>1. PICK p \in preds[t] : p \notin externalized
      BY <2>1, <2>3, <1>2, <1>7 DEF NoTxn
    <3>2. p \in Held /\ Cardinality(preds[p]) + 1 <= Cardinality(preds[t])
      BY <2>1, <3>1, HeldPred
    <3>3. Cardinality(preds[p]) >= passes
      BY <2>1, <3>2 DEF PassInv, HeldRestsOnMany
    <3>4. Cardinality(preds[p]) \in Nat /\ Cardinality(preds[t]) \in Nat
      BY <2>1, <3>2, ClosureFinite DEF Held
    <3> QED BY <3>2, <3>3, <3>4 DEF PassInv, PassTypeOK
  <2> QED BY <1>6, <2>2, <2>3
<1> QED BY <1>4, <1>5, <1>8, <1>9 DEF PassInv

\* A complete pass has asked everybody.
LEMMA EndPassInv ==
  ASSUME L2Inv, PassInv, EndPass
  PROVE  PassInv'
<1>1. /\ cursor = nextTxn /\ cursor' = NoTxn /\ exempt' = NoTxn
      /\ passes' = IF exempt # NoTxn THEN 0
                   ELSE IF passes < MaxTxn THEN passes + 1 ELSE passes
      /\ UNCHANGED << now, nextTxn, committed, aborted, externalized, preds >>
  BY DEF EndPass, AllAsked, vars
<1>2. passes \in 0 .. MaxTxn /\ passes' \in 0 .. MaxTxn /\ passes' <= passes + 1
  BY <1>1, L2Assumption DEF PassInv, PassTypeOK
<1>3. PassTypeOK'
  BY <1>1, <1>2 DEF PassTypeOK
<1>4. \A t \in Held : /\ t \in Nat /\ t < cursor
                      /\ Cardinality(preds[t]) \in Nat
  BY <1>1, ClosureFinite DEF Held, L2Inv, TypeOK, Known
<1>5. HeldRestsOnMany'
  BY <1>1, <1>2, <1>4 DEF PassInv, HeldRestsOnMany, AskedRestOnMore, Held
<1>6. \A t \in Held : ~(t < NoTxn)
  BY <1>4 DEF NoTxn
<1> QED
  BY <1>1, <1>3, <1>5, <1>6 DEF PassInv, AskedRestOnReviewed, AskedRestOnMore,
     Held

\* The invariant of the passes holds in every reachable state.
THEOREM PassInvariance == RPSpec => []PassInv
<1>1. L2Inv /\ L2Inv' /\ PassInv /\ [RPNext]_<< vars, passVars >> => PassInv'
  <2> SUFFICES ASSUME L2Inv, L2Inv', PassInv, [RPNext]_<< vars, passVars >>
               PROVE  PassInv'
    OBVIOUS
  <2>1. CASE UNCHANGED << vars, passVars >>
    BY <2>1 DEF vars, passVars, PassInv, PassTypeOK, AskedRestOnReviewed,
       HeldRestsOnMany, AskedRestOnMore, Held, IdsAreCausal
  <2> QED
    BY <2>1, OtherCallPassInv, StartPassInv, AskPassInv, EndPassInv
       DEF RPNext, PassStep
<1> QED BY InitPassInv, <1>1, PassRuntimeInvariance, PTL DEF RPSpec

\* Where ids are in causal order, one pass leaves nothing held but what rests
\* on the transaction under review.
THEOREM OnePassSuffices == RPSpec => []OnePassForCausalIds
<1>1. ASSUME L2Inv, PassInv PROVE OnePassForCausalIds
  <2>1. \A t \in Held : t < nextTxn
    BY <1>1, L2Assumption DEF Held, L2Inv, TypeOK, Known
  <2> QED
    BY <1>1, <2>1 DEF PassInv, AskedRestOnReviewed, OnePassForCausalIds, AllAsked
<1> QED BY <1>1, PassRuntimeInvariance, PassInvariance, PTL

\* In any order of ids, every pass in a row costs what stays held another
\* transaction to rest on.
THEOREM HeldTransactionsRestOnMany == RPSpec => []HeldRestsOnMany
<1>1. PassInv => HeldRestsOnMany
  BY DEF PassInv
<1> QED BY <1>1, PassInvariance, PTL

\* A pass releases neither the transaction under review nor what rests on it.
THEOREM ReviewedStay == RPSpec => ReviewedStaysIn
<1> DEFINE Stays == cursor # NoTxn /\ exempt \in Held =>
              \A t \in externalized' \ externalized : exempt \notin {t} \cup preds[t]
<1>1. ASSUME [RPNext]_<< vars, passVars >> PROVE [Stays]_vars
  <2>1. CASE Ask /\ Externalize(cursor)
    BY <2>1 DEF Ask, Asks, Externalize, ExternalizeValid, Held, vars
  <2>2. CASE UNCHANGED vars
    BY <2>2
  <2>3. CASE OtherCall
    BY <2>3 DEF OtherCall
  <2> QED
    BY <1>1, <2>1, <2>2, <2>3 DEF RPNext, PassStep, StartPass, EndPass, Ask, vars
<1> QED BY <1>1, PTL DEF RPSpec, ReviewedStaysIn

-----------------------------------------------------------------------------
\* A set of naturals that is not empty has a least element.
LEMMA LeastNumber ==
  ASSUME NEW S \in SUBSET Nat, S # {}
  PROVE  \E m \in S : \A k \in S : m <= k
<1> DEFINE R == OpToRel(<, Nat)
<1>1. IsWellFoundedOn(R, Nat)
  BY NatLessThanWellFounded
<1>2. \A m, n \in Nat : m < n => << m, n >> \in R
  BY DEF OpToRel
<1> HIDE DEF R
<1>3. PICK m \in S : \A k \in S : ~ (<< k, m >> \in R)
  BY <1>1, WFMin
<1>4. \A k \in S : ~ (k < m)
  BY ONLY <1>2, <1>3, S \in SUBSET Nat, Zenon
<1> QED BY <1>4

\* Recorded predecessors of an id, whether the trace has it or not.
PredsIn(trace, p) == IF p \in DOMAIN trace THEN trace[p].preds ELSE {}

Further(trace, S) == S \cup UNION {PredsIn(trace, p) : p \in S}

\* The recursion of Closure has a solution.
LEMMA ReachExists ==
  ASSUME NEW trace, NEW P0
  PROVE  \E r : r = [n \in Nat |-> IF n = 0 THEN P0 ELSE Further(trace, r[n - 1])]
<1> DEFINE Step(S) == Further(trace, S)
           Sol(n, f) == f = [k \in 0 .. n |-> IF k = 0 THEN P0 ELSE Step(f[k - 1])]
<1> HIDE DEF Step
<1>1. ASSUME NEW n \in Nat PROVE \E f : Sol(n, f)
  <2> DEFINE Bad == {m \in Nat : ~ \E f : Sol(m, f)}
  <2> SUFFICES ASSUME n \in Bad PROVE FALSE
    OBVIOUS
  <2>1. PICK m \in Bad : \A k \in Bad : m <= k
    BY LeastNumber
  <2>2. m # 0
    <3> DEFINE g == [k \in 0 .. 0 |-> P0]
    <3>1. Sol(0, g)
      OBVIOUS
    <3> QED BY <2>1, <3>1
  <2>3. PICK f : Sol(m - 1, f)
    <3>1. m - 1 \in Nat /\ ~ (m <= m - 1)
      BY <2>1, <2>2
    <3> HIDE DEF Sol
    <3> QED BY <2>1, <3>1
  <2> DEFINE g == [k \in 0 .. m |-> IF k = m THEN Step(f[m - 1]) ELSE f[k]]
  <2>4. \A k \in 0 .. m : g[k] = IF k = 0 THEN P0 ELSE Step(g[k - 1])
    <3> SUFFICES ASSUME NEW k \in 0 .. m
                 PROVE  g[k] = IF k = 0 THEN P0 ELSE Step(g[k - 1])
      OBVIOUS
    <3>1. CASE k = m
      BY <2>1, <2>2, <3>1
    <3>2. CASE k # m
      <4>1. k \in 0 .. m - 1 /\ g[k] = f[k] /\ (k # 0 => g[k - 1] = f[k - 1])
        BY <2>1, <3>2
      <4> QED BY <2>3, <4>1
    <3> QED BY <3>1, <3>2
  <2>5. Sol(m, g)
    BY <2>4
  <2> QED BY <2>1, <2>5
<1>2. ASSUME NEW n \in Nat, NEW m \in Nat, NEW f, NEW g, Sol(n, f), Sol(m, g),
             NEW k \in 0 .. n, k <= m
      PROVE  f[k] = g[k]
  <2> DEFINE Bad == {j \in 0 .. k : f[j] # g[j]}
  <2> SUFFICES ASSUME k \in Bad PROVE FALSE
    OBVIOUS
  <2>1. PICK j \in Bad : \A i \in Bad : j <= i
    <3>1. Bad \in SUBSET Nat
      OBVIOUS
    <3> QED BY <3>1, LeastNumber
  <2>2. j \in 0 .. n /\ j \in 0 .. m /\ j \in Nat
    BY <1>2, <2>1
  <2>3. j # 0
    BY <1>2, <2>1, <2>2
  <2>4. f[j - 1] = g[j - 1]
    BY <2>1, <2>2, <2>3
  <2>5. f[j] = Step(f[j - 1]) /\ g[j] = Step(g[j - 1])
    BY <1>2, <2>2, <2>3
  <2> QED BY <2>1, <2>4, <2>5
<1> DEFINE F(n) == CHOOSE f : Sol(n, f)
           r == [n \in Nat |-> F(n)[n]]
<1>3. \A n \in Nat : Sol(n, F(n))
  BY <1>1
<1> HIDE DEF F
<1>4. ASSUME NEW n \in Nat PROVE F(n)[n] = IF n = 0 THEN P0 ELSE Step(r[n - 1])
  <2>1. F(n)[n] = IF n = 0 THEN P0 ELSE Step(F(n)[n - 1])
    BY <1>3
  <2>2. ASSUME n # 0 PROVE F(n)[n - 1] = F(n - 1)[n - 1]
    <3>1. n - 1 \in Nat /\ n - 1 \in 0 .. n /\ n - 1 <= n - 1
      BY <2>2
    <3> HIDE DEF Sol
    <3> QED BY <3>1, <1>3, <1>2
  <2>3. n # 0 => r[n - 1] = F(n - 1)[n - 1]
    OBVIOUS
  <2> QED BY <2>1, <2>2, <2>3
<1>5. r = [n \in Nat |-> IF n = 0 THEN P0 ELSE Step(r[n - 1])]
  BY <1>4
<1> QED BY <1>5 DEF Step

\* What the recursion says of the set it ends with.
LEMMA ReachEquations ==
  ASSUME NEW trace, NEW t
  PROVE  \E reach :
            /\ Closure(trace, t) = reach[Cardinality(DOMAIN trace)]
            /\ reach[0] = PredsIn(trace, t)
            /\ \A n \in Nat : reach[n + 1] = Further(trace, reach[n])
<1> DEFINE Eq(r) == r = [n \in Nat |-> IF n = 0 THEN PredsIn(trace, t)
                                     ELSE Further(trace, r[n - 1])]
           reach == CHOOSE r : Eq(r)
<1>1. Closure(trace, t) = reach[Cardinality(DOMAIN trace)]
  BY DEF Closure, PredsIn, Further
<1>2. Eq(reach)
  BY ReachExists
<1> HIDE DEF reach
<1>3. reach[0] = PredsIn(trace, t)
  BY <1>2
<1>4. ASSUME NEW n \in Nat PROVE reach[n + 1] = Further(trace, reach[n])
  <2>1. n + 1 \in Nat /\ n + 1 # 0 /\ (n + 1) - 1 = n
    OBVIOUS
  <2> QED BY <1>2, <2>1
<1> QED BY <1>1, <1>3, <1>4

\* The closure is within whatever a step does not leave.
LEMMA ClosureIsWithin ==
  ASSUME NEW trace, NEW t, NEW S, Cardinality(DOMAIN trace) \in Nat,
         PredsIn(trace, t) \subseteq S,
         \A p \in S : PredsIn(trace, p) \subseteq S
  PROVE  Closure(trace, t) \subseteq S
<1>1. PICK reach : /\ Closure(trace, t) = reach[Cardinality(DOMAIN trace)]
                   /\ reach[0] = PredsIn(trace, t)
                   /\ \A n \in Nat : reach[n + 1] = Further(trace, reach[n])
  BY ReachEquations
<1> DEFINE Bad == {n \in Nat : ~ (reach[n] \subseteq S)}
<1>2. SUFFICES ASSUME Bad # {} PROVE FALSE
  BY <1>1
<1>3. PICK m \in Bad : \A k \in Bad : m <= k
  <2>1. Bad \in SUBSET Nat
    OBVIOUS
  <2> QED BY <1>2, <2>1, LeastNumber
<1>4. m # 0
  BY <1>1, <1>3
<1>5. m - 1 \in Nat /\ ~ (m <= m - 1) /\ (m - 1) + 1 = m
  BY <1>3, <1>4
<1>6. reach[m - 1] \subseteq S
  BY <1>3, <1>5
<1>7. reach[m] = Further(trace, reach[m - 1])
  BY <1>1, <1>5
<1> QED BY <1>3, <1>6, <1>7 DEF Further

\* Where predecessors are older, the recursion reaches all there is to reach.
LEMMA ClosureIsClosed ==
  ASSUME NEW trace, NEW n \in Nat, DOMAIN trace = 0 .. n - 1, NEW t \in 0 .. n - 1,
         \A q \in 0 .. n - 1 : \A p \in trace[q].preds : p \in Nat /\ p < q
  PROVE  /\ PredsIn(trace, t) \subseteq Closure(trace, t)
         /\ \A p \in Closure(trace, t) : PredsIn(trace, p) \subseteq Closure(trace, t)
<1>1. PICK reach : /\ Closure(trace, t) = reach[Cardinality(DOMAIN trace)]
                   /\ reach[0] = PredsIn(trace, t)
                   /\ \A k \in Nat : reach[k + 1] = Further(trace, reach[k])
  BY ReachEquations
<1>2. Cardinality(DOMAIN trace) = n
  BY FS_Interval
<1>3. \A q, p : p \in PredsIn(trace, q) => p \in Nat /\ q \in Nat /\ p < q
  BY DEF PredsIn
<1> DEFINE Good(k) == /\ PredsIn(trace, t) \subseteq reach[k]
                      /\ reach[k] \subseteq Nat
                      /\ \A p \in reach[k] : p >= t - k => PredsIn(trace, p) \subseteq reach[k]
           Bad == {k \in Nat : ~ Good(k)}
<1>4. SUFFICES ASSUME Bad # {} PROVE FALSE
  <2>1. ASSUME Good(n)
        PROVE  /\ PredsIn(trace, t) \subseteq reach[n]
               /\ \A p \in reach[n] : PredsIn(trace, p) \subseteq reach[n]
    <3>1. \A p \in Nat : p >= t - n
      OBVIOUS
    <3> QED BY <2>1, <3>1
  <2>2. ASSUME Bad = {} PROVE Good(n)
    BY <2>2
  <2> HIDE DEF Good, Bad
  <2> QED BY <1>1, <1>2, <1>4, <2>1, <2>2
<1>5. PICK m \in Bad : \A k \in Bad : m <= k
  <2>1. Bad \in SUBSET Nat
    OBVIOUS
  <2> QED BY <1>4, <2>1, LeastNumber
<1>6. Good(0)
  <2>1. \A p \in reach[0] : p \in Nat /\ p < t
    BY <1>1, <1>3
  <2>2. \A p \in reach[0] : ~ (p >= t - 0)
    BY <2>1
  <2> QED BY <1>1, <2>1, <2>2
<1>7. m - 1 \in Nat /\ ~ (m <= m - 1) /\ (m - 1) + 1 = m
  BY <1>5, <1>6
<1>8. Good(m - 1)
  BY <1>5, <1>7
<1>9. reach[m] = Further(trace, reach[m - 1])
  BY <1>1, <1>7
<1>10. Good(m)
  <2>1. PredsIn(trace, t) \subseteq reach[m] /\ reach[m] \subseteq Nat
    BY <1>3, <1>8, <1>9 DEF Further
  <2>2. ASSUME NEW p \in reach[m], p >= t - m
        PROVE  PredsIn(trace, p) \subseteq reach[m]
    <3>1. CASE p \in reach[m - 1]
      BY <3>1, <1>9 DEF Further
    <3>2. CASE p \notin reach[m - 1]
      <4>1. PICK q \in reach[m - 1] : p \in PredsIn(trace, q)
        BY <3>2, <2>2, <1>9 DEF Further
      <4>2. q >= t - (m - 1)
        <5>1. p \in Nat /\ q \in Nat /\ p < q
          BY <4>1, <1>3
        <5> QED BY <5>1, <2>2, <1>5
      <4> QED BY <3>2, <4>1, <4>2, <1>8
    <3> QED BY <3>1, <3>2
  <2> QED BY <2>1, <2>2
<1> QED BY <1>5, <1>10

\* A trace with older predecessors, as the hypothesis of the facts below.
Backwards(trace, n) ==
    /\ n \in Nat
    /\ DOMAIN trace = 0 .. n - 1
    /\ \A q \in 0 .. n - 1 : \A p \in trace[q].preds : p \in Nat /\ p < q

\* What the closure holds: ids below its own, and with each of them that one's.
LEMMA ClosureFacts ==
  ASSUME NEW trace, NEW n, Backwards(trace, n), NEW t \in 0 .. n - 1
  PROVE  /\ trace[t].preds \subseteq Closure(trace, t)
         /\ Closure(trace, t) \subseteq 0 .. t - 1
         /\ \A p \in Closure(trace, t) : Closure(trace, p) \subseteq Closure(trace, t)
<1>1. /\ PredsIn(trace, t) \subseteq Closure(trace, t)
      /\ \A p \in Closure(trace, t) : PredsIn(trace, p) \subseteq Closure(trace, t)
  BY ClosureIsClosed DEF Backwards
<1>2. PredsIn(trace, t) = trace[t].preds
  BY DEF Backwards, PredsIn
<1>3. Cardinality(DOMAIN trace) \in Nat
  BY FS_Interval DEF Backwards
<1>4. Closure(trace, t) \subseteq 0 .. t - 1
  <2>1. PredsIn(trace, t) \subseteq 0 .. t - 1
    BY <1>2 DEF Backwards
  <2>2. \A p \in 0 .. t - 1 : PredsIn(trace, p) \subseteq 0 .. t - 1
    BY DEF Backwards, PredsIn
  <2> QED BY <1>3, <2>1, <2>2, ClosureIsWithin
<1>5. \A p \in Closure(trace, t) : Closure(trace, p) \subseteq Closure(trace, t)
  BY <1>1, <1>3, ClosureIsWithin
<1> QED BY <1>1, <1>2, <1>4, <1>5

\* Traces with the same predecessors have the same closures.
LEMMA ClosureOfSamePreds ==
  ASSUME NEW trace, NEW other, NEW n, Backwards(trace, n), DOMAIN other = DOMAIN trace,
         \A q \in DOMAIN trace : other[q].preds = trace[q].preds,
         NEW t \in 0 .. n - 1
  PROVE  Closure(other, t) = Closure(trace, t)
<1>1. \A p : PredsIn(other, p) = PredsIn(trace, p)
  BY DEF PredsIn
<1>2. Backwards(other, n)
  BY DEF Backwards
<1>3. Cardinality(DOMAIN trace) \in Nat
  BY FS_Interval DEF Backwards
<1>4. /\ PredsIn(trace, t) \subseteq Closure(trace, t)
      /\ \A p \in Closure(trace, t) : PredsIn(trace, p) \subseteq Closure(trace, t)
      /\ PredsIn(other, t) \subseteq Closure(other, t)
      /\ \A p \in Closure(other, t) : PredsIn(other, p) \subseteq Closure(other, t)
  BY <1>2, ClosureIsClosed DEF Backwards
<1>5. Closure(other, t) \subseteq Closure(trace, t)
  BY <1>1, <1>3, <1>4, ClosureIsWithin
<1>6. Closure(trace, t) \subseteq Closure(other, t)
  BY <1>1, <1>3, <1>4, ClosureIsWithin
<1> QED BY <1>5, <1>6

\* Predecessors that are recorded with theirs are the closure.
LEMMA ClosureOfOrder ==
  ASSUME NEW trace, NEW n, Backwards(trace, n), NEW t \in 0 .. n - 1,
         \A p \in trace[t].preds : PredsIn(trace, p) \subseteq trace[t].preds
  PROVE  Closure(trace, t) = trace[t].preds
<1>1. PredsIn(trace, t) = trace[t].preds
  BY DEF Backwards, PredsIn
<1>2. Cardinality(DOMAIN trace) \in Nat
  BY FS_Interval DEF Backwards
<1>3. Closure(trace, t) \subseteq trace[t].preds
  BY <1>1, <1>2, ClosureIsWithin
<1> QED BY <1>3, ClosureFacts

=============================================================================
