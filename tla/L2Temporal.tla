----------------------------- MODULE L2Temporal -----------------------------
(****************************************************************************)
(* The L2 runtime with the stamps of ExecTxn that no guard reads: read_at,   *)
(* the clock of the last observation of a cell, and commit_time.  They turn   *)
(* commit order into something a property can speak of.  The maps of ExecTxn *)
(* keep the last observation of a cell only; the history variable observed   *)
(* keeps those that a re-read has replaced as well.                          *)
(****************************************************************************)
EXTENDS L2Runtime

VARIABLES
    readAt,         \* readAt[t][c]: clock when t last read c
    commitTime,     \* commitTime[t]: clock when t committed
    observed        \* history: every read that t ever made

stamps == << readAt, commitTime, observed >>

tvars == << vars, stamps >>

TInit ==
    /\ Init
    /\ readAt = [t \in Txn |-> [c \in Cell |-> 0]]
    /\ commitTime = [t \in Txn |-> 0]
    /\ observed = [t \in Txn |-> {}]

\* The stamp is taken before the clock ticks.
Stamp == now

Observation(c) == [cell |-> c, value |-> cellValue[c], at |-> Stamp]

TRead(t, c) ==
    /\ Read(t, c)
    /\ readAt' = [readAt EXCEPT ![t][c] = Stamp]
    /\ observed' = [observed EXCEPT ![t] = @ \cup {Observation(c)}]
    /\ UNCHANGED commitTime

TCommit(t) ==
    /\ Commit(t)
    /\ commitTime' = [commitTime EXCEPT ![t] = Stamp]
    /\ UNCHANGED << readAt, observed >>

TNext ==
    \/ Begin /\ UNCHANGED stamps
    \/ \E t \in Txn :
        \/ \E c \in Cell, v \in Value : Write(t, c, v) /\ UNCHANGED stamps
        \/ \E c \in Cell : TRead(t, c)
        \/ TCommit(t)
        \/ Abort(t) /\ UNCHANGED stamps
        \/ Externalize(t) /\ UNCHANGED stamps

TSpec == TInit /\ [][TNext]_tvars

-----------------------------------------------------------------------------
\* Every stamp was taken before the clock's present value.
StampsOK ==
    /\ readAt \in [Txn -> [Cell -> 0 .. MaxTime]]
    /\ commitTime \in [Txn -> 0 .. MaxTime]
    /\ observed \in [Txn -> SUBSET [cell : Cell, value : Value, at : 0 .. MaxTime]]
    /\ \A t \in committed : commitTime[t] < now
    /\ \A t \in Txn : \A c \in ReadSet(t) : readAt[t][c] < now

\* An observation is later than the commit it observed and earlier than the
\* reader's own commit (inv_read_temporal, strictly, and its other half).
ReadTemporal ==
    \A t \in Txn : \A c \in ReadSet(t) :
        /\ commitTime[readFrom[t][c]] < readAt[t][c]
        /\ t \in committed => readAt[t][c] < commitTime[t]

\* The causal closures embed in the commit order, so dependencies can never run
\* in a circle however reads, re-reads and commits of the agents interleave.
CausalityFollowsCommits ==
    \A t \in committed : \A p \in preds[t] : commitTime[p] < commitTime[t]

\* A published cell holds the value of the last committed writer of it.
LatestWriterPublished ==
    \A c \in Cell : \A w \in committed :
        c \in WriteSet(w) =>
            /\ cellValue[c] # NoValue
            /\ commitTime[w] <= commitTime[cellWriter[c]]

WritersBefore(time, c) ==
    {w \in committed : commitTime[w] < time /\ c \in WriteSet(w)}

\* The last transaction that wrote c and committed before the time wrote v.
LeftBefore(time, c, v) ==
    \E w \in WritersBefore(time, c) :
        /\ \A u \in WritersBefore(time, c) : commitTime[u] <= commitTime[w]
        /\ writes[w][c] = v

\* The observations a committed transaction is left with are of the state that
\* the commits before its own left: the freshness gate, which compares values
\* and not writers, comes to that although aborts never roll a cell back.
LastReadsSerializable ==
    \A t \in committed : \A c \in ReadSet(t) :
        LeftBefore(commitTime[t], c, readValue[t][c])

\* Every observation was of the last committed value at its own time.
ReadsWereCommitted ==
    \A t \in Txn : \A o \in observed[t] : LeftBefore(o.at, o.cell, o.value)

\* The history and the record of a transaction agree on the last observations.
RecordIsLastObserved ==
    \A t \in Txn :
        /\ \A o \in observed[t] :
              /\ o.cell \in ReadSet(t)
              /\ o.at \in 0 .. readAt[t][o.cell]
              /\ o.at = readAt[t][o.cell] => o.value = readValue[t][o.cell]
        /\ \A c \in ReadSet(t) :
              [cell |-> c, value |-> readValue[t][c], at |-> readAt[t][c]]
                  \in observed[t]

\* Serializability in commit order, over every read of a committed transaction.
\* When it was made, the read returned what the last commit to the cell had left.
\* And the commits before the reader's own have left just that, unless the
\* reader read the cell again and saw another value: a stale read stays in a
\* committed transaction only where a re-read replaced it in the record, which
\* is all that the gate looks at.
CommitOrderSerializable ==
    \A t \in committed : \A o \in observed[t] :
        /\ LeftBefore(o.at, o.cell, o.value)
        /\ \/ LeftBefore(commitTime[t], o.cell, o.value)
           \/ \E later \in observed[t] :
                /\ later.cell = o.cell
                /\ later.at > o.at
                /\ later.value # o.value

\* The inductive invariant of the stamped runtime.
L2TInv ==
    /\ StampsOK
    /\ ReadTemporal
    /\ CausalityFollowsCommits
    /\ LatestWriterPublished
    /\ RecordIsLastObserved
    /\ LastReadsSerializable
    /\ ReadsWereCommitted

=============================================================================
