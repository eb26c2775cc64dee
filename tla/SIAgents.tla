------------------------------ MODULE SIAgents -------------------------------
(****************************************************************************)
(* Agents (src/agent.rs) over the snapshot-isolation store in its two modes  *)
(* (src/snapshot_isolation.rs): default SI, where a commit without writes    *)
(* only ticks the clock, and SSI, where it is validated like any other.      *)
(****************************************************************************)
EXTENDS SIStore, Agent

CONSTANT MaxOps     \* bound of the model: no commit starts after so many records

ASSUME SIAgentsAssumption == MaxOps \in Nat

ASSUME SIIdsAssumption == IdOf \in [Object -> AgentId]

VARIABLE validateNoWrite    \* the store was made with_ssi(true)

D == INSTANCE Detectors

allVars == << storeVars, agentVars, validateNoWrite >>

SAInit == Init /\ AgentInit /\ validateNoWrite \in BOOLEAN

\* A begin is never refused.
AgentBegin(t, cells, planned) ==
    /\ BeginAccepted(t, [c \in cells |-> ValueOf(c)], clock, planned)
    /\ UNCHANGED << storeVars, validateNoWrite >>

AgentTake(t, writes, named) ==
    /\ Len(emitted) < MaxOps
    /\ Take(t, writes, named)
    /\ UNCHANGED << storeVars, validateNoWrite >>

ValidatesNever(t) == FALSE

NeedsValidation(t) == op[t].writes # NoMap \/ validateNoWrite

\* The clock after the step is the write time the caller is told.
StoreCommit(t) ==
    LET rt == op[t].readTime
        cells == DOMAIN op[t].reads
        writes == op[t].writes
    IN
    /\ UNCHANGED validateNoWrite
    /\ \/ ~ NeedsValidation(t) /\ Tick /\ Committed(t, clock')
       \/ /\ NeedsValidation(t)
          /\ Commit(Id(t), rt, cells, writes)
          /\ Committed(t, clock')
       \/ /\ NeedsValidation(t)
          /\ ~ CanCommit(rt, cells, DOMAIN writes)
          /\ Conflict(t)
          /\ UNCHANGED storeVars

AgentEmit(t) == Emit(t) /\ UNCHANGED << storeVars, validateNoWrite >>

\* The store's release does nothing.
AgentRelease(t) == Released(t) /\ UNCHANGED << storeVars, validateNoWrite >>

StoreTick == Tick /\ UNCHANGED << agentVars, validateNoWrite >>

ThreadStep(t) ==
    \/ \E cells \in SUBSET Cell, planned \in PlanChoice :
          AgentBegin(t, cells, planned)
    \/ \E W \in SUBSET Cell, named \in NameChoice :
          \E writes \in [W -> Val] : AgentTake(t, writes, named)
    \/ StoreCommit(t)
    \/ AgentEmit(t)
    \/ AgentRelease(t)

SANext == (\E t \in Thread : ThreadStep(t)) \/ StoreTick

SASpec == SAInit /\ [][SANext]_allVars

-----------------------------------------------------------------------------
\* With validation of every commit the agents' emitted records hold no A1
\* pair, of one agent or of two, in whatever order they were emitted.
SSIHasNoA1 == validateNoWrite => D!A1Witnesses(emitted) = {}

\* Without it only an operation that writes nothing can have a stale window.
A1OnlyWithoutWrites ==
    \A p \in D!A1Witnesses(emitted) : emitted[p[1]].writes = NoMap

\* Between operations every value read has its writer among the records; in
\* the middle of a commit the writer's record may still be on its way.
ClosedWhenQuiet ==
    (\A t \in Thread : stage[t] \in {"idle", "commit"}) =>
        D!A3Witnesses(emitted) = {}

\* A version chain entry is the write of an operation that is emitted, or will
\* be: a commit that reports a conflict has published nothing.
VersionsAreOperations ==
    \A v \in versions :
        LET Wrote(r) == /\ v.cell \in DOMAIN r.writes
                        /\ r.writes[v.cell] = v.val
                        /\ r.writeTime = v.time
        IN \/ \E i \in DOMAIN emitted : Wrote(emitted[i])
           \/ \E t \in Thread : stage[t] = "emit" /\ Wrote(op[t])

\* Operations are over the store's cells, values and times.
AgentTypeOK == AgentTyped(Cell, Val, Time) /\ validateNoWrite \in BOOLEAN

TraceOf(r) == [agent |-> r.agent, readCells |-> DOMAIN r.reads,
               readTime |-> r.readTime, writeCells |-> DOMAIN r.writes,
               writeTime |-> r.writeTime]

\* A record that was validated is in the store's trace, which the bypass keeps
\* out of it.
ValidatedInTrace ==
    /\ \A i \in DOMAIN emitted :
          emitted[i].writes # NoMap \/ validateNoWrite =>
            TraceOf(emitted[i]) \in trace
    /\ \A t \in Thread :
          stage[t] = "emit" /\ NeedsValidation(t) => TraceOf(Record(t)) \in trace

\* x is what a cell without a version reads as, or the value of a version of
\* cell c committed at or before the time.
FromVersion(c, x, time) ==
    \/ x = Null
    \/ \E v \in versions : v.cell = c /\ v.val = x /\ v.time <= time

\* What operations have read came from a version of the time of their snapshot.
ReadsAreVersions ==
    /\ \A w \in Windows : \A c \in DOMAIN w[1] : FromVersion(c, w[1][c], w[2])
    /\ \A r \in Finished : \A c \in DOMAIN r.reads :
          FromVersion(c, r.reads[c], r.readTime)

\* The invariant of agents and store together, inductive as a whole.
SAInv ==
    /\ SIInv
    /\ AgentTypeOK
    /\ ValidatedInTrace
    /\ VersionsAreOperations
    /\ ReadsAreVersions

=============================================================================
