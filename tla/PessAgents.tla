----------------------------- MODULE PessAgents ------------------------------
(****************************************************************************)
(* Agents (src/agent.rs) over the pessimistic store (src/pessimistic.rs,     *)
(* src/pess_concurrent.rs): threads run operations that interleave between   *)
(* the store's calls.                                                        *)
(****************************************************************************)
EXTENDS PessStore, Agent

D == INSTANCE Detectors

allVars == << storeVars, agentVars >>

ASSUME PessAgentsAssumption == IdOf \in [Object -> AgentId]

PAInit == Init /\ AgentInit

AgentBegin(t, cells, planned) ==
    \/ /\ Begin(Id(t), cells)
       /\ BeginAccepted(t, [c \in cells |-> ValueOf(c)], clock, planned)
    \/ /\ ~ CanBegin(Id(t), cells)
       /\ BeginRefused(t)
       /\ UNCHANGED storeVars

AgentTake(t, writes, named) ==
    /\ Take(t, writes, named) \/ (writes = NoMap /\ TakeRefused(t))
    /\ UNCHANGED storeVars

StoreCommit(t) ==
    LET rt == op[t].readTime
        cells == DOMAIN op[t].reads
        writes == op[t].writes
    IN
    \/ Commit(Id(t), rt, cells, writes) /\ Committed(t, clock + 1)
    \/ /\ ~ CanCommit(Id(t), rt, cells, DOMAIN writes)
       /\ Conflict(t)
       /\ UNCHANGED storeVars

AgentEmit(t) == Emit(t) /\ UNCHANGED storeVars

AgentRelease(t) == Release(Id(t)) /\ Released(t)

StoreTick == Tick /\ UNCHANGED agentVars

\* A call to commit, or to no_write_commit, step by step.
CommitCall(t) ==
    \/ \E W \in SUBSET Cell, named \in NameChoice :
          \E writes \in [W -> Val] : AgentTake(t, writes, named)
    \/ StoreCommit(t)
    \/ AgentEmit(t)
    \/ AgentRelease(t)

ThreadStep(t) ==
    \/ \E cells \in SUBSET Cell, planned \in PlanChoice :
          AgentBegin(t, cells, planned)
    \/ CommitCall(t)

PANext == (\E t \in Thread : ThreadStep(t)) \/ StoreTick

PASpec == PAInit /\ [][PANext]_allVars

\* A commit call runs to its end, and callers commit what they began.
FairPASpec == PASpec /\ \A t \in Thread : WF_allVars(CommitCall(t))

-----------------------------------------------------------------------------
InCommit(t) == stage[t] # "idle"

\* Operations are over the store's cells, values and times.
AgentTypeOK == AgentTyped(Cell, Val, Time)

\* A hold belongs to an operation that is open or being committed: every path
\* out of commit, the conflicting one included, gives the agent's holds back.
NoLeakedHolds ==
    \A h \in holds :
        \/ \E o \in Object : IdOf[o] = h.agent /\ pending[o].state = "open"
        \/ \E t \in Thread : Id(t) = h.agent /\ InCommit(t)

HeldBy(a, c) == \E h \in holds : h.cell = c /\ h.agent = a

\* Provided that callers commit what they began, no cell stays with an agent for
\* ever: neither the refused commits at the clock's ceiling nor a lock order
\* (a begin refuses and never waits) can keep it.
HeldCellsComeBack ==
    \A a \in AgentId, c \in Cell : []<>~ HeldBy(a, c)

\* One object and one thread carry the agent id a.
Unshared(a) ==
    /\ \A o, p \in Object : IdOf[o] = a /\ IdOf[p] = a => o = p
    /\ \A t, u \in Thread : Id(t) = a /\ Id(u) = a => t = u

\* An operation of an agent id that nobody shares keeps every cell it read until
\* its commit, whoever else shares theirs: only a blind write can make that
\* commit conflict.
OpenKeepsItsHolds ==
    /\ \A o \in Object : Unshared(IdOf[o]) /\ pending[o].state = "open" =>
          AllHeldSince(IdOf[o], DOMAIN pending[o].reads, pending[o].readTime)
    /\ \A t \in Thread : Unshared(Id(t)) /\ stage[t] = "commit" =>
          AllHeldSince(Id(t), DOMAIN op[t].reads, op[t].readTime)

\* Records of different agents are never an A1 pair, whoever shares an id or
\* an Agent object and however late a record is emitted.
NoA1BetweenAgents ==
    \A p \in D!A1Witnesses(emitted) :
        emitted[p[1]].agent = emitted[p[2]].agent

\* What detect_a1 reports of the agents' records is about two agents:
\* "Definition 1 does not count" a pair of one agent.
NoA1WithinAgent ==
    \A p \in D!A1Witnesses(emitted) :
        emitted[p[1]].agent # emitted[p[2]].agent

\* The version that cell c showed at time rt.
LatestAt(c, rt) ==
    CHOOSE v \in versions :
        /\ v.cell = c /\ v.time <= rt
        /\ \A w \in versions : w.cell = c /\ w.time <= rt => w.time <= v.time

\* The emitter can be drained at any moment: a record whose writer has not
\* been emitted yet is never in it, because the writer holds the cell until
\* after its emission, unless another that shares the writer's agent id gives
\* the hold back for it.
EmittedClosed ==
    \A j \in D!A3Witnesses(emitted) : \A c \in DOMAIN emitted[j].reads :
        emitted[j].reads[c] # Null /\ ~ D!HasAntecedent(emitted, j, c) =>
            ~ Unshared(LatestAt(c, emitted[j].readTime).agent)

\* The record a commit leaves in the store's trace reaches the emitter, and
\* the emitter holds nothing the store did not commit.
TraceOf(r) == [agent |-> r.agent, readCells |-> DOMAIN r.reads,
               readTime |-> r.readTime, writeCells |-> DOMAIN r.writes,
               writeTime |-> r.writeTime]

EmittedIsTrace ==
    trace = {TraceOf(emitted[i]) : i \in DOMAIN emitted}
              \cup {TraceOf(Record(t)) : t \in {u \in Thread : stage[u] = "emit"}}

\* The invariant of agents and store together, inductive as a whole.
PAInv == PessInv /\ AgentTypeOK /\ NoLeakedHolds /\ EmittedIsTrace

\* Record r is the operation that made version v.
Wrote(r, v) ==
    /\ r.agent = v.agent
    /\ v.cell \in DOMAIN r.writes
    /\ r.writes[v.cell] = v.val
    /\ r.writeTime = v.time

\* Every version was made by an operation that is emitted or will be, and no
\* cell has two of one time.
VersionsAreFinished ==
    /\ \A v \in versions : \E r \in Finished : Wrote(r, v)
    /\ \A u, v \in versions : u.cell = v.cell /\ u.time = v.time => u = v

\* An agent id that nobody shares holds what it wrote until it is emitted.
EmittingHolds ==
    \A t \in Thread : stage[t] = "emit" /\ Unshared(Id(t)) =>
        \A c \in DOMAIN op[t].writes : HeldBy(Id(t), c)

\* x is the value of cell c's last version at the time, and its writer has been
\* emitted unless its agent id is shared; Null is what a cell without one reads.
ReadFrom(c, x, time) ==
    \/ x = Null
    \/ \E v \in versions :
          /\ v.cell = c
          /\ v.val = x
          /\ v.time <= time
          /\ \A u \in versions : u.cell = c /\ u.time <= time => u.time <= v.time
          /\ Unshared(v.agent) => \E r \in Emitted : Wrote(r, v)

\* That is what every operation read, before its commit and after.
ReadsAreClosed ==
    /\ \A w \in Windows : /\ w[2] <= clock
                          /\ \A c \in DOMAIN w[1] : ReadFrom(c, w[1][c], w[2])
    /\ \A r \in Finished : /\ r.readTime <= clock
                           /\ \A c \in DOMAIN r.reads :
                                 ReadFrom(c, r.reads[c], r.readTime)

\* Why the emitter can be drained at any moment; inductive over PAInv.
ClosedInv == VersionsAreFinished /\ EmittingHolds /\ ReadsAreClosed

=============================================================================
