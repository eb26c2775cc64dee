----------------------------- MODULE PessStore ------------------------------
(****************************************************************************)
(* The pessimistic store of src/pess_concurrent.rs behind its lock: every    *)
(* operation of PessConcurrent runs one step function under the exclusive    *)
(* lock, so it is one atomic step.  A refused begin or commit returns the     *)
(* store unchanged and is a stuttering step.                                 *)
(*                                                                          *)
(* The Vecs are sets: of versions and trace records, which their commit      *)
(* time tells apart, and of holds.  A caller can pass any snapshot to        *)
(* commit (Snapshot is a public struct), not only one it was given.          *)
(****************************************************************************)
EXTENDS Integers

CONSTANTS
    AgentId,    \* interned agent names
    Cell,
    Val,
    Null,       \* what a cell without a version reads as
    MaxClock    \* u64::MAX

ASSUME PessAssumption == MaxClock \in Nat

VARIABLES
    versions,   \* set of [cell, time, val, agent]
    clock,
    holds,      \* set of [cell, agent, since]
    trace       \* set of [agent, readCells, readTime, writeCells, writeTime]

storeVars == << versions, clock, holds, trace >>

Time == 0 .. MaxClock

Version == [cell : Cell, time : Time, val : Val, agent : AgentId]
Hold == [cell : Cell, agent : AgentId, since : Time]
Rec == [agent : AgentId, readCells : SUBSET Cell, readTime : Time,
        writeCells : SUBSET Cell, writeTime : Time]

Init ==
    /\ versions = {}
    /\ clock = 0
    /\ holds = {}
    /\ trace = {}

HeldCells == {h.cell : h \in holds}

NeverHeldByOther(a, cells) == FALSE

\* Some agent other than a holds one of the cells.
HeldByOther(a, cells) == \E h \in holds : h.cell \in cells /\ h.agent # a

\* The holds after a acquires what is free among the cells.
Acquire(a, cells) ==
    holds \cup [cell : cells \ HeldCells, agent : {a}, since : {clock}]

\* The latest version of a cell decides what it reads as.
ValueOf(c) ==
    LET vs == {v \in versions : v.cell = c} IN
    IF vs = {} THEN Null
    ELSE (CHOOSE v \in vs : \A u \in vs : u.time <= v.time).val

-----------------------------------------------------------------------------
CanBegin(a, cells) == ~ HeldByOther(a, cells)

\* An agent's earlier hold on a cell is kept with its old start.
Begin(a, cells) ==
    /\ CanBegin(a, cells)
    /\ holds' = Acquire(a, cells)
    /\ UNCHANGED << versions, clock, trace >>

\* a has held every cell since rt or earlier.
AllHeldSince(a, cells, rt) ==
    \A c \in cells : \E h \in holds :
        h.cell = c /\ h.agent = a /\ h.since <= rt

CanCommit(a, rt, cells, writeCells) ==
    /\ rt <= clock
    /\ clock < MaxClock
    /\ AllHeldSince(a, cells, rt)
    /\ ~ HeldByOther(a, writeCells)

\* writes is a function from the written cells to their values.
Commit(a, rt, cells, writes) ==
    /\ CanCommit(a, rt, cells, DOMAIN writes)
    /\ clock' = clock + 1
    /\ holds' = Acquire(a, DOMAIN writes)
    /\ versions' = versions \cup
         {[cell |-> c, time |-> clock + 1, val |-> writes[c], agent |-> a] :
             c \in DOMAIN writes}
    /\ trace' = trace \cup
         {[agent |-> a, readCells |-> cells, readTime |-> rt,
           writeCells |-> DOMAIN writes, writeTime |-> clock + 1]}

\* All of the agent's holds go, whichever of its operations acquired them.
Release(a) ==
    /\ holds' = {h \in holds : h.agent # a}
    /\ UNCHANGED << versions, clock, trace >>

Tick ==
    /\ clock < MaxClock
    /\ clock' = clock + 1
    /\ UNCHANGED << versions, holds, trace >>

Next ==
    \/ \E a \in AgentId, cells \in SUBSET Cell : Begin(a, cells)
    \/ \E a \in AgentId, rt \in Time, cells \in SUBSET Cell, W \in SUBSET Cell :
          \E writes \in [W -> Val] : Commit(a, rt, cells, writes)
    \/ \E a \in AgentId : Release(a)
    \/ Tick

Spec == Init /\ [][Next]_storeVars

-----------------------------------------------------------------------------
\* Versions, holds and records are over the store's agents, cells and times.
TypeOK ==
    /\ clock \in Time
    /\ versions \subseteq Version
    /\ holds \subseteq Hold
    /\ trace \subseteq Rec

\* Every version was committed at or before the clock (I1).
VersionsInPast == \A v \in versions : v.time <= clock

\* Every record reads before it writes, at or before the clock (I2).
TraceTimes == \A r \in trace : r.readTime < r.writeTime /\ r.writeTime <= clock

\* A committed write is a version at its commit time by its agent.
Link ==
    \A r \in trace : \A c \in r.writeCells :
        \E v \in versions :
            v.cell = c /\ v.time = r.writeTime /\ v.agent = r.agent

\* No cell is held twice (H1).
HoldsExclusive == \A h, k \in holds : h.cell = k.cell => h = k

\* Every hold began at or before the clock (H2).
HoldsInPast == \A h \in holds : h.since <= clock

\* While an agent holds a cell, nobody else writes it, although an agent's
\* holds can be dropped and taken again between its begin and its commit.
NoForeignWriteSinceHold ==
    \A h \in holds : \A v \in versions :
        h.cell = v.cell /\ h.agent # v.agent => v.time <= h.since

\* Definition 1 across agents (a1_cross): another agent's write falls strictly
\* between a record's read and its commit.
A1Cross ==
    \E r, s \in trace :
        /\ r.agent # s.agent
        /\ r.readCells \cap s.writeCells # {}
        /\ r.readTime < s.writeTime
        /\ s.writeTime < r.writeTime

\* No commit the store accepts, with any snapshot a caller makes up, closes a
\* window in which another agent wrote a cell the committer read.
A1CrossFree == ~ A1Cross

\* The lock predicate (PessStore::inv), inductive as a whole.
PessInv ==
    /\ TypeOK
    /\ VersionsInPast
    /\ TraceTimes
    /\ Link
    /\ HoldsExclusive
    /\ HoldsInPast
    /\ NoForeignWriteSinceHold
    /\ A1CrossFree

=============================================================================
