------------------------------- MODULE SIStore -------------------------------
(****************************************************************************)
(* The snapshot-isolation store of src/si_concurrent.rs behind its lock: a   *)
(* begin reads under the shared lock, commit and tick run one step function  *)
(* under the exclusive lock, so each is atomic.                              *)
(*                                                                          *)
(* versions and trace are sets: their commit time tells the entries apart.   *)
(* A caller can pass any snapshot to commit (Snapshot is a public struct).   *)
(****************************************************************************)
EXTENDS Integers

CONSTANTS
    AgentId,
    Cell,
    Val,
    Null,       \* what a cell without a version reads as
    NoAgent,    \* agent 0, which the records of tick carry
    MaxClock    \* u64::MAX

ASSUME SIAssumption == MaxClock \in Nat

VARIABLES
    versions,   \* set of [cell, time, val]
    clock,
    trace       \* set of [agent, readCells, readTime, writeCells, writeTime]

storeVars == << versions, clock, trace >>

Time == 0 .. MaxClock

Init ==
    /\ versions = {}
    /\ clock = 0
    /\ trace = {}

VersionsOf(c) == {v \in versions : v.cell = c}

ValueOf(c) ==
    IF VersionsOf(c) = {} THEN Null
    ELSE (CHOOSE v \in VersionsOf(c) :
            \A u \in VersionsOf(c) : u.time <= v.time).val

ValidatesWrites(cells, W, rt) ==
    \A v \in versions : v.cell \in cells \cap W => v.time <= rt

\* The gate validate: no cell read has a version after the read time.
Validates(cells, W, rt) ==
    \A v \in versions : v.cell \in cells => v.time <= rt

CanCommit(rt, cells, W) ==
    /\ rt <= clock
    /\ clock < MaxClock
    /\ Validates(cells, W, rt)

Commit(a, rt, cells, writes) ==
    /\ CanCommit(rt, cells, DOMAIN writes)
    /\ clock' = clock + 1
    /\ versions' = versions \cup
         {[cell |-> c, time |-> clock + 1, val |-> writes[c]] :
             c \in DOMAIN writes}
    /\ trace' = trace \cup
         {[agent |-> a, readCells |-> cells, readTime |-> rt,
           writeCells |-> DOMAIN writes, writeTime |-> clock + 1]}

\* tick commits an empty snapshot read at time 0; at the ceiling it is refused
\* and the clock it returns is the old one.
Tick ==
    IF clock = MaxClock
    THEN UNCHANGED storeVars
    ELSE Commit(NoAgent, 0, {}, [c \in {} |-> Null])

Next ==
    \/ \E a \in AgentId, rt \in Time, cells \in SUBSET Cell, W \in SUBSET Cell :
          \E writes \in [W -> Val] : Commit(a, rt, cells, writes)
    \/ Tick

Spec == Init /\ [][Next]_storeVars

-----------------------------------------------------------------------------
Version == [cell : Cell, time : Time, val : Val]
Rec == [agent : AgentId \cup {NoAgent}, readCells : SUBSET Cell,
        readTime : Time, writeCells : SUBSET Cell, writeTime : Time]

\* Versions and records are over the store's agents, cells and times.
TypeOK ==
    /\ clock \in Time
    /\ versions \subseteq Version
    /\ trace \subseteq Rec

\* Every version was committed at or before the clock.
VersionsInPast == \A v \in versions : v.time <= clock

\* Every record reads before it writes, at or before the clock.
TraceTimes == \A r \in trace : r.readTime < r.writeTime /\ r.writeTime <= clock

\* A committed write is in the version chain, where the gate looks for it.
Link ==
    \A r \in trace : \A c \in r.writeCells :
        \E v \in versions : v.cell = c /\ v.time = r.writeTime

\* Definition 1 without its conjuncts on values and agents (a1_struct).
A1Struct ==
    \E r, s \in trace :
        /\ r.readCells \cap s.writeCells # {}
        /\ r.readTime < s.writeTime
        /\ s.writeTime < r.writeTime

\* No commit the store accepts, with any snapshot a caller makes up, closes a
\* window in which a cell it read was written, by its own agent or another.
A1StructFree == ~ A1Struct

\* The invariant the lock carries.
SIInv ==
    /\ TypeOK
    /\ VersionsInPast
    /\ TraceTimes
    /\ Link
    /\ A1StructFree

=============================================================================
