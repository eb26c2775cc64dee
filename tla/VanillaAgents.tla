---------------------------- MODULE VanillaAgents ----------------------------
(****************************************************************************)
(* Agents (src/agent.rs) over the vanilla store (src/vanilla.rs): a map and  *)
(* a clock under one mutex, with no version, hold or validation.  Every      *)
(* commit succeeds and overwrites.                                           *)
(****************************************************************************)
EXTENDS Agent

CONSTANTS
    AgentId,
    Cell,
    Val,        \* may hold Null: a caller can write the string "NULL"
    Null,       \* what a cell nobody wrote reads as, "NULL"
    MaxClock    \* bound of the model: the code's counter is not checked

ASSUME VanillaAssumption ==
    IdOf \in [Object -> AgentId] /\ MaxClock \in Nat

VARIABLES
    data,
    clock,
    stale       \* history: write times of operations that committed although
                \* a cell they read no longer held the value they read

D == INSTANCE Detectors

vanillaVars == << data, clock >>
allVars == << vanillaVars, stale, agentVars >>

VAInit ==
    /\ AgentInit
    /\ data = [c \in Cell |-> Null]
    /\ clock = 0
    /\ stale = {}

VBegin(t, cells, planned) ==
    /\ BeginAccepted(t, [c \in cells |-> data[c]], clock, planned)
    /\ UNCHANGED << vanillaVars, stale >>

VTake(t, writes, named) ==
    /\ Take(t, writes, named)
    /\ UNCHANGED << vanillaVars, stale >>

TimeBeforeTick == clock

WriteTime == clock + 1

VCommit(t) ==
    LET o == op[t] IN
    /\ clock < MaxClock
    /\ Committed(t, WriteTime)
    /\ clock' = clock + 1
    /\ data' = [c \in Cell |-> IF c \in DOMAIN o.writes THEN o.writes[c] ELSE data[c]]
    /\ stale' = IF \E c \in DOMAIN o.reads : o.reads[c] # data[c]
                THEN stale \cup {clock + 1} ELSE stale

VEmit(t) == Emit(t) /\ UNCHANGED << vanillaVars, stale >>

\* The store's release does nothing.
VRelease(t) == Released(t) /\ UNCHANGED << vanillaVars, stale >>

VTick ==
    /\ clock < MaxClock
    /\ clock' = clock + 1
    /\ UNCHANGED << data, stale, agentVars >>

VANext ==
    \/ \E t \in Thread :
          \/ \E cells \in SUBSET Cell, planned \in PlanChoice :
                VBegin(t, cells, planned)
          \/ \E W \in SUBSET Cell, named \in NameChoice :
                \E writes \in [W -> Val] : VTake(t, writes, named)
          \/ VCommit(t)
          \/ VEmit(t)
          \/ VRelease(t)
    \/ VTick

VASpec == VAInit /\ [][VANext]_allVars

-----------------------------------------------------------------------------
\* No operation is between its commit in the store and its emission.
Quiet == \A t \in Thread : stage[t] # "emit"

\* The level of a log drained in a quiet moment is 0, 3 or 4, never the
\* levels that A3 and A6 decide: the store loses updates, but whatever it
\* hands out was written by an operation whose record is in the log.
VanillaLevels == Quiet => D!ClassifyLevel(emitted) \in {0, 3, 4}

\* detect_a1 misses no stale commit: an operation that committed over a changed
\* read is a witness, although the detector sees records and not the store, and
\* whatever was written in between, the old value included.
StaleCommitsAreFound ==
    Quiet => stale \subseteq
        {emitted[p[1]].writeTime : p \in D!A1Witnesses(emitted)}

\* A log in which detect_a1 finds nothing replays: executed one after another
\* in the order of their write times, the operations read the values they
\* recorded.
ReadsReplay ==
    Quiet /\ D!A1Witnesses(emitted) = {} =>
        \A i \in DOMAIN emitted : \A c \in DOMAIN emitted[i].reads :
            LET before == {k \in DOMAIN emitted :
                              /\ c \in DOMAIN emitted[k].writes
                              /\ emitted[k].writeTime < emitted[i].writeTime}
                last == CHOOSE k \in before : \A m \in before :
                            emitted[m].writeTime <= emitted[k].writeTime
            IN emitted[i].reads[c] =
                  IF before = {} THEN Null ELSE emitted[last].writes[c]

-----------------------------------------------------------------------------
\* Operations are over the store's cells, values and times.
VATypeOK ==
    /\ AgentTyped(Cell, Val, 0 .. MaxClock)
    /\ clock \in 0 .. MaxClock
    /\ DOMAIN data = Cell

\* Of the writes that the operations in F made to cell c, x is the last one at
\* or before the time; it is Null when there is none.
Shown(F, c, x, time) ==
    \/ x = Null /\ \A s \in F : c \in DOMAIN s.writes => time < s.writeTime
    \/ \E s \in F :
          /\ c \in DOMAIN s.writes
          /\ s.writes[c] = x
          /\ s.writeTime <= time
          /\ \A u \in F : c \in DOMAIN u.writes /\ u.writeTime <= time =>
                u.writeTime <= s.writeTime

\* An operation reads before it writes, at a time of its own, and its effects
\* are its writes in the order they were issued.
FinishedInOrder ==
    /\ \A r \in Finished : /\ r.readTime \in Nat /\ r.writeTime \in Nat
                           /\ r.readTime < r.writeTime /\ r.writeTime <= clock
                           /\ r.io = r.co
    /\ \A r, s \in Finished : r.writeTime = s.writeTime => r = s

\* A cell holds its last write, and what was read was the last write then.
ReadsAreShown ==
    /\ \A c \in Cell : Shown(Finished, c, data[c], clock)
    /\ \A w \in Windows : /\ w[2] <= clock
                          /\ \A c \in DOMAIN w[1] :
                                Shown(Finished, c, w[1][c], w[2])
    /\ \A r \in Finished : \A c \in DOMAIN r.reads :
          Shown(Finished, c, r.reads[c], r.readTime)

\* A stale commit has an overwrite inside its window that shows it.
StaleArePairs ==
    \A time \in stale : \E r, s \in Finished :
        r.writeTime = time /\ D!A1Pair(r, s)

\* The invariant of agents and vanilla store together, inductive as a whole.
VAInv == VATypeOK /\ FinishedInOrder /\ ReadsAreShown /\ StaleArePairs

=============================================================================
