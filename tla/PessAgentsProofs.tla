-------------------------- MODULE PessAgentsProofs ---------------------------
(****************************************************************************)
(* What agents over the pessimistic store guarantee for any number of        *)
(* threads, objects, agent ids, cells and values, with objects shared by     *)
(* threads and ids shared by objects.                                        *)
(****************************************************************************)
EXTENDS PessAgents, AgentProofs

\* What acquiring cells for a leaves of the invariant's facts about holds,
\* before the store's versions change.
LEMMA AcquireKeepsHolds ==
    ASSUME PessInv, NEW a \in AgentId, NEW cells \in SUBSET Cell,
           holds' = Acquire(a, cells)
    PROVE  /\ holds' \subseteq Hold
           /\ HoldsExclusive'
           /\ \A h \in holds' : h.since <= clock
           /\ \A h \in holds' : \A v \in versions :
                 h.cell = v.cell /\ h.agent # v.agent => v.time <= h.since
<1> USE DEF PessInv, TypeOK
<1> DEFINE new == [cell : cells \ HeldCells, agent : {a}, since : {clock}]
<1>1. holds' = holds \cup new
  BY DEF Acquire
<1>2. \A h \in new : /\ h.cell \in cells /\ h.cell \notin HeldCells
                     /\ h.agent = a /\ h.since = clock
                     /\ h = [cell |-> h.cell, agent |-> h.agent, since |-> h.since]
  OBVIOUS
<1>3. new \subseteq Hold
  BY DEF Hold
<1>4. HoldsExclusive'
  <2> SUFFICES ASSUME NEW h \in holds', NEW k \in holds', h.cell = k.cell
               PROVE  h = k
    BY DEF HoldsExclusive
  <2>1. CASE h \in holds /\ k \in holds
    BY <2>1 DEF HoldsExclusive
  <2>2. CASE h \in new /\ k \in new
    BY <1>2, <2>2
  <2>3. CASE h \in holds /\ k \in new
    BY <1>2, <2>3 DEF HeldCells
  <2>4. CASE h \in new /\ k \in holds
    BY <1>2, <2>4 DEF HeldCells
  <2> QED
    BY <1>1, <2>1, <2>2, <2>3, <2>4
<1>5. \A h \in holds' : h.since <= clock
  BY <1>1, <1>2, PessAssumption DEF HoldsInPast, Time, Hold
<1>6. \A h \in holds' : \A v \in versions :
         h.cell = v.cell /\ h.agent # v.agent => v.time <= h.since
  BY <1>1, <1>2 DEF NoForeignWriteSinceHold, VersionsInPast
<1> QED
  BY <1>1, <1>3, <1>4, <1>5, <1>6

\* An accepted commit closes no window and writes under no other agent's hold.
LEMMA CommitPreserves ==
    ASSUME PessInv, NEW a \in AgentId, NEW rt \in Time,
           NEW cells \in SUBSET Cell, NEW W \in SUBSET Cell,
           NEW writes \in [W -> Val], Commit(a, rt, cells, writes)
    PROVE  PessInv'
<1> DEFINE rec == [agent |-> a, readCells |-> cells, readTime |-> rt,
                   writeCells |-> W, writeTime |-> clock + 1]
           new == {[cell |-> c, time |-> clock + 1, val |-> writes[c], agent |-> a] :
                      c \in W}
<1>1. /\ clock' = clock + 1
      /\ holds' = Acquire(a, W)
      /\ versions' = versions \cup new
      /\ trace' = trace \cup {rec}
      /\ rt <= clock /\ clock < MaxClock
      /\ AllHeldSince(a, cells, rt)
      /\ ~ HeldByOther(a, W)
  BY DEF Commit, CanCommit
<1>2. /\ clock \in Nat /\ clock + 1 \in Time /\ rt \in Nat
      /\ \A v \in versions : v.time \in Nat /\ v.time <= clock
      /\ \A h \in holds : h.since \in Nat
      /\ \A r \in trace : /\ r.readTime \in Nat /\ r.writeTime \in Nat
                          /\ r.readTime < r.writeTime /\ r.writeTime <= clock
  BY <1>1, PessAssumption
     DEF PessInv, TypeOK, Time, Version, Hold, Rec, VersionsInPast, TraceTimes
<1>3. \A v \in new : /\ v.cell \in W /\ v.agent = a /\ v.time = clock + 1
                     /\ v \in Version
  BY <1>2 DEF Version
<1>4. /\ holds' \subseteq Hold
      /\ HoldsExclusive'
      /\ \A h \in holds' : h.since <= clock
      /\ \A h \in holds' : \A v \in versions :
            h.cell = v.cell /\ h.agent # v.agent => v.time <= h.since
  BY <1>1, AcquireKeepsHolds
<1>5. TypeOK'
  <2>1. rec \in Rec
    BY <1>2 DEF Rec
  <2> QED
    BY <1>1, <1>2, <1>3, <1>4, <2>1 DEF PessInv, TypeOK
<1>6. VersionsInPast'
  BY <1>1, <1>2, <1>3 DEF VersionsInPast
<1>7. TraceTimes'
  BY <1>1, <1>2 DEF TraceTimes
<1>8. Link'
  <2> SUFFICES ASSUME NEW r \in trace', NEW c \in r.writeCells
               PROVE  \E v \in versions' :
                         v.cell = c /\ v.time = r.writeTime /\ v.agent = r.agent
    BY DEF Link
  <2>1. CASE r \in trace
    BY <1>1, <2>1 DEF PessInv, Link
  <2>2. CASE r = rec
    <3> DEFINE v == [cell |-> c, time |-> clock + 1, val |-> writes[c], agent |-> a]
    <3>1. v \in versions'
      BY <1>1, <2>2
    <3> QED
      BY <2>2, <3>1
  <2> QED
    BY <1>1, <2>1, <2>2
<1>9. HoldsInPast'
  <2>1. \A h \in holds' : h.since \in Nat
    BY <1>4 DEF Hold, Time
  <2> QED
    BY <1>1, <1>2, <1>4, <2>1 DEF HoldsInPast
<1>10. NoForeignWriteSinceHold'
  <2> SUFFICES ASSUME NEW h \in holds', NEW v \in new,
                      h.cell = v.cell, h.agent # v.agent
               PROVE  FALSE
    BY <1>1, <1>4 DEF NoForeignWriteSinceHold
  <2>1. h \in holds
    BY <1>1, <1>3 DEF Acquire
  <2> QED
    BY <1>1, <1>3, <2>1 DEF HeldByOther
<1>11. A1CrossFree'
  <2> SUFFICES ASSUME NEW r \in trace', NEW s \in trace', NEW c,
                      r.agent # s.agent,
                      c \in r.readCells, c \in s.writeCells,
                      r.readTime < s.writeTime, s.writeTime < r.writeTime
               PROVE  FALSE
    BY DEF A1CrossFree, A1Cross
  <2>1. CASE r \in trace /\ s \in trace
    BY <2>1 DEF PessInv, A1CrossFree, A1Cross
  <2>2. CASE s = rec
    \* Every record was committed at or before the clock s commits after.
    BY <1>1, <1>2, <2>2
  <2>3. CASE r = rec /\ s \in trace
    <3>1. PICK v \in versions : v.cell = c /\ v.time = s.writeTime /\ v.agent = s.agent
      BY <2>3 DEF PessInv, Link
    <3>2. PICK h \in holds : h.cell = c /\ h.agent = a /\ h.since <= rt
      BY <1>1, <2>3 DEF AllHeldSince
    <3>3. v.time <= h.since
      BY <2>3, <3>1, <3>2 DEF PessInv, NoForeignWriteSinceHold
    <3> QED
      BY <1>2, <2>3, <3>1, <3>2, <3>3
  <2> QED
    BY <1>1, <2>1, <2>2, <2>3
<1> QED
  BY <1>4, <1>5, <1>6, <1>7, <1>8, <1>9, <1>10, <1>11 DEF PessInv

\* The whole lock predicate is inductive.
LEMMA PessStep == PessInv /\ [Next]_storeVars => PessInv'
<1> SUFFICES ASSUME PessInv, [Next]_storeVars PROVE PessInv'
  OBVIOUS
<1> USE DEF PessInv, TypeOK
<1>1. ASSUME NEW a \in AgentId, NEW cells \in SUBSET Cell, Begin(a, cells)
      PROVE  PessInv'
  <2>1. holds' = Acquire(a, cells) /\ UNCHANGED << versions, clock, trace >>
    BY <1>1 DEF Begin
  <2>2. /\ holds' \subseteq Hold
        /\ HoldsExclusive'
        /\ \A h \in holds' : h.since <= clock
        /\ \A h \in holds' : \A v \in versions :
              h.cell = v.cell /\ h.agent # v.agent => v.time <= h.since
    BY <2>1, AcquireKeepsHolds
  <2> QED
    BY <2>1, <2>2 DEF VersionsInPast, TraceTimes, Link, HoldsInPast,
                      NoForeignWriteSinceHold, A1CrossFree, A1Cross
<1>2. ASSUME NEW a \in AgentId, NEW rt \in Time, NEW cells \in SUBSET Cell,
             NEW W \in SUBSET Cell, NEW writes \in [W -> Val],
             Commit(a, rt, cells, writes)
      PROVE  PessInv'
  BY <1>2, CommitPreserves
<1>3. ASSUME NEW a \in AgentId, Release(a)
      PROVE  PessInv'
  <2>1. holds' \subseteq holds /\ UNCHANGED << versions, clock, trace >>
    BY <1>3 DEF Release
  <2> QED
    BY <2>1 DEF VersionsInPast, TraceTimes, Link, HoldsExclusive, HoldsInPast,
                NoForeignWriteSinceHold, A1CrossFree, A1Cross
<1>4. ASSUME Tick
      PROVE  PessInv'
  <2>1. clock' = clock + 1 /\ clock < MaxClock /\ UNCHANGED << versions, holds, trace >>
    BY <1>4 DEF Tick
  <2>2. /\ clock \in Nat /\ clock' \in Time
        /\ \A v \in versions : v.time \in Nat
        /\ \A h \in holds : h.since \in Nat
        /\ \A r \in trace : r.writeTime \in Nat
    BY <2>1, PessAssumption DEF Time, Version, Hold, Rec
  <2>3. VersionsInPast' /\ TraceTimes' /\ HoldsInPast'
    BY <2>1, <2>2 DEF VersionsInPast, TraceTimes, HoldsInPast
  <2> QED
    BY <2>1, <2>2, <2>3 DEF Link, HoldsExclusive, NoForeignWriteSinceHold,
                            A1CrossFree, A1Cross
<1>5. CASE UNCHANGED storeVars
  BY <1>5 DEF storeVars, VersionsInPast, TraceTimes, Link, HoldsExclusive,
              HoldsInPast, NoForeignWriteSinceHold, A1CrossFree, A1Cross
<1> QED
  BY <1>1, <1>2, <1>3, <1>4, <1>5 DEF Next

\* PessStore::inv, with the exclusive-hold facts that make a1_cross inductive,
\* holds whatever calls are made and whatever snapshots they are made with.
THEOREM PessInvariance == Spec => []PessInv
<1>1. Init => PessInv
  BY PessAssumption
     DEF Init, PessInv, TypeOK, Time, VersionsInPast, TraceTimes, Link,
         HoldsExclusive, HoldsInPast, NoForeignWriteSinceHold, A1CrossFree, A1Cross
<1> QED
  BY <1>1, PessStep, PTL DEF Spec

\* No accepted commit closes a window in which another agent wrote a cell the
\* committer read.
THEOREM PessHasNoCrossA1 == Spec => []A1CrossFree
<1>1. PessInv => A1CrossFree
  BY DEF PessInv
<1> QED
  BY <1>1, PessInvariance, PTL

\* A cell is written by its holder only, for as long as it is held.
THEOREM HoldsExcludeWriters == Spec => []NoForeignWriteSinceHold
<1>1. PessInv => NoForeignWriteSinceHold
  BY DEF PessInv
<1> QED
  BY <1>1, PessInvariance, PTL

-----------------------------------------------------------------------------

\* Every step of an agent is a step of the store or leaves it alone.
LEMMA AgentStepIsStoreStep ==
    ASSUME AgentTypeOK, [PANext]_allVars
    PROVE  [Next]_storeVars
<1>1. ASSUME NEW t \in Thread
      PROVE  Id(t) \in AgentId
  BY AgentAssumption, PessAgentsAssumption DEF Id
<1>2. ASSUME NEW t \in Thread, NEW cells \in SUBSET Cell,
             NEW planned \in PlanChoice, AgentBegin(t, cells, planned)
      PROVE  [Next]_storeVars
  BY <1>1, <1>2 DEF AgentBegin, Next
<1>3. ASSUME NEW t \in Thread, StoreCommit(t)
      PROVE  [Next]_storeVars
  <2>1. CASE UNCHANGED storeVars
    BY <2>1
  <2>2. CASE Commit(Id(t), op[t].readTime, DOMAIN op[t].reads, op[t].writes)
    <3>1. PICK W \in SUBSET Cell : op[t].writes \in [W -> Val]
      BY DEF AgentTypeOK, AgentTyped
    <3> QED
      BY <1>1, <2>2, <3>1 DEF Next, AgentTypeOK, AgentTyped
  <2> QED
    BY <1>3, <2>1, <2>2 DEF StoreCommit
<1>4. ASSUME NEW t \in Thread, AgentRelease(t)
      PROVE  [Next]_storeVars
  BY <1>1, <1>4 DEF AgentRelease, Next
<1>5. CASE StoreTick
  BY <1>5 DEF StoreTick, Next
<1>6. CASE UNCHANGED allVars
  BY <1>6 DEF allVars
<1> QED
  BY <1>2, <1>3, <1>4, <1>5, <1>6
     DEF PANext, ThreadStep, CommitCall, AgentTake, AgentEmit

\* Agents stay typed: a begin reads the store's cells at the store's clock.
LEMMA AgentTypeStep ==
    ASSUME AgentTypeOK, PessInv, [PANext]_allVars
    PROVE  AgentTypeOK'
<1> USE DEF AgentTypeOK
<1>0. clock \in Time /\ 0 \in Time
  BY PessAssumption DEF PessInv, TypeOK, Time
<1>1. ASSUME NEW t \in Thread, AgentStep(Cell, Val, Time, t)
      PROVE  AgentTypeOK'
  BY <1>0, <1>1, AgentStepTyped DEF Time
<1>2. ASSUME NEW t \in Thread, ThreadStep(t)
      PROVE  AgentStep(Cell, Val, Time, t)
  <2>1. ASSUME NEW cells \in SUBSET Cell, NEW planned \in PlanChoice,
               AgentBegin(t, cells, planned)
        PROVE  AgentStep(Cell, Val, Time, t)
    BY <1>0, <2>1 DEF AgentBegin, AgentStep
  <2> QED
    BY <1>2, <2>1
       DEF ThreadStep, CommitCall, AgentTake, StoreCommit, AgentEmit, AgentRelease, AgentStep
<1>3. CASE StoreTick \/ UNCHANGED allVars
  BY <1>3, AgentUnchangedTyped DEF StoreTick, allVars, Time
<1> QED
  BY <1>1, <1>2, <1>3 DEF PANext

\* Whoever acquires cells, the holds are the old ones and those of the acquirer.
LEMMA AcquireAddsOwn ==
    ASSUME NEW a, NEW cells, NEW h \in Acquire(a, cells)
    PROVE  h \in holds \/ h.agent = a
  BY DEF Acquire

\* A begin gives its holds an open operation, a commit call carries them from
\* there to its release, and both ways out of the call reach the release.
LEMMA NoLeakedHoldsStep ==
    ASSUME AgentTypeOK, NoLeakedHolds, [PANext]_allVars
    PROVE  NoLeakedHolds'
<1> USE DEF AgentTypeOK, AgentTyped
<1> DEFINE OpenFor(a) == \E o \in Object : IdOf[o] = a /\ pending[o].state = "open"
           CommitsFor(a) == \E t \in Thread : Id(t) = a /\ InCommit(t)
<1>a. \A h \in holds : OpenFor(h.agent) \/ CommitsFor(h.agent)
  BY DEF NoLeakedHolds
<1>b. ASSUME \A h \in holds' : OpenFor(h.agent)' \/ CommitsFor(h.agent)'
      PROVE  NoLeakedHolds'
  BY <1>b DEF NoLeakedHolds
<1>c. \A t \in Thread : ObjectOf[t] \in Object /\ IdOf[ObjectOf[t]] = Id(t)
  BY AgentAssumption DEF Id
<1>1. ASSUME NEW t \in Thread, NEW cells \in SUBSET Cell,
             NEW planned \in PlanChoice, AgentBegin(t, cells, planned)
      PROVE  NoLeakedHolds'
  <2>1. /\ stage' = stage
        /\ pending[ObjectOf[t]].state = "none"
        /\ \A o \in Object \ {ObjectOf[t]} : pending'[o] = pending[o]
    BY <1>1, <1>c DEF AgentBegin, BeginAccepted, BeginRefused, MayBegin
  <2>2. \A h \in holds : OpenFor(h.agent)' \/ CommitsFor(h.agent)'
    BY <1>a, <2>1 DEF InCommit, Id
  <2>3. CASE Begin(Id(t), cells)
             /\ BeginAccepted(t, [c \in cells |-> ValueOf(c)], clock, planned)
    <3>1. OpenFor(Id(t))'
      BY <1>c, <2>3 DEF BeginAccepted, Id
    <3>2. \A h \in holds' : h \in holds \/ h.agent = Id(t)
      BY <2>3, AcquireAddsOwn DEF Begin
    <3> QED
      BY <1>b, <2>2, <3>1, <3>2
  <2>4. CASE UNCHANGED storeVars
    BY <1>b, <2>2, <2>4 DEF storeVars
  <2> QED
    BY <1>1, <2>3, <2>4 DEF AgentBegin
<1>2. ASSUME NEW t \in Thread, NEW writes, NEW named, AgentTake(t, writes, named)
      PROVE  NoLeakedHolds'
  <2>1. holds' = holds /\ \A o \in Object \ {ObjectOf[t]} : pending'[o] = pending[o]
    BY <1>2 DEF AgentTake, Take, TakeRefused, storeVars
  <2>2. CASE Take(t, writes, named)
    <3>1. stage' = [stage EXCEPT ![t] = "commit"]
      BY <2>2 DEF Take
    <3>2. \A u \in Thread : InCommit(u) => InCommit(u)'
      BY <3>1 DEF InCommit
    <3>3. InCommit(t)'
      BY <3>1 DEF InCommit
    <3> QED
      BY <1>a, <1>b, <1>c, <2>1, <3>2, <3>3 DEF Id
  <2>3. CASE TakeRefused(t)
    <3>1. pending[ObjectOf[t]].state = "refused" /\ stage' = stage
      BY <2>3 DEF TakeRefused
    <3>2. pending[ObjectOf[t]].state # "open"
      BY <3>1
    <3> QED
      BY <1>a, <1>b, <2>1, <3>1, <3>2 DEF InCommit, Id
  <2> QED
    BY <1>2, <2>2, <2>3 DEF AgentTake
<1>3. ASSUME NEW t \in Thread, StoreCommit(t) \/ AgentEmit(t)
      PROVE  NoLeakedHolds'
  <2>1. /\ pending' = pending
        /\ \/ stage' = [stage EXCEPT ![t] = "release"]
           \/ stage' = [stage EXCEPT ![t] = "emit"]
    BY <1>3 DEF StoreCommit, Committed, Conflict, AgentEmit, Emit
  <2>2. InCommit(t)' /\ \A u \in Thread : InCommit(u) => InCommit(u)'
    BY <2>1 DEF InCommit
  <2>3. \A h \in holds' : h \in holds \/ h.agent = Id(t)
    BY <1>3, AcquireAddsOwn
       DEF StoreCommit, Commit, AgentEmit, storeVars
  <2> QED
    BY <1>a, <1>b, <2>1, <2>2, <2>3 DEF Id
<1>4. ASSUME NEW t \in Thread, AgentRelease(t)
      PROVE  NoLeakedHolds'
  <2>1. /\ pending' = pending
        /\ \A u \in Thread \ {t} : stage'[u] = stage[u]
        /\ \A h \in holds' : h \in holds /\ h.agent # Id(t)
    BY <1>4 DEF AgentRelease, Release, Released
  <2> QED
    BY <1>a, <1>b, <2>1 DEF InCommit, Id
<1>5. CASE StoreTick \/ UNCHANGED allVars
  BY <1>5, <1>a, <1>b
     DEF StoreTick, Tick, allVars, agentVars, storeVars, InCommit, Id
<1> QED
  BY <1>1, <1>2, <1>3, <1>4, <1>5 DEF PANext, ThreadStep, CommitCall

\* A record of the store's trace is one in the log or one on its way there.
LEMMA EmittedIsTraceStep ==
    ASSUME AgentTypeOK, EmittedIsTrace, [PANext]_allVars
    PROVE  EmittedIsTrace'
<1> USE DEF AgentTypeOK, AgentTyped
<1> DEFINE Logged(x) == \E i \in DOMAIN emitted : x = TraceOf(emitted[i])
           Coming(x) == \E u \in Thread : stage[u] = "emit" /\ x = TraceOf(Record(u))
<1>a. \A x : x \in trace <=> Logged(x) \/ Coming(x)
  BY DEF EmittedIsTrace
<1>b. ASSUME \A x : x \in trace' <=> Logged(x)' \/ Coming(x)'
      PROVE  EmittedIsTrace'
  BY <1>b DEF EmittedIsTrace
<1>c. ASSUME trace' = trace, emitted' = emitted,
             \A u \in Thread : (stage'[u] = "emit") <=> (stage[u] = "emit"),
             \A u \in Thread : stage[u] = "emit" => op'[u] = op[u]
      PROVE  EmittedIsTrace'
  <2>1. \A u \in Thread : stage[u] = "emit" => Record(u)' = Record(u)
    BY <1>c DEF Record, ToolsUsed, Id
  <2>2. \A x : (Logged(x)' <=> Logged(x)) /\ (Coming(x)' <=> Coming(x))
    BY <1>c, <2>1
  <2>3. \A x : x \in trace' <=> Logged(x)' \/ Coming(x)'
    <3> HIDE DEF Logged, Coming
    <3> QED BY <1>a, <1>c, <2>2
  <2> QED
    BY <1>b, <2>3
<1>1. ASSUME NEW t \in Thread, NEW cells \in SUBSET Cell,
             NEW planned \in PlanChoice, AgentBegin(t, cells, planned)
      PROVE  EmittedIsTrace'
  BY <1>1, <1>c DEF AgentBegin, Begin, BeginAccepted, BeginRefused, storeVars
<1>2. ASSUME NEW t \in Thread, NEW writes, NEW named, AgentTake(t, writes, named)
      PROVE  EmittedIsTrace'
  <2>1. /\ trace' = trace /\ emitted' = emitted
        /\ \A u \in Thread \ {t} : stage'[u] = stage[u] /\ op'[u] = op[u]
        /\ stage[t] = "idle" /\ stage'[t] \in {"idle", "commit"}
    BY <1>2 DEF AgentTake, Take, TakeRefused, storeVars
  <2>2. stage[t] # "emit" /\ stage'[t] # "emit"
    BY <2>1
  <2> QED
    BY <1>c, <2>1, <2>2
<1>3. ASSUME NEW t \in Thread, StoreCommit(t)
      PROVE  EmittedIsTrace'
  <2>1. CASE Conflict(t) /\ UNCHANGED storeVars
    <3>1. /\ trace' = trace /\ emitted' = emitted
          /\ \A u \in Thread \ {t} : stage'[u] = stage[u] /\ op'[u] = op[u]
          /\ stage[t] = "commit" /\ stage'[t] = "release"
      BY <2>1 DEF Conflict, storeVars
    <3>2. stage[t] # "emit" /\ stage'[t] # "emit"
      BY <3>1
    <3> QED
      BY <1>c, <3>1, <3>2
  <2>2. CASE /\ Commit(Id(t), op[t].readTime, DOMAIN op[t].reads, op[t].writes)
             /\ Committed(t, clock + 1)
    <3> DEFINE done == [op[t] EXCEPT !.writeTime = clock + 1]
               rec == [agent |-> Id(t), readCells |-> DOMAIN op[t].reads,
                       readTime |-> op[t].readTime,
                       writeCells |-> DOMAIN op[t].writes,
                       writeTime |-> clock + 1]
    <3>1. /\ emitted' = emitted /\ op'[t] = done
          /\ \A u \in Thread \ {t} : stage'[u] = stage[u] /\ op'[u] = op[u]
          /\ stage[t] = "commit" /\ stage'[t] = "emit"
      BY <2>2 DEF Committed
    <3>2. trace' = trace \cup {rec}
      BY <2>2 DEF Commit
    <3>3. /\ done.reads = op[t].reads /\ done.readTime = op[t].readTime
          /\ done.writes = op[t].writes /\ done.writeTime = clock + 1
      BY CommittedFields
    <3>4. TraceOf(Record(t))' = rec
      <4> HIDE DEF done
      <4> QED BY <3>1, <3>3 DEF TraceOf, Record, Id
    <3>5. \A u \in Thread \ {t} : TraceOf(Record(u))' = TraceOf(Record(u))
      BY <3>1 DEF TraceOf, Record, ToolsUsed, Id
    <3>6. stage[t] # "emit"
      BY <3>1
    <3>7. \A x : Coming(x)' <=> Coming(x) \/ x = rec
      <4> HIDE DEF rec, done
      <4> QED BY <3>1, <3>4, <3>5, <3>6
    <3>8. \A x : Logged(x)' <=> Logged(x)
      BY <3>1 DEF TraceOf
    <3>9. \A x : x \in trace' <=> Logged(x)' \/ Coming(x)'
      <4> HIDE DEF rec, done, Logged, Coming
      <4> QED BY <1>a, <3>2, <3>7, <3>8
    <3> QED
      BY <1>b, <3>9
  <2> QED
    BY <1>3, <2>1, <2>2 DEF StoreCommit
<1>4. ASSUME NEW t \in Thread, AgentEmit(t)
      PROVE  EmittedIsTrace'
  <2>1. /\ trace' = trace
        /\ emitted' = Append(emitted, Record(t))
        /\ \A u \in Thread \ {t} : stage'[u] = stage[u] /\ op'[u] = op[u]
        /\ stage[t] = "emit" /\ stage'[t] = "release"
    BY <1>4 DEF AgentEmit, Emit, storeVars
  <2>2. /\ DOMAIN emitted' = DOMAIN emitted \cup {Len(emitted) + 1}
        /\ \A i \in DOMAIN emitted : emitted'[i] = emitted[i]
        /\ emitted'[Len(emitted) + 1] = Record(t)
    <3>1. emitted \in Seq({emitted[i] : i \in DOMAIN emitted})
      OBVIOUS
    <3>2. \A r : LET new == Append(emitted, r) IN
                 /\ DOMAIN new = DOMAIN emitted \cup {Len(emitted) + 1}
                 /\ \A i \in DOMAIN emitted : new[i] = emitted[i]
                 /\ new[Len(emitted) + 1] = r
      BY ONLY <3>1, EmittedStaysSequence
    <3> QED
      BY <2>1, <3>2
  <2>3. \A x : Logged(x)' <=> Logged(x) \/ x = TraceOf(Record(t))
    BY <2>2 DEF TraceOf
  <2>4. \A u \in Thread \ {t} : TraceOf(Record(u))' = TraceOf(Record(u))
    BY <2>1 DEF TraceOf, Record, ToolsUsed, Id
  <2>5. stage'[t] # "emit"
    BY <2>1
  <2>6. \A x : Coming(x) <=> Coming(x)' \/ x = TraceOf(Record(t))
    BY <2>1, <2>4, <2>5
  <2>7. \A x : x \in trace' <=> Logged(x)' \/ Coming(x)'
    <3> HIDE DEF Logged, Coming
    <3> QED BY <1>a, <2>1, <2>3, <2>6
  <2> QED
    BY <1>b, <2>7
<1>5. ASSUME NEW t \in Thread, AgentRelease(t)
      PROVE  EmittedIsTrace'
  <2>1. /\ trace' = trace /\ emitted' = emitted /\ op' = op
        /\ \A u \in Thread \ {t} : stage'[u] = stage[u]
        /\ stage[t] = "release" /\ stage'[t] = "idle"
    BY <1>5 DEF AgentRelease, Release, Released
  <2>2. stage[t] # "emit" /\ stage'[t] # "emit"
    BY <2>1
  <2> QED
    BY <1>c, <2>1, <2>2
<1>6. CASE StoreTick \/ UNCHANGED allVars
  BY <1>6, <1>c DEF StoreTick, Tick, allVars, agentVars, storeVars
<1> QED
  BY <1>1, <1>2, <1>3, <1>4, <1>5, <1>6 DEF PANext, ThreadStep, CommitCall

-----------------------------------------------------------------------------
\* The invariant of agents over the pessimistic store holds for any number of
\* threads, objects and ids, whoever shares an object or an id.
THEOREM AgentsInvariance == PASpec => []PAInv
<1>1. PAInit => PAInv
  <2> SUFFICES ASSUME PAInit PROVE PAInv
    OBVIOUS
  <2>1. PessInv
    BY PessAssumption
       DEF PAInit, Init, PessInv, TypeOK, Time, VersionsInPast, TraceTimes, Link,
           HoldsExclusive, HoldsInPast, NoForeignWriteSinceHold, A1CrossFree, A1Cross
  <2>2. AgentTypeOK
    BY AgentInitTyped, PessAssumption DEF PAInit, AgentTypeOK, Time
  <2>3. NoLeakedHolds
    BY DEF PAInit, Init, NoLeakedHolds
  <2>4. EmittedIsTrace
    BY DEF PAInit, Init, AgentInit, EmittedIsTrace
  <2> QED
    BY <2>1, <2>2, <2>3, <2>4 DEF PAInv
<1>2. PAInv /\ [PANext]_allVars => PAInv'
  BY AgentStepIsStoreStep, PessStep, AgentTypeStep, NoLeakedHoldsStep,
     EmittedIsTraceStep DEF PAInv
<1> QED
  BY <1>1, <1>2, PTL DEF PASpec

\* Every path out of a commit gives the agent's holds back.
THEOREM AgentsLeakNoHolds == PASpec => []NoLeakedHolds
<1>1. PAInv => NoLeakedHolds
  BY DEF PAInv
<1> QED
  BY <1>1, AgentsInvariance, PTL

\* The log and the records on their way to it are the store's trace.
THEOREM LogIsTrace == PASpec => []EmittedIsTrace
<1>1. PAInv => EmittedIsTrace
  BY DEF PAInv
<1> QED
  BY <1>1, AgentsInvariance, PTL

\* No A1 pair in the log is of two agents.
THEOREM LogHasNoA1BetweenAgents == PASpec => []NoA1BetweenAgents
<1>1. ASSUME PAInv PROVE NoA1BetweenAgents
  <2> SUFFICES ASSUME NEW i \in DOMAIN emitted, NEW j \in DOMAIN emitted,
                      D!A1Pair(emitted[i], emitted[j]),
                      emitted[i].agent # emitted[j].agent
               PROVE  FALSE
    BY DEF NoA1BetweenAgents, D!A1Witnesses
  <2> DEFINE r == TraceOf(emitted[i])
             s == TraceOf(emitted[j])
  <2>1. r \in trace /\ s \in trace
    BY <1>1 DEF PAInv, EmittedIsTrace
  <2>2. /\ r.agent # s.agent
        /\ r.readCells \cap s.writeCells # {}
        /\ r.readTime < s.writeTime /\ s.writeTime < r.writeTime
    BY DEF TraceOf, D!A1Pair
  <2> HIDE DEF r, s
  <2> QED
    BY <1>1, <2>1, <2>2 DEF PAInv, PessInv, A1CrossFree, A1Cross
<1> QED
  BY <1>1, AgentsInvariance, PTL

-----------------------------------------------------------------------------
\* A thread in a commit call has no second operation open, unless it shares.
BusyHasNoneOpen ==
    \A t \in Thread :
        Unshared(Id(t)) /\ InCommit(t) => pending[ObjectOf[t]].state # "open"

\* An acquisition, by whomever, takes no hold from anybody.
LEMMA AcquireKeeps ==
    ASSUME NEW a, NEW cells, NEW b, NEW C, NEW rt,
           AllHeldSince(b, C, rt), holds' = Acquire(a, cells)
    PROVE  AllHeldSince(b, C, rt)'
  BY DEF AllHeldSince, Acquire

\* A begin that was let in holds all its cells since the present clock.
LEMMA AcquireHoldsAll ==
    ASSUME PessInv, NEW a, NEW cells, CanBegin(a, cells),
           holds' = Acquire(a, cells)
    PROVE  \A rt : rt = clock => AllHeldSince(a, cells, rt)'
<1> SUFFICES ASSUME NEW c \in cells
             PROVE  \E h \in holds' : h.cell = c /\ h.agent = a /\ h.since <= clock
  BY DEF AllHeldSince
<1>1. CASE c \in HeldCells
  <2>1. PICK h \in holds : h.cell = c
    BY <1>1 DEF HeldCells
  <2> QED
    BY <2>1 DEF CanBegin, HeldByOther, Acquire, PessInv, HoldsInPast
<1>2. CASE c \notin HeldCells
  <2> DEFINE h == [cell |-> c, agent |-> a, since |-> clock]
  <2>1. h \in holds'
    BY <1>2 DEF Acquire
  <2>2. clock <= clock
    BY PessAssumption DEF PessInv, TypeOK, Time
  <2> QED
    BY <2>1, <2>2
<1> QED
  BY <1>1, <1>2

\* A release takes no hold of another agent.
LEMMA ReleaseKeepsOthers ==
    ASSUME NEW a, NEW b, a # b, NEW C, NEW rt,
           AllHeldSince(b, C, rt), Release(a)
    PROVE  AllHeldSince(b, C, rt)'
  BY DEF AllHeldSince, Release

\* Without sharing only the operation's own release can take its holds, and
\* that release comes when no operation of the agent is open or committing.
LEMMA UnsharedStep ==
    ASSUME PessInv, AgentTypeOK, OpenKeepsItsHolds, BusyHasNoneOpen,
           [PANext]_allVars
    PROVE  OpenKeepsItsHolds' /\ BusyHasNoneOpen'
<1> USE DEF AgentTypeOK, AgentTyped
<1> DEFINE Kept(o) == Unshared(IdOf[o]) /\ pending[o].state = "open" =>
                AllHeldSince(IdOf[o], DOMAIN pending[o].reads, pending[o].readTime)
           Taken(t) == Unshared(Id(t)) /\ stage[t] = "commit" =>
                AllHeldSince(Id(t), DOMAIN op[t].reads, op[t].readTime)
           FreeToBegin(t) == Unshared(Id(t)) /\ InCommit(t) =>
                pending[ObjectOf[t]].state # "open"
           Goal == OpenKeepsItsHolds' /\ BusyHasNoneOpen'
<1>a. /\ \A o \in Object : Kept(o)
      /\ \A t \in Thread : Taken(t)
      /\ \A t \in Thread : FreeToBegin(t)
  BY DEF OpenKeepsItsHolds, BusyHasNoneOpen
<1>b. ASSUME \A o \in Object : Kept(o)',
             \A t \in Thread : Taken(t)',
             \A t \in Thread : FreeToBegin(t)'
      PROVE  Goal
  BY <1>b DEF OpenKeepsItsHolds, BusyHasNoneOpen
<1>c. \A t \in Thread : ObjectOf[t] \in Object /\ IdOf[ObjectOf[t]] = Id(t)
  BY AgentAssumption DEF Id
<1>d. \A t, u \in Thread : Unshared(Id(t)) /\ Id(u) = Id(t) => u = t
  BY DEF Unshared
<1>e. \A o, p \in Object : Unshared(IdOf[o]) /\ IdOf[p] = IdOf[o] => p = o
  BY DEF Unshared
<1>1. ASSUME NEW t \in Thread, NEW cells \in SUBSET Cell,
             NEW planned \in PlanChoice, AgentBegin(t, cells, planned)
      PROVE  Goal
  <2> DEFINE o == ObjectOf[t]
  <2>1. /\ stage' = stage /\ op' = op /\ stage[t] = "idle"
        /\ \A p \in Object \ {o} : pending'[p] = pending[p]
    BY <1>1, <1>c DEF AgentBegin, BeginAccepted, BeginRefused, MayBegin
  <2>2. \A u \in Thread : FreeToBegin(u)'
    BY <1>a, <1>c, <1>d, <2>1 DEF InCommit, Id
  <2>3. CASE /\ Begin(Id(t), cells)
             /\ BeginAccepted(t, [c \in cells |-> ValueOf(c)], clock, planned)
    <3>1. holds' = Acquire(Id(t), cells) /\ CanBegin(Id(t), cells)
      BY <2>3 DEF Begin
    <3>2. \A b, C, rt : AllHeldSince(b, C, rt) => AllHeldSince(b, C, rt)'
      BY <3>1, AcquireKeeps
    <3>3. \A rt : rt = clock => AllHeldSince(Id(t), cells, rt)'
      BY <3>1, AcquireHoldsAll
    <3>4. pending'[o] = [state |-> "open", reads |-> [c \in cells |-> ValueOf(c)],
                         readTime |-> clock, planned |-> planned]
      BY <1>c, <2>3 DEF BeginAccepted
    <3>5. DOMAIN pending'[o].reads = cells /\ pending'[o].readTime = clock
      BY <3>4
    <3>6. Kept(o)'
      BY <1>c, <3>3, <3>5
    <3>7. \A p \in Object \ {o} : Kept(p)'
      BY <1>a, <2>1, <3>2
    <3>8. \A u \in Thread : Taken(u)'
      BY <1>a, <2>1, <3>2 DEF Id
    <3> QED
      BY <1>b, <2>2, <3>6, <3>7, <3>8
  <2>4. CASE BeginRefused(t) /\ UNCHANGED storeVars
    <3>1. pending'[o].state = "refused" /\ holds' = holds
      BY <1>c, <2>4, EmptyOperations DEF BeginRefused, storeVars
    <3>2. pending'[o].state # "open"
      BY <3>1
    <3>3. \A p \in Object : Kept(p)'
      BY <1>a, <2>1, <3>1, <3>2 DEF AllHeldSince
    <3>4. \A u \in Thread : Taken(u)'
      BY <1>a, <2>1, <3>1 DEF AllHeldSince, Id
    <3> QED
      BY <1>b, <2>2, <3>3, <3>4
  <2> QED
    BY <1>1, <2>3, <2>4 DEF AgentBegin
<1>2. ASSUME NEW t \in Thread, NEW writes, NEW named, AgentTake(t, writes, named)
      PROVE  Goal
  <2> DEFINE o == ObjectOf[t]
  <2>1. /\ holds' = holds
        /\ pending' = [pending EXCEPT ![o] = NoPending]
    BY <1>2 DEF AgentTake, Take, TakeRefused, storeVars
  <2>2. pending'[o].state # "open"
    BY <1>c, <2>1, EmptyOperations
  <2>3. \A p \in Object \ {o} : pending'[p] = pending[p]
    BY <2>1
  <2>4. \A p \in Object : Kept(p)'
    BY <1>a, <2>1, <2>2, <2>3 DEF AllHeldSince
  <2>5. CASE Take(t, writes, named)
    <3>1. /\ pending[o].state = "open"
          /\ op'[t].reads = pending[o].reads
          /\ op'[t].readTime = pending[o].readTime
          /\ \A u \in Thread \ {t} : stage'[u] = stage[u] /\ op'[u] = op[u]
      BY <2>5 DEF Take
    <3>2. Taken(t)'
      BY <1>a, <1>c, <2>1, <3>1 DEF AllHeldSince, Id
    <3>3. \A u \in Thread \ {t} : Taken(u)'
      BY <1>a, <2>1, <3>1 DEF AllHeldSince, Id
    <3>4. \A u \in Thread : FreeToBegin(u)'
      BY <1>a, <1>c, <2>2, <2>3, <3>1 DEF InCommit
    <3> QED
      BY <1>b, <2>4, <3>2, <3>3, <3>4
  <2>6. CASE TakeRefused(t)
    <3>1. stage' = stage /\ op' = op
      BY <2>6 DEF TakeRefused
    <3>2. \A u \in Thread : Taken(u)'
      BY <1>a, <2>1, <3>1 DEF AllHeldSince, Id
    <3>3. \A u \in Thread : FreeToBegin(u)'
      BY <1>a, <1>c, <2>2, <2>3, <3>1 DEF InCommit
    <3> QED
      BY <1>b, <2>4, <3>2, <3>3
  <2> QED
    BY <1>2, <2>5, <2>6 DEF AgentTake
<1>3. ASSUME NEW t \in Thread, StoreCommit(t) \/ AgentEmit(t)
      PROVE  Goal
  <2>1. /\ pending' = pending
        /\ \A u \in Thread \ {t} : stage'[u] = stage[u] /\ op'[u] = op[u]
        /\ stage[t] \in {"commit", "emit"} /\ stage'[t] \in {"emit", "release"}
    BY <1>3 DEF StoreCommit, Committed, Conflict, AgentEmit, Emit
  <2>2. \A b, C, rt : AllHeldSince(b, C, rt) => AllHeldSince(b, C, rt)'
    <3>1. CASE holds' = holds
      BY <3>1 DEF AllHeldSince
    <3>2. CASE holds' = Acquire(Id(t), DOMAIN op[t].writes)
      BY <3>2, AcquireKeeps
    <3> QED
      BY <1>3, <3>1, <3>2 DEF StoreCommit, Commit, AgentEmit, storeVars
  <2>3. \A o \in Object : Kept(o)'
    BY <1>a, <2>1, <2>2
  <2>4. stage'[t] # "commit" /\ InCommit(t)
    BY <2>1 DEF InCommit
  <2>5. \A u \in Thread : Taken(u)'
    BY <1>a, <2>1, <2>2, <2>4 DEF Id
  <2>6. \A u \in Thread : FreeToBegin(u)'
    BY <1>a, <2>1, <2>4 DEF InCommit
  <2> QED
    BY <1>b, <2>3, <2>5, <2>6
<1>4. ASSUME NEW t \in Thread, AgentRelease(t)
      PROVE  Goal
  <2>1. /\ pending' = pending /\ op' = op /\ Release(Id(t))
        /\ \A u \in Thread \ {t} : stage'[u] = stage[u]
        /\ stage[t] = "release" /\ stage'[t] = "idle"
    BY <1>4 DEF AgentRelease, Released
  <2>2. \A b, C, rt : b # Id(t) /\ AllHeldSince(b, C, rt) => AllHeldSince(b, C, rt)'
    BY <2>1, ReleaseKeepsOthers
  <2>3. Unshared(Id(t)) => pending[ObjectOf[t]].state # "open"
    BY <1>a, <2>1 DEF InCommit
  <2>4. \A o \in Object : Kept(o)'
    BY <1>a, <1>c, <1>e, <2>1, <2>2, <2>3
  <2>5. \A u \in Thread \ {t} : Unshared(Id(u)) => Id(u) # Id(t)
    BY <1>d
  <2>6. \A u \in Thread : Taken(u)'
    BY <1>a, <2>1, <2>2, <2>5 DEF Id
  <2>7. \A u \in Thread : FreeToBegin(u)'
    BY <1>a, <2>1 DEF InCommit
  <2> QED
    BY <1>b, <2>4, <2>6, <2>7
<1>5. CASE StoreTick \/ UNCHANGED allVars
  <2>1. holds' = holds /\ pending' = pending /\ stage' = stage /\ op' = op
    BY <1>5 DEF StoreTick, Tick, allVars, agentVars, storeVars
  <2> QED
    BY <1>a, <1>b, <2>1 DEF AllHeldSince, InCommit, Id
<1> QED
  BY <1>1, <1>2, <1>3, <1>4, <1>5 DEF PANext, ThreadStep, CommitCall

\* An agent that shares its id with nobody keeps every cell it read until its
\* commit, so that only a blind write can make the commit conflict.
THEOREM UnsharedAgentsKeepTheirHolds == PASpec => []OpenKeepsItsHolds
<1>1. PAInit => OpenKeepsItsHolds /\ BusyHasNoneOpen
  BY AgentAssumption, EmptyOperations
     DEF PAInit, AgentInit, OpenKeepsItsHolds, BusyHasNoneOpen, InCommit
<1>2. PessInv /\ AgentTypeOK /\ (OpenKeepsItsHolds /\ BusyHasNoneOpen) /\ [PANext]_allVars
        => (OpenKeepsItsHolds /\ BusyHasNoneOpen)'
  BY UnsharedStep
<1>3. PAInv => PessInv /\ AgentTypeOK
  BY DEF PAInv
<1> QED
  BY <1>1, <1>2, <1>3, AgentsInvariance, PTL DEF PASpec

-----------------------------------------------------------------------------
\* A step that reads nothing and commits nothing.
Bystands ==
    /\ Finished' = Finished
    /\ Emitted \subseteq Emitted'
    /\ Windows' \subseteq Windows
    /\ versions' = versions
    /\ clock' \in Int /\ clock <= clock'

\* The begin by t of an operation that reads the cells.
Begins(t, cells, planned) ==
    /\ Begin(Id(t), cells)
    /\ BeginAccepted(t, [c \in cells |-> ValueOf(c)], clock, planned)

\* The commit of the operation t has taken.
Commits(t) ==
    /\ Commit(Id(t), op[t].readTime, DOMAIN op[t].reads, op[t].writes)
    /\ Committed(t, clock + 1)

\* To the operations' reads and records, every step is one of these.
LEMMA StepKinds ==
    ASSUME PessInv, AgentTypeOK, [PANext]_allVars
    PROVE  \/ Bystands
           \/ \E t \in Thread, cells \in SUBSET Cell, planned \in PlanChoice :
                 Begins(t, cells, planned)
           \/ \E t \in Thread : Commits(t)
<1>a. AgentTyped(Cell, Val, Time)
  BY DEF AgentTypeOK
<1>b. clock \in Nat
  BY PessAssumption DEF PessInv, TypeOK, Time
<1>1. ASSUME NEW t \in Thread, Aside(t), UNCHANGED << versions, clock >>
      PROVE  Bystands
  BY <1>a, <1>b, <1>1, AsideEffect DEF Bystands
<1>2. ASSUME NEW t \in Thread, AgentEmit(t)
      PROVE  Bystands
  BY <1>a, <1>b, <1>2, EmitEffect DEF AgentEmit, storeVars, Bystands
<1>3. CASE StoreTick \/ UNCHANGED allVars
  BY <1>b, <1>3, AgentUnchangedEffect DEF StoreTick, Tick, allVars, storeVars, Bystands
<1>4. ASSUME NEW t \in Thread, AgentRelease(t)
      PROVE  Bystands
  BY <1>1, <1>4 DEF AgentRelease, Release, Aside
<1>5. ASSUME NEW t \in Thread, NEW writes, NEW named, AgentTake(t, writes, named)
      PROVE  Bystands
  BY <1>1, <1>5 DEF AgentTake, storeVars, Aside
<1>6. ASSUME NEW t \in Thread, StoreCommit(t)
      PROVE  Bystands \/ Commits(t)
  BY <1>1, <1>6 DEF StoreCommit, storeVars, Aside, Commits
<1>7. ASSUME NEW t \in Thread, NEW cells \in SUBSET Cell,
             NEW planned \in PlanChoice, AgentBegin(t, cells, planned)
      PROVE  Bystands \/ Begins(t, cells, planned)
  BY <1>1, <1>7 DEF AgentBegin, storeVars, Aside, Begins
<1> QED
  BY <1>2, <1>3, <1>4, <1>5, <1>6, <1>7 DEF PANext, ThreadStep, CommitCall

\* What a commit does to versions and records.
LEMMA CommitsEffect ==
    ASSUME PessInv, AgentTypeOK, NEW t \in Thread, Commits(t)
    PROVE  LET r == Record(t)' IN
           /\ clock \in Nat /\ clock' = clock + 1
           /\ Finished' = Finished \cup {r} /\ Emitted' = Emitted
           /\ Windows' \subseteq Windows
           /\ << op[t].reads, op[t].readTime >> \in Windows
           /\ r.reads = op[t].reads /\ r.readTime = op[t].readTime
           /\ versions \subseteq versions'
           /\ \A v \in versions' : v \in versions \/ (Wrote(r, v) /\ v.time = clock + 1)
           /\ \A u, v \in versions' : u.time = clock + 1 /\ v.time = clock + 1 /\ u.cell = v.cell => u = v
<1> DEFINE r == Record(t)'
           new == {[cell |-> c, time |-> clock + 1, val |-> op[t].writes[c],
                    agent |-> Id(t)] : c \in DOMAIN op[t].writes}
<1>1. /\ clock' = clock + 1 /\ versions' = versions \cup new
  BY DEF Commits, Commit
<1>2. /\ clock \in Nat
      /\ \A v \in versions : v.time \in Nat /\ v.time <= clock
  BY PessAssumption DEF PessInv, TypeOK, Time, Version, VersionsInPast
<1>3. /\ Finished' = Finished \cup {r} /\ Emitted' = Emitted
      /\ Windows' \subseteq Windows
      /\ << op[t].reads, op[t].readTime >> \in Windows
      /\ r.reads = op[t].reads /\ r.readTime = op[t].readTime
      /\ r.agent = Id(t) /\ r.writes = op[t].writes /\ r.writeTime = clock + 1
  BY CommittedEffect DEF AgentTypeOK, Commits
<1> HIDE DEF r
<1>4. \A v \in new : Wrote(r, v) /\ v.time = clock + 1
  BY <1>3 DEF Wrote
<1>5. \A u, v \in new : u.cell = v.cell => u = v
  OBVIOUS
<1>6. \A v \in versions : v.time # clock + 1
  BY <1>2
<1> HIDE DEF new
<1> QED
  BY <1>1, <1>2, <1>3, <1>4, <1>5, <1>6 DEF r

\* A new version is a write of the operation that commits.
LEMMA VersionsAreFinishedStep ==
    ASSUME PessInv, AgentTypeOK, VersionsAreFinished, [PANext]_allVars
    PROVE  VersionsAreFinished'
<1>1. CASE Bystands
  BY <1>1 DEF Bystands, VersionsAreFinished, Wrote
<1>2. ASSUME NEW t \in Thread, NEW cells, NEW planned, Begins(t, cells, planned)
      PROVE  VersionsAreFinished'
  BY <1>2, BeginEffect DEF Begins, Begin, AgentTypeOK, VersionsAreFinished
<1>3. ASSUME NEW t \in Thread, Commits(t)
      PROVE  VersionsAreFinished'
  <2> DEFINE r == Record(t)'
  <2>1. /\ Finished' = Finished \cup {r}
        /\ \A v \in versions' : v \in versions \/ (Wrote(r, v) /\ v.time = clock + 1)
        /\ \A u, v \in versions' : u.time = clock + 1 /\ v.time = clock + 1 /\ u.cell = v.cell => u = v
        /\ clock \in Nat
    BY <1>3, CommitsEffect
  <2>2. \A v \in versions : v.time \in Nat /\ v.time <= clock
    BY PessAssumption DEF PessInv, TypeOK, Time, Version, VersionsInPast
  <2>3. \A v \in versions : v.time # clock + 1
    BY <2>1, <2>2
  <2> HIDE DEF r
  <2> QED
    BY <2>1, <2>3 DEF VersionsAreFinished
<1> QED
  BY <1>1, <1>2, <1>3, StepKinds

\* The holds of an agent id that nobody shares stay from its commit until its
\* own release, which comes after its emission.
LEMMA EmittingHoldsStep ==
    ASSUME PessInv, AgentTypeOK, EmittingHolds, [PANext]_allVars
    PROVE  EmittingHolds'
<1> USE DEF AgentTypeOK, AgentTyped
<1> DEFINE Holding(u) == stage[u] = "emit" /\ Unshared(Id(u)) =>
                           \A c \in DOMAIN op[u].writes : HeldBy(Id(u), c)
<1>a. \A u \in Thread : Holding(u)
  BY DEF EmittingHolds
<1>b. ASSUME \A u \in Thread : Holding(u)' PROVE EmittingHolds'
  BY <1>b DEF EmittingHolds
<1>c. ASSUME NEW a, NEW cells, holds' = Acquire(a, cells) \/ holds' = holds
      PROVE  \A b, c : HeldBy(b, c) => HeldBy(b, c)'
  BY <1>c DEF HeldBy, Acquire
<1>d. ASSUME NEW t \in Thread, \A b, c : HeldBy(b, c) => HeldBy(b, c)',
             \A u \in Thread \ {t} : stage'[u] = stage[u] /\ op'[u] = op[u]
      PROVE  \A u \in Thread \ {t} : Holding(u)'
  BY <1>a, <1>d DEF Id
<1>1. ASSUME NEW t \in Thread, NEW cells, NEW planned, AgentBegin(t, cells, planned)
      PROVE  EmittingHolds'
  <2>1. /\ stage' = stage /\ op' = op
        /\ holds' = Acquire(Id(t), cells) \/ holds' = holds
    BY <1>1 DEF AgentBegin, Begin, BeginAccepted, BeginRefused, storeVars
  <2>2. \A b, c : HeldBy(b, c) => HeldBy(b, c)'
    BY <1>c, <2>1
  <2> QED
    BY <1>a, <1>b, <2>1, <2>2 DEF Id
<1>2. ASSUME NEW t \in Thread, holds' = holds, stage'[t] # "emit",
             \A u \in Thread \ {t} : stage'[u] = stage[u] /\ op'[u] = op[u]
      PROVE  EmittingHolds'
  <2>1. \A b, c : HeldBy(b, c) => HeldBy(b, c)'
    BY <1>2 DEF HeldBy
  <2>2. \A u \in Thread \ {t} : Holding(u)'
    BY <1>2, <1>d, <2>1
  <2> QED
    BY <1>2, <1>b, <2>2
<1>3. ASSUME NEW t \in Thread, NEW writes, NEW named, AgentTake(t, writes, named)
      PROVE  EmittingHolds'
  <2>1. /\ holds' = holds /\ stage'[t] \in {"idle", "commit"}
        /\ \A u \in Thread \ {t} : stage'[u] = stage[u] /\ op'[u] = op[u]
    BY <1>3 DEF AgentTake, Take, TakeRefused, storeVars
  <2>2. stage'[t] # "emit"
    BY <2>1
  <2> QED
    BY <1>2, <2>1, <2>2
<1>4. ASSUME NEW t \in Thread, StoreCommit(t)
      PROVE  EmittingHolds'
  <2>1. CASE Conflict(t) /\ UNCHANGED storeVars
    <3>1. /\ holds' = holds /\ stage'[t] = "release"
          /\ \A u \in Thread \ {t} : stage'[u] = stage[u] /\ op'[u] = op[u]
      BY <2>1 DEF Conflict, storeVars
    <3>2. stage'[t] # "emit"
      BY <3>1
    <3> QED
      BY <1>2, <3>1, <3>2
  <2>2. CASE Commits(t)
    <3> DEFINE W == DOMAIN op[t].writes
               done == [op[t] EXCEPT !.writeTime = clock + 1]
    <3>1. /\ holds' = Acquire(Id(t), W) /\ ~ HeldByOther(Id(t), W)
          /\ op'[t] = done
          /\ \A u \in Thread \ {t} : stage'[u] = stage[u] /\ op'[u] = op[u]
      BY <2>2 DEF Commits, Commit, CanCommit, Committed
    <3>2. done.writes = op[t].writes
      BY CommittedFields
    <3> HIDE DEF done
    <3>3. DOMAIN op'[t].writes = W
      BY <3>1, <3>2
    <3>4. ASSUME NEW c \in W PROVE HeldBy(Id(t), c)'
      <4>1. CASE c \in HeldCells
        BY <3>1, <4>1 DEF HeldByOther, HeldBy, HeldCells, Acquire, Id
      <4>2. CASE c \notin HeldCells
        <5> DEFINE h == [cell |-> c, agent |-> Id(t), since |-> clock]
        <5>1. h \in holds'
          BY <3>1, <4>2 DEF Acquire
        <5> QED
          BY <5>1 DEF HeldBy, Id
      <4> QED
        BY <4>1, <4>2
    <3>5. Holding(t)'
      BY <3>3, <3>4 DEF Id
    <3>6. \A b, c : HeldBy(b, c) => HeldBy(b, c)'
      BY <1>c, <3>1
    <3>7. \A u \in Thread \ {t} : Holding(u)'
      BY <1>d, <3>1, <3>6
    <3> QED
      BY <1>b, <3>5, <3>7
  <2> QED
    BY <1>4, <2>1, <2>2 DEF StoreCommit, Commits
<1>5. ASSUME NEW t \in Thread, AgentEmit(t)
      PROVE  EmittingHolds'
  <2>1. /\ holds' = holds /\ stage'[t] = "release"
        /\ \A u \in Thread \ {t} : stage'[u] = stage[u] /\ op'[u] = op[u]
    BY <1>5 DEF AgentEmit, Emit, storeVars
  <2>2. stage'[t] # "emit"
    BY <2>1
  <2> QED
    BY <1>2, <2>1, <2>2
<1>6. ASSUME NEW t \in Thread, AgentRelease(t)
      PROVE  EmittingHolds'
  <2>1. /\ stage'[t] = "idle" /\ op' = op /\ Release(Id(t))
        /\ \A u \in Thread \ {t} : stage'[u] = stage[u]
    BY <1>6 DEF AgentRelease, Released
  <2>2. stage'[t] # "emit"
    BY <2>1
  <2>3. \A b, c : b # Id(t) /\ HeldBy(b, c) => HeldBy(b, c)'
    BY <2>1 DEF Release, HeldBy
  <2>4. \A u \in Thread \ {t} : Unshared(Id(u)) => Id(u) # Id(t)
    BY DEF Unshared
  <2>5. \A u \in Thread \ {t} : Holding(u)'
    BY <1>a, <2>1, <2>3, <2>4 DEF Id
  <2> QED
    BY <1>b, <2>2, <2>5
<1>7. CASE StoreTick \/ UNCHANGED allVars
  <2>1. holds' = holds /\ stage' = stage /\ op' = op
    BY <1>7 DEF StoreTick, Tick, allVars, agentVars, storeVars
  <2> QED
    BY <1>a, <1>b, <2>1 DEF HeldBy, Id
<1> QED
  BY <1>1, <1>3, <1>4, <1>5, <1>6, <1>7 DEF PANext, ThreadStep, CommitCall

\* The value a begin is given is of the cell's last version, and the begin is
\* refused while an agent that shares its id with nobody holds the cell, which
\* it does until it has emitted the record of the version.
LEMMA BeginReadsClosed ==
    ASSUME PessInv, AgentTypeOK, VersionsAreFinished, EmittingHolds,
           NEW t \in Thread, NEW cells, NEW planned, Begins(t, cells, planned),
           NEW c \in cells
    PROVE  ReadFrom(c, ValueOf(c), clock)
<1> DEFINE vs == {v \in versions : v.cell = c}
           IsLast(v) == \A u \in vs : u.time <= v.time
           last == CHOOSE v \in vs : IsLast(v)
<1>1. CASE vs = {}
  BY <1>1 DEF ValueOf, ReadFrom
<1>2. CASE vs # {}
  <2> DEFINE S == {v.time : v \in vs}
  <2>1. S \in SUBSET (0 .. MaxClock) /\ S # {}
    BY <1>2 DEF PessInv, TypeOK, Version, Time
  <2>2. PICK x \in S : \A y \in S : y <= x
    BY <2>1, PessAssumption, LastTime
  <2>3. \E v \in vs : IsLast(v)
    BY <2>2
  <2>4. last \in vs /\ IsLast(last)
    BY <2>3
  <2>5. ValueOf(c) = last.val
    BY <1>2 DEF ValueOf
  <2> HIDE DEF last
  <2>6. ASSUME Unshared(last.agent) PROVE \E r \in Emitted : Wrote(r, last)
    <3>1. PICK r \in Finished : Wrote(r, last)
      BY <2>4 DEF VersionsAreFinished
    <3>2. ASSUME r \notin Emitted PROVE FALSE
      <4>1. PICK u \in Thread : stage[u] = "emit" /\ r = Record(u)
        BY <3>2 DEF Finished
      <4>2. Id(u) = last.agent /\ c \in DOMAIN op[u].writes
        BY <2>4, <3>1, <4>1, RecordFields DEF Wrote
      <4>3. HeldBy(Id(u), c)
        BY <2>6, <4>1, <4>2 DEF EmittingHolds
      <4>4. Id(u) = Id(t)
        BY <4>3 DEF Begins, Begin, CanBegin, HeldByOther, HeldBy
      <4>5. u = t
        BY <2>6, <4>2, <4>4 DEF Unshared
      <4>6. stage[t] = "idle"
        BY DEF Begins, BeginAccepted, MayBegin
      <4> QED
        BY <4>1, <4>5, <4>6
    <3> QED
      BY <3>1, <3>2
  <2>7. last.time <= clock
    BY <2>4 DEF PessInv, VersionsInPast
  <2>8. \A u \in versions : u.cell = c /\ u.time <= clock => u.time <= last.time
    BY <2>4
  <2> QED
    BY <2>4, <2>5, <2>6, <2>7, <2>8 DEF ReadFrom
<1> QED
  BY <1>1, <1>2

\* What was read at a time at or before the clock stays what it was: later
\* versions are of later times, and what is emitted stays emitted.
LEMMA ReadFromStays ==
    ASSUME NEW time \in Int, versions \subseteq versions', Emitted \subseteq Emitted',
           \A v \in versions' : v \in versions \/ ~ (v.time <= time),
           NEW c, NEW x, ReadFrom(c, x, time)
    PROVE  ReadFrom(c, x, time)'
  BY DEF ReadFrom, Wrote, Unshared, Id

\* A record reads before it writes, at times of the clock.
LEMMA FinishedTimes ==
    ASSUME PAInv, NEW r \in Finished
    PROVE  /\ r.readTime \in Nat /\ r.writeTime \in Nat
           /\ r.readTime < r.writeTime
<1> DEFINE s == TraceOf(r)
<1>1. s \in trace
  BY DEF PAInv, EmittedIsTrace, Finished, Emitted
<1>2. s.readTime = r.readTime /\ s.writeTime = r.writeTime
  BY DEF TraceOf
<1> HIDE DEF s
<1> QED
  BY <1>1, <1>2, PessAssumption DEF PAInv, PessInv, TraceTimes, TypeOK, Rec, Time

\* Reads stay closed through every step.
LEMMA ReadsAreClosedStep ==
    ASSUME PAInv, ClosedInv, [PANext]_allVars
    PROVE  ReadsAreClosed'
<1> DEFINE WindowOK(w) == /\ w[2] <= clock
                          /\ \A c \in DOMAIN w[1] : ReadFrom(c, w[1][c], w[2])
           RecordOK(r) == /\ r.readTime <= clock
                          /\ \A c \in DOMAIN r.reads : ReadFrom(c, r.reads[c], r.readTime)
<1>0. PessInv /\ AgentTypeOK
  BY DEF PAInv
<1>a. (\A w \in Windows : WindowOK(w)) /\ (\A r \in Finished : RecordOK(r))
  BY DEF ClosedInv, ReadsAreClosed
<1>b. /\ clock \in Nat
      /\ \A v \in versions : v.time \in Nat /\ v.time <= clock
  BY <1>0, PessAssumption DEF PessInv, TypeOK, Time, Version, VersionsInPast
<1>c. /\ \A w \in Windows : w[2] \in Int
      /\ \A r \in Finished : r.readTime \in Int
  <2>1. \A w \in Windows : w[2] \in Int
    BY <1>0, PessAssumption DEF AgentTypeOK, AgentTyped, Windows, Time
  <2> QED
    BY <2>1, FinishedTimes
<1>d. ASSUME clock' \in Int, clock <= clock',
             versions \subseteq versions', Emitted \subseteq Emitted',
             \A v \in versions' : v \in versions \/ v.time = clock + 1
      PROVE  /\ \A w \in Windows : WindowOK(w)'
             /\ \A r \in Finished : RecordOK(r)'
  <2>1. ASSUME NEW time \in Int, time <= clock, NEW c, NEW x, ReadFrom(c, x, time)
        PROVE  ReadFrom(c, x, time)'
    <3>1. \A v \in versions' : v \in versions \/ ~ (v.time <= time)
      BY <1>b, <1>d, <2>1
    <3> QED
      BY <1>d, <2>1, <3>1, ReadFromStays
  <2>2. \A time \in Int : time <= clock => time <= clock'
    BY <1>b, <1>d
  <2>3. ASSUME NEW w \in Windows PROVE WindowOK(w)'
    <3>1. w[2] \in Int /\ WindowOK(w)
      BY <1>a, <1>c
    <3> QED
      BY <2>1, <2>2, <3>1
  <2>4. ASSUME NEW r \in Finished PROVE RecordOK(r)'
    <3>1. r.readTime \in Int /\ RecordOK(r)
      BY <1>a, <1>c
    <3> QED
      BY <2>1, <2>2, <3>1
  <2> HIDE DEF WindowOK, RecordOK
  <2> QED
    BY <2>3, <2>4
<1>e. ASSUME \A w \in Windows' : WindowOK(w)', \A r \in Finished' : RecordOK(r)'
      PROVE  ReadsAreClosed'
  BY <1>e DEF ReadsAreClosed
<1>1. CASE Bystands
  <2>1. /\ \A w \in Windows : WindowOK(w)'
        /\ \A r \in Finished : RecordOK(r)'
    <3> HIDE DEF WindowOK, RecordOK
    <3> QED BY <1>1, <1>d DEF Bystands
  <2> HIDE DEF WindowOK, RecordOK
  <2> QED
    BY <1>1, <1>e, <2>1 DEF Bystands
<1>2. ASSUME NEW t \in Thread, NEW cells \in SUBSET Cell, NEW planned,
             Begins(t, cells, planned)
      PROVE  ReadsAreClosed'
  <2>b. PICK w : w = << [c \in cells |-> ValueOf(c)], clock >>
    OBVIOUS
  <2>1. /\ Finished' = Finished /\ Emitted' = Emitted
        /\ Windows' \subseteq Windows \cup {w}
        /\ versions' = versions /\ clock' = clock
    BY <1>0, <1>2, <2>b, BeginEffect DEF Begins, Begin, AgentTypeOK
  <2>2. \A c \in cells : ReadFrom(c, ValueOf(c), clock)
    BY <1>0, <1>2, BeginReadsClosed DEF ClosedInv
  <2>3. \A c, x : ReadFrom(c, x, clock) => ReadFrom(c, x, clock)'
    BY <2>1 DEF ReadFrom, Wrote
  <2>4. WindowOK(w)'
    BY <1>b, <2>b, <2>1, <2>2, <2>3
  <2>5. /\ \A u \in Windows : WindowOK(u)'
        /\ \A r \in Finished : RecordOK(r)'
    <3> HIDE DEF WindowOK, RecordOK
    <3> QED BY <1>b, <1>d, <2>1
  <2> HIDE DEF WindowOK, RecordOK
  <2> QED
    BY <1>e, <2>1, <2>4, <2>5
<1>3. ASSUME NEW t \in Thread, Commits(t)
      PROVE  ReadsAreClosed'
  <2>a. PICK r : r = Record(t)'
    OBVIOUS
  <2>b. PICK w : w = << op[t].reads, op[t].readTime >>
    OBVIOUS
  <2>1. /\ clock' = clock + 1
        /\ Finished' = Finished \cup {r} /\ Emitted' = Emitted
        /\ Windows' \subseteq Windows /\ w \in Windows
        /\ r.reads = w[1] /\ r.readTime = w[2]
        /\ versions \subseteq versions'
        /\ \A v \in versions' : v \in versions \/ v.time = clock + 1
    BY <1>0, <1>3, <2>a, <2>b, CommitsEffect
  <2>2. /\ \A u \in Windows : WindowOK(u)'
        /\ \A q \in Finished : RecordOK(q)'
    <3> HIDE DEF WindowOK, RecordOK
    <3> QED BY <1>b, <1>d, <2>1
  <2>3. WindowOK(w)'
    <3> HIDE DEF WindowOK
    <3> QED BY <2>1, <2>2
  <2>4. RecordOK(r)'
    BY <2>1, <2>3
  <2> HIDE DEF WindowOK, RecordOK
  <2> QED
    BY <1>e, <2>1, <2>2, <2>4
<1> QED
  BY <1>0, <1>1, <1>2, <1>3, StepKinds

\* The closure holds together with the invariant of agents and store.
LEMMA ClosedStep ==
    ASSUME PAInv, ClosedInv, [PANext]_allVars
    PROVE  ClosedInv'
<1>1. PessInv /\ AgentTypeOK
  BY DEF PAInv
<1> QED
  BY <1>1, VersionsAreFinishedStep, EmittingHoldsStep, ReadsAreClosedStep DEF ClosedInv

\* The invariant behind a log that can be drained at any moment.
THEOREM ClosedInvariance == PASpec => []ClosedInv
<1>1. PAInit => ClosedInv
  <2> SUFFICES ASSUME PAInit PROVE ClosedInv
    OBVIOUS
  <2>1. Finished = {} /\ Windows = {}
    BY AgentInitEffect DEF PAInit
  <2> QED
    BY <2>1 DEF PAInit, Init, AgentInit, ClosedInv, VersionsAreFinished,
                EmittingHolds, ReadsAreClosed
<1>2. PAInv /\ ClosedInv /\ [PANext]_allVars => ClosedInv'
  BY ClosedStep
<1> QED
  BY <1>1, <1>2, AgentsInvariance, PTL DEF PASpec

\* Drained at any moment, the log holds the writer of every value it reports as
\* read, unless the writer shares its agent id.
THEOREM LogIsClosed == PASpec => []EmittedClosed
<1>1. PAInv /\ ClosedInv => EmittedClosed
  <2> SUFFICES ASSUME PAInv, ClosedInv,
                      NEW j \in DOMAIN emitted, NEW c \in DOMAIN emitted[j].reads,
                      emitted[j].reads[c] # Null,
                      Unshared(LatestAt(c, emitted[j].readTime).agent)
               PROVE  D!HasAntecedent(emitted, j, c)
    BY DEF EmittedClosed, D!A3Witnesses
  <2> DEFINE time == emitted[j].readTime
             IsLatest(v) == /\ v.cell = c /\ v.time <= time
                            /\ \A w \in versions : w.cell = c /\ w.time <= time =>
                                  w.time <= v.time
  <2>1. emitted[j] \in Finished
    BY DEF Finished, Emitted
  <2>2. time \in Nat /\ emitted[j].writeTime \in Nat /\ time < emitted[j].writeTime
    BY <2>1, FinishedTimes
  <2>3. PICK v \in versions : /\ IsLatest(v) /\ v.val = emitted[j].reads[c]
                              /\ Unshared(v.agent) => \E r \in Emitted : Wrote(r, v)
    BY <2>1 DEF ClosedInv, ReadsAreClosed, ReadFrom
  <2>4. LatestAt(c, time) = v
    <3> DEFINE u == CHOOSE w \in versions : IsLatest(w)
    <3>1. u \in versions /\ IsLatest(u)
      BY <2>3
    <3>2. LatestAt(c, time) = u
      BY DEF LatestAt
    <3> HIDE DEF u
    <3>3. \A w \in versions : w.time \in Nat
      BY PessAssumption DEF PAInv, PessInv, TypeOK, Version, Time
    <3>4. u.time = v.time /\ u.cell = v.cell
      BY <2>3, <3>1, <3>3
    <3> QED
      BY <3>1, <3>2, <3>4 DEF ClosedInv, VersionsAreFinished
  <2>5. PICK r \in Emitted : Wrote(r, v)
    BY <2>3, <2>4
  <2>6. PICK k \in DOMAIN emitted : r = emitted[k]
    BY DEF Emitted
  <2>7. /\ c \in DOMAIN emitted[k].writes
        /\ emitted[k].writes[c] = emitted[j].reads[c]
        /\ emitted[k].writeTime <= time
    BY <2>3, <2>5, <2>6 DEF Wrote
  <2>8. k # j
    BY <2>2, <2>7
  <2> QED
    BY <2>7, <2>8 DEF D!HasAntecedent
<1> QED
  BY <1>1, AgentsInvariance, ClosedInvariance, PTL

==============================================================================
