--------------------------- MODULE SIAgentsProofs ----------------------------
(****************************************************************************)
(* What agents over the snapshot-isolation store guarantee in its two modes, *)
(* for any number of threads, objects, agent ids, cells and values.          *)
(****************************************************************************)
EXTENDS SIAgents, AgentProofs

\* An accepted commit closes no window, whoever made its snapshot.
LEMMA CommitPreserves ==
    ASSUME SIInv, NEW a \in AgentId \cup {NoAgent}, NEW rt \in Time,
           NEW cells \in SUBSET Cell, NEW W \in SUBSET Cell,
           NEW writes, DOMAIN writes = W, \A c \in W : writes[c] \in Val,
           Commit(a, rt, cells, writes)
    PROVE  SIInv'
<1> DEFINE rec == [agent |-> a, readCells |-> cells, readTime |-> rt,
                   writeCells |-> W, writeTime |-> clock + 1]
           new == {[cell |-> c, time |-> clock + 1, val |-> writes[c]] : c \in W}
<1>1. /\ clock' = clock + 1
      /\ versions' = versions \cup new
      /\ trace' = trace \cup {rec}
      /\ rt <= clock /\ clock < MaxClock
      /\ \A v \in versions : v.cell \in cells => v.time <= rt
  BY DEF Commit, CanCommit, Validates
<1>2. /\ clock \in Nat /\ clock + 1 \in Time /\ rt \in Nat
      /\ \A v \in versions : v.time \in Nat /\ v.time <= clock
      /\ \A r \in trace : /\ r.readTime \in Nat /\ r.writeTime \in Nat
                          /\ r.readTime < r.writeTime /\ r.writeTime <= clock
  BY <1>1, SIAssumption
     DEF SIInv, TypeOK, Time, Version, Rec, VersionsInPast, TraceTimes
<1>3. \A v \in new : v.time = clock + 1 /\ v \in Version
  BY <1>2 DEF Version
<1>4. TypeOK'
  <2>1. rec \in Rec
    BY <1>2 DEF Rec
  <2> QED
    BY <1>1, <1>2, <1>3, <2>1 DEF SIInv, TypeOK, Rec, Version
<1>5. VersionsInPast'
  BY <1>1, <1>2, <1>3 DEF VersionsInPast
<1>6. TraceTimes'
  BY <1>1, <1>2 DEF TraceTimes
<1>7. Link'
  <2> SUFFICES ASSUME NEW r \in trace', NEW c \in r.writeCells
               PROVE  \E v \in versions' : v.cell = c /\ v.time = r.writeTime
    BY DEF Link
  <2>1. CASE r \in trace
    BY <1>1, <2>1 DEF SIInv, Link
  <2>2. CASE r = rec
    <3> DEFINE v == [cell |-> c, time |-> clock + 1, val |-> writes[c]]
    <3>1. v \in versions'
      BY <1>1, <2>2
    <3> QED
      BY <2>2, <3>1
  <2> QED
    BY <1>1, <2>1, <2>2
<1>8. A1StructFree'
  <2> SUFFICES ASSUME NEW r \in trace', NEW s \in trace', NEW c,
                      c \in r.readCells, c \in s.writeCells,
                      r.readTime < s.writeTime, s.writeTime < r.writeTime
               PROVE  FALSE
    BY DEF A1StructFree, A1Struct
  <2>1. CASE r \in trace /\ s \in trace
    BY <2>1 DEF SIInv, A1StructFree, A1Struct
  <2>2. CASE s = rec
    \* Every record was committed at or before the clock s commits after.
    BY <1>1, <1>2, <2>2
  <2>3. CASE r = rec /\ s \in trace
    <3>1. PICK v \in versions : v.cell = c /\ v.time = s.writeTime
      BY <2>3 DEF SIInv, Link
    <3>2. v.time <= rt
      BY <1>1, <2>3, <3>1
    <3> QED
      BY <1>2, <2>3, <3>1, <3>2
  <2> QED
    BY <1>1, <2>1, <2>2, <2>3
<1> QED
  BY <1>4, <1>5, <1>6, <1>7, <1>8 DEF SIInv

\* The lock predicate is inductive; tick is a commit of nothing.
LEMMA SIStep == SIInv /\ [Next]_storeVars => SIInv'
<1> SUFFICES ASSUME SIInv, [Next]_storeVars PROVE SIInv'
  OBVIOUS
<1>1. ASSUME NEW a \in AgentId, NEW rt \in Time, NEW cells \in SUBSET Cell,
             NEW W \in SUBSET Cell, NEW writes \in [W -> Val],
             Commit(a, rt, cells, writes)
      PROVE  SIInv'
  BY <1>1, CommitPreserves
<1>2. CASE Tick
  <2>1. CASE clock = MaxClock
    BY <1>2, <2>1 DEF Tick, storeVars, SIInv, TypeOK, VersionsInPast, TraceTimes,
                      Link, A1StructFree, A1Struct
  <2>2. CASE clock # MaxClock
    <3> DEFINE none == [c \in {} |-> Null]
    <3>1. Commit(NoAgent, 0, {}, none) /\ DOMAIN none = {}
      BY <1>2, <2>2 DEF Tick
    <3>2. 0 \in Time
      BY SIAssumption DEF Time
    <3> HIDE DEF none
    <3> QED
      BY <3>1, <3>2, CommitPreserves
  <2> QED
    BY <2>1, <2>2
<1>3. CASE UNCHANGED storeVars
  BY <1>3 DEF storeVars, SIInv, TypeOK, VersionsInPast, TraceTimes, Link,
              A1StructFree, A1Struct
<1> QED
  BY <1>1, <1>2, <1>3 DEF Next

\* SiStore::inv holds whatever calls are made and with whatever snapshots.
THEOREM SIInvariance == Spec => []SIInv
<1>1. Init => SIInv
  BY SIAssumption DEF Init, SIInv, TypeOK, Time, VersionsInPast, TraceTimes,
                      Link, A1StructFree, A1Struct
<1> QED
  BY <1>1, SIStep, PTL DEF Spec

\* No accepted commit closes a window in which a cell it read was written.
THEOREM SIHasNoA1 == Spec => []A1StructFree
<1>1. SIInv => A1StructFree
  BY DEF SIInv
<1> QED
  BY <1>1, SIInvariance, PTL

-----------------------------------------------------------------------------

\* To the store an agents' step is one of its own steps or none.
LEMMA AgentStepIsStoreStep ==
    ASSUME AgentTypeOK, [SANext]_allVars
    PROVE  [Next]_storeVars
<1>1. ASSUME NEW t \in Thread, StoreCommit(t)
      PROVE  [Next]_storeVars
  <2>1. Id(t) \in AgentId
    BY AgentAssumption, SIIdsAssumption DEF Id
  <2>2. CASE Tick \/ UNCHANGED storeVars
    BY <2>2 DEF Next
  <2>3. CASE Commit(Id(t), op[t].readTime, DOMAIN op[t].reads, op[t].writes)
    <3>1. PICK W \in SUBSET Cell : op[t].writes \in [W -> Val]
      BY DEF AgentTypeOK, AgentTyped
    <3> QED
      BY <2>1, <2>3, <3>1 DEF Next, AgentTypeOK, AgentTyped
  <2> QED
    BY <1>1, <2>2, <2>3 DEF StoreCommit
<1>2. CASE StoreTick
  BY <1>2 DEF StoreTick, Next
<1>3. CASE UNCHANGED allVars
  BY <1>3 DEF allVars
<1> QED
  BY <1>1, <1>2, <1>3
     DEF SANext, ThreadStep, AgentBegin, AgentTake, AgentEmit, AgentRelease

\* Agents stay typed: a begin reads the store's cells at the store's clock.
LEMMA AgentTypeStep ==
    ASSUME AgentTypeOK, SIInv, [SANext]_allVars
    PROVE  AgentTypeOK'
<1> USE DEF AgentTypeOK
<1>0. clock \in Time /\ 0 \in Time
  BY SIAssumption DEF SIInv, TypeOK, Time
<1>1. ASSUME NEW t \in Thread, ThreadStep(t)
      PROVE  AgentStep(Cell, Val, Time, t) /\ UNCHANGED validateNoWrite
  <2>1. ASSUME NEW cells \in SUBSET Cell, NEW planned \in PlanChoice,
               AgentBegin(t, cells, planned)
        PROVE  AgentStep(Cell, Val, Time, t) /\ UNCHANGED validateNoWrite
    BY <1>0, <2>1 DEF AgentBegin, AgentStep
  <2> QED
    BY <1>1, <2>1
       DEF ThreadStep, AgentTake, StoreCommit, AgentEmit, AgentRelease, AgentStep
<1>2. ASSUME NEW t \in Thread, ThreadStep(t)
      PROVE  AgentTypeOK'
  BY <1>0, <1>1, <1>2, AgentStepTyped DEF Time
<1>3. CASE StoreTick \/ UNCHANGED allVars
  BY <1>3, AgentUnchangedTyped DEF StoreTick, allVars, Time
<1> QED
  BY <1>2, <1>3 DEF SANext

\* What a tick adds to the store besides the clock's advance.
LEMMA TickKeeps == Tick => versions' = versions /\ trace \subseteq trace'
  BY DEF Tick, Commit, storeVars

\* A validated commit enters the trace in the step that fixes its record.
LEMMA ValidatedInTraceStep ==
    ASSUME AgentTypeOK, ValidatedInTrace, [SANext]_allVars
    PROVE  ValidatedInTrace'
<1> USE DEF AgentTypeOK, AgentTyped
<1> DEFINE Logged(i) == emitted[i].writes # NoMap \/ validateNoWrite =>
                          TraceOf(emitted[i]) \in trace
           Coming(t) == stage[t] = "emit" /\ NeedsValidation(t) =>
                          TraceOf(Record(t)) \in trace
<1>a. (\A i \in DOMAIN emitted : Logged(i)) /\ (\A t \in Thread : Coming(t))
  BY DEF ValidatedInTrace
<1>b. ASSUME \A i \in DOMAIN emitted' : Logged(i)', \A t \in Thread : Coming(t)'
      PROVE  ValidatedInTrace'
  BY <1>b DEF ValidatedInTrace
<1>c. ASSUME trace \subseteq trace', UNCHANGED << emitted, validateNoWrite >>
      PROVE  \A i \in DOMAIN emitted' : Logged(i)'
  BY <1>a, <1>c DEF TraceOf
<1>d. ASSUME NEW u \in Thread, trace \subseteq trace', UNCHANGED validateNoWrite,
             stage'[u] = stage[u], op'[u] = op[u]
      PROVE  Coming(u)'
  BY <1>a, <1>d DEF NeedsValidation, TraceOf, Record, Id
<1>e. ASSUME NEW t \in Thread, stage'[t] # "emit", trace \subseteq trace',
             UNCHANGED << emitted, validateNoWrite >>,
             \A u \in Thread \ {t} : stage'[u] = stage[u] /\ op'[u] = op[u]
      PROVE  ValidatedInTrace'
  BY <1>b, <1>c, <1>d, <1>e
<1>1. ASSUME NEW t \in Thread, NEW cells, NEW planned, AgentBegin(t, cells, planned)
      PROVE  ValidatedInTrace'
  BY <1>1, <1>b, <1>c, <1>d DEF AgentBegin, BeginAccepted, storeVars
<1>2. ASSUME NEW t \in Thread, NEW writes, NEW named, AgentTake(t, writes, named)
      PROVE  ValidatedInTrace'
  <2>1. /\ stage'[t] = "commit" /\ trace' = trace
        /\ UNCHANGED << emitted, validateNoWrite >>
        /\ \A u \in Thread \ {t} : stage'[u] = stage[u] /\ op'[u] = op[u]
    BY <1>2 DEF AgentTake, Take, storeVars
  <2>2. stage'[t] # "emit"
    BY <2>1
  <2> QED
    BY <1>e, <2>1, <2>2
<1>3. ASSUME NEW t \in Thread, StoreCommit(t)
      PROVE  ValidatedInTrace'
  <2>0. UNCHANGED validateNoWrite
    BY <1>3 DEF StoreCommit
  <2>1. CASE ~ NeedsValidation(t) /\ Tick /\ Committed(t, clock')
    <3>1. /\ emitted' = emitted
          /\ op' = [op EXCEPT ![t] = [op[t] EXCEPT !.writeTime = clock']]
          /\ \A u \in Thread \ {t} : stage'[u] = stage[u] /\ op'[u] = op[u]
      BY <2>1 DEF Committed
    <3>2. op'[t].writes = op[t].writes
      BY <3>1, CommittedFields
    <3>3. ~ NeedsValidation(t)'
      BY <2>0, <2>1, <3>2 DEF NeedsValidation
    <3> QED
      BY <1>b, <1>c, <1>d, <2>0, <2>1, <3>1, <3>3, TickKeeps
  <2>2. CASE /\ Commit(Id(t), op[t].readTime, DOMAIN op[t].reads, op[t].writes)
             /\ Committed(t, clock')
    <3> DEFINE done == [op[t] EXCEPT !.writeTime = clock']
               rec == [agent |-> Id(t), readCells |-> DOMAIN op[t].reads,
                       readTime |-> op[t].readTime,
                       writeCells |-> DOMAIN op[t].writes,
                       writeTime |-> clock + 1]
    <3>1. /\ emitted' = emitted /\ op'[t] = done
          /\ \A u \in Thread \ {t} : stage'[u] = stage[u] /\ op'[u] = op[u]
      BY <2>2 DEF Committed
    <3>2. trace' = trace \cup {rec} /\ clock' = clock + 1
      BY <2>2 DEF Commit
    <3>3. /\ done.reads = op[t].reads /\ done.readTime = op[t].readTime
          /\ done.writes = op[t].writes /\ done.writeTime = clock'
      BY CommittedFields
    <3>4. TraceOf(Record(t))' = rec
      <4> HIDE DEF done
      <4> QED BY <3>1, <3>2, <3>3 DEF TraceOf, Record, Id
    <3>5. Coming(t)'
      <4> HIDE DEF rec, done
      <4> QED BY <3>2, <3>4
    <3>6. trace \subseteq trace'
      BY <3>2
    <3>7. \A u \in Thread \ {t} : Coming(u)'
      BY <1>d, <2>0, <3>1, <3>6
    <3> QED
      BY <1>b, <1>c, <2>0, <3>1, <3>5, <3>6, <3>7
  <2>3. CASE Conflict(t) /\ UNCHANGED storeVars
    <3>1. /\ stage'[t] = "release" /\ trace' = trace /\ emitted' = emitted
          /\ \A u \in Thread \ {t} : stage'[u] = stage[u] /\ op'[u] = op[u]
      BY <2>3 DEF Conflict, storeVars
    <3>2. stage'[t] # "emit"
      BY <3>1
    <3> QED
      BY <1>e, <2>0, <3>1, <3>2
  <2> QED
    BY <1>3, <2>1, <2>2, <2>3 DEF StoreCommit
<1>4. ASSUME NEW t \in Thread, AgentEmit(t)
      PROVE  ValidatedInTrace'
  <2>1. /\ trace' = trace /\ validateNoWrite' = validateNoWrite
        /\ emitted' = Append(emitted, Record(t))
        /\ \A u \in Thread \ {t} : stage'[u] = stage[u] /\ op'[u] = op[u]
        /\ stage[t] = "emit" /\ stage'[t] = "release"
    BY <1>4 DEF AgentEmit, Emit, storeVars
  <2>2. /\ DOMAIN emitted' = DOMAIN emitted \cup {Len(emitted) + 1}
        /\ \A i \in DOMAIN emitted : emitted'[i] = emitted[i]
        /\ emitted'[Len(emitted) + 1] = Record(t)
    <3>1. emitted \in Seq({emitted[i] : i \in DOMAIN emitted})
      OBVIOUS
    <3>2. \A r : LET new == Append(emitted, r) IN
                 /\ DOMAIN new = DOMAIN emitted \cup {Len(emitted) + 1}
                 /\ \A i \in DOMAIN emitted : new[i] = emitted[i]
                 /\ new[Len(emitted) + 1] = r
      BY ONLY <3>1, EmittedStaysSequence
    <3> QED
      BY <2>1, <3>2
  <2>3. Record(t).writes = op[t].writes
    BY DEF Record
  <2>4. ASSUME NEW n, n = Len(emitted) + 1 PROVE Logged(n)'
    <3>1. op[t].writes # NoMap \/ validateNoWrite => TraceOf(Record(t)) \in trace
      BY <1>a, <2>1 DEF NeedsValidation
    <3>2. TraceOf(emitted'[n]) = TraceOf(Record(t))
      BY <2>2, <2>4
    <3>3. emitted'[n].writes = op[t].writes
      BY <2>2, <2>3, <2>4
    <3> QED
      BY <2>1, <3>1, <3>2, <3>3 DEF TraceOf
  <2>5. \A i \in DOMAIN emitted : Logged(i)'
    BY <1>a, <2>1, <2>2 DEF TraceOf
  <2>6. Coming(t)'
    BY <2>1
  <2>7. \A u \in Thread \ {t} : Coming(u)'
    BY <1>d, <2>1
  <2>8. (\A i \in DOMAIN emitted' : Logged(i)') /\ (\A u \in Thread : Coming(u)')
    <3> HIDE DEF Logged, Coming
    <3> QED BY <2>2, <2>4, <2>5, <2>6, <2>7
  <2> QED
    BY <1>b, <2>8
<1>5. ASSUME NEW t \in Thread, AgentRelease(t)
      PROVE  ValidatedInTrace'
  <2>1. /\ stage'[t] = "idle" /\ trace' = trace /\ op' = op
        /\ UNCHANGED << emitted, validateNoWrite >>
        /\ \A u \in Thread \ {t} : stage'[u] = stage[u]
    BY <1>5 DEF AgentRelease, Released, storeVars
  <2>2. stage'[t] # "emit"
    BY <2>1
  <2> QED
    BY <1>e, <2>1, <2>2
<1>6. CASE StoreTick \/ UNCHANGED allVars
  <2>1. trace \subseteq trace' /\ UNCHANGED << agentVars, validateNoWrite >>
    BY <1>6, TickKeeps DEF StoreTick, allVars, storeVars
  <2> QED
    BY <1>b, <1>c, <1>d, <2>1 DEF agentVars
<1> QED
  BY <1>1, <1>2, <1>3, <1>4, <1>5, <1>6 DEF SANext, ThreadStep

\* A new version is a write of the committing operation, and the operation
\* goes from the commit to the log with its writes and write time unchanged.
LEMMA VersionsAreOperationsStep ==
    ASSUME AgentTypeOK, VersionsAreOperations, [SANext]_allVars
    PROVE  VersionsAreOperations'
<1> USE DEF AgentTypeOK, AgentTyped
<1> DEFINE Wrote(v, r) == /\ v.cell \in DOMAIN r.writes
                          /\ r.writes[v.cell] = v.val
                          /\ r.writeTime = v.time
           Logged(v) == \E i \in DOMAIN emitted : Wrote(v, emitted[i])
           Coming(v) == \E u \in Thread : stage[u] = "emit" /\ Wrote(v, op[u])
<1>a. \A v \in versions : Logged(v) \/ Coming(v)
  BY DEF VersionsAreOperations
<1>b. ASSUME \A v \in versions' : Logged(v)' \/ Coming(v)'
      PROVE  VersionsAreOperations'
  BY <1>b DEF VersionsAreOperations
<1>c. ASSUME NEW t \in Thread, stage[t] # "emit", emitted' = emitted,
             \A u \in Thread \ {t} : stage'[u] = stage[u] /\ op'[u] = op[u]
      PROVE  \A v \in versions : Logged(v)' \/ Coming(v)'
  BY <1>a, <1>c
<1>1. ASSUME NEW t \in Thread, NEW cells, NEW planned, AgentBegin(t, cells, planned)
      PROVE  VersionsAreOperations'
  BY <1>1, <1>a, <1>b DEF AgentBegin, BeginAccepted, storeVars
<1>2. ASSUME NEW t \in Thread, NEW writes, NEW named, AgentTake(t, writes, named)
      PROVE  VersionsAreOperations'
  <2>1. /\ stage[t] = "idle" /\ versions' = versions /\ emitted' = emitted
        /\ \A u \in Thread \ {t} : stage'[u] = stage[u] /\ op'[u] = op[u]
    BY <1>2 DEF AgentTake, Take, storeVars
  <2>2. stage[t] # "emit"
    BY <2>1
  <2> QED
    BY <1>b, <1>c, <2>1, <2>2
<1>3. ASSUME NEW t \in Thread, StoreCommit(t)
      PROVE  VersionsAreOperations'
  <2>1. /\ stage[t] = "commit" /\ emitted' = emitted
        /\ \A u \in Thread \ {t} : stage'[u] = stage[u] /\ op'[u] = op[u]
    BY <1>3 DEF StoreCommit, Committed, Conflict
  <2>2. \A v \in versions : Logged(v)' \/ Coming(v)'
    <3>1. stage[t] # "emit"
      BY <2>1
    <3> QED
      BY <1>c, <2>1, <3>1
  <2>3. CASE Tick \/ UNCHANGED storeVars
    <3>1. versions' = versions
      BY <2>3, TickKeeps DEF storeVars
    <3> QED
      BY <1>b, <2>2, <3>1
  <2>4. CASE /\ Commit(Id(t), op[t].readTime, DOMAIN op[t].reads, op[t].writes)
             /\ Committed(t, clock')
    <3> DEFINE done == [op[t] EXCEPT !.writeTime = clock']
               new == {[cell |-> c, time |-> clock + 1, val |-> op[t].writes[c]] :
                         c \in DOMAIN op[t].writes}
    <3>1. versions' = versions \cup new /\ clock' = clock + 1
      BY <2>4 DEF Commit
    <3>2. op'[t] = done /\ stage'[t] = "emit"
      BY <2>4 DEF Committed
    <3>3. done.writes = op[t].writes /\ done.writeTime = clock'
      BY CommittedFields
    <3>4. \A v \in new : Wrote(v, op[t])' \/ Wrote(v, done)
      <4> SUFFICES ASSUME NEW v \in new PROVE Wrote(v, done)
        OBVIOUS
      <4>1. /\ v.cell \in DOMAIN op[t].writes
            /\ v.val = op[t].writes[v.cell] /\ v.time = clock + 1
        OBVIOUS
      <4> HIDE DEF done, new
      <4> QED BY <3>1, <3>3, <4>1
    <3>5. \A v \in new : Coming(v)'
      <4> HIDE DEF done, new
      <4> QED BY <3>2, <3>4
    <3> HIDE DEF new
    <3> QED
      BY <1>b, <2>2, <3>1, <3>5
  <2> QED
    BY <1>3, <2>3, <2>4 DEF StoreCommit
<1>4. ASSUME NEW t \in Thread, AgentEmit(t)
      PROVE  VersionsAreOperations'
  <2>1. /\ versions' = versions
        /\ emitted' = Append(emitted, Record(t))
        /\ \A u \in Thread \ {t} : stage'[u] = stage[u] /\ op'[u] = op[u]
    BY <1>4 DEF AgentEmit, Emit, storeVars
  <2>2. /\ DOMAIN emitted' = DOMAIN emitted \cup {Len(emitted) + 1}
        /\ \A i \in DOMAIN emitted : emitted'[i] = emitted[i]
        /\ emitted'[Len(emitted) + 1] = Record(t)
    <3>1. emitted \in Seq({emitted[i] : i \in DOMAIN emitted})
      OBVIOUS
    <3>2. \A r : LET new == Append(emitted, r) IN
                 /\ DOMAIN new = DOMAIN emitted \cup {Len(emitted) + 1}
                 /\ \A i \in DOMAIN emitted : new[i] = emitted[i]
                 /\ new[Len(emitted) + 1] = r
      BY ONLY <3>1, EmittedStaysSequence
    <3> QED
      BY <2>1, <3>2
  <2>3. Record(t).writes = op[t].writes /\ Record(t).writeTime = op[t].writeTime
    BY DEF Record
  <2>4. \A v : Logged(v) => Logged(v)'
    BY <2>2
  <2>5. \A v : Wrote(v, op[t]) => Logged(v)'
    <3> SUFFICES ASSUME NEW v, Wrote(v, op[t])
                 PROVE  Wrote(v, emitted'[Len(emitted) + 1])
      BY <2>2
    <3> QED
      BY <2>2, <2>3
  <2>6. \A v : Coming(v) => Coming(v)' \/ Wrote(v, op[t])
    BY <2>1
  <2> HIDE DEF Logged, Coming, Wrote
  <2>7. \A v \in versions' : Logged(v)' \/ Coming(v)'
    BY <1>a, <2>1, <2>4, <2>5, <2>6
  <2> QED
    BY <1>b, <2>7
<1>5. ASSUME NEW t \in Thread, AgentRelease(t)
      PROVE  VersionsAreOperations'
  <2>1. /\ stage[t] = "release" /\ versions' = versions /\ emitted' = emitted
        /\ \A u \in Thread \ {t} : stage'[u] = stage[u] /\ op'[u] = op[u]
    BY <1>5 DEF AgentRelease, Released, storeVars
  <2>2. stage[t] # "emit"
    BY <2>1
  <2> QED
    BY <1>b, <1>c, <2>1, <2>2
<1>6. CASE StoreTick \/ UNCHANGED allVars
  <2>1. versions' = versions /\ UNCHANGED agentVars
    BY <1>6, TickKeeps DEF StoreTick, allVars, storeVars
  <2> QED
    BY <1>a, <1>b, <2>1 DEF agentVars
<1> QED
  BY <1>1, <1>2, <1>3, <1>4, <1>5, <1>6 DEF SANext, ThreadStep

\* The value of a cell is that of its last version, as there is a last one.
LEMMA ValueIsFromVersion ==
    ASSUME SIInv, NEW c
    PROVE  FromVersion(c, ValueOf(c), clock)
<1> DEFINE IsLast(v) == \A u \in VersionsOf(c) : u.time <= v.time
           last == CHOOSE v \in VersionsOf(c) : IsLast(v)
<1>1. CASE VersionsOf(c) = {}
  BY <1>1 DEF ValueOf, FromVersion
<1>2. CASE VersionsOf(c) # {}
  <2> DEFINE S == {v.time : v \in VersionsOf(c)}
  <2>1. S \in SUBSET (0 .. MaxClock) /\ S # {}
    BY <1>2 DEF SIInv, TypeOK, Version, VersionsOf, Time
  <2>2. PICK x \in S : \A y \in S : y <= x
    BY <2>1, SIAssumption, LastTime
  <2>3. \E v \in VersionsOf(c) : IsLast(v)
    BY <2>2
  <2>4. last \in VersionsOf(c)
    BY <2>3
  <2>5. ValueOf(c) = last.val
    BY <1>2 DEF ValueOf
  <2> HIDE DEF last
  <2> QED
    BY <2>4, <2>5 DEF FromVersion, VersionsOf, SIInv, VersionsInPast
<1> QED
  BY <1>1, <1>2

\* Versions stay, so what came from one still does; a begin reads values of
\* versions, and a commit keeps the window it was begun with.
LEMMA ReadsAreVersionsStep ==
    ASSUME SIInv, AgentTypeOK, ReadsAreVersions, [SANext]_allVars
    PROVE  ReadsAreVersions'
<1> DEFINE WindowOK(w) == \A c \in DOMAIN w[1] : FromVersion(c, w[1][c], w[2])
           RecordOK(r) == \A c \in DOMAIN r.reads : FromVersion(c, r.reads[c], r.readTime)
<1>0. AgentTyped(Cell, Val, Time)
  BY DEF AgentTypeOK
<1>a. (\A w \in Windows : WindowOK(w)) /\ (\A r \in Finished : RecordOK(r))
  BY DEF ReadsAreVersions
<1>b. ASSUME versions \subseteq versions'
      PROVE  /\ \A w : WindowOK(w) => WindowOK(w)'
             /\ \A r : RecordOK(r) => RecordOK(r)'
  BY <1>b DEF FromVersion
<1>c. ASSUME \A w \in Windows' : WindowOK(w)', \A r \in Finished' : RecordOK(r)'
      PROVE  ReadsAreVersions'
  BY <1>c DEF ReadsAreVersions
<1>d. ASSUME versions \subseteq versions', Finished' = Finished,
             Windows' \subseteq Windows
      PROVE  ReadsAreVersions'
  <2> HIDE DEF WindowOK, RecordOK
  <2> QED BY <1>a, <1>b, <1>c, <1>d
<1>1. ASSUME NEW t \in Thread, NEW cells \in SUBSET Cell, NEW planned,
             AgentBegin(t, cells, planned)
      PROVE  ReadsAreVersions'
  <2> DEFINE w == << [c \in cells |-> ValueOf(c)], clock >>
  <2>1. /\ Finished' = Finished /\ Windows' \subseteq Windows \cup {w}
        /\ versions' = versions
    BY <1>0, <1>1, BeginEffect DEF AgentBegin, storeVars
  <2>2. WindowOK(w)
    BY ValueIsFromVersion
  <2> HIDE DEF w, WindowOK, RecordOK
  <2> QED
    BY <1>a, <1>b, <1>c, <2>1, <2>2
<1>2. ASSUME NEW t \in Thread, Aside(t), versions' = versions
      PROVE  ReadsAreVersions'
  BY <1>0, <1>2, <1>d, AsideEffect
<1>3. ASSUME NEW t \in Thread, NEW time, Committed(t, time),
             versions \subseteq versions'
      PROVE  ReadsAreVersions'
  <2> DEFINE r == Record(t)'
  <2>1. /\ Finished' = Finished \cup {r} /\ Windows' \subseteq Windows
        /\ << op[t].reads, op[t].readTime >> \in Windows
        /\ r.reads = op[t].reads /\ r.readTime = op[t].readTime
    BY <1>0, <1>3, CommittedEffect
  <2> HIDE DEF r
  <2>2. RecordOK(r)
    <3>1. WindowOK(<< op[t].reads, op[t].readTime >>)
      <4> HIDE DEF WindowOK
      <4> QED BY <1>a, <2>1
    <3> QED
      BY <2>1, <3>1
  <2> HIDE DEF WindowOK, RecordOK
  <2> QED
    BY <1>a, <1>b, <1>c, <1>3, <2>1, <2>2
<1>4. ASSUME NEW t \in Thread, StoreCommit(t)
      PROVE  ReadsAreVersions'
  <2>1. CASE Conflict(t) /\ UNCHANGED storeVars
    BY <1>2, <2>1 DEF Aside, storeVars
  <2>2. CASE Committed(t, clock') /\ Tick
    <3>1. versions \subseteq versions'
      BY <2>2, TickKeeps
    <3> QED
      BY <1>3, <2>2, <3>1
  <2>3. CASE /\ Committed(t, clock')
             /\ Commit(Id(t), op[t].readTime, DOMAIN op[t].reads, op[t].writes)
    <3>1. versions \subseteq versions'
      BY <2>3 DEF Commit
    <3> QED
      BY <1>3, <2>3, <3>1
  <2> QED
    BY <1>4, <2>1, <2>2, <2>3 DEF StoreCommit
<1>5. ASSUME NEW t \in Thread, AgentEmit(t)
      PROVE  ReadsAreVersions'
  BY <1>0, <1>5, <1>d, EmitEffect DEF AgentEmit, storeVars
<1>6. CASE StoreTick \/ UNCHANGED allVars
  BY <1>6, <1>d, AgentUnchangedEffect, TickKeeps DEF StoreTick, allVars, storeVars
<1>7. ASSUME NEW t \in Thread,
             AgentRelease(t) \/ \E writes, named : AgentTake(t, writes, named)
      PROVE  Aside(t) /\ versions' = versions
  BY <1>7 DEF Aside, AgentRelease, AgentTake, storeVars
<1> QED
  BY <1>1, <1>2, <1>4, <1>5, <1>6, <1>7 DEF SANext, ThreadStep

-----------------------------------------------------------------------------
\* The invariant of agents over the snapshot-isolation store holds in both
\* modes, for any number of threads, objects and ids and any clock ceiling.
THEOREM SIAgentsInvariance == SASpec => []SAInv
<1>1. SAInit => SAInv
  <2> SUFFICES ASSUME SAInit PROVE SAInv
    OBVIOUS
  <2>1. SIInv
    BY SIAssumption DEF SAInit, Init, SIInv, TypeOK, Time, VersionsInPast,
                        TraceTimes, Link, A1StructFree, A1Struct
  <2>2. AgentTypeOK
    BY AgentInitTyped, SIAssumption DEF SAInit, AgentTypeOK, Time
  <2>3. ValidatedInTrace
    BY DEF SAInit, AgentInit, ValidatedInTrace
  <2>4. VersionsAreOperations
    BY DEF SAInit, Init, VersionsAreOperations
  <2>5. ReadsAreVersions
    BY AgentInitEffect DEF SAInit, ReadsAreVersions
  <2> QED
    BY <2>1, <2>2, <2>3, <2>4, <2>5 DEF SAInv
<1>2. SAInv /\ [SANext]_allVars => SAInv'
  BY AgentStepIsStoreStep, SIStep, AgentTypeStep, ValidatedInTraceStep,
     VersionsAreOperationsStep, ReadsAreVersionsStep DEF SAInv
<1> QED
  BY <1>1, <1>2, PTL DEF SASpec

\* A record that was validated is not the reader of an A1 pair.
LEMMA ValidatedRecordsHaveNoA1 ==
    ASSUME SAInv, NEW i \in DOMAIN emitted, NEW j \in DOMAIN emitted,
           emitted[i].writes # NoMap \/ validateNoWrite
    PROVE  ~ D!A1Pair(emitted[i], emitted[j])
<1> SUFFICES ASSUME D!A1Pair(emitted[i], emitted[j]) PROVE FALSE
  OBVIOUS
<1> DEFINE r == TraceOf(emitted[i])
           s == TraceOf(emitted[j])
<1>1. PICK c \in DOMAIN emitted[i].reads \cap DOMAIN emitted[j].writes :
         /\ emitted[i].readTime < emitted[j].writeTime
         /\ emitted[j].writeTime < emitted[i].writeTime
  BY DEF D!A1Pair
<1>2. emitted[j].writes # NoMap
  BY <1>1 DEF NoMap
<1>3. r \in trace /\ s \in trace
  BY <1>2 DEF SAInv, ValidatedInTrace
<1>4. /\ r.readCells \cap s.writeCells # {}
      /\ r.readTime < s.writeTime /\ s.writeTime < r.writeTime
  BY <1>1 DEF TraceOf
<1> HIDE DEF r, s
<1> QED
  BY <1>3, <1>4 DEF SAInv, SIInv, A1StructFree, A1Struct

\* In SSI mode the log holds no A1 pair, of one agent or of two.
THEOREM SSILogHasNoA1 == SASpec => []SSIHasNoA1
<1>1. SAInv => SSIHasNoA1
  BY ValidatedRecordsHaveNoA1 DEF SSIHasNoA1, D!A1Witnesses
<1> QED
  BY <1>1, SIAgentsInvariance, PTL

\* In default mode the reader of an A1 pair wrote nothing.
THEOREM BypassExplainsA1 == SASpec => []A1OnlyWithoutWrites
<1>1. SAInv => A1OnlyWithoutWrites
  BY ValidatedRecordsHaveNoA1 DEF A1OnlyWithoutWrites, D!A1Witnesses
<1> QED
  BY <1>1, SIAgentsInvariance, PTL

\* Every published version is the write of an operation that is emitted or will
\* be.
THEOREM PublishedVersionsAreOperations == SASpec => []VersionsAreOperations
<1>1. SAInv => VersionsAreOperations
  BY DEF SAInv
<1> QED
  BY <1>1, SIAgentsInvariance, PTL

\* Between operations every value read has its writer among the records.
THEOREM QuietLogsAreClosed == SASpec => []ClosedWhenQuiet
<1>1. SAInv => ClosedWhenQuiet
  <2> SUFFICES ASSUME SAInv, \A t \in Thread : stage[t] \in {"idle", "commit"},
                      NEW j \in DOMAIN emitted, NEW c \in DOMAIN emitted[j].reads,
                      emitted[j].reads[c] # Null
               PROVE  D!HasAntecedent(emitted, j, c)
    BY DEF ClosedWhenQuiet, D!A3Witnesses
  <2>1. \A t \in Thread : stage[t] # "emit"
    OBVIOUS
  <2>2. emitted[j] \in Finished
    BY <2>1, QuietLogIsWhole DEF Emitted
  <2>3. PICK v \in versions : /\ v.cell = c /\ v.val = emitted[j].reads[c]
                              /\ v.time <= emitted[j].readTime
    BY <2>2 DEF SAInv, ReadsAreVersions, FromVersion
  <2>4. PICK i \in DOMAIN emitted : /\ v.cell \in DOMAIN emitted[i].writes
                                    /\ emitted[i].writes[v.cell] = v.val
                                    /\ emitted[i].writeTime = v.time
    BY <2>1 DEF SAInv, VersionsAreOperations
  <2>5. i # j
    <3>1. SUFFICES ASSUME i = j PROVE FALSE
      OBVIOUS
    <3>2. emitted[j].writes # NoMap
      BY <2>4, <3>1 DEF NoMap
    <3>3. TraceOf(emitted[j]) \in trace
      BY <3>2 DEF SAInv, ValidatedInTrace
    <3>4. /\ emitted[j].readTime < emitted[j].writeTime
          /\ emitted[j].readTime \in Nat /\ emitted[j].writeTime \in Nat
      <4> DEFINE r == TraceOf(emitted[j])
      <4>1. r.readTime = emitted[j].readTime /\ r.writeTime = emitted[j].writeTime
        BY DEF TraceOf
      <4> HIDE DEF r
      <4> QED
        BY <3>3, <4>1, SIAssumption DEF r, SAInv, SIInv, TraceTimes, TypeOK, Rec, Time
    <3> QED
      BY <2>3, <2>4, <3>1, <3>4
  <2> QED
    BY <2>3, <2>4, <2>5 DEF D!HasAntecedent
<1> QED
  BY <1>1, SIAgentsInvariance, PTL

==============================================================================
