----------------------------- MODULE AgentProofs -----------------------------
(****************************************************************************)
(* What the steps of the Agent API leave typed, over any store.              *)
(****************************************************************************)
EXTENDS Agent, WellFoundedInduction, TLAPS

\* A sequence of records stays one when a record is emitted.
LEMMA EmittedStaysSequence ==
    ASSUME NEW log, log \in Seq({log[i] : i \in DOMAIN log}), NEW r
    PROVE  LET new == Append(log, r) IN
           /\ new \in Seq({new[i] : i \in DOMAIN new})
           /\ DOMAIN new = DOMAIN log \cup {Len(log) + 1}
           /\ \A i \in DOMAIN log : new[i] = log[i]
           /\ new[Len(log) + 1] = r
<1> DEFINE S == {log[i] : i \in DOMAIN log}
           new == Append(log, r)
           T == {new[i] : i \in DOMAIN new}
<1>1. log \in Seq(S \cup {r}) /\ r \in S \cup {r}
  OBVIOUS
<1>2. /\ new \in Seq(S \cup {r})
      /\ Len(new) = Len(log) + 1
      /\ \A i \in 1 .. Len(log) : new[i] = log[i]
      /\ new[Len(log) + 1] = r
  BY <1>1
<1>3. DOMAIN new = DOMAIN log \cup {Len(log) + 1}
  BY <1>2
<1>4. T = S \cup {r}
  <2>1. \A x : x \in T <=> \E i \in DOMAIN new : x = new[i]
    OBVIOUS
  <2>2. \A x : x \in S <=> \E i \in DOMAIN log : x = log[i]
    OBVIOUS
  <2>3. DOMAIN log = 1 .. Len(log)
    OBVIOUS
  <2>4. \A x : x \in T <=> x \in S \/ x = r
    <3> HIDE DEF T, new
    <3> QED BY <1>2, <1>3, <2>1, <2>2, <2>3
  <2> QED
    BY <2>4
<1> QED
  BY <1>2, <1>3, <1>4

\* A log is a sequence of what it holds, and stays one.
LogTyped(log) == log \in Seq({log[i] : i \in DOMAIN log})

LEMMA EmittedStaysTyped ==
    ASSUME NEW log, LogTyped(log), NEW r
    PROVE  LogTyped(Append(log, r))
<1>1. log \in Seq({log[i] : i \in DOMAIN log})
  BY DEF LogTyped
<1>2. PICK new : new = Append(log, r)
  OBVIOUS
<1>3. new \in Seq({new[i] : i \in DOMAIN new})
  BY ONLY <1>1, <1>2, EmittedStaysSequence
<1> QED
  BY ONLY <1>2, <1>3 DEF LogTyped

\* A commit that succeeds records its time in the operation and nothing else.
LEMMA CommittedFields ==
    ASSUME NEW r, DOMAIN r = DOMAIN NoOp, NEW x
    PROVE  LET s == [r EXCEPT !.writeTime = x] IN
           /\ DOMAIN s = DOMAIN NoOp
           /\ s.reads = r.reads /\ s.readTime = r.readTime
           /\ s.writes = r.writes /\ s.writeTime = x
           /\ s.planned = r.planned /\ s.named = r.named
<1>1. DOMAIN NoOp = {"reads", "readTime", "writes", "writeTime", "planned", "named"}
  BY DEF NoOp
<1> QED
  BY <1>1

\* An empty operation, and an empty or refused pending one, read no cells.
LEMMA EmptyOperations ==
    /\ DOMAIN NoOp.reads = {} /\ NoOp.readTime = 0
    /\ \A V : NoOp.writes \in [{} -> V]
    /\ DOMAIN NoPending.reads = {} /\ NoPending.readTime = 0
    /\ NoPending.state = "none"
    /\ LET refused == [NoPending EXCEPT !.state = "refused"] IN
       /\ DOMAIN refused.reads = {} /\ refused.readTime = 0
       /\ refused.state = "refused"
<1>1. DOMAIN NoMap = {} /\ \A V : NoMap \in [{} -> V]
  BY DEF NoMap
<1>2. /\ NoOp.reads = NoMap /\ NoOp.readTime = 0 /\ NoOp.writes = NoMap
  BY DEF NoOp
<1>3. /\ DOMAIN NoPending = {"state", "reads", "readTime", "planned"}
      /\ NoPending.reads = NoMap /\ NoPending.readTime = 0
      /\ NoPending.state = "none"
  BY DEF NoPending
<1>4. LET refused == [NoPending EXCEPT !.state = "refused"] IN
       /\ refused.reads = NoMap /\ refused.readTime = 0
       /\ refused.state = "refused"
  BY <1>3
<1> QED
  BY <1>1, <1>2, <1>3, <1>4

\* One step of the API on arguments of its types.
AgentStep(C, V, T, t) ==
    \/ \E reads, time, planned : /\ DOMAIN reads \subseteq C /\ time \in T
                                /\ BeginAccepted(t, reads, time, planned)
    \/ BeginRefused(t)
    \/ TakeRefused(t)
    \/ \E W \in SUBSET C : \E writes \in [W -> V] : \E named : Take(t, writes, named)
    \/ \E time : Committed(t, time)
    \/ Conflict(t)
    \/ Emit(t)
    \/ Released(t)

\* Every step of the API keeps pending and taken operations typed.
LEMMA AgentStepTyped ==
    ASSUME NEW C, NEW V, NEW T, 0 \in T, AgentTyped(C, V, T),
           NEW t \in Thread, AgentStep(C, V, T, t)
    PROVE  AgentTyped(C, V, T)'
<1> USE DEF AgentTyped
<1> DEFINE PendingOK(p) == DOMAIN p.reads \subseteq C /\ p.readTime \in T
           OpOK(r) == /\ DOMAIN r = DOMAIN NoOp
                      /\ DOMAIN r.reads \subseteq C
                      /\ r.readTime \in T
                      /\ \E W \in SUBSET C : r.writes \in [W -> V]
           Goal == AgentTyped(C, V, T)'
<1>a. OpOK(NoOp) /\ PendingOK(NoPending)
      /\ PendingOK([NoPending EXCEPT !.state = "refused"])
  BY EmptyOperations
<1>b. ASSUME NEW o \in Object, NEW p, PendingOK(p),
             pending' = [pending EXCEPT ![o] = p]
      PROVE  DOMAIN pending' = Object /\ \A x \in Object : PendingOK(pending'[x])
  <2>1. \A x \in Object : pending'[x] = IF x = o THEN p ELSE pending[x]
    BY <1>b
  <2> QED
    BY <1>b, <2>1
<1>c. ASSUME NEW r, OpOK(r), op' = [op EXCEPT ![t] = r]
      PROVE  DOMAIN op' = Thread /\ \A u \in Thread : OpOK(op'[u])
  <2>1. \A u \in Thread : op'[u] = IF u = t THEN r ELSE op[u]
    BY <1>c
  <2> QED
    BY <1>c, <2>1
<1>d. ASSUME DOMAIN pending' = Object, \A x \in Object : PendingOK(pending'[x]),
             DOMAIN stage' = Thread,
             DOMAIN op' = Thread, \A u \in Thread : OpOK(op'[u]),
             LogTyped(emitted')
      PROVE  Goal
  BY <1>d DEF LogTyped
<1>e. /\ \A x \in Object : PendingOK(pending[x])
      /\ \A u \in Thread : OpOK(op[u])
      /\ LogTyped(emitted)
  BY DEF LogTyped
<1>f. ObjectOf[t] \in Object
  BY AgentAssumption
<1> HIDE DEF PendingOK, OpOK, Goal
<1>1. ASSUME NEW reads, NEW time \in T, NEW planned, DOMAIN reads \subseteq C,
             BeginAccepted(t, reads, time, planned)
      PROVE  Goal
  <2> DEFINE accepted == [state |-> "open", reads |-> reads,
                          readTime |-> time, planned |-> planned]
  <2>1. PendingOK(accepted)
    BY <1>1 DEF PendingOK
  <2>2. pending' = [pending EXCEPT ![ObjectOf[t]] = accepted]
    BY <1>1 DEF BeginAccepted
  <2> HIDE DEF accepted
  <2>3. DOMAIN pending' = Object /\ \A x \in Object : PendingOK(pending'[x])
    BY <1>b, <1>f, <2>1, <2>2
  <2> QED
    BY <1>1, <1>d, <1>e, <2>3 DEF BeginAccepted
<1>2. ASSUME BeginRefused(t) PROVE Goal
  <2>1. DOMAIN pending' = Object /\ \A x \in Object : PendingOK(pending'[x])
    BY <1>2, <1>a, <1>b, <1>f DEF BeginRefused
  <2> QED
    BY <1>2, <1>d, <1>e, <2>1 DEF BeginRefused
<1>3. ASSUME TakeRefused(t) PROVE Goal
  <2>1. DOMAIN pending' = Object /\ \A x \in Object : PendingOK(pending'[x])
    BY <1>3, <1>a, <1>b, <1>f DEF TakeRefused
  <2> QED
    BY <1>3, <1>d, <1>e, <2>1 DEF TakeRefused
<1>4. ASSUME NEW W \in SUBSET C, NEW writes \in [W -> V], NEW named,
             Take(t, writes, named)
      PROVE  Goal
  <2> DEFINE p == pending[ObjectOf[t]]
             taken == [reads |-> p.reads, readTime |-> p.readTime,
                       writes |-> writes, writeTime |-> 0,
                       planned |-> p.planned, named |-> named]
  <2>1. OpOK(taken)
    <3>1. PendingOK(p)
      BY <1>e, <1>f
    <3>2. DOMAIN taken = DOMAIN NoOp
      BY DEF NoOp
    <3>3. taken.reads = p.reads /\ taken.readTime = p.readTime
          /\ taken.writes = writes
      OBVIOUS
    <3> HIDE DEF p, taken
    <3> QED
      BY <3>1, <3>2, <3>3 DEF OpOK, PendingOK
  <2>2. DOMAIN pending' = Object /\ \A x \in Object : PendingOK(pending'[x])
    BY <1>4, <1>a, <1>b, <1>f DEF Take
  <2>3. op' = [op EXCEPT ![t] = taken]
    BY <1>4 DEF Take
  <2>4. DOMAIN op' = Thread /\ \A u \in Thread : OpOK(op'[u])
    BY <1>c, <2>1, <2>3
  <2> QED
    BY <1>4, <1>d, <1>e, <2>2, <2>4 DEF Take
<1>5. ASSUME NEW time, Committed(t, time) PROVE Goal
  <2> DEFINE done == [op[t] EXCEPT !.writeTime = time]
  <2>1. op' = [op EXCEPT ![t] = done]
    BY <1>5 DEF Committed
  <2>2. /\ DOMAIN done = DOMAIN NoOp
        /\ done.reads = op[t].reads /\ done.readTime = op[t].readTime
        /\ done.writes = op[t].writes
    BY CommittedFields
  <2> HIDE DEF done
  <2>3. OpOK(done)
    BY <1>e, <2>2 DEF OpOK
  <2>4. DOMAIN op' = Thread /\ \A u \in Thread : OpOK(op'[u])
    BY <1>c, <2>1, <2>3
  <2> QED
    BY <1>5, <1>d, <1>e, <2>4 DEF Committed
<1>6. ASSUME Conflict(t) PROVE Goal
  <2>1. DOMAIN op' = Thread /\ \A u \in Thread : OpOK(op'[u])
    BY <1>6, <1>a, <1>c DEF Conflict
  <2> QED
    BY <1>6, <1>d, <1>e, <2>1 DEF Conflict
<1>7. ASSUME Emit(t) PROVE Goal
  <2>1. LogTyped(emitted')
    <3>1. LogTyped(Append(emitted, Record(t)))
      BY <1>e, EmittedStaysTyped
    <3> QED
      BY <1>7, <3>1 DEF Emit
  <2>2. DOMAIN op' = Thread /\ \A u \in Thread : OpOK(op'[u])
    BY <1>7, <1>a, <1>c DEF Emit
  <2> QED
    BY <1>7, <1>d, <1>e, <2>1, <2>2 DEF Emit
<1>8. ASSUME Released(t) PROVE Goal
  BY <1>8, <1>d, <1>e DEF Released
<1> QED
  BY <1>1, <1>2, <1>3, <1>4, <1>5, <1>6, <1>7, <1>8 DEF AgentStep, Goal

\* New Agent objects have no operation and the emitter no record.
LEMMA AgentInitTyped ==
    ASSUME NEW C, NEW V, NEW T, 0 \in T, AgentInit
    PROVE  AgentTyped(C, V, T)
<1>1. emitted \in Seq({emitted[i] : i \in DOMAIN emitted})
  BY DEF AgentInit
<1> QED
  BY <1>1, EmptyOperations DEF AgentInit, AgentTyped

\* A step of the store alone leaves the agents' types alone.
LEMMA AgentUnchangedTyped ==
    ASSUME NEW C, NEW V, NEW T, AgentTyped(C, V, T), UNCHANGED agentVars
    PROVE  AgentTyped(C, V, T)'
  BY DEF AgentTyped, agentVars

-----------------------------------------------------------------------------
\* A record tells what its operation read and wrote.
LEMMA RecordFields ==
    ASSUME NEW t \in Thread
    PROVE  /\ Record(t).agent = Id(t)
           /\ Record(t).reads = op[t].reads /\ Record(t).readTime = op[t].readTime
           /\ Record(t).writes = op[t].writes /\ Record(t).writeTime = op[t].writeTime
           /\ Record(t).io = op[t].writes /\ Record(t).co = op[t].writes
  BY DEF Record

\* A record depends on nothing but the operation of its thread.
LEMMA RecordUnchanged ==
    ASSUME NEW t \in Thread, op'[t] = op[t]
    PROVE  Record(t)' = Record(t)
  BY DEF Record, ToolsUsed, Id

\* The API's steps before the store's commit finish nothing, and read only what
\* an accepted begin is told.
LEMMA BeginEffect ==
    ASSUME NEW C, NEW V, NEW T, AgentTyped(C, V, T), NEW t \in Thread,
           NEW reads, NEW time, NEW planned, BeginAccepted(t, reads, time, planned)
    PROVE  /\ Finished' = Finished /\ Emitted' = Emitted
           /\ Windows' \subseteq Windows \cup {<< reads, time >>}
<1>1. /\ UNCHANGED << stage, op, emitted >>
      /\ pending' = [pending EXCEPT ![ObjectOf[t]] =
                       [state |-> "open", reads |-> reads, readTime |-> time,
                        planned |-> planned]]
  BY DEF BeginAccepted
<1>2. Emitted' = Emitted /\ Finished' = Finished
  BY <1>1 DEF Emitted, Finished, Record, ToolsUsed, Id
<1>3. ASSUME NEW o \in Object
      PROVE  \/ pending'[o] = pending[o]
             \/ pending'[o].reads = reads /\ pending'[o].readTime = time
  BY <1>1 DEF AgentTyped
<1> QED
  BY <1>1, <1>2, <1>3 DEF Windows

\* The same for every step that neither begins, commits nor emits.
Aside(t) ==
    \/ BeginRefused(t) \/ TakeRefused(t) \/ Conflict(t) \/ Released(t)
    \/ \E writes, named : Take(t, writes, named)

LEMMA AsideEffect ==
    ASSUME NEW C, NEW V, NEW T, AgentTyped(C, V, T), NEW t \in Thread, Aside(t)
    PROVE  /\ Finished' = Finished /\ Emitted' = Emitted
           /\ Windows' \subseteq Windows
<1>0. ObjectOf[t] \in Object
  BY AgentAssumption
<1>1. emitted' = emitted /\ Emitted' = Emitted
  BY DEF Aside, BeginRefused, TakeRefused, Conflict, Released, Take, Emitted
<1>2. ASSUME NEW u \in Thread
      PROVE  \/ stage'[u] = stage[u] /\ op'[u] = op[u]
             \/ stage[u] # "emit" /\ stage'[u] # "emit"
  BY DEF Aside, BeginRefused, TakeRefused, Conflict, Released, Take, AgentTyped
<1>3. {Record(u) : u \in {v \in Thread : stage[v] = "emit"}}'
        = {Record(u) : u \in {v \in Thread : stage[v] = "emit"}}
  BY <1>2, RecordUnchanged
<1>4. ASSUME NEW o \in Object, pending'[o].state = "open"
      PROVE  pending'[o] = pending[o]
  BY <1>0, <1>4, EmptyOperations
     DEF Aside, BeginRefused, TakeRefused, Conflict, Released, Take, AgentTyped
<1>5. ASSUME NEW u \in Thread, stage'[u] = "commit"
      PROVE  \/ stage[u] = "commit" /\ op'[u] = op[u]
             \/ /\ pending[ObjectOf[u]].state = "open"
                /\ op'[u].reads = pending[ObjectOf[u]].reads
                /\ op'[u].readTime = pending[ObjectOf[u]].readTime
  BY <1>5
     DEF Aside, BeginRefused, TakeRefused, Conflict, Released, Take, AgentTyped
<1>6. \A u \in Thread : ObjectOf[u] \in Object
  BY AgentAssumption
<1>7. Windows' \subseteq Windows
  BY <1>4, <1>5, <1>6 DEF Windows
<1> QED
  BY <1>1, <1>3, <1>7 DEF Finished

\* An emission moves a record that was finished into the log.
LEMMA EmitEffect ==
    ASSUME NEW C, NEW V, NEW T, AgentTyped(C, V, T), NEW t \in Thread, Emit(t)
    PROVE  /\ Finished' = Finished /\ Emitted' = Emitted \cup {Record(t)}
           /\ Windows' \subseteq Windows
<1>1. /\ stage[t] = "emit" /\ stage'[t] = "release" /\ pending' = pending
      /\ \A u \in Thread \ {t} : stage'[u] = stage[u] /\ op'[u] = op[u]
      /\ emitted' = Append(emitted, Record(t))
  BY DEF Emit, AgentTyped
<1>2. /\ DOMAIN emitted' = DOMAIN emitted \cup {Len(emitted) + 1}
      /\ \A i \in DOMAIN emitted : emitted'[i] = emitted[i]
      /\ emitted'[Len(emitted) + 1] = Record(t)
  <2>1. emitted \in Seq({emitted[i] : i \in DOMAIN emitted})
    BY DEF AgentTyped
  <2>2. \A r : LET new == Append(emitted, r) IN
               /\ DOMAIN new = DOMAIN emitted \cup {Len(emitted) + 1}
               /\ \A i \in DOMAIN emitted : new[i] = emitted[i]
               /\ new[Len(emitted) + 1] = r
    BY ONLY <2>1, EmittedStaysSequence
  <2> QED
    BY <1>1, <2>2
<1>3. Emitted' = Emitted \cup {Record(t)}
  <2>1. ASSUME NEW r, r \in Emitted' PROVE r \in Emitted \cup {Record(t)}
    BY <1>2, <2>1, Zenon DEF Emitted
  <2>2. ASSUME NEW r, r \in Emitted \cup {Record(t)} PROVE r \in Emitted'
    BY <1>2, <2>2, Zenon DEF Emitted
  <2> QED
    BY <2>1, <2>2
<1>4. {Record(u) : u \in {v \in Thread : stage[v] = "emit"}}' \cup {Record(t)}
        = {Record(u) : u \in {v \in Thread : stage[v] = "emit"}}
  <2>1. \A u \in Thread \ {t} : Record(u)' = Record(u)
    BY <1>1, RecordUnchanged
  <2> QED
    BY <1>1, <2>1
<1>5. Windows' \subseteq Windows
  BY <1>1 DEF Windows
<1> QED
  BY <1>3, <1>4, <1>5 DEF Finished

\* A commit the store accepts finishes the operation it took: with the window
\* it read in, its writes, and the time the store gave it.
LEMMA CommittedEffect ==
    ASSUME NEW C, NEW V, NEW T, AgentTyped(C, V, T), NEW t \in Thread,
           NEW time, Committed(t, time)
    PROVE  /\ Finished' = Finished \cup {Record(t)'}
           /\ Emitted' = Emitted
           /\ Windows' \subseteq Windows
           /\ << op[t].reads, op[t].readTime >> \in Windows
           /\ Record(t)'.agent = Id(t)
           /\ Record(t)'.reads = op[t].reads
           /\ Record(t)'.readTime = op[t].readTime
           /\ Record(t)'.writes = op[t].writes
           /\ Record(t)'.writeTime = time
           /\ Record(t)'.io = op[t].writes
           /\ Record(t)'.co = op[t].writes
<1> DEFINE done == [op[t] EXCEPT !.writeTime = time]
<1>1. /\ stage[t] = "commit" /\ stage'[t] = "emit" /\ pending' = pending
      /\ \A u \in Thread \ {t} : stage'[u] = stage[u] /\ op'[u] = op[u]
      /\ emitted' = emitted /\ op'[t] = done
  BY DEF Committed, AgentTyped
<1>2. /\ done.reads = op[t].reads /\ done.readTime = op[t].readTime
      /\ done.writes = op[t].writes /\ done.writeTime = time
  BY CommittedFields DEF AgentTyped
<1> HIDE DEF done
<1>3. /\ Record(t)'.agent = Id(t)
      /\ Record(t)'.reads = op[t].reads /\ Record(t)'.readTime = op[t].readTime
      /\ Record(t)'.writes = op[t].writes /\ Record(t)'.writeTime = time
      /\ Record(t)'.io = op[t].writes /\ Record(t)'.co = op[t].writes
  BY <1>1, <1>2 DEF Record, Id
<1>4. {Record(u) : u \in {v \in Thread : stage[v] = "emit"}}'
        = {Record(u) : u \in {v \in Thread : stage[v] = "emit"}} \cup {Record(t)'}
  <2>1. \A u \in Thread \ {t} : Record(u)' = Record(u)
    BY <1>1, RecordUnchanged
  <2> QED
    BY <1>1, <2>1
<1>5. Emitted' = Emitted
  BY <1>1 DEF Emitted
<1>6. Windows' \subseteq Windows /\ << op[t].reads, op[t].readTime >> \in Windows
  BY <1>1 DEF Windows
<1> QED
  BY <1>3, <1>4, <1>5, <1>6 DEF Finished

\* New Agent objects have finished and read nothing.
LEMMA AgentInitEffect ==
    ASSUME AgentInit
    PROVE  Finished = {} /\ Emitted = {} /\ Windows = {}
<1>1. NoPending.state = "none"
  BY EmptyOperations
<1> QED
  BY <1>1 DEF AgentInit, Finished, Emitted, Windows

\* A step of the store alone finishes and reads nothing.
LEMMA AgentUnchangedEffect ==
    ASSUME UNCHANGED agentVars
    PROVE  Finished' = Finished /\ Emitted' = Emitted /\ Windows' = Windows
  BY DEF agentVars, Finished, Emitted, Windows, Record, ToolsUsed, Id

\* When no operation is between its commit and its emission, the log holds all
\* that the store committed.
LEMMA QuietLogIsWhole ==
    ASSUME \A t \in Thread : stage[t] # "emit"
    PROVE  Finished = Emitted
  BY DEF Finished

\* Among times up to a bound there is a last one.
LEMMA LastTime ==
    ASSUME NEW n \in Nat, NEW S \in SUBSET (0 .. n), S # {}
    PROVE  \E x \in S : \A y \in S : y <= x
<1> DEFINE R == OpToRel(<, Nat)
           T == {n - x : x \in S}
<1>1. IsWellFoundedOn(R, Nat)
  BY NatLessThanWellFounded
<1>2. \A a, b \in Nat : a < b => << a, b >> \in R
  BY DEF OpToRel
<1>3. T \in SUBSET Nat /\ T # {}
  OBVIOUS
<1> HIDE DEF R, T
<1>4. PICK a \in T : \A b \in T : ~ (<< b, a >> \in R)
  BY <1>1, <1>3, WFMin
<1>5. \A b \in T : ~ (b < a)
  BY ONLY <1>2, <1>3, <1>4, Zenon
<1>6. PICK x \in S : a = n - x
  BY DEF T
<1>7. \A y \in S : y <= x
  BY <1>5, <1>6 DEF T
<1> QED
  BY <1>7

=============================================================================
