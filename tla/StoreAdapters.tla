---------------------------- MODULE StoreAdapters ----------------------------
(****************************************************************************)
(* SnapshotIsolationStore (src/snapshot_isolation.rs) and PessimisticStore   *)
(* (src/pessimistic.rs): a store over names made of a store over numbers and *)
(* a dictionary (module Interner).  The lock of the dictionary is never held *)
(* across the store's: a begin numbers its names, calls the store and names  *)
(* the answer in three steps, a commit or a release is two, and the steps of *)
(* threads interleave.                                                       *)
(*                                                                          *)
(* A thread acts for one agent and commits with its last snapshot.           *)
(****************************************************************************)
EXTENDS FlatValidation

CONSTANTS
    Thread,
    AgentOf,        \* the agent name a thread acts for
    CellName,
    ValName,        \* names may be cell, value and agent names at once
    MaxCells,       \* bound on the cells a begin lists (model bound)
    Stores,         \* of "si", "ssi" (validate_no_write) and "pess"
    MaxClock

\* A program has finitely many names, however many.
ASSUME AdapterAssumption ==
    /\ MaxClock \in Nat /\ MaxCells \in Nat
    /\ IsFiniteSet(CellName) /\ IsFiniteSet(ValName)

VARIABLES
    store,                          \* the store under the adapter
    versions, clock, holds, trace,  \* its state, over numbers
    names,                          \* the dictionary
    call,                           \* call[t]: where t's call is
    answer                          \* answer[t]: the snapshot t was last given

coreVars == << versions, clock, holds, trace >>
vars == << store, coreVars, names, call, answer >>

SI == INSTANCE SIStore WITH
    AgentId <- Nat, Cell <- Nat, Val <- Nat, Null <- 0, NoAgent <- 0

Pess == INSTANCE PessStore WITH
    AgentId <- Nat, Cell <- Nat, Val <- Nat, Null <- 0

NoMap == [c \in {} |-> 0]

Idle == [at |-> "idle"]

AdapterInit ==
    /\ store \in Stores
    /\ Pess!Init
    /\ names = NewNames
    /\ call = [t \in Thread |-> Idle]
    /\ answer = [t \in Thread |-> [values |-> NoMap, time |-> 0]]

Now(t, step) == call' = [call EXCEPT ![t] = step]

-----------------------------------------------------------------------------
BeginNumbers(t, list) ==
    /\ call[t] = Idle
    /\ names' = InternAll(names, << AgentOf[t] >> \o list)
    /\ Now(t, [at |-> "begin", agent |-> names'.to[AgentOf[t]],
               cells |-> {names'.to[c] : c \in ToSet(list)}])
    /\ UNCHANGED << store, coreVars, answer >>

\* The snapshot-isolation stores only read, the pessimistic one takes holds.
BeginReads(t) ==
    LET k == call[t] IN
    /\ k.at = "begin"
    /\ IF store = "pess" THEN Pess!Begin(k.agent, k.cells) ELSE UNCHANGED coreVars
    /\ Now(t, [at |-> "name", time |-> clock,
               values |-> [c \in k.cells |-> Pess!ValueOf(c)]])
    /\ UNCHANGED << store, names, answer >>

BeginRefused(t) ==
    /\ call[t].at = "begin"
    /\ store = "pess"
    /\ ~ Pess!CanBegin(call[t].agent, call[t].cells)
    /\ Now(t, Idle)
    /\ UNCHANGED << store, coreVars, names, answer >>

BeginNamesLate(t) ==
    /\ call[t].at = "name"
    /\ answer' = [answer EXCEPT ![t] =
                    [values |-> Named(names, [c \in DOMAIN call[t].values |->
                                                Pess!ValueOf(c)]),
                     time |-> call[t].time]]
    /\ Now(t, Idle)
    /\ UNCHANGED << store, coreVars, names >>

BeginNames(t) ==
    /\ call[t].at = "name"
    /\ answer' = [answer EXCEPT ![t] =
                    [values |-> Named(names, call[t].values),
                     time |-> call[t].time]]
    /\ Now(t, Idle)
    /\ UNCHANGED << store, coreVars, names >>

\* In default mode a commit without writes only ticks the store's clock.
CommitTicks(t) ==
    /\ call[t] = Idle
    /\ store = "si"
    /\ SI!Tick
    /\ UNCHANGED << store, holds, names, call, answer >>

\* The two maps are numbered in the order of their keys, which is one order.
CommitNumbers(t, writes) ==
    LET cells == SetToSeq(DOMAIN writes) IN
    /\ call[t] = Idle
    /\ writes = NoMap => store # "si"
    /\ names' = InternAll(names,
                  << AgentOf[t] >> \o SetToSeq(DOMAIN answer[t].values)
                    \o FlattenSeq([i \in DOMAIN cells |->
                                     << cells[i], writes[cells[i]] >>]))
    /\ Now(t, [at |-> "commit", agent |-> names'.to[AgentOf[t]],
               time |-> answer[t].time,
               cells |-> {names'.to[c] : c \in DOMAIN answer[t].values},
               writes |-> Numbered(names', writes)])
    /\ UNCHANGED << store, coreVars, answer >>

Commits(t) ==
    LET k == call[t] IN
    /\ k.at = "commit"
    /\ IF store = "pess"
       THEN \/ Pess!Commit(k.agent, k.time, k.cells, k.writes)
            \/ /\ ~ Pess!CanCommit(k.agent, k.time, k.cells, DOMAIN k.writes)
               /\ UNCHANGED coreVars
       ELSE \/ SI!Commit(k.agent, k.time, k.cells, k.writes) /\ UNCHANGED holds
            \/ /\ ~ SI!CanCommit(k.time, k.cells, DOMAIN k.writes)
               /\ UNCHANGED coreVars
    /\ Now(t, Idle)
    /\ UNCHANGED << store, names, answer >>

\* The snapshot-isolation stores' release does nothing.
ReleaseNumbers(t) ==
    /\ call[t] = Idle
    /\ store = "pess"
    /\ names' = InternAll(names, << AgentOf[t] >>)
    /\ Now(t, [at |-> "release", agent |-> names'.to[AgentOf[t]]])
    /\ UNCHANGED << store, coreVars, answer >>

Releases(t) ==
    /\ call[t].at = "release"
    /\ Pess!Release(call[t].agent)
    /\ Now(t, Idle)
    /\ UNCHANGED << store, names, answer >>

AdapterTick ==
    /\ IF store = "pess" THEN Pess!Tick ELSE SI!Tick /\ UNCHANGED holds
    /\ UNCHANGED << store, names, call, answer >>

AdapterNext ==
    \/ \E t \in Thread :
        \/ \E list \in BoundedSeq(CellName, MaxCells) : BeginNumbers(t, list)
        \/ BeginReads(t)
        \/ BeginRefused(t)
        \/ BeginNames(t)
        \/ CommitTicks(t)
        \/ \E W \in SUBSET CellName :
              \E writes \in [W -> ValName] : CommitNumbers(t, writes)
        \/ Commits(t)
        \/ ReleaseNumbers(t)
        \/ Releases(t)
    \/ AdapterTick

AdapterSpec == AdapterInit /\ [][AdapterNext]_vars

-----------------------------------------------------------------------------
\* The state of the store over names.
NamedSet(n, ids) == {NameOf(n, i) : i \in ids}

NamedFields(n, v) ==
    [f \in DOMAIN v |-> IF f \in {"cell", "val", "agent"} THEN NameOf(n, v[f])
                                                         ELSE v[f]]

NamedRecord(n, r) ==
    [agent |-> NameOf(n, r.agent),
     readCells |-> NamedSet(n, r.readCells), readTime |-> r.readTime,
     writeCells |-> NamedSet(n, r.writeCells), writeTime |-> r.writeTime]

NamedVersions == {NamedFields(names, v) : v \in versions}

NamedHolds == {NamedFields(names, h) : h \in holds}

NamedTrace == {NamedRecord(names, r) : r \in trace}

AgentName == {AgentOf[t] : t \in Thread}

NamedSI == INSTANCE SIStore WITH
    AgentId <- AgentName, Cell <- CellName, Val <- ValName,
    Null <- NullName, NoAgent <- NullName,
    versions <- NamedVersions, trace <- NamedTrace

NamedPess == INSTANCE PessStore WITH
    AgentId <- AgentName, Cell <- CellName, Val <- ValName,
    Null <- NullName, versions <- NamedVersions, holds <- NamedHolds,
    trace <- NamedTrace

\* The adapters are the two stores over names, holds included: the dictionary
\* is "a bijection" and not safety-bearing, whatever cells, values and agents
\* are called and in whichever order calls grew it.
ImplementsNamedStore ==
    /\ NamedSI!Init /\ NamedPess!Init
    /\ [][IF store = "pess" THEN NamedPess!Next
                            ELSE NamedSI!Next]_<< NamedPess!storeVars >>

\* What cell c of the store over names held at time rt.
Latest(vs) ==
    IF vs = {} THEN NullName
    ELSE (CHOOSE v \in vs : \A u \in vs : u.time <= v.time).val

ValueAt(c, rt) == Latest({v \in NamedVersions : v.cell = c /\ v.time <= rt})

\* A snapshot holds what the store held at the snapshot's own time, although
\* other threads' calls grow dictionary and store between numbering, reading
\* and naming.
SnapshotsAreReads ==
    \A t \in Thread : \A c \in DOMAIN answer[t].values :
        answer[t].values[c] = ValueAt(c, answer[t].time)

Name == CellName \cup ValName

\* The chain of one cell's versions, oldest first.
ChainOf(vs) ==
    [i \in 1 .. Cardinality(vs) |->
        LET v == CHOOSE u \in vs :
                    Cardinality({w \in vs : w.time <= u.time}) = i
        IN  [time |-> v.time, val |-> v.val]]

\* The version chains, as a map with the given names for keys.
Chains(keys) == [c \in keys |-> ChainOf({v \in NamedVersions : v.cell = c})]

VersionedNames == {v.cell : v \in NamedVersions}

\* The stateless validation decides as the store's own gate does over the same
\* versions, also for names read that are no keys or have no versions, for
\* repeated reads, and where a value is called like a cell.
VerdictIsTheGate ==
    (store # "pess" /\ \A t \in Thread : call[t] = Idle) =>
        \A keys \in SUBSET Name : VersionedNames \subseteq keys =>
            \A reads \in BoundedSeq(Name, MaxCells + 1), rt \in 0 .. clock :
                ValidateFresh(Chains(keys), SetToSeq(keys), reads, rt)
                    <=> NamedSI!Validates(ToSet(reads), {}, rt)

-----------------------------------------------------------------------------
CellIds == NumbersOf(names, CellName)
ValIds == NumbersOf(names, ValName)
AgentIds == NumbersOf(names, AgentName)

\* The store's state is over numbers the dictionary has handed out.
StoreNumbered ==
    /\ clock \in 0 .. MaxClock
    /\ versions \subseteq
         IF store = "pess"
         THEN [cell : CellIds, time : 1 .. clock, val : ValIds, agent : AgentIds]
         ELSE [cell : CellIds, time : 1 .. clock, val : ValIds]
    /\ holds \subseteq [cell : CellIds, agent : AgentIds, since : 0 .. clock]
    /\ trace \subseteq [agent : AgentIds \cup {0}, readCells : SUBSET CellIds,
                        readTime : 0 .. clock, writeCells : SUBSET CellIds,
                        writeTime : 0 .. clock]

\* A commit writes a cell once.
OneVersionATime ==
    \A v, w \in versions : v.cell = w.cell /\ v.time = w.time => v = w

\* What a call holds between its steps keeps its meaning.
CallNumbered(t) ==
    LET k == call[t] IN
    /\ k.at \in {"idle", "begin", "name", "commit", "release"}
    /\ k.at \in {"begin", "commit", "release"} => k.agent \in AgentIds
    /\ k.at \in {"begin", "commit"} => k.cells \subseteq CellIds
    /\ k.at \in {"name", "commit"} => k.time \in 0 .. clock
    /\ k.at = "name" =>
          /\ DOMAIN k.values \subseteq CellIds
          /\ \A c \in DOMAIN k.values :
                /\ k.values[c] \in NumbersOf(names, ValName \cup {NullName})
                /\ NameOf(names, k.values[c]) = ValueAt(NameOf(names, c), k.time)
    /\ k.at = "release" => store = "pess"
    /\ k.at = "commit" => \E D \in SUBSET CellIds : k.writes \in [D -> ValIds]

AnswerKnown(t) ==
    /\ DOMAIN answer[t].values \subseteq CellName
    /\ answer[t].time \in 0 .. clock
    /\ \A c \in DOMAIN answer[t].values :
          answer[t].values[c] = ValueAt(c, answer[t].time)

\* The invariant of the adapters, inductive.
AdapterInv ==
    /\ Dictionary(names) /\ NullName \in DOMAIN names.to /\ names.to[NullName] = 0
    /\ StoreNumbered
    /\ OneVersionATime
    /\ DOMAIN call = Thread /\ DOMAIN answer = Thread
    /\ \A t \in Thread : CallNumbered(t) /\ AnswerKnown(t)

=============================================================================
