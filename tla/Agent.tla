-------------------------------- MODULE Agent --------------------------------
(****************************************************************************)
(* The Agent API of src/agent.rs: begin and commit of one operation at a     *)
(* time around a Store, with an emitter that collects operation records.     *)
(* A commit takes the pending operation, then calls the store, emits and     *)
(* releases as separate steps with no lock held across them; begin holds the *)
(* pending lock across the store's begin and is one step.                    *)
(*                                                                          *)
(* An Agent object can be shared by threads, and two objects can carry one   *)
(* agent id: nothing in the code forbids either.  A module that extends this *)
(* one and a store conjoins each operator here with the store's call.        *)
(* no_write_commit is commit with no writes.                                 *)
(****************************************************************************)
EXTENDS Integers, Sequences

CONSTANTS
    Thread,
    Object,         \* Agent objects
    ObjectOf,       \* the object a thread calls
    IdOf,           \* the agent_id of an object
    NoTool,         \* no tool planned, or none named at commit
    PlanChoice,     \* the tools that callers plan at begin, NoTool included
    NameChoice,     \* and those they name at commit
    VisibleTools    \* the tools an object was made with

ASSUME AgentAssumption ==
    /\ ObjectOf \in [Thread -> Object]
    /\ DOMAIN VisibleTools = Object
    /\ \A o \in Object : NoTool \notin VisibleTools[o]

VARIABLES
    pending,        \* pending[o]: the operation begun through o
    stage,          \* stage[t]: where t is inside a commit call
    op,             \* op[t]: the operation t's commit call has taken
    emitted         \* the emitter's records, in the order of emission

agentVars == << pending, stage, op, emitted >>

NoMap == [c \in {} |-> 0]

NoPending ==
    [state |-> "none", reads |-> NoMap, readTime |-> 0, planned |-> NoTool]

NoOp == [reads |-> NoMap, readTime |-> 0, writes |-> NoMap, writeTime |-> 0,
         planned |-> NoTool, named |-> NoTool]

AgentInit ==
    /\ pending = [o \in Object |-> NoPending]
    /\ stage = [t \in Thread |-> "idle"]
    /\ op = [t \in Thread |-> NoOp]
    /\ emitted = << >>

Id(t) == IdOf[ObjectOf[t]]

-----------------------------------------------------------------------------
\* begin refuses while an operation is pending in the object.
MayBegin(t) == stage[t] = "idle" /\ pending[ObjectOf[t]].state = "none"

BeginAtZero(t, reads, time, planned) ==
    /\ MayBegin(t)
    /\ pending' = [pending EXCEPT ![ObjectOf[t]] =
                     [state |-> "open", reads |-> reads, readTime |-> 0,
                      planned |-> planned]]
    /\ UNCHANGED << stage, op, emitted >>

BeginAccepted(t, reads, time, planned) ==
    /\ MayBegin(t)
    /\ pending' = [pending EXCEPT ![ObjectOf[t]] =
                     [state |-> "open", reads |-> reads, readTime |-> time,
                      planned |-> planned]]
    /\ UNCHANGED << stage, op, emitted >>

\* A begin the store refused still occupies the object.
BeginRefused(t) ==
    /\ MayBegin(t)
    /\ pending' = [pending EXCEPT ![ObjectOf[t]] =
                     [NoPending EXCEPT !.state = "refused"]]
    /\ UNCHANGED << stage, op, emitted >>

\* Committing a refused begin takes it and does nothing else.
TakeRefused(t) ==
    /\ stage[t] = "idle"
    /\ pending[ObjectOf[t]].state = "refused"
    /\ pending' = [pending EXCEPT ![ObjectOf[t]] = NoPending]
    /\ UNCHANGED << stage, op, emitted >>

Take(t, writes, named) ==
    LET p == pending[ObjectOf[t]] IN
    /\ stage[t] = "idle"
    /\ p.state = "open"
    /\ pending' = [pending EXCEPT ![ObjectOf[t]] = NoPending]
    /\ op' = [op EXCEPT ![t] = [reads |-> p.reads, readTime |-> p.readTime,
                                writes |-> writes, writeTime |-> 0,
                                planned |-> p.planned, named |-> named]]
    /\ stage' = [stage EXCEPT ![t] = "commit"]
    /\ UNCHANGED emitted

CommittedSilently(t, time) ==
    /\ stage[t] = "commit"
    /\ op' = [op EXCEPT ![t] = NoOp]
    /\ stage' = [stage EXCEPT ![t] = "release"]
    /\ UNCHANGED << pending, emitted >>

Committed(t, time) ==
    /\ stage[t] = "commit"
    /\ op' = [op EXCEPT ![t].writeTime = time]
    /\ stage' = [stage EXCEPT ![t] = "emit"]
    /\ UNCHANGED << pending, emitted >>

ConflictEnds(t) ==
    /\ stage[t] = "commit"
    /\ stage' = [stage EXCEPT ![t] = "idle"]
    /\ op' = [op EXCEPT ![t] = NoOp]
    /\ UNCHANGED << pending, emitted >>

\* A conflict leaves nothing to emit, but the holds still go.
Conflict(t) ==
    /\ stage[t] = "commit"
    /\ stage' = [stage EXCEPT ![t] = "release"]
    /\ op' = [op EXCEPT ![t] = NoOp]
    /\ UNCHANGED << pending, emitted >>

\* The tool named at commit, or the planned one when none was named, provided
\* the object can see it.
ToolsUsed(t) ==
    LET chosen == IF op[t].named # NoTool THEN op[t].named ELSE op[t].planned
    IN  {chosen} \cap VisibleTools[ObjectOf[t]]

\* io and co are one list, the writes.
Record(t) ==
    [agent |-> Id(t), reads |-> op[t].reads, readTime |-> op[t].readTime,
     writes |-> op[t].writes, writeTime |-> op[t].writeTime,
     planned |-> op[t].planned, visible |-> VisibleTools[ObjectOf[t]],
     used |-> ToolsUsed(t), io |-> op[t].writes, co |-> op[t].writes]

EmitWritesOnly(t) ==
    /\ stage[t] = "emit"
    /\ emitted' = IF op[t].writes = NoMap THEN emitted
                  ELSE Append(emitted, Record(t))
    /\ stage' = [stage EXCEPT ![t] = "release"]
    /\ op' = [op EXCEPT ![t] = NoOp]
    /\ UNCHANGED pending

Emit(t) ==
    /\ stage[t] = "emit"
    /\ emitted' = Append(emitted, Record(t))
    /\ stage' = [stage EXCEPT ![t] = "release"]
    /\ op' = [op EXCEPT ![t] = NoOp]
    /\ UNCHANGED pending

Released(t) ==
    /\ stage[t] = "release"
    /\ stage' = [stage EXCEPT ![t] = "idle"]
    /\ UNCHANGED << pending, op, emitted >>

-----------------------------------------------------------------------------
\* Pending and taken operations are over the cells C, values V and times T, and
\* the log is a sequence.
AgentTyped(C, V, T) ==
    /\ DOMAIN pending = Object
    /\ DOMAIN stage = Thread
    /\ DOMAIN op = Thread
    /\ \A o \in Object : /\ DOMAIN pending[o].reads \subseteq C
                         /\ pending[o].readTime \in T
    /\ \A t \in Thread : /\ DOMAIN op[t] = DOMAIN NoOp
                         /\ DOMAIN op[t].reads \subseteq C
                         /\ op[t].readTime \in T
                         /\ \E W \in SUBSET C : op[t].writes \in [W -> V]
    /\ emitted \in Seq({emitted[i] : i \in DOMAIN emitted})

\* The records of the operations the store has committed, emitted or about to
\* be, and what the operations not yet committed have read, and when.
Emitted == {emitted[i] : i \in DOMAIN emitted}

Finished == Emitted \cup {Record(t) : t \in {u \in Thread : stage[u] = "emit"}}

Windows ==
    {<< pending[o].reads, pending[o].readTime >> :
        o \in {p \in Object : pending[p].state = "open"}}
    \cup {<< op[t].reads, op[t].readTime >> :
        t \in {u \in Thread : stage[u] = "commit"}}

=============================================================================
