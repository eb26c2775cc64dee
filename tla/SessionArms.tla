----------------------------- MODULE SessionArms ------------------------------
(****************************************************************************)
(* The session that src/l2_replay_lib.rs and l2-live/src/main.rs run on the  *)
(* verified runtime (module L2Runtime) and on the unguarded baseline (module *)
(* ReleaseAtCommit): a planner commits a plan, an executor reads it and      *)
(* commits a result, a supervisor's verdict retracts or keeps the plan.      *)
(*                                                                          *)
(* Each arm is a list of calls; a module that extends this one keeps the     *)
(* position in it.  A refused call other than a release fails an assertion,  *)
(* or makes the replay give the arm up: failed says that it has happened.    *)
(****************************************************************************)
EXTENDS ReleaseArms

VARIABLE
    failed      \* a call the session needs was refused

armVars == << vars, uVars, failed >>

ArmsInit == Init /\ U!Init /\ failed = FALSE

\* Every session has a runtime and a store of its own.
FreshArms ==
    /\ now' = 0 /\ nextTxn' = 0
    /\ committed' = {} /\ aborted' = {} /\ externalized' = {}
    /\ writes' = [t \in Txn |-> [c \in Cell |-> NoValue]]
    /\ readValue' = writes'
    /\ readFrom' = [t \in Txn |-> [c \in Cell |-> NoTxn]]
    /\ preds' = [t \in Txn |-> {}]
    /\ cellValue' = [c \in Cell |-> NoValue]
    /\ cellWriter' = [c \in Cell |-> NoTxn]
    /\ uTxns' = U!NoWrites /\ uValue' = cellValue' /\ uWriter' = cellWriter'
    /\ UNCHANGED failed

\* The transactions of a session, by the order of their begins.
planner == 0
executor == 1

-----------------------------------------------------------------------------
VerifiedCommits == << "begin", "writePlan", "commitPlan",
                      "begin", "readPlan", "writeResult", "commitResult",
                      "askRelease" >>

VerifiedDecides(retracted) ==
    << IF retracted THEN "abortPlan" ELSE "releasePlan", "askRelease" >>

VerifiedCall(call, s) ==
    \/ call = "begin" /\ Begin
    \/ call = "writePlan" /\ Write(planner, s.planCell, s.planValue)
    \/ call = "commitPlan" /\ Commit(planner)
    \/ call = "readPlan" /\ Read(executor, s.planCell)
    \/ call = "writeResult" /\ Write(executor, s.resultCell, s.resultValue)
    \/ call = "commitResult" /\ Commit(executor)
    \/ call = "askRelease" /\ Externalize(executor)
    \/ call = "abortPlan" /\ Abort(planner)
    \/ call = "releasePlan" /\ Externalize(planner)

\* When the call is accepted, which at the clock's ceiling none is.
VerifiedAccepts(call, s) ==
    /\ now < MaxTime
    /\ call = "begin" => nextTxn < MaxTxn
    /\ call = "writePlan" => Open(planner)
    /\ call = "commitPlan" => CommitValid(planner)
    /\ call = "readPlan" => Open(executor) /\ cellValue[s.planCell] # NoValue
    /\ call = "writeResult" => Open(executor)
    /\ call = "commitResult" => CommitValid(executor)
    /\ call = "askRelease" => ExternalizeValid(executor)
    /\ call = "abortPlan" => AbortValid(planner)
    /\ call = "releasePlan" => ExternalizeValid(planner)

Verified(call, s) ==
    /\ IF VerifiedAccepts(call, s)
       THEN VerifiedCall(call, s) /\ UNCHANGED failed
       ELSE UNCHANGED vars /\ failed' = (failed \/ call # "askRelease")
    /\ UNCHANGED uVars

BaselineCommits ==
    << "begin", "commitPlan", "begin", "readPlan", "commitResult" >>

BaselineDecides(retracted) == IF retracted THEN << "abortPlan" >> ELSE << >>

BaselineCall(call, s) ==
    \/ call = "begin" /\ U!Begin
    \/ /\ call = "commitPlan"
       /\ U!Commit(planner, [c \in {s.planCell} |-> s.planValue])
    \/ call = "readPlan" /\ U!Read(executor, s.planCell)
    \/ /\ call = "commitResult"
       /\ U!Commit(executor, [c \in {s.resultCell} |-> s.resultValue])
    \/ call = "abortPlan" /\ U!Abort(planner)

BaselineAccepts(call) ==
    /\ call = "commitPlan" => U!CommitValid(planner)
    /\ call = "commitResult" => U!CommitValid(executor)

Baseline(call, s) ==
    /\ IF BaselineAccepts(call)
       THEN BaselineCall(call, s) /\ UNCHANGED failed
       ELSE UNCHANGED uVars /\ failed' = TRUE
    /\ UNCHANGED vars

-----------------------------------------------------------------------------
VerifiedOutcome == [a3 |-> A3(VTrace), released |-> executor \in externalized]

BaselineOutcome == [a3 |-> A3(uTxns), released |-> uTxns[executor].externalized]

\* What a session is to come to, whoever runs it: the verified arm releases
\* what was kept and nothing else, the baseline has released everything.
PromisedVerified(retracted) == [a3 |-> FALSE, released |-> ~ retracted]
PromisedBaseline(retracted) == [a3 |-> retracted, released |-> TRUE]

-----------------------------------------------------------------------------
\* The runtime after k calls of session s.
VerifiedAt(k, s) ==
    /\ now <= k
    /\ nextTxn = IF k = 0 THEN 0 ELSE IF k < 4 THEN 1 ELSE 2
    /\ committed = IF k < 3 THEN {} ELSE IF k < 7 THEN {planner}
                                                ELSE {planner, executor}
    /\ aborted = IF k > 8 /\ s.retracted THEN {planner, executor} ELSE {}
    /\ externalized = IF k <= 8 \/ s.retracted THEN {}
                      ELSE IF k = 9 THEN {planner} ELSE {planner, executor}
    /\ preds[planner] = {} /\ ReadSet(planner) = {}
    /\ preds[executor] = IF k < 5 THEN {} ELSE {planner}
    /\ ReadSet(executor) = IF k < 5 THEN {} ELSE {s.planCell}
    /\ k >= 2 => writes[planner][s.planCell] = s.planValue
    /\ k \in 3 .. 6 => /\ cellValue[s.planCell] = s.planValue
                       /\ cellWriter[s.planCell] = planner
    /\ k \in 5 .. 6 => readValue[executor][s.planCell] = s.planValue

\* A store that releases at commit, after k calls of session s.
BegunAt(k) == IF k = 0 THEN {} ELSE IF k < 3 THEN {planner}
                                              ELSE {planner, executor}

SessionRecord ==
    [committed : BOOLEAN, aborted : BOOLEAN, externalized : BOOLEAN,
     readCells : SUBSET Cell, readValue : [Cell -> Value \cup {NoValue}],
     preds : SUBSET {planner}]

StoreAt(store, value, writer, k, s, cascades) ==
    LET CommittedAt(t) == k >= IF t = planner THEN 2 ELSE 5
        HasRead(t) == t = executor /\ k >= 4
    IN
    /\ store \in [BegunAt(k) -> SessionRecord]
    /\ \A t \in BegunAt(k) :
          /\ store[t].committed <=> CommittedAt(t)
          /\ store[t].externalized <=> CommittedAt(t)
          /\ store[t].aborted <=> k >= 6 /\ (t = planner \/ cascades)
          /\ store[t].readCells = IF HasRead(t) THEN {s.planCell} ELSE {}
          /\ store[t].preds = IF HasRead(t) THEN {planner} ELSE {}
          /\ HasRead(t) => store[t].readValue[s.planCell] = s.planValue
    /\ value \in [Cell -> Value \cup {NoValue}]
    /\ writer \in [Cell -> {planner, executor, NoTxn}]
    /\ k \in 2 .. 4 => /\ value[s.planCell] = s.planValue
                       /\ writer[s.planCell] = planner

=============================================================================
