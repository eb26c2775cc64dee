------------------------------- MODULE L2Replay -------------------------------
(****************************************************************************)
(* The replay of a recorded session (src/l2_replay_lib.rs) on the verified   *)
(* runtime, the unguarded store and the superseded cascading store, one      *)
(* after the other.  A record is whatever parses: any cells, the same one    *)
(* for plan and result included, and any values.  Module L2Live says which   *)
(* records there are and when they are replayed.                             *)
(****************************************************************************)
EXTENDS SessionArms

VARIABLES
    session,    \* the record replayed
    at,         \* calls made
    held        \* the executor was not released before the verdict

replayVars == << armVars, kVars, session, at, held >>

Session == [planCell : Cell, resultCell : Cell,
            planValue : Value, resultValue : Value, retracted : BOOLEAN]

FreshCascade ==
    /\ kTxns' = U!NoWrites
    /\ kValue' = [c \in Cell |-> NoValue]
    /\ kWriter' = [c \in Cell |-> NoTxn]

VerifiedScript == VerifiedCommits \o VerifiedDecides(session.retracted)
BaselineScript == BaselineCommits \o BaselineDecides(session.retracted)

AfterVerified == Len(VerifiedScript)
AfterUnguarded == AfterVerified + Len(BaselineScript)
AfterCascade == AfterUnguarded + Len(BaselineScript)

\* The executor's first request is asserted to be refused.
ReplayVerified ==
    /\ at < AfterVerified
    /\ Verified(VerifiedScript[at + 1], session)
    /\ held' = IF at + 1 = Len(VerifiedCommits)
                    THEN executor \notin externalized' ELSE held
    /\ at' = at + 1
    /\ UNCHANGED << kVars, session >>

ReplayUnguarded ==
    /\ at \in AfterVerified .. AfterUnguarded - 1
    /\ Baseline(BaselineScript[at - AfterVerified + 1], session)
    /\ at' = at + 1
    /\ UNCHANGED << kVars, session, held >>

CascadeCall(call) ==
    \/ call = "begin" /\ K!Begin
    \/ /\ call = "commitPlan"
       /\ K!Commit(planner, [c \in {session.planCell} |-> session.planValue])
    \/ call = "readPlan" /\ K!Read(executor, session.planCell)
    \/ /\ call = "commitResult"
       /\ K!Commit(executor, [c \in {session.resultCell} |-> session.resultValue])
    \/ call = "abortPlan" /\ K!Abort(planner)

ReplayCascade ==
    /\ at \in AfterUnguarded .. AfterCascade - 1
    /\ CascadeCall(BaselineScript[at - AfterUnguarded + 1])
    /\ at' = at + 1
    /\ UNCHANGED << armVars, session, held >>

ReplayCall == ReplayVerified \/ ReplayUnguarded \/ ReplayCascade

Replayed == at = AfterCascade

\* What the session's design says the three arms come to: only the verified
\* arm keeps the effect of a retracted plan in, and the superseded one hides it
\* from the overruled predicate but not from the current one.
AsDesigned ==
    /\ ~ failed /\ held
    /\ VerifiedOutcome = PromisedVerified(session.retracted)
    /\ BaselineOutcome = PromisedBaseline(session.retracted)
    /\ A3(kTxns) = session.retracted
    /\ ~ A3Unpropagated(kTxns)
    /\ kTxns[executor].externalized

=============================================================================
