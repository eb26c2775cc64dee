-------------------------------- MODULE L2Live --------------------------------
(****************************************************************************)
(* The live driver of l2-live/src/main.rs: runs of N sessions, each around    *)
(* three model calls of which any can fail, with both arms of module         *)
(* SessionArms and three kinds of files that outlast a run: an outbox of     *)
(* each arm, which is appended to, a file for each session, which is         *)
(* overwritten, and a summary.  A run can die between any two steps (a       *)
(* failed write panics) and be started again with the same --out.  When no   *)
(* run is on, a session can be replayed (module L2Replay): one that a run    *)
(* has filed or, as long as there is none, any record.                       *)
(*                                                                          *)
(* A reply is an effect's text or a verdict; the cells' values, a hash of    *)
(* the replies, are the constants.  Single writes to files are atomic.       *)
(****************************************************************************)
EXTENDS L2Replay

CONSTANTS
    N,              \* --n
    Text,           \* executor replies
    PlanValue,      \* fnv1a(plan) % 900 + 100
    ResultValue,    \* fnv1a(plan + result) % 900 + 1000
    MaxRuns,        \* bound of the model: times the program is started
    MaxCrashes      \* bound of the model: runs that die

\* Cells 1 and 2 are the driver's, and no session comes near a u64's ceiling.
ASSUME LiveAssumption ==
    /\ N \in Nat \ {0} /\ MaxRuns \in Nat /\ MaxCrashes \in Nat
    /\ {1, 2} \subseteq Cell
    /\ PlanValue \cup ResultValue \subseteq Value
    /\ MaxTxn >= 2 /\ MaxTime >= 10

VARIABLES
    pc,         \* what the run does next; "off" when nothing runs
    validator,  \* --validator, or "dry" for --dry-run
    i,          \* session of the run
    tries,      \* failed attempts of the current model call
    result,     \* the executor's reply in the current session
    summary,    \* the counters of the run
    vBox, bBox, \* the outboxes: sequences of [session, effect]
    files,      \* files[k]: the last record written for session k, if any
    runs, crashes,
    kept,       \* history: the effects a supervisor kept, in order
    mark        \* history: outbox lengths when the run began, and sessions
                \* it skipped after the baseline's append

diskVars == << vBox, bBox, files >>
historyVars == << kept, mark, runs, crashes >>
runVars == << pc, validator, i, tries, result, summary >>
liveVars == << replayVars, runVars, diskVars, historyVars >>

NoSession == [planCell |-> 1, resultCell |-> 2, planValue |-> NoValue,
              resultValue |-> NoValue, retracted |-> FALSE]
NoText == "none"

NoSummary == [sessions |-> 0, skipped |-> 0, retracted |-> 0,
              verifiedA3 |-> 0, baselineA3 |-> 0,
              verifiedReleased |-> 0, baselineReleased |-> 0]

NoMark == [v |-> 0, b |-> 0, late |-> 0]

LInit ==
    /\ ArmsInit /\ K!Init
    /\ pc = "off" /\ at = 0 /\ validator = "llm" /\ i = 0 /\ tries = 0
    /\ result = NoText /\ session = NoSession /\ held = FALSE
    /\ summary = NoSummary
    /\ vBox = << >> /\ bBox = << >>
    /\ files = [k \in {} |-> NoSession]
    /\ runs = 0 /\ crashes = 0
    /\ kept = << >> /\ mark = NoMark

\* What the end of a session drops.
DropSession ==
    /\ FreshArms
    /\ session' = NoSession /\ held' = FALSE /\ at' = 0 /\ tries' = 0
    /\ result' = NoText

Start ==
    /\ pc = "off"
    /\ runs < MaxRuns
    /\ runs' = runs + 1
    /\ validator' \in {"llm", "forced", "dry"}
    /\ pc' = "planner" /\ i' = 0 /\ summary' = NoSummary
    /\ mark' = [v |-> Len(vBox), b |-> Len(bBox), late |-> 0]
    /\ UNCHANGED << armVars, at, tries, result, session, held, diskVars, kept,
                    crashes >>

-----------------------------------------------------------------------------
Roles == {"planner", "executor", "supervisor"}

OneSessionMore == pc' = IF i < N THEN "planner" ELSE "summary"

NextSession == pc' = IF i + 1 < N THEN "planner" ELSE "summary"

CanFail == validator = "llm" \/ (validator = "forced" /\ pc # "supervisor")

\* chat makes two attempts; an empty reply counts as a failed one.
AttemptFails ==
    /\ pc \in Roles
    /\ CanFail
    /\ tries = 0
    /\ tries' = 1
    /\ UNCHANGED << armVars, pc, at, validator, i, result, session, held,
                    summary, diskVars, historyVars >>

RestartSession ==
    /\ pc \in Roles
    /\ CanFail
    /\ tries = 1
    /\ DropSession
    /\ pc' = "planner"
    /\ UNCHANGED << validator, i, summary, diskVars, historyVars >>

\* The session is skipped, with whatever it has put into the files.
CallFails ==
    /\ pc \in Roles
    /\ CanFail
    /\ tries = 1
    /\ DropSession
    /\ summary' = [summary EXCEPT !.skipped = @ + 1]
    /\ mark' = IF pc = "supervisor" THEN [mark EXCEPT !.late = @ + 1] ELSE mark
    /\ i' = i + 1
    /\ NextSession
    /\ UNCHANGED << validator, diskVars, kept, runs, crashes >>

Reply(role, step) ==
    /\ pc = role
    /\ tries' = 0
    /\ pc' = step
    /\ UNCHANGED << armVars, at, validator, i, held, summary, diskVars, mark,
                    runs, crashes >>

PlannerReplies ==
    \E v \in PlanValue :
        /\ Reply("planner", "executor")
        /\ session' = [session EXCEPT !.planValue = v]
        /\ UNCHANGED << result, kept >>

ExecutorReplies ==
    \E v \in ResultValue, text \in Text :
        /\ Reply("executor", "verifiedCommits")
        /\ session' = [session EXCEPT !.resultValue = v]
        /\ result' = text
        /\ UNCHANGED kept

Effect == [session |-> i, effect |-> result]

SupervisorReplies ==
    \E retracted \in BOOLEAN :
        /\ Reply("supervisor", "verifiedDecides")
        /\ session' = [session EXCEPT !.retracted = retracted]
        /\ UNCHANGED result
        /\ kept' = IF retracted THEN kept ELSE Append(kept, Effect)

-----------------------------------------------------------------------------
\* The calls of a phase, and what follows it.
Script ==
    CASE pc = "verifiedCommits" -> VerifiedCommits
      [] pc = "baselineCommits" -> BaselineCommits
      [] pc = "verifiedDecides" -> VerifiedDecides(session.retracted)
      [] pc = "baselineDecides" -> BaselineDecides(session.retracted)

NoVerifiedAppend ==
    CASE pc = "verifiedCommits" -> "baselineCommits"
      [] pc = "baselineCommits" -> "baselineBox"
      [] pc = "verifiedDecides" -> "baselineDecides"
      [] pc = "baselineDecides" -> "file"

AfterPhase ==
    CASE pc = "verifiedCommits" -> "baselineCommits"
      [] pc = "baselineCommits" -> "baselineBox"
      [] pc = "verifiedDecides" ->
            IF executor \in externalized THEN "verifiedBox"
                                         ELSE "baselineDecides"
      [] pc = "baselineDecides" -> "file"

VerifiedPhase == {"verifiedCommits", "verifiedDecides"}
BaselinePhase == {"baselineCommits", "baselineDecides"}

ArmCall ==
    /\ pc \in VerifiedPhase \cup BaselinePhase
    /\ at < Len(Script)
    /\ IF pc \in VerifiedPhase THEN Verified(Script[at + 1], session)
                               ELSE Baseline(Script[at + 1], session)
    /\ at' = at + 1
    /\ UNCHANGED << pc, validator, i, tries, result, session, held, summary,
                    diskVars, historyVars >>

PhaseEnds ==
    /\ pc \in VerifiedPhase \cup BaselinePhase
    /\ at = Len(Script)
    /\ held' = IF pc = "verifiedCommits" THEN executor \notin externalized
                                         ELSE held
    /\ pc' = AfterPhase
    /\ at' = 0
    /\ UNCHANGED << armVars, validator, i, tries, result, session, summary,
                    diskVars, historyVars >>

-----------------------------------------------------------------------------
AppendBaseline ==
    /\ pc = "baselineBox"
    /\ bBox' = Append(bBox, Effect)
    /\ pc' = "supervisor"
    /\ UNCHANGED << armVars, at, validator, i, tries, result, session, held,
                    summary, vBox, files, historyVars >>

AppendVerified ==
    /\ pc = "verifiedBox"
    /\ vBox' = Append(vBox, Effect)
    /\ pc' = "baselineDecides"
    /\ UNCHANGED << armVars, at, validator, i, tries, result, session, held,
                    summary, bBox, files, historyVars >>

Ones(b) == IF b THEN 1 ELSE 0

\* run counts the session and writes its file.
FileSession ==
    LET v == VerifiedOutcome
        b == BaselineOutcome
    IN
    /\ pc = "file"
    /\ summary' = [summary EXCEPT
          !.sessions = @ + 1,
          !.retracted = @ + Ones(session.retracted),
          !.verifiedA3 = @ + Ones(v.a3),
          !.baselineA3 = @ + Ones(b.a3),
          !.verifiedReleased = @ + Ones(v.released),
          !.baselineReleased = @ + Ones(b.released)]
    /\ files' = [k \in DOMAIN files \cup {i} |->
          IF k = i
          THEN [session |-> session, result |-> result,
                verified |-> v, baseline |-> b, held |-> held]
          ELSE files[k]]
    /\ DropSession
    /\ i' = i + 1
    /\ NextSession
    /\ UNCHANGED << validator, vBox, bBox, historyVars >>

\* What the end of the process drops.
DropRun ==
    /\ pc' = "off"
    /\ validator' = "llm" /\ i' = 0 /\ summary' = NoSummary
    /\ mark' = NoMark

\* The summary goes to its file and the process ends.
End ==
    /\ pc = "summary"
    /\ DropRun
    /\ UNCHANGED << armVars, at, tries, result, session, held, diskVars, kept,
                    runs, crashes >>

Crash ==
    /\ pc \notin {"off", "replay"}
    /\ crashes < MaxCrashes
    /\ crashes' = crashes + 1
    /\ DropSession /\ DropRun
    /\ UNCHANGED << diskVars, kept, runs >>

RunStep ==
    /\ \/ AttemptFails \/ CallFails
       \/ PlannerReplies \/ ExecutorReplies \/ SupervisorReplies
       \/ ArmCall \/ PhaseEnds
       \/ AppendBaseline \/ AppendVerified \/ FileSession \/ End
    /\ UNCHANGED kVars

-----------------------------------------------------------------------------
Filed == DOMAIN files

Records == IF Filed = {} THEN Session ELSE {files[k].session : k \in Filed}

StartReplay ==
    /\ pc = "off"
    /\ pc' = "replay"
    /\ session' \in Records
    /\ UNCHANGED << armVars, kVars, at, held, validator, i, tries, result,
                    summary, diskVars, historyVars >>

ReplayStep ==
    /\ pc = "replay"
    /\ ReplayCall
    /\ UNCHANGED << runVars, diskVars, historyVars >>

\* What it found is printed, and no file written.
ReplayEnds ==
    /\ pc = "replay" /\ Replayed
    /\ pc' = "off"
    /\ DropSession /\ FreshCascade
    /\ UNCHANGED << validator, i, summary, diskVars, historyVars >>

LNext ==
    \/ Start /\ UNCHANGED kVars
    \/ Crash /\ UNCHANGED kVars
    \/ RunStep
    \/ StartReplay \/ ReplayStep \/ ReplayEnds

\* A model call has timeouts, so a run that is not killed goes on, and a replay
\* does not wait for anything.
LSpec ==
    /\ LInit /\ [][LNext]_liveVars
    /\ WF_liveVars(RunStep) /\ WF_liveVars(ReplayStep) /\ WF_liveVars(ReplayEnds)

-----------------------------------------------------------------------------
Entries(box) == {box[k] : k \in DOMAIN box}

\* s arises from the first n elements of t by leaving some out.
WithinFirst(n, s, t) ==
    \E f \in [DOMAIN s -> 1 .. n] :
        \A k \in DOMAIN s : /\ s[k] = t[f[k]]
                            /\ \A m \in 1 .. k - 1 : f[m] < f[k]

SubsequenceOf(s, t) == WithinFirst(Len(t), s, t)

\* No assertion of the arms fails.  What a session file says has gone out is in
\* the arm's outbox, whatever crashes and further runs have overwritten and
\* appended, and the file tells what a replay of the session comes to.
FilesBackedByOutboxes ==
    /\ ~ failed
    /\ \A k \in Filed :
          LET f == files[k]
              e == [session |-> k, effect |-> f.result]
          IN  /\ f.verified = PromisedVerified(f.session.retracted) /\ f.held
              /\ f.baseline = PromisedBaseline(f.session.retracted)
              /\ e \in Entries(bBox)
              /\ f.verified.released => e \in Entries(vBox)

\* Only what a supervisor kept is in the verified outbox, each time once, and
\* nothing is in it that has not left the baseline before.
OnlyKeptLeaves == SubsequenceOf(vBox, kept) /\ SubsequenceOf(vBox, bBox)

\* A run that comes to its summary has accounted for every session, and for
\* every line of this run in the outboxes: in the baseline's there is one more
\* for each session skipped at its supervisor.
SummaryAddsUp ==
    pc = "summary" =>
        /\ summary.sessions + summary.skipped = N
        /\ summary.verifiedA3 = 0
        /\ summary.baselineA3 = summary.retracted
        /\ summary.verifiedReleased = summary.sessions - summary.retracted
        /\ summary.verifiedReleased = Len(vBox) - mark.v
        /\ summary.baselineReleased = summary.sessions
        /\ summary.baselineReleased = Len(bBox) - mark.b - mark.late

\* Whatever the replayed record holds, the replay's assertions hold, the three
\* arms come to what the session's design says, and where a run filed that
\* session, to what the run saw.
ReplayComesOut ==
    pc = "replay" /\ Replayed =>
        /\ AsDesigned
        /\ \A k \in Filed : files[k].session = session =>
              /\ files[k].verified = VerifiedOutcome
              /\ files[k].baseline = BaselineOutcome

\* A run ends, whatever fails, and so does a replay.
EveryRunEnds == pc # "off" ~> pc = "off"

-----------------------------------------------------------------------------
\* Session i is under way, and its plan, the result of its executor.
InSession == pc \notin {"off", "summary", "replay"}
Planned == pc \notin {"off", "summary", "planner"}
Resulted == Planned /\ pc # "executor"

BaselineOut ==
    pc \in {"supervisor", "verifiedDecides", "verifiedBox", "baselineDecides",
            "file"}
VerifiedOut == pc \in {"baselineDecides", "file"} /\ ~ session.retracted

Entry == [session : Nat, effect : Text]
Counters == [sessions : Nat, skipped : Nat, retracted : Nat,
             verifiedA3 : Nat, baselineA3 : Nat,
             verifiedReleased : Nat, baselineReleased : Nat]
Marks == [v : Nat, b : Nat, late : Nat]

LiveTypeOK ==
    /\ pc \in Roles \cup VerifiedPhase \cup BaselinePhase \cup
              {"off", "baselineBox", "verifiedBox", "file", "summary", "replay"}
    /\ i \in Nat /\ (InSession => i < N) /\ (pc = "summary" => i = N)
    /\ at \in Nat
    /\ pc \in VerifiedPhase \cup BaselinePhase => at <= Len(Script)
    /\ pc = "replay" => at <= AfterCascade
    /\ pc \notin VerifiedPhase \cup BaselinePhase \cup {"replay"} => at = 0
    /\ session \in [planCell : Cell, resultCell : Cell,
                    planValue : Value \cup {NoValue},
                    resultValue : Value \cup {NoValue}, retracted : BOOLEAN]
    /\ Planned => session.planValue \in Value
    /\ Resulted => session.resultValue \in Value
    /\ Resulted /\ pc # "replay" => result \in Text
    /\ vBox \in Seq(Entry) /\ bBox \in Seq(Entry) /\ kept \in Seq(Entry)
    /\ summary \in Counters /\ mark \in Marks
    /\ \A k \in Filed : files[k].session \in Session

\* Where each arm is in its script.
VerifiedPlace ==
    CASE pc = "verifiedCommits" -> at
      [] pc \in {"baselineCommits", "baselineBox", "supervisor"} -> 8
      [] pc = "verifiedDecides" -> 8 + at
      [] pc \in {"verifiedBox", "baselineDecides", "file"} -> 10
      [] pc = "replay" -> IF at <= 10 THEN at ELSE 10
      [] OTHER -> 0

BaselinePlace ==
    CASE pc = "baselineCommits" -> at
      [] pc \in {"baselineBox", "supervisor", "verifiedDecides", "verifiedBox"} -> 5
      [] pc = "baselineDecides" -> 5 + at
      [] pc = "file" -> 5 + Ones(session.retracted)
      [] pc = "replay" -> IF at <= 10 THEN 0
                          ELSE IF at <= AfterUnguarded THEN at - 10
                          ELSE 5 + Ones(session.retracted)
      [] OTHER -> 0

CascadePlace ==
    IF pc = "replay" /\ at > AfterUnguarded THEN at - AfterUnguarded ELSE 0

ArmsInPlace ==
    /\ ~ failed
    /\ VerifiedAt(VerifiedPlace, session)
    /\ StoreAt(uTxns, uValue, uWriter, BaselinePlace, session, FALSE)
    /\ StoreAt(kTxns, kValue, kWriter, CascadePlace, session, TRUE)
    /\ InSession /\ VerifiedPlace >= 8 /\ pc # "verifiedCommits" => held
    /\ pc = "replay" /\ at >= 8 => held

\* The box has the session's effect as its last entry, which is not in the
\* verified outbox yet.
Awaits(box) ==
    /\ Len(box) > 0
    /\ box[Len(box)] = Effect
    /\ WithinFirst(Len(box) - 1, vBox, box)

BoxesInOrder ==
    /\ OnlyKeptLeaves
    /\ pc \in {"supervisor", "verifiedDecides", "verifiedBox"} => Awaits(bBox)
    /\ pc \in {"verifiedDecides", "verifiedBox"} /\ ~ session.retracted =>
          Awaits(kept)
    /\ pc = "verifiedBox" => ~ session.retracted
    /\ BaselineOut => Effect \in Entries(bBox)
    /\ VerifiedOut => Effect \in Entries(vBox)

\* SummaryAddsUp while the run goes on.
CountsInPlace ==
    pc \notin {"off", "replay"} =>
        /\ summary.sessions + summary.skipped = i
        /\ summary.verifiedA3 = 0
        /\ summary.baselineA3 = summary.retracted
        /\ summary.verifiedReleased = summary.sessions - summary.retracted
        /\ summary.baselineReleased = summary.sessions
        /\ Len(vBox) - mark.v = summary.verifiedReleased + Ones(VerifiedOut)
        /\ Len(bBox) - mark.b - mark.late
               = summary.baselineReleased + Ones(BaselineOut)

\* The invariant of runs and replays, inductive together with L2Inv.
LiveInv ==
    /\ LiveTypeOK /\ ArmsInPlace /\ BoxesInOrder /\ CountsInPlace
    /\ FilesBackedByOutboxes

=============================================================================
