-------------------------------- MODULE L3Probe --------------------------------
(****************************************************************************)
(* One session of l3-probe/src/main.rs: an agent's loop dispatches effects    *)
(* 0, 1, ..., each to a thread of its own; a thread makes a provider call,    *)
(* reads the clock, pushes its effect to co under one lock and its times to   *)
(* timings under another, and the loop's end joins them all.  The sinks of    *)
(* module L3Sequencer are fed by the pushes.                                  *)
(*                                                                           *)
(* A provider call ends after two attempts at most, with a reply or without;  *)
(* nobody looks at which.                                                     *)
(****************************************************************************)
EXTENDS L3Sequencer

CONSTANT MaxClock   \* bound of the model: milliseconds a session takes

ASSUME ProbeAssumption == Width \in Nat \ {0, 1} /\ MaxClock \in Nat

VARIABLES
    clock,
    joined,     \* threads joined so far
    stage,      \* stage[k]: where effect k's thread is
    dispatchAt, completeAt,     \* dispatch_ms and complete_ms
    timings,
    outcome     \* "running", then "scored" or "skipped"

probeVars == << l3Vars, clock, joined, stage, dispatchAt, completeAt, timings,
                outcome >>

PInit ==
    /\ Init
    /\ clock = 0 /\ joined = 0
    /\ stage = [k \in Effect |-> "none"]
    /\ dispatchAt = [k \in Effect |-> 0]
    /\ completeAt = [k \in Effect |-> 0]
    /\ timings = << >>
    /\ outcome = "running"

Pass ==
    /\ clock < MaxClock
    /\ clock' = clock + 1
    /\ UNCHANGED << l3Vars, joined, stage, dispatchAt, completeAt, timings, outcome >>

\* The agent's call that leads to the next step has returned.
Dispatch ==
    /\ Issue
    /\ dispatchAt' = [dispatchAt EXCEPT ![issued] = clock]
    /\ stage' = [stage EXCEPT ![issued] = "call"]
    /\ UNCHANGED << clock, joined, completeAt, timings, outcome >>

-----------------------------------------------------------------------------
FailedCallEnds(k) ==
    /\ stage[k] = "call"
    /\ \E next \in {"push", "done"} : stage' = [stage EXCEPT ![k] = next]
    /\ completeAt' = [completeAt EXCEPT ![k] = clock]
    /\ UNCHANGED << l3Vars, clock, joined, dispatchAt, timings, outcome >>

\* The effect's call has returned; one without a reply counts all the same.
Return(k) ==
    /\ stage[k] = "call"
    /\ stage' = [stage EXCEPT ![k] = "push"]
    /\ completeAt' = [completeAt EXCEPT ![k] = clock]
    /\ UNCHANGED << l3Vars, clock, joined, dispatchAt, timings, outcome >>

\* A panic in the call ends the thread.
Die(k) ==
    /\ stage[k] = "call"
    /\ stage' = [stage EXCEPT ![k] = "dead"]
    /\ UNCHANGED << l3Vars, clock, joined, dispatchAt, completeAt, timings, outcome >>

Push(k) ==
    /\ stage[k] = "push"
    /\ Complete(k)
    /\ stage' = [stage EXCEPT ![k] = "log"]
    /\ UNCHANGED << clock, joined, dispatchAt, completeAt, timings, outcome >>

Log(k) ==
    /\ stage[k] = "log"
    /\ timings' = Append(timings, [step |-> k, dispatch |-> dispatchAt[k],
                                   complete |-> completeAt[k]])
    /\ stage' = [stage EXCEPT ![k] = "done"]
    /\ UNCHANGED << l3Vars, clock, joined, dispatchAt, completeAt, outcome >>

-----------------------------------------------------------------------------
JoinWhenPushed ==
    /\ issued = Width
    /\ joined < Width
    /\ stage[joined] \in {"log", "done", "dead"}
    /\ joined' = joined + 1
    /\ UNCHANGED << l3Vars, clock, stage, dispatchAt, completeAt, timings, outcome >>

\* join returns when a thread has ended, by a panic too.
Join ==
    /\ issued = Width
    /\ joined < Width
    /\ stage[joined] \in {"done", "dead"}
    /\ joined' = joined + 1
    /\ UNCHANGED << l3Vars, clock, stage, dispatchAt, completeAt, timings, outcome >>

\* A stable sort by complete_ms.
Sorted(ts) ==
    LET Before(a, b) == \/ ts[a].complete < ts[b].complete
                        \/ ts[a].complete = ts[b].complete /\ a < b
        place == [a \in DOMAIN ts |->
                    1 + Cardinality({b \in DOMAIN ts : Before(b, a)})]
    IN  [n \in DOMAIN ts |-> ts[CHOOSE a \in DOMAIN ts : place[a] = n]]

\* A session that is short of an effect is not scored.
Collect ==
    /\ outcome = "running"
    /\ joined = Width
    /\ timings' = Sorted(timings)
    /\ outcome' = IF Len(co) # Width THEN "skipped" ELSE "scored"
    /\ UNCHANGED << l3Vars, clock, joined, stage, dispatchAt, completeAt >>

EffectStep(k) == Return(k) \/ Push(k) \/ Log(k)

AgentStep == Dispatch \/ Join \/ Collect

PNext ==
    \/ Pass
    \/ AgentStep
    \/ \E k \in Effect : EffectStep(k) \/ Die(k)

\* Calls have timeouts and return; threads and the loop are scheduled.
PSpec ==
    /\ PInit /\ [][PNext]_probeVars
    /\ WF_probeVars(AgentStep)
    /\ \A k \in Effect : WF_probeVars(EffectStep(k))

-----------------------------------------------------------------------------
\* A scored session has every effect in both lists, whether its call got a
\* reply or not, and the sequencer has let all of them out; the printed list is
\* in completion order although the pushes need not be, its steps were
\* dispatched in theirs, and no latency in it is negative.  The sink is an A6
\* witness just when an inversion is counted in it.
ScoredSessionIsWhole ==
    outcome = "scored" =>
        /\ emitted = IssueOrder
        /\ A6Witness(IssueOrder, co) <=> Inversions(co) # {}
        /\ {timings[n].step : n \in DOMAIN timings} = Effect
        /\ Len(timings) = Width
        /\ \A m, n \in DOMAIN timings :
              /\ timings[n].dispatch <= timings[n].complete
              /\ m < n => timings[m].complete <= timings[n].complete
              /\ timings[m].step < timings[n].step =>
                    timings[m].dispatch <= timings[n].dispatch

\* What the threads have pushed, logged and timed, and whom the loop has joined.
StagesMatch ==
    /\ stage \in [Effect -> {"none", "call", "push", "log", "done", "dead"}]
    /\ \A k \in Effect : stage[k] = "none" <=> k >= issued
    /\ completed = {k \in Effect : stage[k] \in {"log", "done"}}
    /\ \A i, j \in DOMAIN co : co[i] = co[j] => i = j

TimesInOrder ==
    /\ clock \in 0 .. MaxClock
    /\ dispatchAt \in [Effect -> 0 .. MaxClock]
    /\ completeAt \in [Effect -> 0 .. MaxClock]
    /\ \A k \in Effect : k < issued =>
          /\ dispatchAt[k] <= clock
          /\ \A j \in Effect : j < k => dispatchAt[j] <= dispatchAt[k]
          /\ stage[k] \in {"push", "log", "done"} => dispatchAt[k] <= completeAt[k]

Timing == [step : Effect, dispatch : 0 .. MaxClock, complete : 0 .. MaxClock]

TimingsMatch ==
    /\ timings \in Seq(Timing)
    /\ \A n \in DOMAIN timings :
          LET r == timings[n] IN
          /\ stage[r.step] = "done"
          /\ r.dispatch = dispatchAt[r.step]
          /\ r.complete = completeAt[r.step]
          /\ \A m \in DOMAIN timings : timings[m].step = r.step => m = n
    /\ \A k \in Effect :
          stage[k] = "done" => \E n \in DOMAIN timings : timings[n].step = k

JoinedEnded ==
    /\ joined \in 0 .. Width
    /\ joined > 0 => issued = Width
    /\ \A k \in Effect : k < joined => stage[k] \in {"done", "dead"}
    /\ outcome \in {"running", "scored", "skipped"}
    /\ outcome # "running" => joined = Width
    /\ outcome = "scored" =>
          /\ Len(co) = Width
          /\ \A m, n \in DOMAIN timings :
                m < n => timings[m].complete <= timings[n].complete

\* The invariant of a session, inductive as a whole.
ProbeInv ==
    /\ L3Inv
    /\ StagesMatch
    /\ TimesInOrder
    /\ TimingsMatch
    /\ JoinedEnded

\* Every session ends, and is skipped only when one of its threads panicked: a
\* call that fails neither blocks a session nor takes it out of the figures.
SessionEnds ==
    <>(outcome = IF \E k \in Effect : stage[k] = "dead" THEN "skipped" ELSE "scored")

=============================================================================
