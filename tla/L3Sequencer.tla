----------------------------- MODULE L3Sequencer ------------------------------
(****************************************************************************)
(* The two sinks of src/l3_sequencer.rs for the effects 0, 1, ... of one     *)
(* agent: the unsequenced one, which takes an effect as it completes, and    *)
(* the sequencer, which holds it until every earlier effect has completed.   *)
(*                                                                          *)
(* run_once feeds both sinks a random permutation of effects that are all    *)
(* issued.  Module L3Probe completes them from the threads of a session,     *)
(* also before later ones are issued; nothing here asks whether a completed  *)
(* effect was issued, or is completed twice.                                 *)
(****************************************************************************)
EXTENDS Integers, Sequences, FiniteSets

CONSTANT Width      \* effects of a session

ASSUME L3Assumption == Width \in Nat

Effect == 0 .. Width - 1

VARIABLES
    issued,     \* effects dispatched so far, always 0 .. issued - 1
    co,         \* the unsequenced sink: effects in completion order
    completed,  \* the sequencer's completed flags, as a set
    emitted     \* the sequencer's sink

l3Vars == << issued, co, completed, emitted >>

Init ==
    /\ issued = 0
    /\ co = << >>
    /\ completed = {}
    /\ emitted = << >>

\* The agent's loop reaches its next step.
Issue ==
    /\ issued < Width
    /\ issued' = issued + 1
    /\ UNCHANGED << co, completed, emitted >>

ReadyOneOnly(done, from) == IF from \in done THEN from + 1 ELSE from

\* The first effect at or after from that is not completed.
Ready(done, from) ==
    CHOOSE n \in from .. Width :
        /\ \A e \in from .. n - 1 : e \in done
        /\ n = Width \/ n \notin done

\* Completing an effect releases it and the completed ones it was blocking.
Complete(e) ==
    /\ co' = Append(co, e)
    /\ completed' = completed \cup {e}
    /\ LET next == Len(emitted) IN
         emitted' = emitted \o
            [i \in 1 .. Ready(completed', next) - next |-> next + i - 1]
    /\ UNCHANGED issued

-----------------------------------------------------------------------------
IssueOrder == [i \in 1 .. Width |-> i - 1]

\* a6_witness
A6Witness(io, out) == Len(io) >= 2 /\ Len(io) = Len(out) /\ io # out

\* The pairs inversions counts.
Inversions(out) ==
    {p \in (DOMAIN out) \X (DOMAIN out) : p[1] < p[2] /\ out[p[1]] > out[p[2]]}

\* Both sinks hold effects that were issued, each once.
TypeOK ==
    /\ issued \in 0 .. Width
    /\ completed \subseteq 0 .. issued - 1
    /\ co \in Seq(completed) /\ Len(co) = Cardinality(completed)
    /\ emitted \in Seq(Effect)

\* The sequencer's sink is the issue order as far as the effects have
\* completed without a gap: nothing early, nothing held back needlessly.
EmittedIsReadyPrefix ==
    /\ \A i \in DOMAIN emitted : emitted[i] = i - 1 /\ emitted[i] \in completed
    /\ Len(emitted) = Width \/ Len(emitted) \notin completed

\* The type and the sequencer's invariant together.
L3Inv == TypeOK /\ EmittedIsReadyPrefix

=============================================================================
