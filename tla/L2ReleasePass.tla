----------------------------- MODULE L2ReleasePass -----------------------------
(****************************************************************************)
(* release_pass (src/l2_measure.rs) on a runtime that is used in any way the  *)
(* API permits, and not only by the measurement's own schedules.  A pass has  *)
(* the runtime to itself (&mut) and asks, in id order, for the release of     *)
(* every held transaction except the one under review; all other calls fall   *)
(* between passes.                                                            *)
(****************************************************************************)
EXTENDS L2Runtime, FiniteSets

VARIABLES
    cursor,     \* next id of the pass; NoTxn between passes
    exempt,     \* transaction under review, or NoTxn
    passes      \* history: complete passes with nothing under review since the
                \* last other call, up to MaxTxn

passVars == << cursor, exempt, passes >>

RPInit ==
    /\ Init
    /\ cursor = NoTxn /\ exempt = NoTxn
    /\ passes = 0

\* Begins, reads, commits and aborts of the runtime's users, and releases that
\* they ask for themselves.
OtherCall ==
    /\ cursor = NoTxn
    /\ Next
    /\ passes' = 0
    /\ UNCHANGED << cursor, exempt >>

StartPass(r) ==
    /\ cursor = NoTxn
    /\ cursor' = 0
    /\ exempt' = r
    /\ UNCHANGED << vars, passes >>

AsksEveryone(t) == t \in committed \ (aborted \cup externalized)

Asks(t) == t # exempt /\ t \in committed \ (aborted \cup externalized)

StopAtRefusal ==
    /\ cursor \in Known
    /\ IF Asks(cursor)
       THEN IF ExternalizeValid(cursor) /\ now < MaxTime
            THEN Externalize(cursor) /\ cursor' = cursor + 1
            ELSE UNCHANGED vars /\ cursor' = nextTxn
       ELSE UNCHANGED vars /\ cursor' = cursor + 1
    /\ UNCHANGED << exempt, passes >>

\* A refused transaction stays held and the pass goes on.
Ask ==
    /\ cursor \in Known
    /\ IF Asks(cursor) /\ ExternalizeValid(cursor) /\ now < MaxTime
       THEN Externalize(cursor) ELSE UNCHANGED vars
    /\ cursor' = cursor + 1
    /\ UNCHANGED << exempt, passes >>

LastIdLeftOut == cursor >= 0 /\ cursor + 1 >= nextTxn

AllAsked == cursor = nextTxn

EndPass ==
    /\ AllAsked
    /\ cursor' = NoTxn
    /\ exempt' = NoTxn
    /\ passes' = IF exempt # NoTxn THEN 0
                 ELSE IF passes < MaxTxn THEN passes + 1 ELSE passes
    /\ UNCHANGED vars

PassStep == Ask \/ EndPass

RPNext ==
    \/ OtherCall
    \/ \E r \in committed \cup {NoTxn} : StartPass(r)
    \/ PassStep

RPSpec == RPInit /\ [][RPNext]_<< vars, passVars >>

\* A pass that has begun is finished, and reviews end: again and again a pass
\* exempts nothing, as the last pass of a scenario does.
FairRPSpec ==
    /\ RPSpec
    /\ WF_<< vars, passVars >>(PassStep)
    /\ SF_<< vars, passVars >>(StartPass(NoTxn))

-----------------------------------------------------------------------------
Held == committed \ (aborted \cup externalized)

\* Ids in causal order, as release_pass expects them.
IdsAreCausal == \A t \in committed : \A p \in preds[t] : p < t

\* One pass is enough for ids in causal order: what it leaves held rests on the
\* transaction under review, or is it.
OnePassForCausalIds ==
    AllAsked /\ IdsAreCausal /\ now < MaxTime =>
        Held = {t \in Held : exempt \in {t} \cup preds[t]}

\* In any order of ids, a transaction that n passes in a row leave held rests
\* on at least n others: a chain of reads against the ids costs one pass a
\* link, and no more.
HeldRestsOnMany ==
    now < MaxTime => \A t \in Held : Cardinality(preds[t]) >= passes

\* What the pass has asked for so far and left held, for the two above.
AskedRestOnReviewed ==
    now < MaxTime /\ IdsAreCausal =>
        \A t \in Held : t < cursor => exempt \in {t} \cup preds[t]

AskedRestOnMore ==
    now < MaxTime /\ exempt = NoTxn =>
        \A t \in Held : t < cursor => Cardinality(preds[t]) >= passes + 1

PassTypeOK ==
    /\ cursor \in 0 .. nextTxn \cup {NoTxn}
    /\ exempt \in committed \cup {NoTxn}
    /\ passes \in 0 .. MaxTxn

\* The invariant of the passes, inductive together with L2Inv.
PassInv ==
    /\ PassTypeOK
    /\ AskedRestOnReviewed
    /\ HeldRestsOnMany
    /\ AskedRestOnMore

\* A transaction under review is not released by the passes made meanwhile,
\* and neither is what rests on it.
ReviewedStaysIn ==
    [][cursor # NoTxn /\ exempt \in Held =>
          \A t \in externalized' \ externalized : exempt \notin {t} \cup preds[t]]_vars

=============================================================================
