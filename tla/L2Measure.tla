------------------------------- MODULE L2Measure -------------------------------
(****************************************************************************)
(* The measurement driver of src/l2_measure.rs: one scenario on three arms   *)
(* in lockstep -- the verified runtime (run_guarded, module L2Runtime) and    *)
(* the two stores that release at commit (run_release_at_commit).  Each arm   *)
(* keeps the driver's locals of its own, so that whether the arms do run one  *)
(* schedule is a property and not a premise.                                 *)
(*                                                                          *)
(* A scenario is a root transaction and a chain of transactions that read    *)
(* what the last one committed, with rivals that overwrite it, then a review. *)
(* Of the seed, the shape it determines is kept, and not the values written.  *)
(****************************************************************************)
EXTENDS ReleaseArms

CONSTANTS
    Depth,
    MaxSeed     \* the scenarios are those of the seeds below it

ASSUME MeasureAssumption == Depth \in Nat \ {0} /\ MaxSeed \in Nat

\* Numbers the driver uses are cells and values.
ASSUME DriverAssumption ==
    /\ 0 .. Depth + 2 \subseteq Cell
    /\ 40 \in Value
    /\ \A k \in 1 .. Depth + 2 : 69 + k \in Value /\ 899 + k \in Value

VARIABLES
    shape,          \* of the scenario
    phase,          \* next call of the driver
    link,           \* position in the chain, 0 for the root
    txn,            \* the chain's current transaction
    written,        \* written[a]: cells arm a's chain has committed
    okTxns,         \* okTxns[a]: transactions that committed on arm a
    asked,          \* next id of a release pass
    refusedReview   \* the verified runtime refused the retraction

driverVars == << shape, phase, link, txn, written, okTxns, asked, refusedReview >>

Arm == {"verified", "unguarded", "cascade"}

ShapeOf(seed) ==
    LET chain == Depth + (seed % 3) IN
    [chain |-> chain,
     interleave |-> seed % 2 = 1,
     abortAt |-> (seed \div 2) % chain,
     retract |-> (seed \div 7) % 4 # 0,
     late |-> (seed \div 11) % 4 = 0]

MInit ==
    /\ Init /\ U!Init /\ K!Init
    /\ shape \in {ShapeOf(seed) : seed \in 0 .. MaxSeed - 1}
    /\ phase = "begin"
    /\ link = 0
    /\ txn = NoTxn
    /\ written = [a \in Arm |-> << >>]
    /\ okTxns = [a \in Arm |-> << >>]
    /\ asked = 0
    /\ refusedReview = FALSE

Last(s) == s[Len(s)]

\* Cells are numbered in the order the chain creates them; one whose commit is
\* refused is used again.
NextCell(a) == Len(written[a])

OwnValue == IF link = 0 THEN 40 ELSE 69 + link
RivalValue == 899 + link
HasRival == shape.interleave /\ link % 2 = 1

Goto(step) == phase' = step /\ UNCHANGED << shape, link, txn, written, okTxns,
                                         asked, refusedReview >>

NextLink(step) ==
    /\ link' = link + 1
    /\ phase' = IF link < shape.chain THEN step ELSE "release"
    /\ UNCHANGED << shape, txn, asked, refusedReview >>

-----------------------------------------------------------------------------
BeginEverywhere == Begin /\ U!Begin /\ K!Begin

DriveBegin ==
    /\ phase = "begin"
    /\ BeginEverywhere
    /\ txn' = nextTxn
    /\ phase' = IF link = 0 THEN "write" ELSE "read"
    /\ UNCHANGED << shape, link, written, okTxns, asked, refusedReview >>

DriveRead ==
    /\ phase = "read"
    /\ Read(txn, Last(written["verified"]))
    /\ U!Read(txn, Last(written["unguarded"]))
    /\ K!Read(txn, Last(written["cascade"]))
    /\ Goto("write")

\* The baselines take their writes with the commit.
DriveWrite ==
    /\ phase = "write"
    /\ Write(txn, NextCell("verified"), OwnValue)
    /\ Goto(IF HasRival THEN "rivalBegin" ELSE "commit")
    /\ UNCHANGED << uVars, kVars >>

DriveRivalBegin == phase = "rivalBegin" /\ BeginEverywhere /\ Goto("rivalWrite")

DriveRivalWrite ==
    /\ phase = "rivalWrite"
    /\ Write(nextTxn - 1, Last(written["verified"]), RivalValue)
    /\ Goto("rivalCommit")
    /\ UNCHANGED << uVars, kVars >>

-----------------------------------------------------------------------------
Accepts(a, t) ==
    CASE a = "verified" -> CommitValid(t)
      [] a = "unguarded" -> U!CommitValid(t)
      [] a = "cascade" -> K!CommitValid(t)

\* Every arm tries to commit t, with value v in its cell cell[a].
CommitEverywhere(t, cell, v) ==
    /\ IF Accepts("verified", t) THEN Commit(t) ELSE UNCHANGED vars
    /\ IF Accepts("unguarded", t)
       THEN U!Commit(t, [c \in {cell["unguarded"]} |-> v]) ELSE UNCHANGED uVars
    /\ IF Accepts("cascade", t)
       THEN K!Commit(t, [c \in {cell["cascade"]} |-> v]) ELSE UNCHANGED kVars
    /\ okTxns' = [a \in Arm |-> IF Accepts(a, t) THEN Append(okTxns[a], t)
                                                 ELSE okTxns[a]]

DriveRivalCommit ==
    /\ phase = "rivalCommit"
    /\ CommitEverywhere(nextTxn - 1, [a \in Arm |-> Last(written[a])], RivalValue)
    /\ phase' = "commit"
    /\ UNCHANGED << shape, link, txn, written, asked, refusedReview >>

DriveCommit ==
    /\ phase = "commit"
    /\ CommitEverywhere(txn, [a \in Arm |-> NextCell(a)], OwnValue)
    /\ written' = [a \in Arm |-> IF Accepts(a, txn)
                                 THEN Append(written[a], NextCell(a))
                                 ELSE written[a]]
    /\ IF Accepts("verified", txn)
       THEN NextLink("begin")
       ELSE phase' = "abort" /\ UNCHANGED << shape, link, txn, asked, refusedReview >>

\* Only the verified arm aborts a transaction whose commit is refused.
DriveAbort ==
    /\ phase = "abort"
    /\ Abort(txn)
    /\ NextLink("begin")
    /\ UNCHANGED << uVars, kVars, written, okTxns >>

-----------------------------------------------------------------------------
Reviewed(a) == okTxns[a][(shape.abortAt % Len(okTxns[a])) + 1]

ToAsk(t) ==
    /\ t \in committed \ (aborted \cup externalized)
    /\ phase = "release" /\ ~ shape.late => t # Reviewed("verified")

\* One transaction of a release pass, in id order; a refused one is held.
DriveRelease ==
    /\ phase \in {"release", "releaseAll"}
    /\ asked < nextTxn
    /\ IF ToAsk(asked) /\ ExternalizeValid(asked)
       THEN Externalize(asked) ELSE UNCHANGED vars
    /\ asked' = asked + 1
    /\ UNCHANGED << uVars, kVars, shape, phase, link, txn, written, okTxns,
                    refusedReview >>

DriveReview ==
    /\ phase = "release"
    /\ asked = nextTxn
    /\ IF ~ shape.retract
       THEN UNCHANGED << vars, uVars, kVars, refusedReview >>
       ELSE LET r == Reviewed("verified") IN
            /\ IF AbortValid(r) THEN Abort(r) ELSE UNCHANGED vars
            /\ refusedReview' = ~ AbortValid(r)
            /\ U!Abort(Reviewed("unguarded"))
            /\ K!Abort(Reviewed("cascade"))
    /\ phase' = "releaseAll"
    /\ asked' = 0
    /\ UNCHANGED << shape, link, txn, written, okTxns >>

MNext ==
    \/ DriveBegin \/ DriveRead \/ DriveWrite
    \/ DriveRivalBegin \/ DriveRivalWrite \/ DriveRivalCommit
    \/ DriveCommit \/ DriveAbort
    \/ DriveRelease \/ DriveReview

MSpec == MInit /\ [][MNext]_<< vars, uVars, kVars, driverVars >>

-----------------------------------------------------------------------------
Ended == phase = "releaseAll" /\ asked = nextTxn

\* The arms run one schedule: a difference between their figures is a
\* difference between the stores and nothing else.
ArmsRunOneScenario ==
    \A a, b \in Arm :
        written[a] = written[b] /\ okTxns[a] = okTxns[b]

\* On the verified runtime no flag says A3 at any moment, no flag is set on
\* an effect that is out, and what a retraction leaves exposed is there exactly
\* when the runtime refused the retraction, and is exposed by a baseline too.
VerifiedResidueIsRefusal ==
    /\ ~ A3(VTrace) /\ ~ A3Unpropagated(VTrace)
    /\ Ended /\ shape.retract =>
         LET r == Reviewed("verified") IN
         /\ Relabeled(VTrace, r) = {}
         /\ Exposed(VTrace, r) # {} <=> refusedReview
         /\ Exposed(VTrace, r) \subseteq Exposed(uTxns, r)

\* One release pass in id order strands no live transaction's effects.
EveryLiveEffectReleased == Ended => externalized = committed \ aborted

\* The cascade of the release-at-commit store moves flags and no effects: the
\* overruled predicate is satisfied on it and the current one, and what is
\* out, are as on the store that flags nothing but the retracted transaction.
CascadeMovesFlagsOnly ==
    /\ ~ A3Unpropagated(kTxns)
    /\ A3(kTxns) <=> A3(uTxns)
    /\ A3(uTxns) <=> A3Unpropagated(uTxns)
    /\ Ended /\ shape.retract =>
         LET r == Reviewed("unguarded") IN
         /\ r \in Exposed(uTxns, r)
         /\ Exposed(kTxns, r) = Exposed(uTxns, r)
         /\ Relabeled(uTxns, r) = {}

-----------------------------------------------------------------------------
InChain == phase \notin {"release", "releaseAll"}

Unreviewed == phase # "releaseAll"

\* Transaction txn is open, or about to be aborted.
LinkOpen == InChain /\ phase # "begin"

RivalOpen == phase \in {"rivalWrite", "rivalCommit"}

Rival == nextTxn - 1

\* A write log with one entry, or none.
Logs(t, cell, v) == \A c \in Cell : writes[t][c] = IF c = cell THEN v ELSE NoValue
Blank(t) == \A c \in Cell : writes[t][c] = NoValue

DriverTypeOK ==
    /\ shape.chain \in 1 .. Depth + 2
    /\ phase \in {"begin", "read", "write", "rivalBegin", "rivalWrite", "rivalCommit",
               "commit", "abort", "release", "releaseAll"}
    /\ link \in Nat
    /\ InChain => link <= shape.chain
    /\ written["verified"] \in Seq(0 .. Depth + 2)
    /\ asked \in 0 .. nextTxn

\* Where the chain is.
ChainState ==
    /\ InChain => /\ Len(written["verified"]) <= link
                  /\ link > 0 => Len(written["verified"]) > 0
                  /\ aborted \cap committed = {}
    /\ LinkOpen => /\ txn \in Known \ committed
                   /\ \A t \in aborted : t < txn
                   /\ link = 0 => ReadSet(txn) = {}
    /\ phase \in {"read", "write", "rivalBegin"} => txn = nextTxn - 1
    /\ RivalOpen => txn < Rival /\ Rival \notin committed
    /\ RivalOpen \/ phase \in {"read", "rivalBegin", "abort"} => link > 0

\* What the open transactions have in their logs.
OpenLogs ==
    /\ \A t \in Txn \ Known : Blank(t) /\ ReadSet(t) = {} /\ preds[t] = {}
    /\ phase \in {"read", "write"} => Blank(txn)
    /\ RivalOpen \/ phase \in {"rivalBegin", "commit"} =>
           Logs(txn, NextCell("verified"), OwnValue)
    /\ phase = "rivalWrite" => Blank(Rival)
    /\ phase = "rivalCommit" => Logs(Rival, Last(written["verified"]), RivalValue)

StoreRecord ==
    [committed : BOOLEAN, aborted : BOOLEAN, externalized : BOOLEAN,
     readCells : SUBSET Cell, readValue : [Cell -> Value \cup {NoValue}],
     preds : SUBSET Txn]

\* A store holds what the verified runtime holds, before anybody is retracted.
StoreMatches(store, value, writer) ==
    /\ store \in [Known -> StoreRecord]
    /\ value = cellValue /\ writer = cellWriter
    /\ \A t \in Known :
          /\ store[t].committed <=> t \in committed
          /\ ~ store[t].aborted
          /\ store[t].readCells = ReadSet(t)
          /\ \A c \in ReadSet(t) : store[t].readValue[c] = readValue[t][c]

StoresMatch ==
    Unreviewed => /\ StoreMatches(uTxns, uValue, uWriter)
                  /\ StoreMatches(kTxns, kValue, kWriter)

\* A store records the direct predecessors and releases what it commits.
StoreTrace(store) ==
    /\ store \in [Known -> StoreRecord]
    /\ \A t \in Known :
          /\ store[t].committed <=> t \in committed
          /\ store[t].externalized <=> t \in committed
          /\ store[t].preds \subseteq preds[t]
          /\ preds[t] \subseteq store[t].preds \cup UNION {preds[q] : q \in store[t].preds}

TracesMatch ==
    /\ StoreTrace(uTxns) /\ StoreTrace(kTxns)
    /\ \A t \in Known : uTxns[t].preds = kTxns[t].preds

\* There is a committed transaction to review.
Reviewable ==
    LET ok == okTxns["verified"] IN
    /\ shape.abortAt \in Nat
    /\ ~ InChain => link > 0
    /\ ok \in Seq(Txn)
    /\ link > 0 => Len(ok) > 0
    /\ \A k \in 1 .. Len(ok) : ok[k] \in committed

\* What the review has come to on each arm.
ReviewState ==
    LET r == Reviewed("verified") IN
    phase = "releaseAll" =>
        IF shape.retract
        THEN /\ \A t \in Known :
                  /\ uTxns[t].aborted <=> t = r
                  /\ kTxns[t].aborted <=> t = r \/ r \in Closure(kTxns, t)
             /\ r \in (IF refusedReview THEN externalized ELSE aborted)
        ELSE \A t \in Known : ~ uTxns[t].aborted /\ ~ kTxns[t].aborted

\* A link reads what was committed before it began.
ReadsGoBack == \A t \in Txn : \A p \in preds[t] : p < t

\* The last pass leaves nothing behind that counts.
AskedAreOut ==
    phase = "releaseAll" =>
        \A t \in committed \ aborted : t < asked => t \in externalized

\* The invariant of the driver, inductive together with L2Inv.
MeasureInv ==
    /\ DriverTypeOK /\ ArmsRunOneScenario
    /\ ChainState /\ OpenLogs /\ StoresMatch
    /\ ReadsGoBack /\ AskedAreOut
    /\ TracesMatch /\ Reviewable /\ ReviewState

=============================================================================
