-------------------------- MODULE ReleaseArmsProofs --------------------------
(****************************************************************************)
(* What the arms come to, for any depth of the scenarios, any number of      *)
(* sessions, cells, values, texts and runs: first the measurement driver's   *)
(* (L2Measure), then the live driver's (L2Live).  Either's invariant is      *)
(* inductive on top of the runtime's.  The measurement's arms match as long  *)
(* as nobody is retracted, and its traces record the same orders after; a    *)
(* session's arms are followed call by call (VerifiedAt, StoreAt), and the   *)
(* live driver's outboxes and counts rest on where they are.                 *)
(****************************************************************************)
EXTENDS L2Measure, L2Live, L2RuntimeProofs

\* The cascading store walks the same closure as the detectors.
LEMMA CascadeWalksClosure ==
  ASSUME NEW trace, NEW t
  PROVE  K!Closure(trace, t) = Closure(trace, t)
<1>1. K!Cardinality(DOMAIN trace) = Cardinality(DOMAIN trace)
  BY Zenon DEF K!Cardinality, Cardinality
<1> QED BY <1>1, Zenon DEF K!Closure, Closure

-----------------------------------------------------------------------------
\* The cells and values the driver counts out are cells and values.
LEMMA NumbersInRange ==
  ASSUME DriverTypeOK, ChainState, InChain
  PROVE  /\ NextCell("verified") \in Cell
         /\ OwnValue \in Value
         /\ link > 0 => /\ RivalValue \in Value
                        /\ Last(written["verified"]) \in Cell
                        /\ Last(written["verified"]) \in 0 .. Depth + 2
<1>1. /\ link \in 0 .. Depth + 2
      /\ Len(written["verified"]) \in Nat /\ Len(written["verified"]) <= link
      /\ written["verified"] \in Seq(0 .. Depth + 2)
  <2>1. shape.chain <= Depth + 2 /\ shape.chain \in Nat /\ link <= shape.chain /\ link \in Nat
    BY MeasureAssumption DEF DriverTypeOK
  <2>2. written["verified"] \in Seq(0 .. Depth + 2) /\ Len(written["verified"]) <= link
    BY DEF DriverTypeOK, ChainState
  <2>3. Len(written["verified"]) \in Nat
    BY <2>2
  <2> QED BY <2>1, <2>2, <2>3, MeasureAssumption
<1>2. link > 0 => Last(written["verified"]) \in 0 .. Depth + 2
  <2> SUFFICES ASSUME link > 0 PROVE Last(written["verified"]) \in 0 .. Depth + 2
    OBVIOUS
  <2>1. Len(written["verified"]) > 0
    BY DEF ChainState
  <2>2. ASSUME NEW S, NEW s \in Seq(S), Len(s) > 0 PROVE s[Len(s)] \in S
    BY <2>2
  <2> QED BY <1>1, <2>1, <2>2 DEF Last
<1>3. Len(written["verified"]) \in 0 .. Depth + 2
  BY <1>1, MeasureAssumption
<1>4. link = 0 \/ link \in 1 .. Depth + 2
  BY <1>1, MeasureAssumption
<1> QED
  BY <1>1, <1>2, <1>3, <1>4, DriverAssumption DEF NextCell, OwnValue, RivalValue

\* The runtime's part of a step of the driver is a call of the runtime.
LEMMA DriveNext ==
  ASSUME L2Inv, MeasureInv, MNext
  PROVE  [Next]_vars
<1>0. Known \subseteq Txn
  BY KnownTxn DEF L2Inv
<1>1. CASE DriveBegin
  BY <1>1 DEF DriveBegin, BeginEverywhere, Next
<1>2. CASE DriveRead
  <2>1. InChain /\ link > 0 /\ txn \in Txn
    BY <1>2, <1>0 DEF DriveRead, InChain, MeasureInv, ChainState, LinkOpen
  <2> QED BY <1>2, <2>1, NumbersInRange DEF DriveRead, MeasureInv, Next
<1>3. CASE DriveWrite
  <2>1. InChain /\ txn \in Txn
    BY <1>3, <1>0 DEF DriveWrite, InChain, MeasureInv, ChainState, LinkOpen
  <2> QED BY <1>3, <2>1, NumbersInRange DEF DriveWrite, MeasureInv, Next
<1>4. CASE DriveRivalBegin
  BY <1>4 DEF DriveRivalBegin, BeginEverywhere, Next
<1>5. CASE DriveRivalWrite
  <2>1. InChain /\ link > 0
    BY <1>5 DEF DriveRivalWrite, InChain, MeasureInv, ChainState, RivalOpen
  <2>2. nextTxn - 1 \in Txn
    BY <1>5, <1>0 DEF DriveRivalWrite, Write, Open
  <2> QED BY <1>5, <2>1, <2>2, NumbersInRange DEF DriveRivalWrite, MeasureInv, Next
<1>6. ASSUME NEW t, NEW cell, NEW v, CommitEverywhere(t, cell, v)
      PROVE  [Next]_vars
  BY <1>6, <1>0 DEF CommitEverywhere, Commit, CommitValid, Next
<1>7. CASE DriveRivalCommit
  BY <1>7, <1>6 DEF DriveRivalCommit
<1>8. CASE DriveCommit
  BY <1>8, <1>6 DEF DriveCommit
<1>9. CASE DriveAbort
  BY <1>9, <1>0 DEF DriveAbort, Abort, AbortValid, Next
<1>10. CASE DriveRelease
  <2>1. CASE Externalize(asked)
    <3>1. asked \in Txn
      BY <2>1, <1>0 DEF Externalize, ExternalizeValid, L2Inv, TypeOK
    <3> QED BY <2>1, <3>1 DEF Next
  <2> QED BY <1>10, <2>1 DEF DriveRelease
<1>11. CASE DriveReview
  <2> DEFINE r == Reviewed("verified")
  <2>1. CASE Abort(r)
    BY <2>1, <1>0 DEF Abort, AbortValid, Next
  <2>2. CASE UNCHANGED vars
    BY <2>2
  <2> QED BY <1>11, <2>1, <2>2 DEF DriveReview
<1> QED
  BY <1>1, <1>2, <1>3, <1>4, <1>5, <1>7, <1>8, <1>9, <1>10, <1>11 DEF MNext

-----------------------------------------------------------------------------
\* A store numbers transactions as the runtime does.
LEMMA NextIdIs ==
  ASSUME L2Inv, StoreMatches(uTxns, uValue, uWriter), StoreMatches(kTxns, kValue, kWriter)
  PROVE  U!NextId = nextTxn /\ K!NextId = nextTxn
<1>1. nextTxn \in Nat
  BY L2Assumption DEF L2Inv, TypeOK
<1>2. Cardinality(0 .. nextTxn - 1) = nextTxn
  BY <1>1, FS_Interval
<1>3. DOMAIN uTxns = 0 .. nextTxn - 1 /\ DOMAIN kTxns = 0 .. nextTxn - 1
  BY DEF StoreMatches, Known
<1>4. U!Cardinality(DOMAIN uTxns) = Cardinality(DOMAIN uTxns)
  BY Zenon DEF U!Cardinality, Cardinality
<1>5. K!Cardinality(DOMAIN kTxns) = Cardinality(DOMAIN kTxns)
  BY Zenon DEF K!Cardinality, Cardinality
<1> QED BY <1>2, <1>3, <1>4, <1>5 DEF U!NextId, K!NextId

\* A begin leaves the same new record on every store.
LEMMA BeginMatches ==
  ASSUME L2Inv, OpenLogs, StoresMatch, TracesMatch, Unreviewed, Unreviewed', BeginEverywhere
  PROVE  StoresMatch' /\ TracesMatch'
<1>1. /\ nextTxn \in Nat /\ nextTxn' = nextTxn + 1 /\ nextTxn < MaxTxn /\ nextTxn \in Txn \ Known
      /\ UNCHANGED << committed, preds, readValue, readFrom, cellValue, cellWriter >>
  BY L2Assumption DEF L2Inv, TypeOK, BeginEverywhere, Begin, readVars, cellVars, Txn, Known
<1>2. Known' = Known \cup {nextTxn} /\ nextTxn \notin Known
  BY <1>1 DEF Known
<1>3. \A t \in Known' : ReadSet(t)' = ReadSet(t)
  BY <1>1 DEF ReadSet
<1>4. ReadSet(nextTxn) = {} /\ preds[nextTxn] = {} /\ nextTxn \notin committed
  BY <1>1 DEF OpenLogs, L2Inv, TypeOK
<1>5. U!NewTxn \in StoreRecord /\ K!NewTxn = U!NewTxn
  BY DEF U!NewTxn, K!NewTxn, StoreRecord
<1>6. /\ ~ U!NewTxn.committed /\ ~ U!NewTxn.aborted /\ ~ U!NewTxn.externalized
      /\ U!NewTxn.readCells = {} /\ U!NewTxn.preds = {}
  BY DEF U!NewTxn
<1>7. StoreMatches(uTxns, uValue, uWriter) /\ StoreMatches(kTxns, kValue, kWriter)
  BY DEF StoresMatch
<1>8. 0 .. nextTxn = Known'
  BY <1>1 DEF Known
<1>9. /\ uTxns' = [t \in Known' |-> IF t = nextTxn THEN U!NewTxn ELSE uTxns[t]]
      /\ kTxns' = [t \in Known' |-> IF t = nextTxn THEN U!NewTxn ELSE kTxns[t]]
      /\ UNCHANGED << uValue, uWriter, kValue, kWriter >>
  BY <1>5, <1>7, <1>8, NextIdIs DEF BeginEverywhere, U!Begin, K!Begin
<1>10. StoreMatches(uTxns, uValue, uWriter)'
  <2>1. uTxns' \in [Known' -> StoreRecord]
    BY <1>2, <1>5, <1>7, <1>9 DEF StoreMatches
  <2>2. \A t \in Known : uTxns'[t] = uTxns[t]
    BY <1>2, <1>9
  <2>3. uTxns'[nextTxn] = U!NewTxn
    BY <1>2, <1>9
  <2>4. ASSUME NEW t \in Known'
        PROVE  /\ uTxns'[t].committed <=> t \in committed
               /\ ~ uTxns'[t].aborted
               /\ uTxns'[t].readCells = ReadSet(t)
               /\ \A c \in ReadSet(t) : uTxns'[t].readValue[c] = readValue[t][c]
    <3>1. CASE t = nextTxn
      BY <3>1, <2>3, <1>4, <1>6
    <3>2. CASE t \in Known
      BY <3>2, <2>2, <1>7 DEF StoreMatches
    <3> QED BY <1>2, <3>1, <3>2
  <2> QED BY <1>1, <1>3, <1>7, <1>9, <2>1, <2>4 DEF StoreMatches
<1>11. StoreMatches(kTxns, kValue, kWriter)'
  <2>1. kTxns' \in [Known' -> StoreRecord]
    BY <1>2, <1>5, <1>7, <1>9 DEF StoreMatches
  <2>2. \A t \in Known : kTxns'[t] = kTxns[t]
    BY <1>2, <1>9
  <2>3. kTxns'[nextTxn] = U!NewTxn
    BY <1>2, <1>9
  <2>4. ASSUME NEW t \in Known'
        PROVE  /\ kTxns'[t].committed <=> t \in committed
               /\ ~ kTxns'[t].aborted
               /\ kTxns'[t].readCells = ReadSet(t)
               /\ \A c \in ReadSet(t) : kTxns'[t].readValue[c] = readValue[t][c]
    <3>1. CASE t = nextTxn
      BY <3>1, <2>3, <1>4, <1>6
    <3>2. CASE t \in Known
      BY <3>2, <2>2, <1>7 DEF StoreMatches
    <3> QED BY <1>2, <3>1, <3>2
  <2> QED BY <1>1, <1>3, <1>7, <1>9, <2>1, <2>4 DEF StoreMatches
<1>12. ASSUME NEW S, NEW S2, StoreTrace(S), S2 \in [Known' -> StoreRecord],
              \A t \in Known : S2[t] = S[t], S2[nextTxn] = U!NewTxn
       PROVE  \A t \in Known' :
                 /\ S2[t].committed <=> t \in committed
                 /\ S2[t].externalized <=> t \in committed
                 /\ S2[t].preds \subseteq preds[t]
                 /\ preds[t] \subseteq S2[t].preds \cup UNION {preds[q] : q \in S2[t].preds}
  <2> SUFFICES ASSUME NEW t \in Known'
               PROVE  /\ S2[t].committed <=> t \in committed
                      /\ S2[t].externalized <=> t \in committed
                      /\ S2[t].preds \subseteq preds[t]
                      /\ preds[t] \subseteq S2[t].preds \cup UNION {preds[q] : q \in S2[t].preds}
    OBVIOUS
  <2>1. CASE t = nextTxn
    BY <2>1, <1>4, <1>6, <1>12
  <2>2. CASE t \in Known
    BY <2>2, <1>12 DEF StoreTrace
  <2> QED BY <2>1, <2>2, <1>2
<1>13. /\ uTxns' \in [Known' -> StoreRecord] /\ kTxns' \in [Known' -> StoreRecord]
       /\ \A t \in Known : uTxns'[t] = uTxns[t] /\ kTxns'[t] = kTxns[t]
       /\ uTxns'[nextTxn] = U!NewTxn /\ kTxns'[nextTxn] = U!NewTxn
  BY <1>2, <1>5, <1>7, <1>9 DEF StoreMatches
<1>14. TracesMatch'
  <2>1. StoreTrace(uTxns)'
    BY <1>1, <1>12, <1>13 DEF StoreTrace, TracesMatch
  <2>2. StoreTrace(kTxns)'
    BY <1>1, <1>12, <1>13 DEF StoreTrace, TracesMatch
  <2>3. \A t \in Known' : uTxns'[t].preds = kTxns'[t].preds
    BY <1>2, <1>13 DEF TracesMatch
  <2> QED BY <2>1, <2>2, <2>3 DEF TracesMatch
<1> QED BY <1>10, <1>11, <1>14 DEF StoresMatch

\* Calls that the stores know nothing of.
LEMMA AsideMatches ==
  ASSUME StoresMatch, TracesMatch, Unreviewed,
         UNCHANGED << uVars, kVars, nextTxn, committed, preds, readValue, readFrom,
                      cellValue, cellWriter >>
  PROVE  StoresMatch' /\ TracesMatch'
  BY DEF StoresMatch, StoreMatches, TracesMatch, StoreTrace, uVars, kVars, ReadSet, Known

\* A read observes the same value on every store, and records a writer that
\* leads to all the runtime records.
LEMMA ReadMatches ==
  ASSUME L2Inv, StoresMatch, TracesMatch, Unreviewed, Unreviewed', NEW t \in Known, NEW c \in Cell,
         Read(t, c), U!Read(t, c), K!Read(t, c)
  PROVE  StoresMatch' /\ TracesMatch'
<1>0. t \in Txn
  BY KnownTxn DEF L2Inv
<1>1. /\ cellValue[c] \in Value /\ cellWriter[c] \in Txn /\ cellWriter[c] # NoTxn
      /\ cellWriter[c] # t
      /\ preds' = [preds EXCEPT ![t] = @ \cup ClosureOf(cellWriter[c])]
      /\ Known' = Known
      /\ UNCHANGED << committed, cellValue, cellWriter >>
      /\ readValue' = [readValue EXCEPT ![t][c] = cellValue[c]]
      /\ readFrom' = [readFrom EXCEPT ![t][c] = cellWriter[c]]
      /\ cellValue[c] # NoValue
  BY PublishedCell DEF Read, Open, cellVars, L2Inv, TypeOK, Known
<1>2. ReadSet(t)' = ReadSet(t) \cup {c}
  BY <1>0, <1>1 DEF ReadSet, L2Inv, TypeOK
<1>3. \A u \in Known : u # t => ReadSet(u)' = ReadSet(u) /\ readValue'[u] = readValue[u]
  BY <1>0, <1>1, KnownTxn DEF ReadSet, L2Inv, TypeOK
<1>4. \A d \in Cell : readValue'[t][d] = IF d = c THEN cellValue[c] ELSE readValue[t][d]
  BY <1>0, <1>1 DEF L2Inv, TypeOK
<1>5. ReadSet(t) \subseteq Cell
  BY DEF ReadSet
<1> DEFINE AfterRead(S, V, W) ==
             [S EXCEPT ![t].readCells = @ \cup {c},
                       ![t].readValue[c] = IF V[c] = NoValue THEN @ ELSE V[c],
                       ![t].preds = @ \cup ({W[c]} \ {NoTxn, t})]
<1>6. ASSUME NEW S, NEW S2, NEW V, NEW W, StoreMatches(S, V, W),
             S2 = AfterRead(S, V, W)
      PROVE  /\ S2 \in [Known -> StoreRecord]
             /\ \A u \in Known :
                   /\ S2[u].committed = S[u].committed
                   /\ S2[u].aborted = S[u].aborted
                   /\ S2[u].externalized = S[u].externalized
                   /\ u # t => S2[u] = S[u]
             /\ S2[t].preds = S[t].preds \cup {cellWriter[c]}
             /\ S2[t].readCells = S[t].readCells \cup {c}
             /\ \A d \in Cell : S2[t].readValue[d] =
                   IF d = c THEN cellValue[c] ELSE S[t].readValue[d]
  <2> DEFINE R == S[t]
             R2 == [R EXCEPT !.readCells = @ \cup {c},
                             !.readValue = [@ EXCEPT ![c] = cellValue[c]],
                             !.preds = @ \cup ({cellWriter[c]} \ {NoTxn, t})]
  <2>1. S \in [Known -> StoreRecord] /\ V = cellValue /\ W = cellWriter /\ R \in StoreRecord
    BY <1>6 DEF StoreMatches
  <2>2. S2 = [S EXCEPT ![t] = R2]
    BY <1>1, <1>6, <2>1 DEF StoreRecord
  <2>3. R2 \in StoreRecord
    BY <1>1, <2>1 DEF StoreRecord
  <2>4. /\ R2.committed = R.committed /\ R2.aborted = R.aborted
        /\ R2.externalized = R.externalized
        /\ R2.preds = R.preds \cup ({cellWriter[c]} \ {NoTxn, t})
        /\ R2.readCells = R.readCells \cup {c}
        /\ R2.readValue = [R.readValue EXCEPT ![c] = cellValue[c]]
    BY <2>1 DEF StoreRecord
  <2>5. R.readValue \in [Cell -> Value \cup {NoValue}]
    BY <2>1 DEF StoreRecord
  <2> HIDE DEF R2
  <2>6. S2[t] = R2 /\ \A u \in Known : u # t => S2[u] = S[u]
    BY <2>1, <2>2
  <2>7. {cellWriter[c]} \ {NoTxn, t} = {cellWriter[c]}
    BY <1>1
  <2> QED BY <2>1, <2>2, <2>3, <2>4, <2>5, <2>6, <2>7
<1>u. uTxns' = AfterRead(uTxns, uValue, uWriter)
  BY DEF U!Read
<1>k. kTxns' = AfterRead(kTxns, kValue, kWriter)
  BY DEF K!Read
<1> HIDE DEF AfterRead
<1>7. StoreMatches(uTxns, uValue, uWriter)'
  <2>1. StoreMatches(uTxns, uValue, uWriter)
    BY DEF StoresMatch
  <2>2. uValue' = cellValue' /\ uWriter' = cellWriter'
    BY <1>1, <2>1 DEF StoreMatches, U!Read
  <2>3. /\ uTxns' \in [Known -> StoreRecord]
        /\ \A u \in Known :
              /\ uTxns'[u].committed = uTxns[u].committed
              /\ uTxns'[u].aborted = uTxns[u].aborted
              /\ u # t => uTxns'[u] = uTxns[u]
        /\ uTxns'[t].readCells = uTxns[t].readCells \cup {c}
        /\ \A d \in Cell : uTxns'[t].readValue[d] =
              IF d = c THEN cellValue[c] ELSE uTxns[t].readValue[d]
    BY <2>1, <1>u, <1>6
  <2>4. ASSUME NEW u \in Known
        PROVE  /\ uTxns'[u].committed <=> u \in committed
               /\ ~ uTxns'[u].aborted
               /\ uTxns'[u].readCells = ReadSet(u)'
               /\ \A d \in ReadSet(u)' : uTxns'[u].readValue[d] = readValue'[u][d]
    <3>1. CASE u = t
      BY <3>1, <2>1, <2>3, <1>2, <1>4, <1>5 DEF StoreMatches
    <3>2. CASE u # t
      BY <3>2, <2>1, <2>3, <1>3 DEF StoreMatches
    <3> QED BY <3>1, <3>2
  <2> QED BY <1>1, <2>2, <2>3, <2>4 DEF StoreMatches
<1>8. StoreMatches(kTxns, kValue, kWriter)'
  <2>1. StoreMatches(kTxns, kValue, kWriter)
    BY DEF StoresMatch
  <2>2. kValue' = cellValue' /\ kWriter' = cellWriter'
    BY <1>1, <2>1 DEF StoreMatches, K!Read
  <2>3. /\ kTxns' \in [Known -> StoreRecord]
        /\ \A u \in Known :
              /\ kTxns'[u].committed = kTxns[u].committed
              /\ kTxns'[u].aborted = kTxns[u].aborted
              /\ u # t => kTxns'[u] = kTxns[u]
        /\ kTxns'[t].readCells = kTxns[t].readCells \cup {c}
        /\ \A d \in Cell : kTxns'[t].readValue[d] =
              IF d = c THEN cellValue[c] ELSE kTxns[t].readValue[d]
    BY <2>1, <1>k, <1>6
  <2>4. ASSUME NEW u \in Known
        PROVE  /\ kTxns'[u].committed <=> u \in committed
               /\ ~ kTxns'[u].aborted
               /\ kTxns'[u].readCells = ReadSet(u)'
               /\ \A d \in ReadSet(u)' : kTxns'[u].readValue[d] = readValue'[u][d]
    <3>1. CASE u = t
      BY <3>1, <2>1, <2>3, <1>2, <1>4, <1>5 DEF StoreMatches
    <3>2. CASE u # t
      BY <3>2, <2>1, <2>3, <1>3 DEF StoreMatches
    <3> QED BY <3>1, <3>2
  <2> QED BY <1>1, <2>2, <2>3, <2>4 DEF StoreMatches
<1>9. \A u \in Txn : preds'[u] = IF u = t THEN preds[t] \cup {cellWriter[c]} \cup preds[cellWriter[c]]
                                  ELSE preds[u]
  BY <1>0, <1>1 DEF L2Inv, TypeOK, ClosureOf
<1>10. ASSUME NEW S, NEW S2, StoreTrace(S),
              \A u \in Known :
                   /\ S2[u].committed = S[u].committed
                   /\ S2[u].externalized = S[u].externalized
                   /\ u # t => S2[u] = S[u],
              S2[t].preds = S[t].preds \cup {cellWriter[c]}
       PROVE  \A u \in Known :
                 /\ S2[u].committed <=> u \in committed
                 /\ S2[u].externalized <=> u \in committed
                 /\ S2[u].preds \subseteq preds'[u]
                 /\ preds'[u] \subseteq S2[u].preds \cup UNION {preds'[q] : q \in S2[u].preds}
  <2> SUFFICES ASSUME NEW u \in Known
               PROVE  /\ S2[u].committed <=> u \in committed
                      /\ S2[u].externalized <=> u \in committed
                      /\ S2[u].preds \subseteq preds'[u]
                      /\ preds'[u] \subseteq S2[u].preds \cup UNION {preds'[q] : q \in S2[u].preds}
    OBVIOUS
  <2>1. /\ S[u].preds \subseteq preds[u] /\ preds[u] \subseteq Txn
        /\ preds[u] \subseteq S[u].preds \cup UNION {preds[q] : q \in S[u].preds}
        /\ u \in Txn
    BY <1>10, KnownTxn DEF StoreTrace, L2Inv, TypeOK
  <2>2. \A q \in Txn : preds[q] \subseteq preds'[q]
    BY <1>9
  <2>3. CASE u = t
    <3>1. /\ preds'[t] = preds[t] \cup {cellWriter[c]} \cup preds[cellWriter[c]]
          /\ preds[cellWriter[c]] \subseteq preds'[cellWriter[c]]
      BY <1>1, <1>9, <2>2, <1>0
    <3>2. \A q \in S[t].preds : preds[q] \subseteq preds'[q]
      BY <2>1, <2>2, <2>3
    <3>3. /\ S2[t].committed <=> t \in committed
          /\ S2[t].externalized <=> t \in committed
      BY <1>10 DEF StoreTrace
    <3> QED BY <3>1, <3>2, <3>3, <2>1, <2>3, <1>10
  <2>4. CASE u # t
    BY <2>1, <2>2, <2>4, <1>9, <1>10 DEF StoreTrace
  <2> QED BY <2>3, <2>4
<1>11. TracesMatch'
  <2>1. /\ StoreMatches(uTxns, uValue, uWriter) /\ StoreMatches(kTxns, kValue, kWriter)
        /\ StoreTrace(uTxns) /\ StoreTrace(kTxns)
    BY DEF StoresMatch, TracesMatch
  <2>2. /\ uTxns' \in [Known -> StoreRecord]
        /\ \A u \in Known :
                   /\ uTxns'[u].committed = uTxns[u].committed
                   /\ uTxns'[u].externalized = uTxns[u].externalized
                   /\ u # t => uTxns'[u] = uTxns[u]
        /\ uTxns'[t].preds = uTxns[t].preds \cup {cellWriter[c]}
    BY <2>1, <1>u, <1>6
  <2>3. /\ kTxns' \in [Known -> StoreRecord]
        /\ \A u \in Known :
                   /\ kTxns'[u].committed = kTxns[u].committed
                   /\ kTxns'[u].externalized = kTxns[u].externalized
                   /\ u # t => kTxns'[u] = kTxns[u]
        /\ kTxns'[t].preds = kTxns[t].preds \cup {cellWriter[c]}
    BY <2>1, <1>k, <1>6
  <2>4. StoreTrace(uTxns)'
    BY <1>1, <1>10, <2>1, <2>2 DEF StoreTrace
  <2>5. StoreTrace(kTxns)'
    BY <1>1, <1>10, <2>1, <2>3 DEF StoreTrace
  <2>6. \A u \in Known' : uTxns'[u].preds = kTxns'[u].preds
    BY <1>1, <2>2, <2>3 DEF TracesMatch
  <2> QED BY <2>4, <2>5, <2>6 DEF TracesMatch
<1> QED BY <1>7, <1>8, <1>11 DEF StoresMatch

\* The arms accept the same commits.
LEMMA ArmsAgree ==
  ASSUME L2Inv, StoresMatch, Unreviewed, aborted \cap committed = {},
         NEW t \in Known, t \notin aborted
  PROVE  \A a \in Arm : Accepts(a, t) <=> CommitValid(t)
<1>1. \A c \in ReadSet(t) : readValue[t][c] # NoValue
  BY KnownTxn, L2Assumption DEF L2Inv, ReadProvenance
<1>2. preds[t] \subseteq committed \ aborted
  BY KnownTxn DEF L2Inv, CommittedFrozen
<1>3. U!CommitValid(t) <=> CommitValid(t)
  BY <1>1, <1>2 DEF StoresMatch, StoreMatches, U!CommitValid, U!ReadsFresh,
     CommitValid, ReadsFresh, PredecessorsClean
<1>4. ~ K!AbortedBasis(kTxns, t)
  BY DEF StoresMatch, StoreMatches, K!AbortedBasis
<1>5. K!CommitValid(t) <=> CommitValid(t)
  BY <1>1, <1>2, <1>4 DEF StoresMatch, StoreMatches, K!CommitValid, K!ReadsFresh,
     CommitValid, ReadsFresh, PredecessorsClean
<1> QED BY <1>3, <1>5 DEF Arm, Accepts

\* A commit publishes the same cell on every store.
LEMMA CommitMatches ==
  ASSUME L2Inv, StoresMatch, TracesMatch, Unreviewed, NEW t \in Known, NEW cell \in Cell, NEW v \in Value,
         Logs(t, cell, v), Commit(t),
         U!Commit(t, [c \in {cell} |-> v]), K!Commit(t, [c \in {cell} |-> v])
  PROVE  StoresMatch' /\ TracesMatch'
<1>1. /\ committed' = committed \cup {t} /\ Known' = Known
      /\ UNCHANGED << readValue, readFrom, preds >>
      /\ cellValue' = [c \in Cell |-> IF c = cell THEN v ELSE cellValue[c]]
      /\ cellWriter' = [c \in Cell |-> IF c = cell THEN t ELSE cellWriter[c]]
  <2>1. \A c \in Cell : c \in WriteSet(t) <=> c = cell
    BY L2Assumption DEF Logs, WriteSet
  <2>2. \A c \in Cell : c = cell => writes[t][c] = v
    BY DEF Logs
  <2> QED BY <2>1, <2>2 DEF Commit, readVars, Known
<1>2. \A u \in Known : ReadSet(u)' = ReadSet(u)
  BY <1>1 DEF ReadSet
<1> DEFINE AfterCommit(S) == [S EXCEPT ![t].committed = TRUE,
                                        ![t].externalized = TRUE]
<1>3. ASSUME NEW S, StoreMatches(S, cellValue, cellWriter),
             NEW S2, S2 = AfterCommit(S)
      PROVE  /\ S2 \in [Known -> StoreRecord]
             /\ \A u \in Known :
                   /\ S2[u].committed <=> u = t \/ S[u].committed
                   /\ S2[u].externalized <=> u = t \/ S[u].externalized
                   /\ S2[u].preds = S[u].preds
                   /\ S2[u].aborted = S[u].aborted
                   /\ S2[u].readCells = S[u].readCells
                   /\ S2[u].readValue = S[u].readValue
  <2>1. S \in [Known -> StoreRecord]
    BY <1>3 DEF StoreMatches
  <2> QED BY <1>3, <2>1 DEF StoreRecord
<1>u. uTxns' = AfterCommit(uTxns)
  BY DEF U!Commit
<1>k. kTxns' = AfterCommit(kTxns)
  BY DEF K!Commit
<1> HIDE DEF AfterCommit
<1>4. StoreMatches(uTxns, uValue, uWriter)'
  <2>1. StoreMatches(uTxns, uValue, uWriter)
    BY DEF StoresMatch
  <2>2. uValue' = cellValue' /\ uWriter' = cellWriter'
    BY <1>1, <2>1 DEF StoreMatches, U!Commit
  <2> QED BY <1>1, <1>2, <1>3, <1>u, <2>1, <2>2 DEF StoreMatches
<1>5. StoreMatches(kTxns, kValue, kWriter)'
  <2>1. StoreMatches(kTxns, kValue, kWriter)
    BY DEF StoresMatch
  <2>2. kValue' = cellValue' /\ kWriter' = cellWriter'
    BY <1>1, <2>1 DEF StoreMatches, K!Commit
  <2> QED BY <1>1, <1>2, <1>3, <1>k, <2>1, <2>2 DEF StoreMatches
<1>6. TracesMatch'
  <2>1. /\ StoreMatches(uTxns, cellValue, cellWriter) /\ StoreMatches(kTxns, cellValue, cellWriter)
        /\ StoreTrace(uTxns) /\ StoreTrace(kTxns)
    BY DEF StoresMatch, StoreMatches, TracesMatch
  <2>2. StoreTrace(uTxns)'
    BY <1>1, <1>3, <1>u, <2>1 DEF StoreTrace
  <2>3. StoreTrace(kTxns)'
    BY <1>1, <1>3, <1>k, <2>1 DEF StoreTrace
  <2>4. \A u \in Known' : uTxns'[u].preds = kTxns'[u].preds
    BY <1>1, <1>3, <1>u, <1>k, <2>1 DEF TracesMatch
  <2> QED BY <2>2, <2>3, <2>4 DEF TracesMatch
<1> QED BY <1>4, <1>5, <1>6 DEF StoresMatch

-----------------------------------------------------------------------------
\* A call that commits nobody leaves the list to review as it is.
LEMMA ReviewableKept ==
  ASSUME Reviewable, committed \subseteq committed', UNCHANGED << shape, okTxns >>,
         link' > 0 => link > 0, ~ InChain' => link' > 0
  PROVE  Reviewable'
  BY DEF Reviewable

\* A commit adds to it.
LEMMA ReviewableGrows ==
  ASSUME Reviewable, committed \subseteq committed', UNCHANGED shape,
         NEW t \in Txn, t \in committed', ~ InChain' => link' > 0,
         okTxns'["verified"] = Append(okTxns["verified"], t)
  PROVE  Reviewable'
<1> DEFINE ok == okTxns["verified"]
<1>1. ok \in Seq(Txn) /\ Len(ok) \in Nat
  BY DEF Reviewable
<1>2. /\ Append(ok, t) \in Seq(Txn) /\ Len(Append(ok, t)) = Len(ok) + 1
      /\ \A k \in 1 .. Len(ok) + 1 :
            Append(ok, t)[k] = IF k = Len(ok) + 1 THEN t ELSE ok[k]
  BY <1>1
<1>3. \A k \in 1 .. Len(ok) + 1 : Append(ok, t)[k] \in committed'
  <2>1. \A k \in 1 .. Len(ok) + 1 : k = Len(ok) + 1 \/ k \in 1 .. Len(ok)
    BY <1>1
  <2> QED BY <1>2, <2>1 DEF Reviewable
<1> QED BY <1>1, <1>2, <1>3 DEF Reviewable

\* Nothing has happened on any store.
LEMMA InitMeasureInv == MInit => MeasureInv
<1> SUFFICES ASSUME MInit PROVE MeasureInv
  OBVIOUS
<1>1. shape.chain \in 1 .. Depth + 2
  BY MeasureAssumption DEF MInit, ShapeOf
<1>2. DriverTypeOK /\ ArmsRunOneScenario
  <2>1. /\ phase = "begin" /\ link = 0 /\ nextTxn = 0 /\ asked = 0
        /\ written["verified"] = << >>
        /\ \A a \in Arm : written[a] = << >> /\ okTxns[a] = << >>
    BY DEF MInit, Init, Arm
  <2> QED BY <1>1, <2>1 DEF DriverTypeOK, InChain, ArmsRunOneScenario
<1>3. ChainState
  <2>1. written["verified"] = << >> /\ phase = "begin" /\ link = 0 /\ aborted = {}
    BY DEF MInit, Arm, Init
  <2> QED BY <2>1 DEF ChainState, LinkOpen, RivalOpen
<1>4. OpenLogs
  BY DEF MInit, Init, OpenLogs, Blank, ReadSet, RivalOpen, NoTxn
<1>5. StoresMatch
  BY L2Assumption DEF MInit, Init, U!Init, K!Init, U!NoWrites, K!NoWrites, StoresMatch, StoreMatches, Known
<1>6. ReadsGoBack /\ AskedAreOut
  BY DEF MInit, Init, ReadsGoBack, AskedAreOut, Txn
<1>7. TracesMatch
  BY <1>5 DEF MInit, Init, StoresMatch, StoreMatches, Unreviewed, TracesMatch, StoreTrace, Known
<1>8. Reviewable /\ ReviewState
  <2>1. shape.abortAt \in Nat
    BY MeasureAssumption DEF MInit, ShapeOf
  <2>2. okTxns["verified"] = << >> /\ link = 0 /\ phase = "begin"
    BY DEF MInit, Arm
  <2> QED BY <2>1, <2>2 DEF Reviewable, ReviewState, InChain
<1> QED BY <1>2, <1>3, <1>4, <1>5, <1>6, <1>7, <1>8 DEF MeasureInv

\* The next link begins on every arm.
LEMMA DriveBeginInv ==
  ASSUME L2Inv, MeasureInv, DriveBegin
  PROVE  MeasureInv'
<1>1. /\ nextTxn \in Nat /\ nextTxn' = nextTxn + 1 /\ nextTxn \in Txn \ Known
      /\ Known' = Known \cup {nextTxn}
      /\ UNCHANGED << committed, aborted, writes, readFrom, preds >>
      /\ UNCHANGED << shape, link, written, okTxns, asked >>
      /\ phase = "begin" /\ txn' = nextTxn
      /\ phase' = IF link = 0 THEN "write" ELSE "read"
  BY L2Assumption DEF DriveBegin, BeginEverywhere, Begin, readVars, L2Inv, TypeOK, Txn, Known
<1>2. InChain /\ InChain' /\ Unreviewed /\ Unreviewed' /\ link <= shape.chain /\ link \in Nat
  BY <1>1 DEF InChain, Unreviewed, MeasureInv, DriverTypeOK
<1>3. DriverTypeOK' /\ ArmsRunOneScenario'
  BY <1>1, <1>2 DEF MeasureInv, DriverTypeOK, ArmsRunOneScenario
<1>4. ReadSet(txn)' = {} /\ Blank(txn)'
  BY <1>1 DEF MeasureInv, OpenLogs, Blank, ReadSet
<1>5. nextTxn \notin committed /\ \A t \in aborted : t < nextTxn
  BY <1>1 DEF L2Inv, TypeOK, Known
<1>6. ChainState'
  BY <1>1, <1>2, <1>4, <1>5 DEF MeasureInv, ChainState, LinkOpen, RivalOpen
<1>7. OpenLogs'
  BY <1>1, <1>4 DEF MeasureInv, OpenLogs, Blank, ReadSet, RivalOpen
<1>8. StoresMatch' /\ TracesMatch'
  BY <1>2, BeginMatches DEF MeasureInv, DriveBegin
<1>9. ReadsGoBack' /\ AskedAreOut'
  BY <1>1 DEF MeasureInv, ReadsGoBack, AskedAreOut
<1>r. Reviewable' /\ ReviewState'
  BY <1>1, <1>2, ReviewableKept DEF MeasureInv, ReviewState
<1> QED BY <1>r, <1>3, <1>6, <1>7, <1>8, <1>9 DEF MeasureInv

\* A rival of the link begins on every arm.
LEMMA DriveRivalBeginInv ==
  ASSUME L2Inv, MeasureInv, DriveRivalBegin
  PROVE  MeasureInv'
<1>1. /\ nextTxn \in Nat /\ nextTxn' = nextTxn + 1 /\ nextTxn \in Txn \ Known
      /\ Known' = Known \cup {nextTxn}
      /\ UNCHANGED << committed, aborted, writes, readFrom, preds >>
      /\ UNCHANGED << shape, link, txn, written, okTxns, asked >>
      /\ phase = "rivalBegin" /\ phase' = "rivalWrite"
  BY L2Assumption DEF DriveRivalBegin, Goto, BeginEverywhere, Begin, readVars, L2Inv, TypeOK, Txn, Known
<1>2. InChain /\ InChain' /\ Unreviewed /\ Unreviewed' /\ link <= shape.chain /\ link \in Nat
  BY <1>1 DEF InChain, Unreviewed, MeasureInv, DriverTypeOK
<1>3. DriverTypeOK' /\ ArmsRunOneScenario'
  BY <1>1, <1>2 DEF MeasureInv, DriverTypeOK, ArmsRunOneScenario
<1>4. Rival' = nextTxn /\ Blank(Rival)' /\ txn = nextTxn - 1
  BY <1>1 DEF MeasureInv, OpenLogs, Blank, Rival, ChainState
<1>5. nextTxn \notin committed
  BY <1>1 DEF L2Inv, TypeOK
<1>6. ChainState'
  BY <1>1, <1>2, <1>4, <1>5 DEF MeasureInv, ChainState, LinkOpen, RivalOpen, ReadSet
<1>7. OpenLogs'
  BY <1>1, <1>4 DEF MeasureInv, OpenLogs, Blank, Logs, ReadSet, RivalOpen, NextCell, OwnValue
<1>8. StoresMatch' /\ TracesMatch'
  BY <1>2, BeginMatches DEF MeasureInv, DriveRivalBegin
<1>9. ReadsGoBack' /\ AskedAreOut'
  BY <1>1 DEF MeasureInv, ReadsGoBack, AskedAreOut
<1>r. Reviewable' /\ ReviewState'
  BY <1>1, <1>2, ReviewableKept DEF MeasureInv, ReviewState
<1> QED BY <1>r, <1>3, <1>6, <1>7, <1>8, <1>9 DEF MeasureInv

\* The link reads the last cell its chain committed.
LEMMA DriveReadInv ==
  ASSUME L2Inv, MeasureInv, DriveRead
  PROVE  MeasureInv'
<1> DEFINE c == Last(written["verified"])
<1>1. /\ phase = "read" /\ phase' = "write" /\ Read(txn, c)
      /\ UNCHANGED << shape, link, txn, written, okTxns, asked >>
  BY DEF DriveRead, Goto
<1>2. InChain /\ InChain' /\ Unreviewed /\ Unreviewed' /\ LinkOpen /\ link > 0 /\ link \in Nat
  BY <1>1 DEF InChain, Unreviewed, LinkOpen, MeasureInv, DriverTypeOK, ChainState
<1>3. c \in Cell
  BY <1>2, NumbersInRange DEF MeasureInv
<1>4. txn \in Known \ committed /\ txn = nextTxn - 1 /\ txn \in Txn
  BY <1>1, <1>2, KnownTxn DEF MeasureInv, ChainState, L2Inv
<1>5. U!Read(txn, c) /\ K!Read(txn, c)
  BY DEF DriveRead, MeasureInv, ArmsRunOneScenario, Arm
<1>6. /\ UNCHANGED << nextTxn, committed, aborted, writes >>
      /\ cellWriter[c] \in committed
      /\ readFrom' = [readFrom EXCEPT ![txn][c] = cellWriter[c]]
      /\ preds' = [preds EXCEPT ![txn] = @ \cup ClosureOf(cellWriter[c])]
  BY <1>1, <1>3, PublishedCell DEF Read
<1> HIDE DEF c
<1>7. StoresMatch' /\ TracesMatch'
  BY <1>1, <1>2, <1>3, <1>4, <1>5, ReadMatches DEF MeasureInv
<1>8. DriverTypeOK' /\ ArmsRunOneScenario'
  BY <1>1, <1>2, <1>6 DEF MeasureInv, DriverTypeOK, ArmsRunOneScenario, InChain
<1>9. ChainState'
  BY <1>1, <1>2, <1>4, <1>6 DEF MeasureInv, ChainState, LinkOpen, RivalOpen, Known
<1>10. OpenLogs'
  <2>1. \A t \in Txn \ Known : readFrom'[t] = readFrom[t]
    BY <1>4, <1>6 DEF L2Inv, TypeOK
  <2>2. \A t \in Txn \ Known : preds'[t] = preds[t]
    BY <1>4, <1>6 DEF L2Inv, TypeOK
  <2> QED BY <1>1, <1>6, <2>1, <2>2 DEF MeasureInv, OpenLogs, Blank, ReadSet, RivalOpen, Known
<1>11. ReadsGoBack'
  <2>1. cellWriter[c] < txn /\ cellWriter[c] \in Txn
    <3>1. cellWriter[c] \in Known /\ nextTxn \in Nat
      BY <1>6, L2Assumption DEF L2Inv, TypeOK
    <3> QED BY <3>1, <1>4, <1>6, KnownTxn DEF L2Inv, Known
  <2>2. \A p \in ClosureOf(cellWriter[c]) : p < txn
    <3>1. \A p \in preds[cellWriter[c]] : p < cellWriter[c] /\ p \in Txn
      BY <2>1 DEF MeasureInv, ReadsGoBack, L2Inv, TypeOK
    <3> QED BY <2>1, <3>1, <1>4, L2Assumption DEF ClosureOf, Txn
  <2>3. \A t \in Txn : preds'[t] = IF t = txn THEN preds[t] \cup ClosureOf(cellWriter[c]) ELSE preds[t]
    BY <1>4, <1>6 DEF L2Inv, TypeOK
  <2> QED BY <2>2, <2>3 DEF MeasureInv, ReadsGoBack
<1>12. AskedAreOut'
  BY <1>1 DEF AskedAreOut
<1>r. Reviewable' /\ ReviewState'
  BY <1>1, <1>2, <1>6, ReviewableKept DEF MeasureInv, ReviewState
<1> QED BY <1>r, <1>7, <1>8, <1>9, <1>10, <1>11, <1>12 DEF MeasureInv

\* The link writes the next cell, on the runtime alone.
LEMMA DriveWriteInv ==
  ASSUME L2Inv, MeasureInv, DriveWrite
  PROVE  MeasureInv'
<1>1. /\ phase = "write" /\ phase' = (IF HasRival THEN "rivalBegin" ELSE "commit")
      /\ writes' = [writes EXCEPT ![txn][NextCell("verified")] = OwnValue]
      /\ UNCHANGED << nextTxn, committed, aborted, readValue, readFrom, preds,
                      cellValue, cellWriter >>
      /\ UNCHANGED << shape, link, txn, written, okTxns, asked, uVars, kVars >>
  BY DEF DriveWrite, Goto, Write, readVars, cellVars
<1>2. InChain /\ InChain' /\ Unreviewed /\ LinkOpen /\ link \in Nat
  BY <1>1 DEF InChain, Unreviewed, LinkOpen, MeasureInv, DriverTypeOK
<1>3. NextCell("verified") \in Cell /\ OwnValue \in Value
  BY <1>2, NumbersInRange DEF MeasureInv
<1>4. txn \in Known \ committed /\ txn = nextTxn - 1 /\ txn \in Txn
  BY <1>1, <1>2, KnownTxn DEF MeasureInv, ChainState, L2Inv
<1>5. HasRival => link > 0
  BY <1>2 DEF HasRival
<1>6. DriverTypeOK' /\ ArmsRunOneScenario'
  BY <1>1, <1>2 DEF MeasureInv, DriverTypeOK, ArmsRunOneScenario, InChain
<1>7. ChainState'
  BY <1>1, <1>2, <1>4, <1>5 DEF MeasureInv, ChainState, LinkOpen, RivalOpen, Known, ReadSet
<1>8. OpenLogs'
  <2>1. Logs(txn, NextCell("verified"), OwnValue)'
    BY <1>1, <1>3, <1>4 DEF MeasureInv, OpenLogs, Blank, Logs, L2Inv, TypeOK, NextCell, OwnValue
  <2>2. \A t \in Txn \ Known : writes'[t] = writes[t]
    BY <1>1, <1>4 DEF L2Inv, TypeOK
  <2> QED BY <1>1, <2>1, <2>2 DEF MeasureInv, OpenLogs, Blank, ReadSet, RivalOpen, Known
<1>9. StoresMatch' /\ TracesMatch'
  BY <1>1, <1>2, AsideMatches DEF MeasureInv
<1>10. ReadsGoBack' /\ AskedAreOut'
  BY <1>1 DEF MeasureInv, ReadsGoBack, AskedAreOut
<1>r. Reviewable' /\ ReviewState'
  BY <1>1, <1>2, ReviewableKept DEF MeasureInv, ReviewState
<1> QED BY <1>r, <1>6, <1>7, <1>8, <1>9, <1>10 DEF MeasureInv

\* The rival writes the cell the link has read.
LEMMA DriveRivalWriteInv ==
  ASSUME L2Inv, MeasureInv, DriveRivalWrite
  PROVE  MeasureInv'
<1> DEFINE c == Last(written["verified"])
<1>1. /\ phase = "rivalWrite" /\ phase' = "rivalCommit"
      /\ Rival \in Known
      /\ writes' = [writes EXCEPT ![Rival][c] = RivalValue]
      /\ UNCHANGED << nextTxn, committed, aborted, readValue, readFrom, preds,
                      cellValue, cellWriter >>
      /\ UNCHANGED << shape, link, txn, written, okTxns, asked, uVars, kVars >>
  BY DEF DriveRivalWrite, Goto, Write, Open, readVars, cellVars, Rival
<1>2. InChain /\ InChain' /\ Unreviewed /\ LinkOpen /\ RivalOpen /\ link \in Nat /\ link > 0
  BY <1>1 DEF InChain, Unreviewed, LinkOpen, RivalOpen, MeasureInv, DriverTypeOK, ChainState
<1>3. c \in Cell /\ RivalValue \in Value
  BY <1>2, NumbersInRange DEF MeasureInv
<1>4. txn \in Known \ committed /\ txn # Rival /\ txn \in Txn /\ Rival \in Txn
  <2>1. txn \in Known \ committed /\ txn < Rival
    BY <1>2 DEF MeasureInv, ChainState
  <2>2. txn \in Nat
    BY <2>1 DEF Known
  <2> QED BY <1>1, <2>1, <2>2, KnownTxn DEF L2Inv
<1>6. DriverTypeOK' /\ ArmsRunOneScenario'
  BY <1>1, <1>2 DEF MeasureInv, DriverTypeOK, ArmsRunOneScenario, InChain
<1>7. ChainState'
  BY <1>1, <1>2, <1>4 DEF MeasureInv, ChainState, LinkOpen, RivalOpen, Known, ReadSet, Rival
<1>8. OpenLogs'
  <2>1. Logs(Rival, c, RivalValue)'
    BY <1>1, <1>3, <1>4 DEF MeasureInv, OpenLogs, Blank, Logs, L2Inv, TypeOK, RivalValue, Rival
  <2>2. \A t \in Txn : t # Rival => writes'[t] = writes[t]
    BY <1>1, <1>4 DEF L2Inv, TypeOK
  <2>3. Logs(txn, NextCell("verified"), OwnValue)'
    BY <1>1, <1>2, <1>4, <2>2 DEF MeasureInv, OpenLogs, Logs, NextCell, OwnValue
  <2> QED BY <1>1, <2>1, <2>2, <2>3 DEF MeasureInv, OpenLogs, Blank, ReadSet, RivalOpen, Known
<1>9. StoresMatch' /\ TracesMatch'
  BY <1>1, <1>2, AsideMatches DEF MeasureInv
<1>10. ReadsGoBack' /\ AskedAreOut'
  BY <1>1 DEF MeasureInv, ReadsGoBack, AskedAreOut
<1>r. Reviewable' /\ ReviewState'
  BY <1>1, <1>2, ReviewableKept DEF MeasureInv, ReviewState
<1> QED BY <1>r, <1>6, <1>7, <1>8, <1>9, <1>10 DEF MeasureInv

\* What a commit on every arm comes to.
LEMMA CommitAll ==
  ASSUME L2Inv, MeasureInv, InChain, NEW t \in Known, t \notin aborted,
         NEW cell, NEW v \in Value, cell["verified"] \in Cell,
         cell["unguarded"] = cell["verified"], cell["cascade"] = cell["verified"],
         Logs(t, cell["verified"], v), CommitEverywhere(t, cell, v)
  PROVE  /\ \A a \in Arm : Accepts(a, t) <=> CommitValid(t)
         /\ UNCHANGED << nextTxn, aborted, writes, readValue, readFrom, preds >>
         /\ committed' = IF CommitValid(t) THEN committed \cup {t} ELSE committed
         /\ \A a \in Arm : okTxns'[a] = okTxns'["verified"]
         /\ okTxns'["verified"] = IF CommitValid(t) THEN Append(okTxns["verified"], t)
                                                    ELSE okTxns["verified"]
         /\ StoresMatch' /\ TracesMatch'
<1>0. Unreviewed
  BY DEF InChain, Unreviewed
<1>1. \A a \in Arm : Accepts(a, t) <=> CommitValid(t)
  BY <1>0, ArmsAgree DEF MeasureInv, ChainState
<1>2. \A a \in Arm : okTxns'[a] = okTxns'["verified"]
  BY <1>1 DEF CommitEverywhere, MeasureInv, ArmsRunOneScenario, Arm
<1>2a. okTxns'["verified"] = IF CommitValid(t) THEN Append(okTxns["verified"], t)
                                               ELSE okTxns["verified"]
  BY <1>1 DEF CommitEverywhere, Arm
<1>3. CASE CommitValid(t)
  <2>1. /\ Commit(t)
        /\ U!Commit(t, [c \in {cell["verified"]} |-> v])
        /\ K!Commit(t, [c \in {cell["verified"]} |-> v])
    BY <1>1, <1>3 DEF CommitEverywhere, Arm
  <2>2. StoresMatch' /\ TracesMatch'
    BY <1>0, <2>1, CommitMatches DEF MeasureInv
  <2> QED BY <1>1, <1>2, <1>2a, <1>3, <2>1, <2>2 DEF Commit, readVars
<1>4. CASE ~ CommitValid(t)
  <2>1. UNCHANGED << vars, uVars, kVars >>
    BY <1>1, <1>4 DEF CommitEverywhere, Arm
  <2>2. StoresMatch' /\ TracesMatch'
    BY <1>0, <2>1, AsideMatches DEF MeasureInv, vars
  <2> QED BY <1>1, <1>2, <1>2a, <1>4, <2>1, <2>2 DEF vars
<1> QED BY <1>3, <1>4

\* The rival commits and makes the link's read stale.
LEMMA DriveRivalCommitInv ==
  ASSUME L2Inv, MeasureInv, DriveRivalCommit
  PROVE  MeasureInv'
<1> DEFINE cell == [a \in Arm |-> Last(written[a])]
<1>1. /\ phase = "rivalCommit" /\ phase' = "commit"
      /\ CommitEverywhere(Rival, cell, RivalValue)
      /\ UNCHANGED << shape, link, txn, written, asked >>
  BY DEF DriveRivalCommit, Rival
<1>2. InChain /\ InChain' /\ LinkOpen /\ RivalOpen /\ link \in Nat /\ link > 0
  BY <1>1 DEF InChain, LinkOpen, RivalOpen, MeasureInv, DriverTypeOK, ChainState
<1>3. /\ cell["verified"] \in Cell /\ RivalValue \in Value
      /\ cell["unguarded"] = cell["verified"] /\ cell["cascade"] = cell["verified"]
      /\ cell["verified"] = Last(written["verified"])
  BY <1>2, NumbersInRange DEF MeasureInv, Arm, ArmsRunOneScenario
<1>4. /\ txn \in Known \ committed /\ txn < Rival /\ txn \in Nat
      /\ Rival \in Known /\ Rival \notin aborted
  <2>1. txn \in Known \ committed /\ txn < Rival /\ \A t \in aborted : t < txn
    BY <1>2 DEF MeasureInv, ChainState
  <2>2. txn \in Nat /\ nextTxn \in Nat /\ aborted \subseteq Nat
    BY <2>1, L2Assumption DEF Known, L2Inv, TypeOK
  <2> QED BY <2>1, <2>2 DEF Rival, Known
<1>5. Logs(Rival, cell["verified"], RivalValue)
  BY <1>1, <1>3 DEF MeasureInv, OpenLogs
<1> HIDE DEF cell
<1>6. /\ UNCHANGED << nextTxn, aborted, writes, readFrom, preds >>
      /\ committed \subseteq committed' /\ committed' \subseteq committed \cup {Rival}
      /\ \A a \in Arm : okTxns'[a] = okTxns'["verified"]
      /\ okTxns'["verified"] = IF CommitValid(Rival) THEN Append(okTxns["verified"], Rival)
                                                     ELSE okTxns["verified"]
      /\ CommitValid(Rival) => Rival \in committed'
      /\ StoresMatch' /\ TracesMatch'
  BY <1>1, <1>2, <1>3, <1>4, <1>5, CommitAll
<1>7. DriverTypeOK'
  BY <1>1, <1>2, <1>6 DEF MeasureInv, DriverTypeOK, InChain
<1>7a. ArmsRunOneScenario'
  BY <1>1, <1>6 DEF MeasureInv, ArmsRunOneScenario, Arm
<1>8. ChainState'
  BY <1>1, <1>2, <1>4, <1>6 DEF MeasureInv, ChainState, LinkOpen, RivalOpen, Known, ReadSet
<1>9. OpenLogs'
  BY <1>1, <1>2, <1>6 DEF MeasureInv, OpenLogs, Blank, Logs, ReadSet, RivalOpen, Known,
     NextCell, OwnValue
<1>10. ReadsGoBack' /\ AskedAreOut'
  BY <1>1, <1>6 DEF MeasureInv, ReadsGoBack, AskedAreOut
<1>r. Reviewable' /\ ReviewState'
  <2>1. Rival \in Txn
    BY <1>4, KnownTxn DEF L2Inv
  <2>2. CASE CommitValid(Rival)
    BY <1>1, <1>2, <1>6, <2>1, <2>2, ReviewableGrows DEF MeasureInv, ReviewState
  <2>3. CASE ~ CommitValid(Rival)
    BY <1>1, <1>2, <1>6, <2>3 DEF MeasureInv, Reviewable, ReviewState
  <2> QED BY <2>2, <2>3
<1> QED BY <1>r, <1>6, <1>7, <1>7a, <1>8, <1>9, <1>10 DEF MeasureInv

\* The link commits on every arm or on none.
LEMMA DriveCommitInv ==
  ASSUME L2Inv, MeasureInv, DriveCommit
  PROVE  MeasureInv'
<1> DEFINE cell == [a \in Arm |-> NextCell(a)]
<1>1. /\ phase = "commit"
      /\ CommitEverywhere(txn, cell, OwnValue)
      /\ UNCHANGED << shape, txn, asked >>
  BY DEF DriveCommit, NextLink
<1>2. InChain /\ LinkOpen /\ link \in Nat /\ link <= shape.chain
  BY <1>1 DEF InChain, LinkOpen, MeasureInv, DriverTypeOK
<1>3. /\ cell["verified"] \in Cell /\ OwnValue \in Value
      /\ cell["unguarded"] = cell["verified"] /\ cell["cascade"] = cell["verified"]
      /\ cell["verified"] = NextCell("verified")
  BY <1>2, NumbersInRange DEF MeasureInv, Arm, ArmsRunOneScenario, NextCell
<1>4. txn \in Known \ committed /\ txn \notin aborted /\ txn \in Nat
  BY <1>2 DEF MeasureInv, ChainState, Known
<1>5. Logs(txn, cell["verified"], OwnValue)
  BY <1>1, <1>3 DEF MeasureInv, OpenLogs
<1> HIDE DEF cell
<1>6. /\ \A a \in Arm : Accepts(a, txn) <=> CommitValid(txn)
      /\ UNCHANGED << nextTxn, aborted, writes, readFrom, preds >>
      /\ committed' = IF CommitValid(txn) THEN committed \cup {txn} ELSE committed
      /\ \A a \in Arm : okTxns'[a] = okTxns'["verified"]
      /\ okTxns'["verified"] = IF CommitValid(txn) THEN Append(okTxns["verified"], txn)
                                                   ELSE okTxns["verified"]
      /\ StoresMatch' /\ TracesMatch'
  BY <1>1, <1>2, <1>3, <1>4, <1>5, CommitAll
<1>7. OpenLogs' /\ ReadsGoBack' /\ AskedAreOut' /\ ReviewState'
  <2>1. phase' \in {"begin", "release", "abort"}
    BY <1>1 DEF DriveCommit, NextLink
  <2> QED BY <1>6, <2>1 DEF MeasureInv, OpenLogs, Blank, ReadSet, RivalOpen, Known,
         ReadsGoBack, AskedAreOut, ReviewState
<1>8. CASE CommitValid(txn)
  <2>1. /\ link' = link + 1
        /\ phase' = IF link < shape.chain THEN "begin" ELSE "release"
        /\ written' = [a \in Arm |-> Append(written[a], NextCell(a))]
    BY <1>6, <1>8 DEF DriveCommit, NextLink, Arm
  <2> DEFINE w == written["verified"]
  <2>2. w \in Seq(0 .. Depth + 2) /\ Len(w) <= link /\ Len(w) \in 0 .. Depth + 2
    <3>1. w \in Seq(0 .. Depth + 2) /\ Len(w) <= link /\ shape.chain \in 1 .. Depth + 2
      BY <1>2 DEF MeasureInv, DriverTypeOK, ChainState
    <3>2. Len(w) \in Nat
      BY <3>1
    <3> QED BY <3>1, <3>2, <1>2, MeasureAssumption
  <2>3. \A a \in Arm : written'[a] = Append(w, Len(w))
    BY <2>1 DEF NextCell, MeasureInv, ArmsRunOneScenario, Arm
  <2>4. /\ written'["verified"] \in Seq(0 .. Depth + 2)
        /\ Len(written'["verified"]) = Len(w) + 1
    <3>1. ASSUME NEW S, NEW q \in Seq(S), NEW e \in S
          PROVE  Append(q, e) \in Seq(S) /\ Len(Append(q, e)) = Len(q) + 1
      OBVIOUS
    <3>2. written'["verified"] = Append(w, Len(w))
      BY <2>3 DEF Arm
    <3> QED BY ONLY <3>1, <3>2, <2>2
  <2>5. ArmsRunOneScenario'
    BY <1>6, <2>3 DEF ArmsRunOneScenario, Arm
  <2>6. DriverTypeOK'
    BY <1>1, <1>2, <1>6, <2>1, <2>4 DEF MeasureInv, DriverTypeOK, InChain
  <2>7. ChainState'
    BY <1>2, <1>4, <1>6, <1>8, <2>1, <2>2, <2>4
       DEF MeasureInv, ChainState, LinkOpen, RivalOpen, InChain
  <2>8. Reviewable'
    <3>1. txn \in Txn /\ txn \in committed' /\ link' > 0
      BY <1>2, <1>4, <1>6, <1>8, <2>1, KnownTxn DEF L2Inv
    <3> QED BY <1>1, <1>6, <1>8, <3>1, ReviewableGrows DEF MeasureInv
  <2> QED BY <1>6, <1>7, <2>5, <2>6, <2>7, <2>8 DEF MeasureInv
<1>9. CASE ~ CommitValid(txn)
  <2>1. /\ link' = link /\ phase' = "abort"
        /\ \A a \in Arm : written'[a] = written[a]
    BY <1>6, <1>9 DEF DriveCommit, Arm
  <2>2. link > 0
    <3>1. ASSUME link = 0 PROVE CommitValid(txn)
      <4>1. ReadSet(txn) = {} /\ aborted \cap committed = {}
        BY <1>2, <3>1 DEF MeasureInv, ChainState
      <4>2. preds[txn] \subseteq committed \ aborted
        BY <1>4, <4>1, KnownTxn DEF L2Inv, CommittedFrozen
      <4> QED BY <1>4, <4>1, <4>2 DEF CommitValid, ReadsFresh, PredecessorsClean
    <3> QED BY <1>2, <1>9, <3>1
  <2>3. DriverTypeOK' /\ ArmsRunOneScenario'
    BY <1>1, <1>2, <1>6, <2>1 DEF MeasureInv, DriverTypeOK, ArmsRunOneScenario, InChain, Arm
  <2>4. ChainState'
    BY <1>1, <1>2, <1>6, <1>9, <2>1, <2>2
       DEF MeasureInv, ChainState, LinkOpen, RivalOpen, InChain, Known, ReadSet, Arm
  <2>5. Reviewable'
    BY <1>1, <1>2, <1>6, <1>9, <2>1, <2>2 DEF MeasureInv, Reviewable, InChain
  <2> QED BY <1>6, <1>7, <2>3, <2>4, <2>5 DEF MeasureInv
<1> QED BY <1>8, <1>9

\* A refused link is aborted, and nobody rests on it.
LEMMA DriveAbortInv ==
  ASSUME L2Inv, MeasureInv, DriveAbort
  PROVE  MeasureInv'
<1>1. /\ phase = "abort" /\ link' = link + 1
      /\ phase' = IF link < shape.chain THEN "begin" ELSE "release"
      /\ aborted' = aborted \cup Cascade(txn)
      /\ UNCHANGED << nextTxn, committed, writes, readValue, readFrom, preds,
                      cellValue, cellWriter >>
      /\ UNCHANGED << shape, txn, written, okTxns, asked, uVars, kVars >>
  BY DEF DriveAbort, NextLink, Abort, readVars, cellVars
<1>2. InChain /\ Unreviewed /\ LinkOpen /\ link \in Nat /\ link <= shape.chain /\ link > 0
  BY <1>1 DEF InChain, Unreviewed, LinkOpen, MeasureInv, DriverTypeOK, ChainState
<1>3. txn \in Known \ committed
  BY <1>2 DEF MeasureInv, ChainState
<1>4. Cascade(txn) = {txn}
  BY <1>3, KnownTxn DEF Cascade, L2Inv, CommittedFrozen
<1>5. DriverTypeOK' /\ ArmsRunOneScenario'
  BY <1>1, <1>2 DEF MeasureInv, DriverTypeOK, ArmsRunOneScenario, InChain
<1>6. ChainState'
  <2>1. Len(written["verified"]) <= link /\ Len(written["verified"]) \in Nat
    BY <1>2 DEF MeasureInv, ChainState, DriverTypeOK
  <2> QED BY <1>1, <1>2, <1>3, <1>4, <2>1 DEF MeasureInv, ChainState, LinkOpen, RivalOpen, InChain
<1>7. OpenLogs' /\ ReadsGoBack' /\ AskedAreOut'
  BY <1>1 DEF MeasureInv, OpenLogs, Blank, ReadSet, RivalOpen, Known, ReadsGoBack, AskedAreOut
<1>8. StoresMatch' /\ TracesMatch'
  BY <1>1, <1>2, AsideMatches DEF MeasureInv
<1>9. Reviewable' /\ ReviewState'
  BY <1>1, <1>2, ReviewableKept DEF MeasureInv, ReviewState
<1> QED BY <1>9, <1>5, <1>6, <1>7, <1>8 DEF MeasureInv

\* A pass asks for one transaction after the other.
LEMMA DriveReleaseInv ==
  ASSUME L2Inv, MeasureInv, DriveRelease
  PROVE  MeasureInv'
<1>1. /\ phase \in {"release", "releaseAll"} /\ asked < nextTxn /\ asked' = asked + 1
      /\ UNCHANGED << nextTxn, committed, aborted, writes, readValue, readFrom, preds,
                      cellValue, cellWriter >>
      /\ UNCHANGED << uVars, kVars, refusedReview >> /\ externalized \subseteq externalized'
      /\ UNCHANGED << shape, phase, link, txn, written, okTxns >>
  BY DEF DriveRelease, Externalize, readVars, cellVars, vars
<1>2. asked \in Nat /\ nextTxn \in Nat
  BY L2Assumption DEF MeasureInv, DriverTypeOK, L2Inv, TypeOK
<1>3. ~ InChain /\ ~ InChain' /\ ~ LinkOpen' /\ ~ RivalOpen'
  BY <1>1 DEF InChain, LinkOpen, RivalOpen
<1>4. DriverTypeOK' /\ ArmsRunOneScenario'
  BY <1>1, <1>2, <1>3 DEF MeasureInv, DriverTypeOK, ArmsRunOneScenario
<1>5. ChainState' /\ OpenLogs' /\ ReadsGoBack'
  BY <1>1, <1>3 DEF MeasureInv, ChainState, OpenLogs, ReadsGoBack, Blank,
     ReadSet, Known
<1>6. AskedAreOut'
  <2> SUFFICES ASSUME phase = "releaseAll", NEW t \in committed \ aborted, t < asked + 1
               PROVE  t \in externalized'
    BY <1>1 DEF AskedAreOut
  <2>1. externalized \subseteq externalized'
    BY DEF DriveRelease, Externalize, vars
  <2>2. t \in Nat /\ t \in Txn
    <3>1. t \in Known
      BY DEF L2Inv, TypeOK
    <3>2. t \in Txn
      BY <3>1, KnownTxn DEF L2Inv
    <3> QED BY <3>2 DEF Txn
  <2>3. CASE t < asked
    BY <2>1, <2>3 DEF MeasureInv, AskedAreOut
  <2>4. CASE t = asked
    <3>1. \A p \in preds[t] : p \in committed \ aborted /\ p < asked
      BY <2>2, <2>4 DEF L2Inv, CommittedFrozen, NoUnpropagatedA3, MeasureInv, ReadsGoBack
    <3>2. preds[t] \subseteq externalized
      BY <3>1 DEF MeasureInv, AskedAreOut
    <3>3. t \notin externalized => ToAsk(t) /\ ExternalizeValid(t)
      BY <3>2 DEF ToAsk, ExternalizeValid
    <3> QED BY <2>1, <2>4, <3>3 DEF DriveRelease, Externalize
  <2> QED BY <1>2, <2>2, <2>3, <2>4
<1>7. StoresMatch' /\ TracesMatch'
  BY <1>1 DEF MeasureInv, StoresMatch, StoreMatches, TracesMatch, StoreTrace, uVars, kVars,
     ReadSet, Known, Unreviewed
<1>8. Reviewable'
  BY <1>1, <1>3, ReviewableKept DEF MeasureInv, Reviewable
<1>9. ReviewState'
  BY <1>1 DEF MeasureInv, ReviewState, Reviewed, uVars, kVars, Known
<1> QED BY <1>4, <1>5, <1>6, <1>7, <1>8, <1>9 DEF MeasureInv

\* Stores record older transactions only.
LEMMA StoresGoBack ==
  ASSUME L2Inv, MeasureInv, NEW S, StoreTrace(S)
  PROVE  Backwards(S, nextTxn)
<1>1. DOMAIN S = 0 .. nextTxn - 1 /\ nextTxn \in Nat
  BY L2Assumption DEF StoreTrace, Known, L2Inv, TypeOK
<1>2. ASSUME NEW t \in Known, NEW p \in S[t].preds PROVE p \in Nat /\ p < t
  <2>1. p \in preds[t] /\ t \in Txn
    BY <1>2, KnownTxn DEF StoreTrace, L2Inv
  <2> QED BY <2>1 DEF MeasureInv, ReadsGoBack, L2Inv, TypeOK, Txn
<1> QED BY <1>1, <1>2 DEF Backwards, Known

\* The transaction reviewed is a committed one, and the same on every arm.
LEMMA ReviewedIsCommitted ==
  ASSUME MeasureInv, ~ InChain
  PROVE  /\ Reviewed("verified") \in committed
         /\ \A a \in Arm : Reviewed(a) = Reviewed("verified")
<1> DEFINE ok == okTxns["verified"]
<1>1. /\ shape.abortAt \in Nat /\ ok \in Seq(Txn) /\ Len(ok) > 0
      /\ \A k \in 1 .. Len(ok) : ok[k] \in committed
  BY DEF MeasureInv, Reviewable
<1>2. Len(ok) \in Nat \ {0}
  BY <1>1
<1>3. (shape.abortAt % Len(ok)) + 1 \in 1 .. Len(ok)
  <2> HIDE DEF ok
  <2> QED BY <1>1, <1>2
<1>4. Reviewed("verified") = ok[(shape.abortAt % Len(ok)) + 1]
  BY DEF Reviewed
<1> HIDE DEF ok
<1>5. \A a \in Arm : okTxns[a] = okTxns["verified"]
  BY DEF MeasureInv, ArmsRunOneScenario, Arm
<1> QED BY <1>1, <1>3, <1>4, <1>5 DEF Reviewed

\* The review reaches the same transaction on every arm, and flags there what
\* the arm's own cascade says.
LEMMA DriveReviewInv ==
  ASSUME L2Inv, MeasureInv, DriveReview
  PROVE  MeasureInv'
<1> DEFINE r == Reviewed("verified")
<1>1. /\ phase = "release" /\ phase' = "releaseAll" /\ asked' = 0
      /\ UNCHANGED << nextTxn, committed, externalized, writes, readFrom, preds >>
      /\ UNCHANGED << shape, link, txn, written, okTxns >>
  BY DEF DriveReview, Abort, readVars, vars
<1>2. ~ InChain /\ ~ InChain' /\ ~ LinkOpen' /\ ~ RivalOpen' /\ Unreviewed
  BY <1>1 DEF InChain, LinkOpen, RivalOpen, Unreviewed
<1>3. DriverTypeOK' /\ ArmsRunOneScenario'
  BY <1>1, <1>2, L2Assumption DEF MeasureInv, DriverTypeOK, ArmsRunOneScenario, L2Inv, TypeOK
<1>4. ChainState' /\ OpenLogs' /\ StoresMatch' /\ ReadsGoBack'
  BY <1>1, <1>2 DEF MeasureInv, ChainState, OpenLogs, StoresMatch, ReadsGoBack, Blank,
     ReadSet, Known, Unreviewed
<1>5. AskedAreOut'
  <2>1. \A t \in committed : t \in Nat
    BY DEF L2Inv, TypeOK, Known
  <2> QED BY <1>1, <2>1 DEF AskedAreOut
<1>6. Reviewable'
  BY <1>1, <1>2, ReviewableKept DEF MeasureInv, Reviewable
<1>7. /\ r \in committed /\ r \in Known
      /\ Reviewed("unguarded") = r /\ Reviewed("cascade") = r
      /\ Reviewed("verified")' = r
  <2>1. Reviewed("verified")' = r
    BY <1>1 DEF Reviewed
  <2> QED BY <1>2, <2>1, ReviewedIsCommitted DEF Arm, L2Inv, TypeOK
<1>8. \A t \in Known : ~ uTxns[t].aborted /\ ~ kTxns[t].aborted
  BY <1>2 DEF MeasureInv, StoresMatch, StoreMatches
<1> HIDE DEF r
<1>9. CASE ~ shape.retract
  <2>1. UNCHANGED << uVars, kVars >>
    BY <1>9 DEF DriveReview
  <2>2. TracesMatch'
    BY <1>1, <2>1 DEF MeasureInv, TracesMatch, StoreTrace, uVars, kVars, Known
  <2>3. ReviewState'
    BY <1>1, <1>8, <1>9, <2>1 DEF ReviewState, uVars, kVars, Known
  <2> QED BY <1>3, <1>4, <1>5, <1>6, <2>2, <2>3 DEF MeasureInv
<1>10. CASE shape.retract
  <2>1. /\ refusedReview' = ~ AbortValid(r)
        /\ IF AbortValid(r) THEN Abort(r) ELSE UNCHANGED vars
        /\ U!Abort(r) /\ K!Abort(r)
    BY <1>7, <1>10 DEF DriveReview, r
  <2>2. r \in (IF refusedReview' THEN externalized' ELSE aborted')
    BY <1>1, <1>7, <2>1 DEF AbortValid, Abort, Cascade
  <2>3. U!Flags(r) = {r} /\ \A t \in Known : t \in K!Flags(r) <=> t = r \/ r \in Closure(kTxns, t)
    BY CascadeWalksClosure DEF U!Flags, K!Flags, MeasureInv, TracesMatch, StoreTrace
  <2> DEFINE After(S, F) ==
               [u \in DOMAIN S |-> IF u \in F THEN [S[u] EXCEPT !.aborted = TRUE] ELSE S[u]]
  <2>4. ASSUME NEW S, StoreTrace(S), NEW F
        PROVE  /\ After(S, F) \in [Known -> StoreRecord]
               /\ \A t \in Known :
                     /\ After(S, F)[t].committed = S[t].committed
                     /\ After(S, F)[t].externalized = S[t].externalized
                     /\ After(S, F)[t].preds = S[t].preds
                     /\ After(S, F)[t].aborted <=> t \in F \/ S[t].aborted
    <3>1. S \in [Known -> StoreRecord]
      BY <2>4 DEF StoreTrace
    <3> QED BY <2>4, <3>1 DEF StoreRecord
  <2>5. StoreTrace(uTxns) /\ StoreTrace(kTxns)
    BY DEF MeasureInv, TracesMatch
  <2>6. uTxns' = After(uTxns, U!Flags(r)) /\ kTxns' = After(kTxns, K!Flags(r))
    BY <2>1 DEF U!Abort, K!Abort
  <2> HIDE DEF After
  <2>7. /\ uTxns' \in [Known -> StoreRecord] /\ kTxns' \in [Known -> StoreRecord]
        /\ \A t \in Known :
              /\ uTxns'[t].committed = uTxns[t].committed
              /\ uTxns'[t].externalized = uTxns[t].externalized
              /\ uTxns'[t].preds = uTxns[t].preds
              /\ uTxns'[t].aborted <=> t \in U!Flags(r) \/ uTxns[t].aborted
              /\ kTxns'[t].committed = kTxns[t].committed
              /\ kTxns'[t].externalized = kTxns[t].externalized
              /\ kTxns'[t].preds = kTxns[t].preds
              /\ kTxns'[t].aborted <=> t \in K!Flags(r) \/ kTxns[t].aborted
    BY <2>4, <2>5, <2>6
  <2>8. TracesMatch'
    <3>1. StoreTrace(uTxns)' /\ StoreTrace(kTxns)'
      BY <1>1, <2>5, <2>7 DEF StoreTrace, Known
    <3> QED BY <1>1, <2>7, <3>1 DEF MeasureInv, TracesMatch, Known
  <2>9. ASSUME NEW t \in Known PROVE Closure(kTxns', t) = Closure(kTxns, t)
    <3>1. /\ Backwards(kTxns, nextTxn) /\ t \in 0 .. nextTxn - 1
          /\ DOMAIN kTxns' = DOMAIN kTxns
          /\ \A q \in DOMAIN kTxns : kTxns'[q].preds = kTxns[q].preds
      BY <2>5, <2>7, StoresGoBack DEF StoreTrace, Known
    <3> QED BY <3>1, ClosureOfSamePreds
  <2>10. ReviewState'
    BY <1>1, <1>7, <1>8, <1>10, <2>2, <2>3, <2>7, <2>9 DEF ReviewState, Known
  <2> QED BY <1>3, <1>4, <1>5, <1>6, <2>8, <2>10 DEF MeasureInv
<1> QED BY <1>9, <1>10

-----------------------------------------------------------------------------
\* The driver's invariant holds with the runtime's.
THEOREM MeasureInvariance == MSpec => [](L2Inv /\ MeasureInv)
<1>1. MInit => L2Inv /\ MeasureInv
  BY InitInv, InitMeasureInv DEF MInit
<1>2. ASSUME L2Inv /\ MeasureInv, [MNext]_<< vars, uVars, kVars, driverVars >>
      PROVE  (L2Inv /\ MeasureInv)'
  <2>1. CASE MNext
    <3>1. L2Inv'
      BY <1>2, <2>1, DriveNext, NextInv
    <3>2. MeasureInv'
      BY <1>2, <2>1, DriveBeginInv, DriveReadInv, DriveWriteInv, DriveRivalBeginInv,
         DriveRivalWriteInv, DriveRivalCommitInv, DriveCommitInv, DriveAbortInv,
         DriveReleaseInv, DriveReviewInv
         DEF MNext
    <3> QED BY <3>1, <3>2
  <2>2. CASE UNCHANGED << vars, uVars, kVars, driverVars >>
    <3>1. L2Inv'
      BY <1>2, <2>2, NextInv
    <3>2. MeasureInv'
      BY <1>2, <2>2 DEF vars, uVars, kVars, driverVars, MeasureInv, DriverTypeOK,
         ArmsRunOneScenario, ChainState, OpenLogs, StoresMatch, StoreMatches,
         ReadsGoBack, AskedAreOut, TracesMatch, StoreTrace, Reviewable, ReviewState,
         Reviewed, Unreviewed, InChain, LinkOpen, RivalOpen, Rival, Logs, Blank,
         ReadSet, Known, NextCell, OwnValue, RivalValue, Last
    <3> QED BY <3>1, <3>2
  <2> QED BY <1>2, <2>1, <2>2
<1> QED BY <1>1, <1>2, PTL DEF MSpec

\* The arms run one schedule: the verified runtime and the two stores that
\* release at commit accept and refuse the same commits (run_guarded,
\* run_release_at_commit).
THEOREM ArmsAreInLockstep == MSpec => []ArmsRunOneScenario
<1>1. MeasureInv => ArmsRunOneScenario
  BY DEF MeasureInv
<1> QED BY <1>1, MeasureInvariance, PTL

\* The release pass that ends a scenario leaves no live transaction held
\* (release_pass).
THEOREM LiveEffectsAreReleased == MSpec => []EveryLiveEffectReleased
<1>1. ASSUME L2Inv, MeasureInv PROVE EveryLiveEffectReleased
  <2> SUFFICES ASSUME Ended PROVE externalized = committed \ aborted
    BY DEF EveryLiveEffectReleased
  <2>1. \A t \in committed : t < asked
    BY <1>1, L2Assumption DEF Ended, L2Inv, TypeOK, Known
  <2>2. committed \ aborted \subseteq externalized
    BY <1>1, <2>1 DEF Ended, MeasureInv, AskedAreOut
  <2> QED BY <1>1, <2>2 DEF L2Inv, ReleasedInOrder, NoA3
<1> QED BY <1>1, MeasureInvariance, PTL

-----------------------------------------------------------------------------
\* What a store recorded leads, path by path, to what the runtime recorded in
\* full: the closure the detectors compute is the runtime's own.
LEMMA ClosureIsPreds ==
  ASSUME L2Inv, MeasureInv, NEW S, StoreTrace(S), NEW t \in Known
  PROVE  Closure(S, t) = preds[t]
<1>1. Backwards(S, nextTxn)
  BY StoresGoBack
<1>2. DOMAIN S = Known /\ Known \subseteq Nat /\ Known \subseteq Txn
  BY KnownTxn, L2Assumption DEF StoreTrace, Known, L2Inv, TypeOK
<1>3. Cardinality(DOMAIN S) \in Nat
  <2>1. /\ nextTxn \in Nat /\ 0 \in Int /\ nextTxn - 1 \in Int
        /\ DOMAIN S = 0 .. nextTxn - 1
    BY <1>1 DEF Backwards
  <2>2. Cardinality(0 .. nextTxn - 1) = IF 0 > nextTxn - 1 THEN 0 ELSE nextTxn - 1 - 0 + 1
    BY <2>1, FS_Interval, Zenon
  <2> QED BY <2>1, <2>2
<1>4. \A q \in Known :
         /\ S[q].preds \subseteq Closure(S, q)
         /\ Closure(S, q) \subseteq 0 .. q - 1
         /\ \A p \in Closure(S, q) : Closure(S, p) \subseteq Closure(S, q)
  BY <1>1, ClosureFacts DEF Known
<1>5. Closure(S, t) \subseteq preds[t]
  <2>1. PredsIn(S, t) \subseteq preds[t]
    BY <1>2 DEF PredsIn, StoreTrace
  <2>2. \A p \in preds[t] : PredsIn(S, p) \subseteq preds[t]
    BY <1>2 DEF PredsIn, StoreTrace, L2Inv, CausalOrder
  <2> QED BY <1>3, <2>1, <2>2, ClosureIsWithin
<1>6. preds[t] \subseteq Closure(S, t)
  <2> DEFINE Bad == {q \in Known : ~ (preds[q] \subseteq Closure(S, q))}
  <2> SUFFICES ASSUME t \in Bad PROVE FALSE
    OBVIOUS
  <2>1. PICK m \in Bad : \A k \in Bad : m <= k
    <3>1. Bad \in SUBSET Nat
      BY <1>2
    <3> QED BY <3>1, LeastNumber
  <2>2. ASSUME NEW q \in S[m].preds PROVE preds[q] \subseteq Closure(S, m)
    <3>1. q \in Closure(S, m) /\ q \in 0 .. m - 1
      BY <1>4, <2>1
    <3>2. q \in Known /\ ~ (m <= q)
      BY <1>2, <2>1, <3>1 DEF Known, L2Inv, TypeOK
    <3> QED BY <1>4, <2>1, <3>1, <3>2
  <2>3. preds[m] \subseteq S[m].preds \cup UNION {preds[q] : q \in S[m].preds}
    BY <2>1 DEF StoreTrace
  <2> QED BY <1>4, <2>1, <2>2, <2>3
<1> QED BY <1>5, <1>6

\* The same of the trace of the runtime, where the recursion has nothing to add.
LEMMA RuntimeClosureIsPreds ==
  ASSUME L2Inv, MeasureInv, NEW t \in Known
  PROVE  Closure(VTrace, t) = preds[t]
<1>1. Known \subseteq Txn /\ nextTxn \in Nat
  BY KnownTxn, L2Assumption DEF L2Inv, TypeOK
<1>2. DOMAIN VTrace = Known /\ \A q \in Known : VTrace[q].preds = preds[q]
  BY DEF VTrace
<1>3. Backwards(VTrace, nextTxn)
  <2>1. ASSUME NEW q \in Known, NEW p \in preds[q] PROVE p \in Nat /\ p < q
    BY <1>1, <2>1 DEF MeasureInv, ReadsGoBack, L2Inv, TypeOK, Txn
  <2> QED BY <1>1, <1>2, <2>1 DEF Backwards, Known
<1>4. \A p \in preds[t] : PredsIn(VTrace, p) \subseteq preds[t]
  BY <1>1, <1>2 DEF PredsIn, L2Inv, CausalOrder
<1> QED BY <1>2, <1>3, <1>4, ClosureOfOrder DEF Known

\* On the runtime the detectors find nothing at any moment, and what a
\* retraction leaves exposed is exactly what its refusal says (detect_a3,
\* exposed_effects, Runtime::abort).
THEOREM ResidueIsRefusal == MSpec => []VerifiedResidueIsRefusal
<1>1. ASSUME L2Inv, MeasureInv PROVE VerifiedResidueIsRefusal
  <2>1. /\ DOMAIN VTrace = Known /\ DOMAIN uTxns = Known
        /\ \A t \in Known :
              /\ VTrace[t].committed <=> t \in committed
              /\ VTrace[t].aborted <=> t \in aborted
              /\ VTrace[t].externalized <=> t \in externalized
              /\ uTxns[t].externalized <=> t \in committed
    BY <1>1 DEF VTrace, MeasureInv, TracesMatch, StoreTrace
  <2>2. \A t \in Known : Closure(VTrace, t) = preds[t] /\ Closure(uTxns, t) = preds[t]
    BY <1>1, RuntimeClosureIsPreds, ClosureIsPreds DEF MeasureInv, TracesMatch
  <2>3. ~ A3(VTrace)
    BY <1>1, <2>1, <2>2 DEF A3, AbortedBasis, L2Inv, NoA3
  <2>4. ~ A3Unpropagated(VTrace)
    BY <1>1, <2>1, <2>2 DEF A3Unpropagated, AbortedBasis, L2Inv, NoUnpropagatedA3
  <2>5. ASSUME Ended, shape.retract, NEW r, r = Reviewed("verified")
        PROVE  /\ Relabeled(VTrace, r) = {}
               /\ Exposed(VTrace, r) # {} <=> refusedReview
               /\ Exposed(VTrace, r) \subseteq Exposed(uTxns, r)
    <3>1. r \in committed /\ r \in Known
      BY <1>1, <2>5, ReviewedIsCommitted DEF Ended, InChain, L2Inv, TypeOK
    <3>2. r \in (IF refusedReview THEN externalized ELSE aborted)
      BY <1>1, <2>5 DEF MeasureInv, ReviewState, Ended
    <3>3. Relabeled(VTrace, r) = {}
      BY <1>1, <2>1 DEF Relabeled, L2Inv, NoA3
    <3>4. Exposed(VTrace, r) = {t \in externalized : t = r \/ r \in preds[t]}
      BY <1>1, <2>1, <2>2 DEF Exposed, L2Inv, TypeOK
    <3>5. Exposed(VTrace, r) # {} <=> refusedReview
      BY <1>1, <3>2, <3>4 DEF L2Inv, NoA3
    <3>6. externalized \subseteq committed /\ committed \subseteq Known
      BY <1>1 DEF L2Inv, ReleasedInOrder, TypeOK
    <3>7. Exposed(VTrace, r) \subseteq Exposed(uTxns, r)
      BY <2>1, <2>2, <3>4, <3>6 DEF Exposed
    <3> QED BY <3>3, <3>5, <3>7
  <2> QED BY <2>3, <2>4, <2>5 DEF VerifiedResidueIsRefusal
<1> QED BY <1>1, MeasureInvariance, PTL

\* The cascade of the store that releases at commit satisfies the overruled
\* predicate and changes nothing that is out (run_release_at_commit).
THEOREM CascadesMoveFlags == MSpec => []CascadeMovesFlagsOnly
<1>1. ASSUME L2Inv, MeasureInv PROVE CascadeMovesFlagsOnly
  <2>1. /\ DOMAIN uTxns = Known /\ DOMAIN kTxns = Known
        /\ \A t \in Known :
              /\ uTxns[t].committed <=> t \in committed
              /\ kTxns[t].committed <=> t \in committed
              /\ uTxns[t].externalized <=> t \in committed
              /\ kTxns[t].externalized <=> t \in committed
    BY <1>1 DEF MeasureInv, TracesMatch, StoreTrace
  <2>2. \A t \in Known : Closure(uTxns, t) = preds[t] /\ Closure(kTxns, t) = preds[t]
    BY <1>1, ClosureIsPreds DEF MeasureInv, TracesMatch
  <2>3. \A t \in Known : /\ preds[t] \subseteq Known /\ t \notin preds[t]
                         /\ \A p \in preds[t] : preds[p] \subseteq preds[t]
    BY <1>1, KnownTxn DEF L2Inv, TypeOK, CommittedFrozen, CausalOrder
  <2>4. /\ \A t \in Known : AbortedBasis(uTxns, t) <=> \E p \in preds[t] : uTxns[p].aborted
        /\ \A t \in Known : AbortedBasis(kTxns, t) <=> \E p \in preds[t] : kTxns[p].aborted
    BY <2>1, <2>2, <2>3 DEF AbortedBasis
  <2>5. CASE \A t \in Known : ~ uTxns[t].aborted /\ ~ kTxns[t].aborted
    <3>1. \A t \in Known : ~ AbortedBasis(uTxns, t) /\ ~ AbortedBasis(kTxns, t)
      BY <2>3, <2>4, <2>5
    <3>2. ~ A3Unpropagated(kTxns) /\ ~ A3(kTxns) /\ ~ A3(uTxns) /\ ~ A3Unpropagated(uTxns)
      BY <2>1, <3>1 DEF A3, A3Unpropagated
    <3>3. ~ (Ended /\ shape.retract)
      <4> SUFFICES ASSUME Ended, shape.retract PROVE FALSE
        OBVIOUS
      <4>1. Reviewed("verified") \in Known
        BY <1>1, ReviewedIsCommitted DEF Ended, InChain, L2Inv, TypeOK
      <4> QED BY <1>1, <2>5, <4>1 DEF Ended, MeasureInv, ReviewState
    <3> QED BY <3>2, <3>3 DEF CascadeMovesFlagsOnly
  <2>6. CASE ~ \A t \in Known : ~ uTxns[t].aborted /\ ~ kTxns[t].aborted
    <3> DEFINE r == Reviewed("verified")
    <3>1. phase = "releaseAll"
      BY <1>1, <2>6 DEF MeasureInv, StoresMatch, StoreMatches, Unreviewed
    <3>2. \A t \in Known : /\ uTxns[t].aborted <=> t = r
                           /\ kTxns[t].aborted <=> t = r \/ r \in preds[t]
      BY <1>1, <2>2, <2>6, <3>1 DEF MeasureInv, ReviewState
    <3>3. r \in committed /\ r \in Known /\ Reviewed("unguarded") = r
      BY <1>1, <3>1, ReviewedIsCommitted DEF InChain, Arm, L2Inv, TypeOK
    <3> HIDE DEF r
    <3>4. \A t \in Known : /\ AbortedBasis(uTxns, t) <=> r \in preds[t]
                           /\ AbortedBasis(kTxns, t) <=> r \in preds[t]
      BY <2>3, <2>4, <3>2
    <3>5. ~ A3Unpropagated(kTxns)
      BY <2>1, <3>2, <3>4 DEF A3Unpropagated
    <3>6. A3(kTxns) <=> A3(uTxns)
      BY <2>1, <3>4 DEF A3
    <3>7. A3(uTxns) <=> A3Unpropagated(uTxns)
      BY <2>1, <2>3, <3>2, <3>4 DEF A3, A3Unpropagated
    <3>8. r \in Exposed(uTxns, r) /\ Exposed(kTxns, r) = Exposed(uTxns, r)
      BY <2>1, <2>2, <3>3 DEF Exposed
    <3>9. Relabeled(uTxns, r) = {}
      BY <2>1, <3>2 DEF Relabeled
    <3> QED BY <3>3, <3>5, <3>6, <3>7, <3>8, <3>9 DEF CascadeMovesFlagsOnly
  <2> QED BY <2>5, <2>6
<1> QED BY <1>1, MeasureInvariance, PTL

-----------------------------------------------------------------------------
\* A session with everything a replay needs.
Complete(s) ==
    /\ s.planCell \in Cell /\ s.resultCell \in Cell
    /\ s.planValue \in Value /\ s.resultValue \in Value
    /\ s.retracted \in BOOLEAN

\* A session's transactions, and room for them.
LEMMA SessionTxns ==
  planner \in Txn /\ executor \in Txn /\ MaxTxn \in Nat /\ MaxTime \in Nat
  BY LiveAssumption, L2Assumption DEF planner, executor, Txn

\* No call of a session meets a ceiling.
LEMMA RoomForSession ==
  ASSUME L2Inv
  PROVE  /\ now \in Nat /\ MaxTime \in Nat /\ MaxTxn \in Nat
         /\ MaxTime >= 10 /\ MaxTxn >= 2
  BY LiveAssumption, L2Assumption DEF L2Inv, TypeOK

\* A call of the script is a call of the runtime.
LEMMA VerifiedNext ==
  ASSUME L2Inv, NEW s, s.planCell \in Cell, s.resultCell \in Cell, s.planValue \in Value,
         NEW call, call = "writeResult" => s.resultValue \in Value,
         Verified(call, s)
  PROVE  [Next]_vars /\ L2Inv'
<1>1. [Next]_vars
  BY SessionTxns, Zenon DEF Verified, VerifiedCall, Next
<1> QED BY <1>1, NextInv

\* The ten calls of the verified script, one by one.  Each is accepted, but
\* for the release that is asked for too early or in vain.
LEMMA BeginPlanner ==
  ASSUME L2Inv, ~ failed, NEW s, Verified("begin", s), VerifiedAt(0, s)
  PROVE  VerifiedAt(1, s)' /\ ~ failed'
<1>1. VerifiedAccepts("begin", s)
  BY RoomForSession DEF VerifiedAccepts, VerifiedAt
<1>2. Begin /\ ~ failed'
  BY <1>1 DEF Verified, VerifiedCall
<1> QED BY <1>2, SessionTxns, RoomForSession DEF VerifiedAt, Begin, Tick, ReadSet,
           readVars, cellVars

\* The plan is the planner's to write.
LEMMA WritePlan ==
  ASSUME L2Inv, ~ failed, NEW s, s.planCell \in Cell, Verified("writePlan", s),
         VerifiedAt(1, s)
  PROVE  VerifiedAt(2, s)' /\ ~ failed'
<1>1. VerifiedAccepts("writePlan", s)
  BY RoomForSession DEF VerifiedAccepts, VerifiedAt, Open, Known, planner
<1>2. Write(planner, s.planCell, s.planValue) /\ ~ failed'
  BY <1>1 DEF Verified, VerifiedCall
<1>3. writes'[planner][s.planCell] = s.planValue
  BY <1>2, SessionTxns DEF Write, L2Inv, TypeOK
<1> QED BY <1>2, <1>3, SessionTxns, RoomForSession DEF VerifiedAt, Write, Tick, ReadSet,
           readVars, cellVars

\* Nothing was read and nothing depends on anyone: the plan commits.
LEMMA CommitPlan ==
  ASSUME L2Inv, ~ failed, NEW s, s.planCell \in Cell, s.planValue \in Value,
         Verified("commitPlan", s), VerifiedAt(2, s)
  PROVE  VerifiedAt(3, s)' /\ ~ failed'
<1>1. VerifiedAccepts("commitPlan", s)
  BY RoomForSession DEF VerifiedAccepts, VerifiedAt, CommitValid, ReadsFresh,
     PredecessorsClean,
     Known, planner
<1>2. Commit(planner) /\ ~ failed'
  BY <1>1 DEF Verified, VerifiedCall
<1>3. cellValue'[s.planCell] = s.planValue /\ cellWriter'[s.planCell] = planner
  BY <1>2, L2Assumption DEF Commit, WriteSet, VerifiedAt
<1> QED BY <1>2, <1>3, RoomForSession DEF VerifiedAt, Commit, Tick, ReadSet, readVars

\* The executor is the second transaction.
LEMMA BeginExecutor ==
  ASSUME L2Inv, ~ failed, NEW s, Verified("begin", s), VerifiedAt(3, s)
  PROVE  VerifiedAt(4, s)' /\ ~ failed'
<1>1. VerifiedAccepts("begin", s)
  BY RoomForSession DEF VerifiedAccepts, VerifiedAt
<1>2. Begin /\ ~ failed'
  BY <1>1 DEF Verified, VerifiedCall
<1> QED BY <1>2, RoomForSession DEF VerifiedAt, Begin, Tick, ReadSet, readVars, cellVars

\* The plan's cell has the plan, and reading it makes the planner a
\* predecessor.
LEMMA ReadPlan ==
  ASSUME L2Inv, ~ failed, NEW s, s.planCell \in Cell, s.planValue \in Value,
         Verified("readPlan", s), VerifiedAt(4, s)
  PROVE  VerifiedAt(5, s)' /\ ~ failed'
<1>1. VerifiedAccepts("readPlan", s)
  BY RoomForSession, L2Assumption DEF VerifiedAccepts, VerifiedAt, Open, Known, planner,
     executor
<1>2. Read(executor, s.planCell) /\ ~ failed'
  BY <1>1 DEF Verified, VerifiedCall
<1>3. /\ readValue'[executor][s.planCell] = s.planValue
      /\ \A c \in Cell : readFrom'[executor][c] =
                            IF c = s.planCell THEN planner ELSE readFrom[executor][c]
      /\ preds'[executor] = {planner} /\ preds'[planner] = {}
      /\ readFrom'[planner] = readFrom[planner]
  BY <1>2, SessionTxns DEF Read, VerifiedAt, ClosureOf, L2Inv, TypeOK, planner, executor
<1>4. ReadSet(executor)' = {s.planCell} /\ ReadSet(planner)' = {}
  BY <1>3 DEF VerifiedAt, ReadSet, planner, NoTxn
<1> QED BY <1>2, <1>3, <1>4, RoomForSession DEF VerifiedAt, Read, Tick, cellVars

\* The result may go to any cell, the plan's too.
LEMMA WriteResult ==
  ASSUME L2Inv, ~ failed, NEW s, s.planCell \in Cell, s.resultCell \in Cell,
         Verified("writeResult", s), VerifiedAt(5, s)
  PROVE  VerifiedAt(6, s)' /\ ~ failed'
<1>1. VerifiedAccepts("writeResult", s)
  BY RoomForSession DEF VerifiedAccepts, VerifiedAt, Open, Known, planner, executor
<1>2. Write(executor, s.resultCell, s.resultValue) /\ ~ failed'
  BY <1>1 DEF Verified, VerifiedCall
<1>3. writes'[planner] = writes[planner]
  BY <1>2, SessionTxns DEF Write, L2Inv, TypeOK, planner, executor
<1> QED BY <1>2, <1>3, RoomForSession DEF VerifiedAt, Write, Tick, ReadSet, readVars,
           cellVars

\* The plan is still in its cell, so the executor's read is fresh.
LEMMA CommitResult ==
  ASSUME L2Inv, ~ failed, NEW s, s.planCell \in Cell,
         Verified("commitResult", s), VerifiedAt(6, s)
  PROVE  VerifiedAt(7, s)' /\ ~ failed'
<1>1. VerifiedAccepts("commitResult", s)
  BY RoomForSession DEF VerifiedAccepts, VerifiedAt, CommitValid, ReadsFresh,
     PredecessorsClean,
     Known, planner, executor
<1>2. Commit(executor) /\ ~ failed'
  BY <1>1 DEF Verified, VerifiedCall
<1> QED BY <1>2, RoomForSession DEF VerifiedAt, Commit, Tick, ReadSet, readVars

\* The executor's first request is refused: the plan is still in.
LEMMA AskTooEarly ==
  ASSUME L2Inv, ~ failed, NEW s, Verified("askRelease", s), VerifiedAt(7, s)
  PROVE  VerifiedAt(8, s)' /\ ~ failed'
<1>1. ~ VerifiedAccepts("askRelease", s)
  BY DEF VerifiedAccepts, VerifiedAt, ExternalizeValid
<1>2. UNCHANGED vars /\ ~ failed'
  BY <1>1 DEF Verified, VerifiedCall, armVars
<1> QED BY <1>2, RoomForSession DEF VerifiedAt, vars, ReadSet

\* Retracting the plan takes the executor along.
LEMMA AbortPlan ==
  ASSUME L2Inv, ~ failed, NEW s, s.retracted, Verified("abortPlan", s), VerifiedAt(8, s)
  PROVE  VerifiedAt(9, s)' /\ ~ failed'
<1>1. VerifiedAccepts("abortPlan", s)
  BY RoomForSession DEF VerifiedAccepts, VerifiedAt, AbortValid, Known, planner
<1>2. Abort(planner) /\ ~ failed'
  BY <1>1 DEF Verified, VerifiedCall
<1>3. Cascade(planner) = {planner, executor}
  BY DEF Cascade, VerifiedAt, Known, planner, executor
<1> QED BY <1>2, <1>3, RoomForSession DEF VerifiedAt, Abort, Tick, ReadSet, readVars,
           cellVars

\* A plan that is kept is released at once: it depends on nobody.
LEMMA ReleasePlan ==
  ASSUME L2Inv, ~ failed, NEW s, ~ s.retracted, Verified("releasePlan", s), VerifiedAt(8, s)
  PROVE  VerifiedAt(9, s)' /\ ~ failed'
<1>1. VerifiedAccepts("releasePlan", s)
  BY RoomForSession DEF VerifiedAccepts, VerifiedAt, ExternalizeValid
<1>2. Externalize(planner) /\ ~ failed'
  BY <1>1 DEF Verified, VerifiedCall
<1> QED BY <1>2, RoomForSession DEF VerifiedAt, Externalize, Tick, ReadSet, readVars,
           cellVars

\* After the verdict it is granted when the plan was kept.
LEMMA AskAgain ==
  ASSUME L2Inv, ~ failed, NEW s, s.retracted \in BOOLEAN, Verified("askRelease", s),
         VerifiedAt(9, s)
  PROVE  VerifiedAt(10, s)' /\ ~ failed'
<1>1. CASE s.retracted
  <2>1. ~ VerifiedAccepts("askRelease", s)
    BY <1>1 DEF VerifiedAccepts, VerifiedAt, ExternalizeValid
  <2>2. UNCHANGED vars /\ ~ failed'
    BY <2>1 DEF Verified, VerifiedCall
  <2> QED BY <1>1, <2>2, RoomForSession DEF VerifiedAt, vars, ReadSet
<1>2. CASE ~ s.retracted
  <2>1. VerifiedAccepts("askRelease", s)
    BY <1>2, RoomForSession DEF VerifiedAccepts, VerifiedAt, ExternalizeValid, planner,
       executor
  <2>2. Externalize(executor) /\ ~ failed'
    BY <2>1 DEF Verified, VerifiedCall
  <2> QED BY <1>2, <2>2, RoomForSession DEF VerifiedAt, Externalize, Tick, ReadSet,
             readVars, cellVars
<1> QED BY <1>1, <1>2

-----------------------------------------------------------------------------
\* What each call makes of a store that releases at commit, whether it cascades
\* or not.
StoreBegins(S, S2, n) ==
    S2 = [t \in 0 .. n |-> IF t = n THEN U!NewTxn ELSE S[t]]

StoreCommits(S, V, W, S2, V2, W2, t, cell, v) ==
    /\ S2 = [S EXCEPT ![t].committed = TRUE, ![t].externalized = TRUE]
    /\ V2 = [c \in Cell |-> IF c = cell THEN v ELSE V[c]]
    /\ W2 = [c \in Cell |-> IF c = cell THEN t ELSE W[c]]

StoreReads(S, V, W, S2, t, c) ==
    S2 = [S EXCEPT ![t].readCells = @ \cup {c},
                   ![t].readValue[c] = IF V[c] = NoValue THEN @ ELSE V[c],
                   ![t].preds = @ \cup ({W[c]} \ {NoTxn, t})]

StoreAborts(S, S2, F) ==
    S2 = [u \in DOMAIN S |-> IF u \in F THEN [S[u] EXCEPT !.aborted = TRUE] ELSE S[u]]

\* How many transactions there are.
LEMMA BegunCount ==
  /\ DOMAIN uTxns = {} => U!NextId = 0
  /\ DOMAIN uTxns = {planner} => U!NextId = 1
  /\ DOMAIN kTxns = {} => K!NextId = 0
  /\ DOMAIN kTxns = {planner} => K!NextId = 1
<1>1. Cardinality({}) = 0 /\ Cardinality({planner}) = 1
  BY FS_EmptySet, FS_Singleton
<1>2. U!Cardinality(DOMAIN uTxns) = Cardinality(DOMAIN uTxns)
  BY Zenon DEF U!Cardinality, Cardinality
<1>3. K!Cardinality(DOMAIN kTxns) = Cardinality(DOMAIN kTxns)
  BY Zenon DEF K!Cardinality, Cardinality
<1> QED BY <1>1, <1>2, <1>3 DEF U!NextId, K!NextId

\* The record that a store makes for a new transaction.
LEMMA NewTxnRecord ==
  /\ U!NewTxn \in SessionRecord /\ K!NewTxn = U!NewTxn
  /\ ~ U!NewTxn.committed /\ ~ U!NewTxn.aborted /\ ~ U!NewTxn.externalized
  /\ U!NewTxn.readCells = {} /\ U!NewTxn.preds = {}
  BY DEF U!NewTxn, K!NewTxn, SessionRecord

\* The calls of a store that releases at commit, one by one.
LEMMA StorePlannerBegins ==
  ASSUME NEW S, NEW V, NEW W, NEW S2, NEW s, NEW cascades,
         StoreAt(S, V, W, 0, s, cascades), StoreBegins(S, S2, 0)
  PROVE  StoreAt(S2, V, W, 1, s, cascades)
<1>1. S2 \in [{planner} -> SessionRecord] /\ S2[planner] = U!NewTxn
  BY NewTxnRecord DEF StoreBegins, planner
<1> QED BY <1>1, NewTxnRecord DEF StoreAt, BegunAt, planner, executor

\* The executor is the store's second transaction.
LEMMA StoreExecutorBegins ==
  ASSUME NEW S, NEW V, NEW W, NEW S2, NEW s, NEW cascades,
         StoreAt(S, V, W, 2, s, cascades), StoreBegins(S, S2, 1)
  PROVE  StoreAt(S2, V, W, 3, s, cascades)
<1>1. /\ S2 \in [{planner, executor} -> SessionRecord]
      /\ S2[planner] = S[planner] /\ S2[executor] = U!NewTxn
  <2>1. S \in [{planner} -> SessionRecord]
    BY DEF StoreAt, BegunAt
  <2>2. 0 .. 1 = {planner, executor}
    BY DEF planner, executor
  <2> QED BY <2>1, <2>2, NewTxnRecord DEF StoreBegins, planner, executor
<1> QED BY <1>1, NewTxnRecord DEF StoreAt, BegunAt, planner, executor

\* The plan is in its cell and is out.
LEMMA StorePlannerCommits ==
  ASSUME NEW S, NEW V, NEW W, NEW S2, NEW V2, NEW W2, NEW s, NEW cascades,
         s.planCell \in Cell, s.planValue \in Value,
         StoreAt(S, V, W, 1, s, cascades),
         StoreCommits(S, V, W, S2, V2, W2, planner, s.planCell, s.planValue)
  PROVE  StoreAt(S2, V2, W2, 2, s, cascades)
<1>1. /\ S2 \in [{planner} -> SessionRecord]
      /\ S2[planner] = [S[planner] EXCEPT !.committed = TRUE, !.externalized = TRUE]
      /\ S[planner] \in SessionRecord
  BY DEF StoreAt, BegunAt, StoreCommits, SessionRecord
<1>2. /\ S2[planner].committed /\ S2[planner].externalized
      /\ S2[planner].aborted = S[planner].aborted
      /\ S2[planner].readCells = S[planner].readCells
      /\ S2[planner].preds = S[planner].preds
  BY <1>1 DEF SessionRecord
<1>3. /\ V2 \in [Cell -> Value \cup {NoValue}] /\ W2 \in [Cell -> {planner, executor, NoTxn}]
      /\ V2[s.planCell] = s.planValue /\ W2[s.planCell] = planner
  BY DEF StoreAt, StoreCommits
<1>4. ~ S[planner].aborted /\ S[planner].readCells = {} /\ S[planner].preds = {}
  BY DEF StoreAt, BegunAt, planner, executor
<1>5. S2 \in [BegunAt(2) -> SessionRecord]
  BY <1>1 DEF BegunAt
<1> QED BY ONLY <1>2, <1>3, <1>4, <1>5 DEF StoreAt, BegunAt, planner, executor

\* The executor has read the plan, of the planner.
LEMMA StoreExecutorReads ==
  ASSUME NEW S, NEW V, NEW W, NEW S2, NEW s, NEW cascades,
         s.planCell \in Cell, s.planValue \in Value,
         StoreAt(S, V, W, 3, s, cascades), StoreReads(S, V, W, S2, executor, s.planCell)
  PROVE  StoreAt(S2, V, W, 4, s, cascades)
<1> DEFINE c == s.planCell
           R == S[executor]
           R2 == [R EXCEPT !.readCells = @ \cup {c},
                           !.readValue = [@ EXCEPT ![c] = s.planValue],
                           !.preds = @ \cup {planner}]
<1>1. /\ S \in [{planner, executor} -> SessionRecord] /\ R \in SessionRecord
      /\ V[c] = s.planValue /\ W[c] = planner /\ V[c] # NoValue
      /\ {W[c]} \ {NoTxn, executor} = {planner}
  BY L2Assumption DEF StoreAt, BegunAt, planner, executor, NoTxn
<1>2. S2 = [S EXCEPT ![executor] = R2]
  BY <1>1 DEF StoreReads, SessionRecord
<1>3. R2 \in SessionRecord
  BY <1>1 DEF SessionRecord
<1>4. /\ R2.committed = R.committed /\ R2.aborted = R.aborted
      /\ R2.externalized = R.externalized
      /\ R2.preds = R.preds \cup {planner} /\ R2.readCells = R.readCells \cup {c}
      /\ R2.readValue = [R.readValue EXCEPT ![c] = s.planValue]
  BY <1>1 DEF SessionRecord
<1>5. R.readValue \in [Cell -> Value \cup {NoValue}]
  BY <1>1 DEF SessionRecord
<1> HIDE DEF R2
<1>6. /\ S2 \in [{planner, executor} -> SessionRecord]
      /\ S2[executor] = R2 /\ S2[planner] = S[planner]
  BY <1>1, <1>2, <1>3 DEF planner, executor
<1>7. R2.readValue[c] = s.planValue
  BY <1>4, <1>5
<1>8. /\ S[planner].committed /\ S[planner].externalized /\ ~ S[planner].aborted
      /\ S[planner].readCells = {} /\ S[planner].preds = {}
      /\ ~ R.committed /\ ~ R.externalized /\ ~ R.aborted
      /\ R.readCells = {} /\ R.preds = {}
      /\ V \in [Cell -> Value \cup {NoValue}] /\ W \in [Cell -> {planner, executor, NoTxn}]
  BY DEF StoreAt, BegunAt, planner, executor
<1>9. S2 \in [BegunAt(4) -> SessionRecord]
  BY <1>6 DEF BegunAt
<1>10. /\ S2[executor].readCells = {c} /\ S2[executor].preds = {planner}
       /\ ~ S2[executor].committed /\ ~ S2[executor].externalized /\ ~ S2[executor].aborted
       /\ S2[executor].readValue[c] = s.planValue
  BY <1>4, <1>6, <1>7, <1>8
<1>11. /\ S2[planner].committed /\ S2[planner].externalized /\ ~ S2[planner].aborted
       /\ S2[planner].readCells = {} /\ S2[planner].preds = {}
  BY <1>6, <1>8
<1> QED BY ONLY <1>1, <1>8, <1>9, <1>10, <1>11 DEF StoreAt, BegunAt, planner, executor

\* The result is out, whatever becomes of the plan.
LEMMA StoreExecutorCommits ==
  ASSUME NEW S, NEW V, NEW W, NEW S2, NEW V2, NEW W2, NEW s, NEW cascades,
         s.resultCell \in Cell, s.resultValue \in Value,
         StoreAt(S, V, W, 4, s, cascades),
         StoreCommits(S, V, W, S2, V2, W2, executor, s.resultCell, s.resultValue)
  PROVE  StoreAt(S2, V2, W2, 5, s, cascades)
<1> DEFINE R == S[executor]
           R2 == [R EXCEPT !.committed = TRUE, !.externalized = TRUE]
<1>1. S \in [{planner, executor} -> SessionRecord] /\ R \in SessionRecord
  BY DEF StoreAt, BegunAt
<1>2. S2 = [S EXCEPT ![executor] = R2]
  BY <1>1 DEF StoreCommits, SessionRecord
<1>3. /\ R2 \in SessionRecord /\ R2.committed /\ R2.externalized /\ R2.aborted = R.aborted
      /\ R2.readCells = R.readCells /\ R2.preds = R.preds /\ R2.readValue = R.readValue
  BY <1>1 DEF SessionRecord
<1> HIDE DEF R2
<1>4. /\ S2 \in [{planner, executor} -> SessionRecord]
      /\ S2[executor] = R2 /\ S2[planner] = S[planner]
  BY <1>1, <1>2, <1>3 DEF planner, executor
<1>5. V2 \in [Cell -> Value \cup {NoValue}] /\ W2 \in [Cell -> {planner, executor, NoTxn}]
  BY DEF StoreAt, StoreCommits
<1> QED BY <1>3, <1>4, <1>5 DEF StoreAt, BegunAt, planner, executor

\* The retraction marks the planner, and where it cascades the executor.
LEMMA StorePlanAborted ==
  ASSUME NEW S, NEW V, NEW W, NEW S2, NEW s, NEW cascades \in BOOLEAN,
         StoreAt(S, V, W, 5, s, cascades),
         StoreAborts(S, S2, IF cascades THEN {planner, executor} ELSE {planner})
  PROVE  StoreAt(S2, V, W, 6, s, cascades)
<1> DEFINE F == IF cascades THEN {planner, executor} ELSE {planner}
<1>1. S \in [{planner, executor} -> SessionRecord]
  BY DEF StoreAt, BegunAt
<1>2. /\ S2 \in [{planner, executor} -> SessionRecord]
      /\ \A t \in {planner, executor} :
            /\ S2[t].committed = S[t].committed /\ S2[t].externalized = S[t].externalized
            /\ S2[t].readCells = S[t].readCells /\ S2[t].preds = S[t].preds
            /\ S2[t].readValue = S[t].readValue
            /\ S2[t].aborted <=> t \in F \/ S[t].aborted
  <2>1. DOMAIN S = {planner, executor} /\ S2 = [u \in DOMAIN S |->
            IF u \in F THEN [S[u] EXCEPT !.aborted = TRUE] ELSE S[u]]
    BY <1>1 DEF StoreAborts
  <2> HIDE DEF F
  <2>2. ASSUME NEW t \in {planner, executor}
        PROVE  /\ S2[t] \in SessionRecord
               /\ S2[t].committed = S[t].committed /\ S2[t].externalized = S[t].externalized
               /\ S2[t].readCells = S[t].readCells /\ S2[t].preds = S[t].preds
               /\ S2[t].readValue = S[t].readValue
               /\ S2[t].aborted <=> t \in F \/ S[t].aborted
    <3>1. PICK r \in SessionRecord : r = S[t]
      BY <1>1
    <3>2. CASE t \in F
      <4>1. S2[t] = [r EXCEPT !.aborted = TRUE]
        BY <2>1, <3>1, <3>2
      <4> QED BY <3>1, <3>2, <4>1 DEF SessionRecord
    <3>3. CASE t \notin F
      <4>1. S2[t] = r
        BY <2>1, <3>1, <3>3
      <4> QED BY <3>1, <3>3, <4>1
    <3> QED BY <3>2, <3>3
  <2>3. S2 = [u \in {planner, executor} |-> S2[u]]
    BY <2>1
  <2> QED BY <2>2, <2>3
<1> HIDE DEF F
<1>3. /\ planner \in F /\ (executor \in F <=> cascades) /\ planner # executor
      /\ ~ S[planner].aborted /\ ~ S[executor].aborted
  BY DEF F, planner, executor, StoreAt, BegunAt
<1> QED BY <1>2, <1>3 DEF StoreAt, BegunAt, planner, executor

-----------------------------------------------------------------------------
\* From the fourth call on the executor's closure in a store is the planner.
LEMMA StoreClosure ==
  ASSUME NEW S, NEW V, NEW W, NEW s, NEW cascades, NEW k \in 4 .. 6,
         StoreAt(S, V, W, k, s, cascades)
  PROVE  /\ DOMAIN S = {planner, executor}
         /\ Closure(S, planner) = {} /\ Closure(S, executor) = {planner}
<1>1. /\ DOMAIN S = {planner, executor} /\ DOMAIN S = 0 .. 1
      /\ S[planner].preds = {} /\ S[executor].preds = {planner}
  BY DEF StoreAt, BegunAt, planner, executor
<1>2. Backwards(S, 2)
  BY <1>1 DEF Backwards, planner, executor
<1>3. PredsIn(S, planner) = {}
  BY <1>1 DEF PredsIn
<1> QED BY <1>1, <1>2, <1>3, ClosureOfOrder DEF planner, executor

\* The cascade of an abort of the plan takes the executor.
LEMMA CascadeTakesExecutor ==
  ASSUME NEW s, StoreAt(kTxns, kValue, kWriter, 5, s, TRUE)
  PROVE  K!Flags(planner) = {planner, executor}
<1>1. 5 \in 4 .. 6
  OBVIOUS
<1>2. /\ DOMAIN kTxns = {planner, executor}
      /\ Closure(kTxns, planner) = {} /\ Closure(kTxns, executor) = {planner}
  BY <1>1, StoreClosure, Zenon
<1> QED BY <1>2, CascadeWalksClosure DEF K!Flags

\* Where a store is, said of the next state's store and session.
LEMMA StoreAtPrime ==
  ASSUME NEW k, NEW s
  PROVE  /\ StoreAt(uTxns, uValue, uWriter, k, s, FALSE)'
                <=> StoreAt(uTxns', uValue', uWriter', k, s, FALSE)
         /\ StoreAt(kTxns, kValue, kWriter, k, s, TRUE)'
                <=> StoreAt(kTxns', kValue', kWriter', k, s, TRUE)
  BY Zenon DEF StoreAt

\* The calls of the baselines, by their place in a session.
BaselineCallAt(k, call, s) ==
    \/ k = 0 /\ call = "begin"
    \/ k = 1 /\ call = "commitPlan"
    \/ k = 2 /\ call = "begin"
    \/ k = 3 /\ call = "readPlan"
    \/ k = 4 /\ call = "commitResult"
    \/ k = 5 /\ call = "abortPlan" /\ s.retracted

VerifiedCallAt(k, call, s) ==
    \/ k = 0 /\ call = "begin"
    \/ k = 1 /\ call = "writePlan"
    \/ k = 2 /\ call = "commitPlan"
    \/ k = 3 /\ call = "begin"
    \/ k = 4 /\ call = "readPlan"
    \/ k = 5 /\ call = "writeResult"
    \/ k = 6 /\ call = "commitResult"
    \/ k = 7 /\ call = "askRelease"
    \/ k = 8 /\ call = (IF s.retracted THEN "abortPlan" ELSE "releasePlan")
    \/ k = 9 /\ call = "askRelease"

\* Each call of the verified arm is answered as the session expects.
LEMMA VerifiedStep ==
  ASSUME L2Inv, ~ failed, NEW s, Complete(s), NEW k, NEW call, VerifiedCallAt(k, call, s),
         VerifiedAt(k, s), Verified(call, s)
  PROVE  /\ L2Inv' /\ VerifiedAt(k + 1, s)' /\ ~ failed' /\ UNCHANGED uVars
         /\ k = 7 => executor \notin externalized'
<1>1. L2Inv' /\ UNCHANGED uVars
  BY VerifiedNext DEF Complete, Verified
<1>2. k \in 0 .. 9
  BY DEF VerifiedCallAt
<1>3. CASE k = 0
  BY <1>1, <1>3, BeginPlanner DEF VerifiedCallAt
<1>4. CASE k = 1
  BY <1>1, <1>4, WritePlan DEF VerifiedCallAt, Complete
<1>5. CASE k = 2
  BY <1>1, <1>5, CommitPlan DEF VerifiedCallAt, Complete
<1>6. CASE k = 3
  BY <1>1, <1>6, BeginExecutor DEF VerifiedCallAt
<1>7. CASE k = 4
  BY <1>1, <1>7, ReadPlan DEF VerifiedCallAt, Complete
<1>8. CASE k = 5
  BY <1>1, <1>8, WriteResult DEF VerifiedCallAt, Complete
<1>9. CASE k = 6
  BY <1>1, <1>9, CommitResult DEF VerifiedCallAt, Complete
<1>10. CASE k = 7
  <2>1. VerifiedAt(8, s)' /\ ~ failed'
    BY <1>10, AskTooEarly DEF VerifiedCallAt
  <2>2. executor \notin externalized'
    BY <2>1 DEF VerifiedAt
  <2> QED BY <1>1, <1>10, <2>1, <2>2
<1>11. CASE k = 8
  BY <1>1, <1>11, AbortPlan, ReleasePlan DEF VerifiedCallAt, Complete
<1>12. CASE k = 9
  BY <1>1, <1>12, AskAgain DEF VerifiedCallAt, Complete
<1> QED BY <1>2, <1>3, <1>4, <1>5, <1>6, <1>7, <1>8, <1>9, <1>10, <1>11, <1>12

\* Each call of the unguarded baseline is granted.
LEMMA BaselineStep ==
  ASSUME ~ failed, NEW s, Complete(s), NEW k, NEW call, BaselineCallAt(k, call, s),
         StoreAt(uTxns, uValue, uWriter, k, s, FALSE), Baseline(call, s)
  PROVE  /\ StoreAt(uTxns, uValue, uWriter, k + 1, s, FALSE)' /\ ~ failed'
         /\ UNCHANGED vars
<1>1. BaselineAccepts(call)
  <2>1. CASE k = 1
    BY <2>1 DEF BaselineCallAt, BaselineAccepts, U!CommitValid, U!ReadsFresh, StoreAt,
       BegunAt,
       planner, executor
  <2>2. CASE k = 4
    <3>1. /\ ~ uTxns[executor].committed /\ ~ uTxns[executor].aborted
          /\ uTxns[executor].readCells = {s.planCell}
          /\ uTxns[executor].readValue[s.planCell] = s.planValue
          /\ uValue[s.planCell] = s.planValue
      BY <2>2 DEF StoreAt, BegunAt, planner, executor
    <3>2. U!CommitValid(executor)
      BY <3>1, L2Assumption DEF U!CommitValid, U!ReadsFresh, Complete
    <3> QED BY <2>2, <3>2 DEF BaselineCallAt, BaselineAccepts
  <2> QED BY <2>1, <2>2 DEF BaselineCallAt, BaselineAccepts
<1>2. BaselineCall(call, s) /\ UNCHANGED failed /\ UNCHANGED vars
  BY <1>1 DEF Baseline
<1> DEFINE Before(j) == StoreAt(uTxns, uValue, uWriter, j, s, FALSE)
           After(j) == StoreAt(uTxns', uValue', uWriter', j, s, FALSE)
<1>3. ASSUME NEW n, U!Begin, U!NextId = n
      PROVE  StoreBegins(uTxns, uTxns', n) /\ UNCHANGED << uValue, uWriter >>
  BY <1>3, NewTxnRecord DEF U!Begin, StoreBegins
<1>4. ASSUME NEW t, NEW c, NEW v, U!Commit(t, [d \in {c} |-> v])
      PROVE  StoreCommits(uTxns, uValue, uWriter, uTxns', uValue', uWriter', t, c, v)
  BY <1>4 DEF U!Commit, StoreCommits
<1>5. ASSUME Before(0), U!Begin PROVE After(1)
  <2>1. DOMAIN uTxns = {}
    BY <1>5 DEF StoreAt, BegunAt
  <2>2. StoreBegins(uTxns, uTxns', 0) /\ UNCHANGED << uValue, uWriter >>
    BY <1>3, <1>5, <2>1, BegunCount
  <2> QED BY <1>5, <2>2, StorePlannerBegins, Zenon
<1>6. ASSUME Before(1), U!Commit(planner, [d \in {s.planCell} |-> s.planValue])
      PROVE  After(2)
  BY <1>4, <1>6, StorePlannerCommits, Zenon DEF Complete
<1>7. ASSUME Before(2), U!Begin PROVE After(3)
  <2>1. DOMAIN uTxns = {planner}
    BY <1>7 DEF StoreAt, BegunAt
  <2>2. StoreBegins(uTxns, uTxns', 1) /\ UNCHANGED << uValue, uWriter >>
    BY <1>3, <1>7, <2>1, BegunCount
  <2> QED BY <1>7, <2>2, StoreExecutorBegins, Zenon
<1>8. ASSUME Before(3), U!Read(executor, s.planCell) PROVE After(4)
  <2>1. /\ StoreReads(uTxns, uValue, uWriter, uTxns', executor, s.planCell)
        /\ UNCHANGED << uValue, uWriter >>
    BY <1>8, Zenon DEF U!Read, StoreReads
  <2> QED BY <1>8, <2>1, StoreExecutorReads, Zenon DEF Complete
<1>9. ASSUME Before(4), U!Commit(executor, [d \in {s.resultCell} |-> s.resultValue])
      PROVE  After(5)
  BY <1>4, <1>9, StoreExecutorCommits, Zenon DEF Complete
<1>10. ASSUME Before(5), U!Abort(planner) PROVE After(6)
  <2>1. /\ U!Flags(planner) = IF FALSE THEN {planner, executor} ELSE {planner}
        /\ FALSE \in BOOLEAN
    BY <1>10 DEF U!Flags
  <2>2. /\ StoreAborts(uTxns, uTxns', IF FALSE THEN {planner, executor} ELSE {planner})
        /\ UNCHANGED << uValue, uWriter >>
    BY <1>10, <2>1, Zenon DEF U!Abort, StoreAborts
  <2> QED BY <1>10, <2>1, <2>2, StorePlanAborted, Zenon
<1>11. \A j : StoreAt(uTxns, uValue, uWriter, j, s, FALSE)' <=> After(j)
  BY StoreAtPrime, Zenon
<1>12. Before(k)
  OBVIOUS
<1> HIDE DEF Before, After
<1>13. After(k + 1)
  BY <1>2, <1>5, <1>6, <1>7, <1>8, <1>9, <1>10, <1>12 DEF BaselineCallAt, BaselineCall
<1> QED BY <1>2, <1>11, <1>13, Zenon

\* And so are those of the cascading store.
LEMMA CascadeStep ==
  ASSUME Complete(session), NEW k, NEW call, BaselineCallAt(k, call, session),
         StoreAt(kTxns, kValue, kWriter, k, session, TRUE), CascadeCall(call),
         UNCHANGED session
  PROVE  StoreAt(kTxns, kValue, kWriter, k + 1, session, TRUE)'
<1> DEFINE Before(j) == StoreAt(kTxns, kValue, kWriter, j, session, TRUE)
           After(j) == StoreAt(kTxns', kValue', kWriter', j, session, TRUE)
<1>3. ASSUME NEW n, K!Begin, K!NextId = n
      PROVE  StoreBegins(kTxns, kTxns', n) /\ UNCHANGED << kValue, kWriter >>
  BY <1>3, NewTxnRecord DEF K!Begin, StoreBegins
<1>4. ASSUME NEW t, NEW c, NEW v, K!Commit(t, [d \in {c} |-> v])
      PROVE  StoreCommits(kTxns, kValue, kWriter, kTxns', kValue', kWriter', t, c, v)
  BY <1>4 DEF K!Commit, StoreCommits
<1>5. ASSUME Before(0), K!Begin PROVE After(1)
  <2>1. DOMAIN kTxns = {}
    BY <1>5 DEF StoreAt, BegunAt
  <2>2. StoreBegins(kTxns, kTxns', 0) /\ UNCHANGED << kValue, kWriter >>
    BY <1>3, <1>5, <2>1, BegunCount
  <2> QED BY <1>5, <2>2, StorePlannerBegins, Zenon
<1>6. ASSUME Before(1), K!Commit(planner, [d \in {session.planCell} |-> session.planValue])
      PROVE  After(2)
  BY <1>4, <1>6, StorePlannerCommits, Zenon DEF Complete
<1>7. ASSUME Before(2), K!Begin PROVE After(3)
  <2>1. DOMAIN kTxns = {planner}
    BY <1>7 DEF StoreAt, BegunAt
  <2>2. StoreBegins(kTxns, kTxns', 1) /\ UNCHANGED << kValue, kWriter >>
    BY <1>3, <1>7, <2>1, BegunCount
  <2> QED BY <1>7, <2>2, StoreExecutorBegins, Zenon
<1>8. ASSUME Before(3), K!Read(executor, session.planCell) PROVE After(4)
  <2>1. /\ StoreReads(kTxns, kValue, kWriter, kTxns', executor, session.planCell)
        /\ UNCHANGED << kValue, kWriter >>
    BY <1>8, Zenon DEF K!Read, StoreReads
  <2> QED BY <1>8, <2>1, StoreExecutorReads, Zenon DEF Complete
<1>9. ASSUME Before(4), K!Commit(executor, [d \in {session.resultCell} |-> session.resultValue])
      PROVE  After(5)
  BY <1>4, <1>9, StoreExecutorCommits, Zenon DEF Complete
<1>10. ASSUME Before(5), K!Abort(planner) PROVE After(6)
  <2>1. /\ K!Flags(planner) = IF TRUE THEN {planner, executor} ELSE {planner}
        /\ TRUE \in BOOLEAN
    BY <1>10, CascadeTakesExecutor, Zenon
  <2>2. /\ StoreAborts(kTxns, kTxns', IF TRUE THEN {planner, executor} ELSE {planner})
        /\ UNCHANGED << kValue, kWriter >>
    BY <1>10, <2>1, Zenon DEF K!Abort, StoreAborts
  <2> QED BY <1>10, <2>1, <2>2, StorePlanAborted, Zenon
<1>11. \A j : StoreAt(kTxns, kValue, kWriter, j, session, TRUE)' <=> After(j)
  BY StoreAtPrime, Zenon
<1>12. Before(k)
  OBVIOUS
<1> HIDE DEF Before, After
<1>13. After(k + 1)
  BY <1>5, <1>6, <1>7, <1>8, <1>9, <1>10, <1>12 DEF BaselineCallAt, CascadeCall
<1> QED BY <1>11, <1>13, Zenon

-----------------------------------------------------------------------------
\* The verified arm ends as promised.
LEMMA VerifiedComesOut ==
  ASSUME session.retracted \in BOOLEAN, VerifiedAt(10, session)
  PROVE  VerifiedOutcome = PromisedVerified(session.retracted)
<1>1. /\ nextTxn = 2 /\ preds[planner] = {} /\ preds[executor] = {planner}
      /\ aborted = (IF session.retracted THEN {planner, executor} ELSE {})
      /\ externalized = (IF session.retracted THEN {} ELSE {planner, executor})
  BY DEF VerifiedAt
<1>2. DOMAIN VTrace = {planner, executor} /\ DOMAIN VTrace = 0 .. 1
  BY <1>1 DEF VTrace, Known, planner, executor
<1>3. /\ VTrace[planner].preds = {} /\ VTrace[executor].preds = {planner}
      /\ \A t \in {planner, executor} :
            /\ VTrace[t].externalized <=> t \in externalized
            /\ VTrace[t].aborted <=> t \in aborted
  BY <1>1, <1>2 DEF VTrace
<1>4. Backwards(VTrace, 2)
  BY <1>2, <1>3 DEF Backwards, planner, executor
<1>5. PredsIn(VTrace, planner) = {}
  BY <1>2, <1>3 DEF PredsIn
<1>6. Closure(VTrace, planner) = {} /\ Closure(VTrace, executor) = {planner}
  BY <1>3, <1>4, <1>5, ClosureOfOrder DEF planner, executor
<1>7. A3(VTrace) = FALSE
  BY <1>1, <1>2, <1>3, <1>6 DEF A3, AbortedBasis
<1>8. (executor \in externalized) = ~ session.retracted
  BY <1>1
<1> QED BY <1>7, <1>8, Zenon DEF VerifiedOutcome, PromisedVerified

\* What a store shows at the end of a session: a retracted plan is flagged, and
\* with it the executor where the abort cascades.
LEMMA StoreComesOut ==
  ASSUME NEW S, NEW V, NEW W, NEW s, NEW cascades,
         NEW k, k = 5 + Ones(s.retracted), StoreAt(S, V, W, k, s, cascades)
  PROVE  /\ A3(S) <=> s.retracted
         /\ A3Unpropagated(S) <=> s.retracted /\ ~ cascades
         /\ S[executor].externalized = TRUE
<1>1. k \in {5, 6} /\ (k = 6 <=> s.retracted)
  BY DEF Ones
<1>2. k \in 4 .. 6
  BY <1>1
<1>3. /\ DOMAIN S = {planner, executor}
      /\ Closure(S, planner) = {} /\ Closure(S, executor) = {planner}
  BY <1>2, StoreClosure, Zenon
<1>4. /\ S[planner].committed /\ S[executor].committed
      /\ S[planner].externalized /\ S[executor].externalized
      /\ S[executor].externalized \in BOOLEAN
      /\ S[planner].aborted <=> s.retracted
      /\ S[executor].aborted <=> s.retracted /\ cascades
  <2>1. BegunAt(k) = {planner, executor}
    BY <1>1 DEF BegunAt
  <2>2. S \in [{planner, executor} -> SessionRecord]
    BY <2>1 DEF StoreAt
  <2> QED BY <1>1, <2>1, <2>2 DEF StoreAt, SessionRecord, planner, executor
<1>5. AbortedBasis(S, executor) <=> s.retracted
  BY <1>3, <1>4 DEF AbortedBasis
<1>6. ~ AbortedBasis(S, planner)
  BY <1>3 DEF AbortedBasis
<1>7. A3(S) <=> s.retracted
  BY <1>3, <1>4, <1>5, <1>6 DEF A3
<1>8. A3Unpropagated(S) <=> s.retracted /\ ~ cascades
  BY <1>3, <1>4, <1>5, <1>6 DEF A3Unpropagated
<1> QED BY <1>4, <1>7, <1>8

\* What the unguarded arm comes to.
LEMMA BaselineComesOut ==
  ASSUME session.retracted \in BOOLEAN,
         StoreAt(uTxns, uValue, uWriter, 5 + Ones(session.retracted), session, FALSE)
  PROVE  BaselineOutcome = PromisedBaseline(session.retracted)
<1>2. (A3(uTxns) <=> session.retracted) /\ uTxns[executor].externalized = TRUE
  BY StoreComesOut, Zenon
<1>3. A3(uTxns) = session.retracted
  BY <1>2 DEF A3
<1> QED BY <1>2, <1>3, Zenon DEF BaselineOutcome, PromisedBaseline

-----------------------------------------------------------------------------
\* Sequences that leave entries out.
LEMMA WithinLonger ==
  ASSUME NEW S, NEW s \in Seq(S), NEW t \in Seq(S), NEW e, NEW n \in 0 .. Len(t),
         WithinFirst(n, s, t)
  PROVE  WithinFirst(n, s, Append(t, e))
<1>1. PICK f \in [DOMAIN s -> 1 .. n] :
         \A k \in DOMAIN s : s[k] = t[f[k]] /\ \A m \in 1 .. k - 1 : f[m] < f[k]
  BY DEF WithinFirst
<1>2. \A k \in DOMAIN s : f[k] \in 1 .. Len(t)
  BY <1>1
<1>3. \A j \in 1 .. Len(t) : Append(t, e)[j] = t[j]
  OBVIOUS
<1>4. \A k \in DOMAIN s : s[k] = Append(t, e)[f[k]]
  BY <1>1, <1>2, <1>3, Zenon
<1> QED BY <1>1, <1>4, Zenon DEF WithinFirst

\* More of t, more to choose from.
LEMMA WithinMore ==
  ASSUME NEW s, NEW t, NEW n \in Nat, NEW m \in Nat, n <= m, WithinFirst(n, s, t)
  PROVE  WithinFirst(m, s, t)
<1>1. PICK f \in [DOMAIN s -> 1 .. n] :
         \A k \in DOMAIN s : s[k] = t[f[k]] /\ \A j \in 1 .. k - 1 : f[j] < f[k]
  BY DEF WithinFirst
<1>2. f \in [DOMAIN s -> 1 .. m]
  BY <1>1
<1> QED BY <1>1, <1>2 DEF WithinFirst

\* An element appended to both sequences leaves them in order.
LEMMA WithinBoth ==
  ASSUME NEW S, NEW s \in Seq(S), NEW t, NEW n \in Nat, WithinFirst(n, s, t)
  PROVE  WithinFirst(n + 1, Append(s, t[n + 1]), t)
<1>1. PICK f \in [DOMAIN s -> 1 .. n] :
         \A k \in DOMAIN s : s[k] = t[f[k]] /\ \A m \in 1 .. k - 1 : f[m] < f[k]
  BY DEF WithinFirst
<1> DEFINE s2 == Append(s, t[n + 1])
           last == Len(s) + 1
           g == [k \in 1 .. last |-> IF k = last THEN n + 1 ELSE f[k]]
<1>2. /\ DOMAIN s = 1 .. Len(s) /\ Len(s) \in Nat /\ DOMAIN s2 = 1 .. last
      /\ s2[last] = t[n + 1] /\ \A k \in 1 .. Len(s) : s2[k] = s[k]
  OBVIOUS
<1> HIDE DEF s2
<1>3. \A k \in 1 .. last : k # last => k \in DOMAIN s /\ f[k] \in 1 .. n
  BY <1>1, <1>2
<1>4. g \in [DOMAIN s2 -> 1 .. n + 1]
  BY <1>2, <1>3
<1>5. ASSUME NEW k \in DOMAIN s2
      PROVE  s2[k] = t[g[k]] /\ \A m \in 1 .. k - 1 : g[m] < g[k]
  <2>1. CASE k = last
    <3>1. ASSUME NEW m \in 1 .. k - 1 PROVE g[m] < g[k]
      <4>1. m \in 1 .. last /\ m # last
        BY <2>1, <1>2
      <4>2. g[m] = f[m] /\ g[k] = n + 1 /\ f[m] \in 1 .. n
        BY <2>1, <4>1, <1>2, <1>3
      <4> QED BY <4>2
    <3> QED BY <2>1, <3>1, <1>2
  <2>2. CASE k # last
    <3>1. k \in DOMAIN s /\ g[k] = f[k] /\ s2[k] = s[k]
      BY <2>2, <1>2, <1>3
    <3>2. ASSUME NEW m \in 1 .. k - 1 PROVE g[m] = f[m]
      BY <2>2, <1>2
    <3> QED BY <3>1, <3>2, <1>1
  <2> QED BY <2>1, <2>2
<1> HIDE DEF g
<1>6. WithinFirst(n + 1, s2, t)
  BY <1>4, <1>5 DEF WithinFirst
<1> QED BY <1>6 DEF s2

-----------------------------------------------------------------------------
\* What a new session starts from.
LEMMA FreshStart ==
  ASSUME FreshArms
  PROVE  /\ L2Inv'
         /\ \A s : VerifiedAt(0, s)' /\ StoreAt(uTxns', uValue', uWriter', 0, s, FALSE)
<1>1. L2Inv'
  BY L2Assumption DEF FreshArms, L2Inv, TypeOK, NoRecordYet, CommittedFrozen, CausalOrder,
     CellProvenance, ReadProvenance, NoUnpropagatedA3, ReleasedInOrder, NoA3,
     Known, Txn, NoTxn, ReadSet
<1>2. \A s : VerifiedAt(0, s)'
  BY SessionTxns DEF FreshArms, VerifiedAt, ReadSet
<1>3. \A s : StoreAt(uTxns', uValue', uWriter', 0, s, FALSE)
  BY DEF FreshArms, U!NoWrites, StoreAt, BegunAt
<1> QED BY <1>1, <1>2, <1>3

\* So does the cascading store.
LEMMA FreshCascadeStart ==
  FreshCascade => \A s : StoreAt(kTxns', kValue', kWriter', 0, s, TRUE)
  BY DEF FreshCascade, U!NoWrites, StoreAt, BegunAt

\* An arm's place speaks of no more of the session than it has seen.
LEMMA VerifiedKept ==
  ASSUME UNCHANGED vars, NEW k \in 0 .. 10, NEW s, NEW r, VerifiedAt(k, s),
         k > 0 => r.planCell = s.planCell /\ r.planValue = s.planValue,
         k > 8 => r.retracted = s.retracted
  PROVE  VerifiedAt(k, r)'
  BY DEF VerifiedAt, vars, ReadSet

\* A store's place, likewise.
LEMMA StoreKept ==
  ASSUME NEW S, NEW V, NEW W, NEW k \in 0 .. 6, NEW s, NEW r, NEW cascades,
         StoreAt(S, V, W, k, s, cascades),
         k > 0 => r.planCell = s.planCell /\ r.planValue = s.planValue
  PROVE  StoreAt(S, V, W, k, r, cascades)
  BY DEF StoreAt, BegunAt

\* The lengths of the scripts.
LEMMA ScriptLengths ==
  /\ pc \in VerifiedPhase \cup BaselinePhase => Len(Script) \in Nat
  /\ pc = "verifiedCommits" => Len(Script) = 8
  /\ pc = "baselineCommits" => Len(Script) = 5
  /\ pc = "verifiedDecides" => Len(Script) = 2
  /\ pc = "baselineDecides" => Len(Script) = Ones(session.retracted)
  BY DEF Script, VerifiedPhase, BaselinePhase, VerifiedCommits, BaselineCommits,
     VerifiedDecides, BaselineDecides, Ones

\* The ends of the three arms in a replay.
LEMMA ReplayLengths ==
  /\ AfterVerified = 10
  /\ AfterUnguarded = 15 + Ones(session.retracted)
  /\ AfterCascade = 20 + 2 * Ones(session.retracted)
  /\ Ones(session.retracted) \in 0 .. 1
  BY DEF AfterCascade, AfterUnguarded, AfterVerified, VerifiedScript, BaselineScript,
     VerifiedCommits, BaselineCommits, VerifiedDecides, BaselineDecides, Ones

\* The fields of the session that a script reads.
LEMMA SessionsUnchanged ==
  ASSUME UNCHANGED session
  PROVE  AfterUnguarded' = AfterUnguarded /\ AfterCascade' = AfterCascade
  BY DEF AfterCascade, AfterUnguarded, AfterVerified, VerifiedScript, BaselineScript

\* What the filing of a session counts.
LEMMA SummaryFiled ==
  ASSUME FileSession, summary \in Counters
  PROVE  summary' = [sessions |-> summary.sessions + 1, skipped |-> summary.skipped,
                     retracted |-> summary.retracted + Ones(session.retracted),
                     verifiedA3 |-> summary.verifiedA3 + Ones(VerifiedOutcome.a3),
                     baselineA3 |-> summary.baselineA3 + Ones(BaselineOutcome.a3),
                     verifiedReleased |-> summary.verifiedReleased
                                              + Ones(VerifiedOutcome.released),
                     baselineReleased |-> summary.baselineReleased
                                              + Ones(BaselineOutcome.released)]
  BY Zenon DEF FileSession, Counters

-----------------------------------------------------------------------------
\* The shape of the driver's state.
LEMMA TypeStep ==
  ASSUME LiveTypeOK, LNext
  PROVE  LiveTypeOK'
<1> USE DEF InSession, Planned, Resulted, Roles
<1>0. N \in Nat \ {0} /\ NoSession.planCell \in Cell /\ NoSession.resultCell \in Cell
  BY LiveAssumption DEF NoSession
<1>1. ASSUME DropSession
      PROVE  /\ at' = 0
             /\ session' \in [planCell : Cell, resultCell : Cell,
                               planValue : Value \cup {NoValue},
                               resultValue : Value \cup {NoValue}, retracted : BOOLEAN]
  <2>1. at' = 0 /\ session' = NoSession
    BY <1>1 DEF DropSession
  <2>2. NoSession \in [planCell : Cell, resultCell : Cell,
                       planValue : Value \cup {NoValue},
                       resultValue : Value \cup {NoValue}, retracted : BOOLEAN]
    BY ONLY <1>0 DEF NoSession
  <2> QED BY <2>1, <2>2
<1>2. CASE Start
  <2>1. /\ pc = "off" /\ pc' = "planner" /\ i' = 0 /\ summary' = NoSummary
        /\ mark' = [v |-> Len(vBox), b |-> Len(bBox), late |-> 0]
        /\ UNCHANGED << at, result, session, vBox, bBox, files, kept >>
    BY <1>2 DEF Start, diskVars
  <2>2. vBox \in Seq(Entry) /\ bBox \in Seq(Entry) /\ summary' \in Counters
    BY <2>1 DEF LiveTypeOK, NoSummary, Counters
  <2>3. Len(vBox) \in Nat /\ Len(bBox) \in Nat
    BY <2>2
  <2>4. mark' \in Marks
    BY <2>1, <2>3 DEF Marks
  <2> QED BY <1>0, <2>1, <2>2, <2>4 DEF LiveTypeOK, VerifiedPhase, BaselinePhase, Filed
<1>3. CASE AttemptFails
  BY <1>3 DEF AttemptFails, Roles, LiveTypeOK, VerifiedPhase, BaselinePhase, diskVars,
     historyVars, Filed
<1>4. CASE CallFails
  <2>1. /\ pc \in Roles /\ i' = i + 1 /\ NextSession /\ DropSession
        /\ UNCHANGED << diskVars, kept >>
    BY <1>4 DEF CallFails
  <2>2. summary' \in Counters
    <3>1. summary \in Counters /\ summary' = [summary EXCEPT !.skipped = @ + 1]
      BY <1>4 DEF CallFails, LiveTypeOK
    <3> QED BY ONLY <3>1 DEF Counters
  <2>3. mark' \in Marks
    <3>1. mark \in Marks /\ (mark' = mark \/ mark' = [mark EXCEPT !.late = @ + 1])
      BY <1>4 DEF CallFails, LiveTypeOK
    <3> QED BY ONLY <3>1 DEF Marks
  <2>4. i \in Nat /\ i < N
    BY <2>1 DEF Roles, LiveTypeOK
  <2>5. pc' \in {"planner", "summary"} /\ i' \in Nat /\ (pc' = "planner" => i' < N)
        /\ (pc' = "summary" => i' = N)
    BY <1>0, <2>1, <2>4 DEF NextSession
  <2> QED BY <1>1, <2>1, <2>2, <2>3, <2>5 DEF LiveTypeOK, VerifiedPhase, BaselinePhase,
     diskVars, Filed
<1>5. CASE PlannerReplies
  BY <1>5, LiveAssumption DEF PlannerReplies, Reply, LiveTypeOK, VerifiedPhase,
     BaselinePhase,
     diskVars, Filed
<1>6. CASE ExecutorReplies
  <2>1. Len(Script)' = 8
    BY <1>6, ScriptLengths DEF ExecutorReplies, Reply, Script, VerifiedCommits
  <2>2. /\ pc = "executor" /\ pc' = "verifiedCommits" /\ result' \in Text
        /\ UNCHANGED << at, i, summary, diskVars, mark, kept >>
    BY <1>6 DEF ExecutorReplies, Reply
  <2>3. /\ session' \in [planCell : Cell, resultCell : Cell,
                          planValue : Value \cup {NoValue},
                          resultValue : Value \cup {NoValue}, retracted : BOOLEAN]
        /\ session'.planValue \in Value /\ session'.resultValue \in Value
    BY <1>6, <2>2, LiveAssumption DEF ExecutorReplies, LiveTypeOK
  <2> QED BY <2>1, <2>2, <2>3 DEF LiveTypeOK, VerifiedPhase, BaselinePhase, diskVars,
             Filed
<1>7. CASE SupervisorReplies
  <2>1. Len(Script)' = 2
    BY <1>7 DEF SupervisorReplies, Reply, Script, VerifiedDecides
  <2>2. Effect \in Entry
    BY <1>7 DEF SupervisorReplies, Reply, Effect, Entry, LiveTypeOK
  <2>3. /\ pc = "supervisor" /\ pc' = "verifiedDecides"
        /\ UNCHANGED << at, i, result, summary, diskVars, mark >>
    BY <1>7 DEF SupervisorReplies, Reply
  <2>4. /\ session' \in [planCell : Cell, resultCell : Cell,
                          planValue : Value \cup {NoValue},
                          resultValue : Value \cup {NoValue}, retracted : BOOLEAN]
        /\ session'.planValue \in Value /\ session'.resultValue \in Value
    BY <1>7, <2>3 DEF SupervisorReplies, LiveTypeOK
  <2>5. kept' \in Seq(Entry)
    BY <1>7, <2>2 DEF SupervisorReplies, LiveTypeOK
  <2> QED BY <2>1, <2>3, <2>4, <2>5 DEF LiveTypeOK, VerifiedPhase, BaselinePhase,
             diskVars,
     Filed
<1>8. CASE ArmCall
  <2>1. Script' = Script /\ Len(Script) \in Nat
    BY <1>8, ScriptLengths DEF ArmCall, Script
  <2> QED BY <1>8, <2>1 DEF ArmCall, LiveTypeOK, VerifiedPhase, BaselinePhase, diskVars,
     historyVars, Filed
<1>9. CASE PhaseEnds
  <2>1. /\ pc \in VerifiedPhase \cup BaselinePhase /\ pc' = AfterPhase /\ at' = 0
        /\ UNCHANGED << i, result, session, summary, diskVars, historyVars >>
    BY <1>9 DEF PhaseEnds
  <2>2. pc' \in {"baselineCommits", "baselineBox", "verifiedBox", "baselineDecides", "file"}
    BY <2>1 DEF AfterPhase, VerifiedPhase, BaselinePhase
  <2>3. pc' \in VerifiedPhase \cup BaselinePhase => Len(Script)' \in Nat
    BY <2>2 DEF Script, VerifiedPhase, BaselinePhase, BaselineCommits, BaselineDecides
  <2> QED BY <2>1, <2>2, <2>3 DEF LiveTypeOK, VerifiedPhase, BaselinePhase, diskVars,
     historyVars, Filed
<1>10. CASE AppendBaseline
  <2>1. Effect \in Entry
    BY <1>10 DEF AppendBaseline, Effect, Entry, LiveTypeOK
  <2> QED BY <1>10, <2>1 DEF AppendBaseline, LiveTypeOK, VerifiedPhase, BaselinePhase,
     historyVars, Filed
<1>11. CASE AppendVerified
  <2>1. Effect \in Entry
    BY <1>11 DEF AppendVerified, Effect, Entry, LiveTypeOK
  <2>2. Len(Script)' \in Nat
    BY <1>11 DEF AppendVerified, Script, BaselineDecides
  <2> QED BY <1>11, <2>1, <2>2 DEF AppendVerified, LiveTypeOK, VerifiedPhase,
             BaselinePhase,
     historyVars, Filed
<1>12. CASE FileSession
  <2>1. /\ pc = "file" /\ i' = i + 1 /\ NextSession /\ DropSession
        /\ UNCHANGED << vBox, bBox, historyVars >>
    BY <1>12 DEF FileSession
  <2>2. session \in Session
    BY <2>1 DEF LiveTypeOK, Session
  <2>3. \A k \in Filed' : files'[k].session \in Session
    BY <1>12, <2>2 DEF FileSession, Filed, LiveTypeOK
  <2>4. summary' \in Counters
    <3>1. \A b : Ones(b) \in Nat
      BY DEF Ones
    <3>2. summary \in Counters
      BY DEF LiveTypeOK
    <3>3. summary' = [sessions |-> summary.sessions + 1, skipped |-> summary.skipped,
                      retracted |-> summary.retracted + Ones(session.retracted),
                      verifiedA3 |-> summary.verifiedA3 + Ones(VerifiedOutcome.a3),
                      baselineA3 |-> summary.baselineA3 + Ones(BaselineOutcome.a3),
                      verifiedReleased |-> summary.verifiedReleased
                                               + Ones(VerifiedOutcome.released),
                      baselineReleased |-> summary.baselineReleased
                                               + Ones(BaselineOutcome.released)]
      BY <1>12, <3>2, SummaryFiled
    <3> QED BY ONLY <3>1, <3>2, <3>3 DEF Counters
  <2>5. pc' \in {"planner", "summary"} /\ i' \in Nat /\ (pc' = "planner" => i' < N)
        /\ (pc' = "summary" => i' = N)
    BY <1>0, <2>1 DEF NextSession, LiveTypeOK
  <2> QED BY <1>1, <2>1, <2>3, <2>4, <2>5 DEF LiveTypeOK, VerifiedPhase,
     BaselinePhase, historyVars
<1>13. CASE End
  BY <1>13 DEF End, DropRun, LiveTypeOK, VerifiedPhase, BaselinePhase, diskVars,
     NoSummary,
     NoMark, Filed, Counters, Marks
<1>14. CASE Crash
  BY <1>1, <1>14 DEF Crash, DropRun, LiveTypeOK, VerifiedPhase, BaselinePhase, diskVars,
     NoSummary, NoMark, Filed, Counters, Marks
<1>15. CASE StartReplay
  <2>1. session' \in Session
    BY <1>15 DEF StartReplay, Records, LiveTypeOK, Filed
  <2>2. at' <= AfterCascade'
    <3>1. AfterCascade' = 20 + 2 * Ones(session'.retracted)
      BY DEF AfterCascade, AfterUnguarded, AfterVerified, VerifiedScript, BaselineScript,
         VerifiedCommits, BaselineCommits, VerifiedDecides, BaselineDecides, Ones
    <3> QED BY <1>15, <3>1 DEF StartReplay, LiveTypeOK, VerifiedPhase, BaselinePhase, Ones
  <2> QED BY <1>15, <2>1, <2>2 DEF StartReplay, LiveTypeOK, VerifiedPhase, BaselinePhase,
     Session, diskVars, historyVars, Filed
<1>16. CASE ReplayStep
  <2>1. at' = at + 1 /\ at < AfterCascade /\ UNCHANGED session
    <3> at \in Nat
      BY DEF LiveTypeOK
    <3>1. CASE ReplayVerified
      BY <3>1, ReplayLengths DEF ReplayVerified
    <3>2. CASE ReplayUnguarded
      BY <3>2, ReplayLengths DEF ReplayUnguarded
    <3>3. CASE ReplayCascade
      BY <3>3, ReplayLengths DEF ReplayCascade
    <3> QED BY <1>16, <3>1, <3>2, <3>3 DEF ReplayStep, ReplayCall
  <2>2. at' <= AfterCascade'
    BY <2>1, SessionsUnchanged, ReplayLengths DEF LiveTypeOK
  <2> QED BY <1>16, <2>1, <2>2 DEF ReplayStep, LiveTypeOK, VerifiedPhase, BaselinePhase,
     runVars, diskVars, historyVars, Filed
<1>17. CASE ReplayEnds
  BY <1>1, <1>17 DEF ReplayEnds, LiveTypeOK, VerifiedPhase, BaselinePhase, diskVars,
     historyVars, Filed
<1> QED
  BY <1>2, <1>3, <1>4, <1>5, <1>6, <1>7, <1>8, <1>9, <1>10, <1>11, <1>12, <1>13, <1>14,
     <1>15,
     <1>16, <1>17 DEF LNext, RunStep

-----------------------------------------------------------------------------
\* Where each arm is, phase by phase.
LEMMA PlaceRanges ==
  ASSUME LiveTypeOK
  PROVE  /\ VerifiedPlace \in 0 .. 10 /\ BaselinePlace \in 0 .. 6 /\ CascadePlace \in 0 .. 6
         /\ Planned /\ Resulted => Complete(session)
<1>1. Planned /\ Resulted => Complete(session)
  BY DEF LiveTypeOK, Complete
<1>2. /\ at \in Nat /\ Ones(session.retracted) \in 0 .. 1
      /\ pc = "verifiedCommits" => at <= 8
      /\ pc = "baselineCommits" => at <= 5
      /\ pc = "verifiedDecides" => at <= 2
      /\ pc = "baselineDecides" => at <= Ones(session.retracted)
      /\ pc = "replay" => at <= AfterCascade
  <2>1. /\ pc \in VerifiedPhase \cup BaselinePhase => at <= Len(Script)
        /\ pc = "replay" => at <= AfterCascade /\ at \in Nat
    BY DEF LiveTypeOK
  <2>2. at \in Nat /\ Ones(session.retracted) \in 0 .. 1
    BY DEF LiveTypeOK, Ones
  <2> QED BY <2>1, <2>2, ScriptLengths DEF VerifiedPhase, BaselinePhase
<1>3. VerifiedPlace \in 0 .. 10
  BY <1>2 DEF VerifiedPlace
<1>4. BaselinePlace \in 0 .. 6
  BY <1>2, ReplayLengths DEF BaselinePlace
<1>5. CascadePlace \in 0 .. 6
  BY <1>2, ReplayLengths DEF CascadePlace
<1> QED BY <1>1, <1>3, <1>4, <1>5

\* What a step keeps of the arms when it does not call them.
LEMMA ArmsKept ==
  ASSUME LiveTypeOK, ArmsInPlace, UNCHANGED << armVars, kVars >>,
         VerifiedPlace' = VerifiedPlace, BaselinePlace' = BaselinePlace,
         CascadePlace' = CascadePlace,
         \/ VerifiedPlace = 0 /\ BaselinePlace = 0 /\ CascadePlace = 0
         \/ /\ session'.planCell = session.planCell
            /\ session'.planValue = session.planValue
            /\ session'.retracted = session.retracted \/ VerifiedPlace <= 8
  PROVE  /\ ~ failed' /\ VerifiedAt(VerifiedPlace, session)'
         /\ StoreAt(uTxns, uValue, uWriter, BaselinePlace, session, FALSE)'
         /\ StoreAt(kTxns, kValue, kWriter, CascadePlace, session, TRUE)'
<1>1. /\ UNCHANGED vars /\ UNCHANGED failed
      /\ UNCHANGED << uTxns, uValue, uWriter, kTxns, kValue, kWriter >>
  BY DEF armVars, uVars, kVars
<1>2. VerifiedAt(VerifiedPlace, session)'
  <2>1. PICK k, r : k = VerifiedPlace /\ r = session'
    OBVIOUS
  <2>2. VerifiedAt(k, session) /\ k \in 0 .. 10
    BY <2>1, PlaceRanges DEF ArmsInPlace
  <2>3. VerifiedAt(k, r)'
    BY <1>1, <2>1, <2>2, VerifiedKept
  <2> QED BY <2>1, <2>3
<1>3. /\ StoreAt(uTxns, uValue, uWriter, BaselinePlace, session', FALSE)
      /\ StoreAt(kTxns, kValue, kWriter, CascadePlace, session', TRUE)
  <2>1. /\ BaselinePlace \in 0 .. 6 /\ CascadePlace \in 0 .. 6
        /\ BaselinePlace > 0 => /\ session'.planCell = session.planCell
                                /\ session'.planValue = session.planValue
        /\ CascadePlace > 0 => /\ session'.planCell = session.planCell
                               /\ session'.planValue = session.planValue
    BY PlaceRanges
  <2>2. /\ StoreAt(uTxns, uValue, uWriter, BaselinePlace, session, FALSE)
        /\ StoreAt(kTxns, kValue, kWriter, CascadePlace, session, TRUE)
    BY DEF ArmsInPlace
  <2> QED BY <2>1, <2>2, StoreKept, Zenon
<1>4. /\ StoreAt(uTxns, uValue, uWriter, BaselinePlace, session, FALSE)'
      /\ StoreAt(kTxns, kValue, kWriter, CascadePlace, session, TRUE)'
  BY <1>1, <1>3, Zenon
<1> QED BY <1>1, <1>2, <1>4 DEF ArmsInPlace

\* Steps that leave the arms alone leave them in place.
LEMMA AsideInPlace ==
  ASSUME LiveTypeOK, ArmsInPlace, UNCHANGED << armVars, kVars >>,
         \/ Start \/ AttemptFails \/ PlannerReplies \/ ExecutorReplies \/ SupervisorReplies
         \/ PhaseEnds \/ AppendBaseline \/ AppendVerified \/ End \/ StartReplay
  PROVE  ArmsInPlace'
<1> DEFINE SamePlace == /\ VerifiedPlace' = VerifiedPlace
                        /\ BaselinePlace' = BaselinePlace
                        /\ CascadePlace' = CascadePlace
           Unseen == /\ VerifiedPlace = 0 /\ BaselinePlace = 0 /\ CascadePlace = 0
           StillHeld == /\ (InSession /\ VerifiedPlace >= 8 /\ pc # "verifiedCommits" => held)'
                        /\ (pc = "replay" /\ at >= 8 => held)'
<1>1. CASE Start
  <2>1. SamePlace /\ Unseen /\ StillHeld
    BY <1>1 DEF Start, VerifiedPlace, BaselinePlace, CascadePlace, InSession
  <2> QED BY <2>1, ArmsKept DEF ArmsInPlace
<1>2. CASE AttemptFails
  <2>1. SamePlace /\ StillHeld /\ UNCHANGED session
    BY <1>2 DEF AttemptFails, Roles, ArmsInPlace, VerifiedPlace, BaselinePlace,
       CascadePlace, InSession
  <2> QED BY <2>1, ArmsKept DEF ArmsInPlace
<1>3. CASE PlannerReplies
  <2>1. SamePlace /\ Unseen /\ StillHeld
    BY <1>3 DEF PlannerReplies, Reply, VerifiedPlace, BaselinePlace, CascadePlace,
       InSession
  <2> QED BY <2>1, ArmsKept DEF ArmsInPlace
<1>4. CASE ExecutorReplies
  <2>1. SamePlace /\ Unseen /\ StillHeld
    BY <1>4 DEF ExecutorReplies, Reply, LiveTypeOK, VerifiedPhase, BaselinePhase,
       VerifiedPlace, BaselinePlace, CascadePlace, InSession
  <2> QED BY <2>1, ArmsKept DEF ArmsInPlace
<1>5. CASE SupervisorReplies
  <2>1. SamePlace /\ StillHeld /\ VerifiedPlace = 8
    BY <1>5 DEF SupervisorReplies, Reply, LiveTypeOK, VerifiedPhase, BaselinePhase,
       ArmsInPlace,
       VerifiedPlace, BaselinePlace, CascadePlace, InSession
  <2>2. /\ session'.planCell = session.planCell /\ session'.planValue = session.planValue
        /\ session'.retracted = session.retracted \/ VerifiedPlace <= 8
    <3>1. session'.planCell = session.planCell /\ session'.planValue = session.planValue
      BY <1>5 DEF SupervisorReplies, LiveTypeOK
    <3> QED BY <2>1, <3>1
  <2> QED BY <2>1, <2>2, ArmsKept DEF ArmsInPlace
<1>6. CASE PhaseEnds
  <2>1. at = Len(Script) /\ at' = 0 /\ UNCHANGED session
    BY <1>6 DEF PhaseEnds
  <2>2. SamePlace /\ StillHeld
    <3>1. CASE pc = "verifiedCommits"
      <4>1. VerifiedAt(8, session)
        BY <2>1, <3>1, ScriptLengths DEF ArmsInPlace, VerifiedPlace
      <4>2. externalized = {}
        BY <4>1 DEF VerifiedAt
      <4> QED BY <1>6, <2>1, <3>1, <4>2, ScriptLengths DEF PhaseEnds, AfterPhase,
         VerifiedPlace, BaselinePlace, CascadePlace, InSession
    <3>2. CASE pc = "baselineCommits"
      BY <1>6, <2>1, <3>2, ScriptLengths DEF PhaseEnds, AfterPhase, ArmsInPlace,
         VerifiedPlace, BaselinePlace, CascadePlace, InSession
    <3>3. CASE pc = "verifiedDecides"
      <4>1. at = 2 /\ held' = held /\ pc' \in {"verifiedBox", "baselineDecides"}
        BY <1>6, <2>1, <3>3, ScriptLengths DEF PhaseEnds, AfterPhase
      <4>2. held
        BY <3>3, <4>1 DEF ArmsInPlace, VerifiedPlace, InSession
      <4> QED BY <2>1, <3>3, <4>1, <4>2 DEF VerifiedPlace, BaselinePlace, CascadePlace,
           InSession
    <3>4. CASE pc = "baselineDecides"
      BY <1>6, <2>1, <3>4, ScriptLengths DEF PhaseEnds, AfterPhase, ArmsInPlace,
         VerifiedPlace, BaselinePlace, CascadePlace, InSession
    <3> QED BY <1>6, <3>1, <3>2, <3>3, <3>4 DEF PhaseEnds, VerifiedPhase, BaselinePhase
  <2> QED BY <2>1, <2>2, ArmsKept DEF ArmsInPlace
<1>7. CASE AppendBaseline
  <2>1. SamePlace /\ StillHeld /\ UNCHANGED session
    BY <1>7 DEF AppendBaseline, ArmsInPlace, VerifiedPlace, BaselinePlace, CascadePlace,
       InSession
  <2> QED BY <2>1, ArmsKept DEF ArmsInPlace
<1>8. CASE AppendVerified
  <2>1. SamePlace /\ StillHeld /\ UNCHANGED session
    BY <1>8 DEF AppendVerified, ArmsInPlace, LiveTypeOK, VerifiedPhase, BaselinePhase,
       VerifiedPlace, BaselinePlace, CascadePlace, InSession
  <2> QED BY <2>1, ArmsKept DEF ArmsInPlace
<1>9. CASE End
  <2>1. SamePlace /\ Unseen /\ StillHeld
    BY <1>9 DEF End, DropRun, VerifiedPlace, BaselinePlace, CascadePlace, InSession
  <2> QED BY <2>1, ArmsKept DEF ArmsInPlace
<1>10. CASE StartReplay
  <2>1. SamePlace /\ Unseen /\ StillHeld
    <3>1. at = 0 /\ at' = 0 /\ pc = "off" /\ pc' = "replay"
      BY <1>10 DEF StartReplay, LiveTypeOK, VerifiedPhase, BaselinePhase
    <3>2. AfterUnguarded' = 15 + Ones(session'.retracted) /\ Ones(session'.retracted) \in 0 .. 1
      BY DEF AfterUnguarded, AfterVerified, VerifiedScript, BaselineScript,
         VerifiedCommits, BaselineCommits, VerifiedDecides, BaselineDecides, Ones
    <3> QED BY <3>1, <3>2 DEF VerifiedPlace, BaselinePlace, CascadePlace, InSession
  <2> QED BY <2>1, ArmsKept DEF ArmsInPlace
<1> QED BY <1>1, <1>2, <1>3, <1>4, <1>5, <1>6, <1>7, <1>8, <1>9, <1>10

\* What drops a session starts the arms again.
LEMMA DropInPlace ==
  ASSUME L2Inv, LiveTypeOK, ArmsInPlace,
         \/ (CallFails \/ FileSession \/ Crash) /\ UNCHANGED kVars
         \/ ReplayEnds
  PROVE  L2Inv' /\ ArmsInPlace'
<1>1. /\ DropSession /\ pc' \in {"off", "planner", "summary"}
      /\ FreshCascade \/ (pc # "replay" /\ UNCHANGED kVars)
  BY DEF CallFails, FileSession, Crash, ReplayEnds, NextSession, DropRun, Roles
<1>2. /\ L2Inv' /\ VerifiedAt(0, session)' /\ ~ failed'
      /\ StoreAt(uTxns', uValue', uWriter', 0, session', FALSE)
  <2>1. FreshArms
    BY <1>1 DEF DropSession
  <2>2. PICK r : r = session'
    OBVIOUS
  <2>3. VerifiedAt(0, r)'
    BY <2>1, FreshStart
  <2>4. VerifiedAt(0, session)'
    BY <2>2, <2>3
  <2>5. L2Inv' /\ StoreAt(uTxns', uValue', uWriter', 0, session', FALSE)
    BY <2>1, FreshStart, Zenon
  <2>6. ~ failed'
    BY <2>1 DEF FreshArms, ArmsInPlace
  <2> QED BY <2>4, <2>5, <2>6
<1>3. StoreAt(kTxns', kValue', kWriter', 0, session', TRUE)
  <2>1. CASE FreshCascade
    BY <2>1, FreshCascadeStart, Zenon
  <2>2. CASE pc # "replay" /\ UNCHANGED kVars
    <3>1. CascadePlace = 0 /\ 0 \in 0 .. 6 /\ ~ (0 > 0)
      BY <2>2 DEF CascadePlace
    <3>2. StoreAt(kTxns, kValue, kWriter, 0, session, TRUE)
      BY <3>1, Zenon DEF ArmsInPlace
    <3>3. StoreAt(kTxns, kValue, kWriter, 0, session', TRUE)
      BY <3>1, <3>2, StoreKept, Zenon
    <3>4. kTxns' = kTxns /\ kValue' = kValue /\ kWriter' = kWriter
      BY <2>2 DEF kVars
    <3> QED BY <3>3, <3>4, Zenon
  <2> QED BY <1>1, <2>1, <2>2
<1>4. VerifiedPlace' = 0 /\ BaselinePlace' = 0 /\ CascadePlace' = 0
  BY <1>1 DEF VerifiedPlace, BaselinePlace, CascadePlace
<1>5. /\ VerifiedAt(VerifiedPlace, session)'
      /\ StoreAt(uTxns, uValue, uWriter, BaselinePlace, session, FALSE)'
      /\ StoreAt(kTxns, kValue, kWriter, CascadePlace, session, TRUE)'
  BY <1>2, <1>3, <1>4, Zenon
<1>6. ~ (VerifiedPlace >= 8)' /\ pc' # "replay"
  BY <1>1, <1>4
<1> QED BY <1>2, <1>5, <1>6 DEF ArmsInPlace

\* The calls of the scripts are the calls of the arms' places.
LEMMA ScriptCalls ==
  ASSUME at \in Nat
  PROVE  /\ pc \in VerifiedPhase /\ at < Len(Script) =>
              VerifiedCallAt(VerifiedPlace, Script[at + 1], session)
         /\ pc \in BaselinePhase /\ at < Len(Script) =>
              BaselineCallAt(BaselinePlace, Script[at + 1], session)
<1>1. CASE pc = "verifiedCommits"
  BY <1>1 DEF Script, VerifiedCommits, VerifiedPlace, VerifiedCallAt, BaselinePhase
<1>2. CASE pc = "verifiedDecides"
  BY <1>2 DEF Script, VerifiedDecides, VerifiedPlace, VerifiedCallAt, BaselinePhase
<1>3. CASE pc = "baselineCommits"
  BY <1>3 DEF Script, BaselineCommits, BaselinePlace, BaselineCallAt, VerifiedPhase
<1>4. CASE pc = "baselineDecides"
  BY <1>4 DEF Script, BaselineDecides, BaselinePlace, BaselineCallAt, VerifiedPhase
<1> QED BY <1>1, <1>2, <1>3, <1>4 DEF VerifiedPhase, BaselinePhase

\* A call of a live session moves its arm on by one place.
LEMMA ArmCallInPlace ==
  ASSUME L2Inv, LiveTypeOK, ArmsInPlace, ArmCall, UNCHANGED kVars
  PROVE  L2Inv' /\ ArmsInPlace'
<1>1. /\ at \in Nat /\ at < Len(Script) /\ at' = at + 1
      /\ UNCHANGED << pc, session, held >> /\ UNCHANGED kVars
      /\ pc \in VerifiedPhase \cup BaselinePhase
  BY DEF ArmCall, LiveTypeOK
<1>2. Complete(session)
  BY <1>1, PlaceRanges DEF Planned, Resulted, VerifiedPhase, BaselinePhase
<1>3. CascadePlace = 0 /\ CascadePlace' = 0
  BY <1>1 DEF CascadePlace, VerifiedPhase, BaselinePhase
<1>4. (InSession /\ VerifiedPlace >= 8 /\ pc # "verifiedCommits" => held)'
  BY <1>1 DEF ArmsInPlace, VerifiedPlace, InSession, VerifiedPhase, BaselinePhase
<1>5. StoreAt(kTxns, kValue, kWriter, CascadePlace, session, TRUE)'
  <2>1. UNCHANGED << kTxns, kValue, kWriter, session >>
    BY <1>1 DEF kVars
  <2>2. StoreAt(kTxns, kValue, kWriter, CascadePlace, session, TRUE)
    BY DEF ArmsInPlace
  <2> QED BY <1>3, <2>1, <2>2, Zenon
<1>6. CASE pc \in VerifiedPhase
  <2>1. Verified(Script[at + 1], session)
    BY <1>6 DEF ArmCall
  <2>2. VerifiedCallAt(VerifiedPlace, Script[at + 1], session)
    BY <1>1, <1>6, ScriptCalls
  <2>3. PICK k, s, call : k = VerifiedPlace /\ s = session /\ call = Script[at + 1]
    OBVIOUS
  <2>4. L2Inv' /\ VerifiedAt(k + 1, s)' /\ ~ failed' /\ UNCHANGED uVars
    BY <1>2, <2>1, <2>2, <2>3, VerifiedStep DEF ArmsInPlace
  <2>5. VerifiedPlace' = k + 1 /\ BaselinePlace' = BaselinePlace
    BY <1>1, <1>6, <2>3 DEF VerifiedPlace, BaselinePlace, VerifiedPhase
  <2>6. VerifiedAt(VerifiedPlace, session)'
    BY <1>1, <2>3, <2>4, <2>5
  <2>7. StoreAt(uTxns, uValue, uWriter, BaselinePlace, session, FALSE)'
    <3>1. UNCHANGED << uTxns, uValue, uWriter, session >>
      BY <1>1, <2>4 DEF uVars
    <3>2. StoreAt(uTxns, uValue, uWriter, BaselinePlace, session, FALSE)
      BY DEF ArmsInPlace
    <3> QED BY <2>5, <3>1, <3>2, Zenon
  <2> QED BY <1>1, <1>4, <1>5, <1>6, <2>4, <2>6, <2>7 DEF ArmsInPlace, VerifiedPhase
<1>7. CASE pc \in BaselinePhase
  <2>1. Baseline(Script[at + 1], session)
    BY <1>7 DEF ArmCall, VerifiedPhase, BaselinePhase
  <2>2. BaselineCallAt(BaselinePlace, Script[at + 1], session)
    BY <1>1, <1>7, ScriptCalls
  <2>3. PICK k, s, call : k = BaselinePlace /\ s = session /\ call = Script[at + 1]
    OBVIOUS
  <2>4. /\ StoreAt(uTxns, uValue, uWriter, k + 1, s, FALSE)' /\ ~ failed'
        /\ UNCHANGED vars
    BY <1>2, <2>1, <2>2, <2>3, BaselineStep, Zenon DEF ArmsInPlace
  <2>5. BaselinePlace' = k + 1 /\ VerifiedPlace' = VerifiedPlace
    BY <1>1, <1>7, <2>3 DEF VerifiedPlace, BaselinePlace, BaselinePhase
  <2>6. StoreAt(uTxns, uValue, uWriter, BaselinePlace, session, FALSE)'
    BY <1>1, <2>3, <2>4, <2>5, Zenon
  <2>7. VerifiedAt(VerifiedPlace, session)'
    <3>1. VerifiedAt(VerifiedPlace, s) /\ VerifiedPlace \in 0 .. 10
      BY <2>3, PlaceRanges DEF ArmsInPlace
    <3>2. PICK j : j = VerifiedPlace
      OBVIOUS
    <3>3. VerifiedAt(j, s)'
      BY <2>4, <3>1, <3>2, VerifiedKept
    <3> QED BY <1>1, <2>3, <2>5, <3>2, <3>3
  <2>8. L2Inv'
    BY <2>4, NextInv
  <2> QED BY <1>1, <1>4, <1>5, <1>7, <2>4, <2>6, <2>7, <2>8 DEF ArmsInPlace, BaselinePhase
<1> QED BY <1>1, <1>6, <1>7

\* The calls of a replay's scripts, one arm after the other.
LEMMA ReplayCalls ==
  ASSUME at \in Nat, pc = "replay"
  PROVE  /\ at < AfterVerified =>
              VerifiedCallAt(VerifiedPlace, VerifiedScript[at + 1], session)
         /\ at \in AfterVerified .. AfterUnguarded - 1 =>
              BaselineCallAt(BaselinePlace, BaselineScript[at - AfterVerified + 1], session)
         /\ at \in AfterUnguarded .. AfterCascade - 1 =>
              BaselineCallAt(CascadePlace, BaselineScript[at - AfterUnguarded + 1], session)
<1>1. ASSUME at < AfterVerified
      PROVE  VerifiedCallAt(VerifiedPlace, VerifiedScript[at + 1], session)
  BY <1>1, ReplayLengths DEF VerifiedPlace, VerifiedScript, VerifiedCommits,
     VerifiedDecides,
     VerifiedCallAt
<1>2. ASSUME NEW k \in Nat, k < 5 + Ones(session.retracted)
      PROVE  BaselineCallAt(k, BaselineScript[k + 1], session)
  BY <1>2 DEF BaselineScript, BaselineCommits, BaselineDecides, BaselineCallAt, Ones
<1>3. ASSUME at \in AfterVerified .. AfterUnguarded - 1
      PROVE  /\ BaselinePlace = at - AfterVerified
             /\ at - AfterVerified < 5 + Ones(session.retracted)
  BY <1>3, ReplayLengths DEF BaselinePlace
<1>4. ASSUME at \in AfterUnguarded .. AfterCascade - 1
      PROVE  /\ CascadePlace = at - AfterUnguarded
             /\ at - AfterUnguarded < 5 + Ones(session.retracted)
  BY <1>4, ReplayLengths DEF CascadePlace
<1> QED BY <1>1, <1>2, <1>3, <1>4, ReplayLengths

\* A call of a replay moves the arm that is running on by one place.
LEMMA ReplayInPlace ==
  ASSUME L2Inv, LiveTypeOK, ArmsInPlace, ReplayStep
  PROVE  L2Inv' /\ ArmsInPlace'
<1>1. /\ at \in Nat /\ pc = "replay" /\ pc' = "replay" /\ ReplayCall
      /\ UNCHANGED session /\ at' = at + 1
  BY DEF ReplayStep, runVars, LiveTypeOK, ReplayCall, ReplayVerified, ReplayUnguarded,
     ReplayCascade
<1>2. Complete(session)
  BY <1>1, PlaceRanges DEF Planned, Resulted
<1>3. /\ VerifiedAt(VerifiedPlace, session)
      /\ StoreAt(uTxns, uValue, uWriter, BaselinePlace, session, FALSE)
      /\ StoreAt(kTxns, kValue, kWriter, CascadePlace, session, TRUE)
      /\ ~ failed /\ (at >= 8 => held)
  BY <1>1 DEF ArmsInPlace
<1>4. /\ AfterUnguarded' = AfterUnguarded /\ AfterUnguarded \in 15 .. 16
      /\ AfterVerified = 10 /\ session'.retracted = session.retracted
  BY <1>1, SessionsUnchanged, ReplayLengths
<1>5. ~ InSession'
  BY <1>1 DEF InSession
<1>6. CASE ReplayVerified
  <2>1. /\ at < 10 /\ Verified(VerifiedScript[at + 1], session) /\ UNCHANGED kVars
        /\ held' = IF at + 1 = 8 THEN executor \notin externalized' ELSE held
    BY <1>4, <1>6 DEF ReplayVerified, VerifiedCommits
  <2>2. VerifiedCallAt(VerifiedPlace, VerifiedScript[at + 1], session)
    BY <1>1, <1>4, <2>1, ReplayCalls
  <2>3. PICK k, s, call : k = VerifiedPlace /\ s = session /\ call = VerifiedScript[at + 1]
    OBVIOUS
  <2>4. /\ L2Inv' /\ VerifiedAt(k + 1, s)' /\ ~ failed' /\ UNCHANGED uVars
        /\ k = 7 => executor \notin externalized'
    BY <1>2, <1>3, <2>1, <2>2, <2>3, VerifiedStep
  <2>5. /\ k = at /\ VerifiedPlace' = k + 1
        /\ BaselinePlace' = BaselinePlace /\ CascadePlace' = CascadePlace
    BY <1>1, <1>4, <2>1, <2>3 DEF VerifiedPlace, BaselinePlace, CascadePlace
  <2>6. VerifiedAt(VerifiedPlace, session)'
    BY <1>1, <2>3, <2>4, <2>5
  <2>7. /\ StoreAt(uTxns, uValue, uWriter, BaselinePlace, session, FALSE)'
        /\ StoreAt(kTxns, kValue, kWriter, CascadePlace, session, TRUE)'
    <3>1. UNCHANGED << uTxns, uValue, uWriter, kTxns, kValue, kWriter, session >>
      BY <1>1, <2>1, <2>4 DEF uVars, kVars
    <3> QED BY <1>3, <2>5, <3>1, Zenon
  <2>8. at' >= 8 => held'
    <3>1. CASE at + 1 = 8
      <4>1. executor \notin externalized'
        BY <1>1, <2>4, <2>5, <3>1
      <4>2. held' = (executor \notin externalized')
        BY <2>1, <3>1, Zenon
      <4> QED BY <4>1, <4>2, Zenon
    <3>2. CASE at + 1 # 8
      <4>1. held' = held
        BY <2>1, <3>2, Zenon
      <4>2. at' >= 8 => at >= 8
        BY <1>1, <3>2
      <4> QED BY <1>3, <4>1, <4>2
    <3> QED BY <3>1, <3>2
  <2> QED BY <1>5, <2>4, <2>6, <2>7, <2>8 DEF ArmsInPlace
<1>7. CASE ReplayUnguarded
  <2>1. /\ at \in AfterVerified .. AfterUnguarded - 1
        /\ Baseline(BaselineScript[at - AfterVerified + 1], session)
        /\ UNCHANGED << kVars, held >>
    BY <1>7 DEF ReplayUnguarded
  <2>2. BaselineCallAt(BaselinePlace, BaselineScript[at - AfterVerified + 1], session)
    BY <1>1, <2>1, ReplayCalls
  <2>3. PICK k, s, call : /\ k = BaselinePlace /\ s = session
                          /\ call = BaselineScript[at - AfterVerified + 1]
    OBVIOUS
  <2>4. /\ StoreAt(uTxns, uValue, uWriter, k + 1, s, FALSE)' /\ ~ failed'
        /\ UNCHANGED vars
    BY <1>2, <1>3, <2>1, <2>2, <2>3, BaselineStep, Zenon
  <2>5. /\ BaselinePlace' = k + 1
        /\ VerifiedPlace = 10 /\ VerifiedPlace' = 10 /\ CascadePlace' = CascadePlace
    BY <1>1, <1>4, <2>1, <2>3 DEF VerifiedPlace, BaselinePlace, CascadePlace
  <2>6. StoreAt(uTxns, uValue, uWriter, BaselinePlace, session, FALSE)'
    BY <1>1, <2>3, <2>4, <2>5, Zenon
  <2>7. VerifiedAt(VerifiedPlace, session)'
    <3>1. VerifiedAt(10, s)
      BY <1>3, <2>3, <2>5
    <3>2. VerifiedAt(10, s)'
      BY <2>4, <3>1, VerifiedKept
    <3> QED BY <1>1, <2>3, <2>5, <3>2
  <2>8. StoreAt(kTxns, kValue, kWriter, CascadePlace, session, TRUE)'
    <3>1. UNCHANGED << kTxns, kValue, kWriter, session >>
      BY <1>1, <2>1 DEF kVars
    <3> QED BY <1>3, <2>5, <3>1, Zenon
  <2>9. L2Inv'
    BY <2>4, NextInv
  <2>10. at' >= 8 => held'
    BY <1>3, <1>4, <2>1
  <2> QED BY <1>5, <2>4, <2>6, <2>7, <2>8, <2>9, <2>10 DEF ArmsInPlace
<1>8. CASE ReplayCascade
  <2>1. /\ at \in AfterUnguarded .. AfterCascade - 1
        /\ CascadeCall(BaselineScript[at - AfterUnguarded + 1])
        /\ UNCHANGED << armVars, held >>
    BY <1>8 DEF ReplayCascade
  <2>2. BaselineCallAt(CascadePlace, BaselineScript[at - AfterUnguarded + 1], session)
    BY <1>1, <2>1, ReplayCalls
  <2>3. PICK k, call : /\ k = CascadePlace
                       /\ call = BaselineScript[at - AfterUnguarded + 1]
    OBVIOUS
  <2>4. StoreAt(kTxns, kValue, kWriter, k + 1, session, TRUE)'
    BY <1>1, <1>2, <1>3, <2>1, <2>2, <2>3, CascadeStep, Zenon
  <2>5. /\ CascadePlace' = k + 1
        /\ VerifiedPlace = 10 /\ VerifiedPlace' = 10 /\ BaselinePlace' = BaselinePlace
    <3>1. at \in Nat /\ at >= AfterUnguarded /\ AfterUnguarded \in Nat
      BY <1>1, <1>4, <2>1
    <3>2. CascadePlace' = k + 1
      BY <1>1, <1>4, <2>3, <3>1 DEF CascadePlace
    <3>3. VerifiedPlace = 10 /\ VerifiedPlace' = 10
      BY <1>1, <1>4, <3>1 DEF VerifiedPlace
    <3>4. BaselinePlace = 5 + Ones(session.retracted)
          /\ BaselinePlace' = 5 + Ones(session.retracted)
      BY <1>1, <1>4, <3>1, ReplayLengths DEF BaselinePlace
    <3> QED BY <3>2, <3>3, <3>4
  <2>6. StoreAt(kTxns, kValue, kWriter, CascadePlace, session, TRUE)'
    BY <2>4, <2>5, Zenon
  <2>7. UNCHANGED vars /\ UNCHANGED << uTxns, uValue, uWriter, failed >>
    BY <2>1 DEF armVars, uVars
  <2>8. VerifiedAt(VerifiedPlace, session)'
    <3>1. PICK s : s = session
      OBVIOUS
    <3>2. VerifiedAt(10, s)
      BY <1>3, <2>5, <3>1
    <3>3. VerifiedAt(10, s)'
      BY <2>7, <3>2, VerifiedKept
    <3> QED BY <1>1, <2>5, <3>1, <3>3
  <2>9. StoreAt(uTxns, uValue, uWriter, BaselinePlace, session, FALSE)'
    BY <1>1, <1>3, <2>5, <2>7, Zenon
  <2>10. L2Inv'
    BY <2>7, NextInv
  <2>11. at' >= 8 => held'
    BY <1>1, <1>3, <1>4, <2>1
  <2> QED BY <1>3, <1>5, <2>6, <2>7, <2>8, <2>9, <2>10, <2>11 DEF ArmsInPlace
<1> QED BY <1>1, <1>6, <1>7, <1>8 DEF ReplayCall

\* Every step leaves the arms in place.
LEMMA ArmsStep ==
  ASSUME L2Inv, LiveTypeOK, ArmsInPlace, LNext
  PROVE  L2Inv' /\ ArmsInPlace'
<1>1. CASE \/ /\ \/ Start \/ AttemptFails \/ PlannerReplies \/ ExecutorReplies
                 \/ SupervisorReplies \/ PhaseEnds \/ AppendBaseline \/ AppendVerified
                 \/ End
              /\ UNCHANGED kVars
           \/ StartReplay
  <2>1. UNCHANGED << armVars, kVars >>
    BY <1>1 DEF Start, AttemptFails, PlannerReplies, ExecutorReplies, SupervisorReplies,
       Reply,
       PhaseEnds, AppendBaseline, AppendVerified, End, StartReplay
  <2>2. ArmsInPlace'
    BY <1>1, <2>1, AsideInPlace
  <2>3. L2Inv'
    BY <2>1, NextInv DEF armVars
  <2> QED BY <2>2, <2>3
<1>2. CASE \/ (CallFails \/ FileSession \/ Crash) /\ UNCHANGED kVars
           \/ ReplayEnds
  BY <1>2, DropInPlace
<1>3. CASE ArmCall /\ UNCHANGED kVars
  BY <1>3, ArmCallInPlace
<1>4. CASE ReplayStep
  BY <1>4, ReplayInPlace
<1> QED BY <1>1, <1>2, <1>3, <1>4 DEF LNext, RunStep

\* The verified arm is through with its script when it ends the phase.
LEMMA DecidedPlace == pc = "verifiedDecides" /\ at = Len(Script) => VerifiedPlace = 10
<1> SUFFICES ASSUME pc = "verifiedDecides", at = Len(Script) PROVE VerifiedPlace = 10
  OBVIOUS
<1>1. at = 2
  BY ScriptLengths
<1> QED BY ONLY <1>1, pc = "verifiedDecides" DEF VerifiedPlace

\* A session that is done has come to what was promised.
LEMMA OutcomesAsPromised ==
  ASSUME LiveTypeOK, ArmsInPlace, pc = "file" \/ (pc = "replay" /\ at = AfterCascade)
  PROVE  /\ VerifiedOutcome = PromisedVerified(session.retracted)
         /\ BaselineOutcome = PromisedBaseline(session.retracted)
         /\ held
<1>1. session.retracted \in BOOLEAN
  BY DEF LiveTypeOK
<1>2. VerifiedPlace = 10 /\ BaselinePlace = 5 + Ones(session.retracted)
  BY ReplayLengths DEF VerifiedPlace, BaselinePlace
<1>3. VerifiedAt(10, session)
  BY <1>2 DEF ArmsInPlace
<1>4. StoreAt(uTxns, uValue, uWriter, 5 + Ones(session.retracted), session, FALSE)
  BY <1>2, Zenon DEF ArmsInPlace
<1>5. held
  BY <1>2, ReplayLengths DEF ArmsInPlace, InSession
<1>6. VerifiedOutcome = PromisedVerified(session.retracted)
  BY <1>1, <1>3, VerifiedComesOut, Zenon
<1>7. BaselineOutcome = PromisedBaseline(session.retracted)
  BY <1>1, <1>4, BaselineComesOut, Zenon
<1> QED BY <1>5, <1>6, <1>7

-----------------------------------------------------------------------------
\* What an outbox holds after an append.
LEMMA AppendedEntries ==
  ASSUME NEW box \in Seq(Entry), NEW e
  PROVE  /\ Entries(Append(box, e)) = Entries(box) \cup {e}
         /\ Len(Append(box, e)) = Len(box) + 1 /\ Append(box, e)[Len(box) + 1] = e
         /\ Len(box) \in Nat
<1>1. /\ DOMAIN box = 1 .. Len(box) /\ Len(box) \in Nat
      /\ DOMAIN Append(box, e) = 1 .. Len(box) + 1
      /\ Append(box, e)[Len(box) + 1] = e
      /\ \A k \in 1 .. Len(box) : Append(box, e)[k] = box[k]
  OBVIOUS
<1>2. 1 .. Len(box) + 1 = (1 .. Len(box)) \cup {Len(box) + 1}
  BY <1>1
<1>3. Len(Append(box, e)) = Len(box) + 1
  OBVIOUS
<1> HIDE DEF Entry
<1>4. ASSUME NEW x PROVE x \in Entries(Append(box, e)) <=> x \in Entries(box) \cup {e}
  BY <1>1, <1>2 DEF Entries
<1> QED BY <1>1, <1>3, <1>4

\* A box that awaits the verified append takes it in order.
LEMMA AppendAwaited ==
  ASSUME NEW box \in Seq(Entry), vBox \in Seq(Entry), Awaits(box)
  PROVE  SubsequenceOf(Append(vBox, Effect), box)
<1>1. Len(box) \in Nat /\ Len(box) > 0
  BY DEF Awaits
<1>2. PICK n : n = Len(box) - 1 /\ n \in Nat /\ n + 1 = Len(box)
  BY <1>1
<1>3. WithinFirst(n, vBox, box) /\ box[n + 1] = Effect
  BY <1>2 DEF Awaits
<1>4. WithinFirst(n + 1, Append(vBox, box[n + 1]), box)
  BY <1>2, <1>3, WithinBoth
<1> QED BY <1>2, <1>3, <1>4 DEF SubsequenceOf

\* An append to a box keeps what is in it in order, and makes it await.
LEMMA AppendToBox ==
  ASSUME NEW box \in Seq(Entry), vBox \in Seq(Entry), SubsequenceOf(vBox, box)
  PROVE  /\ WithinFirst(Len(box), vBox, Append(box, Effect))
         /\ SubsequenceOf(vBox, Append(box, Effect))
<1>1. /\ Len(box) \in Nat /\ Len(Append(box, Effect)) = Len(box) + 1
      /\ Len(box) \in 0 .. Len(box)
  BY AppendedEntries
<1>2. WithinFirst(Len(box), vBox, Append(box, Effect))
  BY <1>1, WithinLonger DEF SubsequenceOf
<1>3. WithinFirst(Len(box) + 1, vBox, Append(box, Effect))
  BY <1>1, <1>2, WithinMore
<1> QED BY <1>1, <1>2, <1>3 DEF SubsequenceOf

\* What the boxes have, and in which order, is right after every step.
LEMMA BoxesStep ==
  ASSUME L2Inv, LiveTypeOK, ArmsInPlace, BoxesInOrder, LNext
  PROVE  BoxesInOrder'
<1>0. vBox \in Seq(Entry) /\ bBox \in Seq(Entry) /\ kept \in Seq(Entry)
  BY DEF LiveTypeOK
<1>1. CASE /\ UNCHANGED << vBox, bBox, kept >>
           /\ pc' \notin {"supervisor", "verifiedDecides", "verifiedBox", "baselineDecides",
                         "file"}
  BY <1>1 DEF BoxesInOrder, OnlyKeptLeaves, BaselineOut, VerifiedOut
<1>2. CASE UNCHANGED << vBox, bBox, kept, pc, session, result, i >>
  BY <1>2 DEF BoxesInOrder, OnlyKeptLeaves, BaselineOut, VerifiedOut, Awaits, Effect
<1>3. CASE PhaseEnds
  <2>1. UNCHANGED << vBox, bBox, kept, session, result, i >> /\ at = Len(Script)
    BY <1>3 DEF PhaseEnds, diskVars, historyVars
  <2>2. CASE pc = "verifiedDecides"
    <3>1. VerifiedAt(10, session)
      <4>1. VerifiedPlace = 10
        BY <2>1, <2>2, DecidedPlace
      <4> QED BY <4>1 DEF ArmsInPlace
    <3>2. executor \in externalized <=> ~ session.retracted
      BY <3>1 DEF VerifiedAt
    <3>3. pc' = IF executor \in externalized THEN "verifiedBox" ELSE "baselineDecides"
      BY <1>3, <2>2 DEF PhaseEnds, AfterPhase
    <3> QED BY <2>1, <2>2, <3>2, <3>3 DEF BoxesInOrder, OnlyKeptLeaves, BaselineOut,
         VerifiedOut, Awaits, Effect
  <2>3. CASE pc = "baselineDecides"
    <3>1. pc' = "file"
      BY <1>3, <2>3 DEF PhaseEnds, AfterPhase
    <3> QED BY <2>1, <2>3, <3>1 DEF BoxesInOrder, OnlyKeptLeaves, BaselineOut,
         VerifiedOut, Awaits, Effect
  <2>4. CASE pc \in {"verifiedCommits", "baselineCommits"}
    <3>1. pc' \in {"baselineCommits", "baselineBox"}
      BY <1>3, <2>4 DEF PhaseEnds, AfterPhase
    <3> QED BY <1>1, <2>1, <3>1
  <2> QED BY <1>3, <2>2, <2>3, <2>4 DEF PhaseEnds, VerifiedPhase, BaselinePhase
<1>4. CASE SupervisorReplies
  <2>1. /\ pc = "supervisor" /\ pc' = "verifiedDecides" /\ Effect' = Effect
        /\ UNCHANGED << vBox, bBox >>
    BY <1>4 DEF SupervisorReplies, Reply, diskVars, Effect
  <2>2. /\ OnlyKeptLeaves /\ Awaits(bBox) /\ Effect \in Entries(bBox)
    BY <2>1 DEF BoxesInOrder, BaselineOut
  <2>3. /\ session'.retracted \in BOOLEAN
        /\ kept' = IF session'.retracted THEN kept ELSE Append(kept, Effect)
    BY <1>4 DEF SupervisorReplies, LiveTypeOK
  <2>4. /\ WithinFirst(Len(kept), vBox, Append(kept, Effect))
        /\ SubsequenceOf(vBox, Append(kept, Effect))
    BY <1>0, <2>2, AppendToBox DEF OnlyKeptLeaves
  <2>5. SubsequenceOf(vBox, kept')
    BY <2>2, <2>3, <2>4 DEF OnlyKeptLeaves
  <2>6. ~ session'.retracted => Awaits(kept)'
    <3> SUFFICES ASSUME ~ session'.retracted PROVE Awaits(kept)'
      OBVIOUS
    <3>1. kept' = Append(kept, Effect)
      BY <2>3
    <3>2. Len(kept') = Len(kept) + 1 /\ kept'[Len(kept) + 1] = Effect /\ Len(kept) \in Nat
      BY <1>0, <3>1, AppendedEntries
    <3>3. Len(kept') - 1 = Len(kept) /\ Len(kept') > 0
      BY <3>2
    <3> QED BY <2>1, <2>4, <3>1, <3>2, <3>3 DEF Awaits
  <2>7. Awaits(bBox)' /\ Effect' \in Entries(bBox')
    BY <2>1, <2>2 DEF Awaits
  <2>8. OnlyKeptLeaves'
    BY <2>1, <2>2, <2>5 DEF OnlyKeptLeaves
  <2> QED BY <2>1, <2>6, <2>7, <2>8 DEF BoxesInOrder, BaselineOut, VerifiedOut
<1>5. CASE AppendBaseline
  <2>1. /\ pc' = "supervisor" /\ Effect' = Effect /\ bBox' = Append(bBox, Effect)
        /\ UNCHANGED << vBox, kept >>
    BY <1>5 DEF AppendBaseline, historyVars, Effect
  <2>2. OnlyKeptLeaves
    BY DEF BoxesInOrder
  <2>3. /\ WithinFirst(Len(bBox), vBox, bBox') /\ SubsequenceOf(vBox, bBox')
    BY <1>0, <2>1, <2>2, AppendToBox DEF OnlyKeptLeaves
  <2>4. /\ Len(bBox') = Len(bBox) + 1 /\ bBox'[Len(bBox) + 1] = Effect /\ Len(bBox) \in Nat
        /\ Effect \in Entries(bBox')
    BY <1>0, <2>1, AppendedEntries
  <2>5. Len(bBox') - 1 = Len(bBox) /\ Len(bBox') > 0
    BY <2>4
  <2>6. Awaits(bBox)'
    BY <2>1, <2>3, <2>4, <2>5 DEF Awaits
  <2>7. OnlyKeptLeaves'
    BY <2>1, <2>2, <2>3 DEF OnlyKeptLeaves
  <2> QED BY <2>1, <2>4, <2>6, <2>7 DEF BoxesInOrder, BaselineOut, VerifiedOut
<1>6. CASE AppendVerified
  <2>1. /\ pc = "verifiedBox" /\ pc' = "baselineDecides" /\ Effect' = Effect
        /\ vBox' = Append(vBox, Effect)
        /\ UNCHANGED << bBox, kept, session >>
    BY <1>6 DEF AppendVerified, historyVars, Effect
  <2>2. Awaits(bBox) /\ Awaits(kept) /\ Effect \in Entries(bBox)
    BY <2>1 DEF BoxesInOrder, BaselineOut
  <2>3. SubsequenceOf(vBox', bBox) /\ SubsequenceOf(vBox', kept)
    BY <1>0, <2>1, <2>2, AppendAwaited
  <2>4. OnlyKeptLeaves'
    BY <2>1, <2>3 DEF OnlyKeptLeaves
  <2>5. Effect' \in Entries(vBox)' /\ Effect' \in Entries(bBox)'
    BY <1>0, <2>1, <2>2, AppendedEntries
  <2> QED BY <2>1, <2>4, <2>5 DEF BoxesInOrder, BaselineOut, VerifiedOut
<1>7. CASE AttemptFails \/ ArmCall
  BY <1>2, <1>7 DEF AttemptFails, ArmCall, diskVars, historyVars
<1>8. CASE Start \/ CallFails \/ PlannerReplies \/ ExecutorReplies \/ FileSession \/ End
           \/ Crash \/ StartReplay \/ ReplayStep \/ ReplayEnds
  BY <1>1, <1>8 DEF Start, CallFails, PlannerReplies, ExecutorReplies, Reply, FileSession,
     End,
     Crash, StartReplay, ReplayStep, ReplayEnds, NextSession, DropRun, diskVars, historyVars,
     runVars
<1> QED BY <1>3, <1>4, <1>5, <1>6, <1>7, <1>8 DEF LNext, RunStep

-----------------------------------------------------------------------------
\* The counts of the run so far.
LEMMA CountsStep ==
  ASSUME L2Inv, LiveTypeOK, ArmsInPlace, BoxesInOrder, CountsInPlace, LNext
  PROVE  CountsInPlace'
<1>0. /\ vBox \in Seq(Entry) /\ bBox \in Seq(Entry) /\ session.retracted \in BOOLEAN
      /\ summary \in Counters /\ mark \in Marks
  BY DEF LiveTypeOK
<1>v. Len(vBox) \in Nat /\ mark.v \in Nat /\ summary.verifiedReleased \in Nat
  BY <1>0 DEF Counters, Marks
<1>b. /\ Len(bBox) \in Nat /\ mark.b \in Nat /\ mark.late \in Nat
      /\ summary.baselineReleased \in Nat
  BY <1>0 DEF Counters, Marks
<1>s. summary.sessions \in Nat /\ summary.skipped \in Nat /\ i \in Nat
  BY <1>0 DEF Counters, LiveTypeOK
<1>r. summary.retracted \in Nat
  BY <1>0 DEF Counters
<1>1. CASE pc' \in {"off", "replay"}
  BY <1>1 DEF CountsInPlace
<1>2. CASE Start
  BY <1>v, <1>b, <1>2 DEF Start, CountsInPlace, NoSummary, diskVars, BaselineOut,
     VerifiedOut, Ones
<1>3. CASE /\ UNCHANGED << vBox, bBox, i, summary, mark >>
           /\ pc \notin {"off", "replay"}
           /\ BaselineOut' = BaselineOut /\ VerifiedOut' = VerifiedOut
  BY <1>3 DEF CountsInPlace
<1>4. CASE AttemptFails \/ ArmCall
  BY <1>3, <1>4 DEF AttemptFails, ArmCall, diskVars, historyVars, BaselineOut,
     VerifiedOut,
     Roles, VerifiedPhase, BaselinePhase
<1>5. CASE PlannerReplies \/ ExecutorReplies \/ SupervisorReplies
  BY <1>3, <1>5 DEF PlannerReplies, ExecutorReplies, SupervisorReplies, Reply, diskVars,
     BaselineOut, VerifiedOut
<1>6. CASE PhaseEnds
  <2>1. UNCHANGED << vBox, bBox, i, summary, mark, session >> /\ at = Len(Script)
        /\ pc \in VerifiedPhase \cup BaselinePhase /\ pc' = AfterPhase
    BY <1>6 DEF PhaseEnds, diskVars, historyVars
  <2>2. pc = "verifiedDecides" /\ executor \notin externalized => session.retracted
    <3> SUFFICES ASSUME pc = "verifiedDecides"
                 PROVE  executor \notin externalized => session.retracted
      OBVIOUS
    <3>1. VerifiedAt(10, session)
      BY <2>1, DecidedPlace DEF ArmsInPlace
    <3> QED BY <3>1 DEF VerifiedAt
  <2>3. BaselineOut' = BaselineOut /\ VerifiedOut' = VerifiedOut
    BY <2>1, <2>2 DEF AfterPhase, BaselineOut, VerifiedOut, VerifiedPhase, BaselinePhase
  <2> QED BY <1>3, <2>1, <2>3 DEF VerifiedPhase, BaselinePhase
<1>a. ASSUME pc \notin {"off", "replay"}
      PROVE  /\ summary.sessions + summary.skipped = i
             /\ summary.verifiedA3 = 0
             /\ summary.baselineA3 = summary.retracted
             /\ summary.verifiedReleased = summary.sessions - summary.retracted
             /\ summary.baselineReleased = summary.sessions
             /\ Len(vBox) - mark.v = summary.verifiedReleased + Ones(VerifiedOut)
             /\ Len(bBox) - mark.b - mark.late
                    = summary.baselineReleased + Ones(BaselineOut)
  BY <1>a, Zenon DEF CountsInPlace
<1>7. CASE AppendBaseline
  <2>1. /\ pc = "baselineBox" /\ pc' = "supervisor" /\ bBox' = Append(bBox, Effect)
        /\ UNCHANGED << vBox, i, summary, mark >> /\ pc \notin {"off", "replay"}
    BY <1>7 DEF AppendBaseline, historyVars
  <2>2. Len(bBox') = Len(bBox) + 1
    BY <1>0, <2>1, AppendedEntries
  <2>3. /\ Ones(BaselineOut') = 1 /\ Ones(BaselineOut) = 0
        /\ Ones(VerifiedOut') = Ones(VerifiedOut)
    BY <2>1 DEF BaselineOut, VerifiedOut, Ones
  <2>4. Len(bBox) - mark.b - mark.late = summary.baselineReleased + 0
    BY ONLY <1>a, <2>1, <2>3, Zenon
  <2>5. (Len(bBox) + 1) - mark.b - mark.late = summary.baselineReleased + 1
    <3>1. PICK l \in Nat, b \in Nat, d \in Nat, r \in Nat :
             l = Len(bBox) /\ b = mark.b /\ d = mark.late /\ r = summary.baselineReleased
      BY ONLY <1>b, Zenon
    <3>2. l - b - d = r + 0
      BY ONLY <2>4, <3>1, Zenon
    <3>3. (l + 1) - b - d = r + 1
      BY ONLY <3>2
    <3> QED BY ONLY <3>1, <3>3, Zenon
  <2>6. Len(bBox') - mark'.b - mark'.late = summary'.baselineReleased + Ones(BaselineOut')
    BY ONLY <2>1, <2>2, <2>3, <2>5, Zenon
  <2> QED BY <1>a, <2>1, <2>3, <2>6, Zenon DEF CountsInPlace
<1>8. CASE AppendVerified
  <2>1. /\ pc = "verifiedBox" /\ pc' = "baselineDecides" /\ vBox' = Append(vBox, Effect)
        /\ UNCHANGED << bBox, i, summary, mark, session >> /\ ~ session.retracted
        /\ pc \notin {"off", "replay"}
    BY <1>8 DEF AppendVerified, historyVars, BoxesInOrder
  <2>2. Len(vBox') = Len(vBox) + 1
    BY <1>0, <2>1, AppendedEntries
  <2>3. /\ Ones(VerifiedOut') = 1 /\ Ones(VerifiedOut) = 0
        /\ Ones(BaselineOut') = Ones(BaselineOut)
    BY <2>1 DEF BaselineOut, VerifiedOut, Ones
  <2>4. Len(vBox) - mark.v = summary.verifiedReleased + 0
    BY ONLY <1>a, <2>1, <2>3, Zenon
  <2>5. (Len(vBox) + 1) - mark.v = summary.verifiedReleased + 1
    BY ONLY <1>v, <2>4
  <2>6. Len(vBox') - mark'.v = summary'.verifiedReleased + Ones(VerifiedOut')
    BY ONLY <2>1, <2>2, <2>3, <2>5, Zenon
  <2> QED BY <1>a, <2>1, <2>3, <2>6, Zenon DEF CountsInPlace
<1>9. CASE CallFails
  <2>1. /\ pc \in Roles /\ i' = i + 1 /\ UNCHANGED << vBox, bBox >>
        /\ pc \notin {"off", "replay"}
    BY <1>9 DEF CallFails, diskVars, Roles
  <2>2. /\ summary'.skipped = summary.skipped + 1 /\ summary'.sessions = summary.sessions
        /\ summary'.verifiedA3 = summary.verifiedA3
        /\ summary'.baselineA3 = summary.baselineA3
        /\ summary'.retracted = summary.retracted
        /\ summary'.verifiedReleased = summary.verifiedReleased
        /\ summary'.baselineReleased = summary.baselineReleased
    <3>1. summary' = [summary EXCEPT !.skipped = @ + 1]
      BY <1>9 DEF CallFails
    <3> QED BY ONLY <1>0, <3>1 DEF Counters
  <2>3. summary'.sessions + summary'.skipped = i'
    <3>1. summary.sessions + (summary.skipped + 1) = i + 1
      <4>1. summary.sessions + summary.skipped = i
        BY <1>a, <2>1
      <4> QED BY ONLY <1>s, <4>1
    <3> QED BY ONLY <2>1, <2>2, <3>1, Zenon
  <2>4. /\ Ones(BaselineOut') = 0 /\ Ones(BaselineOut) = (IF pc = "supervisor" THEN 1 ELSE 0)
        /\ Ones(VerifiedOut') = Ones(VerifiedOut)
    BY <1>9, <2>1 DEF BaselineOut, VerifiedOut, Roles, Ones, CallFails, NextSession
  <2>5. CASE pc = "supervisor"
    <3>1. mark' = [mark EXCEPT !.late = @ + 1]
      BY <1>9, <2>5 DEF CallFails
    <3>2. mark'.v = mark.v /\ mark'.b = mark.b /\ mark'.late = mark.late + 1
      BY ONLY <1>0, <3>1 DEF Marks
    <3>3. Len(bBox) - mark.b - mark.late = summary.baselineReleased + 1
      BY ONLY <1>a, <2>1, <2>4, <2>5, Zenon
    <3>4. Len(bBox) - mark.b - (mark.late + 1) = summary.baselineReleased + 0
      <4>1. PICK n \in Nat, b \in Nat, l \in Nat, r \in Nat :
                /\ n = Len(bBox) /\ b = mark.b /\ l = mark.late
                /\ r = summary.baselineReleased
        BY <1>b, Zenon
      <4>2. n - b - l = r + 1
        BY ONLY <3>3, <4>1, Zenon
      <4>3. n - b - (l + 1) = r + 0
        BY <4>2
      <4> QED BY ONLY <4>1, <4>3, Zenon
    <3>5. Len(bBox') - mark'.b - mark'.late = summary'.baselineReleased + Ones(BaselineOut')
      BY ONLY <2>1, <2>2, <2>4, <3>2, <3>4, Zenon
    <3> QED BY <1>a, <2>1, <2>2, <2>3, <2>4, <3>2, <3>5, Zenon DEF CountsInPlace
  <2>6. CASE pc # "supervisor"
    <3>1. mark' = mark
      BY <1>9, <2>6 DEF CallFails
    <3> QED BY <1>a, <2>1, <2>2, <2>3, <2>4, <2>6, <3>1, Zenon DEF CountsInPlace
  <2> QED BY <2>5, <2>6
<1>10. CASE FileSession
  <2> DEFINE o == Ones(session.retracted)
  <2>1. /\ pc = "file" /\ i' = i + 1 /\ UNCHANGED << vBox, bBox, mark >>
        /\ pc \notin {"off", "replay"} /\ pc' \in {"planner", "summary"}
    BY <1>10 DEF FileSession, NextSession, historyVars
  <2>2. /\ VerifiedOutcome = PromisedVerified(session.retracted)
        /\ BaselineOutcome = PromisedBaseline(session.retracted)
    BY <1>0, <2>1, OutcomesAsPromised
  <2>3. /\ o \in {0, 1}
        /\ Ones(VerifiedOutcome.a3) = 0 /\ Ones(BaselineOutcome.a3) = o
        /\ Ones(VerifiedOutcome.released) = 1 - o /\ Ones(BaselineOutcome.released) = 1
    <3>1. /\ VerifiedOutcome.a3 = FALSE /\ VerifiedOutcome.released = ~ session.retracted
          /\ BaselineOutcome.a3 = session.retracted /\ BaselineOutcome.released = TRUE
      BY <2>2, Zenon DEF PromisedVerified, PromisedBaseline
    <3>2. /\ Ones(FALSE) = 0 /\ Ones(TRUE) = 1
          /\ Ones(~ TRUE) = 1 - 1 /\ Ones(~ FALSE) = 1 - 0
      BY DEF Ones
    <3>3. CASE session.retracted = TRUE
      BY ONLY <3>1, <3>2, <3>3, Zenon
    <3>4. CASE session.retracted = FALSE
      BY ONLY <3>1, <3>2, <3>4, Zenon
    <3> QED BY <1>0, <3>3, <3>4
  <2>4. /\ summary'.sessions = summary.sessions + 1 /\ summary'.skipped = summary.skipped
        /\ summary'.retracted = summary.retracted + o
        /\ summary'.verifiedA3 = summary.verifiedA3 + 0
        /\ summary'.baselineA3 = summary.baselineA3 + o
        /\ summary'.verifiedReleased = summary.verifiedReleased + (1 - o)
        /\ summary'.baselineReleased = summary.baselineReleased + 1
    <3>1. /\ summary'.sessions = summary.sessions + 1 /\ summary'.skipped = summary.skipped
          /\ summary'.retracted = summary.retracted + Ones(session.retracted)
          /\ summary'.verifiedA3 = summary.verifiedA3 + Ones(VerifiedOutcome.a3)
          /\ summary'.baselineA3 = summary.baselineA3 + Ones(BaselineOutcome.a3)
          /\ summary'.verifiedReleased = summary.verifiedReleased
                                         + Ones(VerifiedOutcome.released)
          /\ summary'.baselineReleased = summary.baselineReleased
                                         + Ones(BaselineOutcome.released)
      <4>1. FileSession /\ summary \in Counters
        BY <1>0, <1>10
      <4> QED BY ONLY <4>1 DEF FileSession, Counters
    <3> QED BY ONLY <2>3, <3>1, Zenon
  <2>5. /\ Ones(BaselineOut') = 0 /\ Ones(BaselineOut) = 1
        /\ Ones(VerifiedOut') = 0 /\ Ones(VerifiedOut) = 1 - o
    BY <1>0, <2>1 DEF BaselineOut, VerifiedOut, Ones
  <2> HIDE DEF o
  <2>6. /\ summary.sessions + summary.skipped = i
        /\ summary.verifiedA3 = 0
        /\ summary.baselineA3 = summary.retracted
        /\ summary.verifiedReleased = summary.sessions - summary.retracted
        /\ summary.baselineReleased = summary.sessions
        /\ Len(vBox) - mark.v = (summary.sessions - summary.retracted) + (1 - o)
        /\ Len(bBox) - mark.b - mark.late = summary.sessions + 1
    BY ONLY <1>a, <2>1, <2>5, Zenon
  <2>7. /\ (summary.sessions + 1) + summary.skipped = i + 1
        /\ (summary.sessions - summary.retracted) + (1 - o)
              = (summary.sessions + 1) - (summary.retracted + o)
        /\ Len(vBox) - mark.v
              = ((summary.sessions + 1) - (summary.retracted + o)) + 0
        /\ Len(bBox) - mark.b - mark.late = (summary.sessions + 1) + 0
    <3>1. (summary.sessions + 1) + summary.skipped = i + 1
      BY ONLY <1>s, <2>6
    <3>2. /\ (summary.sessions - summary.retracted) + (1 - o)
              = (summary.sessions + 1) - (summary.retracted + o)
          /\ (summary.sessions + 1) - (summary.retracted + o)
              = ((summary.sessions + 1) - (summary.retracted + o)) + 0
      BY ONLY <1>s, <1>r, <2>3
    <3>3. summary.sessions + 1 = (summary.sessions + 1) + 0
      BY ONLY <1>s
    <3> QED BY ONLY <2>6, <3>1, <3>2, <3>3, Zenon
  <2>8. /\ summary'.sessions + summary'.skipped = i'
        /\ summary'.verifiedA3 = 0
        /\ summary'.baselineA3 = summary'.retracted
        /\ summary'.verifiedReleased = summary'.sessions - summary'.retracted
        /\ summary'.baselineReleased = summary'.sessions
    <3>1. 0 + 0 = 0
      OBVIOUS
    <3> QED BY ONLY <2>1, <2>4, <2>6, <2>7, <3>1, Zenon
  <2>9. /\ Len(vBox') - mark'.v = summary'.verifiedReleased + Ones(VerifiedOut')
        /\ Len(bBox') - mark'.b - mark'.late
               = summary'.baselineReleased + Ones(BaselineOut')
    BY ONLY <2>1, <2>4, <2>5, <2>6, <2>7, Zenon
  <2> QED BY <2>8, <2>9, Zenon DEF CountsInPlace
<1>11. CASE End \/ Crash \/ StartReplay \/ ReplayStep \/ ReplayEnds
  BY <1>1, <1>11 DEF End, Crash, DropRun, StartReplay, ReplayStep, ReplayEnds, runVars
<1> QED
  BY <1>2, <1>4, <1>5, <1>6, <1>7, <1>8, <1>9, <1>10, <1>11 DEF LNext, RunStep

-----------------------------------------------------------------------------
\* What the session files say stays backed by the outboxes, and a session is
\* filed with what it has come to.
LEMMA FilesStep ==
  ASSUME LiveTypeOK, ArmsInPlace, ArmsInPlace', BoxesInOrder, FilesBackedByOutboxes, LNext
  PROVE  FilesBackedByOutboxes'
<1> DEFINE Backed(f, k, bs, vs) ==
              /\ f.verified = PromisedVerified(f.session.retracted) /\ f.held
              /\ f.baseline = PromisedBaseline(f.session.retracted)
              /\ [session |-> k, effect |-> f.result] \in bs
              /\ f.verified.released => [session |-> k, effect |-> f.result] \in vs
<1>1. \A k \in Filed : Backed(files[k], k, Entries(bBox), Entries(vBox))
  BY Zenon DEF FilesBackedByOutboxes
<1>2. SUFFICES \A k \in Filed' : Backed(files'[k], k, Entries(bBox'), Entries(vBox'))
  BY DEF FilesBackedByOutboxes, ArmsInPlace, Entries
<1>3. ASSUME UNCHANGED files, Entries(bBox) \subseteq Entries(bBox'),
             Entries(vBox) \subseteq Entries(vBox')
      PROVE  \A k \in Filed' : Backed(files'[k], k, Entries(bBox'), Entries(vBox'))
  BY <1>1, <1>3 DEF Filed
<1>4. vBox \in Seq(Entry) /\ bBox \in Seq(Entry)
  BY DEF LiveTypeOK
<1>5. CASE AppendBaseline
  <2>1. UNCHANGED << vBox, files >> /\ bBox' = Append(bBox, Effect)
    BY <1>5 DEF AppendBaseline
  <2>2. Entries(bBox') = Entries(bBox) \cup {Effect}
    BY <1>4, <2>1, AppendedEntries
  <2> QED BY <1>3, <2>1, <2>2
<1>6. CASE AppendVerified
  <2>1. UNCHANGED << bBox, files >> /\ vBox' = Append(vBox, Effect)
    BY <1>6 DEF AppendVerified
  <2>2. Entries(vBox') = Entries(vBox) \cup {Effect}
    BY <1>4, <2>1, AppendedEntries
  <2> QED BY <1>3, <2>1, <2>2
<1>7. CASE FileSession
  <2>1. /\ pc = "file" /\ UNCHANGED << vBox, bBox >>
        /\ files' = [k \in DOMAIN files \cup {i} |->
              IF k = i
              THEN [session |-> session, result |-> result,
                    verified |-> VerifiedOutcome, baseline |-> BaselineOutcome, held |-> held]
              ELSE files[k]]
    BY <1>7, Zenon DEF FileSession
  <2>2. /\ VerifiedOutcome = PromisedVerified(session.retracted)
        /\ BaselineOutcome = PromisedBaseline(session.retracted) /\ held
    BY <2>1, OutcomesAsPromised
  <2>3. Effect \in Entries(bBox) /\ (~ session.retracted => Effect \in Entries(vBox))
    BY <2>1 DEF BoxesInOrder, BaselineOut, VerifiedOut
  <2>4. VerifiedOutcome.released = ~ session.retracted
    BY <2>2, Zenon DEF PromisedVerified
  <2>5. ASSUME NEW k \in Filed', k = i
        PROVE  Backed(files'[k], k, Entries(bBox'), Entries(vBox'))
    <3>1. files'[k] = [session |-> session, result |-> result, verified |-> VerifiedOutcome,
                       baseline |-> BaselineOutcome, held |-> held]
      BY <2>1, <2>5 DEF Filed
    <3>2. /\ files'[k].verified = VerifiedOutcome /\ files'[k].session = session
          /\ files'[k].baseline = BaselineOutcome /\ files'[k].held = held
          /\ files'[k].result = result
      BY ONLY <3>1
    <3>3. [session |-> k, effect |-> result] = Effect
      BY <2>5 DEF Effect
    <3> QED BY <2>1, <2>2, <2>3, <2>4, <3>2, <3>3, Zenon
  <2>6. ASSUME NEW k \in Filed', k # i
        PROVE  Backed(files'[k], k, Entries(bBox'), Entries(vBox'))
    <3>1. k \in Filed /\ files'[k] = files[k]
      BY <2>1, <2>6 DEF Filed
    <3> QED BY <1>1, <2>1, <3>1
  <2> QED BY <2>5, <2>6
<1>8. CASE \/ Start \/ AttemptFails \/ CallFails \/ PlannerReplies \/ ExecutorReplies
           \/ SupervisorReplies \/ ArmCall \/ PhaseEnds \/ End \/ Crash
           \/ StartReplay \/ ReplayStep \/ ReplayEnds
  BY <1>3, <1>8 DEF Start, AttemptFails, CallFails, PlannerReplies, ExecutorReplies,
     SupervisorReplies, Reply, ArmCall, PhaseEnds, End, Crash, StartReplay, ReplayStep,
     ReplayEnds, diskVars
<1> QED BY <1>5, <1>6, <1>7, <1>8 DEF LNext, RunStep

-----------------------------------------------------------------------------
\* Nothing has run: no entry, no file, and fresh arms.
LEMMA LiveInit == LInit => L2Inv /\ LiveInv
<1> SUFFICES ASSUME LInit PROVE L2Inv /\ LiveInv
  OBVIOUS
<1>1. L2Inv
  BY InitInv DEF LInit, ArmsInit
<1>2. /\ pc = "off" /\ at = 0 /\ i = 0 /\ session = NoSession /\ summary = NoSummary
      /\ vBox = << >> /\ bBox = << >> /\ kept = << >> /\ mark = NoMark
      /\ files = [k \in {} |-> NoSession] /\ ~ failed
  BY DEF LInit, ArmsInit
<1>3. Filed = {}
  BY <1>2 DEF Filed
<1>4. LiveTypeOK
  BY <1>2, <1>3, LiveAssumption DEF LiveTypeOK, NoSession, NoSummary, NoMark, Counters,
     Marks,
     InSession, Planned, Resulted, VerifiedPhase, BaselinePhase
<1>5. ArmsInPlace
  <2>1. VerifiedPlace = 0 /\ BaselinePlace = 0 /\ CascadePlace = 0
    BY <1>2 DEF VerifiedPlace, BaselinePlace, CascadePlace
  <2>2. VerifiedAt(0, session)
    BY SessionTxns DEF LInit, ArmsInit, Init, VerifiedAt, ReadSet
  <2>3. StoreAt(uTxns, uValue, uWriter, 0, session, FALSE)
    BY DEF LInit, ArmsInit, U!Init, U!NoWrites, StoreAt, BegunAt
  <2>4. StoreAt(kTxns, kValue, kWriter, 0, session, TRUE)
    BY DEF LInit, K!Init, K!NoWrites, StoreAt, BegunAt
  <2> QED BY <1>2, <2>1, <2>2, <2>3, <2>4 DEF ArmsInPlace, InSession
<1>6. BoxesInOrder
  <2>1. [k \in {} |-> 0] \in [DOMAIN << >> -> 1 .. 0]
    OBVIOUS
  <2>2. DOMAIN << >> = {} /\ Len(<< >>) = 0
    OBVIOUS
  <2>3. WithinFirst(0, << >>, << >>)
    BY <2>1, <2>2, Zenon DEF WithinFirst
  <2> QED BY <1>2, <2>2, <2>3 DEF BoxesInOrder, OnlyKeptLeaves, SubsequenceOf,
             BaselineOut,
       VerifiedOut
<1>7. CountsInPlace
  BY <1>2 DEF CountsInPlace
<1>8. FilesBackedByOutboxes
  BY <1>2, <1>3 DEF FilesBackedByOutboxes
<1> QED BY <1>1, <1>4, <1>5, <1>6, <1>7, <1>8 DEF LiveInv

\* No step of a run, a crash or a replay breaks the invariant.
LEMMA LiveNext ==
  ASSUME L2Inv, LiveInv, [LNext]_liveVars
  PROVE  L2Inv' /\ LiveInv'
<1>1. CASE LNext
  <2>1. LiveTypeOK'
    BY <1>1, TypeStep DEF LiveInv
  <2>2. L2Inv' /\ ArmsInPlace'
    BY <1>1, ArmsStep DEF LiveInv
  <2>3. BoxesInOrder' /\ CountsInPlace'
    BY <1>1, BoxesStep, CountsStep DEF LiveInv
  <2>4. FilesBackedByOutboxes'
    BY <1>1, <2>2, FilesStep DEF LiveInv
  <2> QED BY <2>1, <2>2, <2>3, <2>4 DEF LiveInv
<1>2. CASE UNCHANGED liveVars
  <2>1. UNCHANGED << armVars, vars >>
    BY <1>2 DEF liveVars, replayVars, armVars
  <2>2. L2Inv'
    BY <2>1, NextInv
  <2>3. UNCHANGED << pc, i, result, summary, vBox, bBox, files, kept, mark, session, at, held >>
    BY <1>2 DEF liveVars, replayVars, runVars, diskVars, historyVars
  <2>4. LiveTypeOK'
    <3>1. Script' = Script /\ AfterCascade' = AfterCascade
      BY <2>3 DEF Script, AfterCascade, AfterUnguarded, AfterVerified, VerifiedScript,
         BaselineScript
    <3> QED BY <2>3, <3>1 DEF LiveInv, LiveTypeOK, InSession, Planned, Resulted, Filed
  <2>5. ArmsInPlace'
    <3>1. /\ VerifiedPlace' = VerifiedPlace /\ BaselinePlace' = BaselinePlace
          /\ CascadePlace' = CascadePlace /\ InSession' = InSession
      BY <2>3 DEF VerifiedPlace, BaselinePlace, CascadePlace, AfterUnguarded,
         AfterVerified,
         VerifiedScript, BaselineScript, InSession
    <3>2. UNCHANGED << vars, uTxns, uValue, uWriter, kTxns, kValue, kWriter, failed >>
      BY <1>2 DEF liveVars, replayVars, armVars, uVars, kVars
    <3>3. VerifiedAt(VerifiedPlace, session)'
      <4>1. PICK k, s : k = VerifiedPlace /\ s = session
        OBVIOUS
      <4>2. VerifiedAt(k, s)
        BY <4>1 DEF LiveInv, ArmsInPlace
      <4>3. VerifiedAt(k, s)'
        BY <3>2, <4>2 DEF VerifiedAt, vars, ReadSet
      <4> QED BY <2>3, <3>1, <4>1, <4>3
    <3> QED BY <2>3, <3>1, <3>2, <3>3 DEF LiveInv, ArmsInPlace
  <2>6. BoxesInOrder'
    BY <2>3 DEF LiveInv, BoxesInOrder, OnlyKeptLeaves, BaselineOut, VerifiedOut, Awaits,
       Effect
  <2>7. CountsInPlace'
    BY <2>3 DEF LiveInv, CountsInPlace, BaselineOut, VerifiedOut
  <2>8. FilesBackedByOutboxes'
    BY <1>2, <2>3 DEF LiveInv, FilesBackedByOutboxes, Filed, Entries, liveVars,
       replayVars,
       armVars
  <2> QED BY <2>2, <2>4, <2>5, <2>6, <2>7, <2>8 DEF LiveInv
<1> QED BY <1>1, <1>2

\* Sessions, the arms they run on, the files they leave and the counts of the
\* run are in place whenever any step of the driver can be taken.
THEOREM LiveInvariance == LSpec => [](L2Inv /\ LiveInv)
<1>1. L2Inv /\ LiveInv /\ [LNext]_liveVars => (L2Inv /\ LiveInv)'
  BY LiveNext
<1> QED BY <1>1, LiveInit, PTL DEF LSpec

\* Whatever crashes and further runs overwrite and append: no session fails an
\* assertion, and what a session file says has gone out is in the outbox.
THEOREM LiveFilesAreBacked == LSpec => []FilesBackedByOutboxes
<1>1. LiveInv => FilesBackedByOutboxes
  BY DEF LiveInv
<1> QED BY <1>1, LiveInvariance, PTL

\* The verified outbox never has more than the supervisors kept, in that order
\* and each once, and nothing that has not been in the baseline's before.
THEOREM LiveOnlyKeptLeaves == LSpec => []OnlyKeptLeaves
<1>1. LiveInv => OnlyKeptLeaves
  BY DEF LiveInv, BoxesInOrder
<1> QED BY <1>1, LiveInvariance, PTL

\* A run that comes to its summary has accounted for all N sessions and for
\* every line it has put into an outbox.
LEMMA SummaryFromCounts ==
  ASSUME LiveInv
  PROVE  SummaryAddsUp
<1> SUFFICES ASSUME pc = "summary" PROVE SummaryAddsUp
  BY DEF SummaryAddsUp
<1>1. /\ i = N
      /\ summary.verifiedReleased \in Nat /\ summary.baselineReleased \in Nat
  BY DEF LiveInv, LiveTypeOK, Counters
<1>2. Ones(VerifiedOut) = 0 /\ Ones(BaselineOut) = 0
  BY DEF Ones, VerifiedOut, BaselineOut
<1>3. /\ summary.verifiedReleased + 0 = summary.verifiedReleased
      /\ summary.baselineReleased + 0 = summary.baselineReleased
  BY ONLY <1>1
<1>4. CountsInPlace /\ pc \notin {"off", "replay"}
  BY DEF LiveInv
<1> QED BY ONLY <1>1, <1>2, <1>3, <1>4, Zenon DEF CountsInPlace, SummaryAddsUp

\* When a run writes its summary, it has accounted for every session and every
\* line in its outboxes.
THEOREM LiveSummaryAddsUp == LSpec => []SummaryAddsUp
<1> QED BY SummaryFromCounts, LiveInvariance, PTL

\* Whatever record is replayed, its replay ends as the session's design says,
\* and as the run that filed the session saw it.
LEMMA ReplayFromPlaces ==
  ASSUME LiveInv
  PROVE  ReplayComesOut
<1> SUFFICES ASSUME pc = "replay", Replayed PROVE ReplayComesOut
  BY DEF ReplayComesOut
<1>1. session.retracted \in BOOLEAN /\ at = AfterCascade
  BY DEF LiveInv, LiveTypeOK, Replayed
<1>2. /\ VerifiedOutcome = PromisedVerified(session.retracted)
      /\ BaselineOutcome = PromisedBaseline(session.retracted)
      /\ held
  BY <1>1, OutcomesAsPromised DEF LiveInv
<1>3. PICK k : k = 5 + Ones(session.retracted) /\ k = CascadePlace
  BY <1>1, ReplayLengths DEF CascadePlace
<1>4. StoreAt(kTxns, kValue, kWriter, k, session, TRUE) /\ ~ failed
  BY <1>3, Zenon DEF LiveInv, ArmsInPlace
<1>5. /\ A3(kTxns) <=> session.retracted
      /\ A3Unpropagated(kTxns) <=> session.retracted /\ ~ TRUE
      /\ kTxns[executor].externalized = TRUE
  BY <1>3, <1>4, StoreComesOut, Zenon
<1>6. AsDesigned
  BY <1>1, <1>2, <1>4, <1>5 DEF AsDesigned, A3, A3Unpropagated
<1>7. ASSUME NEW f \in Filed, files[f].session = session
      PROVE  files[f].verified = VerifiedOutcome /\ files[f].baseline = BaselineOutcome
  BY <1>2, <1>7, Zenon DEF LiveInv, FilesBackedByOutboxes
<1> QED BY <1>6, <1>7 DEF ReplayComesOut

\* A replay ends with what the session's design says, whatever the record, and
\* where the session is on file, with what its run saw.
THEOREM LiveReplayComesOut == LSpec => []ReplayComesOut
<1> QED BY ReplayFromPlaces, LiveInvariance, PTL

=============================================================================
