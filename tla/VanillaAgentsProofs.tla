------------------------- MODULE VanillaAgentsProofs --------------------------
(****************************************************************************)
(* What agents over the vanilla store guarantee, for any number of threads,  *)
(* objects, agent ids, cells and values: the store promises nothing about a  *)
(* log, and the detectors see everything it does to one.                     *)
(****************************************************************************)
EXTENDS VanillaAgents, AgentProofs

\* A later write does not change what a cell showed.
LEMMA ShownStays ==
    ASSUME NEW F, NEW r, NEW c, NEW x, NEW time \in Int, r.writeTime \in Int,
           time < r.writeTime, Shown(F, c, x, time)
    PROVE  Shown(F \cup {r}, c, x, time)
  BY DEF Shown

\* What a cell shows stays as it is while time passes without a write to it.
LEMMA ShownWhileUnwritten ==
    ASSUME NEW F, NEW r, NEW c, NEW x, NEW time \in Int,
           NEW later \in Int, time <= later,
           \A s \in F : s.writeTime \in Int /\ s.writeTime <= time,
           c \notin DOMAIN r.writes, Shown(F, c, x, time)
    PROVE  Shown(F, c, x, later) /\ Shown(F \cup {r}, c, x, later)
  BY DEF Shown

\* A cell shows the write that was just made to it.
LEMMA ShownWhenWritten ==
    ASSUME NEW F, NEW r, NEW c, NEW time \in Int,
           \A s \in F : s.writeTime \in Int /\ s.writeTime <= time,
           c \in DOMAIN r.writes, r.writeTime = time
    PROVE  Shown(F \cup {r}, c, r.writes[c], time)
  BY DEF Shown

\* A value that was shown, and is not any more, was overwritten in between.
LEMMA ChangedMeansWritten ==
    ASSUME NEW F, NEW c, NEW x, NEW y, NEW from \in Int, NEW to \in Int,
           \A s \in F : s.writeTime \in Int /\ s.writeTime <= to,
           \A r, s \in F : r.writeTime = s.writeTime => r = s,
           Shown(F, c, x, from), Shown(F, c, y, to), x # y
    PROVE  \E s \in F : /\ c \in DOMAIN s.writes /\ s.writes[c] = y
                        /\ from < s.writeTime
<1>1. CASE y = Null /\ \A s \in F : c \in DOMAIN s.writes => to < s.writeTime
  <2>1. \A s \in F : c \notin DOMAIN s.writes
    BY <1>1
  <2> QED
    BY <1>1, <2>1 DEF Shown
<1>2. ASSUME NEW s \in F, c \in DOMAIN s.writes, s.writes[c] = y,
             s.writeTime <= to,
             \A u \in F : c \in DOMAIN u.writes /\ u.writeTime <= to =>
                u.writeTime <= s.writeTime
      PROVE  from < s.writeTime
  <2>1. SUFFICES ASSUME s.writeTime <= from PROVE FALSE
    OBVIOUS
  <2>2. PICK u \in F : /\ c \in DOMAIN u.writes /\ u.writes[c] = x
                       /\ \A v \in F : c \in DOMAIN v.writes /\ v.writeTime <= from =>
                             v.writeTime <= u.writeTime
    BY <1>2, <2>1 DEF Shown
  <2>3. u.writeTime <= s.writeTime /\ s.writeTime <= u.writeTime
    BY <1>2, <2>1, <2>2
  <2>4. u = s
    BY <2>3
  <2> QED
    BY <1>2, <2>2, <2>4
<1> QED
  BY <1>1, <1>2 DEF Shown

-----------------------------------------------------------------------------
\* The clock and the records' times are numbers.
LEMMA VATimes ==
    ASSUME VATypeOK, FinishedInOrder
    PROVE  /\ clock \in Nat /\ MaxClock \in Nat
           /\ \A r \in Finished : r.writeTime \in Int /\ r.writeTime <= clock
  BY VanillaAssumption DEF VATypeOK, FinishedInOrder

\* A step that finishes nothing, leaves cells and clock alone, and reads at
\* most what the cells show, keeps the invariant.
LEMMA NothingFinishedKeepsVAInv ==
    ASSUME VAInv, VATypeOK', Finished' = Finished,
           UNCHANGED << data, clock, stale >>,
           NEW cells \in SUBSET Cell,
           Windows' \subseteq Windows \cup {<< [c \in cells |-> data[c]], clock >>}
    PROVE  VAInv'
<1> USE DEF VAInv
<1>1. FinishedInOrder'
  BY DEF FinishedInOrder
<1>2. ReadsAreShown'
  <2> DEFINE w == << [c \in cells |-> data[c]], clock >>
             WindowOK(u) == /\ u[2] <= clock
                            /\ \A c \in DOMAIN u[1] :
                                  Shown(Finished, c, u[1][c], u[2])
  <2>1. /\ w[2] <= clock
        /\ \A c \in DOMAIN w[1] : Shown(Finished, c, w[1][c], w[2])
    BY VATimes DEF ReadsAreShown
  <2>2. WindowOK(w) /\ \A u \in Windows : WindowOK(u)
    BY <2>1 DEF ReadsAreShown
  <2> HIDE DEF w, WindowOK
  <2>3. \A u \in Windows' : WindowOK(u)
    BY <2>2 DEF w
  <2> QED
    BY <2>3 DEF WindowOK, ReadsAreShown
<1>3. StaleArePairs'
  BY DEF StaleArePairs
<1> QED
  BY <1>1, <1>2, <1>3

\* A commit writes over what the cells showed, and is noted as stale with the
\* overwrite that made it so.
LEMMA CommitKeepsVAInv ==
    ASSUME VAInv, VATypeOK', NEW t \in Thread, VCommit(t)
    PROVE  VAInv'
<1> USE DEF VAInv
<1> DEFINE r == Record(t)'
           o == op[t]
<1>1. /\ Committed(t, clock + 1) /\ clock' = clock + 1
      /\ data' = [c \in Cell |-> IF c \in DOMAIN o.writes THEN o.writes[c] ELSE data[c]]
      /\ stale' = IF \E c \in DOMAIN o.reads : o.reads[c] # data[c]
                  THEN stale \cup {clock + 1} ELSE stale
  BY DEF VCommit, WriteTime
<1>2. /\ Finished' = Finished \cup {r} /\ Windows' \subseteq Windows
      /\ << o.reads, o.readTime >> \in Windows
      /\ r.reads = o.reads /\ r.readTime = o.readTime
      /\ r.writes = o.writes /\ r.writeTime = clock + 1
      /\ r.io = o.writes /\ r.co = o.writes
  BY <1>1, CommittedEffect DEF VATypeOK
<1>3. /\ clock \in Nat
      /\ \A s \in Finished : s.writeTime \in Int /\ s.writeTime <= clock
  BY VATimes
<1>4. /\ o.readTime \in Nat /\ o.readTime <= clock
      /\ \A c \in DOMAIN o.reads : c \in Cell /\ Shown(Finished, c, o.reads[c], o.readTime)
  <2>1. o.readTime \in Nat /\ DOMAIN o.reads \subseteq Cell
    BY VanillaAssumption DEF VATypeOK, AgentTyped
  <2>2. \A w \in Windows : /\ w[2] <= clock
                           /\ \A c \in DOMAIN w[1] : Shown(Finished, c, w[1][c], w[2])
    BY DEF ReadsAreShown
  <2>3. LET w == << o.reads, o.readTime >> IN
        w[2] <= clock /\ \A c \in DOMAIN w[1] : Shown(Finished, c, w[1][c], w[2])
    BY <1>2, <2>2
  <2> QED
    BY <2>1, <2>3
<1> HIDE DEF r, o
<1>5. FinishedInOrder'
  BY <1>1, <1>2, <1>3, <1>4 DEF FinishedInOrder
<1>6. ReadsAreShown'
  <2>1. ASSUME NEW c \in Cell
        PROVE  Shown(Finished', c, data'[c], clock')
    <3>1. CASE c \in DOMAIN r.writes
      <4>1. data'[c] = r.writes[c]
        BY <1>1, <1>2, <3>1
      <4>2. /\ r.writeTime = clock' /\ clock' \in Int
            /\ \A s \in Finished : s.writeTime \in Int /\ s.writeTime <= clock'
        BY <1>1, <1>2, <1>3
      <4>3. Shown(Finished \cup {r}, c, r.writes[c], clock')
        BY ONLY <3>1, <4>2, ShownWhenWritten
      <4> QED
        BY <1>2, <4>1, <4>3
    <3>2. CASE c \notin DOMAIN r.writes
      <4>1. data'[c] = data[c]
        BY <1>1, <1>2, <3>2 DEF VATypeOK
      <4>2. Shown(Finished, c, data[c], clock)
        BY DEF ReadsAreShown
      <4> QED
        <5>1. clock \in Int /\ clock' \in Int /\ clock <= clock'
          BY <1>1, <1>3
        <5>2. Shown(Finished \cup {r}, c, data[c], clock')
          BY ONLY <1>3, <3>2, <4>2, <5>1, ShownWhileUnwritten
        <5> QED
          BY <1>2, <4>1, <5>2
    <3> QED
      BY <3>1, <3>2
  <2>2. ASSUME NEW c, NEW x, NEW time \in Int, time <= clock,
               Shown(Finished, c, x, time)
        PROVE  Shown(Finished', c, x, time)
    <3>1. r.writeTime \in Int /\ time < r.writeTime
      BY <1>2, <1>3, <2>2
    <3>2. Shown(Finished \cup {r}, c, x, time)
      BY ONLY <2>2, <3>1, ShownStays
    <3> QED
      BY <1>2, <3>2
  <2>3. \A w \in Windows' : /\ w[2] <= clock'
                            /\ \A c \in DOMAIN w[1] : Shown(Finished', c, w[1][c], w[2])
    <3>1. ASSUME NEW w \in Windows
          PROVE  /\ w[2] \in Int /\ w[2] <= clock
                 /\ \A c \in DOMAIN w[1] : Shown(Finished, c, w[1][c], w[2])
      BY VanillaAssumption DEF ReadsAreShown, VATypeOK, AgentTyped, Windows
    <3>2. ASSUME NEW w \in Windows
          PROVE  \A c \in DOMAIN w[1] : Shown(Finished', c, w[1][c], w[2])
      BY ONLY <2>2, <3>1
    <3>3. \A x \in Int : x <= clock => x <= clock'
      BY <1>1, <1>3
    <3> QED
      BY <1>2, <3>1, <3>2, <3>3
  <2>4. \A s \in Finished' : \A c \in DOMAIN s.reads :
           Shown(Finished', c, s.reads[c], s.readTime)
    <3>1. ASSUME NEW s \in Finished
          PROVE  /\ s.readTime \in Int /\ s.readTime <= clock
                 /\ \A c \in DOMAIN s.reads : Shown(Finished, c, s.reads[c], s.readTime)
      BY <1>3 DEF ReadsAreShown, FinishedInOrder
    <3>2. ASSUME NEW s \in Finished
          PROVE  \A c \in DOMAIN s.reads : Shown(Finished', c, s.reads[c], s.readTime)
      BY ONLY <2>2, <3>1
    <3>3. \A c \in DOMAIN o.reads : Shown(Finished', c, o.reads[c], o.readTime)
      BY <1>4, <2>2
    <3> QED
      BY <1>2, <3>2, <3>3
  <2> QED
    BY <2>1, <2>3, <2>4 DEF ReadsAreShown
<1>7. StaleArePairs'
  <2>1. \A time \in stale : \E q, s \in Finished' :
           q.writeTime = time /\ D!A1Pair(q, s)
    BY <1>2 DEF StaleArePairs
  <2>2. ASSUME NEW c \in DOMAIN o.reads, o.reads[c] # data[c]
        PROVE  \E q, s \in Finished' : q.writeTime = clock + 1 /\ D!A1Pair(q, s)
    <3>1. /\ Shown(Finished, c, o.reads[c], o.readTime)
          /\ Shown(Finished, c, data[c], clock)
      BY <1>4 DEF ReadsAreShown
    <3>2. \A q, s \in Finished : q.writeTime = s.writeTime => q = s
      BY DEF FinishedInOrder
    <3>3. PICK s \in Finished : /\ c \in DOMAIN s.writes /\ s.writes[c] = data[c]
                                /\ o.readTime < s.writeTime
      BY <1>3, <1>4, <2>2, <3>1, <3>2, ChangedMeansWritten
    <3>4. D!A1Pair(r, s)
      BY <1>2, <1>3, <2>2, <3>3 DEF D!A1Pair
    <3> QED
      BY <1>2, <3>4
  <2> QED
    BY <1>1, <2>1, <2>2 DEF StaleArePairs
<1> QED
  BY <1>5, <1>6, <1>7

\* A tick of the clock changes neither cells nor operations.
LEMMA TickKeepsVAInv ==
    ASSUME VAInv, VATypeOK', VTick
    PROVE  VAInv'
<1> USE DEF VAInv
<1>1. /\ clock' = clock + 1 /\ data' = data /\ stale' = stale
      /\ Finished' = Finished /\ Windows' = Windows
  BY AgentUnchangedEffect DEF VTick
<1>2. /\ clock \in Nat
      /\ \A s \in Finished : s.writeTime \in Int /\ s.writeTime <= clock
  BY VATimes
<1>3. FinishedInOrder'
  BY <1>1, <1>2 DEF FinishedInOrder
<1>4. ReadsAreShown'
  <2>1. \A c \in Cell : Shown(Finished', c, data'[c], clock')
    <3>1. ASSUME NEW c \in Cell, Shown(Finished, c, data[c], clock)
          PROVE  Shown(Finished, c, data[c], clock + 1)
      BY <1>2, <3>1 DEF Shown
    <3> QED
      BY <1>1, <3>1 DEF ReadsAreShown
  <2>2. \A w \in Windows : w[2] \in Int
    BY VanillaAssumption DEF VATypeOK, AgentTyped, Windows
  <2> QED
    BY <1>1, <1>2, <2>1, <2>2 DEF ReadsAreShown
<1>5. StaleArePairs'
  BY <1>1 DEF StaleArePairs
<1> QED
  BY <1>3, <1>4, <1>5

\* Agents and store stay typed.
LEMMA VATypeStep ==
    ASSUME VATypeOK, [VANext]_allVars
    PROVE  VATypeOK'
<1> USE DEF VATypeOK
<1>0. clock \in 0 .. MaxClock /\ MaxClock \in Nat /\ 0 \in 0 .. MaxClock
  BY VanillaAssumption
<1>1. ASSUME NEW t \in Thread, AgentStep(Cell, Val, 0 .. MaxClock, t),
             UNCHANGED vanillaVars
      PROVE  VATypeOK'
  BY <1>0, <1>1, AgentStepTyped DEF vanillaVars
<1>2. ASSUME NEW t \in Thread, NEW cells \in SUBSET Cell, NEW planned,
             VBegin(t, cells, planned)
      PROVE  VATypeOK'
  <2>1. AgentStep(Cell, Val, 0 .. MaxClock, t)
    BY <1>0, <1>2 DEF VBegin, AgentStep
  <2> QED
    BY <1>1, <1>2, <2>1 DEF VBegin
<1>3. ASSUME NEW t \in Thread, NEW W \in SUBSET Cell, NEW writes \in [W -> Val],
             NEW named, VTake(t, writes, named)
      PROVE  VATypeOK'
  <2>1. AgentStep(Cell, Val, 0 .. MaxClock, t)
    BY <1>3 DEF VTake, AgentStep
  <2> QED
    BY <1>1, <1>3, <2>1 DEF VTake
<1>4. ASSUME NEW t \in Thread, VCommit(t)
      PROVE  VATypeOK'
  <2>1. AgentStep(Cell, Val, 0 .. MaxClock, t)
    BY <1>4 DEF VCommit, AgentStep
  <2>2. AgentTyped(Cell, Val, 0 .. MaxClock)'
    BY <1>0, <2>1, AgentStepTyped
  <2>3. clock' \in 0 .. MaxClock
    BY <1>0, <1>4 DEF VCommit
  <2>4. DOMAIN data' = Cell
    <3>1. DOMAIN op[t].writes \subseteq Cell
      BY DEF AgentTyped
    <3> QED
      BY <1>4, <3>1 DEF VCommit
  <2> QED
    BY <2>2, <2>3, <2>4
<1>5. ASSUME NEW t \in Thread, VEmit(t) \/ VRelease(t)
      PROVE  VATypeOK'
  BY <1>1, <1>5 DEF VEmit, VRelease, AgentStep
<1>6. CASE VTick
  BY <1>0, <1>6, AgentUnchangedTyped DEF VTick
<1>7. CASE UNCHANGED allVars
  BY <1>7, AgentUnchangedTyped DEF allVars, vanillaVars
<1> QED
  BY <1>2, <1>3, <1>4, <1>5, <1>6, <1>7 DEF VANext

\* Every step keeps the invariant.
LEMMA VAStep ==
    ASSUME VAInv, [VANext]_allVars
    PROVE  VAInv'
<1>0. VATypeOK /\ VATypeOK' /\ AgentTyped(Cell, Val, 0 .. MaxClock)
  BY VATypeStep DEF VAInv, VATypeOK
<1>1. ASSUME Finished' = Finished, Windows' \subseteq Windows,
             UNCHANGED << vanillaVars, stale >>
      PROVE  VAInv'
  <2>1. {} \in SUBSET Cell
    OBVIOUS
  <2>2. Windows' \subseteq Windows \cup {<< [c \in {} |-> data[c]], clock >>}
    BY <1>1
  <2> QED
    BY <1>0, <1>1, <2>1, <2>2, NothingFinishedKeepsVAInv DEF vanillaVars
<1>2. ASSUME NEW t \in Thread, NEW cells \in SUBSET Cell, NEW planned,
             VBegin(t, cells, planned)
      PROVE  VAInv'
  <2>1. /\ Finished' = Finished
        /\ Windows' \subseteq Windows \cup {<< [c \in cells |-> data[c]], clock >>}
        /\ UNCHANGED << data, clock, stale >>
    BY <1>0, <1>2, BeginEffect DEF VBegin, vanillaVars
  <2> QED
    BY <1>0, <2>1, NothingFinishedKeepsVAInv
<1>3. ASSUME NEW t \in Thread, Aside(t), UNCHANGED << vanillaVars, stale >>
      PROVE  VAInv'
  BY <1>0, <1>1, <1>3, AsideEffect
<1>4. ASSUME NEW t \in Thread, VEmit(t)
      PROVE  VAInv'
  BY <1>0, <1>1, <1>4, EmitEffect DEF VEmit
<1>5. CASE UNCHANGED allVars
  BY <1>1, <1>5, AgentUnchangedEffect DEF allVars
<1>6. ASSUME NEW t \in Thread, VRelease(t) \/ \E writes, named : VTake(t, writes, named)
      PROVE  Aside(t) /\ UNCHANGED << vanillaVars, stale >>
  BY <1>6 DEF Aside, VRelease, VTake
<1> QED
  BY <1>0, <1>2, <1>3, <1>4, <1>5, <1>6, CommitKeepsVAInv, TickKeepsVAInv DEF VANext

-----------------------------------------------------------------------------
\* A cell holds its last write, operations read the last write of their time,
\* and a stale commit has an overwrite that shows it, whatever the interleaving.
THEOREM VanillaInvariance == VASpec => []VAInv
<1>1. VAInit => VAInv
  <2> SUFFICES ASSUME VAInit PROVE VAInv
    OBVIOUS
  <2>1. VATypeOK
    BY AgentInitTyped, VanillaAssumption DEF VAInit, VATypeOK
  <2>2. Finished = {} /\ Windows = {}
    BY AgentInitEffect DEF VAInit
  <2> QED
    BY <2>1, <2>2 DEF VAInit, VAInv, FinishedInOrder, ReadsAreShown, Shown,
                      StaleArePairs
<1>2. VAInv /\ [VANext]_allVars => VAInv'
  BY VAStep
<1> QED
  BY <1>1, <1>2, PTL DEF VASpec

\* A stale commit is a witness of detect_a1 in a log that is whole.
THEOREM StaleCommitsHaveWitnesses == VASpec => []StaleCommitsAreFound
<1>1. VAInv => StaleCommitsAreFound
  <2> SUFFICES ASSUME VAInv, Quiet, NEW time \in stale
               PROVE  \E p \in D!A1Witnesses(emitted) : emitted[p[1]].writeTime = time
    BY DEF StaleCommitsAreFound
  <2>1. Finished = Emitted
    BY QuietLogIsWhole DEF Quiet
  <2>2. PICK r, s \in Emitted : r.writeTime = time /\ D!A1Pair(r, s)
    BY <2>1 DEF VAInv, StaleArePairs
  <2>3. PICK i, j \in DOMAIN emitted : r = emitted[i] /\ s = emitted[j]
    BY DEF Emitted
  <2>4. r.writeTime \in Nat /\ s.writeTime \in Nat
    BY <2>1 DEF VAInv, FinishedInOrder
  <2>5. i # j
    BY <2>2, <2>3, <2>4 DEF D!A1Pair
  <2>6. << i, j >> \in D!A1Witnesses(emitted)
    BY <2>2, <2>3, <2>5 DEF D!A1Witnesses
  <2> QED
    BY <2>2, <2>3, <2>6
<1> QED
  BY <1>1, VanillaInvariance, PTL

\* A log in which detect_a1 finds nothing replays one operation at a time.
THEOREM LogsWithoutA1Replay == VASpec => []ReadsReplay
<1>1. VAInv => ReadsReplay
  <2> SUFFICES ASSUME VAInv, Quiet, D!A1Witnesses(emitted) = {},
                      NEW i \in DOMAIN emitted, NEW c \in DOMAIN emitted[i].reads
               PROVE  LET before == {k \in DOMAIN emitted :
                                        /\ c \in DOMAIN emitted[k].writes
                                        /\ emitted[k].writeTime < emitted[i].writeTime}
                          last == CHOOSE k \in before : \A m \in before :
                                      emitted[m].writeTime <= emitted[k].writeTime
                      IN emitted[i].reads[c] =
                            IF before = {} THEN Null ELSE emitted[last].writes[c]
    BY DEF ReadsReplay
  <2> DEFINE r == emitted[i]
             before == {k \in DOMAIN emitted :
                           /\ c \in DOMAIN emitted[k].writes
                           /\ emitted[k].writeTime < r.writeTime}
             IsLast(k) == \A m \in before : emitted[m].writeTime <= emitted[k].writeTime
             last == CHOOSE k \in before : IsLast(k)
  <2>1. \A k \in DOMAIN emitted : emitted[k] \in Finished
    BY QuietLogIsWhole DEF Quiet, Emitted
  <2>2. /\ clock \in Nat
        /\ \A k \in DOMAIN emitted : /\ emitted[k].writeTime \in Nat
                                     /\ emitted[k].readTime \in Nat
                                     /\ emitted[k].readTime < emitted[k].writeTime
                                     /\ emitted[k].writeTime <= clock
    BY <2>1, VATimes DEF VAInv, FinishedInOrder
  <2>3. \A s, u \in Finished : s.writeTime = u.writeTime => s = u
    BY DEF VAInv, FinishedInOrder
  <2>4. Shown(Finished, c, r.reads[c], r.readTime)
    BY <2>1 DEF VAInv, ReadsAreShown
  \* Nothing but the value read was written inside the window.
  <2>5. ASSUME NEW k \in before, r.readTime < emitted[k].writeTime
        PROVE  emitted[k].writes[c] = r.reads[c]
    <3>1. ~ (D!A1Pair(r, emitted[k]) /\ i # k)
      <4>1. << i, k >> \notin D!A1Witnesses(emitted)
        OBVIOUS
      <4> QED
        BY <4>1 DEF D!A1Witnesses
    <3>2. i # k
      BY <2>2
    <3> QED
      BY <2>5, <3>1, <3>2 DEF D!A1Pair
  <2>6. CASE before = {}
    <3>1. ASSUME NEW s \in Finished, c \in DOMAIN s.writes, s.writeTime <= r.readTime
          PROVE  FALSE
      <4>1. PICK k \in DOMAIN emitted : s = emitted[k]
        BY QuietLogIsWhole DEF Quiet, Emitted
      <4>2. k \in before
        BY <2>2, <3>1, <4>1
      <4> QED
        BY <2>6, <4>2
    <3>2. r.reads[c] = Null
      BY <2>4, <3>1 DEF Shown
    <3> QED
      BY <2>6, <3>2
  <2>7. CASE before # {}
    <3>1. \E k \in before : IsLast(k)
      <4> DEFINE S == {emitted[k].writeTime : k \in before}
      <4>1. S \in SUBSET (0 .. clock) /\ S # {}
        BY <2>2, <2>7
      <4>2. PICK x \in S : \A y \in S : y <= x
        BY <2>2, <4>1, LastTime
      <4> QED
        BY <4>2
    <3>2. last \in before /\ IsLast(last)
      BY <3>1
    <3> HIDE DEF last
    <3>3. CASE r.readTime < emitted[last].writeTime
      BY <2>5, <2>7, <3>2, <3>3 DEF last
    <3>4. CASE emitted[last].writeTime <= r.readTime
      <4>1. emitted[last] \in Finished /\ c \in DOMAIN emitted[last].writes
        BY <2>1, <3>2
      <4>2. PICK s \in Finished :
               /\ c \in DOMAIN s.writes /\ s.writes[c] = r.reads[c]
               /\ s.writeTime <= r.readTime
               /\ \A u \in Finished : c \in DOMAIN u.writes /\ u.writeTime <= r.readTime =>
                     u.writeTime <= s.writeTime
        BY <2>2, <2>4, <3>2, <3>4, <4>1 DEF Shown
      <4>3. PICK k \in DOMAIN emitted : s = emitted[k]
        BY QuietLogIsWhole DEF Quiet, Emitted
      <4>4. k \in before
        BY <2>2, <4>2, <4>3
      <4>5. s.writeTime <= emitted[last].writeTime
        BY <3>2, <4>3, <4>4
      <4>6. emitted[last].writeTime <= s.writeTime
        BY <3>4, <4>1, <4>2
      <4>7. s = emitted[last]
        BY <2>2, <2>3, <3>2, <4>1, <4>3, <4>5, <4>6
      <4> QED
        BY <2>7, <4>2, <4>7 DEF last
    <3> QED
      BY <2>2, <3>2, <3>3, <3>4
  <2> QED
    BY <2>6, <2>7
<1> QED
  BY <1>1, VanillaInvariance, PTL

\* A log that is whole is at level 0, 3 or 4: what the store hands out has its
\* writer in the log, and effects leave as they were issued.
THEOREM VanillaLogLevels == VASpec => []VanillaLevels
<1>1. VAInv => VanillaLevels
  <2> SUFFICES ASSUME VAInv, Quiet
               PROVE  D!ClassifyLevel(emitted) \in {0, 3, 4}
    BY DEF VanillaLevels
  <2>0. Finished = Emitted
    BY QuietLogIsWhole DEF Quiet
  <2>1. \A k \in DOMAIN emitted : emitted[k] \in Finished
    BY <2>0 DEF Emitted
  <2>2. D!A3Witnesses(emitted) = {}
    <3> SUFFICES ASSUME NEW j \in DOMAIN emitted, NEW c \in DOMAIN emitted[j].reads,
                        emitted[j].reads[c] # Null
                 PROVE  D!HasAntecedent(emitted, j, c)
      BY DEF D!A3Witnesses
    <3>1. Shown(Finished, c, emitted[j].reads[c], emitted[j].readTime)
      BY <2>1 DEF VAInv, ReadsAreShown
    <3>2. PICK s \in Finished : /\ c \in DOMAIN s.writes
                                /\ s.writes[c] = emitted[j].reads[c]
                                /\ s.writeTime <= emitted[j].readTime
      BY <3>1 DEF Shown
    <3>3. PICK k \in DOMAIN emitted : s = emitted[k]
      BY <2>0 DEF Emitted
    <3>4. k # j
      BY <2>1, <3>2, <3>3 DEF VAInv, FinishedInOrder
    <3> QED
      BY <3>2, <3>3, <3>4 DEF D!HasAntecedent
  <2>3. D!A6Witnesses(emitted) = {}
    BY <2>1 DEF D!A6Witnesses, VAInv, FinishedInOrder
  <2> DEFINE found == << D!A1Witnesses(emitted), D!A3Witnesses(emitted),
                         D!A6Witnesses(emitted), D!A2Witnesses(emitted) >>
             S == {i \in 1 .. 4 : found[i] # {}} \cup {5}
  <2>4. S \subseteq {1, 4, 5} /\ 5 \in S
    BY <2>2, <2>3
  <2> HIDE DEF S
  <2>5. \E x \in S : \A y \in S : x <= y
    BY <2>4
  <2>6. D!Min(S) \in S
    BY <2>5 DEF D!Min
  <2>7. D!ClassifyLevel(emitted) = D!Min(S) - 1
    BY DEF D!ClassifyLevel, S
  <2>8. \A m \in S : m - 1 \in {0, 3, 4}
    BY <2>4
  <2> QED
    BY ONLY <2>6, <2>7, <2>8
<1> QED
  BY <1>1, VanillaInvariance, PTL

=============================================================================
