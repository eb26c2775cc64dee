------------------------------ MODULE L3L4Proofs ------------------------------
(****************************************************************************)
(* What the two layers above the runtime guarantee: the sequencer and a      *)
(* session of the probe, for any number of effects and any interleaving of   *)
(* their threads; and the registry's dispatch about churn, for any tools,    *)
(* signatures and operations.                                                *)
(****************************************************************************)
EXTENDS L3Probe, L4Registry, SequenceTheorems, FiniteSetTheorems, TLAPS

\* A set of naturals that is not empty has a least element.
LEMMA LeastNatural ==
  ASSUME NEW T \in SUBSET Nat, T # {}
  PROVE  \E n \in T : \A m \in T : n <= m
<1> DEFINE R == OpToRel(<, Nat)
<1>1. IsWellFoundedOn(R, Nat)
  BY NatLessThanWellFounded
<1>2. \A m, n \in Nat : m < n => << m, n >> \in R
  BY DEF OpToRel
<1> HIDE DEF R
<1>3. PICK n \in T : \A m \in T : ~ (<< m, n >> \in R)
  BY <1>1, WFMin
<1>4. \A m \in T : ~ (m < n)
  BY ONLY <1>2, <1>3, T \in SUBSET Nat, Zenon
<1> QED
  BY <1>4

-----------------------------------------------------------------------------
\* The first effect that is not completed exists, so Ready is what it says.
LEMMA ReadyIsFirstGap ==
  ASSUME NEW done, NEW from \in 0 .. Width
  PROVE  LET n == Ready(done, from) IN
         /\ n \in from .. Width
         /\ \A e \in from .. n - 1 : e \in done
         /\ n = Width \/ n \notin done
<1> DEFINE First(n) == /\ \A e \in from .. n - 1 : e \in done
                       /\ n = Width \/ n \notin done
           gaps == {n \in from .. Width : n = Width \/ n \notin done}
<1>1. gaps \in SUBSET Nat /\ gaps # {}
  <2>1. Width \in gaps
    BY L3Assumption
  <2> QED BY <2>1
<1>2. PICK n \in gaps : \A m \in gaps : n <= m
  BY <1>1, LeastNatural
<1>3. \A e \in from .. n - 1 : e \in done
  <2>1. ASSUME NEW e \in from .. n - 1, e \notin done PROVE FALSE
    <3>1. e \in gaps
      BY <2>1, <1>2, L3Assumption
    <3> QED BY <3>1, <1>2, <2>1
  <2> QED BY <2>1
<1>4. \E m \in from .. Width : First(m)
  BY <1>2, <1>3
<1>5. Ready(done, from) = CHOOSE m \in from .. Width : First(m)
  BY DEF Ready
<1> HIDE DEF First
<1>6. LET m == CHOOSE m \in from .. Width : First(m) IN m \in from .. Width /\ First(m)
  BY <1>4
<1> QED
  BY <1>5, <1>6 DEF First

\* The sequencer's sink is not longer than the issue order.
LEMMA EmittedLength ==
  ASSUME TypeOK, EmittedIsReadyPrefix
  PROVE  Len(emitted) \in 0 .. Width
<1>1. Len(emitted) \in Nat /\ DOMAIN emitted = 1 .. Len(emitted)
  BY DEF TypeOK
<1>2. CASE Len(emitted) > 0
  <2>1. Len(emitted) - 1 \in completed
    BY <1>1, <1>2 DEF EmittedIsReadyPrefix
  <2> QED BY <1>1, <2>1, L3Assumption DEF TypeOK
<1> QED BY <1>1, <1>2, L3Assumption

\* An effect that was issued and not completed before is completed: both sinks
\* take it as they should.
LEMMA CompleteKeepsL3Inv ==
  ASSUME L3Inv, NEW e \in 0 .. issued - 1, e \notin completed, Complete(e)
  PROVE  L3Inv'
<1> USE DEF L3Inv
<1> DEFINE next == Len(emitted)
           new == Ready(completed', next)
           more == [i \in 1 .. new - next |-> next + i - 1]
<1>1. /\ co' = Append(co, e) /\ completed' = completed \cup {e}
      /\ emitted' = emitted \o more /\ issued' = issued
  BY DEF Complete
<1>2. /\ issued \in 0 .. Width /\ completed \subseteq 0 .. issued - 1
      /\ co \in Seq(completed) /\ Len(co) = Cardinality(completed)
      /\ emitted \in Seq(Effect)
  BY DEF TypeOK
<1>3. next \in 0 .. Width
  BY EmittedLength
<1>4. /\ new \in next .. Width
      /\ \A f \in next .. new - 1 : f \in completed'
      /\ new = Width \/ new \notin completed'
  BY <1>3, ReadyIsFirstGap
<1>5. /\ co' \in Seq(completed')
      /\ Len(co') = Cardinality(completed')
  <2>1. IsFiniteSet(completed) /\ Cardinality(completed) \in Nat
    <3>1. IsFiniteSet(0 .. issued - 1)
      BY <1>2, FS_Interval, L3Assumption
    <3>2. completed \in SUBSET (0 .. issued - 1)
      BY <1>2
    <3> QED BY ONLY <3>1, <3>2, FS_Subset, FS_CardinalityType
  <2>2. Cardinality(completed') = Cardinality(completed) + 1
    BY <1>1, <2>1, FS_AddElement
  <2>3. co \in Seq(completed')
    BY <1>1, <1>2, SeqMonotonic
  <2> QED BY <1>1, <1>2, <2>2, <2>3
<1> HIDE DEF next, new
<1>6. more \in [1 .. new - next -> Effect] /\ new - next \in Nat
  BY <1>3, <1>4, L3Assumption DEF Effect
<1>7. more \in Seq(Effect) /\ Len(more) = new - next
  BY <1>6
<1>8. /\ emitted' \in Seq(Effect)
      /\ Len(emitted') = new
      /\ \A i \in 1 .. new :
            emitted'[i] = IF i <= next THEN emitted[i] ELSE more[i - next]
  <2>1. /\ emitted \o more \in Seq(Effect)
        /\ Len(emitted \o more) = Len(emitted) + Len(more)
        /\ \A i \in 1 .. Len(emitted) + Len(more) : (emitted \o more)[i] =
              IF i <= Len(emitted) THEN emitted[i] ELSE more[i - Len(emitted)]
    BY <1>2, <1>7, ConcatProperties
  <2>2. Len(emitted) = next
    BY DEF next
  <2>3. next + (new - next) = new
    BY <1>3, <1>4
  <2> HIDE DEF more
  <2> QED BY <1>1, <1>7, <2>1, <2>2, <2>3
<1>9. ASSUME NEW i \in 1 .. new
      PROVE  emitted'[i] = i - 1 /\ emitted'[i] \in completed'
  <2>1. CASE i <= next
    <3>1. i \in DOMAIN emitted
      BY <1>2, <1>3, <2>1 DEF next
    <3> QED BY <1>1, <1>8, <2>1, <3>1 DEF EmittedIsReadyPrefix
  <2>2. CASE ~(i <= next)
    <3>1. i - next \in 1 .. new - next
      BY <1>3, <1>4, <2>2
    <3>2. more[i - next] = i - 1
      BY <1>3, <1>4, <3>1
    <3>3. i - 1 \in next .. new - 1
      BY <1>3, <1>4, <2>2
    <3> QED BY <1>4, <1>8, <2>2, <3>2, <3>3
  <2> QED BY <2>1, <2>2
<1>10. EmittedIsReadyPrefix'
  <2>1. DOMAIN emitted' = 1 .. new
    BY <1>8
  <2> QED BY <1>4, <1>8, <1>9, <2>1 DEF EmittedIsReadyPrefix
<1>11. TypeOK'
  <2>1. completed' \subseteq 0 .. issued - 1
    BY <1>1, <1>2
  <2> QED BY <1>1, <1>2, <1>5, <1>8, <2>1 DEF TypeOK
<1> QED BY <1>10, <1>11

\* Issuing an effect completes none.
LEMMA IssueKeepsL3Inv ==
  ASSUME L3Inv, Issue
  PROVE  L3Inv'
<1>1. issued' \in 0 .. Width /\ completed \subseteq 0 .. issued' - 1
  BY L3Assumption DEF L3Inv, TypeOK, Issue
<1> QED
  BY <1>1 DEF L3Inv, TypeOK, EmittedIsReadyPrefix, Issue

-----------------------------------------------------------------------------
\* Every logged time is one of an effect.
LEMMA TimingsTyped ==
  ASSUME TimingsMatch
  PROVE  /\ Len(timings) \in Nat /\ DOMAIN timings = 1 .. Len(timings)
         /\ \A n \in DOMAIN timings :
               /\ timings[n] \in Timing
               /\ timings[n].step \in Effect
               /\ timings[n].complete \in Nat
<1>1. timings \in Seq(Timing)
  BY DEF TimingsMatch
<1>2. /\ Len(timings) \in Nat /\ DOMAIN timings = 1 .. Len(timings)
      /\ \A n \in 1 .. Len(timings) : timings[n] \in Timing
  BY <1>1, LenProperties, ElementOfSeq
<1>3. \A r \in Timing : r.step \in Effect /\ r.complete \in Nat
  BY ProbeAssumption DEF Timing
<1> QED BY <1>2, <1>3

\* A session starts with nothing issued.
LEMMA InitProbeInv == PInit => ProbeInv
<1> SUFFICES ASSUME PInit PROVE ProbeInv
  OBVIOUS
<1>1. /\ issued = 0 /\ co = << >> /\ completed = {} /\ emitted = << >>
      /\ clock = 0 /\ joined = 0 /\ timings = << >> /\ outcome = "running"
      /\ stage = [k \in Effect |-> "none"]
      /\ dispatchAt = [k \in Effect |-> 0]
      /\ completeAt = [k \in Effect |-> 0]
  BY DEF PInit, Init
<1>2. \A S : << >> \in Seq(S) /\ Len(<< >>) = 0 /\ DOMAIN << >> = {}
  OBVIOUS
<1>3. TypeOK
  BY <1>1, <1>2, FS_EmptySet, L3Assumption DEF TypeOK
<1>4. EmittedIsReadyPrefix
  BY <1>1, <1>2, L3Assumption DEF EmittedIsReadyPrefix
<1>5. StagesMatch
  BY <1>1, <1>2 DEF StagesMatch, Effect
<1>6. TimesInOrder
  BY <1>1, ProbeAssumption DEF TimesInOrder, Effect
<1>7. TimingsMatch
  BY <1>1, <1>2 DEF TimingsMatch
<1>8. JoinedEnded
  BY <1>1, L3Assumption DEF JoinedEnded, Effect
<1> QED BY <1>3, <1>4, <1>5, <1>6, <1>7, <1>8 DEF ProbeInv, L3Inv

\* Time passes.
LEMMA PassInv ==
  ASSUME ProbeInv, Pass
  PROVE  ProbeInv'
<1>1. clock' \in 0 .. MaxClock /\ clock <= clock' /\ clock \in 0 .. MaxClock
  BY ProbeAssumption DEF Pass, ProbeInv, TimesInOrder
<1>2. /\ UNCHANGED << issued, co, completed, emitted, joined, stage >>
      /\ UNCHANGED << dispatchAt, completeAt, timings, outcome >>
  BY DEF Pass, l3Vars
<1>3. TimesInOrder'
  <2>1. \A k \in Effect : k < issued => dispatchAt[k] <= clock'
    BY <1>1 DEF ProbeInv, TimesInOrder
  <2> QED BY <1>1, <1>2, <2>1 DEF ProbeInv, TimesInOrder
<1> QED
  BY <1>2, <1>3 DEF ProbeInv, L3Inv, TypeOK, EmittedIsReadyPrefix, StagesMatch,
     TimingsMatch, JoinedEnded

\* The effect dispatched is the next one, later than all before it.
LEMMA DispatchInv ==
  ASSUME ProbeInv, Dispatch
  PROVE  ProbeInv'
<1>1. /\ Issue /\ issued < Width /\ issued' = issued + 1
      /\ dispatchAt' = [dispatchAt EXCEPT ![issued] = clock]
      /\ stage' = [stage EXCEPT ![issued] = "call"]
      /\ UNCHANGED << co, completed, emitted, clock, joined, completeAt,
                      timings, outcome >>
  BY DEF Dispatch, Issue
<1>2. issued \in 0 .. Width /\ issued \in Effect
  BY <1>1, L3Assumption DEF ProbeInv, L3Inv, TypeOK, Effect
<1>3. L3Inv'
  BY <1>1, IssueKeepsL3Inv DEF ProbeInv
<1>4. \A k \in Effect :
         /\ k \in Nat
         /\ stage'[k] = IF k = issued THEN "call" ELSE stage[k]
         /\ dispatchAt'[k] = IF k = issued THEN clock ELSE dispatchAt[k]
         /\ k < issued' => k < issued \/ k = issued
  BY <1>1, <1>2, L3Assumption DEF ProbeInv, StagesMatch, TimesInOrder, Effect
<1>5. stage[issued] = "none"
  BY <1>2 DEF ProbeInv, StagesMatch
<1>6. StagesMatch'
  <2>1. \A k \in Effect : stage'[k] = "none" <=> k >= issued'
    BY <1>1, <1>2, <1>4 DEF ProbeInv, StagesMatch
  <2>2. completed' = {k \in Effect : stage'[k] \in {"log", "done"}}
    BY <1>1, <1>2, <1>4, <1>5 DEF ProbeInv, StagesMatch
  <2>3. stage' \in [Effect -> {"none", "call", "push", "log", "done", "dead"}]
    BY <1>1, <1>2 DEF ProbeInv, StagesMatch
  <2> QED BY <1>1, <2>1, <2>2, <2>3 DEF ProbeInv, StagesMatch
<1>7. TimesInOrder'
  <2>1. dispatchAt' \in [Effect -> 0 .. MaxClock]
    BY <1>1, <1>2 DEF ProbeInv, TimesInOrder
  <2>2. ASSUME NEW k \in Effect, k < issued'
        PROVE  /\ dispatchAt'[k] <= clock
               /\ \A j \in Effect : j < k => dispatchAt'[j] <= dispatchAt'[k]
               /\ stage'[k] \in {"push", "log", "done"} =>
                     dispatchAt'[k] <= completeAt[k]
    <3>1. CASE k = issued
      BY <1>4, <3>1 DEF ProbeInv, TimesInOrder
    <3>2. CASE k < issued
      BY <1>2, <1>4, <3>2 DEF ProbeInv, TimesInOrder
    <3> QED BY <1>4, <2>2, <3>1, <3>2
  <2> QED BY <1>1, <2>1, <2>2 DEF ProbeInv, TimesInOrder
<1>8. TimingsMatch'
  <2>1. \A k \in Effect : stage[k] = "done" => dispatchAt'[k] = dispatchAt[k]
    BY <1>4, <1>5
  <2>2. \A k \in Effect : stage'[k] = "done" <=> stage[k] = "done"
    BY <1>4, <1>5
  <2>3. \A n \in DOMAIN timings : timings[n].step \in Effect
    BY TimingsTyped DEF ProbeInv
  <2> QED BY <1>1, <2>1, <2>2, <2>3 DEF ProbeInv, TimingsMatch
<1>9. JoinedEnded'
  BY <1>1, <1>4, <1>5, L3Assumption DEF ProbeInv, JoinedEnded
<1> QED BY <1>3, <1>6, <1>7, <1>8, <1>9 DEF ProbeInv

\* A call that returns, or a panic, moves one thread on; nothing is pushed or
\* logged by it.
LEMMA CallEndsInv ==
  ASSUME ProbeInv, NEW k \in Effect, Return(k) \/ Die(k)
  PROVE  ProbeInv'
<1>1. /\ stage[k] = "call"
      /\ \E next \in {"push", "dead"} : stage' = [stage EXCEPT ![k] = next]
      /\ \/ completeAt' = completeAt /\ stage' = [stage EXCEPT ![k] = "dead"]
         \/ completeAt' = [completeAt EXCEPT ![k] = clock]
      /\ UNCHANGED << issued, co, completed, emitted, clock, joined, dispatchAt,
                      timings, outcome >>
  BY DEF Return, Die, l3Vars
<1>2. \A j \in Effect :
         /\ j # k => stage'[j] = stage[j] /\ completeAt'[j] = completeAt[j]
         /\ stage'[j] \in {"log", "done"} <=> stage[j] \in {"log", "done"}
         /\ stage'[j] = "done" <=> stage[j] = "done"
         /\ stage'[j] = "none" <=> stage[j] = "none"
  BY <1>1 DEF ProbeInv, StagesMatch, TimesInOrder
<1>3. stage'[k] = "dead" \/ completeAt'[k] = clock
  BY <1>1 DEF ProbeInv, StagesMatch, TimesInOrder
<1>4. L3Inv'
  BY <1>1 DEF ProbeInv, L3Inv, TypeOK, EmittedIsReadyPrefix
<1>5. StagesMatch'
  <2>1. stage' \in [Effect -> {"none", "call", "push", "log", "done", "dead"}]
    BY <1>1 DEF ProbeInv, StagesMatch
  <2> QED BY <1>1, <1>2, <2>1 DEF ProbeInv, StagesMatch
<1>6. TimesInOrder'
  <2>1. completeAt' \in [Effect -> 0 .. MaxClock]
    BY <1>1 DEF ProbeInv, TimesInOrder
  <2>2. ASSUME NEW j \in Effect, j < issued, stage'[j] \in {"push", "log", "done"}
        PROVE  dispatchAt[j] <= completeAt'[j]
    <3>1. CASE j = k
      BY <1>3, <2>2, <3>1 DEF ProbeInv, TimesInOrder
    <3>2. CASE j # k
      BY <1>2, <2>2, <3>2 DEF ProbeInv, TimesInOrder
    <3> QED BY <3>1, <3>2
  <2> QED BY <1>1, <2>1, <2>2 DEF ProbeInv, TimesInOrder
<1>7. TimingsMatch'
  <2>1. \A n \in DOMAIN timings : timings[n].step \in Effect /\ timings[n].step # k
    BY <1>1, TimingsTyped DEF ProbeInv, TimingsMatch
  <2> QED BY <1>1, <1>2, <2>1 DEF ProbeInv, TimingsMatch
<1>8. JoinedEnded'
  BY <1>1, <1>2 DEF ProbeInv, JoinedEnded
<1> QED BY <1>4, <1>5, <1>6, <1>7, <1>8 DEF ProbeInv

\* A thread pushes an effect that was issued and that nobody pushed before.
LEMMA PushInv ==
  ASSUME ProbeInv, NEW k \in Effect, Push(k)
  PROVE  ProbeInv'
<1>1. /\ stage[k] = "push" /\ Complete(k)
      /\ stage' = [stage EXCEPT ![k] = "log"]
      /\ co' = Append(co, k) /\ completed' = completed \cup {k}
      /\ UNCHANGED << issued, clock, joined, dispatchAt, completeAt, timings,
                      outcome >>
  BY DEF Push, Complete
<1>2. /\ k \in 0 .. issued - 1 /\ k \notin completed
      /\ co \in Seq(completed) /\ completed \subseteq Effect
  <2>1. k < issued /\ k \notin completed /\ completed \subseteq Effect
    BY <1>1, L3Assumption DEF ProbeInv, StagesMatch, Effect, L3Inv, TypeOK
  <2>2. k \in Nat /\ issued \in Nat
    BY L3Assumption DEF Effect, ProbeInv, L3Inv, TypeOK
  <2> QED BY <2>1, <2>2 DEF ProbeInv, L3Inv, TypeOK
<1>3. L3Inv'
  BY <1>1, <1>2, CompleteKeepsL3Inv DEF ProbeInv
<1>4. \A j \in Effect : stage'[j] = IF j = k THEN "log" ELSE stage[j]
  BY <1>1 DEF ProbeInv, StagesMatch
<1>5. StagesMatch'
  <2>1. stage' \in [Effect -> {"none", "call", "push", "log", "done", "dead"}]
    BY <1>1 DEF ProbeInv, StagesMatch
  <2>2. completed' = {j \in Effect : stage'[j] \in {"log", "done"}}
    BY <1>1, <1>4 DEF ProbeInv, StagesMatch
  <2>3. ASSUME NEW i \in DOMAIN co', NEW j \in DOMAIN co', co'[i] = co'[j]
        PROVE  i = j
    <3>1. /\ Len(co) \in Nat /\ DOMAIN co = 1 .. Len(co)
          /\ \A n \in 1 .. Len(co) : co[n] \in completed
      BY <1>2, LenProperties, ElementOfSeq
    <3>2. /\ DOMAIN co' = 1 .. Len(co) + 1
          /\ \A n \in 1 .. Len(co) : co'[n] = co[n]
          /\ co'[Len(co) + 1] = k
      <4>1. co \in Seq(Effect)
        BY <1>2, SeqMonotonic
      <4> QED BY <1>1, <4>1
    <3>3. \A n \in 1 .. Len(co) + 1 : n \in 1 .. Len(co) \/ n = Len(co) + 1
      BY <3>1
    <3> QED BY <1>2, <2>3, <3>1, <3>2, <3>3 DEF ProbeInv, StagesMatch
  <2> QED BY <1>1, <1>4, <2>1, <2>2, <2>3 DEF ProbeInv, StagesMatch
<1>6. TimesInOrder'
  BY <1>1, <1>4 DEF ProbeInv, TimesInOrder
<1>7. TimingsMatch'
  <2>1. \A n \in DOMAIN timings : timings[n].step \in Effect /\ timings[n].step # k
    BY <1>1, TimingsTyped DEF ProbeInv, TimingsMatch
  <2> QED BY <1>1, <1>4, <2>1 DEF ProbeInv, TimingsMatch
<1>8. JoinedEnded'
  <2>1. outcome # "scored"
    BY <1>1, L3Assumption DEF ProbeInv, JoinedEnded, Effect
  <2> QED BY <1>1, <1>4, <2>1 DEF ProbeInv, JoinedEnded
<1> QED BY <1>3, <1>5, <1>6, <1>7, <1>8 DEF ProbeInv

\* A thread logs the times of the effect it pushed, once.
LEMMA LogInv ==
  ASSUME ProbeInv, NEW k \in Effect, Log(k)
  PROVE  ProbeInv'
<1> DEFINE r == [step |-> k, dispatch |-> dispatchAt[k], complete |-> completeAt[k]]
<1>1. /\ stage[k] = "log" /\ stage' = [stage EXCEPT ![k] = "done"]
      /\ timings' = Append(timings, r)
      /\ UNCHANGED << issued, co, completed, emitted, clock, joined, dispatchAt,
                      completeAt, outcome >>
  BY DEF Log, l3Vars
<1>2. /\ r \in Timing /\ r.step = k
      /\ r.dispatch = dispatchAt[k] /\ r.complete = completeAt[k]
  BY DEF Timing, ProbeInv, TimesInOrder
<1> HIDE DEF r
<1>3. \A j \in Effect : stage'[j] = IF j = k THEN "done" ELSE stage[j]
  BY <1>1 DEF ProbeInv, StagesMatch
<1>4. L3Inv'
  BY <1>1 DEF ProbeInv, L3Inv, TypeOK, EmittedIsReadyPrefix
<1>5. StagesMatch'
  <2>1. stage' \in [Effect -> {"none", "call", "push", "log", "done", "dead"}]
    BY <1>1 DEF ProbeInv, StagesMatch
  <2>2. \A j \in Effect : /\ stage'[j] \in {"log", "done"} <=> stage[j] \in {"log", "done"}
                          /\ stage'[j] = "none" <=> stage[j] = "none"
    BY <1>1, <1>3
  <2> QED BY <1>1, <2>1, <2>2 DEF ProbeInv, StagesMatch
<1>6. TimesInOrder'
  BY <1>1, <1>3 DEF ProbeInv, TimesInOrder
<1>7. TimingsMatch'
  <2>1. /\ Len(timings) \in Nat /\ DOMAIN timings = 1 .. Len(timings)
        /\ \A n \in 1 .. Len(timings) : /\ timings[n].step \in Effect
                                        /\ timings[n].step # k
    BY <1>1, TimingsTyped DEF ProbeInv, TimingsMatch
  <2>2. /\ timings' \in Seq(Timing)
        /\ DOMAIN timings' = 1 .. Len(timings) + 1
        /\ \A n \in 1 .. Len(timings) : timings'[n] = timings[n]
        /\ timings'[Len(timings) + 1] = r
    BY <1>1, <1>2 DEF ProbeInv, TimingsMatch
  <2>3. \A n \in 1 .. Len(timings) + 1 : n \in 1 .. Len(timings) \/ n = Len(timings) + 1
    BY <2>1
  <2>4. Len(timings) + 1 \in 1 .. Len(timings) + 1
        /\ \A n \in 1 .. Len(timings) : n \in 1 .. Len(timings) + 1
    BY <2>1
  <2>5. ASSUME NEW n \in DOMAIN timings'
        PROVE  LET q == timings'[n] IN
               /\ stage'[q.step] = "done"
               /\ q.dispatch = dispatchAt'[q.step]
               /\ q.complete = completeAt'[q.step]
               /\ \A m \in DOMAIN timings' : timings'[m].step = q.step => m = n
    <3>1. CASE n \in 1 .. Len(timings)
      BY <1>1, <1>2, <1>3, <2>1, <2>2, <2>3, <3>1 DEF ProbeInv, TimingsMatch
    <3>2. CASE n = Len(timings) + 1
      BY <1>1, <1>2, <1>3, <2>1, <2>2, <2>3, <3>2
    <3> QED BY <2>2, <2>3, <3>1, <3>2
  <2>6. ASSUME NEW j \in Effect, stage'[j] = "done"
        PROVE  \E n \in DOMAIN timings' : timings'[n].step = j
    <3>1. CASE j = k
      BY <1>2, <2>2, <2>4, <3>1
    <3>2. CASE j # k
      BY <1>3, <2>1, <2>2, <2>4, <2>6, <3>2 DEF ProbeInv, TimingsMatch
    <3> QED BY <3>1, <3>2
  <2> QED BY <2>2, <2>5, <2>6 DEF TimingsMatch
<1>8. JoinedEnded'
  <2>1. outcome # "scored"
    BY <1>1, L3Assumption DEF ProbeInv, JoinedEnded, Effect
  <2> QED BY <1>1, <1>3, <2>1 DEF ProbeInv, JoinedEnded
<1> QED BY <1>4, <1>5, <1>6, <1>7, <1>8 DEF ProbeInv

\* The loop joins the threads in order.
LEMMA JoinInv ==
  ASSUME ProbeInv, Join
  PROVE  ProbeInv'
<1>1. /\ issued = Width /\ joined < Width /\ joined' = joined + 1
      /\ stage[joined] \in {"done", "dead"}
      /\ UNCHANGED << issued, co, completed, emitted, clock, stage, dispatchAt,
                      completeAt, timings, outcome >>
  BY DEF Join, l3Vars
<1>2. JoinedEnded'
  <2>1. joined \in Nat /\ joined' \in 0 .. Width
    BY <1>1, L3Assumption DEF ProbeInv, JoinedEnded
  <2>2. \A k \in Effect : k < joined' => k < joined \/ k = joined
    BY <1>1, <2>1 DEF Effect
  <2> QED BY <1>1, <2>1, <2>2 DEF ProbeInv, JoinedEnded
<1> QED
  BY <1>1, <1>2 DEF ProbeInv, L3Inv, TypeOK, EmittedIsReadyPrefix, StagesMatch,
     TimesInOrder, TimingsMatch

-----------------------------------------------------------------------------
\* Sorting rearranges a list into one whose completion times do not fall.
LEMMA SortedIsPermutation ==
  ASSUME NEW ts, NEW L \in Nat, DOMAIN ts = 1 .. L,
         \A a \in 1 .. L : ts[a].complete \in Nat
  PROVE  \E p \in [1 .. L -> 1 .. L] :
            /\ \A m, n \in 1 .. L : p[m] = p[n] => m = n
            /\ \A a \in 1 .. L : \E n \in 1 .. L : p[n] = a
            /\ Sorted(ts) = [n \in 1 .. L |-> ts[p[n]]]
            /\ \A m, n \in 1 .. L :
                  m < n => ts[p[m]].complete <= ts[p[n]].complete
<1> DEFINE I == 1 .. L
           Before(a, b) == \/ ts[a].complete < ts[b].complete
                           \/ ts[a].complete = ts[b].complete /\ a < b
           Earlier(a) == {b \in I : Before(b, a)}
           place == [a \in I |-> 1 + Cardinality(Earlier(a))]
           p == [n \in I |-> CHOOSE a \in I : place[a] = n]
<1>1. IsFiniteSet(I) /\ Cardinality(I) = L
  BY FS_Interval
<1>2. ASSUME NEW a \in I
      PROVE  /\ IsFiniteSet(Earlier(a)) /\ Cardinality(Earlier(a)) \in Nat
             /\ Cardinality(Earlier(a)) < L
  <2>1. Earlier(a) \in SUBSET I /\ a \notin Earlier(a)
    OBVIOUS
  <2> HIDE DEF Earlier, I
  <2>2. /\ IsFiniteSet(Earlier(a)) /\ Cardinality(Earlier(a)) <= L
        /\ Cardinality(Earlier(a)) # L
    BY <1>1, <2>1, FS_Subset
  <2>3. Cardinality(Earlier(a)) \in Nat
    BY <2>2, FS_CardinalityType
  <2> QED BY <2>2, <2>3
<1>3. ASSUME NEW a \in I, NEW b \in I, Before(a, b)
      PROVE  Cardinality(Earlier(a)) < Cardinality(Earlier(b))
  <2>1. Earlier(a) \in SUBSET Earlier(b) /\ a \in Earlier(b) /\ a \notin Earlier(a)
    BY <1>3
  <2>2. Earlier(a) # Earlier(b)
    BY <2>1
  <2> HIDE DEF Earlier
  <2>3. /\ IsFiniteSet(Earlier(b)) /\ Cardinality(Earlier(b)) \in Nat
        /\ Cardinality(Earlier(a)) \in Nat
    BY <1>2
  <2>4. /\ Cardinality(Earlier(a)) <= Cardinality(Earlier(b))
        /\ Cardinality(Earlier(a)) # Cardinality(Earlier(b))
    BY ONLY <2>1, <2>2, <2>3, FS_Subset
  <2> QED BY <2>3, <2>4
<1>4. \A a, b \in I : a # b => Before(a, b) \/ Before(b, a)
  OBVIOUS
<1> HIDE DEF Earlier
<1>5. \A a, b \in I : Before(a, b) => place[a] < place[b]
  <2> HIDE DEF Before
  <2> QED BY <1>2, <1>3
<1>6. place \in [I -> I]
  BY <1>2
<1> HIDE DEF place
<1>7. \A a, b \in I : place[a] = place[b] => a = b
  <2> HIDE DEF Before
  <2>1. \A a \in I : place[a] \in Nat
    BY <1>6
  <2> HIDE DEF I
  <2> QED BY <1>4, <1>5, <2>1
<1>8. \A n \in I : \E a \in I : place[a] = n
  <2> HIDE DEF I
  <2>1. place \in Injection(I, I)
    BY <1>6, <1>7 DEF Injection, IsInjective
  <2>2. place \in Surjection(I, I)
    BY <1>1, <2>1, FS_Injection
  <2> QED BY <2>2 DEF Surjection
<1>9. \A n \in I : p[n] \in I /\ place[p[n]] = n
  BY <1>8
<1>10. Sorted(ts) = [n \in I |-> ts[p[n]]]
  BY DEF Sorted, place, Earlier
<1> HIDE DEF p
<1>11. p \in [I -> I]
  BY <1>8 DEF p
<1>12. ASSUME NEW m \in I, NEW n \in I, m < n
       PROVE  ts[p[m]].complete <= ts[p[n]].complete
  <2>1. p[m] \in I /\ p[n] \in I /\ p[m] # p[n] /\ ~(place[p[n]] < place[p[m]])
    BY <1>9, <1>12
  <2>2. Before(p[m], p[n])
    <3> HIDE DEF Before
    <3> QED BY <1>4, <1>5, <2>1
  <2> QED BY <2>1, <2>2
<1>13. \A a \in I : \E n \in I : p[n] = a
  <2>1. \A a \in I : p[place[a]] = a
    BY <1>6, <1>7, <1>9
  <2> QED BY <1>6, <2>1
<1>14. \A m, n \in I : p[m] = p[n] => m = n
  BY <1>9
<1> QED
  <2> WITNESS p \in [I -> I]
  <2> QED BY <1>10, <1>12, <1>13, <1>14

\* The end of a session sorts the times; the threads have all ended.
LEMMA CollectInv ==
  ASSUME ProbeInv, Collect
  PROVE  ProbeInv'
<1>1. /\ joined = Width
      /\ timings' = Sorted(timings)
      /\ outcome' \in {"scored", "skipped"}
      /\ outcome' = "scored" => Len(co) = Width
      /\ UNCHANGED << issued, co, completed, emitted, clock, joined, stage,
                      dispatchAt, completeAt >>
  BY DEF Collect, l3Vars
<1> DEFINE L == Len(timings)
<1>2. /\ L \in Nat /\ DOMAIN timings = 1 .. L
      /\ \A n \in 1 .. L : timings[n] \in Timing /\ timings[n].complete \in Nat
  BY TimingsTyped DEF ProbeInv
<1> HIDE DEF L
<1>3. PICK p \in [1 .. L -> 1 .. L] :
         /\ \A m, n \in 1 .. L : p[m] = p[n] => m = n
         /\ \A a \in 1 .. L : \E n \in 1 .. L : p[n] = a
         /\ Sorted(timings) = [n \in 1 .. L |-> timings[p[n]]]
         /\ \A m, n \in 1 .. L :
               m < n => timings[p[m]].complete <= timings[p[n]].complete
  BY <1>2, SortedIsPermutation
<1>4. /\ DOMAIN timings' = 1 .. L
      /\ \A n \in 1 .. L : p[n] \in 1 .. L /\ timings'[n] = timings[p[n]]
  BY <1>1, <1>3
<1>5. timings' \in Seq(Timing)
  <2>1. timings' \in [1 .. L -> Timing]
    BY <1>1, <1>2, <1>3
  <2> QED BY <1>2, <2>1
<1>6. TimingsMatch'
  <2>1. ASSUME NEW n \in 1 .. L
        PROVE  LET r == timings'[n] IN
               /\ stage[r.step] = "done"
               /\ r.dispatch = dispatchAt[r.step]
               /\ r.complete = completeAt[r.step]
               /\ \A m \in 1 .. L : timings'[m].step = r.step => m = n
    <3> DEFINE OK(a) == /\ stage[timings[a].step] = "done"
                        /\ timings[a].dispatch = dispatchAt[timings[a].step]
                        /\ timings[a].complete = completeAt[timings[a].step]
    <3>1. p[n] \in 1 .. L /\ timings'[n] = timings[p[n]]
      BY <1>4
    <3>2. OK(p[n]) /\ \A b \in 1 .. L : timings[b].step = timings[p[n]].step => b = p[n]
      BY <1>2, <3>1 DEF ProbeInv, TimingsMatch
    <3>3. ASSUME NEW m \in 1 .. L, timings'[m].step = timings[p[n]].step PROVE m = n
      <4>1. p[m] = p[n]
        BY <1>4, <3>2, <3>3
      <4> QED BY ONLY <1>3, <4>1
    <3> QED BY <3>1, <3>2, <3>3
  <2>2. ASSUME NEW k \in Effect, stage[k] = "done"
        PROVE  \E n \in 1 .. L : timings'[n].step = k
    <3>1. PICK a \in 1 .. L : timings[a].step = k
      BY <1>2, <2>2 DEF ProbeInv, TimingsMatch
    <3>2. PICK n \in 1 .. L : p[n] = a
      BY <1>3
    <3> QED BY <1>4, <3>1, <3>2
  <2> QED BY <1>1, <1>4, <1>5, <2>1, <2>2 DEF TimingsMatch
<1>7. JoinedEnded'
  <2>1. \A m, n \in 1 .. L :
           m < n => timings'[m].complete <= timings'[n].complete
    <3> SUFFICES ASSUME NEW m \in 1 .. L, NEW n \in 1 .. L, m < n
                 PROVE  timings'[m].complete <= timings'[n].complete
      OBVIOUS
    <3>1. timings'[m] = timings[p[m]] /\ timings'[n] = timings[p[n]]
      BY <1>4
    <3>2. timings[p[m]].complete <= timings[p[n]].complete
      BY <1>3
    <3> QED BY <3>1, <3>2
  <2> QED BY <1>1, <1>4, <2>1 DEF ProbeInv, JoinedEnded
<1> QED
  BY <1>1, <1>6, <1>7 DEF ProbeInv, L3Inv, TypeOK, EmittedIsReadyPrefix,
     StagesMatch, TimesInOrder

\* The invariant of a session holds throughout.
THEOREM ProbeInvariance == PSpec => []ProbeInv
<1>1. ProbeInv /\ [PNext]_probeVars => ProbeInv'
  <2> SUFFICES ASSUME ProbeInv, [PNext]_probeVars PROVE ProbeInv'
    OBVIOUS
  <2>1. CASE UNCHANGED probeVars
    BY <2>1 DEF probeVars, l3Vars, ProbeInv, L3Inv, TypeOK, EmittedIsReadyPrefix,
       StagesMatch, TimesInOrder, TimingsMatch, JoinedEnded
  <2> QED
    BY <2>1, PassInv, DispatchInv, JoinInv, CollectInv, CallEndsInv, PushInv, LogInv
       DEF PNext, AgentStep, EffectStep
<1> QED BY InitProbeInv, <1>1, PTL DEF PSpec

\* The sequencer lets effects out in issue order, as far as they have completed
\* without a gap, whatever order the threads push them in.
THEOREM SequencerKeepsIssueOrder == PSpec => []L3Inv
<1>1. ProbeInv => L3Inv
  BY DEF ProbeInv
<1> QED BY <1>1, ProbeInvariance, PTL

-----------------------------------------------------------------------------
\* A full list of effects, each once, is in issue order or has an inversion.
LEMMA OrderOrInversion ==
  ASSUME NEW s \in Seq(Effect), Len(s) = Width,
         \A i, j \in DOMAIN s : s[i] = s[j] => i = j
  PROVE  s # IssueOrder <=> Inversions(s) # {}
<1>1. /\ DOMAIN s = 1 .. Width /\ Width \in Nat
      /\ \A i \in 1 .. Width : s[i] \in 0 .. Width - 1
      /\ \A i, j \in 1 .. Width : s[i] = s[j] => i = j
  <2>1. DOMAIN s = 1 .. Width
    BY LenProperties
  <2>2. \A i \in 1 .. Width : s[i] \in Effect
    BY ElementOfSeq
  <2> QED BY <2>1, <2>2, L3Assumption DEF Effect
<1>2. ASSUME Inversions(s) # {} PROVE s # IssueOrder
  BY <1>1, <1>2 DEF Inversions, IssueOrder
<1>3. ASSUME Inversions(s) = {} PROVE s = IssueOrder
  <2>1. \A i, j \in 1 .. Width : i < j => s[i] < s[j]
    <3> SUFFICES ASSUME NEW i \in 1 .. Width, NEW j \in 1 .. Width, i < j
                 PROVE  s[i] < s[j]
      OBVIOUS
    <3>1. << i, j >> \notin Inversions(s)
      BY <1>3
    <3>2. ~ (s[i] > s[j])
      BY <1>1, <3>1 DEF Inversions
    <3> QED BY ONLY <1>1, <3>2, i < j, i \in 1 .. Width, j \in 1 .. Width
  <2>2. \A i \in 1 .. Width : s[i] >= i - 1
    <3> DEFINE low == {i \in 1 .. Width : s[i] < i - 1}
    <3>1. ASSUME low # {} PROVE FALSE
      <4>1. low \in SUBSET Nat
        OBVIOUS
      <4>2. PICK i \in low : \A j \in low : i <= j
        BY <3>1, <4>1, LeastNatural
      <4>3. i # 1
        BY ONLY <1>1, <4>2
      <4>4. i - 1 \in 1 .. Width /\ i - 1 \notin low
        BY ONLY <1>1, <4>2, <4>3
      <4>5. i \in 1 .. Width /\ i \in Int /\ s[i] < i - 1 /\ s[i] \in Int /\ s[i - 1] \in Int
        BY ONLY <1>1, <4>2, <4>4
      <4>6. ~ (s[i - 1] < (i - 1) - 1)
        BY ONLY <4>4
      <4>7. s[i - 1] < s[i]
        BY ONLY <2>1, <4>4, <4>5
      <4> QED BY ONLY <4>5, <4>6, <4>7
    <3>2. ASSUME NEW i \in 1 .. Width PROVE ~ (s[i] < i - 1)
      BY <3>1
    <3>3. \A i \in 1 .. Width : s[i] \in Int /\ i \in Int
      BY <1>1
    <3> QED BY ONLY <3>2, <3>3
  <2>3. \A i \in 1 .. Width : s[i] <= i - 1
    <3> DEFINE high == {d \in 0 .. Width - 1 : s[Width - d] > Width - d - 1}
    <3>1. ASSUME high # {} PROVE FALSE
      <4>1. high \in SUBSET Nat
        OBVIOUS
      <4>2. PICK d \in high : \A e \in high : d <= e
        BY <3>1, <4>1, LeastNatural
      <4>3. d # 0
        BY ONLY <1>1, <4>2
      <4>4. d - 1 \in 0 .. Width - 1 /\ d - 1 \notin high
        <5>1. d - 1 \in 0 .. Width - 1 /\ d \in Nat /\ ~ (d <= d - 1)
          BY <1>1, <4>2, <4>3
        <5> HIDE DEF high
        <5> QED BY <4>2, <5>1
      <4>5. Width - d \in 1 .. Width /\ Width - (d - 1) \in 1 .. Width
        BY ONLY <1>1, <4>2, <4>4
      <4>6. /\ s[Width - d] > Width - d - 1 /\ ~ (s[Width - (d - 1)] > Width - (d - 1) - 1)
            /\ s[Width - d] \in Int /\ s[Width - (d - 1)] \in Int
        BY ONLY <1>1, <4>2, <4>4, <4>5
      <4>7. s[Width - d] < s[Width - (d - 1)]
        BY ONLY <1>1, <2>1, <4>2, <4>5
      <4> QED BY ONLY <1>1, <4>2, <4>6, <4>7
    <3>2. ASSUME high = {}, NEW i \in 1 .. Width PROVE s[i] <= i - 1
      <4>1. Width - i \in 0 .. Width - 1 /\ Width - (Width - i) = i
        BY <1>1
      <4>2. Width - i \notin high
        BY <3>2
      <4> QED BY ONLY <1>1, <4>1, <4>2, i \in 1 .. Width
    <3> QED BY <3>1, <3>2
  <2>4. s = [i \in 1 .. Width |-> s[i]]
    BY <1>1
  <2>5. ASSUME NEW i \in 1 .. Width PROVE s[i] = i - 1
    <3>1. s[i] \in Int /\ i \in Int /\ s[i] >= i - 1 /\ s[i] <= i - 1
      BY <1>1, <2>2, <2>3
    <3> QED BY ONLY <3>1
  <2> QED BY <2>4, <2>5 DEF IssueOrder
<1> QED BY <1>2, <1>3

\* A session that is scored is complete and consistent: both sinks hold every
\* effect, the sequencer's in issue order; every effect has one logged time, in
\* completion order; and the A6 verdict on the other sink counts inversions.
THEOREM ScoredSessionsAreWhole == PSpec => []ScoredSessionIsWhole
<1>1. ASSUME ProbeInv, outcome = "scored"
      PROVE  /\ emitted = IssueOrder
             /\ A6Witness(IssueOrder, co) <=> Inversions(co) # {}
             /\ {timings[n].step : n \in DOMAIN timings} = Effect
             /\ Len(timings) = Width
             /\ \A m, n \in DOMAIN timings :
                   /\ timings[n].dispatch <= timings[n].complete
                   /\ m < n => timings[m].complete <= timings[n].complete
                   /\ timings[m].step < timings[n].step =>
                         timings[m].dispatch <= timings[n].dispatch
  <2>1. /\ Width \in Nat /\ Width >= 2 /\ Len(co) = Width /\ issued = Width
        /\ joined = Width
    BY <1>1, ProbeAssumption DEF ProbeInv, JoinedEnded
  <2>2. completed = Effect
    <3>1. completed \in SUBSET Effect /\ Cardinality(completed) = Width
      BY <1>1, <2>1 DEF ProbeInv, L3Inv, TypeOK, Effect
    <3>2. IsFiniteSet(Effect) /\ Cardinality(Effect) = Width
      <4>1. 0 \in Int /\ Width - 1 \in Int /\ ~ (0 > Width - 1) /\ Width - 1 - 0 + 1 = Width
        BY <2>1
      <4> QED BY <4>1, FS_Interval DEF Effect
    <3> QED BY <3>1, <3>2, FS_Subset
  <2>3. \A k \in Effect : stage[k] = "done"
    <3>1. \A k \in Effect : stage[k] \in {"log", "done"}
      BY <1>1, <2>2 DEF ProbeInv, StagesMatch
    <3>2. \A k \in Effect : stage[k] \in {"done", "dead"}
      BY <1>1, <2>1 DEF ProbeInv, JoinedEnded, Effect
    <3> QED BY <3>1, <3>2
  <2>4. emitted = IssueOrder
    <3>1. /\ Len(emitted) \in 0 .. Width
          /\ Len(emitted) = Width \/ Len(emitted) \notin Effect
      BY <1>1, <2>2, EmittedLength DEF ProbeInv, L3Inv, EmittedIsReadyPrefix
    <3>2. Len(emitted) = Width
      BY <2>1, <3>1 DEF Effect
    <3>3. emitted = [i \in 1 .. Width |-> emitted[i]] /\ DOMAIN emitted = 1 .. Width
      BY <1>1, <3>2 DEF ProbeInv, L3Inv, TypeOK
    <3>4. \A i \in 1 .. Width : emitted[i] = i - 1
      BY <1>1, <3>3 DEF ProbeInv, L3Inv, EmittedIsReadyPrefix
    <3> QED BY <3>3, <3>4 DEF IssueOrder
  <2>5. A6Witness(IssueOrder, co) <=> Inversions(co) # {}
    <3>1. co \in Seq(Effect) /\ \A i, j \in DOMAIN co : co[i] = co[j] => i = j
      BY <1>1, <2>2 DEF ProbeInv, L3Inv, TypeOK, StagesMatch
    <3>2. co # IssueOrder <=> Inversions(co) # {}
      BY <2>1, <3>1, OrderOrInversion
    <3>3. Len(IssueOrder) = Width
      BY <2>1 DEF IssueOrder
    <3> QED BY <2>1, <3>2, <3>3 DEF A6Witness
  <2> DEFINE L == Len(timings)
  <2>6. /\ L \in Nat /\ DOMAIN timings = 1 .. L
        /\ \A n \in 1 .. L : timings[n].step \in Effect
        /\ \A m, n \in 1 .. L : timings[m].step = timings[n].step => m = n
        /\ \A k \in Effect : \E n \in 1 .. L : timings[n].step = k
    BY <1>1, <2>3, TimingsTyped DEF ProbeInv, TimingsMatch
  <2>7. {timings[n].step : n \in DOMAIN timings} = Effect
    BY <2>6
  <2>8. Len(timings) = Width
    <3> DEFINE f == [n \in 1 .. L |-> timings[n].step]
    <3> HIDE DEF L
    <3>1. f \in Bijection(1 .. L, Effect)
      <4>1. f \in [1 .. L -> Effect]
        BY <2>6
      <4>2. \A m, n \in 1 .. L : f[m] = f[n] => m = n
        BY <2>6
      <4>3. \A k \in Effect : \E n \in 1 .. L : f[n] = k
        BY <2>6
      <4> HIDE DEF f
      <4> QED BY <4>1, <4>2, <4>3 DEF Bijection, Injection, Surjection, IsInjective
    <3>2. Cardinality(Effect) = L
      BY <2>6, <3>1, FS_CountingElements DEF ExistsBijection
    <3>3. Cardinality(Effect) = Width
      <4>1. 0 \in Int /\ Width - 1 \in Int /\ ~ (0 > Width - 1) /\ Width - 1 - 0 + 1 = Width
        BY <2>1
      <4> QED BY <4>1, FS_Interval DEF Effect
    <3> QED BY <3>2, <3>3 DEF L
  <2>9. ASSUME NEW m \in DOMAIN timings, NEW n \in DOMAIN timings
        PROVE  /\ timings[n].dispatch <= timings[n].complete
               /\ m < n => timings[m].complete <= timings[n].complete
               /\ timings[m].step < timings[n].step =>
                     timings[m].dispatch <= timings[n].dispatch
    <3>1. /\ timings[n].step \in Effect /\ timings[n].step < issued
          /\ timings[m].step \in Effect
      BY <2>1, <2>6 DEF Effect
    <3>2. /\ timings[n].dispatch = dispatchAt[timings[n].step]
          /\ timings[m].dispatch = dispatchAt[timings[m].step]
          /\ timings[n].complete = completeAt[timings[n].step]
      BY <1>1 DEF ProbeInv, TimingsMatch
    <3> QED BY <1>1, <2>3, <3>1, <3>2 DEF ProbeInv, TimesInOrder, JoinedEnded
  <2> QED BY <2>4, <2>5, <2>7, <2>8, <2>9
<1>2. ProbeInv => ScoredSessionIsWhole
  BY <1>1 DEF ScoredSessionIsWhole
<1> QED BY <1>2, ProbeInvariance, PTL

-----------------------------------------------------------------------------
\* The registry and its dispatchers.


\* Re-signing and revoking are one step: a new binding and its history.
LEMMA RebindPreserves ==
    ASSUME L4Inv, NEW t \in Tool, NEW b \in Sig \cup {Revoked}, Rebind(t, b)
    PROVE  L4Inv'
<1>1. L4TypeOK'
  BY DEF L4Inv, L4TypeOK, Rebind
<1>2. PinnedOnce'
  BY DEF L4Inv, L4TypeOK, PinnedOnce, Rebind
<1>3. LiveBindingExplained'
  <2> SUFFICES ASSUME NEW o \in Op, NEW p \in pin[o]
               PROVE  /\ since'[o] = {} => sigs'[p.tool] = p.sig
                      /\ sigs'[p.tool] = p.sig => since'[o] = {} \/ p.sig \in since'[o]
    BY DEF LiveBindingExplained, Rebind
  <2>1. p.tool \in Tool /\ p.sig \in Sig
    BY DEF L4Inv, L4TypeOK
  <2>2. CASE p.tool = t
    BY <2>1, <2>2 DEF L4Inv, L4TypeOK, Rebind
  <2>3. CASE p.tool # t
    <3>1. sigs'[p.tool] = sigs[p.tool]
      BY <2>1, <2>3 DEF L4Inv, L4TypeOK, Rebind
    <3>2. since'[o] = since[o]
      BY <2>3 DEF L4Inv, PinnedOnce, Rebind
    <3> QED
      BY <3>1, <3>2 DEF L4Inv, LiveBindingExplained
  <2> QED
    BY <2>2, <2>3
<1>4. ValidatedCallsLand' /\ RefusalsHaveChurn'
  BY DEF L4Inv, ValidatedCallsLand, RefusalsHaveChurn, Rebind
<1> QED
  BY <1>1, <1>2, <1>3, <1>4 DEF L4Inv

\* A pin starts the history of its operation with the live binding.
LEMMA PinPreserves ==
    ASSUME L4Inv, NEW o \in Op, NEW t \in Tool, Pin(o, t)
    PROVE  L4Inv'
<1>1. /\ sigs[t] \in Sig
      /\ pin'[o] = {[tool |-> t, sig |-> sigs[t]]} /\ since[o] = {}
      /\ \A x \in Op \ {o} : pin'[x] = pin[x]
      /\ UNCHANGED << sigs, since, last >>
  BY DEF L4Inv, L4TypeOK, PinnedOnce, Pin
<1>2. L4TypeOK'
  BY <1>1 DEF L4Inv, L4TypeOK, Pin
<1>3. PinnedOnce' /\ LiveBindingExplained'
  BY <1>1 DEF L4Inv, PinnedOnce, LiveBindingExplained
<1>4. ValidatedCallsLand' /\ RefusalsHaveChurn'
  BY <1>1 DEF L4Inv, ValidatedCallsLand, RefusalsHaveChurn
<1> QED
  BY <1>2, <1>3, <1>4 DEF L4Inv

\* Placing a validated call, and refusing it, are both explained by history.
LEMMA DispatchPreserves ==
    ASSUME L4Inv, NEW o \in Op, NEW mode \in Mode, DispatchPinned(o, mode)
    PROVE  L4Inv'
<1>1. PICK p \in pin[o] :
        /\ last' = [last EXCEPT ![o] =
              {[mode |-> mode,
                hazard |-> PhantomAtDispatch(p),
                placed |-> Places(p, mode),
                phantom |-> Places(p, mode) /\ PhantomAtDispatch(p),
                resolvedPinned |-> Resolved(o, p, mode) = p.sig,
                sig |-> p.sig,
                churn |-> since[o]]}]
        /\ UNCHANGED << sigs, pin, snapshot, since >>
  BY DEF DispatchPinned
<1> DEFINE d == [mode |-> mode,
                 hazard |-> PhantomAtDispatch(p),
                 placed |-> Places(p, mode),
                 phantom |-> Places(p, mode) /\ PhantomAtDispatch(p),
                 resolvedPinned |-> Resolved(o, p, mode) = p.sig,
                 sig |-> p.sig,
                 churn |-> since[o]]
<1>2. last'[o] = {d} /\ \A x \in Op \ {o} : last'[x] = last[x]
  BY <1>1 DEF L4Inv, L4TypeOK
<1>3. /\ since[o] = {} => sigs[p.tool] = p.sig
      /\ sigs[p.tool] = p.sig => since[o] = {} \/ p.sig \in since[o]
  BY DEF L4Inv, LiveBindingExplained
<1>4. p.sig \in Sig /\ since[o] \in SUBSET (Sig \cup {Revoked})
  BY DEF L4Inv, L4TypeOK
<1>5. /\ d.mode = mode /\ d.sig = p.sig /\ d.churn = since[o]
      /\ d.placed <=> Places(p, mode)
      /\ d.phantom <=> Places(p, mode) /\ PhantomAtDispatch(p)
  OBVIOUS
<1>6. L4TypeOK'
  <2>1. d \in Outcome
    BY <1>4, Zenon DEF Outcome, PhantomAtDispatch, Places, Resolved
  <2> QED
    BY <1>1, <1>2, <2>1 DEF L4Inv, L4TypeOK
<1>7. PinnedOnce' /\ LiveBindingExplained'
  BY <1>1 DEF L4Inv, PinnedOnce, LiveBindingExplained
<1>8. mode = "Validated" /\ d.placed =>
         ~ d.phantom /\ (since[o] = {} \/ p.sig \in since[o])
  BY <1>3, <1>5 DEF Places, PhantomAtDispatch
<1>9. ~ d.placed \/ d.phantom => since[o] # {}
  BY <1>3, <1>5 DEF Places, PhantomAtDispatch
<1> HIDE DEF d
<1>10. ValidatedCallsLand' /\ RefusalsHaveChurn'
  BY <1>2, <1>5, <1>8, <1>9 DEF L4Inv, ValidatedCallsLand, RefusalsHaveChurn
<1> QED
  BY <1>6, <1>7, <1>10 DEF L4Inv

\* The history of a pin decides what its dispatch may do.
THEOREM L4Invariance == L4Spec => []L4Inv
<1>1. L4Init => L4Inv
  BY DEF L4Init, L4Inv, L4TypeOK, PinnedOnce, LiveBindingExplained,
         ValidatedCallsLand, RefusalsHaveChurn
<1>2. L4Inv /\ [L4Next]_l4Vars => L4Inv'
  <2> SUFFICES ASSUME L4Inv, [L4Next]_l4Vars PROVE L4Inv'
    OBVIOUS
  <2>1. ASSUME NEW t \in Tool, NEW s \in Sig, Resign(t, s) PROVE L4Inv'
    BY <2>1, RebindPreserves DEF Resign
  <2>2. ASSUME NEW t \in Tool, Revoke(t) PROVE L4Inv'
    BY <2>2, RebindPreserves DEF Revoke
  <2>3. ASSUME NEW o \in Op, NEW t \in Tool, Pin(o, t) PROVE L4Inv'
    BY <2>3, PinPreserves
  <2>4. ASSUME NEW o \in Op, NEW mode \in Mode, DispatchPinned(o, mode) PROVE L4Inv'
    BY <2>4, DispatchPreserves
  <2>5. CASE UNCHANGED l4Vars
    BY <2>5 DEF l4Vars, L4Inv, L4TypeOK, PinnedOnce, LiveBindingExplained,
                ValidatedCallsLand, RefusalsHaveChurn
  <2> QED
    BY <2>1, <2>2, <2>3, <2>4, <2>5 DEF L4Next
<1> QED
  BY <1>1, <1>2, PTL DEF L4Spec

\* A validated call lands on the binding of its plan, and one that follows
\* churn follows a re-signing with the pinned signature.
THEOREM L4ValidatedCallsLand == L4Spec => []ValidatedCallsLand
<1>1. L4Inv => ValidatedCallsLand
  BY DEF L4Inv
<1> QED
  BY <1>1, L4Invariance, PTL

\* A dispatch is refused, or phantom, only after its tool was rebound.
THEOREM L4RefusalsHaveChurn == L4Spec => []RefusalsHaveChurn
<1>1. L4Inv => RefusalsHaveChurn
  BY DEF L4Inv
<1> QED
  BY <1>1, L4Invariance, PTL

=============================================================================
