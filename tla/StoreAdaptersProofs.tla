------------------------- MODULE StoreAdaptersProofs -------------------------
(****************************************************************************)
(* What the dictionary of the store adapters is, whatever names the calls    *)
(* number and in whichever order, and that it cannot be told apart from none *)
(* at all: the adapters are the two stores over names.                       *)
(****************************************************************************)
EXTENDS StoreAdapters, FiniteSetTheorems, TLAPS

\* A set of naturals that is not empty has a least element.
LEMMA LeastOfNaturals ==
  ASSUME NEW T \in SUBSET Nat, T # {}
  PROVE  \E n \in T : \A m \in T : n <= m
<1> DEFINE R == OpToRel(<, Nat)
<1>1. IsWellFoundedOn(R, Nat)
  BY NatLessThanWellFounded
<1>2. \A m, n \in Nat : m < n => << m, n >> \in R
  BY DEF OpToRel
<1> HIDE DEF R
<1>3. PICK n \in T : \A m \in T : ~ (<< m, n >> \in R)
  BY <1>1, WFMin
<1>4. \A m \in T : ~ (m < n)
  BY ONLY <1>2, <1>3, T \in SUBSET Nat, Zenon
<1> QED
  BY <1>4

\* One name is numbered: the dictionary stays one and names what it named.
LEMMA InternKeeps ==
  ASSUME NEW n, Dictionary(n), NEW s
  PROVE  LET m == Intern(n, s) IN
         /\ Dictionary(m)
         /\ DOMAIN m.to = DOMAIN n.to \cup {s}
         /\ Grows(n, m)
<1> DEFINE m == Intern(n, s)
           D == DOMAIN n.to
<1>1. CASE s \in D
  BY <1>1 DEF Intern, Grows
<1>2. CASE s \notin D
  <2>1. /\ DOMAIN m.to = D \cup {s}
        /\ \A u \in D \cup {s} : m.to[u] = IF u = s THEN Len(n.from) ELSE n.to[u]
        /\ m.from = Append(n.from, s)
    BY <1>2 DEF Intern
  <2>2. Len(n.from) \in Nat /\ n.from \in Seq(D)
    BY DEF Dictionary
  <2>3. m.from \in Seq(D \cup {s}) /\ Len(m.from) = Len(n.from) + 1
    BY <2>1, <2>2
  <2>4. /\ \A i \in 0 .. Len(n.from) - 1 : NameOf(m, i) = NameOf(n, i) /\ NameOf(n, i) \in D
        /\ NameOf(m, Len(n.from)) = s
    BY <2>1, <2>2 DEF NameOf
  <2>5. \A u \in D \cup {s} : m.to[u] \in 0 .. Len(m.from) - 1 /\ NameOf(m, m.to[u]) = u
    <3> SUFFICES ASSUME NEW u \in D \cup {s}
                 PROVE  m.to[u] \in 0 .. Len(m.from) - 1 /\ NameOf(m, m.to[u]) = u
      BY Zenon
    <3>1. CASE u = s
      BY <3>1, <2>1, <2>2, <2>3, <2>4
    <3>2. CASE u # s
      <4>1. m.to[u] = n.to[u] /\ n.to[u] \in 0 .. Len(n.from) - 1 /\ NameOf(n, n.to[u]) = u
        BY <3>2, <2>1 DEF Dictionary
      <4> QED BY <4>1, <2>2, <2>3, <2>4
    <3> QED BY <3>1, <3>2
  <2>6. \A i \in 0 .. Len(m.from) - 1 : m.to[NameOf(m, i)] = i
    <3> SUFFICES ASSUME NEW i \in 0 .. Len(m.from) - 1
                 PROVE  m.to[NameOf(m, i)] = i
      BY Zenon
    <3>1. CASE i = Len(n.from)
      BY <3>1, <2>1, <2>4
    <3>2. CASE i # Len(n.from)
      <4>1. i \in 0 .. Len(n.from) - 1
        BY <3>2, <2>2, <2>3
      <4>2. n.to[NameOf(n, i)] = i /\ NameOf(m, i) = NameOf(n, i) /\ NameOf(n, i) \in D
        BY <4>1, <2>4 DEF Dictionary
      <4>3. NameOf(n, i) # s
        BY <4>2, <1>2
      <4> QED BY <4>2, <4>3, <2>1
    <3> QED BY <3>1, <3>2
  <2>7. Dictionary(m)
    BY <2>1, <2>3, <2>5, <2>6 DEF Dictionary
  <2>8. Grows(n, m)
    BY <2>1, <1>2 DEF Grows
  <2> QED BY <2>1, <2>7, <2>8
<1> QED BY <1>1, <1>2

\* Growth composes.
LEMMA GrowsOn ==
  ASSUME NEW n, NEW m, NEW k, Grows(n, m), Grows(m, k)
  PROVE  Grows(n, k)
BY Zenon DEF Grows

-----------------------------------------------------------------------------
\* The greatest number of a set that holds m and nothing greater.
LEMMA GreatestIs ==
  ASSUME NEW m \in Nat, NEW S \in SUBSET (1 .. m), m \in S
  PROVE  Max(S) = m
<1>1. \A y \in S : m >= y
  OBVIOUS
<1>2. \A x \in S : (\A y \in S : x >= y) => x = m
  OBVIOUS
<1> QED BY <1>1, <1>2 DEF Max

\* The steps of the loops: over names to number, over the versions of a cell, and
\* over the cells.
FoldStep(loop, acc, x) ==
  CASE loop.over = "names" -> Intern(acc, x)
    [] loop.over = "versions" -> Push(acc, loop.cell, x)
    [] loop.over = "cells" -> FlattenCell(acc, x, loop.chains[x])

\* g is the recursive function behind such a loop over the first m of a list.
FoldLoop(loop, n, list, m, g) ==
  g = [s \in SUBSET (1 .. m) |->
         IF s = {} THEN n ELSE FoldStep(loop, g[s \ {Max(s)}], list[Max(s)])]

\* There is such a function.
LEMMA FoldLoopExists ==
  ASSUME NEW loop, NEW n, NEW list, NEW m \in Nat
  PROVE  \E g : FoldLoop(loop, n, list, m, g)
<1> USE DEF FoldLoop
<1> DEFINE Loop(k) == \E g : FoldLoop(loop, n, list, k, g)
<1>1. Loop(0)
  <2> DEFINE g == [s \in SUBSET (1 .. 0) |-> n]
  <2>1. \A s \in SUBSET (1 .. 0) : s = {}
    OBVIOUS
  <2>2. g = [s \in SUBSET (1 .. 0) |->
               IF s = {} THEN n ELSE FoldStep(loop, g[s \ {Max(s)}], list[Max(s)])]
    BY <2>1
  <2> QED BY <2>2
<1>2. ASSUME NEW k \in Nat, Loop(k) PROVE Loop(k + 1)
  <2>1. PICK g : g = [s \in SUBSET (1 .. k) |->
                        IF s = {} THEN n ELSE FoldStep(loop, g[s \ {Max(s)}], list[Max(s)])]
    BY <1>2
  <2> DEFINE h == [s \in SUBSET (1 .. k + 1) |->
                     IF k + 1 \in s THEN FoldStep(loop, g[s \ {k + 1}], list[k + 1]) ELSE g[s]]
  <2>2. \A s \in SUBSET (1 .. k) : h[s] = g[s]
    BY SMT
  <2>3. ASSUME NEW s \in SUBSET (1 .. k + 1)
        PROVE  h[s] = IF s = {} THEN n ELSE FoldStep(loop, h[s \ {Max(s)}], list[Max(s)])
    <3>1. CASE k + 1 \in s
      <4>1. Max(s) = k + 1
        BY <3>1, GreatestIs
      <4>2. s \ {k + 1} \in SUBSET (1 .. k) /\ s # {}
        BY <3>1
      <4>3. h[s] = FoldStep(loop, g[s \ {k + 1}], list[k + 1])
        BY <3>1
      <4> HIDE DEF h
      <4> QED BY <4>1, <4>2, <4>3, <2>2
    <3>2. CASE k + 1 \notin s
      <4>1. s \in SUBSET (1 .. k)
        BY <3>2
      <4>2. s \ {Max(s)} \in SUBSET (1 .. k)
        BY <4>1
      <4>3. g[s] = IF s = {} THEN n ELSE FoldStep(loop, g[s \ {Max(s)}], list[Max(s)])
        BY <4>1, <2>1
      <4> HIDE DEF h
      <4> QED BY <4>1, <4>2, <4>3, <2>2
    <3> QED BY <3>1, <3>2
  <2>4. h = [s \in SUBSET (1 .. k + 1) |->
               IF s = {} THEN n ELSE FoldStep(loop, h[s \ {Max(s)}], list[Max(s)])]
    <3> DEFINE f == [s \in SUBSET (1 .. k + 1) |->
               IF s = {} THEN n ELSE FoldStep(loop, h[s \ {Max(s)}], list[Max(s)])]
    <3>1. \A s \in SUBSET (1 .. k + 1) : f[s] = h[s]
      BY <2>3
    <3>2. h = [s \in DOMAIN h |-> h[s]] /\ DOMAIN h = SUBSET (1 .. k + 1)
      OBVIOUS
    <3>3. f = [s \in DOMAIN f |-> f[s]] /\ DOMAIN f = SUBSET (1 .. k + 1)
      OBVIOUS
    <3> HIDE DEF h, f
    <3>4. h = f
      BY <3>1, <3>2, <3>3
    <3> QED BY <3>4 DEF f
  <2> HIDE DEF h
  <2> QED BY <2>4
<1> HIDE DEF Loop
<1>3. Loop(m)
  <2> DEFINE F == {k \in Nat : ~ Loop(k)}
  <2> SUFFICES ASSUME F # {} PROVE FALSE
    BY DEF F
  <2>1. PICK k \in F : \A j \in F : k <= j
    <3> F \in SUBSET Nat
      OBVIOUS
    <3> HIDE DEF F
    <3> QED BY LeastOfNaturals
  <2>2. k # 0 /\ k \in Nat
    BY <1>1
  <2>3. k - 1 \in Nat /\ k - 1 \notin F
    BY <2>1, <2>2
  <2> QED BY <2>1, <2>3, <1>2
<1> QED BY <1>3 DEF Loop

\* Such a loop runs from its base, step by step.
FoldSteps(loop, n, list, len, g) ==
  /\ g[1 .. 0] = n
  /\ \A k \in 0 .. len - 1 : g[1 .. k + 1] = FoldStep(loop, g[1 .. k], list[k + 1])

\* The recursive function does.
LEMMA FoldRuns ==
  ASSUME NEW loop, NEW n, NEW list, NEW len \in Nat, NEW g,
         FoldLoop(loop, n, list, len, g)
  PROVE  FoldSteps(loop, n, list, len, g)
<1>1. g[1 .. 0] = n
  BY DEF FoldLoop
<1>2. ASSUME NEW k \in 0 .. len - 1
      PROVE  g[1 .. k + 1] = FoldStep(loop, g[1 .. k], list[k + 1])
  <2>1. Max(1 .. k + 1) = k + 1
    BY GreatestIs
  <2>2. (1 .. k + 1) \ {k + 1} = 1 .. k /\ 1 .. k + 1 # {} /\ 1 .. k + 1 \in SUBSET (1 .. len)
    OBVIOUS
  <2> QED BY <2>1, <2>2 DEF FoldLoop
<1> QED BY <1>1, <1>2 DEF FoldSteps

\* InternAll numbers name after name.
LEMMA InternAllRuns ==
  ASSUME NEW n, NEW list, NEW len \in Nat, DOMAIN list = 1 .. len
  PROVE  \E g : /\ InternAll(n, list) = g[1 .. len]
                /\ FoldSteps([over |-> "names"], n, list, len, g)
<1> DEFINE loop == [over |-> "names"]
           Runs(g) == g = [s \in SUBSET (1 .. len) |->
                             IF s = {} THEN n ELSE Intern(g[s \ {Max(s)}], list[Max(s)])]
<1>1. \A a, x : FoldStep(loop, a, x) = Intern(a, x)
  BY DEF FoldStep
<1>2. InternAll(n, list) = (CHOOSE g : Runs(g))[1 .. len]
  BY DEF InternAll, FoldLeft, MapThenFoldSet
<1> HIDE DEF loop
<1>3. ASSUME NEW g PROVE FoldLoop(loop, n, list, len, g) <=> Runs(g)
  BY <1>1 DEF FoldLoop
<1> HIDE DEF Runs
<1>4. \E g : Runs(g)
  BY <1>3, FoldLoopExists
<1>5. Runs(CHOOSE g : Runs(g))
  BY <1>4, Zenon
<1>6. PICK g : Runs(g) /\ InternAll(n, list) = g[1 .. len]
  BY <1>2, <1>5, Zenon
<1>7. FoldLoop(loop, n, list, len, g)
  BY <1>3, <1>6
<1> QED BY <1>6, <1>7, FoldRuns DEF loop

\* What InternAll does, name by name.
LEMMA InternAllKeeps ==
  ASSUME NEW n, Dictionary(n), NEW list, NEW len \in Nat, DOMAIN list = 1 .. len
  PROVE  LET m == InternAll(n, list) IN
         /\ Dictionary(m)
         /\ DOMAIN m.to = DOMAIN n.to \cup ToSet(list)
         /\ Grows(n, m)
<1>1. PICK g : /\ InternAll(n, list) = g[1 .. len]
               /\ FoldSteps([over |-> "names"], n, list, len, g)
  BY InternAllRuns
<1> DEFINE After(k) ==
             /\ Dictionary(g[1 .. k])
             /\ DOMAIN g[1 .. k].to = DOMAIN n.to \cup {list[i] : i \in 1 .. k}
             /\ Grows(n, g[1 .. k])
<1>2. After(0)
  <2>1. {list[i] : i \in 1 .. 0} = {}
    OBVIOUS
  <2> QED BY <1>1, <2>1 DEF Grows, FoldSteps
<1>3. ASSUME NEW k \in 0 .. len - 1, After(k) PROVE After(k + 1)
  <2>1. g[1 .. k + 1] = Intern(g[1 .. k], list[k + 1])
    BY <1>1 DEF FoldSteps, FoldStep
  <2>2. {list[i] : i \in 1 .. k + 1} = {list[i] : i \in 1 .. k} \cup {list[k + 1]}
    <3>1. \A i \in 1 .. k + 1 : i \in 1 .. k \/ i = k + 1
      OBVIOUS
    <3>2. \A i \in 1 .. k : i \in 1 .. k + 1
      OBVIOUS
    <3>3. k + 1 \in 1 .. k + 1
      OBVIOUS
    <3> QED BY <3>1, <3>2, <3>3, Zenon
  <2>3. /\ Dictionary(g[1 .. k + 1])
        /\ DOMAIN g[1 .. k + 1].to = DOMAIN g[1 .. k].to \cup {list[k + 1]}
        /\ Grows(g[1 .. k], g[1 .. k + 1])
    <3>1. PICK d : d = g[1 .. k]
      OBVIOUS
    <3>2. Dictionary(d)
      BY <1>3, <3>1
    <3> QED BY ONLY <2>1, <3>1, <3>2, InternKeeps
  <2>4. Grows(n, g[1 .. k + 1])
    BY <1>3, <2>3, GrowsOn, Zenon
  <2> QED BY <1>3, <2>2, <2>3, <2>4
<1> HIDE DEF After
<1>4. After(len)
  <2> DEFINE F == {k \in 0 .. len : ~ After(k)}
  <2> SUFFICES ASSUME F # {} PROVE FALSE
    BY DEF F
  <2>1. PICK k \in F : \A j \in F : k <= j
    <3> F \in SUBSET Nat
      OBVIOUS
    <3> HIDE DEF F
    <3> QED BY LeastOfNaturals
  <2>2. k # 0 /\ k \in 0 .. len
    BY <1>2
  <2>3. k - 1 \in 0 .. len - 1 /\ k - 1 \notin F
    BY <2>1, <2>2
  <2>4. After(k - 1)
    BY <2>3
  <2>5. After(k)
    BY <2>2, <2>3, <2>4, <1>3
  <2> QED BY <2>1, <2>5
<1> QED BY <1>1, <1>4 DEF After, ToSet

\* The dictionary a store starts with.
LEMMA NewNamesIs ==
  /\ Dictionary(NewNames)
  /\ DOMAIN NewNames.to = {NullName} /\ NewNames.to[NullName] = 0
<1>1. Dictionary(EmptyNames) /\ DOMAIN EmptyNames.to = {}
  BY DEF Dictionary, EmptyNames
<1>2. Dictionary(NewNames) /\ DOMAIN NewNames.to = {NullName}
  BY <1>1, InternKeeps DEF NewNames
<1>3. NewNames.to[NullName] = 0
  BY <1>1 DEF NewNames, Intern, EmptyNames
<1> QED BY <1>2, <1>3

-----------------------------------------------------------------------------
\* A number names one name, whose number it is.
LEMMA NumbersName ==
  ASSUME NEW n, Dictionary(n), NEW S
  PROVE  /\ \A i \in NumbersOf(n, S) : /\ NameOf(n, i) \in S /\ NameOf(n, i) \in DOMAIN n.to
                                       /\ n.to[NameOf(n, i)] = i
         /\ \A s \in DOMAIN n.to : NameOf(n, n.to[s]) = s
         /\ \A s \in S \cap DOMAIN n.to : n.to[s] \in NumbersOf(n, S)
<1>1. \A s \in DOMAIN n.to : NameOf(n, n.to[s]) = s
  BY DEF Dictionary
<1> QED BY <1>1, Zenon DEF NumbersOf

\* Numbers keep their meaning when the dictionary grows.
LEMMA NumbersKept ==
  ASSUME NEW n, NEW m, Dictionary(n), Dictionary(m), Grows(n, m), NEW S
  PROVE  /\ NumbersOf(n, S) \subseteq NumbersOf(m, S)
         /\ \A i \in NumbersOf(n, S) : NameOf(m, i) = NameOf(n, i)
<1>1. ASSUME NEW s \in S \cap DOMAIN n.to
      PROVE  /\ n.to[s] \in NumbersOf(m, S)
             /\ NameOf(m, n.to[s]) = NameOf(n, n.to[s])
  <2>1. s \in DOMAIN m.to /\ m.to[s] = n.to[s]
    BY DEF Grows
  <2>2. NameOf(m, m.to[s]) = s /\ NameOf(n, n.to[s]) = s
    BY <2>1 DEF Dictionary
  <2> QED BY <2>1, <2>2 DEF NumbersOf
<1> QED BY <1>1, Zenon DEF NumbersOf

\* A larger set of names has more numbers.
LEMMA NumbersMonotone ==
  ASSUME NEW n, NEW S, NEW T, S \subseteq T
  PROVE  NumbersOf(n, S) \subseteq NumbersOf(n, T)
BY Zenon DEF NumbersOf

\* The store over names does not see the dictionary grow.
LEMMA ViewKept ==
  ASSUME StoreNumbered, Dictionary(names), NullName \in DOMAIN names.to,
         names.to[NullName] = 0,
         NEW m, Dictionary(m), Grows(names, m)
  PROVE  /\ \A v \in versions : NamedFields(m, v) = NamedFields(names, v)
         /\ \A h \in holds : NamedFields(m, h) = NamedFields(names, h)
         /\ \A r \in trace : NamedRecord(m, r) = NamedRecord(names, r)
<1>1. \A S : \A i \in NumbersOf(names, S) : NameOf(m, i) = NameOf(names, i)
  BY NumbersKept
<1>2. NameOf(m, 0) = NameOf(names, 0)
  <2>1. 0 \in NumbersOf(names, {NullName})
    BY Zenon DEF NumbersOf
  <2> QED BY <1>1, <2>1, Zenon
<1>3. \A S : \A ids \in SUBSET NumbersOf(names, S) : NamedSet(m, ids) = NamedSet(names, ids)
  BY <1>1, Zenon DEF NamedSet
<1>4. ASSUME NEW v \in versions PROVE NamedFields(m, v) = NamedFields(names, v)
  <2>1. CASE store = "pess"
    <3>1. v \in [cell : CellIds, time : 1 .. clock, val : ValIds, agent : AgentIds]
      BY <2>1 DEF StoreNumbered
    <3>2. v.cell \in CellIds /\ v.val \in ValIds /\ v.agent \in AgentIds
      BY <3>1
    <3>3. /\ NameOf(m, v.cell) = NameOf(names, v.cell)
          /\ NameOf(m, v.val) = NameOf(names, v.val)
          /\ NameOf(m, v.agent) = NameOf(names, v.agent)
      BY <3>2, <1>1, Zenon DEF CellIds, ValIds, AgentIds
    <3> QED BY <3>1, <3>3 DEF NamedFields
  <2>2. CASE store # "pess"
    <3>1. v \in [cell : CellIds, time : 1 .. clock, val : ValIds]
      BY <2>2 DEF StoreNumbered
    <3>2. v.cell \in CellIds /\ v.val \in ValIds
      BY <3>1
    <3>3. /\ NameOf(m, v.cell) = NameOf(names, v.cell)
          /\ NameOf(m, v.val) = NameOf(names, v.val)
      BY <3>2, <1>1, Zenon DEF CellIds, ValIds
    <3> QED BY <3>1, <3>3 DEF NamedFields
  <2> QED BY <2>1, <2>2
<1>5. ASSUME NEW h \in holds PROVE NamedFields(m, h) = NamedFields(names, h)
  <2>1. h \in [cell : CellIds, agent : AgentIds, since : 0 .. clock]
    BY DEF StoreNumbered
  <2>2. h.cell \in CellIds /\ h.agent \in AgentIds
    BY <2>1
  <2>3. NameOf(m, h.cell) = NameOf(names, h.cell) /\ NameOf(m, h.agent) = NameOf(names, h.agent)
    BY <2>2, <1>1, Zenon DEF CellIds, AgentIds
  <2> QED BY <2>1, <2>3 DEF NamedFields
<1>6. ASSUME NEW r \in trace PROVE NamedRecord(m, r) = NamedRecord(names, r)
  <2>1. /\ r.agent \in AgentIds \cup {0}
        /\ r.readCells \subseteq CellIds /\ r.writeCells \subseteq CellIds
    BY DEF StoreNumbered
  <2>2. NameOf(m, r.agent) = NameOf(names, r.agent)
    BY <2>1, <1>1, <1>2 DEF AgentIds
  <2>3. /\ NamedSet(m, r.readCells) = NamedSet(names, r.readCells)
        /\ NamedSet(m, r.writeCells) = NamedSet(names, r.writeCells)
    BY <2>1, <1>3, Zenon DEF CellIds
  <2> QED BY <2>2, <2>3 DEF NamedRecord
<1> QED BY <1>4, <1>5, <1>6

\* What a cell held at a time in the past does not change: a step adds only
\* later versions.
LEMMA PastKept ==
  ASSUME clock \in Nat, NamedVersions \subseteq NamedVersions',
         \A v \in NamedVersions' \ NamedVersions : v.time \in Nat /\ v.time > clock,
         NEW c, NEW rt \in 0 .. clock
  PROVE  ValueAt(c, rt)' = ValueAt(c, rt)
<1>1. {v \in NamedVersions' : v.cell = c /\ v.time <= rt} =
        {v \in NamedVersions : v.cell = c /\ v.time <= rt}
  <2>1. \A v \in NamedVersions' \ NamedVersions : ~ (v.time <= rt)
    OBVIOUS
  <2> QED BY <2>1, Zenon
<1> QED BY <1>1, Zenon DEF ValueAt

\* The numbers of a step's state are those of a grown dictionary.
LEMMA IdsGrow ==
  ASSUME Dictionary(names), Dictionary(names)', Grows(names, names')
  PROVE  /\ CellIds \subseteq CellIds' /\ ValIds \subseteq ValIds'
         /\ AgentIds \subseteq AgentIds'
         /\ NumbersOf(names, ValName \cup {NullName}) \subseteq
              NumbersOf(names, ValName \cup {NullName})'
<1>1. PICK n, m : n = names /\ m = names'
  OBVIOUS
<1>2. Dictionary(n) /\ Dictionary(m) /\ Grows(n, m)
  BY <1>1
<1>3. \A S : NumbersOf(n, S) \subseteq NumbersOf(m, S)
  BY <1>2, NumbersKept, Zenon
<1> QED BY <1>1, <1>3, Zenon DEF CellIds, ValIds, AgentIds

\* A call that a step leaves alone keeps its meaning.
LEMMA CallKept ==
  ASSUME NEW t, CallNumbered(t), call'[t] = call[t], store' = store,
         Dictionary(names), Dictionary(names)', Grows(names, names'),
         clock \in Nat, clock' \in Nat, clock <= clock',
         \A c : \A rt \in 0 .. clock : ValueAt(c, rt)' = ValueAt(c, rt)
  PROVE  CallNumbered(t)'
<1>0. PICK k : k = call[t] /\ k = call'[t]
  OBVIOUS
<1>1. CellIds \subseteq CellIds' /\ ValIds \subseteq ValIds' /\ AgentIds \subseteq AgentIds'
  BY IdsGrow
<1>2. k.at = "name" => \A c \in DOMAIN k.values :
                /\ k.values[c] \in NumbersOf(names', ValName \cup {NullName})
                /\ NameOf(names', k.values[c]) = ValueAt(NameOf(names, c), k.time)'
  <2> SUFFICES ASSUME k.at = "name", NEW c \in DOMAIN k.values
               PROVE  /\ k.values[c] \in NumbersOf(names', ValName \cup {NullName})
                      /\ NameOf(names', k.values[c]) = ValueAt(NameOf(names, c), k.time)'
    BY Zenon
  <2>1. /\ c \in CellIds /\ k.time \in 0 .. clock
        /\ k.values[c] \in NumbersOf(names, ValName \cup {NullName})
        /\ NameOf(names, k.values[c]) = ValueAt(NameOf(names, c), k.time)
    BY <1>0, Zenon DEF CallNumbered
  <2>2. PICK n, m : n = names /\ m = names'
    OBVIOUS
  <2>3. Dictionary(n) /\ Dictionary(m) /\ Grows(n, m)
    BY <2>2
  <2>4. \A S : \A i \in NumbersOf(n, S) : NameOf(m, i) = NameOf(n, i) /\ i \in NumbersOf(m, S)
    BY <2>3, NumbersKept
  <2>5. NameOf(names', c) = NameOf(names, c)
    BY <2>1, <2>2, <2>4, Zenon DEF CellIds
  <2>6. /\ NameOf(names', k.values[c]) = NameOf(names, k.values[c])
        /\ k.values[c] \in NumbersOf(names', ValName \cup {NullName})
    BY <2>1, <2>2, <2>4, Zenon
  <2>7. PICK e : e = NameOf(names, c) /\ e = NameOf(names', c)
    BY <2>5
  <2>8. ValueAt(e, k.time)' = ValueAt(e, k.time)
    BY <2>1, Zenon
  <2>9. ValueAt(NameOf(names, c), k.time)' = ValueAt(NameOf(names, c), k.time)
    BY <2>7, <2>8, Zenon DEF ValueAt
  <2> QED BY <2>1, <2>6, <2>9, Zenon
<1>3. k.at \in {"name", "commit"} => k.time \in 0 .. clock'
  <2>1. \A x \in 0 .. clock : x \in 0 .. clock'
    OBVIOUS
  <2> QED BY <1>0, <2>1, Zenon DEF CallNumbered
<1>4. k.at = "commit" => \E D \in SUBSET CellIds' : k.writes \in [D -> ValIds']
  <2> SUFFICES ASSUME k.at = "commit" PROVE \E D \in SUBSET CellIds' : k.writes \in [D -> ValIds']
    BY Zenon
  <2>1. PICK D \in SUBSET CellIds : k.writes \in [D -> ValIds]
    BY <1>0, Zenon DEF CallNumbered
  <2>2. k.writes \in [D -> ValIds'] /\ D \in SUBSET CellIds'
    BY <2>1, <1>1
  <2> QED BY <2>2
<1>5. /\ k.at \in {"idle", "begin", "name", "commit", "release"}
      /\ k.at \in {"begin", "commit", "release"} => k.agent \in AgentIds'
      /\ k.at \in {"begin", "commit"} => k.cells \subseteq CellIds'
      /\ k.at = "name" => DOMAIN k.values \subseteq CellIds'
      /\ k.at = "release" => store' = "pess"
  BY <1>0, <1>1, Zenon DEF CallNumbered
<1> QED BY <1>0, <1>2, <1>3, <1>4, <1>5, Zenon DEF CallNumbered

\* And so does a snapshot that was given out.
LEMMA AnswerKept ==
  ASSUME NEW t, AnswerKnown(t), answer'[t] = answer[t],
         clock \in Nat, clock' \in Nat, clock <= clock',
         \A c : \A rt \in 0 .. clock : ValueAt(c, rt)' = ValueAt(c, rt)
  PROVE  AnswerKnown(t)'
<1>0. PICK s : s = answer[t] /\ s = answer'[t]
  OBVIOUS
<1>1. DOMAIN s.values \subseteq CellName /\ s.time \in 0 .. clock
  BY <1>0 DEF AnswerKnown
<1>2. s.time \in 0 .. clock'
  BY <1>1
<1>3. \A c \in DOMAIN s.values : s.values[c] = ValueAt(c, s.time)'
  <2>1. \A c \in DOMAIN s.values : s.values[c] = ValueAt(c, s.time)
    BY <1>0, Zenon DEF AnswerKnown
  <2> QED BY <1>1, <2>1, Zenon
<1> QED BY <1>0, <1>1, <1>2, <1>3, Zenon DEF AnswerKnown

\* A step of one thread's call, or of none: what the others hold is kept.
LEMMA OthersKept ==
  ASSUME AdapterInv, Dictionary(names)', Grows(names, names'), store' = store,
         StoreNumbered', OneVersionATime', clock' \in Nat, clock <= clock',
         \A c : \A rt \in 0 .. clock : ValueAt(c, rt)' = ValueAt(c, rt),
         DOMAIN call' = Thread, DOMAIN answer' = Thread,
         \A u \in Thread : \/ call'[u] = call[u] /\ answer'[u] = answer[u]
                           \/ CallNumbered(u)' /\ AnswerKnown(u)'
  PROVE  AdapterInv'
<1>1. clock \in Nat
  BY AdapterAssumption DEF AdapterInv, StoreNumbered
<1>2. ASSUME NEW u \in Thread PROVE CallNumbered(u)' /\ AnswerKnown(u)'
  <2>1. CASE CallNumbered(u)' /\ AnswerKnown(u)'
    BY <2>1
  <2>2. CASE call'[u] = call[u] /\ answer'[u] = answer[u]
    <3>1. call'[u] = call[u] /\ answer'[u] = answer[u] /\ CallNumbered(u) /\ AnswerKnown(u)
      BY <2>2 DEF AdapterInv
    <3>2. Dictionary(names)
      BY DEF AdapterInv
    <3> QED BY <1>1, <3>1, <3>2, CallKept, AnswerKept
  <2> QED BY <2>1, <2>2
<1>3. NullName \in DOMAIN names'.to /\ names'.to[NullName] = 0
  BY DEF AdapterInv, Grows
<1> QED BY <1>2, <1>3 DEF AdapterInv

\* A step that numbers names and leaves the store alone.
LEMMA NumberingStep ==
  ASSUME AdapterInv, NEW list, NEW len \in Nat, DOMAIN list = 1 .. len,
         names' = InternAll(names, list), UNCHANGED << store, coreVars >>
  PROVE  /\ Dictionary(names)' /\ Grows(names, names')
         /\ \A i \in 1 .. len : list[i] \in DOMAIN names'.to
         /\ StoreNumbered' /\ OneVersionATime'
         /\ clock' \in Nat /\ clock <= clock'
         /\ \A c, rt : ValueAt(c, rt)' = ValueAt(c, rt)
         /\ NamedVersions' = NamedVersions /\ NamedHolds' = NamedHolds
         /\ NamedTrace' = NamedTrace
<1>0. clock \in Nat
  BY AdapterAssumption DEF AdapterInv, StoreNumbered
<1>1. PICK n : n = names
  OBVIOUS
<1>2. Dictionary(n)
  BY <1>1 DEF AdapterInv
<1>3. /\ Dictionary(InternAll(n, list)) /\ Grows(n, InternAll(n, list))
      /\ DOMAIN InternAll(n, list).to = DOMAIN n.to \cup ToSet(list)
  BY <1>2, InternAllKeeps
<1>4. Dictionary(names)' /\ Grows(names, names')
  BY <1>1, <1>3
<1>5. \A i \in 1 .. len : list[i] \in DOMAIN names'.to
  BY <1>1, <1>3 DEF ToSet
<1>6. CellIds \subseteq CellIds' /\ ValIds \subseteq ValIds' /\ AgentIds \subseteq AgentIds'
  BY <1>4, IdsGrow DEF AdapterInv
<1>7. StoreNumbered'
  <2> USE DEF AdapterInv, coreVars
  <2>1. clock' = clock /\ clock \in 0 .. MaxClock /\ store' = store
    BY DEF StoreNumbered
  <2>2. versions' \subseteq
          IF store' = "pess"
          THEN [cell : CellIds', time : 1 .. clock', val : ValIds', agent : AgentIds']
          ELSE [cell : CellIds', time : 1 .. clock', val : ValIds']
    <3>1. ASSUME NEW v \in versions, store = "pess"
          PROVE  v \in [cell : CellIds', time : 1 .. clock', val : ValIds', agent : AgentIds']
      <4>1. v \in [cell : CellIds, time : 1 .. clock, val : ValIds, agent : AgentIds]
        BY <3>1 DEF StoreNumbered
      <4> QED BY <4>1, <1>6, <2>1
    <3>2. ASSUME NEW v \in versions, store # "pess"
          PROVE  v \in [cell : CellIds', time : 1 .. clock', val : ValIds']
      <4>1. v \in [cell : CellIds, time : 1 .. clock, val : ValIds]
        BY <3>2 DEF StoreNumbered
      <4> QED BY <4>1, <1>6, <2>1
    <3> QED BY <3>1, <3>2
  <2>3. holds' \subseteq [cell : CellIds', agent : AgentIds', since : 0 .. clock']
    <3>1. ASSUME NEW h \in holds
          PROVE  h \in [cell : CellIds', agent : AgentIds', since : 0 .. clock']
      <4>1. h \in [cell : CellIds, agent : AgentIds, since : 0 .. clock]
        BY DEF StoreNumbered
      <4> QED BY <4>1, <1>6, <2>1
    <3> QED BY <3>1
  <2>4. trace' \subseteq [agent : AgentIds' \cup {0}, readCells : SUBSET CellIds',
                         readTime : 0 .. clock', writeCells : SUBSET CellIds',
                         writeTime : 0 .. clock']
    <3>1. ASSUME NEW r \in trace
          PROVE  r \in [agent : AgentIds' \cup {0}, readCells : SUBSET CellIds',
                         readTime : 0 .. clock', writeCells : SUBSET CellIds',
                         writeTime : 0 .. clock']
      <4>1. r \in [agent : AgentIds \cup {0}, readCells : SUBSET CellIds,
                   readTime : 0 .. clock, writeCells : SUBSET CellIds, writeTime : 0 .. clock]
        BY DEF StoreNumbered
      <4> QED BY <4>1, <1>6, <2>1
    <3> QED BY <3>1
  <2> QED BY <2>1, <2>2, <2>3, <2>4 DEF StoreNumbered
<1>8. OneVersionATime'
  BY DEF AdapterInv, OneVersionATime, coreVars
<1>9. NamedVersions' = NamedVersions /\ NamedHolds' = NamedHolds /\ NamedTrace' = NamedTrace
  <2>1. PICK m : m = names'
    OBVIOUS
  <2>2. Dictionary(m) /\ Grows(names, m)
    BY <1>4, <2>1
  <2>3. /\ \A v \in versions : NamedFields(m, v) = NamedFields(names, v)
        /\ \A h \in holds : NamedFields(m, h) = NamedFields(names, h)
        /\ \A r \in trace : NamedRecord(m, r) = NamedRecord(names, r)
    BY <2>2, ViewKept DEF AdapterInv
  <2>4. versions' = versions /\ holds' = holds /\ trace' = trace
    BY DEF coreVars
  <2>5. /\ NamedVersions' = {NamedFields(m, v) : v \in versions}
        /\ NamedHolds' = {NamedFields(m, h) : h \in holds}
        /\ NamedTrace' = {NamedRecord(m, r) : r \in trace}
    BY <2>1, <2>4 DEF NamedVersions, NamedHolds, NamedTrace
  <2>6. NamedVersions' = NamedVersions
    BY ONLY <2>3, <2>5, Zenon DEF NamedVersions
  <2>7. NamedHolds' = NamedHolds
    BY ONLY <2>3, <2>5, Zenon DEF NamedHolds
  <2>8. NamedTrace' = NamedTrace
    BY ONLY <2>3, <2>5, Zenon DEF NamedTrace
  <2> QED BY <2>6, <2>7, <2>8
<1>10. \A c, rt : ValueAt(c, rt)' = ValueAt(c, rt)
  BY <1>9, Zenon DEF ValueAt
<1> QED BY <1>0, <1>4, <1>5, <1>7, <1>8, <1>9, <1>10 DEF coreVars

-----------------------------------------------------------------------------
\* A finite set as a list.
LEMMA ListOfSet ==
  ASSUME NEW S, IsFiniteSet(S)
  PROVE  /\ Cardinality(S) \in Nat
         /\ SetToSeq(S) \in [1 .. Cardinality(S) -> S]
         /\ ToSet(SetToSeq(S)) = S
<1> DEFINE k == Cardinality(S)
<1>1. k \in Nat /\ ExistsBijection(1 .. k, S)
  BY FS_CardinalityType
<1>2. PICK b \in Bijection(1 .. k, S) : TRUE
  BY <1>1 DEF ExistsBijection
<1>3. b \in [1 .. k -> S] /\ IsInjective(b)
  BY <1>2 DEF Bijection, Injection, Surjection, IsInjective
<1>4. SetToSeq(S) \in [1 .. k -> S] /\ IsInjective(SetToSeq(S))
  BY <1>3, Zenon DEF SetToSeq
<1>5. PICK q : q = SetToSeq(S)
  OBVIOUS
<1>6. q \in [1 .. k -> S] /\ \A i, j \in 1 .. k : q[i] = q[j] => i = j
  BY <1>4, <1>5 DEF IsInjective
<1>7. q \in Injection(1 .. k, S)
  BY <1>4, <1>5 DEF Injection
<1>8. IsFiniteSet(1 .. k) /\ Cardinality(1 .. k) = k
  BY <1>1, FS_Interval
<1>9. q \in Surjection(1 .. k, S)
  BY <1>7, <1>8, FS_Injection
<1>10. \A x \in S : \E i \in 1 .. k : q[i] = x
  BY <1>9 DEF Surjection
<1>11. ToSet(q) = S
  BY <1>6, <1>10 DEF ToSet
<1> QED BY <1>1, <1>4, <1>5, <1>11

\* g is the recursive function behind the concatenation of the first m lists.
FlattenLoop(seqs, m, g) ==
  g = [i \in 1 .. m |-> IF i = 1 THEN seqs[i] ELSE g[i - 1] \o seqs[i]]

\* There is such a function.
LEMMA FlattenLoopExists ==
  ASSUME NEW seqs, NEW m \in Nat
  PROVE  \E g : FlattenLoop(seqs, m, g)
<1> USE DEF FlattenLoop
<1> DEFINE Loop(k) == \E g : FlattenLoop(seqs, k, g)
<1>1. Loop(0)
  <2> DEFINE g == [i \in 1 .. 0 |-> seqs]
  <2>1. g = [i \in 1 .. 0 |-> IF i = 1 THEN seqs[i] ELSE g[i - 1] \o seqs[i]]
    OBVIOUS
  <2> QED BY <2>1
<1>2. ASSUME NEW k \in Nat, Loop(k) PROVE Loop(k + 1)
  <2>1. PICK g : g = [i \in 1 .. k |-> IF i = 1 THEN seqs[i] ELSE g[i - 1] \o seqs[i]]
    BY <1>2
  <2> DEFINE h == [i \in 1 .. k + 1 |->
                     IF i = k + 1 THEN IF i = 1 THEN seqs[i] ELSE g[k] \o seqs[i] ELSE g[i]]
             f == [i \in 1 .. k + 1 |-> IF i = 1 THEN seqs[i] ELSE h[i - 1] \o seqs[i]]
  <2>2. \A i \in 1 .. k : h[i] = g[i]
    OBVIOUS
  <2>3. ASSUME NEW i \in 1 .. k + 1 PROVE h[i] = f[i]
    <3>1. CASE i = k + 1 /\ i = 1
      BY <3>1
    <3>2. CASE i = k + 1 /\ i # 1
      <4>1. k \in 1 .. k /\ i - 1 = k
        BY <3>2
      <4>2. h[i] = g[k] \o seqs[i] /\ f[i] = h[i - 1] \o seqs[i]
        BY <3>2
      <4> HIDE DEF h, f
      <4> QED BY <4>1, <4>2, <2>2
    <3>3. CASE i # k + 1
      <4>1. i \in 1 .. k /\ (i = 1 \/ i - 1 \in 1 .. k)
        BY <3>3
      <4>2. g[i] = IF i = 1 THEN seqs[i] ELSE g[i - 1] \o seqs[i]
        BY <4>1, <2>1
      <4>3. f[i] = IF i = 1 THEN seqs[i] ELSE h[i - 1] \o seqs[i]
        OBVIOUS
      <4> HIDE DEF h, f
      <4> QED BY <4>1, <4>2, <4>3, <2>2
    <3> QED BY <3>1, <3>2, <3>3
  <2>4. /\ h = [i \in DOMAIN h |-> h[i]] /\ DOMAIN h = 1 .. k + 1
        /\ f = [i \in DOMAIN f |-> f[i]] /\ DOMAIN f = 1 .. k + 1
    OBVIOUS
  <2>5. h = f
    <3> HIDE DEF h, f
    <3> QED BY <2>3, <2>4
  <2> HIDE DEF h
  <2> QED BY <2>5
<1> HIDE DEF Loop
<1>3. Loop(m)
  <2> DEFINE F == {k \in Nat : ~ Loop(k)}
  <2> SUFFICES ASSUME F # {} PROVE FALSE
    BY DEF F
  <2>1. PICK k \in F : \A j \in F : k <= j
    <3> F \in SUBSET Nat
      OBVIOUS
    <3> HIDE DEF F
    <3> QED BY LeastOfNaturals
  <2>2. k # 0 /\ k \in Nat
    BY <1>1
  <2>3. k - 1 \in Nat /\ k - 1 \notin F
    BY <2>1, <2>2
  <2> QED BY <2>1, <2>3, <1>2
<1> QED BY <1>3 DEF Loop

\* Two lists, one after the other, have what each has.
LEMMA ConcatHas ==
  ASSUME NEW S, NEW a \in Seq(S), NEW b \in Seq(S)
  PROVE  /\ a \o b \in Seq(S)
         /\ ToSet(a) \subseteq ToSet(a \o b) /\ ToSet(b) \subseteq ToSet(a \o b)
<1>1. /\ a \o b \in Seq(S) /\ Len(a \o b) = Len(a) + Len(b)
      /\ Len(a) \in Nat /\ Len(b) \in Nat
      /\ DOMAIN a = 1 .. Len(a) /\ DOMAIN b = 1 .. Len(b)
      /\ DOMAIN (a \o b) = 1 .. Len(a \o b)
  OBVIOUS
<1>2. \A j \in 1 .. Len(a) : (a \o b)[j] = a[j] /\ j \in 1 .. Len(a \o b)
  OBVIOUS
<1>3. \A j \in 1 .. Len(b) : (a \o b)[j + Len(a)] = b[j] /\ j + Len(a) \in 1 .. Len(a \o b)
  OBVIOUS
<1> QED BY <1>1, <1>2, <1>3, Zenon DEF ToSet

\* A concatenation of lists is a list that has what they have.
LEMMA FlattenHas ==
  ASSUME NEW S, NEW k \in Nat, NEW seqs \in [1 .. k -> Seq(S)]
  PROVE  /\ FlattenSeq(seqs) \in Seq(S)
         /\ \A i \in 1 .. k : ToSet(seqs[i]) \subseteq ToSet(FlattenSeq(seqs))
<1>1. seqs \in Seq(Seq(S)) /\ Len(seqs) = k
  OBVIOUS
<1>2. CASE k = 0
  <2>1. FlattenSeq(seqs) = seqs /\ seqs = << >>
    BY <1>1, <1>2 DEF FlattenSeq
  <2> QED BY <1>2, <2>1
<1>3. CASE k # 0
  <2>1. FlattenSeq(seqs) = (CHOOSE g : FlattenLoop(seqs, k, g))[k]
    BY <1>1, <1>3 DEF FlattenSeq, FlattenLoop
  <2>2. PICK g : FlattenLoop(seqs, k, g) /\ FlattenSeq(seqs) = g[k]
    <3>1. FlattenLoop(seqs, k, CHOOSE g : FlattenLoop(seqs, k, g))
      BY FlattenLoopExists, Zenon
    <3> QED BY <2>1, <3>1, Zenon
  <2> DEFINE Good(i) == g[i] \in Seq(S) /\ \A j \in 1 .. i : ToSet(seqs[j]) \subseteq ToSet(g[i])
  <2>3. Good(1)
    <3>1. g[1] = seqs[1]
      BY <1>3, <2>2 DEF FlattenLoop
    <3>2. \A j \in 1 .. 1 : j = 1
      OBVIOUS
    <3>3. seqs[1] \in Seq(S)
      BY <1>3
    <3> QED BY <3>1, <3>2, <3>3
  <2>4. ASSUME NEW i \in 1 .. k - 1, Good(i) PROVE Good(i + 1)
    <3>1. g[i + 1] = g[i] \o seqs[i + 1] /\ seqs[i + 1] \in Seq(S)
      <4>1. i + 1 \in 1 .. k /\ i + 1 # 1 /\ (i + 1) - 1 = i
        OBVIOUS
      <4>2. g[i + 1] = IF i + 1 = 1 THEN seqs[i + 1] ELSE g[(i + 1) - 1] \o seqs[i + 1]
        BY <2>2, <4>1, Zenon DEF FlattenLoop
      <4> QED BY <4>1, <4>2
    <3>3. g[i + 1] \in Seq(S) /\ ToSet(g[i]) \subseteq ToSet(g[i + 1])
          /\ ToSet(seqs[i + 1]) \subseteq ToSet(g[i + 1])
      <4>1. g[i] \in Seq(S)
        BY <2>4
      <4> QED BY <3>1, <4>1, ConcatHas
    <3>4. \A j \in 1 .. i + 1 : j \in 1 .. i \/ j = i + 1
      OBVIOUS
    <3> QED BY <2>4, <3>3, <3>4
  <2> HIDE DEF Good
  <2>5. Good(k)
    <3> DEFINE F == {i \in 1 .. k : ~ Good(i)}
    <3> SUFFICES ASSUME F # {} PROVE FALSE
      BY <1>3 DEF F
    <3>1. PICK i \in F : \A j \in F : i <= j
      <4> F \in SUBSET Nat
        OBVIOUS
      <4> HIDE DEF F
      <4> QED BY LeastOfNaturals
    <3>2. i # 1 /\ i \in 1 .. k
      BY <2>3
    <3>3. i - 1 \in 1 .. k - 1 /\ i - 1 \notin F
      BY <3>1, <3>2
    <3>4. Good(i - 1)
      BY <3>3
    <3>5. Good((i - 1) + 1)
      BY <3>3, <3>4, <2>4
    <3>6. (i - 1) + 1 = i
      BY <3>2
    <3> QED BY <3>1, <3>5, <3>6
  <2> QED BY <2>2, <2>5 DEF Good
<1> QED BY <1>2, <1>3

-----------------------------------------------------------------------------
\* A step that the store over names does not see.
Unseen == UNCHANGED << store, clock, NamedVersions, NamedHolds, NamedTrace >>

\* The agent of a call that numbers it has a number.
LEMMA AgentNumbered ==
  ASSUME NEW t \in Thread, AgentOf[t] \in DOMAIN names'.to
  PROVE  names'.to[AgentOf[t]] \in AgentIds'
BY Zenon DEF AgentIds, NumbersOf, AgentName

\* A call that numbers names and goes on with what they are.
LEMMA NumberedCall ==
  ASSUME AdapterInv, NEW t \in Thread,
         NEW list, NEW len \in Nat, DOMAIN list = 1 .. len,
         names' = InternAll(names, list), UNCHANGED << store, coreVars, answer >>,
         DOMAIN call' = Thread, \A u \in Thread \ {t} : call'[u] = call[u],
         CallNumbered(t)'
  PROVE  AdapterInv' /\ Unseen
<1>1. /\ Dictionary(names)' /\ Grows(names, names')
      /\ StoreNumbered' /\ OneVersionATime'
      /\ clock' \in Nat /\ clock <= clock'
      /\ \A c, rt : ValueAt(c, rt)' = ValueAt(c, rt)
      /\ NamedVersions' = NamedVersions /\ NamedHolds' = NamedHolds
      /\ NamedTrace' = NamedTrace
  BY NumberingStep
<1>2. AnswerKnown(t)'
  <2>1. clock \in Nat /\ AnswerKnown(t) /\ answer'[t] = answer[t]
    BY AdapterAssumption DEF AdapterInv, StoreNumbered
  <2> QED BY <1>1, <2>1, AnswerKept
<1>3. DOMAIN answer' = Thread
  BY DEF AdapterInv
<1>4. ASSUME NEW u \in Thread
      PROVE  \/ call'[u] = call[u] /\ answer'[u] = answer[u]
             \/ CallNumbered(u)' /\ AnswerKnown(u)'
  <2>1. CASE u = t
    BY <1>2, <2>1
  <2>2. CASE u # t
    BY <2>2
  <2> QED BY <2>1, <2>2
<1>5. AdapterInv'
  BY <1>1, <1>3, <1>4, OthersKept
<1> QED BY <1>1, <1>5 DEF Unseen, coreVars

\* A begin numbers its agent and its cells.
LEMMA BeginNumbersKeeps ==
  ASSUME AdapterInv, NEW t \in Thread, NEW list \in BoundedSeq(CellName, MaxCells),
         BeginNumbers(t, list)
  PROVE  AdapterInv' /\ Unseen
<1>1. PICK m \in Nat : list \in [1 .. m -> CellName]
  BY AdapterAssumption DEF BoundedSeq, SeqOf
<1> DEFINE all == << AgentOf[t] >> \o list
<1>2. /\ DOMAIN all = 1 .. m + 1 /\ all[1] = AgentOf[t]
      /\ \A i \in 1 .. m : all[i + 1] = list[i]
  <2>1. list \in Seq(CellName) /\ Len(list) = m
    BY <1>1
  <2> QED BY <2>1
<1>3. /\ names' = InternAll(names, all) /\ UNCHANGED << store, coreVars, answer >>
      /\ call' = [call EXCEPT ![t] = [at |-> "begin", agent |-> names'.to[AgentOf[t]],
                                      cells |-> {names'.to[c] : c \in ToSet(list)}]]
  BY DEF BeginNumbers, Now
<1> HIDE DEF all
<1>4. m + 1 \in Nat /\ \A i \in 1 .. m + 1 : all[i] \in DOMAIN names'.to
  <2>1. m + 1 \in Nat
    BY <1>1
  <2> QED BY <1>2, <1>3, <2>1, NumberingStep
<1>5. names'.to[AgentOf[t]] \in AgentIds'
  <2>1. 1 \in 1 .. m + 1
    BY <1>1
  <2> QED BY <1>2, <1>4, <2>1, AgentNumbered
<1>6. {names'.to[c] : c \in ToSet(list)} \subseteq CellIds'
  <2>1. ASSUME NEW c \in ToSet(list) PROVE c \in CellName \cap DOMAIN names'.to
    <3>1. PICK i \in 1 .. m : c = list[i]
      BY <1>1 DEF ToSet
    <3>2. i + 1 \in 1 .. m + 1
      BY <1>1
    <3> QED BY <1>1, <1>2, <1>4, <3>1, <3>2
  <2> QED BY <2>1, Zenon DEF CellIds, NumbersOf
<1>7. /\ DOMAIN call' = Thread /\ \A u \in Thread \ {t} : call'[u] = call[u]
      /\ call'[t].at = "begin" /\ call'[t].agent = names'.to[AgentOf[t]]
      /\ call'[t].cells = {names'.to[c] : c \in ToSet(list)}
  BY <1>3 DEF AdapterInv
<1>8. CallNumbered(t)'
  BY <1>5, <1>6, <1>7 DEF CallNumbered
<1> QED BY <1>2, <1>3, <1>4, <1>7, <1>8, NumberedCall

\* A release numbers its agent.
LEMMA ReleaseNumbersKeeps ==
  ASSUME AdapterInv, NEW t \in Thread, ReleaseNumbers(t)
  PROVE  AdapterInv' /\ Unseen
<1> DEFINE all == << AgentOf[t] >>
<1>1. DOMAIN all = 1 .. 1 /\ all[1] = AgentOf[t]
  OBVIOUS
<1>2. /\ names' = InternAll(names, all) /\ UNCHANGED << store, coreVars, answer >>
      /\ call' = [call EXCEPT ![t] = [at |-> "release", agent |-> names'.to[AgentOf[t]]]]
      /\ store = "pess"
  BY DEF ReleaseNumbers, Now
<1> HIDE DEF all
<1>3. \A i \in 1 .. 1 : all[i] \in DOMAIN names'.to
  BY <1>1, <1>2, NumberingStep
<1>4. names'.to[AgentOf[t]] \in AgentIds'
  BY <1>1, <1>3, AgentNumbered
<1>5. /\ DOMAIN call' = Thread /\ \A u \in Thread \ {t} : call'[u] = call[u]
      /\ call'[t].at = "release" /\ call'[t].agent = names'.to[AgentOf[t]]
  BY <1>2 DEF AdapterInv
<1>6. CallNumbered(t)'
  BY <1>2, <1>4, <1>5 DEF CallNumbered
<1> QED BY <1>1, <1>2, <1>5, <1>6, NumberedCall

\* A map over names, over their numbers.
LEMMA NumberedIs ==
  ASSUME NEW n, Dictionary(n), NEW W, NEW V, NEW f \in [W -> V],
         W \subseteq DOMAIN n.to, \A s \in W : f[s] \in DOMAIN n.to
  PROVE  /\ Numbered(n, f) \in [NumbersOf(n, W) -> NumbersOf(n, V)]
         /\ \A s \in W : Numbered(n, f)[n.to[s]] = n.to[f[s]]
<1>1. \A s, u \in W : n.to[s] = n.to[u] => s = u
  BY NumbersName
<1>2. {n.to[s] : s \in DOMAIN f} = NumbersOf(n, W)
  BY DEF NumbersOf
<1>3. DOMAIN Numbered(n, f) = NumbersOf(n, W)
  BY <1>2 DEF Numbered
<1>4. ASSUME NEW s \in W PROVE Numbered(n, f)[n.to[s]] = n.to[f[s]]
  <2>1. (CHOOSE u \in DOMAIN f : n.to[u] = n.to[s]) = s
    BY <1>1
  <2>2. n.to[s] \in {n.to[u] : u \in DOMAIN f}
    OBVIOUS
  <2> QED BY <2>1, <2>2 DEF Numbered
<1>5. ASSUME NEW i \in NumbersOf(n, W) PROVE Numbered(n, f)[i] \in NumbersOf(n, V)
  <2>1. PICK s \in W : i = n.to[s]
    BY DEF NumbersOf
  <2>2. f[s] \in V \cap DOMAIN n.to
    OBVIOUS
  <2> QED BY <1>4, <2>1, <2>2 DEF NumbersOf
<1>6. Numbered(n, f) = [i \in DOMAIN Numbered(n, f) |-> Numbered(n, f)[i]]
  BY DEF Numbered
<1> QED BY <1>3, <1>4, <1>5, <1>6

\* A commit numbers its agent, the cells it read and what it writes.
LEMMA CommitNumbersKeeps ==
  ASSUME AdapterInv, NEW t \in Thread, NEW W \in SUBSET CellName,
         NEW f \in [W -> ValName], CommitNumbers(t, f)
  PROVE  AdapterInv' /\ Unseen
<1> DEFINE cells == SetToSeq(W)
           R == DOMAIN answer[t].values
           reads == SetToSeq(R)
           pairs == [i \in DOMAIN cells |-> << cells[i], f[cells[i]] >>]
           N == CellName \cup ValName \cup {AgentOf[t]}
           all == << AgentOf[t] >> \o reads \o FlattenSeq(pairs)
<1>0. R \subseteq CellName /\ answer[t].time \in 0 .. clock /\ DOMAIN f = W
  BY DEF AdapterInv, AnswerKnown
<1>1. IsFiniteSet(W) /\ IsFiniteSet(R)
  BY <1>0, FS_Subset, AdapterAssumption
<1>2. /\ Cardinality(W) \in Nat /\ cells \in [1 .. Cardinality(W) -> W] /\ ToSet(cells) = W
      /\ Cardinality(R) \in Nat /\ reads \in [1 .. Cardinality(R) -> R] /\ ToSet(reads) = R
  BY <1>1, ListOfSet
<1>3. /\ names' = InternAll(names, all) /\ UNCHANGED << store, coreVars, answer >>
      /\ call' = [call EXCEPT ![t] = [at |-> "commit", agent |-> names'.to[AgentOf[t]],
                     time |-> answer[t].time, cells |-> {names'.to[c] : c \in R},
                     writes |-> Numbered(names', f)]]
  BY <1>0 DEF CommitNumbers, Now
<1> HIDE DEF cells, R, reads
<1>4. /\ FlattenSeq(pairs) \in Seq(N)
      /\ \A i \in 1 .. Cardinality(W) : ToSet(pairs[i]) \subseteq ToSet(FlattenSeq(pairs))
  <2>1. pairs \in [1 .. Cardinality(W) -> Seq(N)]
    <3>1. ASSUME NEW i \in 1 .. Cardinality(W)
          PROVE  << cells[i], f[cells[i]] >> \in Seq(N)
      <4>1. cells[i] \in N /\ f[cells[i]] \in N
        BY <1>2
      <4> QED BY <4>1
    <3> QED BY <1>2, <3>1
  <2> HIDE DEF pairs, N
  <2> QED BY <1>2, <2>1, FlattenHas
<1>5. << AgentOf[t] >> \in Seq(N) /\ reads \in Seq(N)
  <2>1. reads \in Seq(N)
    BY <1>0, <1>2 DEF R
  <2> QED BY <2>1
<1>6. /\ all \in Seq(N) /\ ToSet(<< AgentOf[t] >>) \subseteq ToSet(all)
      /\ ToSet(reads) \subseteq ToSet(all) /\ ToSet(FlattenSeq(pairs)) \subseteq ToSet(all)
  <2> HIDE DEF pairs, N
  <2>1. /\ << AgentOf[t] >> \o reads \in Seq(N)
        /\ ToSet(<< AgentOf[t] >>) \subseteq ToSet(<< AgentOf[t] >> \o reads)
        /\ ToSet(reads) \subseteq ToSet(<< AgentOf[t] >> \o reads)
    BY <1>5, ConcatHas
  <2> QED BY <1>4, <2>1, ConcatHas
<1>7. AgentOf[t] \in ToSet(all) /\ R \subseteq ToSet(all)
  <2>1. AgentOf[t] \in ToSet(<< AgentOf[t] >>)
    BY DEF ToSet
  <2> QED BY <1>2, <1>6, <2>1
<1>8. \A s \in W : s \in ToSet(all) /\ f[s] \in ToSet(all)
  <2> SUFFICES ASSUME NEW s \in W PROVE s \in ToSet(all) /\ f[s] \in ToSet(all)
    OBVIOUS
  <2>1. PICK i \in 1 .. Cardinality(W) : s = cells[i]
    BY <1>2 DEF ToSet
  <2>2. pairs[i] = << s, f[s] >>
    BY <1>2, <2>1
  <2>3. s \in ToSet(pairs[i]) /\ f[s] \in ToSet(pairs[i])
    <3>1. PICK q : q = << s, f[s] >>
      OBVIOUS
    <3>2. 1 \in DOMAIN q /\ 2 \in DOMAIN q /\ q[1] = s /\ q[2] = f[s]
      BY <3>1
    <3>3. q = pairs[i]
      BY <2>2, <3>1
    <3>4. s \in ToSet(q) /\ f[s] \in ToSet(q)
      BY <3>2, Zenon DEF ToSet
    <3> QED BY <3>3, <3>4, Zenon
  <2> QED BY <1>4, <1>6, <2>3, Zenon
<1> HIDE DEF all
<1>9. PICK len \in Nat : DOMAIN all = 1 .. len
  BY <1>6
<1>10. Dictionary(names)' /\ ToSet(all) \subseteq DOMAIN names'.to
  <2>1. Dictionary(names)' /\ \A i \in 1 .. len : all[i] \in DOMAIN names'.to
    BY <1>3, <1>9, NumberingStep
  <2> QED BY <1>9, <2>1 DEF ToSet
<1>11. names'.to[AgentOf[t]] \in AgentIds'
  BY <1>7, <1>10, AgentNumbered
<1>12. {names'.to[c] : c \in R} \subseteq CellIds'
  BY <1>0, <1>7, <1>10, Zenon DEF CellIds, NumbersOf, R
<1>13. \E D \in SUBSET CellIds' : Numbered(names', f) \in [D -> ValIds']
  <2>1. PICK m : m = names'
    OBVIOUS
  <2>2. Dictionary(m) /\ W \subseteq DOMAIN m.to /\ \A s \in W : f[s] \in DOMAIN m.to
    BY <1>8, <1>10, <2>1
  <2>3. Numbered(m, f) \in [NumbersOf(m, W) -> NumbersOf(m, ValName)]
    BY <2>2, NumberedIs
  <2>4. NumbersOf(m, W) \subseteq NumbersOf(m, CellName)
    BY NumbersMonotone
  <2> QED BY <2>1, <2>3, <2>4 DEF CellIds, ValIds
<1>14. /\ DOMAIN call' = Thread /\ \A u \in Thread \ {t} : call'[u] = call[u]
       /\ call'[t].at = "commit" /\ call'[t].agent = names'.to[AgentOf[t]]
       /\ call'[t].time = answer[t].time
       /\ call'[t].cells = {names'.to[c] : c \in R} /\ call'[t].writes = Numbered(names', f)
  BY <1>3 DEF AdapterInv
<1>15. CallNumbered(t)'
  <2>1. answer[t].time \in 0 .. clock'
    BY <1>0, <1>3 DEF coreVars
  <2> QED BY <1>11, <1>12, <1>13, <1>14, <2>1 DEF CallNumbered
<1> QED BY <1>3, <1>9, <1>14, <1>15, NumberedCall

-----------------------------------------------------------------------------
\* What a version is over names.
LEMMA VersionView ==
  ASSUME StoreNumbered, NEW v \in versions
  PROVE  /\ v.cell \in CellIds /\ v.val \in ValIds /\ v.time \in 1 .. clock
         /\ NamedFields(names, v).cell = NameOf(names, v.cell)
         /\ NamedFields(names, v).val = NameOf(names, v.val)
         /\ NamedFields(names, v).time = v.time
<1>1. CASE store = "pess"
  <2>1. v \in [cell : CellIds, time : 1 .. clock, val : ValIds, agent : AgentIds]
    BY <1>1 DEF StoreNumbered
  <2> QED BY <2>1 DEF NamedFields
<1>2. CASE store # "pess"
  <2>1. v \in [cell : CellIds, time : 1 .. clock, val : ValIds]
    BY <1>2 DEF StoreNumbered
  <2> QED BY <2>1 DEF NamedFields
<1> QED BY <1>1, <1>2

\* Two numbers with one name are one number.
LEMMA OneNumber ==
  ASSUME Dictionary(names), NEW S, NEW T, NEW i \in NumbersOf(names, S),
         NEW j \in NumbersOf(names, T), NameOf(names, i) = NameOf(names, j)
  PROVE  i = j
<1>1. PICK n : n = names
  OBVIOUS
<1>2. n.to[NameOf(n, i)] = i /\ n.to[NameOf(n, j)] = j
  <2>1. \A X : \A k \in NumbersOf(n, X) : n.to[NameOf(n, k)] = k
    BY <1>1, NumbersName
  <2> QED BY <1>1, <2>1, Zenon
<1> QED BY <1>1, <1>2

\* A cell reads over numbers as it does over names.
LEMMA ReadIsNamed ==
  ASSUME AdapterInv, NEW c \in CellIds
  PROVE  /\ Pess!ValueOf(c) \in NumbersOf(names, ValName \cup {NullName})
         /\ NameOf(names, Pess!ValueOf(c)) = ValueAt(NameOf(names, c), clock)
<1> DEFINE vs == {v \in versions : v.cell = c}
           ws == {w \in NamedVersions : w.cell = NameOf(names, c) /\ w.time <= clock}
<1>0. StoreNumbered /\ Dictionary(names) /\ clock \in Nat
  BY AdapterAssumption DEF AdapterInv, StoreNumbered
<1>1. \A w : w \in ws <=> \E v \in vs : w = NamedFields(names, v)
  <2>1. ASSUME NEW v \in vs PROVE NamedFields(names, v) \in ws
    <3>1. /\ NamedFields(names, v).cell = NameOf(names, c)
          /\ NamedFields(names, v).time <= clock
      BY <1>0, VersionView
    <3> QED BY <3>1 DEF NamedVersions
  <2>2. ASSUME NEW w \in ws PROVE \E v \in vs : w = NamedFields(names, v)
    <3>1. PICK v \in versions : w = NamedFields(names, v)
      BY DEF NamedVersions
    <3>2. NameOf(names, v.cell) = NameOf(names, c) /\ v.cell \in CellIds
      BY <1>0, <3>1, VersionView
    <3>3. v.cell = c
      BY <1>0, <3>2, OneNumber DEF CellIds
    <3> QED BY <3>1, <3>3
  <2> QED BY <2>1, <2>2, Zenon
<1>2. CASE vs = {}
  <2>1. ws = {}
    BY <1>1, <1>2, Zenon
  <2>2. Pess!ValueOf(c) = 0 /\ ValueAt(NameOf(names, c), clock) = NullName
    BY <1>2, <2>1 DEF Pess!ValueOf, ValueAt, Latest
  <2>3. NullName \in DOMAIN names.to /\ names.to[NullName] = 0
    BY DEF AdapterInv
  <2>4. NameOf(names, names.to[NullName]) = NullName
    BY <2>3 DEF AdapterInv, Dictionary
  <2>5. names.to[NullName] \in NumbersOf(names, ValName \cup {NullName})
    BY <2>3, Zenon DEF NumbersOf
  <2> QED BY <2>2, <2>3, <2>4, <2>5
<1>3. CASE vs # {}
  <2>1. \A v \in vs : v \in versions /\ v.cell = c /\ v.time \in 1 .. clock
    BY <1>0, VersionView
  <2>2. PICK v \in vs : \A u \in vs : u.time <= v.time
    <3> DEFINE ages == {clock - v.time : v \in vs}
    <3>1. ages \in SUBSET Nat /\ ages # {}
      BY <1>0, <1>3, <2>1
    <3> HIDE DEF ages
    <3>2. PICK m \in ages : \A k \in ages : m <= k
      BY <3>1, LeastOfNaturals
    <3>3. PICK v \in vs : m = clock - v.time
      BY DEF ages
    <3>4. ASSUME NEW u \in vs PROVE u.time <= v.time
      <4>1. m <= clock - u.time
        BY <3>2 DEF ages
      <4>2. u.time \in Nat /\ v.time \in Nat
        BY <1>0, <2>1
      <4> QED BY <1>0, <3>3, <4>1, <4>2
    <3> QED BY <3>4
  <2>3. ASSUME NEW u \in vs, \A x \in vs : x.time <= u.time PROVE u = v
    <3>1. u.time <= v.time /\ v.time <= u.time /\ u.time \in Nat /\ v.time \in Nat
      BY <1>0, <2>1, <2>2, <2>3
    <3>2. u.time = v.time
      BY <3>1
    <3> QED BY <2>1, <3>2 DEF AdapterInv, OneVersionATime
  <2>4. Pess!ValueOf(c) = v.val
    <3>1. (CHOOSE u \in vs : \A x \in vs : x.time <= u.time) = v
      BY <2>2, <2>3
    <3> QED BY <1>3, <3>1 DEF Pess!ValueOf
  <2>5. \A u \in vs : NamedFields(names, u).time = u.time
    BY <1>0, VersionView
  <2>6. (CHOOSE w \in ws : \A x \in ws : x.time <= w.time) = NamedFields(names, v)
    <3>1. \A x \in ws : x.time <= NamedFields(names, v).time
      BY <1>1, <2>2, <2>5
    <3>2. ASSUME NEW w \in ws, \A x \in ws : x.time <= w.time
          PROVE  w = NamedFields(names, v)
      <4>1. PICK u \in vs : w = NamedFields(names, u)
        BY <1>1
      <4>2. \A x \in vs : NamedFields(names, x) \in ws
        BY <1>1, Zenon
      <4>3. \A x \in vs : x.time <= u.time
        BY <2>5, <3>2, <4>1, <4>2, Zenon
      <4> QED BY <2>3, <4>1, <4>3
    <3>3. NamedFields(names, v) \in ws
      BY <1>1, Zenon
    <3> HIDE DEF ws
    <3> QED BY <3>1, <3>2, <3>3
  <2>7. ValueAt(NameOf(names, c), clock) = NamedFields(names, v).val
    <3>1. ws # {}
      BY <1>1, Zenon
    <3> QED BY <2>6, <3>1 DEF ValueAt, Latest
  <2>8. NamedFields(names, v).val = NameOf(names, v.val) /\ v.val \in ValIds
    BY <1>0, VersionView
  <2>9. v.val \in NumbersOf(names, ValName \cup {NullName})
    <3>1. PICK n : n = names
      OBVIOUS
    <3>2. NumbersOf(n, ValName) \subseteq NumbersOf(n, ValName \cup {NullName})
      BY NumbersMonotone
    <3> QED BY <2>8, <3>1, <3>2 DEF ValIds
  <2> QED BY <2>4, <2>7, <2>8, <2>9
<1> QED BY <1>2, <1>3

\* A step of the store, of a call or of a tick.
LEMMA StoreStepKeeps ==
  ASSUME AdapterInv, UNCHANGED << store, names, answer >>,
         StoreNumbered', OneVersionATime', clock' \in Nat, clock <= clock',
         versions \subseteq versions', \A v \in versions' \ versions : v.time = clock + 1,
         DOMAIN call' = Thread, \A u \in Thread : call'[u] = call[u] \/ CallNumbered(u)'
  PROVE  AdapterInv'
<1>0. clock \in Nat /\ Dictionary(names) /\ StoreNumbered
  BY AdapterAssumption DEF AdapterInv, StoreNumbered
<1>1. Dictionary(names)' /\ Grows(names, names')
  BY DEF AdapterInv, Grows
<1>2. NamedVersions \subseteq NamedVersions'
  BY Zenon DEF NamedVersions
<1>3. \A w \in NamedVersions' \ NamedVersions : w.time \in Nat /\ w.time > clock
  <2> SUFFICES ASSUME NEW w \in NamedVersions' \ NamedVersions
               PROVE  w.time \in Nat /\ w.time > clock
    BY Zenon
  <2>1. PICK v \in versions' : w = NamedFields(names, v)
    BY Zenon DEF NamedVersions
  <2>2. v \notin versions
    BY <2>1, Zenon DEF NamedVersions
  <2>3. v.time = clock + 1
    BY <2>2
  <2>4. NamedFields(names, v).time = v.time
    <3>1. \/ v \in [cell : CellIds', time : 1 .. clock', val : ValIds', agent : AgentIds']
          \/ v \in [cell : CellIds', time : 1 .. clock', val : ValIds']
      BY DEF StoreNumbered
    <3> QED BY <3>1 DEF NamedFields
  <2> QED BY <1>0, <2>1, <2>3, <2>4
<1>4. \A c : \A rt \in 0 .. clock : ValueAt(c, rt)' = ValueAt(c, rt)
  BY <1>0, <1>2, <1>3, PastKept
<1>5. ASSUME NEW u \in Thread PROVE AnswerKnown(u)' /\ answer'[u] = answer[u]
  <2>1. AnswerKnown(u) /\ answer'[u] = answer[u]
    BY DEF AdapterInv
  <2> QED BY <1>0, <1>4, <2>1, AnswerKept
<1>6. \A u \in Thread : \/ call'[u] = call[u] /\ answer'[u] = answer[u]
                        \/ CallNumbered(u)' /\ AnswerKnown(u)'
  BY <1>5
<1> QED BY <1>1, <1>4, <1>6, OthersKept DEF AdapterInv

-----------------------------------------------------------------------------
\* The store over names, instance by instance: an agent holds a cell there
\* exactly when its number holds the cell's.
LEMMA HeldByOtherNamed ==
  ASSUME StoreNumbered, Dictionary(names), NEW a \in AgentIds, NEW C \in SUBSET CellIds
  PROVE  Pess!HeldByOther(a, C) <=>
         NamedPess!HeldByOther(NameOf(names, a), NamedSet(names, C))
<1>1. ASSUME NEW h \in holds
      PROVE  /\ h.cell \in CellIds /\ h.agent \in AgentIds
             /\ NamedFields(names, h).cell = NameOf(names, h.cell)
             /\ NamedFields(names, h).agent = NameOf(names, h.agent)
  <2>1. h \in [cell : CellIds, agent : AgentIds, since : 0 .. clock]
    BY DEF StoreNumbered
  <2> QED BY <2>1 DEF NamedFields
<1>2. ASSUME NEW h \in holds
      PROVE  /\ h.cell \in C <=> NameOf(names, h.cell) \in NamedSet(names, C)
             /\ h.agent = a <=> NameOf(names, h.agent) = NameOf(names, a)
  <2>1. h.cell \in CellIds /\ h.agent \in AgentIds
    BY <1>1
  <2>2. \A c \in C : NameOf(names, h.cell) = NameOf(names, c) => h.cell = c
    BY <2>1, OneNumber DEF CellIds
  <2>3. NameOf(names, h.agent) = NameOf(names, a) => h.agent = a
    BY <2>1, OneNumber DEF AgentIds
  <2> QED BY <2>2, <2>3, Zenon DEF NamedSet
<1>3. NamedPess!HeldByOther(NameOf(names, a), NamedSet(names, C)) <=>
        \E h \in holds : /\ NamedFields(names, h).cell \in NamedSet(names, C)
                         /\ NamedFields(names, h).agent # NameOf(names, a)
  BY Zenon DEF NamedPess!HeldByOther, NamedHolds
<1> QED BY <1>1, <1>2, <1>3, Zenon DEF Pess!HeldByOther

\* The names of two sets of cells differ as the sets do.
LEMMA NamedDifference ==
  ASSUME Dictionary(names), NEW C \in SUBSET CellIds, NEW D \in SUBSET CellIds
  PROVE  /\ NamedSet(names, C \ D) = NamedSet(names, C) \ NamedSet(names, D)
         /\ NamedSet(names, C) \in SUBSET CellName
         /\ \A c \in CellIds : c \in C <=> NameOf(names, c) \in NamedSet(names, C)
<1>1. \A c, d \in CellIds : NameOf(names, c) = NameOf(names, d) => c = d
  BY OneNumber DEF CellIds
<1>2. \A c \in CellIds : NameOf(names, c) \in CellName
  <2>1. PICK n : n = names
    OBVIOUS
  <2>2. \A i \in NumbersOf(n, CellName) : NameOf(n, i) \in CellName
    BY <2>1, NumbersName
  <2> QED BY <2>1, <2>2 DEF CellIds
<1> QED BY <1>1, <1>2, Zenon DEF NamedSet

\* What an agent acquires over numbers, it acquires over names.
LEMMA AcquireNamed ==
  ASSUME StoreNumbered, Dictionary(names), clock \in Nat,
         NEW a \in AgentIds, NEW C \in SUBSET CellIds
  PROVE  /\ {NamedFields(names, h) : h \in Pess!Acquire(a, C)} =
                NamedPess!Acquire(NameOf(names, a), NamedSet(names, C))
         /\ Pess!Acquire(a, C) \subseteq
                [cell : CellIds, agent : AgentIds, since : 0 .. clock]
<1> DEFINE free == C \ Pess!HeldCells
           new == [cell : free, agent : {a}, since : {clock}]
           named == [cell : NamedSet(names, C) \ NamedPess!HeldCells,
                     agent : {NameOf(names, a)}, since : {clock}]
<1>1. ASSUME NEW h \in holds
      PROVE  /\ h.cell \in CellIds /\ h.agent \in AgentIds
             /\ NamedFields(names, h).cell = NameOf(names, h.cell)
  <2>1. h \in [cell : CellIds, agent : AgentIds, since : 0 .. clock]
    BY DEF StoreNumbered
  <2> QED BY <2>1 DEF NamedFields
<1>2. Pess!HeldCells \in SUBSET CellIds
  BY <1>1 DEF Pess!HeldCells
<1>3. NamedPess!HeldCells = NamedSet(names, Pess!HeldCells)
  BY <1>1, Zenon DEF NamedPess!HeldCells, Pess!HeldCells, NamedHolds, NamedSet
<1>4. NamedSet(names, free) = NamedSet(names, C) \ NamedPess!HeldCells
  BY <1>2, <1>3, NamedDifference
<1>5. free \in SUBSET CellIds
  OBVIOUS
<1> HIDE DEF free
<1>6. ASSUME NEW h \in new
      PROVE  /\ NamedFields(names, h) = [cell |-> NameOf(names, h.cell),
                                        agent |-> NameOf(names, a), since |-> clock]
             /\ h.cell \in free
             /\ h \in [cell : CellIds, agent : AgentIds, since : 0 .. clock]
  BY <1>5 DEF NamedFields
<1>7. \A x : x \in named <=> \E h \in new : x = NamedFields(names, h)
  <2>1. ASSUME NEW h \in new PROVE NamedFields(names, h) \in named
    <3>1. NameOf(names, h.cell) \in NamedSet(names, free)
      BY <1>6 DEF NamedSet
    <3> QED BY <1>4, <1>6, <3>1
  <2>2. ASSUME NEW x \in named PROVE \E h \in new : x = NamedFields(names, h)
    <3>1. /\ x.cell \in NamedSet(names, free)
          /\ x = [cell |-> x.cell, agent |-> NameOf(names, a), since |-> clock]
      BY <1>4
    <3>2. PICK c \in free : x.cell = NameOf(names, c)
      BY <3>1 DEF NamedSet
    <3>3. [cell |-> c, agent |-> a, since |-> clock] \in new
      OBVIOUS
    <3>4. NamedFields(names, [cell |-> c, agent |-> a, since |-> clock]) = x
      BY <1>6, <3>1, <3>2, <3>3
    <3> QED BY <3>3, <3>4
  <2> HIDE DEF new, named
  <2> QED BY <2>1, <2>2
<1>8. Pess!Acquire(a, C) = holds \cup new
  BY DEF Pess!Acquire, free
<1>9. NamedPess!Acquire(NameOf(names, a), NamedSet(names, C)) = NamedHolds \cup named
  BY DEF NamedPess!Acquire
<1> HIDE DEF new, named
<1>10. \A h \in holds : h \in [cell : CellIds, agent : AgentIds, since : 0 .. clock]
  BY DEF StoreNumbered
<1> QED BY <1>6, <1>7, <1>8, <1>9, <1>10, Zenon DEF NamedHolds

\* An agent's name is an agent's.
LEMMA AgentNamed ==
  ASSUME Dictionary(names), NEW a \in AgentIds
  PROVE  NameOf(names, a) \in AgentName
<1>1. PICK n : n = names
  OBVIOUS
<1>2. \A i \in NumbersOf(n, AgentName) : NameOf(n, i) \in AgentName
  BY <1>1, NumbersName
<1> QED BY <1>1, <1>2 DEF AgentIds

\* A begin of the pessimistic store is one of the store over names.
LEMMA BeginNamed ==
  ASSUME AdapterInv, NEW a \in AgentIds, NEW C \in SUBSET CellIds,
         Pess!Begin(a, C), UNCHANGED << store, names >>
  PROVE  /\ NamedPess!Begin(NameOf(names, a), NamedSet(names, C))
         /\ StoreNumbered' /\ OneVersionATime'
<1>0. StoreNumbered /\ Dictionary(names) /\ clock \in Nat
  BY AdapterAssumption DEF AdapterInv, StoreNumbered
<1>1. holds' = Pess!Acquire(a, C) /\ UNCHANGED << versions, clock, trace >>
  BY DEF Pess!Begin
<1>2. NamedPess!CanBegin(NameOf(names, a), NamedSet(names, C))
  BY <1>0, HeldByOtherNamed DEF Pess!Begin, Pess!CanBegin, NamedPess!CanBegin
<1>3. NamedHolds' = NamedPess!Acquire(NameOf(names, a), NamedSet(names, C))
  <2>1. NamedHolds' = {NamedFields(names, h) : h \in Pess!Acquire(a, C)}
    BY <1>1 DEF NamedHolds
  <2> QED BY <1>0, <2>1, AcquireNamed
<1>4. NamedVersions' = NamedVersions /\ NamedTrace' = NamedTrace
  BY <1>1 DEF NamedVersions, NamedTrace
<1>5. NamedPess!Begin(NameOf(names, a), NamedSet(names, C))
  BY <1>1, <1>2, <1>3, <1>4 DEF NamedPess!Begin
<1>6. StoreNumbered'
  <2>1. CellIds' = CellIds /\ ValIds' = ValIds /\ AgentIds' = AgentIds
    BY DEF CellIds, ValIds, AgentIds
  <2>2. Pess!Acquire(a, C) \subseteq [cell : CellIds, agent : AgentIds, since : 0 .. clock]
    BY <1>0, AcquireNamed
  <2>3. holds' \subseteq [cell : CellIds', agent : AgentIds', since : 0 .. clock']
    BY <1>1, <2>1, <2>2
  <2> QED BY <1>0, <1>1, <2>1, <2>3 DEF StoreNumbered
<1>7. OneVersionATime'
  BY <1>1 DEF AdapterInv, OneVersionATime
<1> QED BY <1>5, <1>6, <1>7

-----------------------------------------------------------------------------
\* A step of the store over names, or none.
ViewNext == IF store = "pess" THEN NamedPess!Next ELSE NamedSI!Next

ViewStep == [ViewNext]_<< NamedPess!storeVars >>

\* A step that the store over names does not see is a step of it.
LEMMA UnseenIsStutter ==
  ASSUME Unseen
  PROVE  ViewStep
BY DEF Unseen, ViewStep, NamedPess!storeVars

\* A begin's second step reads, and takes the holds.
LEMMA BeginReadsKeeps ==
  ASSUME AdapterInv, NEW t \in Thread, BeginReads(t)
  PROVE  AdapterInv' /\ ViewStep
<1>0. StoreNumbered /\ Dictionary(names) /\ clock \in Nat /\ CallNumbered(t)
      /\ DOMAIN call = Thread
  BY AdapterAssumption DEF AdapterInv, StoreNumbered
<1>1. PICK k : k = call[t]
  OBVIOUS
<1>2. k.agent \in AgentIds /\ k.cells \in SUBSET CellIds
  BY <1>0, <1>1 DEF CallNumbered, BeginReads
<1>3. UNCHANGED << store, names, answer, versions, clock, trace >>
  BY DEF BeginReads, Pess!Begin, coreVars
<1>4. StoreNumbered' /\ OneVersionATime' /\ ViewStep
  <2>1. CASE store = "pess"
    <3>1. Pess!Begin(k.agent, k.cells)
      BY <1>1, <2>1 DEF BeginReads
    <3>2. /\ NamedPess!Begin(NameOf(names, k.agent), NamedSet(names, k.cells))
          /\ StoreNumbered' /\ OneVersionATime'
      BY <1>2, <1>3, <3>1, BeginNamed
    <3>3. NameOf(names, k.agent) \in AgentName /\ NamedSet(names, k.cells) \in SUBSET CellName
      BY <1>0, <1>2, AgentNamed, NamedDifference
    <3> QED BY <2>1, <3>2, <3>3 DEF ViewStep, ViewNext, NamedPess!Next
  <2>2. CASE store # "pess"
    <3>1. UNCHANGED coreVars
      BY <2>2 DEF BeginReads
    <3>2. StoreNumbered'
      BY <1>0, <1>3, <3>1 DEF StoreNumbered, coreVars, CellIds, ValIds, AgentIds
    <3>3. OneVersionATime'
      BY <3>1 DEF AdapterInv, OneVersionATime, coreVars
    <3>4. Unseen
      BY <1>3, <3>1 DEF Unseen, coreVars, NamedVersions, NamedHolds, NamedTrace
    <3> QED BY <3>2, <3>3, <3>4, UnseenIsStutter
  <2> QED BY <2>1, <2>2
<1>5. /\ DOMAIN call' = Thread /\ \A u \in Thread \ {t} : call'[u] = call[u]
      /\ call'[t].at = "name" /\ call'[t].time = clock
      /\ call'[t].values = [c \in k.cells |-> Pess!ValueOf(c)]
  BY <1>0, <1>1 DEF BeginReads, Now
<1>6. CallNumbered(t)'
  <2>1. PICK j : j = call'[t]
    OBVIOUS
  <2>2. /\ j.at = "name" /\ j.time = clock
        /\ j.values = [c \in k.cells |-> Pess!ValueOf(c)]
    BY <1>5, <2>1
  <2>3. DOMAIN j.values \subseteq CellIds' /\ j.time \in 0 .. clock'
    BY <1>0, <1>2, <1>3, <2>2 DEF CellIds
  <2>4. ASSUME NEW c \in DOMAIN j.values
        PROVE  /\ j.values[c] \in NumbersOf(names', ValName \cup {NullName})
               /\ NameOf(names', j.values[c]) = ValueAt(NameOf(names, c), j.time)'
    <3>1. j.values[c] = Pess!ValueOf(c) /\ c \in CellIds
      BY <1>2, <2>2
    <3>2. /\ Pess!ValueOf(c) \in NumbersOf(names, ValName \cup {NullName})
          /\ NameOf(names, Pess!ValueOf(c)) = ValueAt(NameOf(names, c), clock)
      BY <3>1, ReadIsNamed
    <3>3. ValueAt(NameOf(names, c), j.time)' = ValueAt(NameOf(names, c), clock)
      BY <1>3, <2>2 DEF ValueAt, NamedVersions
    <3> QED BY <1>3, <3>1, <3>2, <3>3
  <2> QED BY <2>1, <2>2, <2>3, <2>4, Zenon DEF CallNumbered
<1>7. ASSUME NEW u \in Thread PROVE call'[u] = call[u] \/ CallNumbered(u)'
  <2>1. CASE u = t
    BY <1>6, <2>1
  <2>2. CASE u # t
    BY <1>5, <2>2
  <2> QED BY <2>1, <2>2
<1>8. AdapterInv'
  BY <1>0, <1>3, <1>4, <1>5, <1>7, StoreStepKeeps
<1> QED BY <1>4, <1>8

\* A refused begin changes nothing but the call.
LEMMA BeginRefusedKeeps ==
  ASSUME AdapterInv, NEW t \in Thread, BeginRefused(t)
  PROVE  AdapterInv' /\ Unseen
<1>0. StoreNumbered /\ clock \in Nat /\ DOMAIN call = Thread
  BY AdapterAssumption DEF AdapterInv, StoreNumbered
<1>1. /\ UNCHANGED << store, names, answer, versions, clock, holds, trace >>
      /\ call' = [call EXCEPT ![t] = Idle]
  BY DEF BeginRefused, Now, coreVars
<1>2. StoreNumbered' /\ OneVersionATime'
  BY <1>0, <1>1 DEF AdapterInv, StoreNumbered, OneVersionATime, CellIds, ValIds, AgentIds
<1>3. CallNumbered(t)'
  <2>1. call'[t].at = "idle"
    BY <1>0, <1>1 DEF Idle
  <2> QED BY <2>1 DEF CallNumbered
<1>4. ASSUME NEW u \in Thread PROVE call'[u] = call[u] \/ CallNumbered(u)'
  <2>1. CASE u = t
    BY <1>3, <2>1
  <2>2. CASE u # t
    BY <1>1, <2>2
  <2> QED BY <2>1, <2>2
<1>5. DOMAIN call' = Thread
  BY <1>0, <1>1
<1>6. AdapterInv'
  BY <1>0, <1>1, <1>2, <1>4, <1>5, StoreStepKeeps
<1>7. Unseen
  BY <1>1 DEF Unseen, NamedVersions, NamedHolds, NamedTrace
<1> QED BY <1>6, <1>7

\* A begin's last step names what the second one read.
LEMMA BeginNamesKeeps ==
  ASSUME AdapterInv, NEW t \in Thread, BeginNames(t)
  PROVE  AdapterInv' /\ Unseen
<1>0. StoreNumbered /\ clock \in Nat /\ DOMAIN call = Thread /\ DOMAIN answer = Thread
      /\ Dictionary(names) /\ CallNumbered(t)
  BY AdapterAssumption DEF AdapterInv, StoreNumbered
<1>1. PICK k : k = call[t]
  OBVIOUS
<1>2. /\ UNCHANGED << store, names, versions, clock, holds, trace >>
      /\ call' = [call EXCEPT ![t] = Idle]
      /\ answer' = [answer EXCEPT ![t] = [values |-> Named(names, k.values),
                                          time |-> k.time]]
      /\ k.at = "name"
  BY <1>1 DEF BeginNames, Now, coreVars
<1>3. StoreNumbered' /\ OneVersionATime' /\ Dictionary(names)' /\ Grows(names, names')
  BY <1>0, <1>2 DEF AdapterInv, StoreNumbered, OneVersionATime, CellIds, ValIds, AgentIds,
                    Grows
<1>4. \A c, rt : ValueAt(c, rt)' = ValueAt(c, rt)
  BY <1>2 DEF ValueAt, NamedVersions
<1>5. CallNumbered(t)'
  <2>1. call'[t].at = "idle"
    BY <1>0, <1>2 DEF Idle
  <2> QED BY <2>1 DEF CallNumbered
<1>6. AnswerKnown(t)'
  <2>1. PICK s : s = answer'[t]
    OBVIOUS
  <2>2. s.values = Named(names, k.values) /\ s.time = k.time
    BY <1>0, <1>2, <2>1
  <2>3. /\ k.time \in 0 .. clock /\ DOMAIN k.values \subseteq CellIds
        /\ \A c \in DOMAIN k.values :
              NameOf(names, k.values[c]) = ValueAt(NameOf(names, c), k.time)
    BY <1>0, <1>1, <1>2, Zenon DEF CallNumbered
  <2>4. PICK n : n = names
    OBVIOUS
  <2>5. \A i \in NumbersOf(n, CellName) : NameOf(n, i) \in CellName /\ n.to[NameOf(n, i)] = i
    BY <1>0, <2>4, NumbersName
  <2>6. ASSUME NEW c \in DOMAIN s.values
        PROVE  c \in CellName /\ s.values[c] = ValueAt(c, s.time)
    <3>1. PICK i \in DOMAIN k.values : c = NameOf(names, i)
      BY <2>2 DEF Named
    <3>2. names.to[c] = i /\ c \in CellName
      BY <2>3, <2>4, <2>5, <3>1 DEF CellIds
    <3>3. s.values[c] = NameOf(names, k.values[i])
      BY <2>2, <3>1, <3>2 DEF Named
    <3> QED BY <2>2, <2>3, <3>1, <3>2, <3>3, Zenon
  <2>7. s.time \in 0 .. clock'
    BY <1>2, <2>2, <2>3
  <2>8. \A c \in DOMAIN s.values : s.values[c] = ValueAt(c, s.time)'
    BY <1>4, <2>6, Zenon
  <2> QED BY <2>1, <2>6, <2>7, <2>8, Zenon DEF AnswerKnown
<1>7. ASSUME NEW u \in Thread
      PROVE  \/ call'[u] = call[u] /\ answer'[u] = answer[u]
             \/ CallNumbered(u)' /\ AnswerKnown(u)'
  <2>1. CASE u = t
    BY <1>5, <1>6, <2>1
  <2>2. CASE u # t
    BY <1>2, <2>2
  <2> QED BY <2>1, <2>2
<1>8. DOMAIN call' = Thread /\ DOMAIN answer' = Thread /\ clock' = clock
  BY <1>0, <1>2
<1>9. AdapterInv'
  BY <1>0, <1>2, <1>3, <1>4, <1>7, <1>8, OthersKept
<1>10. Unseen
  BY <1>2 DEF Unseen, NamedVersions, NamedHolds, NamedTrace
<1> QED BY <1>9, <1>10

-----------------------------------------------------------------------------
\* A step that ends a thread's call and changes the store of one version set.
LEMMA CallEnds ==
  ASSUME AdapterInv, NEW t \in Thread, Now(t, Idle), UNCHANGED << store, names, answer >>,
         StoreNumbered', OneVersionATime', clock' \in Nat, clock <= clock',
         versions \subseteq versions', \A v \in versions' \ versions : v.time = clock + 1
  PROVE  AdapterInv'
<1>1. DOMAIN call = Thread /\ call' = [call EXCEPT ![t] = Idle]
  BY DEF AdapterInv, Now
<1>2. CallNumbered(t)'
  <2>1. call'[t].at = "idle"
    BY <1>1 DEF Idle
  <2> QED BY <2>1 DEF CallNumbered
<1>3. ASSUME NEW u \in Thread PROVE call'[u] = call[u] \/ CallNumbered(u)'
  <2>1. CASE u = t
    BY <1>2, <2>1
  <2>2. CASE u # t
    BY <1>1, <2>2
  <2> QED BY <2>1, <2>2
<1>4. DOMAIN call' = Thread
  BY <1>1
<1> QED BY <1>3, <1>4, StoreStepKeeps

\* A release drops over names what it drops over numbers.
LEMMA ReleasesKeeps ==
  ASSUME AdapterInv, NEW t \in Thread, Releases(t)
  PROVE  AdapterInv' /\ ViewStep
<1>0. StoreNumbered /\ Dictionary(names) /\ clock \in Nat /\ CallNumbered(t)
  BY AdapterAssumption DEF AdapterInv, StoreNumbered
<1>1. PICK a : a = call[t].agent
  OBVIOUS
<1>2. a \in AgentIds /\ store = "pess"
  BY <1>0, <1>1 DEF CallNumbered, Releases
<1>3. /\ UNCHANGED << store, names, answer, versions, clock, trace >>
      /\ holds' = {h \in holds : h.agent # a} /\ Now(t, Idle)
  BY <1>1 DEF Releases, Pess!Release
<1>4. ASSUME NEW h \in holds
      PROVE  /\ NamedFields(names, h).agent = NameOf(names, h.agent)
             /\ h.agent = a <=> NameOf(names, h.agent) = NameOf(names, a)
  <2>1. h \in [cell : CellIds, agent : AgentIds, since : 0 .. clock]
    BY <1>0 DEF StoreNumbered
  <2>2. h.agent \in AgentIds
    BY <2>1
  <2>3. NameOf(names, h.agent) = NameOf(names, a) => h.agent = a
    BY <1>0, <1>2, <2>2, OneNumber DEF AgentIds
  <2> QED BY <2>1, <2>3 DEF NamedFields
<1>5. NamedHolds' = {h \in NamedHolds : h.agent # NameOf(names, a)}
  <2>1. NamedHolds' = {NamedFields(names, h) : h \in {g \in holds : g.agent # a}}
    BY <1>3 DEF NamedHolds
  <2> QED BY <1>4, <2>1, Zenon DEF NamedHolds
<1>6. NamedPess!Release(NameOf(names, a))
  BY <1>3, <1>5 DEF NamedPess!Release, NamedVersions, NamedTrace
<1>7. NameOf(names, a) \in AgentName
  BY <1>0, <1>2, AgentNamed
<1>8. ViewStep
  BY <1>2, <1>6, <1>7 DEF ViewStep, ViewNext, NamedPess!Next
<1>9. StoreNumbered' /\ OneVersionATime'
  BY <1>0, <1>3 DEF AdapterInv, StoreNumbered, OneVersionATime, CellIds, ValIds, AgentIds
<1>10. AdapterInv'
  BY <1>0, <1>3, <1>9, CallEnds
<1> QED BY <1>8, <1>10

-----------------------------------------------------------------------------
\* A version over numbers that a commit adds, and the one it is over names.
Written(a, writes) ==
  {[cell |-> c, time |-> clock + 1, val |-> writes[c], agent |-> a] : c \in DOMAIN writes}

WrittenUnowned(writes) ==
  {[cell |-> c, time |-> clock + 1, val |-> writes[c]] : c \in DOMAIN writes}

\* The writes of a commit, over names.
LEMMA WritesNamed ==
  ASSUME Dictionary(names), NEW D \in SUBSET CellIds, NEW w \in [D -> ValIds]
  PROVE  /\ Named(names, w) \in [NamedSet(names, D) -> ValName]
         /\ NamedSet(names, D) \in SUBSET CellName
         /\ \A c \in D : Named(names, w)[NameOf(names, c)] = NameOf(names, w[c])
<1>1. PICK n : n = names
  OBVIOUS
<1>2. D \in SUBSET NumbersOf(n, CellName) /\ w \in [D -> NumbersOf(n, ValName)]
  BY <1>1 DEF CellIds, ValIds
<1>3. \A c \in D : n.to[NameOf(n, c)] = c
  BY <1>1, <1>2, NumbersName
<1>4. \A c \in D : NameOf(n, w[c]) \in ValName
  BY <1>1, <1>2, NumbersName
<1>5. DOMAIN Named(n, w) = NamedSet(n, D)
  BY <1>2 DEF Named, NamedSet
<1>6. \A c \in D : Named(n, w)[NameOf(n, c)] = NameOf(n, w[c])
  BY <1>2, <1>3 DEF Named
<1>7. \A s \in NamedSet(n, D) : Named(n, w)[s] \in ValName
  BY <1>4, <1>6, Zenon DEF NamedSet
<1>8. Named(n, w) = [s \in DOMAIN Named(n, w) |-> Named(n, w)[s]]
  BY DEF Named
<1>9. Named(n, w) \in [NamedSet(n, D) -> ValName]
  BY <1>5, <1>7, <1>8
<1>10. NamedSet(names, D) \in SUBSET CellName
  BY NamedDifference
<1> QED BY <1>1, <1>6, <1>9, <1>10

\* A commit of the pessimistic store is one of the store over names.
LEMMA PessCommitNamed ==
  ASSUME AdapterInv, store = "pess", UNCHANGED << store, names >>,
         NEW a \in AgentIds, NEW rt \in 0 .. clock, NEW C \in SUBSET CellIds,
         NEW D \in SUBSET CellIds, NEW w \in [D -> ValIds], Pess!Commit(a, rt, C, w)
  PROVE  /\ NamedPess!Commit(NameOf(names, a), rt, NamedSet(names, C), Named(names, w))
         /\ StoreNumbered' /\ OneVersionATime'
         /\ clock' = clock + 1 /\ versions \subseteq versions'
         /\ \A v \in versions' \ versions : v.time = clock + 1
<1> DEFINE new == Written(a, w)
           named == {[cell |-> c, time |-> clock + 1, val |-> Named(names, w)[c],
                      agent |-> NameOf(names, a)] : c \in DOMAIN Named(names, w)}
           rec == [agent |-> a, readCells |-> C, readTime |-> rt,
                   writeCells |-> D, writeTime |-> clock + 1]
<1>0. StoreNumbered /\ Dictionary(names) /\ clock \in Nat /\ MaxClock \in Nat
  BY AdapterAssumption DEF AdapterInv, StoreNumbered
<1>1. /\ Named(names, w) \in [NamedSet(names, D) -> ValName]
      /\ \A c \in D : Named(names, w)[NameOf(names, c)] = NameOf(names, w[c])
      /\ DOMAIN Named(names, w) = NamedSet(names, D) /\ DOMAIN w = D
  BY <1>0, WritesNamed
<1>2. /\ clock' = clock + 1 /\ holds' = Pess!Acquire(a, D)
      /\ versions' = versions \cup new /\ trace' = trace \cup {rec}
      /\ Pess!CanCommit(a, rt, C, D)
  BY <1>1 DEF Pess!Commit, Written
<1>3. clock < MaxClock /\ Pess!AllHeldSince(a, C, rt) /\ ~ Pess!HeldByOther(a, D)
  BY <1>2 DEF Pess!CanCommit
<1>4. ~ NamedPess!HeldByOther(NameOf(names, a), NamedSet(names, D))
  BY <1>0, <1>3, HeldByOtherNamed
<1>5. NamedPess!AllHeldSince(NameOf(names, a), NamedSet(names, C), rt)
  <2>1. ASSUME NEW c \in C
        PROVE  \E h \in NamedHolds : /\ h.cell = NameOf(names, c)
                                     /\ h.agent = NameOf(names, a) /\ h.since <= rt
    <3>1. PICK h \in holds : h.cell = c /\ h.agent = a /\ h.since <= rt
      BY <1>3 DEF Pess!AllHeldSince
    <3>2. h \in [cell : CellIds, agent : AgentIds, since : 0 .. clock]
      BY <1>0 DEF StoreNumbered
    <3>3. /\ NamedFields(names, h).cell = NameOf(names, c)
          /\ NamedFields(names, h).agent = NameOf(names, a)
          /\ NamedFields(names, h).since <= rt
      BY <3>1, <3>2 DEF NamedFields
    <3> QED BY <3>3 DEF NamedHolds
  <2> QED BY <2>1, Zenon DEF NamedPess!AllHeldSince, NamedSet
<1>6. NamedPess!CanCommit(NameOf(names, a), rt, NamedSet(names, C), NamedSet(names, D))
  BY <1>0, <1>3, <1>4, <1>5 DEF NamedPess!CanCommit
<1>7. NamedHolds' = NamedPess!Acquire(NameOf(names, a), NamedSet(names, D))
  <2>1. NamedHolds' = {NamedFields(names, h) : h \in Pess!Acquire(a, D)}
    BY <1>2 DEF NamedHolds
  <2> QED BY <1>0, <2>1, AcquireNamed
<1>8. ASSUME NEW c \in D
      PROVE  LET v == [cell |-> c, time |-> clock + 1, val |-> w[c], agent |-> a] IN
             /\ NamedFields(names, v) =
                  [cell |-> NameOf(names, c), time |-> clock + 1,
                   val |-> Named(names, w)[NameOf(names, c)], agent |-> NameOf(names, a)]
             /\ v \in new
  BY <1>1 DEF NamedFields, Written
<1>9. {NamedFields(names, v) : v \in new} = named
  <2>1. ASSUME NEW v \in new PROVE NamedFields(names, v) \in named
    <3>1. PICK c \in D : v = [cell |-> c, time |-> clock + 1, val |-> w[c], agent |-> a]
      BY <1>1 DEF Written
    <3>2. NameOf(names, c) \in DOMAIN Named(names, w)
      BY <1>1 DEF NamedSet
    <3> QED BY <1>8, <3>1, <3>2
  <2>2. ASSUME NEW x \in named PROVE \E v \in new : x = NamedFields(names, v)
    <3>1. PICK e \in NamedSet(names, D) :
             x = [cell |-> e, time |-> clock + 1, val |-> Named(names, w)[e],
                  agent |-> NameOf(names, a)]
      BY <1>1
    <3>2. PICK c \in D : e = NameOf(names, c)
      BY DEF NamedSet
    <3> QED BY <1>8, <3>1, <3>2
  <2> HIDE DEF new, named
  <2> QED BY <2>1, <2>2, Zenon
<1>10. NamedVersions' = NamedVersions \cup named
  <2>1. NamedVersions' = {NamedFields(names, v) : v \in versions \cup new}
    BY <1>2 DEF NamedVersions
  <2> HIDE DEF new, named
  <2> QED BY <1>9, <2>1, Zenon DEF NamedVersions
<1>11. NamedTrace' = NamedTrace \cup
         {[agent |-> NameOf(names, a), readCells |-> NamedSet(names, C), readTime |-> rt,
           writeCells |-> NamedSet(names, D), writeTime |-> clock + 1]}
  <2>1. NamedTrace' = {NamedRecord(names, r) : r \in trace \cup {rec}}
    BY <1>2 DEF NamedTrace
  <2>2. NamedRecord(names, rec) =
          [agent |-> NameOf(names, a), readCells |-> NamedSet(names, C), readTime |-> rt,
           writeCells |-> NamedSet(names, D), writeTime |-> clock + 1]
    BY DEF NamedRecord
  <2> HIDE DEF rec
  <2> QED BY <2>1, <2>2, Zenon DEF NamedTrace
<1>12. NamedPess!Commit(NameOf(names, a), rt, NamedSet(names, C), Named(names, w))
  BY <1>1, <1>2, <1>6, <1>7, <1>10, <1>11 DEF NamedPess!Commit
<1>13. \A v \in new : /\ v \in [cell : CellIds, time : {clock + 1}, val : ValIds,
                               agent : AgentIds]
                      /\ v.val = w[v.cell] /\ v.agent = a
  BY <1>1 DEF Written
<1> HIDE DEF new
<1>14. ASSUME NEW v \in versions
       PROVE  v \in [cell : CellIds, time : 1 .. clock, val : ValIds, agent : AgentIds]
  BY <1>0 DEF StoreNumbered
<1>15. StoreNumbered'
  <2>1. CellIds' = CellIds /\ ValIds' = ValIds /\ AgentIds' = AgentIds
    BY DEF CellIds, ValIds, AgentIds
  <2>2. clock' \in 0 .. MaxClock
    BY <1>0, <1>2, <1>3
  <2>3. holds' \subseteq [cell : CellIds', agent : AgentIds', since : 0 .. clock']
    <3>1. holds' \subseteq [cell : CellIds, agent : AgentIds, since : 0 .. clock]
      BY <1>0, <1>2, AcquireNamed
    <3> QED BY <1>0, <1>2, <2>1, <3>1
  <2>4. \A v \in versions' :
          v \in [cell : CellIds', time : 1 .. clock', val : ValIds', agent : AgentIds']
    BY <1>0, <1>2, <1>13, <1>14, <2>1
  <2>5. trace' \subseteq [agent : AgentIds' \cup {0}, readCells : SUBSET CellIds',
                         readTime : 0 .. clock', writeCells : SUBSET CellIds',
                         writeTime : 0 .. clock']
    <3>1. trace \subseteq [agent : AgentIds \cup {0}, readCells : SUBSET CellIds,
                         readTime : 0 .. clock, writeCells : SUBSET CellIds,
                         writeTime : 0 .. clock]
      BY <1>0 DEF StoreNumbered
    <3> QED BY <1>0, <1>2, <2>1, <3>1
  <2> QED BY <2>2, <2>3, <2>4, <2>5 DEF StoreNumbered
<1>16. OneVersionATime'
  <2>1. \A v, u \in versions : v.cell = u.cell /\ v.time = u.time => v = u
    BY DEF AdapterInv, OneVersionATime
  <2>2. \A v \in versions : v.time < clock + 1
    BY <1>0, <1>14
  <2>3. \A v, u \in new : v.cell = u.cell => v = u
    BY <1>13
  <2>4. ASSUME NEW v \in versions', NEW u \in versions', v.cell = u.cell, v.time = u.time
        PROVE  v = u
    BY <1>0, <1>2, <1>13, <2>1, <2>2, <2>3, <2>4
  <2> QED BY <2>4 DEF OneVersionATime
<1>17. \A v \in versions' \ versions : v.time = clock + 1
  BY <1>2, <1>13
<1> QED BY <1>2, <1>12, <1>15, <1>16, <1>17

\* A commit or tick of the snapshot-isolation store is one of the store over
\* names; agent 0 is called NULL.
LEMMA SICommitNamed ==
  ASSUME AdapterInv, store # "pess", UNCHANGED << store, names, holds >>,
         NEW a \in AgentIds \cup {0}, NEW rt \in 0 .. clock, NEW C \in SUBSET CellIds,
         NEW D \in SUBSET CellIds, NEW w \in [D -> ValIds], SI!Commit(a, rt, C, w)
  PROVE  /\ NamedSI!Commit(NameOf(names, a), rt, NamedSet(names, C), Named(names, w))
         /\ StoreNumbered' /\ OneVersionATime'
         /\ clock' = clock + 1 /\ versions \subseteq versions'
         /\ \A v \in versions' \ versions : v.time = clock + 1
<1> DEFINE new == WrittenUnowned(w)
           named == {[cell |-> c, time |-> clock + 1, val |-> Named(names, w)[c]] :
                        c \in DOMAIN Named(names, w)}
           rec == [agent |-> a, readCells |-> C, readTime |-> rt,
                   writeCells |-> D, writeTime |-> clock + 1]
<1>0. StoreNumbered /\ Dictionary(names) /\ clock \in Nat /\ MaxClock \in Nat
  BY AdapterAssumption DEF AdapterInv, StoreNumbered
<1>1. /\ Named(names, w) \in [NamedSet(names, D) -> ValName]
      /\ \A c \in D : Named(names, w)[NameOf(names, c)] = NameOf(names, w[c])
      /\ DOMAIN Named(names, w) = NamedSet(names, D) /\ DOMAIN w = D
  BY <1>0, WritesNamed
<1>2. /\ clock' = clock + 1
      /\ versions' = versions \cup new /\ trace' = trace \cup {rec}
      /\ SI!CanCommit(rt, C, D)
  BY <1>1 DEF SI!Commit, WrittenUnowned
<1>3. clock < MaxClock /\ SI!Validates(C, D, rt)
  BY <1>2 DEF SI!CanCommit
<1>4. NamedSI!Validates(NamedSet(names, C), NamedSet(names, D), rt)
  <2>1. ASSUME NEW v \in versions,
               NamedFields(names, v).cell \in NamedSet(names, C)
        PROVE  NamedFields(names, v).time <= rt
    <3>1. /\ v.cell \in CellIds /\ NamedFields(names, v).cell = NameOf(names, v.cell)
          /\ NamedFields(names, v).time = v.time
      BY <1>0, VersionView
    <3>2. v.cell \in C
      <4>1. \A c \in CellIds : c \in C <=> NameOf(names, c) \in NamedSet(names, C)
        BY <1>0, NamedDifference
      <4> QED BY <2>1, <3>1, <4>1, Zenon
    <3> QED BY <1>3, <3>1, <3>2 DEF SI!Validates
  <2> QED BY <2>1, Zenon DEF NamedSI!Validates, NamedVersions
<1>5. NamedSI!CanCommit(rt, NamedSet(names, C), NamedSet(names, D))
  BY <1>0, <1>3, <1>4 DEF NamedSI!CanCommit
<1>6. ASSUME NEW c \in D
      PROVE  LET v == [cell |-> c, time |-> clock + 1, val |-> w[c]] IN
             /\ NamedFields(names, v) =
                  [cell |-> NameOf(names, c), time |-> clock + 1,
                   val |-> Named(names, w)[NameOf(names, c)]]
             /\ v \in new
  BY <1>1 DEF NamedFields, WrittenUnowned
<1>7. {NamedFields(names, v) : v \in new} = named
  <2>1. ASSUME NEW v \in new PROVE NamedFields(names, v) \in named
    <3>1. PICK c \in D : v = [cell |-> c, time |-> clock + 1, val |-> w[c]]
      BY <1>1 DEF WrittenUnowned
    <3>2. NameOf(names, c) \in DOMAIN Named(names, w)
      BY <1>1 DEF NamedSet
    <3> QED BY <1>6, <3>1, <3>2
  <2>2. ASSUME NEW x \in named PROVE \E v \in new : x = NamedFields(names, v)
    <3>1. PICK e \in NamedSet(names, D) :
             x = [cell |-> e, time |-> clock + 1, val |-> Named(names, w)[e]]
      BY <1>1
    <3>2. PICK c \in D : e = NameOf(names, c)
      BY DEF NamedSet
    <3> QED BY <1>6, <3>1, <3>2
  <2> HIDE DEF new, named
  <2> QED BY <2>1, <2>2, Zenon
<1>8. NamedVersions' = NamedVersions \cup named
  <2>1. NamedVersions' = {NamedFields(names, v) : v \in versions \cup new}
    BY <1>2 DEF NamedVersions
  <2> HIDE DEF new, named
  <2> QED BY <1>7, <2>1, Zenon DEF NamedVersions
<1>9. NamedTrace' = NamedTrace \cup
         {[agent |-> NameOf(names, a), readCells |-> NamedSet(names, C), readTime |-> rt,
           writeCells |-> NamedSet(names, D), writeTime |-> clock + 1]}
  <2>1. NamedTrace' = {NamedRecord(names, r) : r \in trace \cup {rec}}
    BY <1>2 DEF NamedTrace
  <2>2. NamedRecord(names, rec) =
          [agent |-> NameOf(names, a), readCells |-> NamedSet(names, C), readTime |-> rt,
           writeCells |-> NamedSet(names, D), writeTime |-> clock + 1]
    BY DEF NamedRecord
  <2> HIDE DEF rec
  <2> QED BY <2>1, <2>2, Zenon DEF NamedTrace
<1>10. NamedSI!Commit(NameOf(names, a), rt, NamedSet(names, C), Named(names, w))
  BY <1>1, <1>2, <1>5, <1>8, <1>9 DEF NamedSI!Commit
<1>11. \A v \in new : /\ v \in [cell : CellIds, time : {clock + 1}, val : ValIds]
                      /\ v.val = w[v.cell]
  BY <1>1 DEF WrittenUnowned
<1> HIDE DEF new
<1>12. ASSUME NEW v \in versions
       PROVE  v \in [cell : CellIds, time : 1 .. clock, val : ValIds]
  BY <1>0 DEF StoreNumbered
<1>13. StoreNumbered'
  <2>1. CellIds' = CellIds /\ ValIds' = ValIds /\ AgentIds' = AgentIds
    BY DEF CellIds, ValIds, AgentIds
  <2>2. clock' \in 0 .. MaxClock
    BY <1>0, <1>2, <1>3
  <2>3. holds' \subseteq [cell : CellIds', agent : AgentIds', since : 0 .. clock']
    <3>1. holds \subseteq [cell : CellIds, agent : AgentIds, since : 0 .. clock]
      BY <1>0 DEF StoreNumbered
    <3> QED BY <1>0, <1>2, <2>1, <3>1
  <2>4. \A v \in versions' :
          v \in [cell : CellIds', time : 1 .. clock', val : ValIds']
    BY <1>0, <1>2, <1>11, <1>12, <2>1
  <2>5. trace' \subseteq [agent : AgentIds' \cup {0}, readCells : SUBSET CellIds',
                         readTime : 0 .. clock', writeCells : SUBSET CellIds',
                         writeTime : 0 .. clock']
    <3>1. trace \subseteq [agent : AgentIds \cup {0}, readCells : SUBSET CellIds,
                         readTime : 0 .. clock, writeCells : SUBSET CellIds,
                         writeTime : 0 .. clock]
      BY <1>0 DEF StoreNumbered
    <3> QED BY <1>0, <1>2, <2>1, <3>1
  <2> QED BY <2>2, <2>3, <2>4, <2>5 DEF StoreNumbered
<1>14. OneVersionATime'
  <2>1. \A v, u \in versions : v.cell = u.cell /\ v.time = u.time => v = u
    BY DEF AdapterInv, OneVersionATime
  <2>2. \A v \in versions : v.time < clock + 1
    BY <1>0, <1>12
  <2>3. \A v, u \in new : v.cell = u.cell => v = u
    BY <1>11
  <2>4. ASSUME NEW v \in versions', NEW u \in versions', v.cell = u.cell, v.time = u.time
        PROVE  v = u
    BY <1>0, <1>2, <1>11, <2>1, <2>2, <2>3, <2>4
  <2> QED BY <2>4 DEF OneVersionATime
<1>15. \A v \in versions' \ versions : v.time = clock + 1
  BY <1>2, <1>11
<1> QED BY <1>2, <1>10, <1>13, <1>14, <1>15

\* Agent 0 is called NULL.
LEMMA ZeroIsNull ==
  ASSUME AdapterInv
  PROVE  NameOf(names, 0) = NullName
BY DEF AdapterInv, Dictionary

\* A tick of the snapshot-isolation store.
LEMMA SITickNamed ==
  ASSUME AdapterInv, store # "pess", UNCHANGED << store, names, holds >>, SI!Tick
  PROVE  /\ NamedSI!Tick
         /\ StoreNumbered' /\ OneVersionATime'
         /\ clock' \in Nat /\ clock <= clock' /\ versions \subseteq versions'
         /\ \A v \in versions' \ versions : v.time = clock + 1
<1>0. StoreNumbered /\ clock \in Nat
  BY AdapterAssumption DEF AdapterInv, StoreNumbered
<1>1. CASE clock = MaxClock
  <2>1. UNCHANGED << versions, clock, trace >>
    BY <1>1 DEF SI!Tick, SI!storeVars
  <2>2. StoreNumbered' /\ OneVersionATime'
    BY <1>0, <2>1 DEF AdapterInv, StoreNumbered, OneVersionATime, CellIds, ValIds, AgentIds
  <2>3. UNCHANGED << NamedVersions, clock, NamedTrace >>
    BY <2>1 DEF NamedVersions, NamedTrace
  <2>4. NamedSI!Tick
    BY <1>1, <2>3 DEF NamedSI!Tick, NamedSI!storeVars
  <2> QED BY <1>0, <2>1, <2>2, <2>4
<1>2. CASE clock # MaxClock
  <2> DEFINE w == [c \in {} |-> 0]
  <2>1. SI!Commit(0, 0, {}, w)
    BY <1>2 DEF SI!Tick
  <2>2. /\ 0 \in AgentIds \cup {0} /\ 0 \in 0 .. clock /\ {} \in SUBSET CellIds
        /\ w \in [{} -> ValIds]
    BY <1>0
  <2>3. NamedSet(names, {}) = {} /\ Named(names, w) = [c \in {} |-> NullName]
    BY DEF NamedSet, Named
  <2> HIDE DEF w
  <2>4. /\ NamedSI!Commit(NameOf(names, 0), 0, NamedSet(names, {}), Named(names, w))
        /\ StoreNumbered' /\ OneVersionATime'
        /\ clock' = clock + 1 /\ versions \subseteq versions'
        /\ \A v \in versions' \ versions : v.time = clock + 1
    BY <2>1, <2>2, SICommitNamed
  <2>5. NamedSI!Tick
    BY <1>2, <2>3, <2>4, ZeroIsNull DEF NamedSI!Tick
  <2> QED BY <1>0, <2>4, <2>5
<1> QED BY <1>1, <1>2

\* A commit's second step is a commit of the store over names, or refused.
LEMMA CommitsKeeps ==
  ASSUME AdapterInv, NEW t \in Thread, Commits(t)
  PROVE  AdapterInv' /\ ViewStep
<1>0. /\ StoreNumbered /\ Dictionary(names) /\ clock \in Nat /\ CallNumbered(t)
      /\ MaxClock \in Nat
  BY AdapterAssumption DEF AdapterInv, StoreNumbered
<1>1. PICK k : k = call[t]
  OBVIOUS
<1>2. /\ k.agent \in AgentIds /\ k.time \in 0 .. clock /\ k.cells \in SUBSET CellIds
      /\ \E D \in SUBSET CellIds : k.writes \in [D -> ValIds]
  <2>1. k.at = "commit"
    BY <1>1 DEF Commits
  <2> QED BY <1>0, <1>1, <2>1, Zenon DEF CallNumbered
<1>3. PICK D \in SUBSET CellIds : k.writes \in [D -> ValIds]
  BY <1>2
<1>4. UNCHANGED << store, names, answer >> /\ Now(t, Idle)
  BY DEF Commits
<1>5. /\ NameOf(names, k.agent) \in AgentName /\ k.time \in 0 .. MaxClock
      /\ NamedSet(names, k.cells) \in SUBSET CellName
      /\ NamedSet(names, D) \in SUBSET CellName
      /\ Named(names, k.writes) \in [NamedSet(names, D) -> ValName]
  <2>1. k.time \in 0 .. MaxClock
    BY <1>0, <1>2 DEF StoreNumbered
  <2> QED BY <1>0, <1>2, <1>3, <2>1, AgentNamed, NamedDifference, WritesNamed
<1>6. CASE UNCHANGED coreVars
  <2>1. StoreNumbered' /\ OneVersionATime'
    BY <1>0, <1>4, <1>6 DEF AdapterInv, StoreNumbered, OneVersionATime, CellIds, ValIds,
                            AgentIds, coreVars
  <2>2. clock' \in Nat /\ clock <= clock' /\ versions' = versions
    BY <1>0, <1>6 DEF coreVars
  <2>3. Unseen
    BY <1>4, <1>6 DEF Unseen, NamedVersions, NamedHolds, NamedTrace, coreVars
  <2> QED BY <1>4, <2>1, <2>2, <2>3, CallEnds, UnseenIsStutter
<1>7. CASE store = "pess" /\ Pess!Commit(k.agent, k.time, k.cells, k.writes)
  <2>1. /\ NamedPess!Commit(NameOf(names, k.agent), k.time, NamedSet(names, k.cells),
                            Named(names, k.writes))
        /\ StoreNumbered' /\ OneVersionATime'
        /\ clock' = clock + 1 /\ versions \subseteq versions'
        /\ \A v \in versions' \ versions : v.time = clock + 1
    BY <1>2, <1>3, <1>4, <1>7, PessCommitNamed
  <2>2. AdapterInv'
    BY <1>0, <1>4, <2>1, CallEnds
  <2>3. ViewStep
    BY <1>5, <1>7, <2>1 DEF ViewStep, ViewNext, NamedPess!Next, NamedPess!Time
  <2> QED BY <2>2, <2>3
<1>8. CASE /\ store # "pess" /\ SI!Commit(k.agent, k.time, k.cells, k.writes)
           /\ UNCHANGED holds
  <2>1. /\ NamedSI!Commit(NameOf(names, k.agent), k.time, NamedSet(names, k.cells),
                          Named(names, k.writes))
        /\ StoreNumbered' /\ OneVersionATime'
        /\ clock' = clock + 1 /\ versions \subseteq versions'
        /\ \A v \in versions' \ versions : v.time = clock + 1
    BY <1>2, <1>3, <1>4, <1>8, SICommitNamed
  <2>2. AdapterInv'
    BY <1>0, <1>4, <2>1, CallEnds
  <2>3. ViewStep
    BY <1>5, <1>8, <2>1 DEF ViewStep, ViewNext, NamedSI!Next, NamedSI!Time
  <2> QED BY <2>2, <2>3
<1> QED BY <1>1, <1>6, <1>7, <1>8 DEF Commits

\* A commit without writes, in default mode, is a tick.
LEMMA CommitTicksKeeps ==
  ASSUME AdapterInv, SI!Tick, store # "pess", UNCHANGED << store, holds, names, call, answer >>
  PROVE  AdapterInv' /\ ViewStep
<1>1. /\ NamedSI!Tick
      /\ StoreNumbered' /\ OneVersionATime'
      /\ clock' \in Nat /\ clock <= clock' /\ versions \subseteq versions'
      /\ \A v \in versions' \ versions : v.time = clock + 1
  BY SITickNamed
<1>2. DOMAIN call' = Thread
  BY DEF AdapterInv
<1>3. AdapterInv'
  BY <1>1, <1>2, StoreStepKeeps
<1>4. ViewStep
  BY <1>1 DEF ViewStep, ViewNext, NamedSI!Next
<1> QED BY <1>3, <1>4

\* A tick of either store is one of the store over names.
LEMMA AdapterTickKeeps ==
  ASSUME AdapterInv, AdapterTick
  PROVE  AdapterInv' /\ ViewStep
<1>1. CASE store = "pess"
  <2>0. StoreNumbered /\ clock \in Nat /\ MaxClock \in Nat /\ DOMAIN call = Thread
    BY AdapterAssumption DEF AdapterInv, StoreNumbered
  <2>1. /\ clock < MaxClock /\ clock' = clock + 1
        /\ UNCHANGED << versions, holds, trace, store, names, call, answer >>
    BY <1>1 DEF AdapterTick, Pess!Tick
  <2>2. StoreNumbered'
    <3>1. /\ CellIds' = CellIds /\ ValIds' = ValIds /\ AgentIds' = AgentIds
          /\ clock' \in 0 .. MaxClock
      BY <2>0, <2>1 DEF CellIds, ValIds, AgentIds
    <3>2. 1 .. clock \subseteq 1 .. clock' /\ 0 .. clock \subseteq 0 .. clock'
      BY <2>0, <2>1
    <3> QED BY <1>1, <2>0, <2>1, <3>1, <3>2 DEF StoreNumbered
  <2>3. OneVersionATime'
    BY <2>1 DEF AdapterInv, OneVersionATime
  <2>4. AdapterInv'
    BY <2>0, <2>1, <2>2, <2>3, StoreStepKeeps
  <2>5. NamedPess!Tick
    BY <2>1 DEF NamedPess!Tick, NamedVersions, NamedHolds, NamedTrace
  <2>6. ViewStep
    BY <1>1, <2>5 DEF ViewStep, ViewNext, NamedPess!Next
  <2> QED BY <2>4, <2>6
<1>2. CASE store # "pess"
  BY <1>2, CommitTicksKeeps DEF AdapterTick
<1> QED BY <1>1, <1>2

-----------------------------------------------------------------------------
\* A fresh store.
LEMMA AdapterStarts ==
  ASSUME AdapterInit
  PROVE  AdapterInv /\ NamedSI!Init /\ NamedPess!Init
<1>1. /\ versions = {} /\ clock = 0 /\ holds = {} /\ trace = {}
      /\ names = NewNames /\ call = [t \in Thread |-> Idle]
      /\ answer = [t \in Thread |-> [values |-> NoMap, time |-> 0]]
  BY DEF AdapterInit, Pess!Init
<1>2. Dictionary(names) /\ NullName \in DOMAIN names.to /\ names.to[NullName] = 0
  BY <1>1, NewNamesIs
<1>3. StoreNumbered /\ OneVersionATime
  BY <1>1, AdapterAssumption DEF StoreNumbered, OneVersionATime
<1>4. ASSUME NEW t \in Thread PROVE CallNumbered(t) /\ AnswerKnown(t)
  <2>1. call[t].at = "idle"
    BY <1>1 DEF Idle
  <2>2. CallNumbered(t)
    BY <2>1 DEF CallNumbered
  <2>3. DOMAIN answer[t].values = {} /\ answer[t].time = 0
    BY <1>1 DEF NoMap
  <2> QED BY <1>1, <2>2, <2>3 DEF AnswerKnown
<1>5. AdapterInv
  BY <1>1, <1>2, <1>3, <1>4 DEF AdapterInv
<1>6. NamedVersions = {} /\ NamedHolds = {} /\ NamedTrace = {}
  BY <1>1 DEF NamedVersions, NamedHolds, NamedTrace
<1> QED BY <1>1, <1>5, <1>6 DEF NamedSI!Init, NamedPess!Init

\* Whatever a call does, or the clock.
LEMMA AdapterStepKeeps ==
  ASSUME AdapterInv, [AdapterNext]_vars
  PROVE  AdapterInv' /\ ViewStep
<1>1. CASE UNCHANGED vars
  <2>0. StoreNumbered /\ clock \in Nat /\ DOMAIN call = Thread
    BY AdapterAssumption DEF AdapterInv, StoreNumbered
  <2>1. UNCHANGED << store, versions, clock, holds, trace, names, call, answer >>
    BY <1>1 DEF vars, coreVars
  <2>3. StoreNumbered' /\ OneVersionATime'
    BY <2>0, <2>1 DEF AdapterInv, StoreNumbered, OneVersionATime, CellIds, ValIds, AgentIds
  <2>4. AdapterInv'
    BY <2>0, <2>1, <2>3, StoreStepKeeps
  <2>2. Unseen
    BY <1>1 DEF Unseen, NamedVersions, NamedHolds, NamedTrace, vars, coreVars
  <2> QED BY <2>2, <2>4, UnseenIsStutter
<1>2. ASSUME NEW t \in Thread, NEW list \in BoundedSeq(CellName, MaxCells),
             BeginNumbers(t, list)
      PROVE  AdapterInv' /\ ViewStep
  BY <1>2, BeginNumbersKeeps, UnseenIsStutter
<1>3. ASSUME NEW t \in Thread, BeginReads(t) PROVE AdapterInv' /\ ViewStep
  BY <1>3, BeginReadsKeeps
<1>4. ASSUME NEW t \in Thread, BeginRefused(t) PROVE AdapterInv' /\ ViewStep
  BY <1>4, BeginRefusedKeeps, UnseenIsStutter
<1>5. ASSUME NEW t \in Thread, BeginNames(t) PROVE AdapterInv' /\ ViewStep
  BY <1>5, BeginNamesKeeps, UnseenIsStutter
<1>6. ASSUME NEW t \in Thread, CommitTicks(t) PROVE AdapterInv' /\ ViewStep
  BY <1>6, CommitTicksKeeps DEF CommitTicks
<1>7. ASSUME NEW t \in Thread, NEW W \in SUBSET CellName, NEW f \in [W -> ValName],
             CommitNumbers(t, f)
      PROVE  AdapterInv' /\ ViewStep
  BY <1>7, CommitNumbersKeeps, UnseenIsStutter
<1>8. ASSUME NEW t \in Thread, Commits(t) PROVE AdapterInv' /\ ViewStep
  BY <1>8, CommitsKeeps
<1>9. ASSUME NEW t \in Thread, ReleaseNumbers(t) PROVE AdapterInv' /\ ViewStep
  BY <1>9, ReleaseNumbersKeeps, UnseenIsStutter
<1>10. ASSUME NEW t \in Thread, Releases(t) PROVE AdapterInv' /\ ViewStep
  BY <1>10, ReleasesKeeps
<1>11. CASE AdapterTick
  BY <1>11, AdapterTickKeeps
<1> QED BY <1>1, <1>2, <1>3, <1>4, <1>5, <1>6, <1>7, <1>8, <1>9, <1>10, <1>11, Zenon
        DEF AdapterNext

\* The invariant of the adapters: the dictionary numbers every name once, the
\* store's state is over numbers it has handed out, a cell has one version a
\* commit, and what a call holds between two of its steps keeps its meaning
\* while the calls of other threads grow dictionary and store.
THEOREM AdaptersInvariant == AdapterSpec => []AdapterInv
<1>1. AdapterInit => AdapterInv
  BY AdapterStarts
<1>2. AdapterInv /\ [AdapterNext]_vars => AdapterInv'
  BY AdapterStepKeeps
<1> QED BY <1>1, <1>2, PTL DEF AdapterSpec

\* A snapshot holds what the store over names held at the snapshot's time,
\* however many calls ran between the begin's three steps.
THEOREM SnapshotsRead == AdapterSpec => []SnapshotsAreReads
<1>1. AdapterInv => SnapshotsAreReads
  BY DEF AdapterInv, AnswerKnown, SnapshotsAreReads
<1> QED BY <1>1, AdaptersInvariant, PTL

\* The adapters are the two stores over names: every step of a call is a step
\* of the store over names or is not seen there, whatever cells, values and
\* agents are called.
THEOREM AdaptersImplement == AdapterSpec => ImplementsNamedStore
<1>1. AdapterInit => NamedSI!Init /\ NamedPess!Init
  BY AdapterStarts
<1>2. AdapterInv /\ [AdapterNext]_vars =>
        [IF store = "pess" THEN NamedPess!Next
                           ELSE NamedSI!Next]_<< NamedPess!storeVars >>
  BY AdapterStepKeeps DEF ViewStep, ViewNext
<1> QED BY <1>1, <1>2, AdaptersInvariant, PTL DEF AdapterSpec, ImplementsNamedStore

-----------------------------------------------------------------------------
\* The chain of a cell has the times of its versions.
LEMMA ChainTimes ==
  ASSUME NEW vs, NEW m \in Nat, \A v \in vs : v.time \in 1 .. m,
         \A v, u \in vs : v.time = u.time => v = u
  PROVE  /\ Cardinality(vs) \in Nat /\ DOMAIN ChainOf(vs) = 1 .. Cardinality(vs)
         /\ \A i \in 1 .. Cardinality(vs) : \E v \in vs : ChainOf(vs)[i].time = v.time
         /\ \A v \in vs : \E i \in 1 .. Cardinality(vs) : ChainOf(vs)[i].time = v.time
<1> DEFINE size == Cardinality(vs)
           Upto(u) == {w \in vs : w.time <= u.time}
           time == [v \in vs |-> v.time]
           rank == [v \in vs |-> Cardinality(Upto(v))]
<1>1. IsFiniteSet(vs)
  <2>1. time \in Injection(vs, 1 .. m)
    BY DEF Injection, IsInjective
  <2> QED BY <2>1, FS_Injection, FS_Interval
<1>2. size \in Nat
  BY <1>1, FS_CardinalityType
<1>3. ASSUME NEW u \in vs
      PROVE  /\ IsFiniteSet(Upto(u)) /\ Cardinality(Upto(u)) \in 1 .. size
  <2>1. Upto(u) \in SUBSET vs /\ u \in Upto(u)
    OBVIOUS
  <2> HIDE DEF Upto
  <2>2. IsFiniteSet(Upto(u)) /\ Cardinality(Upto(u)) <= size
    BY <1>1, <2>1, FS_Subset
  <2>3. Cardinality(Upto(u)) \in Nat /\ Cardinality(Upto(u)) # 0
    BY <2>1, <2>2, FS_CardinalityType, FS_EmptySet
  <2> QED BY <1>2, <2>2, <2>3
<1>4. ASSUME NEW u \in vs, NEW v \in vs, Cardinality(Upto(u)) = Cardinality(Upto(v))
      PROVE  u = v
  <2>1. ASSUME NEW x \in vs, NEW y \in vs, x.time < y.time
        PROVE  Cardinality(Upto(x)) # Cardinality(Upto(y))
    <3>1. Upto(x) \in SUBSET Upto(y) /\ y \in Upto(y) /\ y \notin Upto(x)
      BY <2>1
    <3> HIDE DEF Upto
    <3> QED BY <1>3, <3>1, FS_Subset
  <2>2. u.time \in Nat /\ v.time \in Nat
    OBVIOUS
  <2>3. ~ (u.time < v.time) /\ ~ (v.time < u.time)
    BY <1>4, <2>1
  <2> QED BY <2>2, <2>3
<1> HIDE DEF Upto
<1>5. rank \in Injection(vs, 1 .. size)
  BY <1>3, <1>4 DEF Injection, IsInjective
<1>6. IsFiniteSet(1 .. size) /\ Cardinality(1 .. size) = size
  BY <1>2, FS_Interval
<1>7. rank \in Surjection(vs, 1 .. size)
  BY <1>5, <1>6, FS_Injection
<1>8. ASSUME NEW i \in 1 .. size
      PROVE  \E v \in vs : Cardinality(Upto(v)) = i
  BY <1>7 DEF Surjection
<1>9. ASSUME NEW i \in 1 .. size, NEW v \in vs, Cardinality(Upto(v)) = i
      PROVE  ChainOf(vs)[i].time = v.time
  <2>1. (CHOOSE u \in vs : Cardinality(Upto(u)) = i) = v
    BY <1>4, <1>9
  <2>2. (CHOOSE u \in vs : Cardinality({w \in vs : w.time <= u.time}) = i) = v
    BY <2>1 DEF Upto
  <2> QED BY <2>2 DEF ChainOf
<1>10. DOMAIN ChainOf(vs) = 1 .. size
  BY DEF ChainOf
<1>11. \A i \in 1 .. size : \E v \in vs : ChainOf(vs)[i].time = v.time
  BY <1>8, <1>9
<1>12. \A v \in vs : \E i \in 1 .. size : ChainOf(vs)[i].time = v.time
  BY <1>3, <1>9
<1> QED BY <1>2, <1>10, <1>11, <1>12

\* The flat list so far is about the versions T, pairs of a cell's name and a time.
FlatIs(acc, T) ==
  /\ acc = [names |-> acc.names, flat |-> acc.flat]
  /\ Dictionary(acc.names)
  /\ acc.flat \in Seq([cell : Nat, time : Nat, val : Nat])
  /\ \A p \in T : p[1] \in DOMAIN acc.names.to
  /\ \A i \in DOMAIN acc.flat : \E p \in T :
        acc.flat[i].cell = acc.names.to[p[1]] /\ acc.flat[i].time = p[2]
  /\ \A p \in T : \E i \in DOMAIN acc.flat :
        acc.flat[i].cell = acc.names.to[p[1]] /\ acc.flat[i].time = p[2]

\* Names that are added do not touch it.
LEMMA FlatGrows ==
  ASSUME NEW acc, NEW T, FlatIs(acc, T), NEW n, Dictionary(n), Grows(acc.names, n)
  PROVE  FlatIs([names |-> n, flat |-> acc.flat], T)
<1>1. \A p \in T : p[1] \in DOMAIN n.to /\ n.to[p[1]] = acc.names.to[p[1]]
  BY Zenon DEF FlatIs, Grows
<1>2. PICK f : f = acc.flat
  OBVIOUS
<1>3. /\ f \in Seq([cell : Nat, time : Nat, val : Nat])
      /\ \A i \in DOMAIN f : \E p \in T : f[i].cell = n.to[p[1]] /\ f[i].time = p[2]
      /\ \A p \in T : \E i \in DOMAIN f : f[i].cell = n.to[p[1]] /\ f[i].time = p[2]
  <2>1. /\ f \in Seq([cell : Nat, time : Nat, val : Nat])
        /\ \A i \in DOMAIN f : \E p \in T :
              f[i].cell = acc.names.to[p[1]] /\ f[i].time = p[2]
        /\ \A p \in T : \E i \in DOMAIN f :
              f[i].cell = acc.names.to[p[1]] /\ f[i].time = p[2]
    BY <1>2 DEF FlatIs
  <2>2. ASSUME NEW i \in DOMAIN f
        PROVE  \E p \in T : f[i].cell = n.to[p[1]] /\ f[i].time = p[2]
    <3>1. PICK p \in T : f[i].cell = acc.names.to[p[1]] /\ f[i].time = p[2]
      BY <2>1
    <3> QED BY <1>1, <3>1
  <2>3. ASSUME NEW p \in T
        PROVE  \E i \in DOMAIN f : f[i].cell = n.to[p[1]] /\ f[i].time = p[2]
    <3>1. PICK i \in DOMAIN f : f[i].cell = acc.names.to[p[1]] /\ f[i].time = p[2]
      BY <2>1
    <3> QED BY <1>1, <3>1
  <2> QED BY <2>1, <2>2, <2>3
<1> QED BY <1>1, <1>2, <1>3 DEF FlatIs

\* One version is pushed.
LEMMA PushAdds ==
  ASSUME NEW acc, NEW T, FlatIs(acc, T), NEW cell \in DOMAIN acc.names.to,
         NEW v, v.time \in Nat
  PROVE  /\ FlatIs(Push(acc, cell, v), T \cup {<< cell, v.time >>})
         /\ cell \in DOMAIN Push(acc, cell, v).names.to
<1> DEFINE n == Intern(acc.names, v.val)
           e == [cell |-> n.to[cell], time |-> v.time, val |-> n.to[v.val]]
<1>1. /\ Dictionary(n) /\ DOMAIN n.to = DOMAIN acc.names.to \cup {v.val}
      /\ Grows(acc.names, n)
  <2>1. PICK d : d = acc.names
    OBVIOUS
  <2>2. Dictionary(d)
    BY <2>1 DEF FlatIs
  <2> QED BY ONLY <2>1, <2>2, InternKeeps
<1>2. PICK f : f = acc.flat
  OBVIOUS
<1>3. FlatIs([names |-> n, flat |-> f], T)
  BY <1>1, <1>2, FlatGrows
<1>4. Push(acc, cell, v) = [names |-> n, flat |-> Append(f, e)]
  BY <1>2 DEF Push
<1>5. cell \in DOMAIN n.to /\ v.val \in DOMAIN n.to
  BY <1>1
<1>6. n.to[cell] \in Nat /\ n.to[v.val] \in Nat
  <2>1. n.from \in Seq(DOMAIN n.to)
    BY <1>1 DEF Dictionary
  <2>2. Len(n.from) \in Nat
    BY <2>1
  <2>3. n.to[cell] \in 0 .. Len(n.from) - 1 /\ n.to[v.val] \in 0 .. Len(n.from) - 1
    BY <1>1, <1>5 DEF Dictionary
  <2> QED BY <2>2, <2>3
<1>7. PICK x : x = e
  OBVIOUS
<1>8. x \in [cell : Nat, time : Nat, val : Nat] /\ x.cell = n.to[cell] /\ x.time = v.time
  BY <1>6, <1>7
<1>9. PICK d : d = n
  OBVIOUS
<1> HIDE DEF n, e
<1>10. /\ f \in Seq([cell : Nat, time : Nat, val : Nat])
       /\ \A p \in T : p[1] \in DOMAIN d.to
       /\ \A i \in DOMAIN f : \E p \in T : f[i].cell = d.to[p[1]] /\ f[i].time = p[2]
       /\ \A p \in T : \E i \in DOMAIN f : f[i].cell = d.to[p[1]] /\ f[i].time = p[2]
  BY <1>3, <1>9 DEF FlatIs
<1>11. PICK q : q = Append(f, x)
  OBVIOUS
<1>12. /\ q \in Seq([cell : Nat, time : Nat, val : Nat])
       /\ DOMAIN q = DOMAIN f \cup {Len(f) + 1} /\ q[Len(f) + 1] = x
       /\ \A i \in DOMAIN f : q[i] = f[i]
  <2>1. /\ q \in Seq([cell : Nat, time : Nat, val : Nat]) /\ Len(q) = Len(f) + 1
        /\ Len(f) \in Nat /\ DOMAIN f = 1 .. Len(f) /\ DOMAIN q = 1 .. Len(q)
    BY <1>8, <1>10, <1>11
  <2>2. \A i \in 1 .. Len(f) : q[i] = f[i]
    BY <1>10, <1>11
  <2>3. q[Len(f) + 1] = x
    BY <1>10, <1>11
  <2>4. 1 .. Len(f) + 1 = 1 .. Len(f) \cup {Len(f) + 1}
    BY <2>1
  <2> QED BY <2>1, <2>2, <2>3, <2>4
<1> DEFINE U == T \cup {<< cell, v.time >>}
<1>13. \A p \in U : p[1] \in DOMAIN d.to
  BY <1>5, <1>9, <1>10
<1>14. \A i \in DOMAIN q : \E p \in U : q[i].cell = d.to[p[1]] /\ q[i].time = p[2]
  <2>1. ASSUME NEW i \in DOMAIN f
        PROVE  \E p \in U : q[i].cell = d.to[p[1]] /\ q[i].time = p[2]
    <3>1. PICK p \in T : f[i].cell = d.to[p[1]] /\ f[i].time = p[2]
      BY <1>10
    <3> QED BY <1>12, <3>1
  <2>2. q[Len(f) + 1].cell = d.to[<< cell, v.time >>[1]] /\ x.time = << cell, v.time >>[2]
    BY <1>8, <1>9, <1>12
  <2> QED BY <1>12, <2>1, <2>2
<1>15. \A p \in U : \E i \in DOMAIN q : q[i].cell = d.to[p[1]] /\ q[i].time = p[2]
  <2>1. ASSUME NEW p \in T
        PROVE  \E i \in DOMAIN q : q[i].cell = d.to[p[1]] /\ q[i].time = p[2]
    <3>1. PICK i \in DOMAIN f : f[i].cell = d.to[p[1]] /\ f[i].time = p[2]
      BY <1>10
    <3>2. i \in DOMAIN q /\ q[i] = f[i]
      BY <1>12
    <3> QED BY <3>1, <3>2
  <2>2. q[Len(f) + 1].cell = d.to[<< cell, v.time >>[1]] /\ x.time = << cell, v.time >>[2]
    BY <1>8, <1>9, <1>12
  <2> QED BY <1>12, <2>1, <2>2
<1>16. FlatIs([names |-> d, flat |-> q], U)
  <2>1. Dictionary(d)
    BY <1>1, <1>9
  <2> HIDE DEF U
  <2> QED BY <1>12, <1>13, <1>14, <1>15, <2>1 DEF FlatIs
<1> QED BY <1>4, <1>5, <1>7, <1>9, <1>11, <1>16

\* A cell's name is numbered, and version after version is pushed.
LEMMA FlattenCellRuns ==
  ASSUME NEW acc, NEW cell, NEW chain, NEW len \in Nat, DOMAIN chain = 1 .. len
  PROVE  \E g : /\ FlattenCell(acc, cell, chain) = g[1 .. len]
                /\ FoldSteps([over |-> "versions", cell |-> cell],
                             [acc EXCEPT !.names = Intern(@, cell)], chain, len, g)
<1> DEFINE loop == [over |-> "versions", cell |-> cell]
           start == [acc EXCEPT !.names = Intern(@, cell)]
           Runs(g) == g = [s \in SUBSET (1 .. len) |->
                             IF s = {} THEN start
                             ELSE Push(g[s \ {Max(s)}], cell, chain[Max(s)])]
<1>1. \A a, x : FoldStep(loop, a, x) = Push(a, cell, x)
  BY DEF FoldStep
<1>2. FlattenCell(acc, cell, chain) = (CHOOSE g : Runs(g))[1 .. len]
  BY DEF FlattenCell, FoldLeft, MapThenFoldSet
<1> HIDE DEF loop, start
<1>3. ASSUME NEW g PROVE FoldLoop(loop, start, chain, len, g) <=> Runs(g)
  BY <1>1 DEF FoldLoop
<1> HIDE DEF Runs
<1>4. \E g : Runs(g)
  BY <1>3, FoldLoopExists
<1>5. Runs(CHOOSE g : Runs(g))
  BY <1>4, Zenon
<1>6. PICK g : Runs(g) /\ FlattenCell(acc, cell, chain) = g[1 .. len]
  BY <1>2, <1>5, Zenon
<1>7. FoldLoop(loop, start, chain, len, g)
  BY <1>3, <1>6
<1> QED BY <1>6, <1>7, FoldRuns DEF loop, start

\* A cell's entries of the flat list, by the times of its chain.
CellTimes(cell, chain) == {<< cell, chain[i].time >> : i \in DOMAIN chain}

\* One cell's chain is in the flat list.
LEMMA FlattenCellAdds ==
  ASSUME NEW acc, NEW T, FlatIs(acc, T), NEW cell,
         NEW chain, NEW len \in Nat, DOMAIN chain = 1 .. len,
         \A i \in 1 .. len : chain[i].time \in Nat
  PROVE  FlatIs(FlattenCell(acc, cell, chain), T \cup CellTimes(cell, chain))
<1> DEFINE start == [acc EXCEPT !.names = Intern(@, cell)]
           Seen(k) == T \cup {<< cell, chain[i].time >> : i \in 1 .. k}
<1>1. PICK g : /\ FlattenCell(acc, cell, chain) = g[1 .. len]
               /\ FoldSteps([over |-> "versions", cell |-> cell], start, chain, len, g)
  BY FlattenCellRuns
<1> DEFINE After(k) == FlatIs(g[1 .. k], Seen(k)) /\ cell \in DOMAIN g[1 .. k].names.to
<1>2. After(0)
  <2>1. PICK d : d = acc.names
    OBVIOUS
  <2>2. Dictionary(d)
    BY <2>1 DEF FlatIs
  <2>3. /\ Dictionary(Intern(d, cell)) /\ Grows(d, Intern(d, cell))
        /\ cell \in DOMAIN Intern(d, cell).to
    BY <2>2, InternKeeps
  <2>4. start = [names |-> Intern(d, cell), flat |-> acc.flat]
    <3>1. acc = [names |-> acc.names, flat |-> acc.flat]
      BY DEF FlatIs
    <3>2. PICK f : f = acc.flat
      OBVIOUS
    <3>3. acc = [names |-> d, flat |-> f]
      BY ONLY <2>1, <3>1, <3>2
    <3> QED BY ONLY <3>2, <3>3
  <2>5. FlatIs([names |-> Intern(d, cell), flat |-> acc.flat], T)
    BY <2>1, <2>3, FlatGrows
  <2>6. Seen(0) = T
    OBVIOUS
  <2>7. g[1 .. 0] = start
    BY <1>1 DEF FoldSteps
  <2> QED BY <2>3, <2>4, <2>5, <2>6, <2>7
<1>3. ASSUME NEW k \in 0 .. len - 1, After(k) PROVE After(k + 1)
  <2>1. g[1 .. k + 1] = Push(g[1 .. k], cell, chain[k + 1])
    BY <1>1 DEF FoldSteps, FoldStep
  <2>2. Seen(k + 1) = Seen(k) \cup {<< cell, chain[k + 1].time >>}
    <3>1. \A i \in 1 .. k + 1 : i \in 1 .. k \/ i = k + 1
      OBVIOUS
    <3>2. \A i \in 1 .. k : i \in 1 .. k + 1
      OBVIOUS
    <3>3. k + 1 \in 1 .. k + 1
      OBVIOUS
    <3> QED BY <3>1, <3>2, <3>3, Zenon
  <2>3. chain[k + 1].time \in Nat
    OBVIOUS
  <2>4. PICK a, v : a = g[1 .. k] /\ v = chain[k + 1]
    OBVIOUS
  <2> HIDE DEF Seen
  <2>5. FlatIs(a, Seen(k)) /\ cell \in DOMAIN a.names.to /\ v.time \in Nat
    BY <1>3, <2>3, <2>4
  <2>6. /\ FlatIs(Push(a, cell, v), Seen(k) \cup {<< cell, v.time >>})
        /\ cell \in DOMAIN Push(a, cell, v).names.to
    BY <2>5, PushAdds
  <2> QED BY <2>1, <2>2, <2>4, <2>6
<1> HIDE DEF After
<1>4. After(len)
  <2> DEFINE F == {k \in 0 .. len : ~ After(k)}
  <2> SUFFICES ASSUME F # {} PROVE FALSE
    BY DEF F
  <2>1. PICK k \in F : \A j \in F : k <= j
    <3> F \in SUBSET Nat
      OBVIOUS
    <3> HIDE DEF F
    <3> QED BY LeastOfNaturals
  <2>2. k # 0 /\ k \in 0 .. len
    BY <1>2
  <2>3. k - 1 \in 0 .. len - 1 /\ k - 1 \notin F
    BY <2>1, <2>2
  <2>4. After(k - 1)
    BY <2>3
  <2>5. After(k)
    BY <2>2, <2>3, <2>4, <1>3
  <2> QED BY <2>1, <2>5
<1>5. Seen(len) = T \cup CellTimes(cell, chain)
  BY DEF CellTimes
<1> QED BY <1>1, <1>4, <1>5 DEF After

\* The whole list is made cell after cell.
LEMMA FlattenedRuns ==
  ASSUME NEW chains, NEW order, NEW len \in Nat, DOMAIN order = 1 .. len
  PROVE  \E g : /\ Flattened(chains, order) = g[1 .. len]
                /\ FoldSteps([over |-> "cells", chains |-> chains],
                             [names |-> EmptyNames, flat |-> << >>], order, len, g)
<1> DEFINE loop == [over |-> "cells", chains |-> chains]
           start == [names |-> EmptyNames, flat |-> << >>]
           Runs(g) == g = [s \in SUBSET (1 .. len) |->
                             IF s = {} THEN start
                             ELSE FlattenCell(g[s \ {Max(s)}], order[Max(s)], chains[order[Max(s)]])]
<1>1. \A a, x : FoldStep(loop, a, x) = FlattenCell(a, x, chains[x])
  BY DEF FoldStep
<1>2. Flattened(chains, order) = (CHOOSE g : Runs(g))[1 .. len]
  BY DEF Flattened, FoldLeft, MapThenFoldSet
<1> HIDE DEF loop, start
<1>3. ASSUME NEW g PROVE FoldLoop(loop, start, order, len, g) <=> Runs(g)
  <2>1. \A s \in SUBSET (1 .. len) :
            FoldStep(loop, g[s \ {Max(s)}], order[Max(s)])
                = FlattenCell(g[s \ {Max(s)}], order[Max(s)], chains[order[Max(s)]])
    BY <1>1, Zenon
  <2> QED BY ONLY <2>1 DEF FoldLoop
<1> HIDE DEF Runs
<1>4. \E g : Runs(g)
  BY <1>3, FoldLoopExists
<1>5. Runs(CHOOSE g : Runs(g))
  BY <1>4, Zenon
<1>6. PICK g : Runs(g) /\ Flattened(chains, order) = g[1 .. len]
  BY <1>2, <1>5, Zenon
<1>7. FoldLoop(loop, start, order, len, g)
  BY <1>3, <1>6
<1> QED BY <1>6, <1>7, FoldRuns DEF loop, start

\* The versions of a cell: its name, with each time of its chain.
TimesOf(chains, c) == CellTimes(c, chains[c])

\* The flat list has the versions of every cell, and no other.
LEMMA FlattenedIs ==
  ASSUME NEW chains, NEW order, NEW len \in Nat, DOMAIN order = 1 .. len,
         \A c \in ToSet(order) : \E n \in Nat :
            DOMAIN chains[c] = 1 .. n /\ \A i \in 1 .. n : chains[c][i].time \in Nat
  PROVE  FlatIs(Flattened(chains, order), UNION {TimesOf(chains, c) : c \in ToSet(order)})
<1> DEFINE start == [names |-> EmptyNames, flat |-> << >>]
           Seen(k) == UNION {TimesOf(chains, order[i]) : i \in 1 .. k}
<1>1. PICK g : /\ Flattened(chains, order) = g[1 .. len]
               /\ FoldSteps([over |-> "cells", chains |-> chains], start, order, len, g)
  BY FlattenedRuns
<1> DEFINE After(k) == FlatIs(g[1 .. k], Seen(k))
<1>2. After(0)
  <2>1. g[1 .. 0] = start
    BY <1>1 DEF FoldSteps
  <2>2. Seen(0) = {}
    OBVIOUS
  <2>3. Dictionary(EmptyNames)
    BY DEF Dictionary, EmptyNames
  <2>4. FlatIs(start, {})
    BY <2>3 DEF FlatIs
  <2> QED BY <2>1, <2>2, <2>4
<1>3. ASSUME NEW k \in 0 .. len - 1, After(k) PROVE After(k + 1)
  <2>1. PICK c : c = order[k + 1]
    OBVIOUS
  <2>2. g[1 .. k + 1] = FlattenCell(g[1 .. k], c, chains[c])
    BY <1>1, <2>1 DEF FoldSteps, FoldStep
  <2>3. Seen(k + 1) = Seen(k) \cup TimesOf(chains, c)
    <3>1. \A i \in 1 .. k + 1 : i \in 1 .. k \/ i = k + 1
      OBVIOUS
    <3>2. \A i \in 1 .. k : i \in 1 .. k + 1
      OBVIOUS
    <3>3. k + 1 \in 1 .. k + 1
      OBVIOUS
    <3> QED BY <2>1, <3>1, <3>2, <3>3, Zenon
  <2>4. PICK n \in Nat : /\ DOMAIN chains[c] = 1 .. n
                         /\ \A i \in 1 .. n : chains[c][i].time \in Nat
    <3>1. c \in ToSet(order)
      BY <2>1 DEF ToSet
    <3> QED BY <3>1
  <2>5. PICK a : a = g[1 .. k]
    OBVIOUS
  <2> HIDE DEF Seen
  <2>6. FlatIs(a, Seen(k))
    BY <1>3, <2>5
  <2>7. FlatIs(FlattenCell(a, c, chains[c]), Seen(k) \cup TimesOf(chains, c))
    <3>1. PICK ch : ch = chains[c]
      OBVIOUS
    <3>2. n \in Nat /\ DOMAIN ch = 1 .. n /\ \A i \in 1 .. n : ch[i].time \in Nat
      BY <2>4, <3>1
    <3>3. FlatIs(FlattenCell(a, c, ch), Seen(k) \cup CellTimes(c, ch))
      BY <2>6, <3>2, FlattenCellAdds
    <3> QED BY <3>1, <3>3 DEF TimesOf
  <2> QED BY <2>2, <2>3, <2>5, <2>7
<1> HIDE DEF After
<1>4. After(len)
  <2> DEFINE F == {k \in 0 .. len : ~ After(k)}
  <2> SUFFICES ASSUME F # {} PROVE FALSE
    BY DEF F
  <2>1. PICK k \in F : \A j \in F : k <= j
    <3> F \in SUBSET Nat
      OBVIOUS
    <3> HIDE DEF F
    <3> QED BY LeastOfNaturals
  <2>2. k # 0 /\ k \in 0 .. len
    BY <1>2
  <2>3. k - 1 \in 0 .. len - 1 /\ k - 1 \notin F
    BY <2>1, <2>2
  <2>4. After(k - 1)
    BY <2>3
  <2>5. After(k)
    BY <2>2, <2>3, <2>4, <1>3
  <2> QED BY <2>1, <2>5
<1>5. Seen(len) = UNION {TimesOf(chains, c) : c \in ToSet(order)}
  BY Zenon DEF ToSet
<1> QED BY <1>1, <1>4, <1>5 DEF After

\* The stateless validation is refused exactly for a later version of a cell read.
LEMMA ValidateFreshIs ==
  ASSUME NEW chains, NEW order, NEW len \in Nat, DOMAIN order = 1 .. len,
         \A c \in ToSet(order) : \E n \in Nat :
            DOMAIN chains[c] = 1 .. n /\ \A i \in 1 .. n : chains[c][i].time \in Nat,
         NEW reads, NEW num \in Nat, DOMAIN reads = 1 .. num, NEW rt \in Nat
  PROVE  ValidateFresh(chains, order, reads, rt) <=>
           \A c \in ToSet(order) : c \in ToSet(reads) =>
              \A i \in DOMAIN chains[c] : chains[c][i].time <= rt
<1> DEFINE T == UNION {TimesOf(chains, c) : c \in ToSet(order)}
<1>1. PICK f : f = Flattened(chains, order)
  OBVIOUS
<1>2. FlatIs(f, T)
  BY <1>1, FlattenedIs
<1>3. \A p \in T : p[2] \in Nat
  BY DEF TimesOf, CellTimes
<1>4. \A c \in ToSet(order) : \A i \in DOMAIN chains[c] : << c, chains[c][i].time >> \in T
  BY DEF TimesOf, CellTimes
<1>5. ASSUME NEW p \in T
      PROVE  /\ p[1] \in ToSet(order)
             /\ \E i \in DOMAIN chains[p[1]] : p[2] = chains[p[1]][i].time
  BY DEF TimesOf, CellTimes
<1>6. ValidateFresh(chains, order, reads, rt) <=>
        Validate(f.flat, ReadNumbers(f.names, reads), rt)
  BY <1>1 DEF ValidateFresh
<1> HIDE DEF T
<1>7. PICK n, m : n = f.names /\ m = InternAll(n, reads)
  OBVIOUS
<1>8. Dictionary(m) /\ Grows(n, m) /\ ToSet(reads) \subseteq DOMAIN m.to
  <2>1. Dictionary(n)
    BY <1>2, <1>7 DEF FlatIs
  <2> QED BY <1>7, <2>1, InternAllKeeps
<1>9. PICK q : q = ReadNumbers(n, reads)
  OBVIOUS
<1>10. q = [i \in 1 .. num |-> m.to[reads[i]]]
  BY <1>7, <1>9 DEF ReadNumbers
<1>11. Len(q) = num
  BY <1>10
<1>12. ASSUME NEW p \in T PROVE Contains(q, n.to[p[1]]) <=> p[1] \in ToSet(reads)
  <2>1. p[1] \in DOMAIN m.to /\ n.to[p[1]] = m.to[p[1]]
    BY <1>2, <1>7, <1>8 DEF FlatIs, Grows
  <2>2. \A s \in DOMAIN m.to : NameOf(m, m.to[s]) = s
    BY <1>8 DEF Dictionary
  <2>3. \A i \in 1 .. num : reads[i] \in DOMAIN m.to
    BY <1>8 DEF ToSet
  <2>4. \A i \in 1 .. num : q[i] = n.to[p[1]] <=> reads[i] = p[1]
    <3> SUFFICES ASSUME NEW i \in 1 .. num PROVE q[i] = n.to[p[1]] <=> reads[i] = p[1]
      OBVIOUS
    <3>1. q[i] = m.to[reads[i]]
      BY <1>10
    <3>2. m.to[reads[i]] = m.to[p[1]] => reads[i] = p[1]
      <4>1. NameOf(m, m.to[reads[i]]) = reads[i] /\ NameOf(m, m.to[p[1]]) = p[1]
        BY <2>1, <2>2, <2>3
      <4> QED BY <4>1
    <3> QED BY <2>1, <3>1, <3>2
  <2> QED BY <1>11, <2>4 DEF Contains, ToSet
<1>13. Validate(f.flat, q, rt) <=> \A p \in T : p[1] \in ToSet(reads) => p[2] <= rt
  <2>1. PICK flat : flat = f.flat
    OBVIOUS
  <2>2. /\ \A i \in DOMAIN flat : \E p \in T :
              flat[i].cell = n.to[p[1]] /\ flat[i].time = p[2]
        /\ \A p \in T : \E i \in DOMAIN flat :
              flat[i].cell = n.to[p[1]] /\ flat[i].time = p[2]
    BY <1>2, <1>7, <2>1 DEF FlatIs
  <2>3. ASSUME NEW i \in DOMAIN flat, Contains(q, flat[i].cell), flat[i].time > rt
        PROVE  \E p \in T : p[1] \in ToSet(reads) /\ ~ (p[2] <= rt)
    <3>1. PICK p \in T : flat[i].cell = n.to[p[1]] /\ flat[i].time = p[2]
      BY <2>2
    <3>2. p[1] \in ToSet(reads)
      BY <1>12, <2>3, <3>1
    <3>3. ~ (p[2] <= rt)
      BY <1>3, <2>3, <3>1
    <3> QED BY <3>2, <3>3
  <2>4. ASSUME NEW p \in T, p[1] \in ToSet(reads), ~ (p[2] <= rt)
        PROVE  \E i \in DOMAIN flat : Contains(q, flat[i].cell) /\ flat[i].time > rt
    <3>1. PICK i \in DOMAIN flat : flat[i].cell = n.to[p[1]] /\ flat[i].time = p[2]
      BY <2>2
    <3>2. Contains(q, flat[i].cell)
      BY <1>12, <2>4, <3>1
    <3>3. flat[i].time > rt
      BY <1>3, <2>4, <3>1
    <3> QED BY <3>2, <3>3
  <2>5. Validate(flat, q, rt) <=>
          ~ \E i \in DOMAIN flat : Contains(q, flat[i].cell) /\ flat[i].time > rt
    BY Zenon DEF Validate
  <2> QED BY <2>1, <2>3, <2>4, <2>5
<1>14. (\A p \in T : p[1] \in ToSet(reads) => p[2] <= rt) <=>
         \A c \in ToSet(order) : c \in ToSet(reads) =>
            \A i \in DOMAIN chains[c] : chains[c][i].time <= rt
  <2>1. ASSUME \A p \in T : p[1] \in ToSet(reads) => p[2] <= rt,
               NEW c \in ToSet(order), c \in ToSet(reads), NEW i \in DOMAIN chains[c]
        PROVE  chains[c][i].time <= rt
    <3>1. PICK p : p = << c, chains[c][i].time >>
      OBVIOUS
    <3>2. p \in T /\ p[1] = c /\ p[2] = chains[c][i].time
      BY <1>4, <3>1
    <3> QED BY <2>1, <3>2
  <2>2. ASSUME \A c \in ToSet(order) : c \in ToSet(reads) =>
                  \A i \in DOMAIN chains[c] : chains[c][i].time <= rt,
               NEW p \in T, p[1] \in ToSet(reads)
        PROVE  p[2] <= rt
    BY <1>5, <2>2
  <2> QED BY <2>1, <2>2
<1> QED BY <1>6, <1>7, <1>9, <1>13, <1>14

\* The invariant decides the stateless validation's verdict.
LEMMA GateIsDecided ==
  ASSUME AdapterInv, NEW keys \in SUBSET Name, VersionedNames \subseteq keys,
         NEW reads \in BoundedSeq(Name, MaxCells + 1), NEW rt \in 0 .. clock
  PROVE  ValidateFresh(Chains(keys), SetToSeq(keys), reads, rt)
           <=> NamedSI!Validates(ToSet(reads), {}, rt)
<1>0. StoreNumbered /\ Dictionary(names) /\ clock \in Nat
  BY AdapterAssumption DEF AdapterInv, StoreNumbered
<1> DEFINE Of(c) == {v \in NamedVersions : v.cell = c}
<1>1. PICK order, chains : order = SetToSeq(keys) /\ chains = Chains(keys)
  OBVIOUS
<1>1a. PICK len \in Nat : DOMAIN order = 1 .. len /\ ToSet(order) = keys
  <2>1. IsFiniteSet(keys)
    <3>1. IsFiniteSet(Name)
      BY AdapterAssumption, FS_Union DEF Name
    <3> QED BY <3>1, FS_Subset
  <2>2. /\ Cardinality(keys) \in Nat /\ SetToSeq(keys) \in [1 .. Cardinality(keys) -> keys]
        /\ ToSet(SetToSeq(keys)) = keys
    BY <2>1, ListOfSet
  <2> QED BY <1>1, <2>2
<1>2. PICK num \in Nat : reads \in [1 .. num -> Name]
  BY AdapterAssumption DEF BoundedSeq, SeqOf
<1>3. ASSUME NEW x \in NamedVersions
      PROVE  \E v \in versions : /\ x = NamedFields(names, v)
                                 /\ x.time = v.time /\ x.time \in 1 .. clock
                                 /\ x.cell = NameOf(names, v.cell) /\ v.cell \in CellIds
  <2>1. PICK v \in versions : x = NamedFields(names, v)
    BY DEF NamedVersions
  <2> QED BY <1>0, <2>1, VersionView
<1>4. \A x \in NamedVersions : x.cell \in keys
  BY DEF VersionedNames
<1>5. ASSUME NEW c
      PROVE  \A x, y \in Of(c) : x.time = y.time => x = y
  <2> SUFFICES ASSUME NEW x \in Of(c), NEW y \in Of(c), x.time = y.time PROVE x = y
    OBVIOUS
  <2>1. PICK v \in versions : /\ x = NamedFields(names, v) /\ x.time = v.time
                              /\ x.cell = NameOf(names, v.cell) /\ v.cell \in CellIds
    BY <1>3
  <2>2. PICK u \in versions : /\ y = NamedFields(names, u) /\ y.time = u.time
                              /\ y.cell = NameOf(names, u.cell) /\ u.cell \in CellIds
    BY <1>3
  <2>3. v.cell = u.cell
    BY <1>0, <2>1, <2>2, OneNumber DEF CellIds
  <2>4. v = u
    BY <2>1, <2>2, <2>3 DEF AdapterInv, OneVersionATime
  <2> QED BY <2>1, <2>2, <2>4
<1>6. ASSUME NEW c \in keys
      PROVE  \E n \in Nat :
               /\ DOMAIN chains[c] = 1 .. n
               /\ \A i \in 1 .. n : \E x \in Of(c) : chains[c][i].time = x.time
               /\ \A x \in Of(c) : \E i \in 1 .. n : chains[c][i].time = x.time
  <2>1. PICK vs : vs = Of(c)
    OBVIOUS
  <2>2. \A x \in vs : x.time \in 1 .. clock
    BY <1>3, <2>1
  <2>3. \A x, y \in vs : x.time = y.time => x = y
    BY <1>5, <2>1
  <2>4. /\ Cardinality(vs) \in Nat /\ DOMAIN ChainOf(vs) = 1 .. Cardinality(vs)
        /\ \A i \in 1 .. Cardinality(vs) : \E v \in vs : ChainOf(vs)[i].time = v.time
        /\ \A v \in vs : \E i \in 1 .. Cardinality(vs) : ChainOf(vs)[i].time = v.time
    BY <1>0, <2>2, <2>3, ChainTimes
  <2>5. chains[c] = ChainOf(vs)
    BY <1>1, <2>1 DEF Chains
  <2> HIDE DEF Of
  <2> QED BY <2>1, <2>4, <2>5
<1>7. \A c \in keys : \E n \in Nat :
         DOMAIN chains[c] = 1 .. n /\ \A i \in 1 .. n : chains[c][i].time \in Nat
  <2> SUFFICES ASSUME NEW c \in keys
               PROVE  \E n \in Nat : /\ DOMAIN chains[c] = 1 .. n
                                     /\ \A i \in 1 .. n : chains[c][i].time \in Nat
    OBVIOUS
  <2>1. PICK n \in Nat : /\ DOMAIN chains[c] = 1 .. n
                         /\ \A i \in 1 .. n : \E x \in Of(c) : chains[c][i].time = x.time
    BY <1>6
  <2>2. \A x \in Of(c) : x.time \in Nat
    BY <1>0, <1>3
  <2> QED BY <2>1, <2>2
<1>8. ValidateFresh(chains, order, reads, rt) <=>
        \A c \in keys : c \in ToSet(reads) =>
           \A i \in DOMAIN chains[c] : chains[c][i].time <= rt
  <2>1. rt \in Nat /\ DOMAIN reads = 1 .. num
    BY <1>0, <1>2
  <2> QED BY <1>7, <1>1a, <2>1, ValidateFreshIs
<1>9. ASSUME NEW c \in keys
      PROVE  (\A i \in DOMAIN chains[c] : chains[c][i].time <= rt) <=>
               \A x \in Of(c) : x.time <= rt
  <2>1. PICK n \in Nat : /\ DOMAIN chains[c] = 1 .. n
                         /\ \A i \in 1 .. n : \E x \in Of(c) : chains[c][i].time = x.time
                         /\ \A x \in Of(c) : \E i \in 1 .. n : chains[c][i].time = x.time
    BY <1>6
  <2> HIDE DEF Of
  <2> QED BY <2>1
<1>10. NamedSI!Validates(ToSet(reads), {}, rt) <=>
         \A c \in keys : c \in ToSet(reads) => \A x \in Of(c) : x.time <= rt
  BY <1>4, Zenon DEF NamedSI!Validates
<1> HIDE DEF Of
<1> QED BY <1>1, <1>8, <1>9, <1>10

\* The stateless validation's verdict is the store's gate over the same
\* versions, whichever names the dictionaries of the two meet first.
THEOREM VerdictIsGate == AdapterSpec => []VerdictIsTheGate
<1>1. AdapterInv => VerdictIsTheGate
  BY GateIsDecided DEF VerdictIsTheGate
<1> QED BY <1>1, AdaptersInvariant, PTL

=============================================================================
