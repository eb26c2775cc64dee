# Verification of mac-consistency-runtime

TLA+ models of the consistency runtime for multi-agent systems in this repository, the TLC
configurations that check them on small instances, and TLAPS proofs that hold for every value of
the constants. The code under `src/` carries Verus proofs of its own, about one operation at a
time under a lock or `&mut`. The models here start where those stop: sequences of operations of
several actors, what happens between two locked sections, what an emitted log or a driver
concludes from them, and liveness. Where both speak of one fact (for instance `a1_cross`,
`wf`) the model restates it over the code's steps, not over the Verus specification's words.

`PROJECT.json` lists components, runs, mutants, the map from definitions to source lines,
hazards, findings and theorems in machine-readable form.

## 1. Inventory

| Component (source) | State | Operations | Interacts with |
|---|---|---|---|
| L2 runtime (`src/l2_exec.rs`) | clock, next id, per-transaction record (flags, write log, observations, causal closure, stamps), published value and writer per cell | `begin write read commit abort externalize`, all `&mut self` | called by the measurement driver, the replay and the live sessions |
| L2 measurement (`src/l2_measure.rs`) | driver locals, `written`/`committed` lists | one scenario per seed on three arms, release passes, provenance detectors | L2 runtime and both baselines |
| Baselines (`src/l2_unguarded.rs`, `src/l2_cascade.rs`) | transactions, cells | `begin read commit abort` | measurement, replay, live sessions |
| Live sessions (`l2-live/`) | per session: two arms; per run: summary; on disk: two outboxes, session files, summary file | three model calls per session, each tried twice; appends; file writes | L2 runtime, unguarded baseline, the file system |
| Replay (`src/l2_replay_lib.rs`, `examples/l2_replay.rs`) | three stores | a fixed schedule per arm over a parsed record | reads what live sessions filed |
| Pessimistic store (`src/pess_concurrent.rs`) | versions, clock, holds, trace, under one RwLock | `begin commit release tick` | called through its adapter |
| Snapshot-isolation store (`src/si_concurrent.rs`) | versions, clock, trace, under one RwLock | `begin` (shared lock), `commit`, `tick` | called through its adapter |
| Store adapters (`src/pessimistic.rs`, `src/snapshot_isolation.rs`) | dictionary of names under a lock of its own; the no-write bypass | the `Store` trait | the stores; agents |
| Vanilla store (`src/vanilla.rs`) | map and clock under a mutex | `begin commit tick` | third `Store` |
| Agent API (`src/agent.rs`) | pending operation per `Agent` object | `begin commit no_write_commit` | calls a `Store`, then an `Emitter`, then the store's `release` |
| Detectors (`src/detectors.rs`) | none | `detect_a1/a2/a3/a6`, `classify_level` | read the emitted records |
| Flat validation (`src/verified_si.rs`, `src/lib_si_validate_exec.rs`) | a dictionary per call | `validate_fresh` | the same gate as the SI store |
| L4 registry (`src/l4_exec.rs`, `src/l4_registry.rs`) | live signature per tool; pinned operation | `resign revoke pin dispatch` | `run_once` churns between pin and dispatch |
| L3 sequencer and probe (`src/l3_sequencer.rs`, `l3-probe/`) | completed flags, emitted list; shared `co` and `timings`, each under a mutex | dispatch, provider call, push, log, join | probe threads race to the sink |

What is hard here, and what correctness means for each:

* **L2 runtime.** A review may abort a transaction at any moment relative to its dependents'
  reads, commits and releases; cells are never rolled back; freshness compares values; the
  cascade is one pass. Correct: no live commit on an aborted basis, no retraction of anything
  that has left, serializability in commit order (of the observations a transaction is left with: a
  stale one that a re-read replaced can stay behind), frozen provenance, nothing held for ever.
* **Release passes.** One pass in id order suffices only if ids are causal order, which the API
  does not promise; other users call between passes while a review is open.
* **Live sessions.** Any model call can fail, after the baseline's effect has gone out; the
  process can die between an append and the session file; outboxes and files outlive runs.
  Correct: no file claims more than the outboxes hold, only kept effects leave the verified arm,
  every session and every line is accounted for, a replay finds what the run found.
* **Pessimistic store with agents.** Holds belong to an agent *id*, are given back all at once,
  and a commit call is four separate steps (take, commit, emit, release). Correct: no foreign
  write in a held window, no A1 between agents, no leaked hold, an emitted log that may be
  drained at any moment, every cell available again in the end.
* **SI store with agents.** No holds, so the log is only closed between operations; the no-write
  bypass; the silent clock ceiling. Correct: SSI emits no A1, default SI only for operations
  without writes, no published version without an operation.
* **Vanilla store with agents.** Nothing is validated; the detectors must say so: every commit
  over a changed read is found, and a log in which nothing is found replays.
* **Adapters.** The dictionary's lock is never held across the store's, so a call is two or three
  steps. Correct: the adapter is the same store over names.
* **L4.** Stale bindings and ABA of signatures. Correct: validated calls land on the pinned
  signature, refusals are justified.
* **L3.** Arbitrary completion orders racing dispatch, failing calls, panics. Correct: exact ready
  prefix, a scored session is whole, every session ends.
* **Measurement.** The figures compare arms, so the arms must run one scenario, and what a
  figure counts must not be a flag that the runtime under test sets itself.

## 2. Modules

| Module | Models | Correspondence |
|---|---|---|
| `L2Runtime` | `L2Runtime` | one action per public call; a refused call is a stuttering step; the record `ExecTxn` is spread over sets (`committed`, `aborted`, `externalized`) and functions (`writes`, `readValue`, `readFrom`, `preds`) |
| `L2Temporal` | the same with `read_at`, `commit_time` | stamps ride on `Read` and `Commit`; no guard reads them; the history variable `observed` keeps the observations that a re-read replaces in the code's map |
| `OutputCommit` | the promise to the outside | abstract: effects are working, held, released or retracted, and depend on each other; a retraction takes exactly what rests on the retracted effect |
| `L2ReleasePass` | `release_pass` on a runtime used in any way | extends `L2Runtime`; `cursor` is the pass's loop variable; all other calls fall between passes (`&mut`) |
| `ReleaseAtCommit` | both baselines | constant `Cascades` selects the wrapper's two differences |
| `Provenance` | detectors of `l2_measure.rs` | over a trace function |
| `ReleaseArms` | the arms the drivers compare | `L2Runtime` and two instances of `ReleaseAtCommit`, each with its variables |
| `L2Measure` | the measurement driver | extends `ReleaseArms`; `phase` is the next call |
| `SessionArms` | the two-transaction session | extends `ReleaseArms`; a list of calls per arm; `failed` is an assertion that does not hold |
| `L2Replay` | the three replays of a record | extends `SessionArms`, with the cascading store's script; `at` counts calls |
| `L2Live` | `run` and `run_session` of `l2-live` | extends `L2Replay`: runs, crashes and replays share the files; `kept` and `mark` are history variables |
| `PessStore` | `begin_step`, `commit_step`, `release_step`, `tick_step` | one action per locked section; `Commit` takes any snapshot, because `Snapshot` is a public struct |
| `SIStore` | `begin_step`, `commit_step`, `tick` | likewise; `tick` is the commit of an empty snapshot, as in the code |
| `Interner` | the dictionary of both adapters | pure operators |
| `StoreAdapters` | both `Store` implementations | a call split where the locks are; instances of the stores over numbers below and over names above |
| `FlatValidation` | `validate_fresh`, `validate` | pure operators over `Interner` |
| `Agent` | `Agent::begin`, `commit`, `no_write_commit` | `stage` is the program counter inside a commit call; threads may share objects and objects may share ids |
| `PessAgents`, `SIAgents`, `VanillaAgents` | agents over each store | every agent step conjoined with the store call it makes |
| `Detectors` | `detect_a1`, `a2`, `a3`, `a6`, `classify_level` | witness sets instead of first witnesses |
| `L4Registry` | registry and dispatchers | `since` and `last` are history variables |
| `L3Sequencer` | both sinks | `co` raw completion order, `emitted` the sequencer's |
| `L3Probe` | a session of the probe | extends `L3Sequencer`: its threads' pushes are the completions |

`MC*` modules only give constants and symmetry. The theorems are in `L2RuntimeProofs` (the runtime,
its stamps and the release passes), `ReleaseArmsProofs` (the detectors' closure and the measurement
driver; the session's arms, the live runs and the replays), `AgentProofs` (what one step of a thread
keeps, whatever the store), `PessAgentsProofs` and `SIAgentsProofs` (each store and the agents over
it), `VanillaAgentsProofs`, `StoreAdaptersProofs` (the dictionary, both adapters and the flat
validation) and `L3L4Proofs` (sequencer and probe, registry).

Modelling decisions worth knowing:

* Vectors read only as sets (closures, versions, holds, trace) are sets. The write log is its
  last entry per cell, which is what publication and every reader take from it.
* `u64::MAX` is the constant `MaxTime`/`MaxClock` and is *in* the model: at the ceiling the code
  refuses, and so do the actions. It bounds the state space with a behaviour of the code and not
  with an artificial constraint. `MaxTxn` is the same for ids. The vanilla store has no ceiling
  check; there, and in `L3Probe`, `MaxClock` is a bound of the model.
* `MaxOps` in `SIAgents` bounds the number of emitted records at the point where a commit starts:
  at the clock's ceiling the bypass goes on for ever. `MaxRuns` and `MaxCrashes` bound how often
  `l2-live` is started and killed, `MaxCells` how many cells a begin through an adapter lists.
* `Agent::begin` is one step although it calls the store, because it holds the pending lock over
  the call and the store's call is one locked section. `commit` is not: it takes the pending
  operation and drops the lock before it calls anything.
* `PessAgents` and `SIAgents` use stores over names. That this is what the adapters are, although
  their calls are not atomic, is what `store_adapters` checks and `AdaptersImplement` proves.
* A model call of `l2-live` is a reply or two failed attempts; its reply is an effect text or a
  verdict. Appends and file writes are atomic, and a failed one is a crash, as its `expect` makes it.
* `L3Probe` feeds the sequencer of `src/l3_sequencer.rs` with the probe's completions. The probe
  itself imports only the witness function and never runs the sequencer; the composition is a way
  to put the sequencer before every order of completions that the probe can produce.

## 3. Runs

| Run | Instance | States | Shows |
|---|---|---|---|
| `l2_temporal` | 3 transactions, 2 cells, 2 values, 11 calls | 7e6 | what was last read is backed by live writers; serializability in commit order over every read, and which replaced reads it excepts |
| `l2_release_pass` | 3 transactions, 1 cell, 13 calls | 6e5 | output commit, frozen provenance, refinement of `OutputCommit`, one pass and many, reviews between passes, nothing held for ever |
| `l2_measure` | chains of 3 to 5 with rivals, 620 seeds: all 80 shapes | 3e3 | what the figures mean |
| `l2_live` | 2 runs of 2 sessions, 1 crash, 3 ways to validate, replays in between | 5e5 | files, outboxes, summary, replay |
| `pess_agents` | 3 threads, 2 of them on one object, 1 cell, clock to 2 | 6e5 | holds and log across interleaved commit steps; cells come back |
| `pess_same_agent` | 3 objects, 2 of one id | - | violation, finding 1 |
| `si_agents` | 2 threads, 1 cell, clock to 3, 3 records, both modes | 2e6 | SSI, the bypass, the ceiling |
| `vanilla_agents` | 2 threads, 1 cell, a value that comes back, clock to 3 | 2e6 | levels, detector completeness, replay of the log |
| `store_adapters` | 2 threads and agents, 1 cell, names shared between kinds, clock to 2, both stores | 1e6 | refinement of the stores over names; flat validation against the gate, with any absent names among its keys |
| `l4_registry` | 2 tools, 3 signatures | 7e3 | validated dispatch |
| `l4_aba` | 1 tool, 2 signatures | - | violation, finding 2 |
| `l3_probe` | 4 effects, 2 clock readings | 3e5 | ready prefix, whole sessions, every session ends |

Why the bounds are enough to be interesting. Three transactions give a chain of two
dependencies, which is what the transitive cascade and closure need, and a third writer that
restores a value the second replaced (value ABA). A chain of two readers that is committed,
and an abort, take eleven calls, the chain reviewed and fully released thirteen; the ABA scenario
takes nine, and a committed re-read that replaces a stale observation ten. Ids against causal order need two transactions, a chain against them three and three
passes. A window closed by another agent needs two commits. Two runs in one directory overwrite
each other's session files and continue each other's outboxes; two sessions let the first be
skipped or filed before the second dies. In `store_adapters`, `x` is an agent and a cell, `y` an
agent and a value, so the numbers of one kind are met as another's. Four effects let a closing gap
release a run while another gap stays open behind it; two clock readings let a thread that
completed earlier push later. Every property of every passing run has a mutant, a plausible error
in the code's place, that breaks it under exactly these bounds.

Symmetry is used for safety runs only, over constants the actions do not distinguish. Deadlock is
checked except where the system really stops: at the clock's ceiling (`l2_temporal`, and the
model's own clock bound of `vanilla_agents`), and at the end of a scenario, of all runs or of a
session (`l2_measure`, `l2_live`, `l3_probe`).

### Fairness

* `L2ReleasePass!FairRPSpec`: a pass that has begun goes on (it is a loop without waiting), and
  again and again one is begun with nothing under review, as the last pass of every scenario is
  (`src/l2_measure.rs:354`). Nothing else is promised, no commit, review or begin. Under it
  `HeldEffectsLeave`. The runtime has no thread of its own: a driver that stopped asking would
  hold effects for ever.
* `PessAgents!FairPASpec`: a commit call runs to its end, and callers commit what they began. The
  second half is the caller's part: nothing but a commit through the same object returns the
  holds of a begin, there is no timeout. Nothing is assumed about begins, which refuse and never
  wait.
* `L2Live!LSpec`: a run that is not killed goes on, since every model call has a timeout
  (`build_agent`), and so does a replay. Which calls fail is left open.
* `L3Probe!PSpec`: the agent's loop goes on, and each thread's call ends by reply or timeout; a
  panic is possible and never required.

### Findings

1. `pess_same_agent`. `src/pess_concurrent.rs:113-116` justifies leaving same-agent windows out
   of `a1_cross` with "Definition 1 does not count it either". `detect_a1`
   (`src/detectors.rs:19-52`) does not compare agents, so it reports such a window. Two `Agent`
   objects with one id suffice. `NoA1BetweenAgents` shows that this is the only kind.
2. `l4_aba`. `src/l4_exec.rs:47-49` and `132-134` promise refusal when a tool was revoked or
   re-signed since the pin. `dispatch` compares signatures, so a tool signed back with the pinned
   signature is dispatched to. `ValidatedCallsLand` states what does hold.

Both are disagreements of wording and code; neither breaks a property that the code's own
Verus contracts state. Two smaller ones came up in modelling and need no run to see:

* `l2-live` writes a session's file only when the session completes and never removes one, so a
  session skipped in a second run with the same `--out` leaves the first run's file, which a
  replay of the directory counts. What the file says is still backed by the outboxes
  (`FilesBackedByOutboxes`).
* `l3-probe` reads `complete_ms` (`main.rs:356`) before it takes the lock of `co` (358), so `co`
  can differ from the order of the printed completion times that the comments at 327-328 and 357
  equate it with. `ScoredSessionIsWhole` says what the printed list does guarantee.

## 4. Proofs

All proofs are checked by TLAPS (SMT, Zenon, PTL). Constants are arbitrary; the assumptions are
the named `ASSUME`s (ceilings are natural numbers, `NoValue` is not a value, `Revoked` is not a
signature, `IdOf` maps objects to agent ids; `LiveAssumption`: the driver's cells 1 and 2 and what it
hashes replies to are cells and values, and two transactions and ten calls are below the ceilings;
`AdapterAssumption`: a program has finitely many cell and value names, however many), which the runs
evaluate.

* **`L2RuntimeProofs`.** `L2Inv` is inductive as a whole and none of its interesting parts is by
  itself. `NoA3` survives `Abort(t)` because of `ReleasedInOrder`: if a released transaction
  rested on `t`, then `t` would have left and its abort would be refused. `NoUnpropagatedA3`
  survives `Abort` because the one-pass cascade takes all `u` with `t` in `preds[u]`, and
  survives `Read` only because committed transactions no longer read (`Open`). `CausalOrder`
  needs `CommittedFrozen`: a read copies the closure of a writer that can no longer grow.
  `ReadProvenance` needs `CellProvenance`. `ReadsSupported` is a consequence of `L2Inv`,
  `ProvenanceFrozen` an action property under it, and `RuntimeImplementsOutputCommit` shows that
  each call maps to `Depend`, `Finish`, `Release`, `Retract` or a stutter of `OutputCommit`, with
  `preds` as the abstract dependencies. `Retract` takes exactly `RestingOn`, so a cascade that
  took too little or too much would not refine it; that the cascade's scan of the known ids finds
  them all needs `NoRecordYet` (an id that was not begun rests on nothing).
  The same module has the stamps: `LastReadsSerializable` is inductive with
  `LatestWriterPublished` and `StampsOK`. At a commit, a fresh read's value equals the published
  one, the published one is the last committed writer's, and every earlier stamp is below the
  clock, so the witness is the cell's current writer (not necessarily the writer the reader saw).
  Later commits have larger stamps and leave `WritersBefore` alone. `ReadsWereCommitted` says the
  same of every observation at its own time, and `RecordIsLastObserved` that a transaction's record
  is the last of them for each cell. `CommitOrderSerializable` follows: an observation that the
  commits before the reader's own contradict differs from the last one, which is later. The
  exception is real and not a weakness of the proof. A re-read overwrites value, writer and stamp
  of the first read (`src/l2_exec.rs:3178-3248`) and the gate compares only what is left, so a
  transaction that read 1, re-read 2 and commits has used both. TLC finds that in ten calls when the
  second disjunct is dropped.
  And the release passes, which are calls of the runtime (`PassesAreRuntimeCalls`), so all of the
  above holds with passes among the calls. `PassInv` says why something a pass has already asked
  for is still held: with ids in causal order, because it rests on the transaction under review; in
  any order, because it rests on more transactions than passes were completed before this one.
  `OnePassForCausalIds` follows, and `HeldRestsOnMany`: what a number of completed passes leave held
  rests on at least as many transactions. The step of the second is the cardinality of causal closures: a refused
  transaction has a held predecessor, and that one's closure is strictly smaller.
* **`ReleaseArmsProofs`, the measurement.** What the detectors compute comes first. `Closure` is a recursion of as many
  rounds as the trace has ids. That the recursion has a solution is shown by hand
  (`ReachExists`), and where predecessors are older it ends with the least set that is closed under
  predecessors (`ClosureIsWithin`, `ClosureIsClosed`). Then the driver. `MeasureInv` says that until
  the review both baselines hold cell for cell and observation for observation what the verified
  runtime holds, so the gates agree although each asks something else (`ArmsRunOneScenario`);
  that ids follow causality, so that the pass that ends a scenario leaves nothing behind
  (`EveryLiveEffectReleased`); and what the review flags on each arm. The stores record direct
  predecessors and the runtime whole closures; `ClosureIsPreds` shows that the detectors make one of
  the other, and with that `VerifiedResidueIsRefusal` and `CascadeMovesFlagsOnly` are about one relation.
  `DriverAssumption` says that the numbers the driver counts out are cells and values.
* **`ReleaseArmsProofs`, the live runs.** `LiveInv` has four parts. `ArmsInPlace` says for each arm what its store is
  after k calls of its script (`VerifiedAt`, `StoreAt`) and which k belongs to the driver's next
  step. One lemma per call shows that the call is accepted, except the release that is asked for
  before the verdict or after a retraction, and leads to k + 1: that no assertion of the
  session ever fails, for any cells and values, also one cell for plan and result, is
  `~ failed`. `OutcomesAsPromised` and `StoreComesOut` read the detectors' answers off the last k.
  `BoxesInOrder` adds to `OnlyKeptLeaves` what its step needs: before the verified append the
  effect is the last entry of the baseline's outbox and of `kept`, and what is already in the verified
  outbox comes from the entries before it (`Awaits`). `CountsInPlace` is `SummaryAddsUp` while
  the run goes on, with a line per arm that is out and not counted yet. `FilesBackedByOutboxes` is
  inductive with these: outboxes only grow, and a file is written when its session's effect
  is in them. `ReplayComesOut` follows from the first part, whatever record is replayed.
* **`AgentProofs`.** For each step of a thread, what it keeps of the types of pending and running
  operations and of their stages, and what it does to the sets of finished and emitted operations;
  the compositions cite it.
* **`PessAgentsProofs`.** `PessInv` is inductive, for callers that pass any snapshot. `A1CrossFree`
  for a new record follows from `NoForeignWriteSinceHold` and `AllHeldSince`: a foreign version of
  a read cell is no later than the hold, hence no later than the read time. For an old record, the
  new write is later than every write time. `Link` ties trace records to versions.
  `PAInv` adds that holds belong to open or committing operations and that the emitted log with the
  records on their way is the store's trace, for any number of threads, objects and shared ids.
  `NoA1BetweenAgents` is then `A1CrossFree` read through `EmittedIsTrace`. `OpenKeepsItsHolds` is
  proved for every agent id that one object and one thread carry, whoever else shares theirs: only
  a step of that thread releases that id's holds. `ClosedInv` adds that an unshared agent id
  holds a cell it wrote until the write is emitted, so that a begin, which is refused meanwhile,
  only reads what the log already has: `EmittedClosed`.
* **`SIAgentsProofs`.** `SIInv` is the same scheme with the gate in place of holds, without the
  restriction to different agents. `SAInv` adds that every validated record is in the store's
  trace and every version has its operation (`VersionsAreOperations`). A stale record in the log
  was then not validated, so it was bypassed (`A1OnlyWithoutWrites`), and in SSI mode there is none.
  `ReadsAreVersions` adds that each value an operation carries was a version when it was read;
  when nothing is on its way to the log, that version's operation is in it (`ClosedWhenQuiet`).
* **`VanillaAgentsProofs`.** `VAInv` says that a cell shows the last write in the order of the clock.
  `ChangedMeansWritten` turns a changed read into a write between read and commit, which is the
  witness `detect_a1` looks for (`StaleCommitsAreFound`, `VanillaLevels`). In a log without
  one, the last writer before each read wrote the value read (`ReadsReplay`).
* **`L3L4Proofs`.** `ProbeInv` relates the threads' positions, the two shared lists and the
  sequencer. `Ready` is the first gap among the completed flags, as a least natural number;
  from it the emitted list is exactly the ready prefix (`L3Inv`), and a scored session has
  every effect once in both lists (`ScoredSessionIsWhole`). And the registry: `L4Inv` with the
  history variables; `LiveBindingExplained` is the strengthening that makes `ValidatedCallsLand` and
  `RefusalsHaveChurn` inductive.
* **`StoreAdaptersProofs`.** `AdapterInv` says that the dictionary is a bijection onto the numbers it
  has handed out (`Dictionary`), that the store and the calls on their way use only numbers of names
  of the right kind (`StoreNumbered`, `CallNumbered`), and that a cell has one version per
  time, so that a read has one answer. Other calls intern names between the two locked steps of
  a call, for any number of threads and names; that the first step's numbers still mean the same is
  `InternAllKeeps`: the dictionary only grows, whatever list is interned and however often a name
  occurs in it. With that a snapshot is what its cells held at its time
  (`SnapshotsRead`). `AdaptersImplement` maps the state through the dictionary: a step that only
  interns leaves the named store alone (`NumberingStep`), and each step under the store's lock is
  one call of `PessStore` or `SIStore` over names (`BeginNamed`, `PessCommitNamed`,
  `SICommitNamed`, `SITickNamed`, and `ReleasesKeeps`). For the gate, `FlattenedIs` says what is in the flat list
  that `validate_fresh` builds from the chains and `ChainTimes` that a chain is its cell's versions
  in order of time; the scan over numbers then decides as `Validates` does over names
  (`VerdictIsGate`), for any number of cells, versions and repeated reads, and whichever names are
  keys besides the versioned ones, so also where a cell that is read has
  no chain.

Where a proof needs induction over numbers (passes, ids, rounds, list positions) it takes the least
counterexample of a set of naturals (`LeastNumber`, `LeastOfNaturals`, from well-foundedness of `<`),
because the library's induction theorems need an operator argument. The folds of the dictionary
and of the flat list are recursive functions in the library; `FoldLoopExists` shows that such a
recursion has a solution, `FoldRuns` that it is the loop of the code, step by step, and only then is
the loop's invariant argued.

The invariants `L2Inv`, `L2TInv`, `PassInv`, `MeasureInv`, `PessInv`, `PAInv`, `ClosedInv`, `SIInv`,
`SAInv`, `ReadsAreVersions`, `VAInv`, `ProbeInv`, `LiveInv`, `AdapterInv` and `L4Inv`, and those parts
of them that no run lists (`CausalOrder`, `ReleasedInOrder`, `ReadTemporal`,
`CausalityFollowsCommits`, `A1CrossFree`, `NoForeignWriteSinceHold`) are proved only; TLC was used
on them while they were found.

Only model-checked is liveness (`HeldEffectsLeave`, `HeldCellsComeBack`, `SessionEnds`,
`EveryRunEnds`), which TLAPS cannot do under fairness.

## 5. Not modelled, and why

* `carve_out_gate` and the tallies of `run_experiment` in `l2_measure.rs`: a superseded predicate
  and sums over runs.
* Counters nothing reads back (`begin_conflicts`, `aborts`), percentiles and the statistics over
  probe sessions, printing, HTTP and the providers' wire formats, the mock server, recorded
  sessions: I/O and tallies.
* Which of several anomalies a detector names first: the model has the set of witnesses.
* A cell listed twice in an agent's read set: the agents' snapshots are maps in the model. The flat
  validation is checked with repeated reads.
* A partial write to an outbox or session file: a single write is atomic in the model.
* Verus proof functions and ghost state: they do not run.

## 6. Plan

Done: the L2 runtime with output commit, its stamps, serializability and release passes; both
stores, their adapters, the vanilla store and the agents over all three; live sessions with crashes
and replays; L4; L3 with the probe; the measurement arms. Every safety property, action property
and refinement that the passing runs check is proved.

Left: the stamped runtime as an implementation of a serial memory in commit order.
