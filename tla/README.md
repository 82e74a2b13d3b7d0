# A verification development for preload-ng

preload-ng is a daemon that watches which executables run and which files they
map, learns a Markov model of pairs of executables, predicts what will start
next, and reads the files that it will map into the page cache.

This directory holds TLA+ modules that model the daemon, configurations that
TLC checks on small instances, and proofs that TLAPS checks for every value of
the constants. Paths below are relative to `crates/orchestrator/src/` unless
they begin otherwise.

    tlc -workers 2 -config Stores.cfg MCStores    # any row of the table of runs
    tlapm StoresProofs.tla                        # any *Proofs module

`PROJECT.json` lists, in a form for tools, the components, the runs, the source
lines of each definition (`map`), a mutant for each property, the hazards and
the theorems.

## 1. The system: inventory

Everything that learns and predicts is owned by one asynchronous task,
`PreloadEngine::run_until`. Around it are signal handlers, the blocking pool
that does the I/O, the reader thread of fanotify and the SQLite database.

    signals ---> control events, cancellation ---.
                                                 v
    /proc, fanotify --> scanner --> updater --> Stores --> predictor --> planner
                                     ^ admission   ^  |                     |
                                                   |  `--> repository       v
                                     purge <-------+---------- report -- prefetcher

| Component | State | Operations | Correct when | Modelled in |
| --- | --- | --- | --- | --- |
| Stores, model updater (`stores/`, `observation/model_updater.rs`) | exes, maps, attachments, edges, active set, two clocks | apply an observation, end of a tick, snapshot and restore | time is credited once; edges agree with what runs; no dangling attachment; a restart gives back what was learnt | `Stores` |
| Markov graph (`stores/markov_graph.rs`) | seven parallel vectors, an index from key to position | ensure, get_mut, prune by swap_remove | it behaves as a map of edges | `MarkovGraph`, `EdgeMap` |
| Engine loop (`engine.rs`, `crates/cli/src/main.rs`, `signals.rs`) | position in a turn, queued control events, cancellation token | tick, control, autosave, sleep, shutdown, load | uses the stores only through their operations; ends when told; starves no branch that is ready at once; loses nothing on shutdown | `Engine` |
| Prefetcher (`prefetch/prefetcher.rs`) | stream of tasks, buffer of futures, workers, report; in a worker the page ranges of one map | execute_concurrent, prefetch_map; the purge at the end of a tick | no more workers than configured; every failure reported, none twice; stale maps purged; ends; what is requested is what is not cached | `Prefetcher`, `Readahead` |
| Admission policy (`observation/admission.rs`) | rules, rejection cache | decide | the longest prefix wins; what is not UTF-8 is rejected; cached answers are current and expire | `Admission` |
| Planner (`prefetch/planner.rs`) | none | plan | a plan fits the memory; priority by score | `Planner` |
| Repository (`persistence/repo.rs`, `stores/exe_map_index.rs`) | SQLite tables, a transaction; the index of attachments that a save reads | save, load | a save is all or nothing, through crashes at any statement; what is saved can be loaded | `Repository`, `ExeMapIndex`, `SnapshotStore`; as one atomic step in `Stores` and `Engine` |
| Predictor (`prediction/predictor.rs`) | none | predict | only and all maps of executables that do not run are candidates | `Predictor`, composed with `Planner` |
| Procfs scanner (`observation/procfs_scanner.rs`) | cache per pid | scan | what is cached of a process is its own; what stays is reported, what is gone fades | `ProcfsScanner` |
| fanotify watcher (`observation/fanotify_watcher.rs`) | buffer shared with a reader thread | the reader loop, drain, drop | opens are reported with their opener; drop returns | `FanotifyWatcher`, composed with `ProcfsScanner` |
| Configuration (`crates/config`) | parsed values | load, merge, reload | later files override earlier ones | only the fields that others read |
| Command line, priorities (`crates/cli`) | none | parse, set nice and ionice | - | not modelled: one-off calls |

What is hard to test here, with the line where it bites and the properties
that cover it, is the list `hazards` of `PROJECT.json`. In short:

- a control event wins a `select!` against a tick that awaits the prefetcher:
  half of the tick has happened, and it is applied again at the same time;
- workers of the blocking pool and futures in a buffer outlive, or do not
  outlive, the code that awaits them;
- kills, failing saves and restarts between any two steps, with slots of the
  stores handed out anew;
- reloads that change policy, window, scanning or saving half-way;
- an index that must follow a `swap_remove`;
- caches: of rejections, of processes, of the two directions of the attachments;
- processes that exit, call execve or give their pid to another between two
  reads of one scan, and a thread that fills a buffer while the scan drains it;
- a kill or a loss of power between any two statements of a save;
- signed percentages, rounding, saturation, runs of pages at the ends of a map.

## 2. The modules

Each component has a module; `MC...` modules give small constants to TLC; the
theorems of a component are in `...Proofs`. Operators named `Wrong...` and
marked *mutant* are deliberately wrong versions of the definition that follows
them: no specification uses them, they exist to show that a property would
notice such a bug.

### Stores (`Stores.tla`, 5 actions)

`exes`, `maps`, `exe_maps`, `markov`, `active`, `model_time` and
`last_accounting_time` are the fields of `struct Stores`; `config` is the
installed configuration and `db` the saved snapshot.

| Action | Code |
| --- | --- |
| `Apply` | `DefaultModelUpdater::apply`: new exes and maps, running flags, edges, transitions, accounting, active set, pruning |
| `EndTick(gone)` | the end of `tick`: the purge of `gone` and the step of the clock by one cycle |
| `Reload(c)` | `apply_reload` |
| `Save` | `snapshot_from_stores` and `save` |
| `Load(c)` | `load`, `stores_from_snapshot` and the purge of denied maps |

Each is a synchronous stretch of code on the only task that owns the stores,
hence one atomic step. Abstractions:

- an exe's slot is its position in the order of insertion, since exes are never
  removed; `HashMap` iteration order is a nondeterministic order of insertion;
- an observation is any choice of which executables are accepted, with which
  of the maps that the policy allows, and which of them run. `Admission` says
  which choices one policy makes;
- the floating-point matrices of an edge are reduced to which transitions have
  weight (`transition_prob` is a set of pairs of states);
- `MaxTime` stands for the largest `u64`: clock and counters saturate there as
  the code's `saturating_add` does, so the bound is behaviour of the code and
  not a cut of the state space.

### Engine (`Engine.tla`, 13 actions)

`run_until` with `S == INSTANCE Stores`. `pc` is `"select"` before the tick is
first polled, `"prefetch"` while it awaits the prefetcher (its only await),
`"autosave"` behind the first `select!` and `"sleep"` in the second. `Control`
drops a tick in progress. Errors of a scan, an autosave or a SaveNow lead to
`"failed"` as they leave `run_until`. `Kill` is any signal without a handler,
SIGTERM among them; `Start` runs `load` again with a new token and channel.
`disk_ok` says whether a save would succeed; the repository's transaction makes
a failed one leave the previous snapshot. Control events come without end;
`MaxQueued` bounds how many wait at once, not how many come.

The abstract specification is `Stores` itself: `ImplementsStores` says that
every behaviour of the loop is one of `Stores` under the identity mapping.

### Prefetcher (`Prefetcher.tla`)

`execute_concurrent`: `stream.by_ref().buffer_unordered(n)` is a temporary of
the `while let` condition and is rebuilt for each result (`Fill`, `Yield`); an
async block is first polled in `Poll`, which starts its worker; dropping a
block leaves its worker in `detached`. `Finish` is the end of the tick with the
purge, `Control` a tick dropped half-way, `FileChanges` files that come and go.
The purge keeps what `exists()` finds, and that is some of the files that are
there: it answers no on any error of stat, for want of a permission too, so the
map of a file that is there may be purged (`Purged`). The comment at
`engine.rs:167` ("whose files no longer exist on disk") and `README.md:32` pass
over this; a later scan that sees the map stores it again.

### Readahead

What a worker does for one map: the page loop of `uncached_ranges` with its
current run (`Page`, `Flush`), the fall-back when `mincore` gives no answer
(`QueryFails`), and the requests: whole ranges as `do_madvise` makes them or
chunks as `readahead` does, either of which may fail. `requested` is history,
the bytes that the kernel was asked for.

### MarkovGraph and EdgeMap

`MarkovGraph` is the structure of arrays: `keys`, `states` and
`both_running_times` stand for the seven parallel vectors, which are changed in
lockstep, `key_to_index` is the hash map, and `prune_inactive` is one
step for each round of its loop. `EdgeMap` is the abstract specification, a
function from keys to edges with an atomic `Prune`; the refinement mapping
hides, while pruning, the edges that are bound to go.

### Admission

The rules by longest prefix, before which a path that is not UTF-8 is rejected
(`IsUtf8`), the verdict of `decide` and the cache of
rejections. The cache itself is the library moka, modelled from how it is
built: `time_to_live` (`Aged`), a capacity that is enforced at some later time
(`Evict`, any entry), no renewal by a look-up (`Hit`). A path is a sequence of
bytes, or of pieces of several bytes that no rule takes apart, and `starts_with`
is `IsPrefix` on these: a rule for `/usr/bin` matches `/usr/bingo`. Sizes count
mappings. Since paths that are not UTF-8 are never admitted, what the repository
writes with `to_string_lossy` is the path itself.

### Planner

One call of `plan`: the budget (percentages clamped, products rounded toward
zero, negative sums cut to zero), one step for each candidate in an order of
descending score, ties in any order since both sorts are unstable over the
order of a hash map, and the final sort with ties broken by key and then by
index. Scores, paths, inodes and blocks are reduced to their order; byte
counts and KiB are kept as they are.

### Predictor

Extends `Planner`: the scores that a plan is made from are those that `predict`
computes from `stores`, an edge's chance that its other end starts, joined over
the edges of an executable and over the executables of a map. Probabilities are
integers out of `One` and products are rounded down; the exponential and the
phi coefficient are inputs. The minimum score is the smallest chance, 1.
`StoresType` is what `predict` may read, any graph over pairs of different
executables. `PredictSpec` is one call of `predict` and `plan` on any of these,
for the proofs; the run has a few of them (`MCPipeline`), all within
`StoresType`.

### Processes, FanotifyWatcher, ProcfsScanner

`Processes` is external: processes start under a pid that is used again, with a
start time that is not; they call `execve`, map files, run an executable whose
file is replaced, and exit. `ran` and `mapped` are history.

`FanotifyWatcher` has the kernel's queue, which drops events when it is full;
the reader thread, which asks for the opener's executable some time after the
open (`Resolve`) and inserts under the lock (`Insert`); and its end by the flag
or an error.

`ProcfsScanner` extends both. A scan is one step for each read:

| Action | Code |
| --- | --- |
| `BeginScan` | `all_processes` |
| `Revisit` | a process that `is_same_process` knows: its ExeSeen |
| `EmitCached` | `emit_cached_maps`, unless its maps are due for a new reading |
| `FirstVisit` | an unknown process or a pid used again: the exe link |
| `PassOver` | it has ended, its entry, stat or link cannot be read, or the link is not one to report; known processes are forgotten then |
| `ScanMaps`, `ScanMapsFails` | `scan_maps`, and the warning that caches no maps |
| `EndScan` | the cache is replaced, the watcher's buffer taken and its executables reported |
| `EmitDrained` | then its maps |
| `Drop` | the scanner and with it the watcher are dropped |

### Repository, ExeMapIndex, SnapshotStore

`Repository` is the transaction, statement by statement: `BeginSave`, a
`Delete` for each table, an `Insert` for each row, `Commit`; then `Open`, a
`Select` for each table, `Load`. `SaveFails` and `Crash` may come between any
two. `commits` is the database at the last checkpoint and after each commit
since: the pool sets WAL with `synchronous = NORMAL`, under which a loss of
power (`PowerLoss`) goes back to any of these and to nothing else. A row is its
key.

`ExeMapIndex` has the two hash maps of attachments with `attach` and
`detach_map`; `Repository` extends it, since a save reads one of them.
`SnapshotStore` is what the repository promises, a store that takes a snapshot
as a whole; under the refinement mapping all statements but the commit are
stutters. `Stores` and `Engine` use a save as one step on this ground.

### MCPipeline

One instance for the three calls of a tick that share no state while they run:
a behaviour is a call of `predict` and `plan`, or the I/O of one map.

## 3. The runs

| Run | Instance | Shows |
| --- | --- | --- |
| `stores` | 2 exes, 1 map, 2 configurations, clock to 2 | eight properties of the stores and of restarts |
| `engine` | 1 exe, 1 map, queue of 2 control events, clock to 1, reloads that switch scanning and saving | shutdown saves, three liveness properties |
| `engine_scanning` | 2 exes, 1 map, queue of 1 control event, 1 restart, clock to 1, scanning always on | refinement of `Stores`; nothing is learnt from the first observation of a process |
| `prefetch` | 3 maps, concurrency 0 to 2, 1 control event, files that come and go | one worker; stale maps purged; an honest report; prefetches end |
| `prefetch_lost` | 2 maps, concurrency 2 | *violation*: results are lost with the buffer |
| `prefetch_dropped` | 2 maps, concurrency 1, 1 control event | *violation*: a dropped tick leaves its worker running |
| `markov_graph` | 4 ids, up to 4 edges | index and vectors agree; refinement of `EdgeMap`; pruning ends |
| `admission` | 2 exes, one of a path that is not UTF-8, 3 mappings, lists of 2 rules, cache of 1 place and 2 ticks | the rules and the cache |
| `pipeline` | 3 maps, 2 exes, chances out of 4, 4 policies; pages of 3 bytes, chunks of 4, maps of 0 to 8 bytes in 4 pages | what is predicted is planned; the budget, the priority and the order; the bytes requested |
| `observation` | 1 pid, 2 exes (one upgraded), 1 file, 2 starts, queue of 1, maps read every 2 scans | what is cached and reported of processes; the thread and its drop |
| `observation_paths` | the same | *violation*: the watcher reports a deleted executable's link |
| `persistence` | 2 exes, 2 maps, clock to 1, 1 commit between checkpoints | the index; refinement of `SnapshotStore`; every start loads |

Why the bounds are enough for what they show:

- *stores*: an edge needs two exes, both orientations of a key occur, and a
  restart can come between any two of them. Of the two configurations one has
  no slack (window 0, so what stops is inactive a tick later) and one denies
  every map; a reload or a restart can install either. Two cycles of the clock
  let an edge be created, pruned and created again after both ran together.
- *engine*: one exe suffices for questions about the loop, whose control does
  not depend on what is stored. A queue of two has an event behind the one that
  is handled, and is filled again for ever; liveness is about one process, so `engine` has no
  restart. `engine_scanning` has two exes, since a transition needs an edge,
  and a restart, since what is restored is what must not be learnt from.
- *prefetch*: three maps are one more than the widest buffer, so a task is
  left on the stream when a buffer is dropped. `MaxDetached` bounds how many
  leftover workers a tick may start with.
- *markov_graph*: with four edges `swap_remove` meets the last edge, an edge in
  the middle, and a moved edge that must go as well.
- *admission*: a cache of one place with two executables evicts; two ticks of
  life distinguish an entry that was renewed from one that was not; two rules
  of opposite signs make every case of longer, shorter, equal and nested. The
  longer prefix ends inside a name, and one path has a piece that is not UTF-8.
- *pipeline*: budgets of 0 to 3 and 12 KiB against lengths of exactly 1 KiB and
  of a byte more; five percent of 25 KiB need rounding. A chance of 1 of 4 is
  rounded away in a product unless the minimum keeps it. Maps begin and end
  anywhere in their pages, span up to four of these, and any of them may be
  cached; chunks are longer than a page and shorter than a map.
- *observation*: processes do not influence each other's entries, so one pid
  has every case: used again by the same or another executable, execve between
  two reads, a file replaced. Two processes are the fewest that share a pid; a
  map is read again on the second scan, so there is a scan that does not.
- *persistence*: with two executables and two maps a table may be deleted,
  partly inserted and complete, and an index set may lose one member or its
  last. One commit behind the checkpoint is one that a loss of power undoes.

Two views keep the runs small. `StoresAndCurrentSnapshot` and
`CurrentSnapshotOnly` replace the snapshot `db` by whether it is that of the
present stores. Nothing but `Load` reads `db`, and a save can be followed at
once by a load (a kill and a start in `Engine`): every reachable snapshot is
met in a state just after its save, so an older snapshot in a later state adds
no value of the stores that is not reached from there. The views are used for
properties of the stores and of single steps, never for liveness. Symmetry is
used only in runs without liveness properties.

`CHECK_DEADLOCK FALSE` is said where the system may really stop: the program
ends (`Engine`, when its restarts are used up), a call returns (`pipeline`), the
scanner is dropped (`observation`).

### Fairness

- `Engine`: strong fairness of each branch of the `select!`, the tick's first
  poll (`StartTick`, `ScanFails`), `Control` and `Shutdown`: `tokio::select!`
  polls its branches in a random order, so a branch that is ready in turn after
  turn is polled first in the end, although any one turn may go to another.
  Weak fairness of what follows: the end of the prefetch, the autosave, the
  sleep. Nothing is assumed about signals, kills or the disk, and control events
  may come without end. So `TicksGoOn` says what the code gives: ticks that have
  nothing to prefetch are done in their first poll and cannot be starved; those
  that await the prefetcher may all be dropped there by events without end, and
  the property allows that and nothing else. `ControlHandled` is also said under
  events without end: the queue is empty again and again, or is taken from for
  ever.
- `Prefetcher`: weak fairness of the polls, the workers and the wake-ups;
  blocking I/O ends.
- `MarkovGraph`: weak fairness of the prune loop.
- `Admission`: time passes, and each executable that runs is seen in each scan.
- `ProcfsScanner`: weak fairness of the steps of a scan and of the next scan,
  since the engine's loop goes on, and of the reader thread, which the kernel
  schedules. Strong fairness, for each pid, of `FirstVisit` and `ScanMaps`: a
  read of a process that is there does not fail for ever, although each may
  fail. Nothing is assumed of the processes, nor that the reader does not fail.
- `Predictor`, `Planner`, `Readahead`, `Stores`, `Repository`: none, they are
  checked for safety only.

### What the violations show

1. `prefetch_lost`: with `prefetch_concurrency` of two or more,
   `buffer_unordered` is built anew for each result (`prefetcher.rs:425`) and
   the other futures in it are dropped. Their results never reach the report,
   so a map whose file is gone is not purged (`README.md:32` says it is) and the
   workers of the dropped blocks still run.
2. `prefetch_dropped`: a control event drops the tick, not its worker; the next
   tick starts another beside it, more than "Max number of concurrent prefetch
   workers" (`crates/config/src/system.rs:38`).
3. `observation_paths`: the thread of the watcher takes the link of
   `/proc/PID/exe` as it is (`fanotify_watcher.rs:180`), so an executable whose
   file was replaced is reported with ` (deleted)` behind its path, which
   `sanitize_path` of the scanner refuses. `docs/ADR.md:44`: "Paths are
   sanitized".

Other disagreements between text and code were met while modelling; no run is
made of them:

- `docs/ADR.md:111` "Autosave ... happens at end of tick": the check follows
  every turn, also one that dropped its tick (`engine.rs:221`).
- `docs/ADR.md:73` eager edges for all pairs: superseded by its addendum on the
  active set, which is what the code does.
- `GUIDE.md:92` `dopredict` "planning still runs": there is nothing to plan
  from when prediction is off.
- `GUIDE.md:60` "Save state immediately": a SaveNow that arrives in the sleep
  waits for its end.
- `crates/config/src/system.rs:39` an omitted `prefetch_concurrency` "falls back
  to CPU core count": the serde default is `Some(1)`.
- A reload installs the new admission policy and leaves what is stored
  (`engine.rs:295`): a changed `mapprefix` has no effect on stored maps until a
  restart, which purges them.
- The repository's `README.md:37` says that maps are read again "only when the
  process set changes"; they are also read every fifth scan.
- An error of a scan, of an autosave or of a SaveNow ends the process without
  the save on shutdown; no document says what should happen.

## 4. What is proved

All theorems are for any sets of executables and maps, any configurations and
any bounds, from the named assumptions in the component's module only (bounds
are naturals, sets of inputs have their types, finite where cardinalities are
taken).

| Module | Theorem | Property |
| --- | --- | --- |
| `StoresProofs` | `TypeCorrect`, `NeverOvercredited`, `CoRunningNeverExceeds`, `EdgeStatesAgree`, `OnlyActiveHaveEdges`, `EverySnapshotLoads`, `LearntSurvives`, `DeniedMapsStayOut` | all eight of `stores` |
| | `Invariance`, `LinksStaySound` | the inductive invariant; no dangling attachment |
| `EngineProofs` | `EngineImplementsStores`, `ShutdownLosesNothing` | `ImplementsStores`, `ShutdownSaves` |
| | `DaemonKeepsStoresSound`, `DaemonRestores` | the properties of `stores` and `LinksSound`, in the daemon |
| | `FirstObservationTeachesNothing` | `LearnsOnlyObserved`, if every configuration scans |
| | `NoBacklog` | `CreditBounded`, if every configuration scans and has the same cycle; no run checks it |
| `PrefetcherProofs` | `StalePurged`, `SingleWorker`, `ReportIsHonest` | `OnePurgesStaleMaps`, `OneWorker`, `ReportHonest` |
| | `PlacesStayApart` | the inductive invariant: at any width a task is in one place only |
| | `OneReportsAll` | with one place in the buffer each task of a completed tick is reported |
| | `PrefetchIsBounded` | a prefetch of *n* tasks takes at most 5*n* steps |
| `MarkovGraphProofs` | `TypeCorrect`, `IndexStaysSound`, `GraphIsAnEdgeMap` | `TypeOK`, `IndexSound`, `ImplementsEdgeMap` |
| | `Invariance`, `PruneIsBounded` | the inductive invariant; the prune loop takes no more rounds than there are edges |
| `AdmissionProofs` | `CacheFollowsPolicy`, `RejectionsDoExpire`, `LongestPrefixDoesWin` | all three invariants of `admission` |
| | `Invariance`, `TypeCorrect` | the inductive invariant, and the types in it |
| | `LoopFindsLongest` | what `accept_path` computes, for any path and any list of rules |
| | `RejectionsOnlyDelay` | a rejection of what is admissible only runs out |
| `PipelineProofs` | `EveryPlanFits`, `TheOthersDidNotFit`, `KeysOnlyBreakTies` (of `Planner`) | `PlanFits`, `LeftOutDidNotFit`, `TieBreakOnly` |
| | `PlansAreUseful` (of `Predictor` with `Planner`) | `PlansUseful` |
| | `RequestsAreExact` (of `Readahead`) | `RequestsExactly` |
| | `Invariance`, `IoInvariance` | the inductive invariants of a plan and of the requests |
| | `TiesAreSorted`, `ScoresAreBounded`, `ScoredAreUseful` | the order among equal scores; what scores are and which maps have one |
| `RepositoryProofs` | `IndexMirrored`, `StartsNeverDangle`, `RepositoryIsSnapshotStore` | all three of `persistence` |
| | `Invariance` | the inductive invariant |
| `ProcfsScannerProofs` | `IdentityIsKept`, `ExesBeforeMaps` | both invariants of `observation` |
| | `Invariance` | the inductive invariant |
| | `OpensAreNotLost` | an open is queued, then in hand, then reported |

The arguments:

- **Stores.** The safety properties are not inductive one by one. Whether
  co-running time stays below running time after `Apply` needs the edge's state
  to agree with the running flags; what `Load` builds needs the same facts of
  the snapshot: saved counters bounded, keys in the order of saved ids, no
  dangling name. `IInv` is the conjunction of the properties, of their
  counterparts about `db`, and of the injectivity of slots. One lemma for each
  action, one step for each conjunct that it can disturb. `LearntSurvives` and
  `DeniedMapsStayOut` are action properties that follow from `IInv`.
- **Engine.** Each action maps to one action of `Stores` or to a stutter; the
  only invariant needed is that a plan holds stored maps, so that what a tick
  purges was stored. The state is shared, so what the daemon implements is the
  specification that `StoresProofs` is about, and its theorems, cited through an
  instance, hold in the daemon (`DaemonKeepsStoresSound`, `DaemonRestores`).
  `ShutdownLosesNothing` is inductive by the steps that
  follow a stop. `NoBacklog` rests on `ClockInv`: while a tick that has applied
  its observation is in progress nothing is left to credit, and otherwise one
  cycle at most, in the stores and in the snapshot that a start goes back to;
  without `AlwaysScanning` time passes that no observation accounts for.
  `FirstObservationTeachesNothing` rests on `ObservedInv`: until a process has
  applied an observation its edges are those of the load, last changed at the
  time at which the clock still stands, and an edge learns no transition in no
  time.
- **Prefetcher.** `PrefetchInv` is the type invariant, `Tidy` (the places of a
  task exclude each other) and, for a concurrency of at most one, `NothingLost`:
  with one place in the buffer nothing else is in it when a result is yielded,
  hence a planned map without a file is pending or has failed, and no worker is
  left behind unless a tick is dropped. This part is false for wider buffers;
  the run `prefetch_lost` shows the loss. What the report says rests on
  `ReportInv`: results and tasks in hand never add up to more than the plan, a
  task is in one place only, at any width (`Apart`: stream, buffer, workers and
  failures share none, from the distinct tasks of a plan), and
  with one place in the buffer they add up to no less. `Work` counts the steps
  that are left: five for a task on the stream, four in the buffer, three with a
  running worker and two with one that has ended.
- **MarkovGraph.** The index maps exactly the keys in the vectors to their
  positions, also between the rounds of the prune loop; each round either
  advances or shortens, and under the mapping that hides the doomed edges each
  is a stutter, with `StartPrune` the atomic `Prune`. The positions left to look
  at (`Left`) become fewer in either case, which bounds the loop; that none is
  left when it ends needs that the position never runs past the end of vectors
  that shrink (`NeverPast`).
- **Admission.** An entry's remaining life and the time since its executable
  was judged add up to no more than the time to live: a tick moves one from the
  first to the second, a miss starts both anew, a hit touches neither. The rules
  are independent of time: of the places in the list up to which the loop's
  state is not that of the longest match so far there would be a first, and
  the rule at this place shows that there is none (`RoundFinds`). The library's
  induction takes an operator and cannot be used; this least counterexample,
  from `WFMin`, stands in for it.
- **Planner.** What is selected never has more bytes than 1024 times what the
  loop has taken from the budget, because a charge is rounded up; and without a
  share of all memory the budget is at most the memory that is available,
  because percentages are clamped and rounding toward zero keeps the bound. For
  the maps left out the invariant says that the budget is spent on exactly what
  is selected (`Spent`, a finite sum) and that what the loop may still choose
  scores no higher than what it has chosen (`Descending`): all of what is
  selected when a map is skipped scores at least as high, and what comes later
  adds to the sum. That a fold over a set exists, and adds up in any
  order, is proved by induction over the subsets of a finite set
  (`FiniteInduction`); that an order for the final sort exists, by the rank of
  each position (`Sortable`). TLC checked the whole of `IInv` on the instance of
  `pipeline` before.
- **Predictor.** A product of misses, rounded down, is `One` if and only if no
  chance is positive, and at most each of its factors (`AnyOfIs`). With the floor
  an executable that does not run has a positive score, so a map has one if and
  only if such an executable uses it; the rest is the planner's invariant.
- **Readahead.** While pages are looked at, the ranges hold exactly the wanted
  bytes below the current run, or below the current page when there is none,
  and end before it (`PagesInv`); afterwards each wanted byte is in a range or
  requested, and never both. It holds for any size of pages and chunks.
- **Repository.** While a transaction is open, the rows of the snapshot are
  either in the tables or left, and no others are, once the DELETEs are through
  (`SaveSplit`); what has been read is the newest commit (`LoadReads`); every
  commit is sound (`SoundRows`), because a snapshot has attachments of stored
  names only. So a commit appends the snapshot, and a load cannot dangle.
- **ProcfsScanner.** A cached entry is true of the process that has its start
  time, because nothing is known of a start time before a process has it
  (`TimesPast`), and a process only adds to its history (`ProcessesOwn`).
  `ExesComeFirst`: what will be reported as an opener is reported before, in the
  scan by `visit`, in the buffer by inserting both under one lock.

Every invariant, action property and refinement that a passing run checks has a
theorem. Only model-checked is liveness, which is out of the prover's reach:
`CancelEnds`, `ControlHandled`, `TicksGoOn`, `PrefetchEnds`, `PruneEnds`,
`AdmittedInTheEnd`, `GhostsFade`, `MapsCatchUp`, `OpensReported`, `DropReturns`.
For four of them the part that needs no fairness is proved for any instance: the
measures of `PrefetchIsBounded` and `PruneIsBounded`, `RejectionsOnlyDelay` for
`AdmittedInTheEnd` and `OpensAreNotLost` for `OpensReported`. What remains of
these to TLC is that the steps are taken.

## 5. What is not modelled, and why

- Floating-point arithmetic: the decay of an edge's statistics, the phi
  coefficient and the exponential of the predictor. The support of the
  transition matrix and the shape of the scores are modelled.
- The system calls of the three prefetch backends and the probing for them. What
  they are asked for is modelled.
- The spelling of paths (the suffixes that `sanitize_path` strips, the prefixes
  that the watcher skips), the hit counters of the admission cache, and the
  memory statistic: no property is about them.
- `NoopRepository`, which saves nothing, and two daemons on one
  database, which nothing in the code expects.
- Parsing and merging of configuration files, the command line, nice and
  ionice, logging: sequential code that runs once, where tests reach what can
  go wrong.
- `Stores` accepts any observation and not only those of `ProcfsScanner`: its
  properties hold whatever is reported, and a scan is one step of a tick there.

## 6. The plan

The order was: what all depends on first, then what composes it, then the
components at its border. Done, each with its run and its proofs: `Stores`;
`Engine`, composing it; `Prefetcher`; `MarkovGraph` against `EdgeMap`;
`Admission`; `Planner`; `ProcfsScanner` with `FanotifyWatcher`; `Repository`
with `ExeMapIndex` against `SnapshotStore`; `Readahead`; `Predictor` composed
with `Planner`.

What a continuation would take up:

1. The safety halves of the remaining liveness properties: what a scan leaves of
   a process that is gone (`GhostsFade`), and how many turns of the loop pass
   between two ticks (`TicksGoOn`).
2. `Engine` with the transaction of `Repository` in the place of the atomic
   `Save`, by the refinement that is proved here.
3. `DefaultModelUpdater` fed by the events of `ProcfsScanner`, to say what the
   stores learn of a process that calls execve.
