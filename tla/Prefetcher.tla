------------------------------ MODULE Prefetcher ------------------------------
(***************************************************************************)
(* The prefetch of a tick: execute_concurrent, which every real prefetcher *)
(* runs (read, readahead and madvise differ in the system call alone), and *)
(* the purge of stale maps that the end of the tick makes of its report.   *)
(*                                                                         *)
(* Each task of the plan is an async block that hands its I/O to a worker  *)
(* of tokio's blocking pool and awaits it.  A worker cannot be cancelled:  *)
(* when its async block is dropped it runs on, and nobody learns how it    *)
(* ended.                                                                  *)
(***************************************************************************)
EXTENDS Integers, FiniteSets, Sequences, SequencesExt

CONSTANTS
    Map,            \* keys of mapped regions
    Concurrencies,  \* values of system.prefetch_concurrency, 0 for no prefetch
    MaxControls,    \* bound on the control events
    MaxDetached     \* bound on the workers left over when a tick starts

ASSUME NumbersAssumption ==
    Concurrencies \subseteq Nat /\ MaxControls \in Nat /\ MaxDetached \in Nat

ASSUME MapAssumption == IsFiniteSet(Map)

VARIABLES
    stored,     \* the maps of the store
    on_disk,    \* the maps whose file exists
    pc,         \* "idle", or "prefetch" while a tick awaits the prefetcher
    tasks,      \* the tasks not yet taken from the plan's stream
    buffered,   \* those in the buffer that have not been polled
    joined,     \* those that have: how their worker stands
    detached,   \* the workers whose async block was dropped
    report,     \* PrefetchReport
    plan,       \* history: the tasks of the tick
    missing,    \* history: the planned maps without a file all through the tick
    concurrency, \* that of the installed prefetcher
    controls    \* how many control events there have been

vars == <<stored, on_disk, pc, tasks, buffered, joined, detached, report,
          plan, missing, concurrency, controls>>

NoWorkers == [m \in {} |-> "running"]

\* PrefetchReport::default
EmptyReport == [num_maps |-> 0, failures |-> {}]

RunningIn(j) == {m \in DOMAIN j : j[m] = "running"}

\* how I/O on a map can end: opening a file that is not there fails
Outcomes(m) == IF m \in on_disk THEN {"ok", "err"} ELSE {"err"}

-----------------------------------------------------------------------------
(* execute_concurrent                                                      *)

\* the order of the plan is that of the scores; NoopPrefetcher has no tasks
TasksOf(S) == IF concurrency = 0 THEN {<<>>} ELSE SetToSeqs(S)

StartTick ==
    /\ pc = "idle" /\ detached <= MaxDetached
    /\ pc' = "prefetch"
    /\ \E S \in SUBSET stored : tasks' \in TasksOf(S)
    /\ plan' = ToSet(tasks')
    /\ missing' = plan' \ on_disk
    /\ report' = EmptyReport
    /\ UNCHANGED <<stored, on_disk, buffered, joined, detached, concurrency, controls>>

WrongWidth == concurrency + 1   \* mutant: one more than asked for
NoWidth    == concurrency - 1   \* mutant: a buffer of no places never yields

\* concurrency.max(1)
Width == IF concurrency > 1 THEN concurrency ELSE 1

WrongLeftAfter(n) == tasks      \* mutant: each buffer is made of the whole plan

\* what a buffer of n tasks leaves in the stream
LeftAfter(n) == SubSeq(tasks, n + 1, Len(tasks))

\* stream.by_ref().buffer_unordered(concurrency) fills a new buffer
Fill ==
    /\ pc = "prefetch" /\ tasks # <<>>
    /\ buffered = <<>> /\ joined = NoWorkers
    /\ LET n == IF Width < Len(tasks) THEN Width ELSE Len(tasks)
       IN  /\ buffered' = SubSeq(tasks, 1, n)
           /\ tasks' = LeftAfter(n)
    /\ UNCHANGED <<stored, on_disk, pc, joined, detached, report, plan,
                   missing, concurrency, controls>>

\* the body of the while loop
Recorded(m, outcome) ==
    IF outcome = "ok" THEN [report EXCEPT !.num_maps = @ + 1]
                      ELSE [report EXCEPT !.failures = @ \cup {m}]

(***************************************************************************)
(* next() yields the result of m.  The buffer is a temporary of the while  *)
(* condition and is dropped with all else that is in it: what was polled   *)
(* leaves a detached worker, what was not is never started.                *)
(***************************************************************************)
Yield(m, outcome) ==
    /\ report' = Recorded(m, outcome)
    /\ buffered' = <<>> /\ joined' = NoWorkers
    /\ detached' = detached + Cardinality(RunningIn(joined) \ {m})

(***************************************************************************)
(* Blocks are polled first in the order they were taken.  That starts the  *)
(* block's worker, whose result may be there when its handle is polled.    *)
(***************************************************************************)
Poll ==
    /\ buffered # <<>>
    /\ LET m == Head(buffered)
       IN  \/ /\ buffered' = Tail(buffered)
              /\ joined' = [x \in DOMAIN joined \cup {m} |->
                              IF x = m THEN "running" ELSE joined[x]]
              /\ UNCHANGED <<detached, report>>
           \/ \E outcome \in Outcomes(m) : Yield(m, outcome)
    /\ UNCHANGED <<stored, on_disk, pc, tasks, plan, missing, concurrency, controls>>

\* a worker ends and wakes its block
WorkerEnds(m) ==
    /\ joined[m] = "running"
    /\ \E outcome \in Outcomes(m) : joined' = [joined EXCEPT ![m] = outcome]
    /\ UNCHANGED <<stored, on_disk, pc, tasks, buffered, detached, report, plan,
                   missing, concurrency, controls>>

Wake(m) ==
    /\ buffered = <<>> /\ joined[m] # "running"
    /\ Yield(m, joined[m])
    /\ UNCHANGED <<stored, on_disk, pc, tasks, plan, missing, concurrency, controls>>

DetachedEnds ==
    /\ detached > 0
    /\ detached' = detached - 1
    /\ UNCHANGED <<stored, on_disk, pc, tasks, buffered, joined, report, plan,
                   missing, concurrency, controls>>

-----------------------------------------------------------------------------
(* The tick around it                                                      *)

(***************************************************************************)
(* The failed maps of which Path::exists, as the purge comes to them, says *)
(* that they do not exist: it finds no file that is not there, and none    *)
(* whose stat fails.                                                       *)
(***************************************************************************)
Purged(found) == report.failures \ found

\* the stream has ended: the end of PreloadEngine::tick
Finish ==
    /\ pc = "prefetch"
    /\ tasks = <<>> /\ buffered = <<>> /\ joined = NoWorkers
    /\ pc' = "idle"
    /\ \E found \in SUBSET on_disk : stored' = stored \ Purged(found)
    /\ UNCHANGED <<on_disk, tasks, buffered, joined, detached, report, plan,
                   missing, concurrency, controls>>

(***************************************************************************)
(* A control event wins the select! of run_until.  A tick in progress is   *)
(* dropped, and a reload may install a prefetcher of another concurrency.  *)
(***************************************************************************)
Control ==
    /\ controls < MaxControls
    /\ controls' = controls + 1
    /\ concurrency' \in Concurrencies
    /\ pc' = "idle"
    /\ tasks' = <<>> /\ buffered' = <<>> /\ joined' = NoWorkers
    /\ detached' = detached + Cardinality(RunningIn(joined))
    /\ UNCHANGED <<stored, on_disk, report, plan, missing>>

\* between ticks a scan may store any map that a process has mapped
Observe ==
    /\ pc = "idle"
    /\ \E m \in on_disk : stored' = stored \cup {m}
    /\ UNCHANGED <<on_disk, pc, tasks, buffered, joined, detached, report, plan,
                   missing, concurrency, controls>>

\* packages are upgraded and removed at any time
FileChanges(m) ==
    /\ on_disk' = IF m \in on_disk THEN on_disk \ {m} ELSE on_disk \cup {m}
    /\ missing' = missing \ {m}
    /\ UNCHANGED <<stored, pc, tasks, buffered, joined, detached, report, plan,
                   concurrency, controls>>

Init ==
    /\ stored \in SUBSET Map /\ on_disk \in SUBSET Map
    /\ pc = "idle"
    /\ tasks = <<>> /\ buffered = <<>> /\ joined = NoWorkers
    /\ detached = 0 /\ report = EmptyReport
    /\ plan = {} /\ missing = {}
    /\ concurrency \in Concurrencies /\ controls = 0

Next ==
    \/ StartTick \/ Fill \/ Poll \/ Finish \/ Control
    \/ \E m \in DOMAIN joined : WorkerEnds(m) \/ Wake(m)
    \/ DetachedEnds \/ Observe
    \/ \E m \in Map : FileChanges(m)

(***************************************************************************)
(* The loop's task is polled when it can move, and I/O on a file ends.     *)
(***************************************************************************)
Fairness ==
    /\ WF_vars(Fill) /\ WF_vars(Poll) /\ WF_vars(Finish)
    /\ WF_vars(\E m \in DOMAIN joined : WorkerEnds(m))
    /\ WF_vars(\E m \in DOMAIN joined : Wake(m))
    /\ WF_vars(DetachedEnds)

Spec == Init /\ [][Next]_vars /\ Fairness

-----------------------------------------------------------------------------
TypeOK ==
    /\ stored \subseteq Map /\ on_disk \subseteq Map
    /\ pc \in {"idle", "prefetch"}
    /\ tasks \in Seq(Map) /\ buffered \in Seq(Map)
    /\ DOMAIN joined \subseteq Map
    /\ joined \in [DOMAIN joined -> {"running", "ok", "err"}]
    /\ detached \in Nat
    /\ report.num_maps \in Nat /\ report.failures \subseteq Map
    /\ plan \subseteq Map /\ missing \subseteq Map
    /\ concurrency \in Concurrencies /\ controls \in 0 .. MaxControls

\* prefetch_concurrency as it is by default, or no prefetch
OneAtATime == concurrency <= 1

(***************************************************************************)
(* A tick that completes purges every map it planned whose file was not    *)
(* there all through it ("Purge stale maps on prefetch failure", README).  *)
(***************************************************************************)
StaleMapsPurged == [][Finish => missing \cap stored' = {}]_vars

(***************************************************************************)
(* That holds when maps are prefetched one at a time, also after a reload  *)
(* that drops a tick and changes the concurrency (execute_concurrent).     *)
(***************************************************************************)
OnePurgesStaleMaps == [][OneAtATime /\ Finish => missing \cap stored' = {}]_vars

(***************************************************************************)
(* "Max number of concurrent prefetch workers" (config, system.rs).        *)
(***************************************************************************)
WorkersBounded == detached + Cardinality(RunningIn(joined)) <= concurrency

(***************************************************************************)
(* That holds when maps are prefetched one at a time, as long as no tick   *)
(* has been dropped (execute_concurrent, spawn_blocking).                  *)
(***************************************************************************)
OneWorker == OneAtATime /\ controls = 0 => WorkersBounded

\* the tasks that the report counts
Settled == report.num_maps + Cardinality(report.failures)

(***************************************************************************)
(* The report counts no task twice and names none that was not asked for,  *)
(* at any concurrency, although the buffer is rebuilt for each result and  *)
(* dropped workers run on beside it (PrefetchReport, execute_concurrent).  *)
(***************************************************************************)
ReportHonest == report.failures \subseteq plan /\ Settled <= Cardinality(plan)

(***************************************************************************)
(* Each prefetch ends, at any concurrency and however many blocks are      *)
(* dropped: a tick does not wait for ever, and reaches the purge unless a  *)
(* control event drops it first (execute_concurrent).                      *)
(***************************************************************************)
PrefetchEnds == pc = "prefetch" ~> pc = "idle"

-----------------------------------------------------------------------------
(* One map at a time                                                       *)

\* the tasks whose result the report does not have yet
Pending == ToSet(tasks) \cup ToSet(buffered) \cup DOMAIN joined

\* whatever the concurrency
Tidy ==
    /\ (pc = "idle" \/ concurrency = 0) => Pending = {}
    /\ missing \cap on_disk = {}
    /\ \A m \in DOMAIN joined \cap missing : joined[m] # "ok"

(***************************************************************************)
(* With a buffer of one place nothing is dropped when a result is yielded: *)
(* a planned map without a file is still pending or has failed.            *)
(***************************************************************************)
NothingLost ==
    /\ Len(buffered) <= 1 /\ (buffered # <<>> => joined = NoWorkers)
    /\ \A m, n \in DOMAIN joined : m = n
    /\ pc = "prefetch" => missing \subseteq Pending \cup report.failures
    /\ controls = 0 => detached = 0

PrefetchInv == TypeOK /\ Tidy /\ (OneAtATime => NothingLost)
=============================================================================
