------------------------------- MODULE Stores -------------------------------
(***************************************************************************)
(* The in-memory model of preload-ng (struct Stores) and the snapshot of   *)
(* it that the repository keeps.  An executable is named by its path       *)
(* (ExeKey) and a mapped region by its MapKey; both key spaces are         *)
(* constants.  One action per operation of the engine that changes this    *)
(* state: applying an observation, ending a tick, swapping the             *)
(* configuration, saving a snapshot and starting from one.                 *)
(*                                                                         *)
(* Every one of these operations is a synchronous stretch of code on the   *)
(* only task that owns the stores, so each is one atomic step.  The order  *)
(* in which run_until takes them is the subject of module Engine.          *)
(***************************************************************************)
EXTENDS Integers, FiniteSets

CONSTANTS
    Exe,        \* executable paths that a scan may report
    Map,        \* keys of the mapped regions that a scan may report
    Configs,    \* the configurations that start-up or a reload may install
    MaxTime     \* the largest u64, at which the clock and the counters saturate

(***************************************************************************)
(* What a configuration decides here: the maps that mapprefix admits, the  *)
(* active window and the cycle length, both in whole seconds.  The flags   *)
(* are those that the engine's loop reads; autosave stands for a non-zero  *)
(* interval.                                                               *)
(***************************************************************************)
Config == [allow : SUBSET Map, active_window : Nat, cycle : Nat,
           doscan : BOOLEAN, dopredict : BOOLEAN,
           autosave : BOOLEAN, save_on_shutdown : BOOLEAN]

Time == 0 .. MaxTime

ASSUME ConfigsAssumption == Configs \subseteq Config
ASSUME MaxTimeAssumption == MaxTime \in Nat

VARIABLES
    exes,       \* ExeStore: a function from the stored paths to Exe records
    maps,       \* MapStore: the set of stored map keys
    exe_maps,   \* ExeMapIndex: the set of <<exe, map>> attachments
    markov,     \* MarkovGraph: a function from edge keys to edges
    active,     \* ActiveSet: a function from active exes to when last seen
    model_time,
    last_accounting_time,
    config,     \* the installed configuration
    db          \* the snapshot in the repository

store_vars == <<exes, maps, exe_maps, markov, active, model_time,
                last_accounting_time>>
vars == <<store_vars, config, db>>

-----------------------------------------------------------------------------
(* Vocabulary                                                              *)

\* u64::saturating_sub
Monus(m, n) == IF m > n THEN m - n ELSE 0

WrongAdd(m, n) == m + n     \* mutant: no saturation

\* u64::saturating_add
SatAdd(m, n) == IF m + n > MaxTime THEN MaxTime ELSE m + n

MarkovState == {"Neither", "AOnly", "BOnly", "Both"}

\* MarkovState::from_running
FromRunning(a, b) == CASE ~a /\ ~b -> "Neither"
                       [] a /\ ~b  -> "AOnly"
                       [] ~a /\ b  -> "BOnly"
                       [] a /\ b   -> "Both"

(***************************************************************************)
(* EdgeKey::new orders the two ends by their slot; slots are handed out in *)
(* insertion order and executables are never removed, so an id is a        *)
(* position in the order of insertion.                                     *)
(***************************************************************************)
EdgeKey(x, a, b) == IF x[a].id < x[b].id THEN <<a, b>> ELSE <<b, a>>

EdgeKeys(x, S) == {EdgeKey(x, p[1], p[2]) : p \in {q \in S \X S : q[1] # q[2]}}

(***************************************************************************)
(* MarkovGraph::ensure_edge.  transition_prob is kept as its support: the  *)
(* set of transitions that have been given weight.  time_to_leave and      *)
(* state_last_left have no influence on what is stated here.               *)
(***************************************************************************)
NewEdge(now, state) == [state |-> state, last_change_time |-> now,
                        transition_prob |-> {}, both_running_time |-> 0]

\* mutant: returns early when no time has passed
WrongUpdateState(edge, new_state, now) ==
    IF now = edge.last_change_time THEN edge
    ELSE [edge EXCEPT !.state = new_state, !.last_change_time = now]

(***************************************************************************)
(* EdgeRefMut::update_state.  A transition after no elapsed model time has *)
(* mix = exp(0) = 1: the state changes and no statistic does.              *)
(***************************************************************************)
UpdateState(edge, new_state, now) ==
    IF new_state = edge.state
    THEN edge
    ELSE [edge EXCEPT
            !.state = new_state,
            !.last_change_time = now,
            !.transition_prob = IF now > edge.last_change_time
                                THEN @ \cup {<<edge.state, new_state>>}
                                ELSE @]

\* ActiveSet::prune keeps what was seen within the window
PruneActive(act, now, window) ==
    [e \in {x \in DOMAIN act : Monus(now, act[x]) <= window} |-> act[e]]

\* mutant: one active end is enough
WrongPruneInactive(graph, S) ==
    [k \in {x \in DOMAIN graph : x[1] \in S \/ x[2] \in S} |-> graph[k]]

\* MarkovGraph::prune_inactive keeps the edges with two active ends
PruneInactive(graph, S) ==
    [k \in {x \in DOMAIN graph : x[1] \in S /\ x[2] \in S} |-> graph[k]]

\* Stores::remove_map_by_key, for every key of gone
MapsWithout(gone)  == maps \ gone
LinksWithout(gone) == {l \in exe_maps : l[2] \notin gone}

-----------------------------------------------------------------------------
(* ModelUpdater::apply                                                     *)

(***************************************************************************)
(* The slots of the executables after those of new have been inserted: a   *)
(* stored one keeps its slot, the new ones get the next slots in the       *)
(* arbitrary order in which the candidates' hash map is walked.            *)
(***************************************************************************)
SlotAssignments(new) ==
    {ids \in [DOMAIN exes \cup new -> 1 .. Cardinality(DOMAIN exes \cup new)] :
        /\ \A e \in DOMAIN exes : ids[e] = exes[e].id
        /\ \A e, f \in DOMAIN ids : ids[e] = ids[f] => e = f}

WrongCoCredit(state, period) == IF state # "Neither" THEN period ELSE 0  \* mutant

\* the time credited to an edge, only while both of its ends run
CoCredit(state, period) == IF state = "Both" THEN period ELSE 0

WrongAccountFor(now) ==     \* mutant: the period is not closed
    UNCHANGED last_accounting_time /\ model_time' = now

\* what was credited is accounted for
AccountFor(now) == last_accounting_time' = now /\ model_time' = now

(***************************************************************************)
(* One scan reports the executables that run and, for each, regions it has *)
(* mapped.  Policy::decide accepts some of them, and links are the regions *)
(* of those that allow_map admits; the rest of the scan leaves no trace.   *)
(* Running flags follow the scan alone: a stored executable that this time *)
(* was rejected still runs.                                                *)
(***************************************************************************)
ApplyWith(running, accepted, links, ids) ==
    LET now     == model_time
        period  == Monus(now, last_accounting_time)
        stored  == DOMAIN exes \cup accepted
        exes1   == [e \in stored |->
                      [id      |-> ids[e],
                       running |-> e \in running,
                       total_running_time |->
                           SatAdd(IF e \in DOMAIN exes
                                  THEN exes[e].total_running_time ELSE 0,
                                  IF e \in running THEN period ELSE 0),
                       last_seen_time |->
                           IF e \in accepted THEN now ELSE exes[e].last_seen_time]]
        touched == stored \cap running
        active1 == PruneActive([e \in DOMAIN active \cup touched |->
                                   IF e \in touched THEN now ELSE active[e]],
                               now, config.active_window)
        pruned  == PruneInactive(markov, DOMAIN active1)
        State(k) == FromRunning(k[1] \in running, k[2] \in running)
        Edge(k) == IF k \in DOMAIN pruned THEN pruned[k] ELSE NewEdge(now, State(k))
        Credited(k) == [Edge(k) EXCEPT !.both_running_time =
                           SatAdd(@, CoCredit(State(k), period))]
    IN  /\ exes' = exes1
        /\ maps' = maps \cup {l[2] : l \in links}
        /\ exe_maps' = exe_maps \cup links
        /\ active' = active1
        /\ markov' = [k \in DOMAIN pruned \cup EdgeKeys(exes1, DOMAIN active1) |->
                         UpdateState(Credited(k), State(k), now)]
        /\ AccountFor(now)
        /\ UNCHANGED <<config, db>>

(***************************************************************************)
(* The scanner reports a map together with the executable that mapped it,  *)
(* and decide rejects a candidate without an admissible map.               *)
(***************************************************************************)
Apply ==
    \E running \in SUBSET Exe :
    \E accepted \in SUBSET running :
    \E links \in SUBSET (accepted \X config.allow) :
    \E ids \in SlotAssignments(accepted) :
        /\ \A e \in accepted : \E m \in config.allow : <<e, m>> \in links
        /\ ApplyWith(running, accepted, links, ids)

-----------------------------------------------------------------------------
(* The rest of the tick, control events, persistence                       *)

(***************************************************************************)
(* The end of PreloadEngine::tick: the maps that failed to prefetch and    *)
(* whose file is gone are purged, then the model clock moves one cycle.    *)
(***************************************************************************)
EndTick(gone) ==
    /\ maps' = MapsWithout(gone)
    /\ exe_maps' = LinksWithout(gone)
    /\ model_time' = SatAdd(model_time, config.cycle)
    /\ UNCHANGED <<exes, markov, active, last_accounting_time, config, db>>

(***************************************************************************)
(* PreloadEngine::apply_reload installs a configuration and touches no     *)
(* store: neither the maps nor the active set are filtered again.          *)
(***************************************************************************)
Reload(c) ==
    /\ config' = c
    /\ UNCHANGED <<store_vars, db>>

SavedRow(e) == [id |-> exes[e].id,
                total_running_time |-> exes[e].total_running_time,
                last_seen_time |-> exes[e].last_seen_time]

\* mutant: only the active executables are worth a row
WrongSavedExes == [e \in DOMAIN exes \cap DOMAIN active |-> SavedRow(e)]

SavedExes == [e \in DOMAIN exes |-> SavedRow(e)]

(***************************************************************************)
(* PreloadEngine::snapshot_from_stores.  The rows of the exes table are    *)
(* written in slot order, so an id is also a row number.  Running flags,   *)
(* the active set and the edges' states are not part of a snapshot.        *)
(***************************************************************************)
Snapshot ==
    [model_time |-> model_time,
     last_accounting_time |-> last_accounting_time,
     exes |-> SavedExes,
     maps |-> maps,
     exe_maps |-> {l \in exe_maps : l[1] \in DOMAIN exes /\ l[2] \in maps},
     markov_edges |-> [k \in {x \in DOMAIN markov : /\ x[1] \in DOMAIN exes
                                                   /\ x[2] \in DOMAIN exes} |->
                         [transition_prob |-> markov[k].transition_prob,
                          both_running_time |-> markov[k].both_running_time]]]

\* PreloadEngine::save; the repository replaces the snapshot in one transaction
Save ==
    /\ db' = Snapshot
    /\ UNCHANGED <<store_vars, config>>

\* the snapshot names an executable or a map that it does not contain
Dangling(s) ==
    \/ \E l \in s.exe_maps : l[1] \notin DOMAIN s.exes \/ l[2] \notin s.maps
    \/ \E k \in DOMAIN s.markov_edges : \/ k[1] \notin DOMAIN s.exes
                                        \/ k[2] \notin DOMAIN s.exes

(***************************************************************************)
(* PreloadEngine::load with configuration c, which replaces whatever an    *)
(* earlier process had in memory: stores_from_snapshot, then the purge of  *)
(* the maps that the policy denies.  The exes come back in row order, so   *)
(* they get the slots that they had; nothing runs; an executable is active *)
(* again if it was admitted within the window; every edge starts in        *)
(* Neither at the loaded model time.  A dangling name makes load return an *)
(* error (ExeMissing, MapMissing) and the daemon exits: no step here.      *)
(***************************************************************************)
\* mutant: the rows come back in another order
WrongRestoredExes(s) ==
    [e \in DOMAIN s.exes |->
       [id |-> Cardinality(DOMAIN s.exes) + 1 - s.exes[e].id, running |-> FALSE,
        total_running_time |-> s.exes[e].total_running_time,
        last_seen_time |-> s.exes[e].last_seen_time]]

RestoredExes(s) ==
    [e \in DOMAIN s.exes |->
       [id |-> s.exes[e].id, running |-> FALSE,
        total_running_time |-> s.exes[e].total_running_time,
        last_seen_time |-> s.exes[e].last_seen_time]]

RestoredActive(s, window) ==
    [e \in {x \in DOMAIN s.exes :
               Monus(s.model_time, s.exes[x].last_seen_time) <= window} |->
       s.model_time]

WithRecord(edge, record) ==
    [edge EXCEPT !.transition_prob = record.transition_prob,
                 !.both_running_time = record.both_running_time]

WrongRestoredEdge(s, record) == WithRecord(NewEdge(0, "Neither"), record)  \* mutant

RestoredEdge(s, record) == WithRecord(NewEdge(s.model_time, "Neither"), record)

RestoredEdges(s) ==
    [k \in {EdgeKey(RestoredExes(s), r[1], r[2]) : r \in DOMAIN s.markov_edges} |->
       RestoredEdge(s, s.markov_edges[IF k \in DOMAIN s.markov_edges
                                      THEN k ELSE <<k[2], k[1]>>])]

WrongAdmitted(s, c) == s.maps       \* mutant: the policy is not applied

\* the restored maps, less those that the policy denies
Admitted(s, c) == s.maps \cap c.allow

Load(c) ==
    /\ ~Dangling(db)
    /\ exes' = RestoredExes(db)
    /\ maps' = Admitted(db, c)
    /\ exe_maps' = {l \in db.exe_maps : l[2] \in Admitted(db, c)}
    /\ active' = RestoredActive(db, c.active_window)
    /\ markov' = PruneInactive(RestoredEdges(db), DOMAIN active')
    /\ model_time' = db.model_time
    /\ last_accounting_time' = db.last_accounting_time
    /\ config' = c
    /\ UNCHANGED db

-----------------------------------------------------------------------------
NoEntries == [x \in {} |-> {}]

\* the repository of a first start: no rows in any table
EmptySnapshot ==
    [model_time |-> 0, last_accounting_time |-> 0, exes |-> NoEntries,
     maps |-> {}, exe_maps |-> {}, markov_edges |-> NoEntries]

Init ==
    /\ exes = NoEntries /\ maps = {} /\ exe_maps = {}
    /\ markov = NoEntries /\ active = NoEntries
    /\ model_time = 0 /\ last_accounting_time = 0
    /\ config \in Configs
    /\ db = EmptySnapshot

Next ==
    \/ Apply
    \/ \E gone \in SUBSET maps : EndTick(gone)
    \/ \E c \in Configs : Reload(c)
    \/ Save
    \/ \E c \in Configs : Load(c)

Spec == Init /\ [][Next]_vars

-----------------------------------------------------------------------------
(* Types                                                                   *)

ExeRecord == [id : Nat, running : BOOLEAN,
              total_running_time : Nat, last_seen_time : Nat]
Edge == [state : MarkovState, last_change_time : Nat,
         transition_prob : SUBSET (MarkovState \X MarkovState),
         both_running_time : Nat]
SavedExe  == [id : Nat, total_running_time : Nat, last_seen_time : Nat]
SavedEdge == [transition_prob : SUBSET (MarkovState \X MarkovState),
              both_running_time : Nat]

\* f is a function from some members of K to members of V
PartialFcn(f, K, V) == DOMAIN f \subseteq K /\ f \in [DOMAIN f -> V]

(***************************************************************************)
(* The types of the stores and of the snapshot.                            *)
(***************************************************************************)
TypeOK ==
    /\ PartialFcn(exes, Exe, ExeRecord)
    /\ maps \subseteq Map
    /\ exe_maps \subseteq Exe \X Map
    /\ PartialFcn(markov, Exe \X Exe, Edge)
    /\ PartialFcn(active, Exe, Nat)
    /\ model_time \in Time
    /\ last_accounting_time \in Time
    /\ config \in Config
    /\ db.model_time \in Time
    /\ db.last_accounting_time \in Time
    /\ PartialFcn(db.exes, Exe, SavedExe)
    /\ db.maps \subseteq Map
    /\ db.exe_maps \subseteq Exe \X Map
    /\ PartialFcn(db.markov_edges, Exe \X Exe, SavedEdge)

-----------------------------------------------------------------------------
(* Safety                                                                  *)

(***************************************************************************)
(* Running time is credited at most once for every second of model time,   *)
(* across aborted ticks that apply again at the same time, reloads and     *)
(* restarts from an older snapshot: no executable has run longer than the  *)
(* time accounted for, and accounting never runs ahead of the clock        *)
(* (model_updater.rs, "Accounting time updates"; engine.rs, load).         *)
(***************************************************************************)
NoOvercredit ==
    /\ last_accounting_time <= model_time
    /\ \A e \in DOMAIN exes : exes[e].total_running_time <= last_accounting_time

(***************************************************************************)
(* The time two executables ran together never exceeds the running time of *)
(* either: the numerator of the predictor's correlation stays within its   *)
(* denominators however edges are pruned, recreated, saved and restored    *)
(* (model_updater.rs, both_running_time; predictor.rs, correlation).       *)
(***************************************************************************)
CoRunningBounded ==
    \A k \in DOMAIN markov : \A i \in {1, 2} :
        /\ k[i] \in DOMAIN exes
        /\ markov[k].both_running_time <= exes[k[i]].total_running_time

(***************************************************************************)
(* The state of an edge always is the state of its two ends, in the        *)
(* orientation of its key; also just after a load, where no executable is  *)
(* marked running (markov_graph.rs, update_state; engine.rs,               *)
(* stores_from_snapshot).                                                  *)
(***************************************************************************)
EdgeStateTracksRunning ==
    \A k \in DOMAIN markov :
        /\ k[1] \in DOMAIN exes /\ k[2] \in DOMAIN exes
        /\ exes[k[1]].id < exes[k[2]].id
        /\ markov[k].state = FromRunning(exes[k[1]].running, exes[k[2]].running)

(***************************************************************************)
(* Edges exist only among active executables, and a running executable is  *)
(* active whatever the window and whether or not the policy still admits   *)
(* it, so no edge of a running executable is pruned (DEVELOPING.md: "edges *)
(* exist only among recently observed exes"; model_updater.rs).            *)
(***************************************************************************)
EdgesAmongActive ==
    /\ \A k \in DOMAIN markov : k[1] \in DOMAIN active /\ k[2] \in DOMAIN active
    /\ \A e \in DOMAIN exes : exes[e].running => e \in DOMAIN active
    /\ DOMAIN active \subseteq DOMAIN exes

(***************************************************************************)
(* Every attachment joins a stored executable and a stored map, and every  *)
(* stored map is attached to some executable: nothing the predictor can    *)
(* never score stays behind in the store (stores/mod.rs,                   *)
(* remove_map_by_key; model_updater.rs, attach_map; engine.rs, load).      *)
(***************************************************************************)
LinksSound ==
    /\ \A l \in exe_maps : l[1] \in DOMAIN exes /\ l[2] \in maps
    /\ \A m \in maps : \E e \in DOMAIN exes : <<e, m>> \in exe_maps

(***************************************************************************)
(* Every snapshot in the repository can be loaded: stores_from_snapshot    *)
(* never meets ExeMissing or MapMissing on what save wrote.                *)
(***************************************************************************)
SnapshotLoads == ~Dangling(db)

(***************************************************************************)
(* What was learnt about a pair survives a restart unchanged, and the      *)
(* right way round: an edge that is back after a load has the statistics   *)
(* that the snapshot holds under the same orientation (engine.rs,          *)
(* stores_from_snapshot; the slots are reassigned there).                  *)
(***************************************************************************)
LearntSurvivesLoad ==
    [][(\E c \in Configs : Load(c)) =>
          \A k \in DOMAIN markov' :
              /\ k \in DOMAIN db.markov_edges
              /\ markov'[k].transition_prob = db.markov_edges[k].transition_prob
              /\ markov'[k].both_running_time = db.markov_edges[k].both_running_time]_vars

(***************************************************************************)
(* A map that the policy in force denies never enters the store, neither   *)
(* from a scan nor from a snapshot saved under another policy (README.md:  *)
(* "the admission policy is applied immediately after restoring the        *)
(* snapshot"; engine.rs, load; model_updater.rs, allow_map).               *)
(***************************************************************************)
DeniedMapsNeverEnter ==
    [][/\ maps' \ maps \subseteq config'.allow
       /\ (\E c \in Configs : Load(c)) => maps' \subseteq config'.allow]_vars

-----------------------------------------------------------------------------
(* The inductive invariant                                                 *)

\* the slots of the slot map, and the row numbers of the table, are unique
Distinct(x) == \A e, f \in DOMAIN x : x[e].id = x[f].id => e = f

(***************************************************************************)
(* A snapshot satisfies what a load makes into the invariant again: it has *)
(* no dangling name, its times are bounded by its clock, its edges are     *)
(* oriented by row order and every map is attached.                        *)
(***************************************************************************)
SnapshotSound ==
    /\ SnapshotLoads
    /\ Distinct(db.exes)
    /\ db.last_accounting_time <= db.model_time
    /\ \A e \in DOMAIN db.exes :
          db.exes[e].total_running_time <= db.last_accounting_time
    /\ \A k \in DOMAIN db.markov_edges :
          /\ db.exes[k[1]].id < db.exes[k[2]].id
          /\ \A i \in {1, 2} : db.markov_edges[k].both_running_time
                               <= db.exes[k[i]].total_running_time
    /\ \A m \in db.maps : \E e \in DOMAIN db.exes : <<e, m>> \in db.exe_maps

IInv ==
    /\ TypeOK
    /\ Distinct(exes)
    /\ NoOvercredit
    /\ CoRunningBounded
    /\ EdgeStateTracksRunning
    /\ EdgesAmongActive
    /\ LinksSound
    /\ SnapshotSound
=============================================================================
