---------------------------- MODULE EngineProofs ----------------------------
(* Machine-checked proofs about module Engine.                             *)
EXTENDS Engine, TLAPS

(***************************************************************************)
(* The control channel holds control events only.                          *)
(***************************************************************************)
ControlTyped == control \in Seq(Events)

LEMMA ControlTypedInductive == ControlTyped /\ [Next]_vars => ControlTyped'
<1>. SUFFICES ASSUME ControlTyped, [Next]_vars PROVE ControlTyped'
  OBVIOUS
<1>. USE DEF ControlTyped
<1>1. CASE Control
  BY <1>1 DEF Control
<1>2. CASE Signal
  BY <1>2 DEF Signal
<1>3. CASE Start
  BY <1>3 DEF Start
<1>4. CASE UNCHANGED env_vars
  BY <1>4 DEF env_vars
<1>5. CASE CtrlC \/ DiskChanges
  BY <1>5 DEF CtrlC, DiskChanges
<1>6. StartTick \/ FinishTick \/ NoAutosave \/ Autosave \/ Wake \/ UNCHANGED vars
        => UNCHANGED env_vars
  BY DEF StartTick, FinishTick, NoAutosave, Autosave, Wake, vars
<1>7. CASE Shutdown \/ ScanFails \/ Kill
  <2>1. control' = <<>>
    BY <1>7 DEF Shutdown, ScanFails, Kill, ChannelsGone
  <2>. QED  BY <2>1
<1>. QED  BY <1>1, <1>2, <1>3, <1>4, <1>5, <1>6, <1>7 DEF Next, Loop, Environment

(***************************************************************************)
(* A save is the operation of the stores, or leaves them alone.            *)
(***************************************************************************)
LEMMA SaveIsStoresStep ==
    /\ SaveSucceeds => S!Next
    /\ SaveFails \/ UNCHANGED store_vars => UNCHANGED S!vars
BY DEF SaveSucceeds, SaveFails, S!Next, store_vars, S!vars, S!store_vars

(***************************************************************************)
(* The maps being prefetched are stored: nothing else changes the stores   *)
(* while a tick waits for the prefetcher.                                  *)
(***************************************************************************)
PlanStored == plan \subseteq maps

LEMMA PlanStoredInductive == PlanStored /\ [Next]_vars => PlanStored'
<1>. SUFFICES ASSUME PlanStored, [Next]_vars PROVE PlanStored'
  OBVIOUS
<1>. USE DEF PlanStored
<1>1. CASE StartTick
  BY <1>1 DEF StartTick
<1>2. SaveSucceeds \/ SaveFails => maps' = maps
  BY DEF SaveSucceeds, SaveFails, S!Save, S!store_vars, store_vars
<1>3. CASE Autosave
  BY <1>2, <1>3 DEF Autosave
<1>4. CASE ScanFails \/ NoAutosave \/ Wake \/ Signal \/ CtrlC \/ DiskChanges \/ UNCHANGED vars
  BY <1>4 DEF ScanFails, NoAutosave, Wake, Signal, CtrlC, DiskChanges, vars,
              store_vars, loop_vars
<1>5. Shutdown \/ Control \/ FinishTick \/ Kill \/ Start => plan' = {}
  BY DEF Shutdown, Control, FinishTick, Kill, Start
<1>. QED  BY <1>1, <1>3, <1>4, <1>5 DEF Next, Loop, Environment

(***************************************************************************)
(* Every step of the loop and of its environment is one operation of the   *)
(* stores or leaves them alone.                                            *)
(***************************************************************************)
LEMMA StepIsStoresStep ==
    ControlTyped /\ PlanStored /\ [Next]_vars => [S!Next]_(S!vars)
<1>. SUFFICES ASSUME ControlTyped, PlanStored, [Next]_vars PROVE S!Next \/ UNCHANGED S!vars
  OBVIOUS
<1>1. CASE Shutdown
  BY <1>1, SaveIsStoresStep DEF Shutdown, SaveOrNot
<1>2. CASE Control
  <2>1. Head(control) \in Events
    BY <1>2 DEF Control, ControlTyped
  <2>2. CASE Head(control).kind = "Reload" /\ S!Reload(Head(control).config)
    <3>1. Head(control).config \in Configs
      BY <2>1, <2>2 DEF Events
    <3>. QED  BY <2>2, <3>1 DEF S!Next
  <2>. QED  BY <1>2, <2>2, SaveIsStoresStep DEF Control, HandleControl
<1>3. CASE StartTick
  <2>1. UNCHANGED <<store_vars, scanned>> => UNCHANGED store_vars
    OBVIOUS
  <2>. QED  BY <1>3, <2>1, SaveIsStoresStep DEF StartTick, S!Next
<1>4. CASE FinishTick
  BY <1>4 DEF FinishTick, PlanStored, S!Next
<1>5. CASE Autosave
  BY <1>5, SaveIsStoresStep DEF Autosave
<1>6. CASE ScanFails \/ NoAutosave \/ Wake
  BY <1>6, SaveIsStoresStep DEF ScanFails, NoAutosave, Wake, store_vars
<1>7. CASE Start
  BY <1>7 DEF Start, S!Next
<1>8. CASE Signal \/ CtrlC \/ DiskChanges \/ Kill \/ UNCHANGED vars
  BY <1>8, SaveIsStoresStep DEF Signal, CtrlC, DiskChanges, Kill, vars, store_vars
<1>. QED  BY <1>1, <1>2, <1>3, <1>4, <1>5, <1>6, <1>7, <1>8
          DEF Next, Loop, Environment

(***************************************************************************)
(* The engine implements the stores' specification.                        *)
(***************************************************************************)
THEOREM EngineImplementsStores == Spec => ImplementsStores
<1>1. Init => S!Init /\ ControlTyped /\ PlanStored
  BY DEF Init, ControlTyped, PlanStored
<1>. QED  BY <1>1, ControlTypedInductive, PlanStoredInductive, StepIsStoresStep, PTL
          DEF Spec, ImplementsStores

(***************************************************************************)
(* A clean shutdown leaves the stores in memory in the repository.         *)
(***************************************************************************)
THEOREM ShutdownLosesNothing == Spec => []ShutdownSaves
<1>1. Init => ShutdownSaves
  BY DEF Init, ShutdownSaves
<1>2. ShutdownSaves /\ [Next]_vars => ShutdownSaves'
  <2>. SUFFICES ASSUME ShutdownSaves, [Next]_vars, pc' = "stopped",
                       config'.save_on_shutdown, disk_ok'
                PROVE  db' = S!Snapshot'
    BY DEF ShutdownSaves
  <2>1. CASE Shutdown
    <3>1. SaveSucceeds
      BY <2>1 DEF Shutdown, SaveOrNot, SaveSucceeds, SaveFails, store_vars,
                  ChannelsGone, S!Save
    <3>. QED  BY <3>1 DEF SaveSucceeds, S!Save, S!Snapshot, S!store_vars, S!SavedExes,
                          S!SavedRow
  <2>2. CASE UNCHANGED vars
    BY <2>2 DEF vars, store_vars, loop_vars, env_vars, ShutdownSaves, S!Snapshot,
                S!SavedExes, S!SavedRow
  <2>3. pc' # "stopped" \/ Shutdown \/ UNCHANGED vars
    BY DEF Next, Loop, Environment, Control, HandleControl, StartTick, ScanFails,
           FinishTick, NoAutosave, Autosave, NextTurn, Wake, Signal, CtrlC,
           DiskChanges, Kill, Start, loop_vars, Running
  <2>. QED  BY <2>1, <2>2, <2>3
<1>. QED  BY <1>1, <1>2, PTL DEF Spec

-----------------------------------------------------------------------------
(* Daemons that always scan                                                *)

AlwaysScanning == \A c \in Configs : c.doscan
OneCycle == \A c, d \in Configs : c.cycle = d.cycle

(***************************************************************************)
(* The clock: the credit that is still to be given is none while a tick    *)
(* that has applied its observation is in progress, and one cycle at most  *)
(* otherwise, in the stores and in the snapshot that a start goes back to. *)
(***************************************************************************)
ClockInv ==
    /\ config \in Configs
    /\ model_time \in Nat /\ last_accounting_time \in Nat
    /\ db.model_time \in Nat /\ db.last_accounting_time \in Nat
    /\ pc = "prefetch" => model_time = last_accounting_time
    /\ OneCycle => /\ CreditBounded
                   /\ db.model_time <= db.last_accounting_time + config.cycle

LEMMA ClockUnmoved ==
  ASSUME ClockInv, UNCHANGED <<model_time, last_accounting_time, config, db>>,
         pc' = "prefetch" => pc = "prefetch"
  PROVE  ClockInv'
BY DEF ClockInv, CreditBounded

LEMMA SaveKeepsClock ==
  ASSUME ClockInv, SaveSucceeds, pc' # "prefetch"
  PROVE  ClockInv'
BY DEF ClockInv, CreditBounded, SaveSucceeds, S!Save, S!Snapshot, S!store_vars

LEMMA ApplyClock ==
  ASSUME S!Apply
  PROVE  /\ model_time' = model_time /\ last_accounting_time' = model_time
         /\ UNCHANGED <<config, db>>
BY DEF S!Apply, S!ApplyWith, S!AccountFor

LEMMA CycleTyped ==
  ASSUME NEW c \in Configs
  PROVE  c.cycle \in Nat
BY ConfigsAssumption DEF S!Config

LEMMA ClockKept ==
  ASSUME AlwaysScanning, ControlTyped, ClockInv, [Next]_vars
  PROVE  ClockInv'
<1>1. SaveFails \/ UNCHANGED store_vars
        => UNCHANGED <<model_time, last_accounting_time, config, db>>
  BY DEF SaveFails, store_vars
<1>2. CASE Shutdown
  <2>1. pc' # "prefetch"
    BY <1>2 DEF Shutdown
  <2>. QED
    BY <1>1, <1>2, <2>1, SaveKeepsClock, ClockUnmoved DEF Shutdown, SaveOrNot
<1>3. CASE Control
  <2>1. Head(control) \in Events
    BY <1>3 DEF Control, ControlTyped
  <2>2. pc' # "prefetch"
    BY <1>3 DEF Control, HandleControl
  <2>3. CASE Head(control).kind = "Reload" /\ S!Reload(Head(control).config)
    <3>1. config' \in Configs
      BY <2>1, <2>3 DEF Events, S!Reload
    <3>2. OneCycle => config'.cycle = config.cycle
      BY <3>1 DEF OneCycle, ClockInv
    <3>. QED
      BY <2>2, <2>3, <3>1, <3>2 DEF ClockInv, CreditBounded, S!Reload, S!store_vars
  <2>. QED
    BY <1>1, <1>3, <2>2, <2>3, SaveKeepsClock, ClockUnmoved DEF Control, HandleControl
<1>4. CASE StartTick
  <2>1. S!Apply
    BY <1>4 DEF StartTick, AlwaysScanning, ClockInv
  <2>2. config.cycle \in Nat
    BY CycleTyped DEF ClockInv
  <2>. QED  BY <2>1, <2>2, ApplyClock DEF ClockInv, CreditBounded
<1>5. CASE FinishTick
  <2>1. /\ model_time' = S!SatAdd(model_time, config.cycle)
        /\ UNCHANGED <<last_accounting_time, config, db>>
    BY <1>5 DEF FinishTick, S!EndTick
  <2>2. model_time' \in Nat /\ model_time' <= model_time + config.cycle
    BY <2>1, CycleTyped, MaxTimeAssumption DEF S!SatAdd, ClockInv
  <2>3. pc = "prefetch" /\ pc' # "prefetch"
    BY <1>5 DEF FinishTick
  <2>. QED  BY <2>1, <2>2, <2>3 DEF ClockInv, CreditBounded
<1>6. CASE Autosave
  <2>1. pc' # "prefetch"
    BY <1>6 DEF Autosave, NextTurn
  <2>. QED  BY <1>1, <1>6, <2>1, SaveKeepsClock, ClockUnmoved DEF Autosave
<1>7. CASE Start
  <2>1. PICK c \in Configs : S!Load(c)
    BY <1>7 DEF Start
  <2>2. OneCycle => config'.cycle = config.cycle
    BY <2>1 DEF S!Load, OneCycle, ClockInv
  <2>. QED  BY <1>7, <2>1, <2>2 DEF Start, S!Load, ClockInv, CreditBounded
<1>8. CASE ScanFails \/ NoAutosave \/ Wake \/ Signal \/ CtrlC \/ DiskChanges \/ Kill
           \/ UNCHANGED vars
  <2>1. pc' = "prefetch" => pc = "prefetch"
    BY <1>8 DEF ScanFails, NoAutosave, NextTurn, Wake, Signal, CtrlC, DiskChanges,
                Kill, vars, loop_vars
  <2>2. UNCHANGED store_vars
    BY <1>8 DEF ScanFails, NoAutosave, Wake, Signal, CtrlC, DiskChanges, Kill, vars
  <2>. QED  BY <1>1, <2>1, <2>2, ClockUnmoved
<1>. QED
  BY <1>2, <1>3, <1>4, <1>5, <1>6, <1>7, <1>8 DEF Next, Loop, Environment

LEMMA ClockStarts == ASSUME Init PROVE ClockInv
BY CycleTyped DEF Init, S!Init, S!EmptySnapshot, ClockInv, CreditBounded

(***************************************************************************)
(* When every configuration scans, and all have one cycle, the credit that *)
(* waits for the next application never exceeds a cycle.                   *)
(***************************************************************************)
THEOREM NoBacklog ==
  ASSUME AlwaysScanning, OneCycle
  PROVE  Spec => []CreditBounded
<1>1. Init => ControlTyped /\ ClockInv
  <2>1. Init => ControlTyped
    BY DEF Init, ControlTyped
  <2>. QED  BY <2>1, ClockStarts
<1>2. ControlTyped /\ ClockInv /\ [Next]_vars => ClockInv'
  BY ClockKept
<1>3. ClockInv => CreditBounded
  BY DEF ClockInv
<1>. QED  BY <1>1, <1>2, <1>3, ControlTypedInductive, PTL DEF Spec

(***************************************************************************)
(* Until a process has applied an observation, its edges are those of the  *)
(* load: unchanged since the time at which the clock still stands.         *)
(***************************************************************************)
Unobserved(edge) ==
    "transition_prob" \in DOMAIN edge /\ edge.last_change_time = model_time

ObservedInv ==
    /\ pc \in Running /\ ~scanned => \A k \in DOMAIN markov : Unobserved(markov[k])
    /\ pc = "prefetch" => scanned

LEMMA LoadUnobserved ==
  ASSUME NEW c, S!Load(c)
  PROVE  \A k \in DOMAIN markov' : Unobserved(markov[k])'
<1>1. ASSUME NEW record
      PROVE  /\ "transition_prob" \in DOMAIN S!RestoredEdge(db, record)
             /\ S!RestoredEdge(db, record).last_change_time = db.model_time
  BY DEF S!RestoredEdge, S!WithRecord, S!NewEdge
<1>2. \A k \in DOMAIN markov' : \E record : markov'[k] = S!RestoredEdge(db, record)
  BY DEF S!Load, S!PruneInactive, S!RestoredEdges
<1>3. model_time' = db.model_time
  BY DEF S!Load
<1>. QED  BY <1>1, <1>2, <1>3 DEF Unobserved

LEMMA ObservedStarts == ASSUME Init PROVE ObservedInv
BY DEF Init, S!Init, S!NoEntries, ObservedInv

LEMMA ObservedKept ==
  ASSUME AlwaysScanning, ClockInv, ObservedInv, [Next]_vars
  PROVE  ObservedInv'
<1>. USE DEF ObservedInv
<1>1. ASSUME UNCHANGED <<markov, model_time, scanned>>, pc \in Running,
             pc' = "prefetch" => pc = "prefetch"
      PROVE  ObservedInv'
  BY <1>1 DEF Unobserved
<1>2. SaveSucceeds \/ SaveFails \/ UNCHANGED store_vars
        => UNCHANGED <<markov, model_time>>
  BY DEF SaveSucceeds, SaveFails, S!Save, S!store_vars, store_vars
<1>3. CASE Shutdown \/ ScanFails \/ Kill
  BY <1>3 DEF Shutdown, ScanFails, Kill, Running
<1>4. CASE Control
  <2>1. UNCHANGED <<markov, model_time>>
    BY <1>2, <1>4 DEF Control, HandleControl, S!Reload, S!store_vars
  <2>2. pc \in Running /\ pc' # "prefetch" /\ scanned' = scanned
    BY <1>4 DEF Control, HandleControl, Interruptible, Running
  <2>. QED  BY <1>1, <2>1, <2>2
<1>5. CASE StartTick
  BY <1>5 DEF StartTick, AlwaysScanning, ClockInv
<1>6. CASE FinishTick
  BY <1>6 DEF FinishTick
<1>7. CASE Autosave
  <2>1. UNCHANGED <<markov, model_time>>
    BY <1>2, <1>7 DEF Autosave
  <2>2. pc \in Running /\ pc' # "prefetch" /\ scanned' = scanned
    BY <1>7 DEF Autosave, NextTurn, Running
  <2>. QED  BY <1>1, <2>1, <2>2
<1>8. CASE Start
  <2>1. PICK c \in Configs : S!Load(c)
    BY <1>8 DEF Start
  <2>. QED  BY <1>8, <2>1, LoadUnobserved DEF Start
<1>9. CASE NoAutosave \/ Wake \/ Signal \/ CtrlC \/ DiskChanges
  <2>1. UNCHANGED store_vars
    BY <1>9 DEF NoAutosave, Wake, Signal, CtrlC, DiskChanges
  <2>2. pc \in Running /\ (pc' = "prefetch" => pc = "prefetch") /\ scanned' = scanned
    BY <1>9 DEF NoAutosave, NextTurn, Wake, Signal, CtrlC, DiskChanges, Running, loop_vars
  <2>. QED  BY <1>1, <1>2, <2>1, <2>2
<1>10. CASE UNCHANGED vars
  BY <1>10 DEF vars, store_vars, loop_vars, Unobserved
<1>. QED
  BY <1>3, <1>4, <1>5, <1>6, <1>7, <1>8, <1>9, <1>10 DEF Next, Loop, Environment

\* an application at the time of the last change gives weight to no transition
LEMMA NothingLearnt ==
  ASSUME NEW edge, "transition_prob" \in DOMAIN edge, edge.last_change_time \in Nat,
         NEW credit, NEW state
  PROVE  S!UpdateState([edge EXCEPT !.both_running_time = credit], state,
                       edge.last_change_time).transition_prob
            = edge.transition_prob
<1>. DEFINE credited == [edge EXCEPT !.both_running_time = credit]
<1>1. /\ credited.transition_prob = edge.transition_prob
      /\ credited.last_change_time = edge.last_change_time
      /\ "transition_prob" \in DOMAIN credited
  OBVIOUS
<1>. HIDE DEF credited
<1>. QED  BY <1>1 DEF S!UpdateState

LEMMA EdgeEnds ==
  ASSUME NEW x, NEW A, NEW k \in S!EdgeKeys(x, A)
  PROVE  k[1] \in A /\ k[2] \in A
<1>1. PICK p \in A \X A : k = S!EdgeKey(x, p[1], p[2])
  BY DEF S!EdgeKeys
<1>2. p[1] \in A /\ p[2] \in A
  OBVIOUS
<1>3. k = <<p[1], p[2]>> \/ k = <<p[2], p[1]>>
  BY <1>1, Zenon DEF S!EdgeKey
<1>. QED  BY <1>2, <1>3

LEMMA EdgesFollow ==
  ASSUME S!Apply, NEW k \in DOMAIN markov \cap DOMAIN markov'
  PROVE  \E credit, state :
            markov'[k] = S!UpdateState([markov[k] EXCEPT !.both_running_time = credit],
                                       state, model_time)
<1>1. PICK running, accepted, links, ids :
         S!ApplyWith(running, accepted, links, ids)
  BY DEF S!Apply
<1>. DEFINE exes1 == exes'
            active1 == active'
            pruned == S!PruneInactive(markov, DOMAIN active1)
            State(x) == S!FromRunning(x[1] \in running, x[2] \in running)
            Old(x) == IF x \in DOMAIN pruned THEN pruned[x]
                      ELSE S!NewEdge(model_time, State(x))
            Credit(x) == S!SatAdd(Old(x).both_running_time,
                                  S!CoCredit(State(x), S!Monus(model_time, last_accounting_time)))
<1>2. markov' = [x \in DOMAIN pruned \cup S!EdgeKeys(exes1, DOMAIN active1) |->
                    S!UpdateState([Old(x) EXCEPT !.both_running_time = Credit(x)],
                                  State(x), model_time)]
  BY <1>1 DEF S!ApplyWith
<1>3. k \in DOMAIN pruned
  <2>1. CASE k \in S!EdgeKeys(exes1, DOMAIN active1)
    <3>. HIDE DEF active1, exes1
    <3>1. k[1] \in DOMAIN active1 /\ k[2] \in DOMAIN active1
      BY <2>1, EdgeEnds
    <3>. QED  BY <3>1 DEF S!PruneInactive
  <2>. QED  BY <1>2, <2>1
<1>4. Old(k) = markov[k]
  BY <1>3 DEF S!PruneInactive
<1>. HIDE DEF pruned, State, Old, Credit, exes1, active1
<1>. QED  BY <1>2, <1>3, <1>4

(***************************************************************************)
(* When every configuration scans, the first observation of a process      *)
(* gives weight to no transition, whatever was restored: what was before   *)
(* is not known.                                                           *)
(***************************************************************************)
THEOREM FirstObservationTeachesNothing ==
  ASSUME AlwaysScanning
  PROVE  Spec => LearnsOnlyObserved
<1>1. Init => ControlTyped /\ ClockInv /\ ObservedInv
  <2>1. Init => ControlTyped
    BY DEF Init, ControlTyped
  <2>. QED  BY <2>1, ClockStarts, ObservedStarts
<1>2. ControlTyped /\ ClockInv /\ ObservedInv /\ [Next]_vars => ClockInv' /\ ObservedInv'
  BY ClockKept, ObservedKept
<1>3. ControlTyped /\ ClockInv /\ ObservedInv /\ [Next]_vars
        => [StartTick /\ ~scanned =>
              \A k \in DOMAIN markov \cap DOMAIN markov' :
                  markov'[k].transition_prob = markov[k].transition_prob]_vars
  <2>. SUFFICES ASSUME ClockInv, ObservedInv, StartTick, ~scanned,
                       NEW k \in DOMAIN markov \cap DOMAIN markov'
                PROVE  markov'[k].transition_prob = markov[k].transition_prob
    OBVIOUS
  <2>1. S!Apply
    BY DEF StartTick, AlwaysScanning, ClockInv
  <2>2. Unobserved(markov[k])
    BY DEF ObservedInv, StartTick, TickPolled, Running
  <2>3. PICK credit, state :
           markov'[k] = S!UpdateState([markov[k] EXCEPT !.both_running_time = credit],
                                      state, model_time)
    BY <2>1, EdgesFollow
  <2>. QED  BY <2>2, <2>3, NothingLearnt DEF Unobserved, ClockInv
<1>. QED
  BY <1>1, <1>2, <1>3, ControlTypedInductive, PTL DEF Spec, LearnsOnlyObserved

-----------------------------------------------------------------------------
(* What is proved of the stores holds in the daemon                        *)

P == INSTANCE StoresProofs

LEMMA SameInit == S!Init => P!Init
  BY DEF S!Init, P!Init, S!NoEntries, P!NoEntries, S!EmptySnapshot, P!EmptySnapshot

LEMMA SameApply == S!Apply => P!Apply
<1>1. ASSUME NEW running, NEW accepted, NEW links, NEW ids,
             S!ApplyWith(running, accepted, links, ids)
      PROVE  P!ApplyWith(running, accepted, links, ids)
  BY <1>1
  DEF S!ApplyWith, P!ApplyWith, S!Monus, P!Monus, S!SatAdd, P!SatAdd,
      S!PruneActive, P!PruneActive, S!PruneInactive, P!PruneInactive,
      S!FromRunning, P!FromRunning, S!NewEdge, P!NewEdge, S!CoCredit, P!CoCredit,
      S!EdgeKeys, P!EdgeKeys, S!EdgeKey, P!EdgeKey, S!UpdateState, P!UpdateState,
      S!AccountFor, P!AccountFor
<1>2. \A new : S!SlotAssignments(new) = P!SlotAssignments(new)
  BY DEF S!SlotAssignments, P!SlotAssignments, S!Cardinality, P!Cardinality
<1> SUFFICES ASSUME NEW running \in SUBSET Exe, NEW accepted \in SUBSET running,
                    NEW links \in SUBSET (accepted \X config.allow),
                    NEW ids \in S!SlotAssignments(accepted),
                    \A e \in accepted : \E m \in config.allow : <<e, m>> \in links,
                    S!ApplyWith(running, accepted, links, ids)
             PROVE  P!Apply
  BY Zenon DEF S!Apply
<1>3. P!ApplyWith(running, accepted, links, ids)
  BY <1>1
<1>4. ids \in P!SlotAssignments(accepted)
  BY <1>2
<1> QED BY <1>3, <1>4, Zenon DEF P!Apply

LEMMA SameLoad == ASSUME NEW c, S!Load(c) PROVE P!Load(c)
  BY DEF S!Load, P!Load, S!Dangling, P!Dangling, S!RestoredExes, P!RestoredExes,
         S!Admitted, P!Admitted, S!RestoredActive, P!RestoredActive, S!Monus, P!Monus,
         S!PruneInactive, P!PruneInactive, S!RestoredEdges, P!RestoredEdges,
         S!RestoredEdge, P!RestoredEdge, S!EdgeKey, P!EdgeKey,
         S!WithRecord, P!WithRecord, S!NewEdge, P!NewEdge

\* the operations that the loop uses are those that the theorems are about
LEMMA SameNext == [S!Next]_(S!vars) => [P!Next]_(P!vars)
<1>1. UNCHANGED S!vars => UNCHANGED P!vars
  BY DEF S!vars, P!vars, S!store_vars, P!store_vars
<1>2. ASSUME NEW gone, S!EndTick(gone) PROVE P!EndTick(gone)
  BY <1>2 DEF S!EndTick, P!EndTick, S!MapsWithout, P!MapsWithout,
              S!LinksWithout, P!LinksWithout, S!SatAdd, P!SatAdd
<1>3. ASSUME NEW c, S!Reload(c) PROVE P!Reload(c)
  BY <1>3 DEF S!Reload, P!Reload, S!store_vars, P!store_vars
<1>4. S!Save => P!Save
  BY DEF S!Save, P!Save, S!Snapshot, P!Snapshot, S!SavedExes, P!SavedExes,
         S!SavedRow, P!SavedRow, S!store_vars, P!store_vars
<1> QED BY <1>1, <1>2, <1>3, <1>4, SameApply, SameLoad DEF S!Next, P!Next

LEMMA Assumptions == Configs \subseteq P!Config /\ MaxTime \in Nat
  BY ConfigsAssumption, MaxTimeAssumption DEF S!Config, P!Config

LEMMA EngineImplementsP == Spec => P!Spec
<1>1. Spec => S!Init /\ [][S!Next]_(S!vars)
  BY EngineImplementsStores DEF ImplementsStores
<1> QED BY <1>1, SameInit, SameNext, PTL DEF P!Spec

(***************************************************************************)
(* What is proved of the stores one operation at a time holds in the       *)
(* daemon: with ticks dropped at their await, reloads, failed saves, kills *)
(* and restarts in any order, no time is credited twice, edges agree with  *)
(* what runs and join active executables, no attachment dangles, and what  *)
(* is in the repository can be loaded (run_until; load).                   *)
(***************************************************************************)
THEOREM DaemonKeepsStoresSound ==
  Spec => [](/\ P!TypeOK /\ P!NoOvercredit /\ P!CoRunningBounded
             /\ P!EdgeStateTracksRunning /\ P!EdgesAmongActive
             /\ P!LinksSound /\ P!SnapshotLoads)
<1>1. P!ConfigsAssumption
  BY Assumptions
<1>2. P!MaxTimeAssumption
  BY Assumptions
<1>3. P!Spec => []P!TypeOK
  BY <1>1, <1>2, P!TypeCorrect, PTL
<1>4. P!Spec => []P!NoOvercredit
  BY <1>1, <1>2, P!NeverOvercredited, PTL
<1>5. P!Spec => []P!CoRunningBounded
  BY <1>1, <1>2, P!CoRunningNeverExceeds, PTL
<1>6. P!Spec => []P!EdgeStateTracksRunning
  BY <1>1, <1>2, P!EdgeStatesAgree, PTL
<1>7. P!Spec => []P!EdgesAmongActive
  BY <1>1, <1>2, P!OnlyActiveHaveEdges, PTL
<1>8. P!Spec => []P!LinksSound
  BY <1>1, <1>2, P!LinksStaySound, PTL
<1>9. P!Spec => []P!SnapshotLoads
  BY <1>1, <1>2, P!EverySnapshotLoads, PTL
<1> QED
  BY <1>3, <1>4, <1>5, <1>6, <1>7, <1>8, <1>9, EngineImplementsP, PTL

(***************************************************************************)
(* In the daemon, too, a start gives back what was learnt about a pair     *)
(* under the orientation in which it was saved, and neither a scan nor a   *)
(* start brings in a map that the policy in force denies (run_until;       *)
(* stores_from_snapshot; apply_reload).                                    *)
(***************************************************************************)
THEOREM DaemonRestores == Spec => P!LearntSurvivesLoad /\ P!DeniedMapsNeverEnter
<1>1. P!ConfigsAssumption
  BY Assumptions
<1>2. P!MaxTimeAssumption
  BY Assumptions
<1>3. P!Spec => P!LearntSurvivesLoad
  BY <1>1, <1>2, P!LearntSurvives, PTL
<1>4. P!Spec => P!DeniedMapsNeverEnter
  BY <1>1, <1>2, P!DeniedMapsStayOut, PTL
<1> QED BY <1>3, <1>4, EngineImplementsP, PTL
=============================================================================
