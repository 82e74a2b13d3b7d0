------------------------------- MODULE Engine -------------------------------
(***************************************************************************)
(* PreloadEngine::run_until: the loop that owns the stores.  One turn is a *)
(* select! between cancellation, a control event and a tick; then the      *)
(* autosave check; then, after a completed tick, a sleep.  The only await  *)
(* of a tick is the prefetch, so a tick that loses the select! has applied *)
(* its observation but neither purged maps nor moved the clock.            *)
(*                                                                         *)
(* The signal handlers of the command line (cli/src/main.rs, signals.rs)   *)
(* run beside the loop: they queue control events and cancel the token.    *)
(* The process may be killed at any time and started again.                *)
(***************************************************************************)
EXTENDS Integers, Sequences

CONSTANTS
    Exe, Map, Configs, MaxTime,     \* as in module Stores
    MaxQueued,      \* bound on the control events that are queued at a time
    MaxStarts       \* bound on how often the program is started again

ASSUME BoundsAssumption == MaxQueued \in Nat /\ MaxStarts \in Nat

VARIABLES
    exes, maps, exe_maps, markov, active, model_time, last_accounting_time,
    config, db,     \* as in module Stores
    pc,             \* where run_until is
    did_tick,       \* this turn of the loop completed a tick
    plan,           \* the maps that the tick in progress is prefetching
    scanned,        \* history: this process has applied an observation
    control,        \* control_rx: the queued control events
    cancelled,      \* the state of the cancellation token
    disk_ok,        \* a save would succeed
    starts          \* how often the program has been started again

S == INSTANCE Stores

ASSUME ConfigsAssumption == Configs \subseteq S!Config
ASSUME MaxTimeAssumption == MaxTime \in Nat

store_vars == <<exes, maps, exe_maps, markov, active, model_time,
                last_accounting_time, config, db>>
loop_vars  == <<pc, did_tick, plan, scanned>>
env_vars   == <<control, cancelled, disk_ok, starts>>
vars == <<store_vars, loop_vars, env_vars>>

-----------------------------------------------------------------------------
(* The process: "select" and "prefetch" are in the first select! of a      *)
(* turn, before the tick is first polled and while it awaits the           *)
(* prefetcher; "autosave" is behind it; "sleep" is the second select!.     *)
Running == {"select", "prefetch", "autosave", "sleep"}
Exited  == {"stopped", "failed", "killed"}
PC == Running \cup Exited

\* enum ControlEvent
Events == [kind : {"Reload"}, config : Configs] \cup [kind : {"DumpStatus", "SaveNow"}]

\* save().await: the repository takes the snapshot, or returns an error
SaveSucceeds == disk_ok /\ S!Save
WrongSaveFails ==       \* mutant: the DELETEs are committed before the INSERTs
    /\ ~disk_ok
    /\ db' = S!EmptySnapshot
    /\ UNCHANGED <<exes, maps, exe_maps, markov, active, model_time,
                   last_accounting_time, config>>
SaveFails    == ~disk_ok /\ UNCHANGED store_vars

WrongSaveOrNot == UNCHANGED store_vars      \* mutant: the process just ends

\* save, with its error ignored
SaveOrNot == SaveSucceeds \/ SaveFails

\* mutant: select! is biased and polls the tick first
WrongInterruptible == pc = "prefetch" /\ plan # {}

\* at an await of a select! that other branches can win
Interruptible == pc = "select" \/ (pc = "prefetch" /\ plan # {})

-----------------------------------------------------------------------------
(* The branches of the first select!, which is not biased                  *)

\* the channel, the token and the history go with the process
ChannelsGone ==
    /\ control' = <<>> /\ cancelled' = FALSE /\ scanned' = FALSE
    /\ UNCHANGED <<disk_ok, starts>>

\* cancel.cancelled(), here or in the select! around the sleep
Shutdown ==
    /\ Interruptible \/ pc = "sleep"
    /\ cancelled
    /\ IF config.save_on_shutdown THEN SaveOrNot ELSE UNCHANGED store_vars
    /\ pc' = "stopped"
    /\ did_tick' = FALSE /\ plan' = {}
    /\ ChannelsGone

\* handle_control: an error of SaveNow leaves run_until
HandleControl(event) ==
    \/ /\ event.kind = "Reload"
       /\ S!Reload(event.config)
       /\ pc' = "autosave"
    \/ /\ event.kind = "DumpStatus"
       /\ pc' = "autosave"
       /\ UNCHANGED store_vars
    \/ /\ event.kind = "SaveNow"
       /\ SaveSucceeds /\ pc' = "autosave"
    \/ /\ event.kind = "SaveNow"
       /\ SaveFails /\ pc' = "failed"

\* control_rx.recv(), which drops a tick in progress
Control ==
    /\ Interruptible
    /\ control # <<>>
    /\ HandleControl(Head(control))
    /\ control' = Tail(control)
    /\ did_tick' = FALSE /\ plan' = {}
    /\ UNCHANGED <<scanned, cancelled, disk_ok, starts>>

WrongTickPolled == pc = "select" /\ control = <<>>   \* mutant: control events first

\* select! polls the tick before it has polled a branch that is ready
TickPolled == pc = "select"

(***************************************************************************)
(* self.tick(), up to its await.  Without doscan the stores are not        *)
(* touched and there is no memory statistic, hence no plan; without        *)
(* dopredict there is no plan.  A scan that fails leaves run_until.        *)
(***************************************************************************)
StartTick ==
    /\ TickPolled
    /\ IF config.doscan
       THEN S!Apply /\ scanned' = TRUE
       ELSE UNCHANGED <<store_vars, scanned>>
    /\ pc' = "prefetch"
    /\ plan' \in IF config.doscan /\ config.dopredict THEN SUBSET maps' ELSE {{}}
    /\ UNCHANGED <<did_tick, env_vars>>

ScanFails ==
    /\ TickPolled /\ config.doscan
    /\ pc' = "failed"
    /\ ChannelsGone
    /\ UNCHANGED <<store_vars, did_tick, plan>>

\* the prefetch is over; gone are the failed maps whose file does not exist
FinishTick ==
    /\ pc = "prefetch"
    /\ \E gone \in SUBSET plan : S!EndTick(gone)
    /\ pc' = "autosave"
    /\ did_tick' = TRUE /\ plan' = {}
    /\ UNCHANGED <<scanned, env_vars>>

-----------------------------------------------------------------------------
(* The rest of a turn                                                      *)

\* the next turn starts at once, or after a sleep if a tick ended early
NextTurn ==
    /\ pc' \in IF did_tick THEN {"select", "sleep"} ELSE {"select"}
    /\ did_tick' = FALSE

\* the interval has not elapsed since last_save
NoAutosave ==
    /\ pc = "autosave"
    /\ NextTurn
    /\ UNCHANGED <<store_vars, plan, scanned, env_vars>>

\* it has; an error leaves run_until
Autosave ==
    /\ pc = "autosave" /\ config.autosave
    /\ \/ SaveSucceeds /\ NextTurn
       \/ SaveFails /\ pc' = "failed" /\ UNCHANGED did_tick
    /\ UNCHANGED <<plan, scanned, env_vars>>

Wake ==
    /\ pc = "sleep"
    /\ pc' = "select"
    /\ UNCHANGED <<store_vars, did_tick, plan, scanned, env_vars>>

-----------------------------------------------------------------------------
(* Around the loop                                                         *)

\* SIGHUP with a configuration that parses, SIGUSR1, SIGUSR2
Signal ==
    /\ pc \in Running
    /\ Len(control) < MaxQueued
    /\ \E event \in Events : control' = Append(control, event)
    /\ UNCHANGED <<store_vars, loop_vars, cancelled, disk_ok, starts>>

CtrlC ==
    /\ pc \in Running /\ ~cancelled
    /\ cancelled' = TRUE
    /\ UNCHANGED <<store_vars, loop_vars, control, disk_ok, starts>>

DiskChanges ==
    /\ pc \in Running
    /\ disk_ok' = ~disk_ok
    /\ UNCHANGED <<store_vars, loop_vars, control, cancelled, starts>>

\* SIGKILL, SIGTERM or another signal without a handler
Kill ==
    /\ pc \in Running
    /\ pc' = "killed" /\ did_tick' = FALSE /\ plan' = {}
    /\ ChannelsGone
    /\ UNCHANGED store_vars

\* main: PreloadEngine::load, then run_until with a new token and channel
Start ==
    /\ pc \in Exited /\ starts < MaxStarts
    /\ \E c \in Configs : S!Load(c)
    /\ pc' = "select" /\ did_tick' = FALSE /\ plan' = {} /\ scanned' = FALSE
    /\ control' = <<>> /\ cancelled' = FALSE
    /\ starts' = starts + 1
    /\ UNCHANGED disk_ok

Init ==
    /\ S!Init
    /\ pc = "select" /\ did_tick = FALSE /\ plan = {} /\ scanned = FALSE
    /\ control = <<>> /\ cancelled = FALSE
    /\ disk_ok = TRUE
    /\ starts = 0

Loop == \/ Shutdown \/ Control \/ StartTick \/ ScanFails \/ FinishTick
        \/ NoAutosave \/ Autosave \/ Wake
Environment == Signal \/ CtrlC \/ DiskChanges \/ Kill \/ Start

Next == Loop \/ Environment

(***************************************************************************)
(* The loop's task is polled again whenever it can move, blocking I/O and  *)
(* the sleep end.  select! polls its branches in random order, so a branch *)
(* that is ready again and again is polled first in the end: strong        *)
(* fairness for each of the three, which the others may overtake any       *)
(* number of times but not for ever.  Only a tick without maps to prefetch *)
(* is over when it has been polled; FinishTick after an await has no more  *)
(* than weak fairness, as control events may drop every such tick.         *)
(***************************************************************************)
Fairness ==
    /\ SF_vars(StartTick \/ ScanFails)
    /\ WF_vars(FinishTick)
    /\ WF_vars(NoAutosave \/ Autosave)
    /\ WF_vars(Wake)
    /\ SF_vars(Shutdown)
    /\ SF_vars(Control)

Spec == Init /\ [][Next]_vars /\ Fairness

-----------------------------------------------------------------------------
TypeOK ==
    /\ S!TypeOK
    /\ pc \in PC /\ did_tick \in BOOLEAN /\ scanned \in BOOLEAN
    /\ plan \subseteq maps
    /\ control \in Seq(Events)
    /\ cancelled \in BOOLEAN /\ disk_ok \in BOOLEAN
    /\ starts \in 0 .. MaxStarts

(***************************************************************************)
(* The loop uses the stores only through their operations: dropped ticks,  *)
(* reloads between an application and its tick's end, failed saves, kills  *)
(* and restarts included, every behaviour of the engine is a behaviour of  *)
(* module Stores, so what holds of the stores holds in the daemon.         *)
(***************************************************************************)
ImplementsStores == S!Init /\ [][S!Next]_(S!vars)

(***************************************************************************)
(* A clean shutdown loses nothing: whatever turn of the loop Ctrl-C meets, *)
(* a dropped tick or the sleep, the repository then holds exactly the      *)
(* stores in memory, if saving was asked for and possible (GUIDE.md:       *)
(* "Shut down (and save if save_on_shutdown = true)").                     *)
(***************************************************************************)
ShutdownSaves ==
    pc = "stopped" /\ config.save_on_shutdown /\ disk_ok => db = S!Snapshot

(***************************************************************************)
(* When scanning is never switched off, one application credits at most    *)
(* one cycle: a dropped tick, a kill or a restart never leaves a backlog   *)
(* of model time that the executables running next would be credited with  *)
(* (engine.rs, tick; model_updater.rs, period).                            *)
(***************************************************************************)
CreditBounded == model_time <= last_accounting_time + config.cycle

(***************************************************************************)
(* Transitions are learnt from two observations of one process only.  The  *)
(* first observation after a start, which meets edges restored as Neither  *)
(* whatever ran before the restart, gives weight to no transition          *)
(* (engine.rs, stores_from_snapshot; markov_graph.rs, update_state).       *)
(***************************************************************************)
LearnsOnlyObserved ==
    [][StartTick /\ ~scanned =>
         \A k \in DOMAIN markov \cap DOMAIN markov' :
             markov'[k].transition_prob = markov[k].transition_prob]_vars

(***************************************************************************)
(* Ctrl-C ends the process, wherever the loop is and whatever else is      *)
(* queued (README.md: "SIGINT is handled immediately").                    *)
(***************************************************************************)
CancelEnds == cancelled ~> pc \in Exited

(***************************************************************************)
(* Every queued control event is handled while the process lives, also     *)
(* when others follow without end: either the queue is empty again and     *)
(* again, or events are taken from its head for ever (run_until).          *)
(***************************************************************************)
ControlHandled == []<>(control = <<>> \/ pc \in Exited) \/ []<><<Control>>_vars

(***************************************************************************)
(* Control events starve the ticks only at their await: a process that is  *)
(* not ended completes ticks for ever, however many events are queued and  *)
(* whatever they are, unless it has maps to prefetch again and again.      *)
(* There each event drops the tick, and a stream of them without end all   *)
(* ticks (run_until, select!).                                             *)
(***************************************************************************)
TicksGoOn ==
    []<>(pc \in Exited) \/ []<>did_tick \/ []<>(pc = "prefetch" /\ plan # {})
=============================================================================
