------------------------------ MODULE Repository ------------------------------
(***************************************************************************)
(* SqliteRepository with the stores that it saves and restores: a save is  *)
(* one transaction of many statements, a load one SELECT for each table.   *)
(* Any statement may fail and the process may be killed between any two;   *)
(* the database runs with journal_mode WAL and synchronous NORMAL, so a    *)
(* loss of power may also undo commits that are not yet checkpointed.      *)
(*                                                                         *)
(* A row is its key: the other columns are written and read with it.  What *)
(* a load does with the rows beyond restoring them is in module Stores.    *)
(***************************************************************************)
EXTENDS ExeMapIndex, Integers, Sequences, FiniteSets

CONSTANTS
    Exe, Map,
    MaxTime,        \* bound on the model time
    MaxUnsynced     \* bound on the commits between two checkpoints

ASSUME BoundsAssumption == MaxTime \in Nat /\ MaxUnsynced \in Nat

VARIABLES
    exes, maps, markovs, model_time,    \* the stores, with the index
    pc,         \* "loading", "running", "saving", or "down"
    commits,    \* the database after the last checkpoint and each commit since
    tables,     \* the database as the transaction sees it, or what was read
    step,       \* the table of the next DELETE or SELECT
    left        \* the rows still to be inserted

memory_vars == <<exes, maps, markovs, model_time, exe_to_maps, map_to_exes>>
vars == <<memory_vars, pc, commits, tables, step, left>>

-----------------------------------------------------------------------------
\* the tables, in the order of the statements
Table == <<"state", "exes", "maps", "exe_maps", "markovs">>
Tables == {"state", "exes", "maps", "exe_maps", "markovs"}

NoRows == [t \in Tables |-> {}]

Rows(time, x, m, links, edges) ==
    [t \in Tables |-> CASE t = "state" -> {time} [] t = "exes" -> x [] t = "maps" -> m
                        [] t = "exe_maps" -> links [] t = "markovs" -> edges]

\* snapshot_from_stores: an attachment of what is stored no more has no row
Snapshot == Rows(model_time, exes, maps, Links \cap (exes \X maps), markovs)

Database == commits[Len(commits)]

Edges(S) == {k \in SUBSET S : Cardinality(k) = 2}

-----------------------------------------------------------------------------
(* The process: what changes the stores while it runs                      *)

\* ModelUpdater::apply: e is seen with the maps of S
Observe(e, S) ==
    /\ pc = "running"
    /\ exes' = exes \cup {e} /\ maps' = maps \cup S
    /\ AttachAll({e} \X S)
    /\ markovs' \in SUBSET Edges(exes')
    /\ UNCHANGED <<model_time, pc, commits, tables, step, left>>

\* the end of a tick, which may purge a map: remove_map_by_key
EndTick ==
    /\ pc = "running" /\ model_time < MaxTime
    /\ model_time' = model_time + 1
    /\ \/ \E m \in maps : maps' = maps \ {m} /\ DetachMap(m)
       \/ UNCHANGED <<maps, exe_to_maps, map_to_exes>>
    /\ UNCHANGED <<exes, markovs, pc, commits, tables, step, left>>

-----------------------------------------------------------------------------
(* save_snapshot                                                           *)

\* pool.begin(); nothing else runs on the engine's task until it returns
BeginSave ==
    /\ pc = "running" /\ Len(commits) <= MaxUnsynced
    /\ pc' = "saving" /\ step' = 1
    /\ tables' = Database /\ left' = Snapshot
    /\ UNCHANGED <<memory_vars, commits>>

WrongCleared == \* mutant: the attachments are not deleted
    IF Table[step] = "exe_maps" THEN tables ELSE [tables EXCEPT ![Table[step]] = {}]

Cleared == [tables EXCEPT ![Table[step]] = {}]

Delete ==
    /\ pc = "saving" /\ step <= Len(Table)
    /\ tables' = Cleared
    /\ step' = step + 1
    /\ UNCHANGED <<memory_vars, pc, commits, left>>

\* one row, after those of the tables before; the key must be new
Insert ==
    /\ pc = "saving" /\ step > Len(Table)
    /\ \E i \in DOMAIN Table : \E row \in left[Table[i]] :
          /\ \A j \in 1 .. i - 1 : left[Table[j]] = {}
          /\ row \notin tables[Table[i]]
          /\ tables' = [tables EXCEPT ![Table[i]] = @ \cup {row}]
          /\ left' = [left EXCEPT ![Table[i]] = @ \ {row}]
    /\ UNCHANGED <<memory_vars, pc, commits, step>>

Commit ==
    /\ pc = "saving" /\ step > Len(Table) /\ left = NoRows
    /\ commits' = Append(commits, tables)
    /\ pc' = "running" /\ tables' = NoRows /\ step' = 0
    /\ UNCHANGED <<memory_vars, left>>

WrongRolledBack == commits' = Append(commits, tables)   \* mutant: autocommit

RolledBack == UNCHANGED commits

\* ?, at any statement: the transaction is dropped, and every caller ends the process
SaveFails ==
    /\ pc = "saving"
    /\ RolledBack
    /\ pc' = "down"
    /\ tables' = NoRows /\ left' = NoRows /\ step' = 0
    /\ UNCHANGED memory_vars

-----------------------------------------------------------------------------
(* new and load_snapshot                                                   *)

Open ==
    /\ pc = "down"
    /\ pc' = "loading" /\ step' = 1 /\ tables' = NoRows
    /\ UNCHANGED <<memory_vars, commits, left>>

Select ==
    /\ pc = "loading" /\ step <= Len(Table)
    /\ tables' = [tables EXCEPT ![Table[step]] = Database[Table[step]]]
    /\ step' = step + 1
    /\ UNCHANGED <<memory_vars, pc, commits, left>>

\* ExeMissing and MapMissing
Dangling(rows) ==
    \/ \E r \in rows["exe_maps"] : r[1] \notin rows["exes"] \/ r[2] \notin rows["maps"]
    \/ \E k \in rows["markovs"] : ~(k \subseteq rows["exes"])

\* stores_from_snapshot: the last_seen_time of the rows says who is still active
Load ==
    /\ pc = "loading" /\ step > Len(Table) /\ ~Dangling(tables)
    /\ model_time' \in IF tables["state"] = {} THEN {0} ELSE tables["state"]
    /\ exes' = tables["exes"] /\ maps' = tables["maps"]
    /\ \E active \in SUBSET tables["exes"] : markovs' = {k \in tables["markovs"] : k \subseteq active}
    /\ exe_to_maps' = Inserted(NoSets, tables["exe_maps"])
    /\ map_to_exes' = Inserted(NoSets, Mirror(tables["exe_maps"]))
    /\ pc' = "running" /\ tables' = NoRows /\ step' = 0
    /\ UNCHANGED <<commits, left>>

-----------------------------------------------------------------------------
(* What happens to it                                                      *)

\* the process is killed, or ends because it cannot load
Crash ==
    /\ pc # "down"
    /\ pc' = "down" /\ tables' = NoRows /\ left' = NoRows /\ step' = 0
    /\ UNCHANGED <<memory_vars, commits>>

PowerLoss ==
    /\ pc' = "down" /\ tables' = NoRows /\ left' = NoRows /\ step' = 0
    /\ \E i \in DOMAIN commits : commits' = SubSeq(commits, 1, i)
    /\ UNCHANGED memory_vars

\* SQLite writes the log back and syncs
Checkpoint ==
    /\ commits' = <<Database>>
    /\ UNCHANGED <<memory_vars, pc, tables, step, left>>

\* the migrations have made empty tables, of which a load makes empty stores
Init ==
    /\ exes = {} /\ maps = {} /\ markovs = {} /\ model_time = 0
    /\ exe_to_maps = NoSets /\ map_to_exes = NoSets
    /\ pc = "down" /\ tables = NoRows /\ left = NoRows /\ step = 0
    /\ commits = <<NoRows>>

Next ==
    \/ \E e \in Exe, S \in SUBSET Map \ {{}} : Observe(e, S)
    \/ EndTick
    \/ BeginSave \/ Delete \/ Insert \/ Commit \/ SaveFails
    \/ Open \/ Select \/ Load
    \/ Crash \/ PowerLoss \/ Checkpoint

Spec == Init /\ [][Next]_vars

-----------------------------------------------------------------------------
Contents == [state : SUBSET (0 .. MaxTime), exes : SUBSET Exe, maps : SUBSET Map,
             exe_maps : SUBSET (Exe \X Map), markovs : SUBSET SUBSET Exe]

TypeOK ==
    /\ exes \subseteq Exe /\ maps \subseteq Map /\ markovs \subseteq Edges(exes)
    /\ model_time \in 0 .. MaxTime
    /\ DOMAIN exe_to_maps \subseteq exes /\ DOMAIN map_to_exes \subseteq maps
    /\ pc \in {"loading", "running", "saving", "down"}
    /\ commits \in Seq(Contents) /\ commits # <<>>
    /\ tables \in Contents /\ left \in Contents
    /\ step \in 0 .. Len(Table) + 1

\* a first start finds no row in state, and reads it as time 0
Read(rows) == IF rows["state"] = {} THEN [rows EXCEPT !["state"] = {0}] ELSE rows

\* a load may leave out edges of executables that are no longer active
Restores(rows, mem) ==
    /\ mem["markovs"] \subseteq rows["markovs"]
    /\ \A t \in Tables \ {"markovs"} : mem[t] = rows[t]

(***************************************************************************)
(* Saves are atomic and starts restore what was saved: errors and kills    *)
(* between any two statements, and losses of power, leave in the database  *)
(* a snapshot as it was given to save, the newest but for a loss of power, *)
(* never a mixture or a part of one (save_snapshot, load_snapshot).        *)
(***************************************************************************)
SnapshotStore ==
    INSTANCE SnapshotStore WITH
        up <- pc \in {"running", "saving"}, memory <- Snapshot,
        stored <- [i \in DOMAIN commits |-> Read(commits[i])]

ImplementsSnapshotStore ==
    [][SnapshotStore!Next]_<<pc \in {"running", "saving"}, Snapshot, commits>>

(***************************************************************************)
(* Every database that a commit leaves can be loaded: no row of it names   *)
(* an executable or a map that has none (snapshot_from_stores,             *)
(* remove_map_by_key).                                                     *)
(***************************************************************************)
RestoredSound == pc = "loading" /\ step > Len(Table) => ~Dangling(tables)

-----------------------------------------------------------------------------
(* The inductive invariant                                                 *)

SoundRows(rows) ==
    /\ \A t, u \in rows["state"] : t = u
    /\ rows["exe_maps"] \subseteq rows["exes"] \X rows["maps"]
    /\ rows["markovs"] \subseteq Edges(rows["exes"])

\* the rows of the snapshot are inserted or left, behind the DELETEs
SaveSplit ==
    pc = "saving" =>
      /\ step > 0
      /\ IF step <= Len(Table)
         THEN left = Snapshot /\ \A j \in 1 .. step - 1 : tables[Table[j]] = {}
         ELSE \A t \in Tables : tables[t] \cup left[t] = Snapshot[t]

LoadReads ==
    pc = "loading" =>
      step > 0 /\ \A j \in 1 .. step - 1 : tables[Table[j]] = Database[Table[j]]

RepositoryInv ==
    /\ TypeOK /\ Mirrored
    /\ SaveSplit /\ LoadReads
    /\ \A i \in DOMAIN commits : SoundRows(commits[i])
=============================================================================
