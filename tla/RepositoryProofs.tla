--------------------------- MODULE RepositoryProofs ---------------------------
(***************************************************************************)
(* For any executables, maps and bounds: the two directions of the         *)
(* attachments agree, the database holds whole snapshots that can be       *)
(* loaded, and saves and loads implement SnapshotStore.                    *)
(***************************************************************************)
EXTENDS Repository, SequenceTheorems, TLAPS

-----------------------------------------------------------------------------
(* The index                                                               *)

LEMMA MirrorOfPairs ==
  ASSUME NEW A, NEW B, NEW R \in SUBSET (A \X B)
  PROVE  Mirror(R) \in SUBSET (B \X A) /\ Mirror(Mirror(R)) = R
<1>1. \A r \in R : r = <<r[1], r[2]>> /\ r[1] \in A /\ r[2] \in B
  OBVIOUS
<1>2. \A q \in Mirror(R) : q = <<q[1], q[2]>> /\ <<q[2], q[1]>> \in R
  BY <1>1 DEF Mirror
<1>3. Mirror(R) \in SUBSET (B \X A)
  BY <1>1 DEF Mirror
<1>4. \A r \in R : <<r[2], r[1]>> \in Mirror(R)
  BY DEF Mirror
<1>5. ASSUME NEW r \in R PROVE r \in Mirror(Mirror(R))
  <2>. DEFINE q == <<r[2], r[1]>>
  <2>1. q \in Mirror(R) /\ r = <<q[2], q[1]>>
    BY <1>1, <1>4
  <2>. QED  BY <2>1 DEF Mirror
<1>6. ASSUME NEW r \in Mirror(Mirror(R)) PROVE r \in R
  <2>1. PICK q \in Mirror(R) : r = <<q[2], q[1]>>
    BY DEF Mirror
  <2>. QED  BY <1>2, <2>1
<1>. QED  BY <1>3, <1>5, <1>6

LEMMA MirroredPair ==
  ASSUME NEW A, NEW B, NEW R \in SUBSET (A \X B), NEW x, NEW y
  PROVE  <<x, y>> \in R <=> <<y, x>> \in Mirror(R)
<1>1. \A r \in R : r = <<r[1], r[2]>>
  OBVIOUS
<1>. QED  BY <1>1 DEF Mirror

\* what an insertion says: what was said before, and the pairs of R
LEMMA InsertedSays ==
  ASSUME NEW f, NEW A, NEW B, NEW R \in SUBSET (A \X B), NEW x, NEW y
  PROVE  x \in DOMAIN Inserted(f, R) /\ y \in Inserted(f, R)[x]
           <=> (x \in DOMAIN f /\ y \in f[x]) \/ <<x, y>> \in R
<1>1. \A r \in R : r = <<r[1], r[2]>>
  OBVIOUS
<1>. QED  BY <1>1 DEF Inserted, Get

LEMMA InsertedNotEmpty ==
  ASSUME NEW f, NEW A, NEW B, NEW R \in SUBSET (A \X B),
         \A x \in DOMAIN f : f[x] # {}
  PROVE  \A x \in DOMAIN Inserted(f, R) : Inserted(f, R)[x] # {}
<1>. SUFFICES ASSUME NEW x \in DOMAIN Inserted(f, R) PROVE Inserted(f, R)[x] # {}
  OBVIOUS
<1>1. CASE x \in DOMAIN f
  BY <1>1 DEF Inserted, Get
<1>2. ASSUME NEW r \in R, r[1] = x PROVE Inserted(f, R)[x] # {}
  <2>1. r[2] \in {q[2] : q \in {p \in R : p[1] = x}}
    BY <1>2
  <2>2. x \in DOMAIN Inserted(f, R)
    BY <1>2 DEF Inserted
  <2>. QED  BY <2>1, <2>2 DEF Inserted
<1>3. x \in DOMAIN f \/ \E r \in R : r[1] = x
  BY DEF Inserted
<1>. QED  BY <1>1, <1>2, <1>3

LEMMA InsertedMirrors ==
  ASSUME NEW f, NEW g, NEW A, NEW B, NEW R \in SUBSET (A \X B), Mirrors(f, g)
  PROVE  Mirrors(Inserted(f, R), Inserted(g, Mirror(R)))
<1>1. \A x \in DOMAIN f : f[x] # {}
  BY DEF Mirrors
<1>2. ASSUME NEW x \in DOMAIN Inserted(f, R), NEW y \in Inserted(f, R)[x]
      PROVE  y \in DOMAIN Inserted(g, Mirror(R)) /\ x \in Inserted(g, Mirror(R))[y]
  <2>1. (x \in DOMAIN f /\ y \in f[x]) \/ <<x, y>> \in R
    BY <1>2, InsertedSays
  <2>2. (y \in DOMAIN g /\ x \in g[y]) \/ <<y, x>> \in Mirror(R)
    BY <2>1, MirroredPair DEF Mirrors
  <2>. QED  BY <2>2, MirrorOfPairs, InsertedSays
<1>. QED  BY <1>1, <1>2, InsertedNotEmpty DEF Mirrors

LEMMA AttachKeepsMirrored ==
  ASSUME NEW A, NEW B, NEW R \in SUBSET (A \X B), Mirrored, AttachAll(R)
  PROVE  Mirrored'
<1>1. Mirrors(exe_to_maps', map_to_exes')
  BY InsertedMirrors DEF Mirrored, AttachAll
<1>2. Mirrors(map_to_exes', exe_to_maps')
  <2>1. Mirror(R) \in SUBSET (B \X A) /\ Mirror(Mirror(R)) = R
    BY MirrorOfPairs
  <2>2. Mirrors(Inserted(map_to_exes, Mirror(R)), Inserted(exe_to_maps, Mirror(Mirror(R))))
    BY <2>1, InsertedMirrors DEF Mirrored
  <2>. QED  BY <2>1, <2>2 DEF AttachAll
<1>. QED  BY <1>1, <1>2 DEF Mirrored

LEMMA NothingMirrors == Mirrors(NoSets, NoSets)
  BY DEF Mirrors, NoSets

LEMMA LoadedMirrored ==
  ASSUME NEW A, NEW B, NEW R \in SUBSET (A \X B),
         exe_to_maps' = Inserted(NoSets, R), map_to_exes' = Inserted(NoSets, Mirror(R))
  PROVE  Mirrored'
<1>1. Mirror(R) \in SUBSET (B \X A) /\ Mirror(Mirror(R)) = R
  BY MirrorOfPairs
<1>2. /\ Mirrors(Inserted(NoSets, R), Inserted(NoSets, Mirror(R)))
      /\ Mirrors(Inserted(NoSets, Mirror(R)), Inserted(NoSets, Mirror(Mirror(R))))
  BY <1>1, NothingMirrors, InsertedMirrors
<1>. QED  BY <1>1, <1>2 DEF Mirrored

LEMMA DetachKeepsMirrored ==
  ASSUME NEW m, Mirrored, DetachMap(m)
  PROVE  Mirrored'
<1>. DEFINE xs == Get(map_to_exes, m)
<1>1. \A x \in DOMAIN exe_to_maps : m \in exe_to_maps[x] <=> x \in xs
  BY DEF Mirrored, Mirrors, Get
<1>2. Mirrors(exe_to_maps', map_to_exes')
  BY <1>1 DEF Mirrored, Mirrors, DetachMap, Removed
<1>3. Mirrors(map_to_exes', exe_to_maps')
  BY <1>1 DEF Mirrored, Mirrors, DetachMap, Removed
<1>. QED  BY <1>2, <1>3 DEF Mirrored

-----------------------------------------------------------------------------
(* The tables                                                              *)

LEMMA TableFacts ==
  /\ Len(Table) = 5 /\ DOMAIN Table = 1 .. 5
  /\ \A i \in 1 .. 5 : Table[i] \in Tables
  /\ \A t \in Tables : \E i \in 1 .. 5 : Table[i] = t
BY DEF Table, Tables

LEMMA ContentsFacts ==
  ASSUME NEW rows \in Contents
  PROVE  /\ DOMAIN rows = Tables /\ rows = [t \in Tables |-> rows[t]]
         /\ rows["state"] \subseteq 0 .. MaxTime /\ rows["exes"] \subseteq Exe
         /\ rows["maps"] \subseteq Map /\ rows["exe_maps"] \subseteq Exe \X Map
         /\ rows["markovs"] \subseteq SUBSET Exe
BY DEF Contents, Tables

\* a table of it may be replaced by one of the same type
LEMMA WithTable ==
  ASSUME NEW rows \in Contents, NEW other \in Contents, NEW t \in Tables, NEW S \in SUBSET other[t]
  PROVE  [rows EXCEPT ![t] = @ \cup S] \in Contents /\ [rows EXCEPT ![t] = S] \in Contents
<1>1. CASE t = "state"
  BY <1>1 DEF Contents
<1>2. CASE t = "exes"
  BY <1>2 DEF Contents
<1>3. CASE t = "maps"
  BY <1>3 DEF Contents
<1>4. CASE t = "exe_maps"
  BY <1>4 DEF Contents
<1>5. CASE t = "markovs"
  BY <1>5 DEF Contents
<1>. QED  BY <1>1, <1>2, <1>3, <1>4, <1>5 DEF Tables

LEMMA NoRowsTyped == NoRows \in Contents /\ SoundRows(NoRows)
<1>1. NoRows = [state |-> {}, exes |-> {}, maps |-> {}, exe_maps |-> {}, markovs |-> {}]
  BY DEF NoRows, Tables
<1>. QED  BY <1>1 DEF Contents, SoundRows

LEMMA RowsFacts ==
  ASSUME NEW time, NEW x, NEW m, NEW links, NEW edges
  PROVE  Rows(time, x, m, links, edges)
           = [state |-> {time}, exes |-> x, maps |-> m, exe_maps |-> links, markovs |-> edges]
BY DEF Rows, Tables

LEMMA SnapshotSound ==
  ASSUME TypeOK
  PROVE  Snapshot \in Contents /\ SoundRows(Snapshot) /\ Snapshot["state"] = {model_time}
<1>1. /\ exes \subseteq Exe /\ maps \subseteq Map /\ markovs \subseteq Edges(exes)
      /\ model_time \in 0 .. MaxTime
  BY DEF TypeOK
<1>2. Edges(exes) \subseteq SUBSET Exe
  BY <1>1 DEF Edges
<1>. DEFINE rows == [state |-> {model_time}, exes |-> exes, maps |-> maps,
                     exe_maps |-> Links \cap (exes \X maps), markovs |-> markovs]
<1>3. Snapshot = rows
  BY RowsFacts DEF Snapshot
<1>4. rows \in Contents /\ SoundRows(rows) /\ rows["state"] = {model_time}
  BY <1>1, <1>2 DEF Contents, SoundRows
<1>. QED  BY <1>3, <1>4

LEMMA CommitsFacts ==
  ASSUME TypeOK
  PROVE  /\ Len(commits) \in Nat /\ Len(commits) >= 1 /\ DOMAIN commits = 1 .. Len(commits)
         /\ \A i \in DOMAIN commits : commits[i] \in Contents
         /\ Database \in Contents /\ Len(commits) \in DOMAIN commits
<1>1. commits \in Seq(Contents) /\ commits # <<>>
  BY DEF TypeOK
<1>2. Len(commits) \in Nat \ {0}
  BY <1>1, EmptySeq
<1>3. DOMAIN commits = 1 .. Len(commits) /\ \A i \in 1 .. Len(commits) : commits[i] \in Contents
  BY <1>1, LenProperties, ElementOfSeq
<1>. QED  BY <1>2, <1>3 DEF Database

LEMMA SoundNotDangling ==
  ASSUME NEW rows, SoundRows(rows)
  PROVE  ~Dangling(rows)
<1>1. \A r \in rows["exe_maps"] : r[1] \in rows["exes"] /\ r[2] \in rows["maps"]
  BY DEF SoundRows
<1>2. \A k \in rows["markovs"] : k \subseteq rows["exes"]
  BY DEF SoundRows, Edges
<1>. QED  BY <1>1, <1>2 DEF Dangling

\* behind the last SELECT what was read is the database
LEMMA AllRead ==
  ASSUME TypeOK, LoadReads, pc = "loading", step > Len(Table)
  PROVE  tables = Database
<1>1. step = 6 /\ \A j \in 1 .. 5 : tables[Table[j]] = Database[Table[j]]
  BY TableFacts DEF TypeOK, LoadReads
<1>2. \A t \in Tables : tables[t] = Database[t]
  BY <1>1, TableFacts
<1>3. tables \in Contents /\ Database \in Contents
  BY CommitsFacts DEF TypeOK
<1>4. tables = [t \in Tables |-> tables[t]] /\ Database = [t \in Tables |-> Database[t]]
  BY <1>3, ContentsFacts
<1>. QED  BY <1>2, <1>4, Zenon

-----------------------------------------------------------------------------
(* The invariant                                                           *)

LEMMA RepositoryInvInit == Init => RepositoryInv
<1>. SUFFICES ASSUME Init PROVE RepositoryInv
  OBVIOUS
<1>. USE DEF Init
<1>1. Mirrored
  BY NothingMirrors DEF Mirrored
<1>2. commits \in Seq(Contents) /\ commits # <<>> /\ DOMAIN commits = 1 .. 1 /\ commits[1] = NoRows
  BY NoRowsTyped
<1>3. TypeOK
  BY <1>2, NoRowsTyped, BoundsAssumption, TableFacts DEF TypeOK, NoSets, Edges
<1>4. SaveSplit /\ LoadReads
  BY DEF SaveSplit, LoadReads
<1>5. \A i \in DOMAIN commits : SoundRows(commits[i])
  BY <1>2, NoRowsTyped
<1>. QED  BY <1>1, <1>3, <1>4, <1>5 DEF RepositoryInv

\* the stores and the index stay, and with them all that is said of them
LEMMA MemoryKept ==
  ASSUME RepositoryInv, UNCHANGED memory_vars
  PROVE  Mirrored' /\ Snapshot' = Snapshot
<1>1. Links' = Links
  BY DEF memory_vars, Links
<1>. QED  BY <1>1 DEF memory_vars, Snapshot, RepositoryInv, Mirrored

LEMMA ObserveKeepsInv ==
  ASSUME RepositoryInv, NEW e \in Exe, NEW S \in SUBSET Map, Observe(e, S)
  PROVE  RepositoryInv'
<1>. USE DEF RepositoryInv
<1>1. Mirrored'
  <2>1. {e} \X S \in SUBSET (Exe \X Map)
    OBVIOUS
  <2>. QED  BY <2>1, AttachKeepsMirrored DEF Observe
<1>2. TypeOK'
  <2>1. /\ exes' \subseteq Exe /\ maps' \subseteq Map
        /\ markovs' \subseteq Edges(exes')
    BY DEF Observe, TypeOK
  <2>2. DOMAIN exe_to_maps' \subseteq exes'
    BY DEF Observe, TypeOK, AttachAll, Inserted
  <2>3. DOMAIN map_to_exes' \subseteq maps'
    BY DEF Observe, TypeOK, AttachAll, Inserted, Mirror
  <2>. QED  BY <2>1, <2>2, <2>3 DEF Observe, TypeOK
<1>3. SaveSplit' /\ LoadReads' /\ (\A i \in DOMAIN commits : SoundRows(commits[i]))'
  BY DEF Observe, SaveSplit, LoadReads
<1>. QED  BY <1>1, <1>2, <1>3

LEMMA EndTickKeepsInv == ASSUME RepositoryInv, EndTick PROVE RepositoryInv'
<1>. USE DEF RepositoryInv
<1>1. Mirrored'
  BY DetachKeepsMirrored DEF EndTick, Mirrored
<1>2. TypeOK'
  <2>1. model_time' \in 0 .. MaxTime /\ maps' \subseteq Map
    BY BoundsAssumption DEF EndTick, TypeOK
  <2>2. DOMAIN exe_to_maps' \subseteq exes /\ DOMAIN map_to_exes' \subseteq maps'
    BY DEF EndTick, TypeOK, DetachMap, Removed
  <2>. QED  BY <2>1, <2>2 DEF EndTick, TypeOK
<1>3. SaveSplit' /\ LoadReads' /\ (\A i \in DOMAIN commits : SoundRows(commits[i]))'
  BY DEF EndTick, SaveSplit, LoadReads
<1>. QED  BY <1>1, <1>2, <1>3

LEMMA DeleteKeepsInv == ASSUME RepositoryInv, Delete PROVE RepositoryInv'
<1>. USE DEF RepositoryInv
<1>1. UNCHANGED <<memory_vars, pc, commits, left>> /\ step \in 1 .. 5 /\ step' = step + 1
  BY TableFacts DEF Delete, SaveSplit, TypeOK
<1>2. Mirrored' /\ Snapshot' = Snapshot
  BY <1>1, MemoryKept
<1>3. tables' \in Contents
  <2>1. tables \in Contents /\ {} \in SUBSET tables[Table[step]]
    BY DEF TypeOK
  <2>. QED  BY <1>1, <2>1, TableFacts, WithTable DEF Delete, Cleared
<1>4. TypeOK'
  BY <1>1, <1>3, TableFacts DEF TypeOK, memory_vars
<1>5. SaveSplit'
  <2>1. left = Snapshot /\ \A j \in 1 .. step - 1 : tables[Table[j]] = {}
    BY <1>1, TableFacts DEF SaveSplit, Delete
  <2>2. DOMAIN tables = Tables
    BY ContentsFacts DEF TypeOK
  <2>3. \A j \in 1 .. step : tables'[Table[j]] = {}
    BY <1>1, <2>1, <2>2, TableFacts DEF Delete, Cleared
  <2>4. CASE step = 5
    <3>1. \A t \in Tables : tables'[t] = {}
      BY <2>3, <2>4, TableFacts
    <3>. QED  BY <1>1, <1>2, <2>1, <2>4, <3>1, TableFacts DEF SaveSplit
  <2>5. CASE step # 5
    BY <1>1, <1>2, <2>1, <2>3, <2>5, TableFacts DEF SaveSplit
  <2>. QED  BY <2>4, <2>5
<1>6. LoadReads' /\ (\A i \in DOMAIN commits : SoundRows(commits[i]))'
  BY <1>1 DEF Delete, LoadReads
<1>. QED  BY <1>2, <1>4, <1>5, <1>6

LEMMA InsertKeepsInv == ASSUME RepositoryInv, Insert PROVE RepositoryInv'
<1>. USE DEF RepositoryInv
<1>1. UNCHANGED <<memory_vars, pc, commits, step>> /\ pc = "saving" /\ step = 6
  BY TableFacts DEF Insert, TypeOK
<1>2. Mirrored' /\ Snapshot' = Snapshot
  BY <1>1, MemoryKept
<1>3. PICK i \in 1 .. 5 : \E row \in left[Table[i]] :
          /\ tables' = [tables EXCEPT ![Table[i]] = @ \cup {row}]
          /\ left' = [left EXCEPT ![Table[i]] = @ \ {row}]
  BY TableFacts DEF Insert
<1>4. PICK row \in left[Table[i]] :
          /\ tables' = [tables EXCEPT ![Table[i]] = @ \cup {row}]
          /\ left' = [left EXCEPT ![Table[i]] = @ \ {row}]
  BY <1>3
<1>. DEFINE t == Table[i]
<1>5. t \in Tables /\ tables \in Contents /\ left \in Contents
  BY TableFacts DEF TypeOK
<1>6. tables' \in Contents
  <2>1. {row} \in SUBSET left[t]
    BY <1>4
  <2>. QED  BY <1>4, <1>5, <2>1, WithTable
<1>7. left' \in Contents
  <2>1. left[t] \ {row} \in SUBSET left[t]
    OBVIOUS
  <2>2. [left EXCEPT ![t] = left[t] \ {row}] \in Contents
    BY <1>5, <2>1, WithTable
  <2>. QED  BY <1>4, <2>2
<1>8. TypeOK'
  BY <1>1, <1>6, <1>7 DEF TypeOK, memory_vars
<1>9. SaveSplit'
  <2>1. \A u \in Tables : tables[u] \cup left[u] = Snapshot[u]
    BY <1>1, TableFacts DEF SaveSplit
  <2>2. DOMAIN tables = Tables /\ DOMAIN left = Tables
    BY <1>5, ContentsFacts
  <2>3. \A u \in Tables : tables'[u] \cup left'[u] = tables[u] \cup left[u]
    BY <1>4, <1>5, <2>2
  <2>. QED  BY <1>1, <1>2, <2>1, <2>3, TableFacts DEF SaveSplit
<1>10. LoadReads' /\ (\A j \in DOMAIN commits : SoundRows(commits[j]))'
  BY <1>1 DEF LoadReads
<1>. QED  BY <1>2, <1>8, <1>9, <1>10

\* behind the last INSERT the transaction holds the snapshot
LEMMA CommitsSnapshot ==
  ASSUME RepositoryInv, Commit
  PROVE  tables = Snapshot
<1>1. \A t \in Tables : tables[t] \cup left[t] = Snapshot[t] /\ left[t] = {}
  BY TableFacts DEF RepositoryInv, Commit, SaveSplit, NoRows, TypeOK
<1>2. \A t \in Tables : tables[t] = Snapshot[t]
  BY <1>1
<1>3. tables \in Contents /\ Snapshot \in Contents
  BY SnapshotSound DEF RepositoryInv, TypeOK
<1>4. tables = [t \in Tables |-> tables[t]] /\ Snapshot = [t \in Tables |-> Snapshot[t]]
  BY <1>3, ContentsFacts
<1>. QED  BY <1>2, <1>4, Zenon

LEMMA CommitKeepsInv == ASSUME RepositoryInv, Commit PROVE RepositoryInv'
<1>. USE DEF RepositoryInv
<1>1. UNCHANGED <<memory_vars, left>> /\ pc' = "running"
  BY DEF Commit
<1>2. Mirrored'
  BY <1>1, MemoryKept
<1>3. Snapshot \in Contents /\ SoundRows(Snapshot) /\ commits' = Append(commits, Snapshot)
  BY SnapshotSound, CommitsSnapshot DEF Commit
<1>4. commits \in Seq(Contents)
  BY DEF TypeOK
<1>5. /\ commits' \in Seq(Contents) /\ commits' # <<>>
      /\ \A i \in DOMAIN commits' : commits'[i] = Snapshot \/ (i \in DOMAIN commits /\ commits'[i] = commits[i])
  BY <1>3, <1>4
<1>6. TypeOK'
  BY <1>1, <1>5, NoRowsTyped DEF Commit, TypeOK, memory_vars
<1>7. (\A i \in DOMAIN commits : SoundRows(commits[i]))'
  BY <1>3, <1>5
<1>. QED  BY <1>1, <1>2, <1>6, <1>7 DEF SaveSplit, LoadReads

LEMMA BeginSaveKeepsInv == ASSUME RepositoryInv, BeginSave PROVE RepositoryInv'
<1>. USE DEF RepositoryInv
<1>1. Mirrored' /\ Snapshot' = Snapshot
  BY MemoryKept DEF BeginSave
<1>2. tables' \in Contents /\ left' \in Contents
  BY SnapshotSound, CommitsFacts DEF BeginSave
<1>3. TypeOK'
  BY <1>2, TableFacts DEF BeginSave, TypeOK, memory_vars
<1>4. SaveSplit'
  BY <1>1, TableFacts DEF BeginSave, SaveSplit
<1>5. LoadReads' /\ (\A i \in DOMAIN commits : SoundRows(commits[i]))'
  BY DEF BeginSave, LoadReads
<1>. QED  BY <1>1, <1>3, <1>4, <1>5

LEMMA OpenKeepsInv == ASSUME RepositoryInv, Open PROVE RepositoryInv'
<1>. USE DEF RepositoryInv
<1>1. Mirrored'
  BY MemoryKept DEF Open
<1>2. TypeOK'
  BY NoRowsTyped, TableFacts DEF Open, TypeOK, memory_vars
<1>3. SaveSplit' /\ LoadReads' /\ (\A i \in DOMAIN commits : SoundRows(commits[i]))'
  BY DEF Open, SaveSplit, LoadReads
<1>. QED  BY <1>1, <1>2, <1>3

LEMMA SelectKeepsInv == ASSUME RepositoryInv, Select PROVE RepositoryInv'
<1>. USE DEF RepositoryInv
<1>1. /\ UNCHANGED <<memory_vars, pc, commits, left>> /\ pc = "loading"
      /\ step \in 1 .. 5 /\ step' = step + 1
  BY TableFacts DEF Select, LoadReads, TypeOK
<1>2. Mirrored'
  BY <1>1, MemoryKept
<1>3. tables \in Contents /\ Database \in Contents /\ Table[step] \in Tables
  BY <1>1, CommitsFacts, TableFacts DEF TypeOK
<1>4. tables' \in Contents
  <2>1. Database[Table[step]] \in SUBSET Database[Table[step]]
    OBVIOUS
  <2>. QED  BY <1>3, <2>1, WithTable DEF Select
<1>5. TypeOK'
  BY <1>1, <1>4, TableFacts DEF TypeOK, memory_vars
<1>6. LoadReads'
  <2>1. \A j \in 1 .. step - 1 : tables[Table[j]] = Database[Table[j]]
    BY <1>1 DEF LoadReads
  <2>2. DOMAIN tables = Tables /\ Database' = Database
    BY <1>1, <1>3, ContentsFacts DEF Database
  <2>3. \A j \in 1 .. step : tables'[Table[j]] = Database[Table[j]]
    BY <1>1, <1>3, <2>1, <2>2, TableFacts DEF Select
  <2>. QED  BY <1>1, <2>2, <2>3 DEF LoadReads
<1>7. SaveSplit' /\ (\A i \in DOMAIN commits : SoundRows(commits[i]))'
  BY <1>1 DEF SaveSplit
<1>. QED  BY <1>2, <1>5, <1>6, <1>7

LEMMA LoadKeepsInv == ASSUME RepositoryInv, Load PROVE RepositoryInv'
<1>. USE DEF RepositoryInv
<1>1. tables = Database /\ tables \in Contents /\ SoundRows(tables)
  <2>1. tables = Database
    BY AllRead DEF Load
  <2>2. Len(commits) \in DOMAIN commits /\ Database = commits[Len(commits)]
    BY CommitsFacts DEF Database
  <2>. QED  BY <2>1, <2>2, CommitsFacts
<1>2. tables["exe_maps"] \in SUBSET (Exe \X Map)
  BY <1>1, ContentsFacts
<1>3. Mirrored'
  BY <1>2, LoadedMirrored DEF Load
<1>4. /\ exes' \subseteq Exe /\ maps' \subseteq Map /\ markovs' \subseteq Edges(exes')
      /\ model_time' \in 0 .. MaxTime
  BY <1>1, ContentsFacts, BoundsAssumption DEF Load, SoundRows
<1>5. \A r \in tables["exe_maps"] : r[1] \in exes' /\ r[2] \in maps'
  BY <1>1 DEF Load, SoundRows
<1>6. DOMAIN exe_to_maps' \subseteq exes' /\ DOMAIN map_to_exes' \subseteq maps'
  BY <1>5 DEF Load, Inserted, NoSets, Mirror
<1>7. TypeOK'
  BY <1>4, <1>6, NoRowsTyped DEF Load, TypeOK
<1>8. SaveSplit' /\ LoadReads' /\ (\A i \in DOMAIN commits : SoundRows(commits[i]))'
  BY DEF Load, SaveSplit, LoadReads
<1>. QED  BY <1>3, <1>7, <1>8

\* a process that is down, and any part of the commits from the first on
LEMMA DownKeepsInv ==
  ASSUME RepositoryInv, UNCHANGED memory_vars, pc' = "down",
         tables' = NoRows, left' = NoRows, step' = 0,
         commits' = commits \/ \E i \in DOMAIN commits : commits' = SubSeq(commits, 1, i)
  PROVE  RepositoryInv'
<1>. USE DEF RepositoryInv
<1>1. Mirrored'
  BY MemoryKept
<1>2. /\ commits' \in Seq(Contents) /\ commits' # <<>>
      /\ \A i \in DOMAIN commits' : SoundRows(commits'[i])
  <2>1. CASE commits' = commits
    BY <2>1 DEF TypeOK
  <2>2. ASSUME NEW i \in DOMAIN commits, commits' = SubSeq(commits, 1, i)
        PROVE  /\ commits' \in Seq(Contents) /\ commits' # <<>>
               /\ \A j \in DOMAIN commits' : SoundRows(commits'[j])
    <3>1. i \in 1 .. Len(commits) /\ Len(commits) \in Nat /\ \A j \in 1 .. i : commits[j] \in Contents
      BY CommitsFacts
    <3>2. /\ commits' \in Seq(Contents) /\ Len(commits') = i
          /\ \A j \in 1 .. i : commits'[j] = commits[j]
      BY <2>2, <3>1, SubSeqProperties
    <3>3. DOMAIN commits' = 1 .. i
      BY <3>2, LenProperties
    <3>. QED  BY <3>1, <3>2, <3>3, EmptySeq, CommitsFacts
  <2>. QED  BY <2>1, <2>2
<1>3. TypeOK'
  BY <1>2, NoRowsTyped DEF TypeOK, memory_vars
<1>. QED  BY <1>1, <1>2, <1>3 DEF SaveSplit, LoadReads

LEMMA CheckpointKeepsInv == ASSUME RepositoryInv, Checkpoint PROVE RepositoryInv'
<1>. USE DEF RepositoryInv
<1>1. Mirrored' /\ Snapshot' = Snapshot
  BY MemoryKept DEF Checkpoint
<1>2. Database \in Contents /\ SoundRows(Database)
  BY CommitsFacts DEF Database
<1>3. /\ commits' \in Seq(Contents) /\ commits' # <<>> /\ DOMAIN commits' = 1 .. 1
      /\ commits'[1] = Database /\ Len(commits') = 1
  BY <1>2 DEF Checkpoint
<1>4. TypeOK'
  BY <1>3 DEF Checkpoint, TypeOK, memory_vars
<1>5. Database' = Database
  BY <1>3 DEF Database
<1>. QED  BY <1>1, <1>2, <1>3, <1>4, <1>5 DEF Checkpoint, SaveSplit, LoadReads

LEMMA RepositoryInvInductive == RepositoryInv /\ [Next]_vars => RepositoryInv'
<1>. SUFFICES ASSUME RepositoryInv, [Next]_vars PROVE RepositoryInv'
  OBVIOUS
<1>1. CASE \E e \in Exe, S \in SUBSET Map \ {{}} : Observe(e, S)
  BY <1>1, ObserveKeepsInv
<1>2. CASE SaveFails \/ Crash \/ PowerLoss
  BY <1>2, DownKeepsInv DEF SaveFails, RolledBack, Crash, PowerLoss
<1>3. CASE UNCHANGED vars
  BY <1>3, MemoryKept DEF vars, memory_vars, RepositoryInv, TypeOK, SaveSplit, LoadReads, Database
<1>. QED  BY <1>1, <1>2, <1>3, EndTickKeepsInv, BeginSaveKeepsInv, DeleteKeepsInv, InsertKeepsInv,
             CommitKeepsInv, OpenKeepsInv, SelectKeepsInv, LoadKeepsInv, CheckpointKeepsInv
             DEF Next

(***************************************************************************)
(* The invariant of the repository, with the types of all variables.       *)
(***************************************************************************)
THEOREM Invariance == Spec => []RepositoryInv
BY RepositoryInvInit, RepositoryInvInductive, PTL DEF Spec

(***************************************************************************)
(* The two directions of the attachments never disagree.                   *)
(***************************************************************************)
THEOREM IndexMirrored == Spec => []Mirrored
<1>1. RepositoryInv => Mirrored
  BY DEF RepositoryInv
<1>. QED  BY <1>1, Invariance, PTL

(***************************************************************************)
(* No start meets a row whose executable or map is missing.                *)
(***************************************************************************)
THEOREM StartsNeverDangle == Spec => []RestoredSound
<1>1. RepositoryInv => RestoredSound
  <2>. SUFFICES ASSUME RepositoryInv, pc = "loading", step > Len(Table)
                PROVE  ~Dangling(tables)
    BY DEF RestoredSound
  <2>1. tables = commits[Len(commits)] /\ Len(commits) \in DOMAIN commits
    BY AllRead, CommitsFacts DEF RepositoryInv, Database
  <2>. QED  BY <2>1, SoundNotDangling DEF RepositoryInv
<1>. QED  BY <1>1, Invariance, PTL

-----------------------------------------------------------------------------
(* The refinement                                                          *)

Up == pc \in {"running", "saving"}

Stored == [i \in DOMAIN commits |-> Read(commits[i])]

LEMMA StoredFacts ==
  ASSUME TypeOK
  PROVE  /\ Stored \in Seq(Contents) /\ Len(Stored) = Len(commits) /\ DOMAIN Stored = DOMAIN commits
         /\ Stored[Len(Stored)] = Read(Database)
<1>1. 0 \in 0 .. MaxTime
  BY BoundsAssumption
<1>2. \A rows \in Contents : Read(rows) \in Contents
  BY <1>1 DEF Read, Contents
<1>3. \A i \in DOMAIN commits : Read(commits[i]) \in Contents
  BY <1>2, CommitsFacts
<1>4. /\ Len(commits) \in Nat /\ DOMAIN commits = 1 .. Len(commits)
      /\ Len(commits) \in DOMAIN commits
  BY CommitsFacts
<1>5. Stored \in [1 .. Len(commits) -> Contents]
  BY <1>3, <1>4 DEF Stored
<1>6. Stored \in Seq(Contents) /\ Len(Stored) = Len(commits)
  BY <1>4, <1>5, SeqDef
<1>. QED  BY <1>4, <1>6 DEF Stored, Database

\* a step that leaves the memory and the commits alone stutters or is a crash
LEMMA QuietStep ==
  ASSUME UNCHANGED memory_vars, commits' = commits, Up' = Up \/ ~Up'
  PROVE  [SnapshotStore!Next]_<<Up, Snapshot, commits>>
<1>1. Snapshot' = Snapshot
  BY DEF memory_vars, Snapshot, Links
<1>2. CASE Up' = Up
  BY <1>1, <1>2
<1>3. CASE ~Up'
  BY <1>1, <1>3 DEF SnapshotStore!Next, SnapshotStore!Crash, Up, Stored
<1>. QED  BY <1>2, <1>3

LEMMA CommitSaves == ASSUME RepositoryInv, Commit PROVE SnapshotStore!Save
<1>1. Up /\ Up' /\ Up' = Up
  BY DEF Commit, Up
<1>2. tables = Snapshot /\ Snapshot' = Snapshot
  BY CommitsSnapshot DEF Commit, memory_vars, Snapshot, Links
<1>3. Read(Snapshot) = Snapshot
  BY SnapshotSound DEF RepositoryInv, Read
<1>4. /\ commits \in Seq(Contents) /\ Snapshot \in Contents /\ commits' = Append(commits, Snapshot)
      /\ Stored \in Seq(Contents) /\ Len(Stored) = Len(commits)
      /\ Len(commits) \in Nat /\ DOMAIN commits = 1 .. Len(commits)
  BY <1>2, SnapshotSound, StoredFacts, CommitsFacts DEF RepositoryInv, TypeOK, Commit
<1>5. DOMAIN commits' = 1 .. Len(commits) + 1
  BY <1>4
<1>6. \A i \in 1 .. Len(commits) + 1 :
         commits'[i] = IF i = Len(commits) + 1 THEN Snapshot ELSE commits[i]
  BY <1>4
<1>7. Stored' = [i \in 1 .. Len(commits) + 1 |-> IF i = Len(commits) + 1 THEN Snapshot ELSE Stored[i]]
  BY <1>3, <1>4, <1>5, <1>6 DEF Stored
<1>8. Stored' = Append(Stored, Snapshot)
  <2>. DEFINE a == Append(Stored, Snapshot)
  <2>1. /\ a \in Seq(Contents) /\ Len(a) = Len(commits) + 1
        /\ \A i \in 1 .. Len(commits) + 1 : a[i] = IF i = Len(commits) + 1 THEN Snapshot ELSE Stored[i]
    BY <1>4, AppendProperties
  <2>2. a \in [1 .. Len(commits) + 1 -> Contents]
    BY <2>1, LenProperties
  <2>3. a = [i \in 1 .. Len(commits) + 1 |-> a[i]]
    BY <2>2
  <2>. QED  BY <1>7, <2>1, <2>3
<1>. QED  BY <1>1, <1>2, <1>8 DEF SnapshotStore!Save, Up, Stored

LEMMA LossFallsBack ==
  ASSUME RepositoryInv, PowerLoss
  PROVE  SnapshotStore!PowerLoss
<1>1. Snapshot' = Snapshot /\ ~Up'
  BY DEF PowerLoss, memory_vars, Snapshot, Links, Up
<1>2. PICK i \in DOMAIN commits : commits' = SubSeq(commits, 1, i)
  BY DEF PowerLoss
<1>3. /\ i \in 1 .. Len(commits) /\ Len(commits) \in Nat /\ DOMAIN commits = 1 .. Len(commits)
      /\ \A j \in 1 .. i : commits[j] \in Contents
      /\ Stored \in Seq(Contents) /\ Len(Stored) = Len(commits)
  BY StoredFacts, CommitsFacts DEF RepositoryInv
<1>4. /\ commits' \in Seq(Contents) /\ Len(commits') = i
      /\ \A j \in 1 .. i : commits'[j] = commits[j]
  BY <1>2, <1>3, SubSeqProperties
<1>5. DOMAIN commits' = 1 .. i
  BY <1>4, LenProperties
<1>6. Stored' = [j \in 1 .. i |-> Stored[j]]
  BY <1>3, <1>4, <1>5 DEF Stored
<1>7. SubSeq(Stored, 1, i) = [j \in 1 .. i |-> Stored[j]]
  BY <1>3
<1>8. i \in DOMAIN Stored /\ Stored' = SubSeq(Stored, 1, i)
  BY <1>3, <1>6, <1>7, StoredFacts DEF RepositoryInv
<1>. QED  BY <1>1, <1>8 DEF SnapshotStore!PowerLoss, Up, Stored

LEMMA CheckpointKeepsNewest ==
  ASSUME RepositoryInv, Checkpoint
  PROVE  SnapshotStore!Checkpoint
<1>1. Snapshot' = Snapshot /\ Up' = Up
  BY DEF Checkpoint, memory_vars, Snapshot, Links, Up
<1>2. DOMAIN commits' = 1 .. 1 /\ commits'[1] = Database
  BY DEF Checkpoint
<1>3. Stored' = [i \in 1 .. 1 |-> Read(Database)]
  BY <1>2 DEF Stored
<1>4. Stored' = <<Stored[Len(Stored)]>>
  BY <1>3, StoredFacts DEF RepositoryInv
<1>. QED  BY <1>1, <1>4 DEF SnapshotStore!Checkpoint, SnapshotStore!Newest, Up, Stored

\* the attachments that are read are those that a snapshot would hold
LEMMA LoadedLinks ==
  ASSUME NEW A, NEW B, NEW R \in SUBSET (A \X B), exe_to_maps' = Inserted(NoSets, R)
  PROVE  Links' = R
<1>1. \A r \in R : r = <<r[1], r[2]>>
  OBVIOUS
<1>2. ASSUME NEW x, NEW y
      PROVE  x \in DOMAIN exe_to_maps' /\ y \in exe_to_maps'[x] <=> <<x, y>> \in R
  <2>1. x \notin DOMAIN NoSets
    BY DEF NoSets
  <2>. QED  BY <2>1, InsertedSays
<1>3. \A r \in Links' : \E x, y : r = <<x, y>> /\ x \in DOMAIN exe_to_maps' /\ y \in exe_to_maps'[x]
  BY DEF Links
<1>4. \A x, y : x \in DOMAIN exe_to_maps' /\ y \in exe_to_maps'[x] => <<x, y>> \in Links'
  BY DEF Links
<1>. QED  BY <1>1, <1>2, <1>3, <1>4

LEMMA LoadRestores == ASSUME RepositoryInv, Load PROVE SnapshotStore!Load
<1>1. ~Up /\ Up' /\ commits' = commits
  BY DEF Load, Up
<1>2. tables = Database /\ tables \in Contents /\ SoundRows(tables)
  <2>1. tables = Database
    BY AllRead DEF Load, RepositoryInv
  <2>2. Len(commits) \in DOMAIN commits /\ Database = commits[Len(commits)]
    BY CommitsFacts DEF Database, RepositoryInv
  <2>. QED  BY <2>1, <2>2, CommitsFacts DEF RepositoryInv
<1>3. Links' = tables["exe_maps"]
  BY <1>2, ContentsFacts, LoadedLinks DEF Load
<1>4. Snapshot' = [state |-> {model_time'}, exes |-> tables["exes"], maps |-> tables["maps"],
                   exe_maps |-> tables["exe_maps"], markovs |-> markovs']
  <2>1. tables["exe_maps"] \cap (exes' \X maps') = tables["exe_maps"]
    BY <1>2 DEF Load, SoundRows
  <2>. QED  BY <1>3, <2>1, RowsFacts DEF Snapshot, Load
<1>5. Read(tables)["state"] = {model_time'}
  <2>1. DOMAIN tables = Tables /\ "state" \in Tables
    BY <1>2, ContentsFacts DEF Tables
  <2>2. CASE tables["state"] = {}
    BY <2>1, <2>2 DEF Read, Load
  <2>3. CASE tables["state"] # {}
    BY <1>2, <2>3 DEF Read, Load, SoundRows
  <2>. QED  BY <2>2, <2>3
<1>6. \A t \in Tables \ {"state"} : Read(tables)[t] = tables[t]
  BY <1>2, ContentsFacts DEF Read
<1>7. Restores(Read(tables), Snapshot')
  <2>1. Snapshot'["markovs"] \subseteq Read(tables)["markovs"]
    BY <1>4, <1>6 DEF Load, Tables
  <2>2. \A t \in {"exes", "maps", "exe_maps"} : Snapshot'[t] = Read(tables)[t]
    BY <1>4, <1>6 DEF Tables
  <2>3. Snapshot'["state"] = Read(tables)["state"]
    BY <1>4, <1>5
  <2>. QED  BY <2>1, <2>2, <2>3 DEF Restores, Tables
<1>8. Stored' = Stored /\ Stored[Len(Stored)] = Read(tables)
  BY <1>1, <1>2, StoredFacts DEF Stored, RepositoryInv
<1>. QED  BY <1>1, <1>7, <1>8 DEF SnapshotStore!Load, SnapshotStore!Newest, Up, Stored

LEMMA StepRefines ==
  RepositoryInv /\ [Next]_vars => [SnapshotStore!Next]_<<Up, Snapshot, commits>>
<1>. SUFFICES ASSUME RepositoryInv, [Next]_vars
              PROVE  [SnapshotStore!Next]_<<Up, Snapshot, commits>>
  OBVIOUS
<1>1. CASE (\E e \in Exe, S \in SUBSET Map \ {{}} : Observe(e, S)) \/ EndTick
  <2>1. Up /\ Up' = Up /\ Stored' = Stored
    BY <1>1 DEF Observe, EndTick, Up, Stored
  <2>. QED  BY <2>1 DEF SnapshotStore!Next, SnapshotStore!Change, Up, Stored
<1>2. CASE BeginSave \/ Delete \/ Insert \/ SaveFails \/ Open \/ Select \/ Crash \/ UNCHANGED vars
  <2>1. UNCHANGED memory_vars /\ commits' = commits /\ (Up' = Up \/ ~Up')
    BY <1>2 DEF BeginSave, Delete, Insert, SaveFails, RolledBack, Open, Select, Crash, vars, Up
  <2>. QED  BY <2>1, QuietStep
<1>3. CASE Commit
  BY <1>3, CommitSaves DEF SnapshotStore!Next
<1>4. CASE PowerLoss
  BY <1>4, LossFallsBack DEF SnapshotStore!Next
<1>5. CASE Checkpoint
  BY <1>5, CheckpointKeepsNewest DEF SnapshotStore!Next
<1>6. CASE Load
  BY <1>6, LoadRestores DEF SnapshotStore!Next
<1>. QED  BY <1>1, <1>2, <1>3, <1>4, <1>5, <1>6 DEF Next

(***************************************************************************)
(* Saves are atomic and starts restore what was saved: the statements of   *)
(* a save and a load, stopped anywhere, implement SnapshotStore.           *)
(***************************************************************************)
THEOREM RepositoryIsSnapshotStore == Spec => ImplementsSnapshotStore
<1>1. RepositoryInv /\ [Next]_vars
        => [SnapshotStore!Next]_<<pc \in {"running", "saving"}, Snapshot, commits>>
  BY StepRefines DEF Up
<1>. QED  BY <1>1, Invariance, PTL DEF Spec, ImplementsSnapshotStore
=============================================================================
