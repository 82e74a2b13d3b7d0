-------------------------- MODULE ProcfsScannerProofs --------------------------
(***************************************************************************)
(* For any processes, executables, files and bounds: what the scanner      *)
(* caches of a process is its own, and executables come before their maps. *)
(***************************************************************************)
EXTENDS ProcfsScanner, SequenceTheorems, TLAPS

-----------------------------------------------------------------------------
(* Types                                                                   *)

LEMMA LinkTyped ==
  ASSUME ProcTypeOK, NEW p \in DOMAIN proc
  PROVE  /\ proc[p] \in Process /\ p \in Pid /\ ExeLink(p) \in Path
BY DEF ProcTypeOK, ExeLink, Path, Process

LEMMA WithTyped ==
  ASSUME NEW f, DOMAIN f \subseteq Pid, f \in [DOMAIN f -> CachedProcess],
         NEW p \in Pid, NEW c \in CachedProcess
  PROVE  /\ DOMAIN With(f, p, c) \subseteq Pid
         /\ With(f, p, c) \in [DOMAIN With(f, p, c) -> CachedProcess]
BY DEF With

LEMMA ProcNextTyped ==
  ASSUME ProcTypeOK, ProcNext
  PROVE  ProcTypeOK'
<1>. USE DEF ProcTypeOK, StartTime
<1>1. ASSUME NEW p \in Pid, NEW e \in Exe, Start(p, e) PROVE ProcTypeOK'
  <2>1. started' \in 1 .. MaxStarts
    BY <1>1, MaxStartsAssumption DEF Start
  <2>2. [starttime |-> started', exe |-> e, deleted |-> FALSE, maps |-> {}, ran |-> {e}, mapped |-> {}] \in Process
    BY <2>1 DEF Process
  <2>. QED  BY <1>1, <2>1, <2>2 DEF Start
<1>2. ASSUME NEW p \in DOMAIN proc, NEW e \in Exe, Exec(p, e) PROVE ProcTypeOK'
  BY <1>2 DEF Exec, Process
<1>3. ASSUME NEW p \in DOMAIN proc, NEW f \in File, Mmap(p, f) PROVE ProcTypeOK'
  BY <1>3 DEF Mmap, Process
<1>4. ASSUME NEW e \in Upgraded, Upgrade(e) PROVE ProcTypeOK'
  BY <1>4 DEF Upgrade, Process
<1>5. ASSUME NEW p \in DOMAIN proc, Exit(p) PROVE ProcTypeOK'
  BY <1>5 DEF Exit
<1>. QED  BY <1>1, <1>2, <1>3, <1>4, <1>5 DEF ProcNext

LEMMA ReaderTyped ==
  ASSUME ProcTypeOK, FanTypeOK, Reader \/ \E p \in DOMAIN proc, f \in File : Open(p, f)
  PROVE  FanTypeOK'
<1>. USE DEF FanTypeOK
<1>1. ASSUME NEW p \in DOMAIN proc, NEW f \in File, Open(p, f) PROVE FanTypeOK'
  <2>1. [pid |-> p, file |-> f] \in Event
    BY LinkTyped DEF Event
  <2>. QED  BY <1>1, <2>1 DEF Open
<1>2. CASE Resolve
  <2>1. Head(queue) \in Event /\ Tail(queue) \in Seq(Event)
    BY <1>2, HeadTailProperties DEF Resolve
  <2>2. held' \in {<<>>} \cup (Path \X File)
    BY <1>2, <2>1, LinkTyped DEF Resolve, Event
  <2>. QED  BY <1>2, <2>1, <2>2 DEF Resolve
<1>3. CASE Insert
  <2>1. held \in Path \X File
    BY <1>3 DEF Insert
  <2>. QED  BY <1>3, <2>1 DEF Insert
<1>4. CASE ReaderEnds \/ ReaderFails
  BY <1>4, EmptySeq DEF ReaderEnds, ReaderFails
<1>. QED  BY <1>1, <1>2, <1>3, <1>4 DEF Reader

LEMMA VisitTyped ==
  ASSUME TypeOK, visit # None
  PROVE  visit \in Visit
BY DEF TypeOK

LEMMA CurrentIsPid ==
  ASSUME ProcTypeOK, Current \in DOMAIN proc
  PROVE  /\ Current \in Pid /\ proc[Current] \in Process
         /\ proc[Current].starttime \in StartTime /\ proc[Current].exe \in Exe
<1>1. Current \in Pid /\ proc[Current] \in Process
  BY DEF ProcTypeOK
<1>. QED  BY <1>1 DEF Process

LEMMA CachesTyped ==
  ASSUME TypeOK
  PROVE  /\ DOMAIN cache \subseteq Pid /\ cache \in [DOMAIN cache -> CachedProcess]
         /\ DOMAIN seen_pids \subseteq Pid
         /\ seen_pids \in [DOMAIN seen_pids -> CachedProcess]
BY DEF TypeOK

LEMMA EmptyTyped ==
  DOMAIN Empty = {} /\ Empty \in [DOMAIN Empty -> CachedProcess]
BY DEF Empty

LEMMA KeptTyped ==
  ASSUME NEW c \in CachedProcess, ~RescanDue(c)
  PROVE  Kept(c) \in CachedProcess
BY IntervalAssumption DEF Kept, RescanDue, CachedProcess

LEMMA NewTyped ==
  ASSUME TypeOK, visit # None, NEW maps \in SUBSET File
  PROVE  [starttime |-> visit.starttime, exe_path |-> visit.exe_path,
          maps |-> maps, age |-> 0] \in CachedProcess
BY VisitTyped, IntervalAssumption DEF Visit, CachedProcess

LEMMA LeaveTyped ==
  ASSUME TypeOK, visit # None, NEW c \in CachedProcess, Leave(c),
         UNCHANGED <<proc_vars, fan_vars>>
  PROVE  TypeOK'
<1>1. visit.pid \in Pid /\ visit.exe_path \in Path
  BY VisitTyped DEF Visit, Path
<1>2. DOMAIN seen_pids' \subseteq Pid /\ seen_pids' \in [DOMAIN seen_pids' -> CachedProcess]
  BY <1>1, CachesTyped, WithTyped DEF Leave
<1>3. maps_seen' \subseteq Path \X File
  BY <1>1 DEF Leave, TypeOK, CachedProcess
<1>. QED
  BY <1>2, <1>3 DEF TypeOK, Leave, ProcTypeOK, FanTypeOK, proc_vars, fan_vars

LEMMA RevisitTyped ==
  ASSUME TypeOK, Revisit, UNCHANGED <<proc_vars, fan_vars>>
  PROVE  TypeOK'
<1>1. Current \in Pid /\ Current \in DOMAIN cache
  BY CurrentIsPid DEF Revisit, TypeOK, IsSameProcess
<1>2. /\ proc[Current].starttime \in StartTime
      /\ cache[Current].exe_path \in Exe /\ cache[Current].exe_path \in Path
  BY <1>1, CachesTyped, CurrentIsPid DEF CachedProcess, Path, Revisit, TypeOK
<1>3. visit' \in Visit
  BY <1>1, <1>2 DEF Revisit, Visit
<1>. QED
  BY <1>2, <1>3 DEF TypeOK, Revisit, AtProcess, ProcTypeOK, FanTypeOK, proc_vars, fan_vars

LEMMA ScanTyped ==
  ASSUME TypeOK, Scan, UNCHANGED <<proc_vars, fan_vars>>
  PROVE  TypeOK'
<1>. USE DEF TypeOK, ProcTypeOK, FanTypeOK, proc_vars, fan_vars
<1>1. CASE BeginScan
  BY <1>1, EmptyTyped DEF BeginScan
<1>2. CASE Revisit
  BY <1>2, RevisitTyped
<1>3. CASE FirstVisit
  <2>1. visit' \in Visit
    BY <1>3, CurrentIsPid DEF FirstVisit, Visit
  <2>2. exes_seen' \subseteq Path
    BY <1>3, CurrentIsPid DEF FirstVisit, Path
  <2>. QED  BY <1>3, <2>1, <2>2 DEF FirstVisit, AtProcess
<1>4. CASE PassOver
  BY <1>4 DEF PassOver
<1>5. CASE ScanMaps
  <2>1. proc[visit.pid].maps \in SUBSET File
    BY <1>5 DEF ScanMaps, Visited, Process
  <2>. HIDE DEF TypeOK, ProcTypeOK, FanTypeOK
  <2>. QED  BY <1>5, <2>1, NewTyped, LeaveTyped DEF ScanMaps, Scanned
<1>6. CASE ScanMapsFails
  <2>. HIDE DEF TypeOK, ProcTypeOK, FanTypeOK
  <2>. QED  BY <1>6, NewTyped, LeaveTyped DEF ScanMapsFails, Scanned
<1>7. CASE EmitCached
  <2>. HIDE DEF TypeOK, ProcTypeOK, FanTypeOK
  <2>1. cache[visit.pid] \in CachedProcess
    BY <1>7, CachesTyped DEF EmitCached, MapsCached
  <2>2. Kept(cache[visit.pid]) \in CachedProcess
    BY <1>7, <2>1, KeptTyped DEF EmitCached, MapsCached
  <2>. QED  BY <1>7, <2>2, LeaveTyped DEF EmitCached
<1>8. CASE EmitDrained
  BY <1>8 DEF EmitDrained
<1>. QED  BY <1>1, <1>2, <1>3, <1>4, <1>5, <1>6, <1>7, <1>8 DEF Scan

LEMMA TypesKept ==
  ASSUME TypeOK, [Next]_vars
  PROVE  TypeOK'
<1>1. CASE ProcNext /\ UNCHANGED <<fan_vars, scan_vars>>
  BY <1>1, ProcNextTyped DEF TypeOK, FanTypeOK, fan_vars, scan_vars
<1>2. CASE (Reader \/ \E p \in DOMAIN proc, f \in File : Open(p, f)) /\ ReaderOnly
  <2>1. FanTypeOK'
    BY <1>2, ReaderTyped DEF TypeOK
  <2>. QED  BY <1>2, <2>1 DEF TypeOK, ReaderOnly, ProcTypeOK, proc_vars, scan_vars
<1>3. CASE Scan /\ ScannerOnly
  BY <1>3, ScanTyped DEF ScannerOnly
<1>4. CASE EndScan /\ UNCHANGED proc_vars
  <2>1. exe_buffer \subseteq Path /\ map_buffer \subseteq Path \X File
    BY DEF TypeOK, FanTypeOK
  <2>. QED
    BY <1>4, <2>1, EmptyTyped DEF TypeOK, EndScan, Taken, Drained, ProcTypeOK, FanTypeOK, proc_vars
<1>5. CASE Drop /\ UNCHANGED proc_vars
  BY <1>5, EmptyTyped DEF TypeOK, Drop, ProcTypeOK, FanTypeOK, proc_vars
<1>6. CASE UNCHANGED vars
  BY <1>6 DEF TypeOK, ProcTypeOK, FanTypeOK, vars, proc_vars, fan_vars, scan_vars
<1>. QED  BY <1>1, <1>2, <1>3, <1>4, <1>5, <1>6 DEF Next

-----------------------------------------------------------------------------
(* The history of a process                                                *)

LEMMA ProcessesGrow ==
  ASSUME ProcTypeOK, ProcNext, NEW p \in DOMAIN proc', proc'[p].starttime <= started
  PROVE  /\ p \in DOMAIN proc
         /\ proc[p].starttime = proc'[p].starttime
         /\ proc[p].ran \subseteq proc'[p].ran
         /\ proc[p].mapped \subseteq proc'[p].mapped
<1>. USE DEF ProcTypeOK
<1>1. ASSUME NEW q \in Pid, NEW e \in Exe, Start(q, e)
      PROVE  p \in DOMAIN proc /\ proc'[p] = proc[p]
  <2>1. started \in Nat /\ started' = started + 1
    BY <1>1, MaxStartsAssumption DEF Start
  <2>2. p # q
    BY <1>1, <2>1 DEF Start
  <2>. QED  BY <1>1, <2>2 DEF Start
<1>2. ASSUME NEW q \in DOMAIN proc, NEW e \in Exe, Exec(q, e)
      PROVE  /\ p \in DOMAIN proc /\ proc[p].starttime = proc'[p].starttime
             /\ proc[p].ran \subseteq proc'[p].ran
             /\ proc[p].mapped \subseteq proc'[p].mapped
  BY <1>2 DEF Exec, Process
<1>3. ASSUME NEW q \in DOMAIN proc, NEW f \in File, Mmap(q, f)
      PROVE  /\ p \in DOMAIN proc /\ proc[p].starttime = proc'[p].starttime
             /\ proc[p].ran \subseteq proc'[p].ran
             /\ proc[p].mapped \subseteq proc'[p].mapped
  BY <1>3 DEF Mmap, Process
<1>4. ASSUME NEW e \in Upgraded, Upgrade(e)
      PROVE  /\ p \in DOMAIN proc /\ proc[p].starttime = proc'[p].starttime
             /\ proc[p].ran \subseteq proc'[p].ran
             /\ proc[p].mapped \subseteq proc'[p].mapped
  BY <1>4 DEF Upgrade, Process
<1>5. ASSUME NEW q \in DOMAIN proc, Exit(q)
      PROVE  p \in DOMAIN proc /\ proc'[p] = proc[p]
  BY <1>5 DEF Exit
<1>. QED  BY <1>1, <1>2, <1>3, <1>4, <1>5 DEF ProcNext

LEMMA StartedGrows ==
  ASSUME ProcTypeOK, ProcNext
  PROVE  started \in Nat /\ started' \in Nat /\ started <= started'
<1>1. started \in Nat
  BY MaxStartsAssumption DEF ProcTypeOK
<1>2. started' = started + 1 \/ started' = started
  <2>1. ASSUME NEW q \in Pid, NEW e \in Exe, Start(q, e) PROVE started' = started + 1
    BY <2>1 DEF Start
  <2>2. ASSUME NEW q \in DOMAIN proc, NEW e \in Exe, Exec(q, e) PROVE started' = started
    BY <2>2 DEF Exec
  <2>3. ASSUME NEW q \in DOMAIN proc, NEW f \in File, Mmap(q, f) PROVE started' = started
    BY <2>3 DEF Mmap
  <2>4. ASSUME NEW e \in Upgraded, Upgrade(e) PROVE started' = started
    BY <2>4 DEF Upgrade
  <2>5. ASSUME NEW q \in DOMAIN proc, Exit(q) PROVE started' = started
    BY <2>5 DEF Exit
  <2>. QED  BY <2>1, <2>2, <2>3, <2>4, <2>5 DEF ProcNext
<1>. QED  BY <1>1, <1>2

LEMMA ProcessesStayOwn ==
  ASSUME ProcTypeOK, ProcessesOwn, ProcNext
  PROVE  ProcessesOwn'
<1>. USE DEF ProcTypeOK, ProcessesOwn
<1>1. ASSUME NEW q \in Pid, NEW e \in Exe, Start(q, e) PROVE ProcessesOwn'
  <2>1. started \in Nat /\ started' = started + 1
    BY <1>1, MaxStartsAssumption DEF Start
  <2>2. \A p \in DOMAIN proc : proc[p].starttime \in Nat
    BY MaxStartsAssumption DEF Process, StartTime
  <2>. QED  BY <1>1, <2>1, <2>2 DEF Start
<1>2. ASSUME NEW q \in DOMAIN proc, NEW e \in Exe, Exec(q, e) PROVE ProcessesOwn'
  BY <1>2 DEF Exec, Process
<1>3. ASSUME NEW q \in DOMAIN proc, NEW f \in File, Mmap(q, f) PROVE ProcessesOwn'
  BY <1>3 DEF Mmap, Process
<1>4. ASSUME NEW e \in Upgraded, Upgrade(e) PROVE ProcessesOwn'
  BY <1>4 DEF Upgrade, Process
<1>5. ASSUME NEW q \in DOMAIN proc, Exit(q) PROVE ProcessesOwn'
  BY <1>5 DEF Exit
<1>. QED  BY <1>1, <1>2, <1>3, <1>4, <1>5 DEF ProcNext

\* what is known of an earlier process is not taken for that of a new one
LEMMA TruthStays ==
  ASSUME ProcTypeOK, ProcNext, NEW p, NEW s, s <= started, NEW e, NEW maps,
         TrueOf(p, s, e, maps)
  PROVE  TrueOf(p, s, e, maps)'
BY ProcessesGrow DEF TrueOf

LEMMA ProcessesChange ==
  ASSUME ScannerInv, ProcNext, UNCHANGED <<fan_vars, scan_vars>>
  PROVE  TimesPast' /\ IdentityKept'
<1>. USE DEF ScannerInv, scan_vars
<1>1. ProcTypeOK
  BY DEF TypeOK
<1>2. TimesPast'
  <2>1. visit # None => visit.starttime \in Nat
    BY VisitTyped, MaxStartsAssumption DEF Visit, StartTime
  <2>2. \A c \in {cache, seen_pids} : \A p \in DOMAIN c : c[p].starttime \in Nat
    BY CachesTyped, MaxStartsAssumption DEF CachedProcess, StartTime
  <2>. QED  BY <1>1, <2>1, <2>2, StartedGrows DEF TimesPast
<1>3. IdentityKept'
  BY <1>1, TruthStays DEF IdentityKept, TimesPast
<1>. QED  BY <1>2, <1>3

-----------------------------------------------------------------------------
(* What a scan adds                                                        *)

LEMMA WithKeeps ==
  ASSUME NEW f, NEW p, NEW c,
         \A q \in DOMAIN f : /\ f[q].starttime <= started
                             /\ TrueOf(q, f[q].starttime, f[q].exe_path, f[q].maps),
         c.starttime <= started, TrueOf(p, c.starttime, c.exe_path, c.maps)
  PROVE  \A q \in DOMAIN With(f, p, c) :
            LET g == With(f, p, c)
            IN  /\ g[q].starttime <= started
                /\ TrueOf(q, g[q].starttime, g[q].exe_path, g[q].maps)
BY DEF With

LEMMA TrueUnchanged ==
  ASSUME UNCHANGED proc_vars, NEW p, NEW s, NEW e, NEW maps
  PROVE  TrueOf(p, s, e, maps)' <=> TrueOf(p, s, e, maps)
BY DEF TrueOf, proc_vars

LEMMA KeptFields ==
  ASSUME NEW c \in CachedProcess
  PROVE  /\ Kept(c).starttime = c.starttime /\ Kept(c).exe_path = c.exe_path
         /\ Kept(c).maps = c.maps
BY DEF Kept, CachedProcess

LEMMA LeaveKeeps ==
  ASSUME ScannerInv, visit # None, NEW c, Leave(c), UNCHANGED proc_vars,
         c.starttime <= started, TrueOf(visit.pid, c.starttime, c.exe_path, c.maps)
  PROVE  TimesPast' /\ IdentityKept'
<1>1. \A q \in DOMAIN seen_pids :
         /\ seen_pids[q].starttime <= started
         /\ TrueOf(q, seen_pids[q].starttime, seen_pids[q].exe_path, seen_pids[q].maps)
  BY DEF ScannerInv, TimesPast, IdentityKept
<1>2. seen_pids' = With(seen_pids, visit.pid, c) /\ visit' = None /\ cache' = cache
  BY DEF Leave
<1>3. \A q \in DOMAIN seen_pids' :
         /\ seen_pids'[q].starttime <= started
         /\ TrueOf(q, seen_pids'[q].starttime, seen_pids'[q].exe_path, seen_pids'[q].maps)
  BY <1>1, <1>2, WithKeeps
<1>. QED
  BY <1>2, <1>3 DEF ScannerInv, TimesPast, IdentityKept, TrueOf, proc_vars

LEMMA ScannedKeeps ==
  ASSUME ScannerInv, visit # None, NEW maps, Scanned(maps), UNCHANGED proc_vars,
         TrueOf(visit.pid, visit.starttime, visit.exe_path, maps)
  PROVE  TimesPast' /\ IdentityKept'
<1>. DEFINE c == [starttime |-> visit.starttime, exe_path |-> visit.exe_path,
                  maps |-> maps, age |-> 0]
<1>1. c.starttime <= started /\ TrueOf(visit.pid, c.starttime, c.exe_path, c.maps)
  BY DEF ScannerInv, TimesPast
<1>2. Leave(c)
  BY DEF Scanned
<1>. HIDE DEF c
<1>. QED  BY <1>1, <1>2, LeaveKeeps

LEMMA EmitCachedKeeps ==
  ASSUME ScannerInv, EmitCached, UNCHANGED proc_vars
  PROVE  TimesPast' /\ IdentityKept'
<1>. DEFINE p == visit.pid
            c == cache[p]
<1>1. p \in DOMAIN cache /\ visit # None /\ Leave(Kept(c))
  BY DEF EmitCached, MapsCached
<1>2. /\ c \in CachedProcess /\ c.starttime <= started
      /\ TrueOf(p, c.starttime, c.exe_path, c.maps)
  BY <1>1, CachesTyped DEF ScannerInv, TimesPast, IdentityKept
<1>3. /\ Kept(c).starttime <= started
      /\ TrueOf(p, Kept(c).starttime, Kept(c).exe_path, Kept(c).maps)
  BY <1>2, KeptFields
<1>. QED  BY <1>1, <1>3, LeaveKeeps

LEMMA RevisitKeeps ==
  ASSUME ScannerInv, Revisit, UNCHANGED proc_vars
  PROVE  TimesPast' /\ IdentityKept'
<1>. DEFINE p == Current
            c == cache[p]
<1>1. /\ p \in DOMAIN cache /\ c.starttime <= started
      /\ c.starttime = proc[p].starttime
      /\ TrueOf(p, c.starttime, c.exe_path, {})
  BY DEF Revisit, IsSameProcess, ScannerInv, TimesPast, IdentityKept, TrueOf
<1>2. /\ visit' = [pid |-> p, starttime |-> c.starttime, exe_path |-> c.exe_path]
      /\ cache' = cache /\ seen_pids' = seen_pids
  BY <1>1 DEF Revisit
<1>. QED
  BY <1>1, <1>2 DEF ScannerInv, TimesPast, IdentityKept, TrueOf, proc_vars

LEMMA ScanKeeps ==
  ASSUME ScannerInv, Scan, UNCHANGED proc_vars
  PROVE  TimesPast' /\ IdentityKept'
<1>1. CASE BeginScan
  BY <1>1 DEF BeginScan, Empty, ScannerInv, TimesPast, IdentityKept, TrueOf, proc_vars
<1>2. CASE Revisit
  BY <1>2, RevisitKeeps
<1>3. CASE FirstVisit
  <2>1. /\ visit' = [pid |-> Current, starttime |-> proc[Current].starttime,
                     exe_path |-> proc[Current].exe]
        /\ cache' = cache /\ seen_pids' = seen_pids
    BY <1>3 DEF FirstVisit
  <2>2. /\ proc[Current].starttime <= started
        /\ TrueOf(Current, proc[Current].starttime, proc[Current].exe, {})
    BY <1>3 DEF FirstVisit, ScannerInv, ProcessesOwn, TrueOf
  <2>. QED
    BY <2>1, <2>2 DEF ScannerInv, TimesPast, IdentityKept, TrueOf, proc_vars
<1>4. CASE PassOver
  BY <1>4 DEF PassOver, ScannerInv, TimesPast, IdentityKept, TrueOf, proc_vars
<1>5. CASE ScanMaps
  <2>1. visit # None /\ Visited /\ Scanned(proc[visit.pid].maps)
    BY <1>5 DEF ScanMaps
  <2>2. TrueOf(visit.pid, visit.starttime, visit.exe_path, proc[visit.pid].maps)
    BY <2>1 DEF Visited, ScannerInv, ProcessesOwn, IdentityKept, TrueOf
  <2>. QED  BY <2>1, <2>2, ScannedKeeps
<1>6. CASE ScanMapsFails
  <2>1. TrueOf(visit.pid, visit.starttime, visit.exe_path, {})
    BY <1>6 DEF ScanMapsFails, ScannerInv, IdentityKept
  <2>. QED  BY <1>6, <2>1, ScannedKeeps DEF ScanMapsFails
<1>7. CASE EmitCached
  BY <1>7, EmitCachedKeeps
<1>8. CASE EmitDrained
  BY <1>8 DEF EmitDrained, ScannerInv, TimesPast, IdentityKept, TrueOf, proc_vars
<1>. QED  BY <1>1, <1>2, <1>3, <1>4, <1>5, <1>6, <1>7, <1>8 DEF Scan

-----------------------------------------------------------------------------
(* Executables before maps                                                 *)

LEMMA ScanOrdered ==
  ASSUME ExesComeFirst, ExeBeforeMap, Scan, UNCHANGED fan_vars
  PROVE  ExesComeFirst' /\ ExeBeforeMap'
<1>. USE DEF ExesComeFirst, ExeBeforeMap, fan_vars
<1>1. CASE BeginScan
  BY <1>1 DEF BeginScan
<1>2. CASE Revisit
  BY <1>2 DEF Revisit, AtProcess
<1>3. CASE FirstVisit
  BY <1>3 DEF FirstVisit, AtProcess
<1>4. CASE PassOver
  BY <1>4 DEF PassOver
<1>5. ASSUME NEW c, visit # None, Leave(c)
      PROVE  ExesComeFirst' /\ ExeBeforeMap'
  BY <1>5 DEF Leave
<1>6. CASE EmitDrained
  BY <1>6 DEF EmitDrained
<1>. QED
  BY <1>1, <1>2, <1>3, <1>4, <1>5, <1>6 DEF Scan, ScanMaps, ScanMapsFails, Scanned, EmitCached

LEMMA OrderKept ==
  ASSUME ExesComeFirst, ExeBeforeMap, [Next]_vars
  PROVE  ExesComeFirst' /\ ExeBeforeMap'
<1>. USE DEF ExesComeFirst, ExeBeforeMap
<1>1. CASE UNCHANGED <<fan_vars, scan_vars>>
  BY <1>1 DEF fan_vars, scan_vars
<1>2. CASE Reader /\ ReaderOnly
  <2>1. CASE Insert
    BY <1>2, <2>1 DEF Insert, ReaderOnly, scan_vars
  <2>. QED
    BY <1>2, <2>1 DEF Reader, Resolve, ReaderEnds, ReaderFails, ReaderOnly, scan_vars
<1>3. ASSUME NEW p \in DOMAIN proc, NEW f \in File, Open(p, f) /\ ReaderOnly
      PROVE  ExesComeFirst' /\ ExeBeforeMap'
  BY <1>3 DEF Open, ReaderOnly, scan_vars
<1>4. CASE Scan /\ ScannerOnly
  BY <1>4, ScanOrdered DEF ScannerOnly
<1>5. CASE EndScan
  BY <1>5 DEF EndScan, Taken, Drained
<1>6. CASE Drop
  BY <1>6 DEF Drop
<1>. QED  BY <1>1, <1>2, <1>3, <1>4, <1>5, <1>6 DEF Next, vars

-----------------------------------------------------------------------------
(* The invariant                                                           *)

LEMMA Initially ==
  ASSUME Init
  PROVE  ScannerInv
<1>1. TypeOK
  <2>1. ProcTypeOK
    BY MaxStartsAssumption DEF Init, ProcInit, ProcTypeOK
  <2>2. FanTypeOK
    BY EmptySeq DEF Init, FanInit, FanTypeOK
  <2>. QED  BY <2>1, <2>2, EmptyTyped DEF Init, TypeOK
<1>2. ProcessesOwn /\ TimesPast /\ IdentityKept /\ ExesComeFirst /\ ExeBeforeMap
  BY DEF Init, ProcInit, FanInit, Empty, ProcessesOwn, TimesPast, IdentityKept,
         ExesComeFirst, ExeBeforeMap
<1>. QED  BY <1>1, <1>2 DEF ScannerInv

LEMMA Inductive ==
  ASSUME ScannerInv, [Next]_vars
  PROVE  ScannerInv'
<1>1. TypeOK' /\ ExesComeFirst' /\ ExeBeforeMap'
  BY TypesKept, OrderKept DEF ScannerInv
<1>2. ProcessesOwn' /\ TimesPast' /\ IdentityKept'
  <2>1. CASE ProcNext /\ UNCHANGED <<fan_vars, scan_vars>>
    BY <2>1, ProcessesStayOwn, ProcessesChange DEF ScannerInv, TypeOK
  <2>2. ASSUME UNCHANGED proc_vars PROVE ProcessesOwn'
    BY <2>2 DEF ScannerInv, ProcessesOwn, proc_vars
  <2>3. CASE Scan /\ ScannerOnly
    BY <2>2, <2>3, ScanKeeps DEF ScannerOnly
  <2>4. ASSUME UNCHANGED proc_vars, UNCHANGED <<visit, cache, seen_pids>>
        PROVE  TimesPast' /\ IdentityKept'
    BY <2>4 DEF ScannerInv, TimesPast, IdentityKept, TrueOf, proc_vars
  <2>5. CASE (EndScan \/ Drop) /\ UNCHANGED proc_vars
    <3>1. visit' = visit
      BY <2>5 DEF EndScan, Drop
    <3>2. /\ cache' = seen_pids \/ cache' = Empty
          /\ seen_pids' = seen_pids \/ seen_pids' = Empty
      BY <2>5 DEF EndScan, Drop
    <3>. QED
      BY <2>2, <2>5, <3>1, <3>2
      DEF ScannerInv, TimesPast, IdentityKept, TrueOf, proc_vars, Empty
  <2>6. CASE ReaderOnly
    BY <2>2, <2>4, <2>6 DEF ReaderOnly, scan_vars
  <2>7. CASE UNCHANGED vars
    BY <2>2, <2>4, <2>7 DEF vars, scan_vars
  <2>. QED  BY <2>1, <2>3, <2>5, <2>6, <2>7 DEF Next
<1>. QED  BY <1>1, <1>2 DEF ScannerInv

\* in every state the invariant holds, the types of all variables among it
THEOREM Invariance == Spec => []ScannerInv
<1>1. Init => ScannerInv
  BY Initially
<1>2. ScannerInv /\ [Next]_vars => ScannerInv'
  BY Inductive
<1>. QED  BY <1>1, <1>2, PTL DEF Spec

(***************************************************************************)
(* What ProcfsScanner caches of a process is never that of an earlier one  *)
(* with its pid, whatever starts, calls execve and exits during a scan.    *)
(***************************************************************************)
THEOREM IdentityIsKept == Spec => []IdentityKept
<1>1. ScannerInv => IdentityKept
  BY DEF ScannerInv
<1>. QED  BY <1>1, Invariance, PTL

(***************************************************************************)
(* No map is reported by a scan whose executable was not reported before,  *)
(* from the processes and from the buffer of the watcher alike.            *)
(***************************************************************************)
THEOREM ExesBeforeMaps == Spec => []ExeBeforeMap
<1>1. ScannerInv => ExeBeforeMap
  BY DEF ScannerInv
<1>. QED  BY <1>1, Invariance, PTL

-----------------------------------------------------------------------------
(* What the watcher has read of a file that was opened                     *)

InHand(m) == m = held \/ m \in map_buffer \/ m \in drained

(***************************************************************************)
(* No step loses an open: one that is queued stays so until the reader     *)
(* looks for its process, and then it is in hand with the executable that  *)
(* the process has; what is in hand stays so until a scan reports it.      *)
(* However the reader and the drain interleave, only the end of the        *)
(* process, its execve or the end of the thread take it away (reader_loop, *)
(* drain).                                                                 *)
(***************************************************************************)
OpensSurvive ==
    /\ \A p \in Pid, e \in Exe, f \in File :
          Opened(p, f) /\ Runs(p, e) /\ reader' = "running"
            => Opened(p, f)' \/ held' = <<e, f>>
    /\ \A m \in Path \X File :
          InHand(m) => InHand(m)' \/ m \in maps_seen'

LEMMA TailKeeps ==
  ASSUME FanTypeOK, queue # <<>>, NEW j \in DOMAIN queue, j # 1
  PROVE  j - 1 \in DOMAIN Tail(queue) /\ Tail(queue)[j - 1] = queue[j]
<1>1. queue \in Seq(Event) /\ Len(queue) \in Nat /\ DOMAIN queue = 1 .. Len(queue)
  BY LenProperties DEF FanTypeOK
<1>2. /\ Tail(queue) \in Seq(Event) /\ Len(Tail(queue)) = Len(queue) - 1
      /\ \A k \in 1 .. Len(queue) - 1 : Tail(queue)[k] = queue[k + 1]
  BY <1>1, HeadTailProperties
<1>3. DOMAIN Tail(queue) = 1 .. Len(queue) - 1
  BY <1>1, <1>2, LenProperties
<1> QED BY <1>1, <1>2, <1>3

LEMMA AppendKeeps ==
  ASSUME FanTypeOK, NEW x \in Event, NEW j \in DOMAIN queue
  PROVE  j \in DOMAIN Append(queue, x) /\ Append(queue, x)[j] = queue[j]
<1>1. queue \in Seq(Event) /\ Len(queue) \in Nat /\ DOMAIN queue = 1 .. Len(queue)
  BY LenProperties DEF FanTypeOK
<1> QED BY <1>1, AppendProperties

\* however it is read, buffered and drained, an open is not lost in between
THEOREM OpensAreNotLost == Spec => [][OpensSurvive]_vars
<1>1. ASSUME ScannerInv, [Next]_vars,
             NEW p \in Pid, NEW e \in Exe, NEW f \in File,
             Opened(p, f), Runs(p, e), reader' = "running"
      PROVE  Opened(p, f)' \/ held' = <<e, f>>
  <2>0. FanTypeOK
    BY <1>1 DEF ScannerInv, TypeOK
  <2>1. PICK j \in DOMAIN queue : queue[j] = [pid |-> p, file |-> f]
    BY <1>1 DEF Opened
  <2>2. ASSUME queue' = queue PROVE Opened(p, f)'
    BY <2>1, <2>2 DEF Opened
  <2>3. CASE Resolve
    <3>1. CASE j = 1
      <4>1. Head(queue) = [pid |-> p, file |-> f]
        BY <2>1, <3>1
      <4>2. held' = <<ExeLink(p), f>>
        BY <1>1, <2>3, <4>1 DEF Resolve, Runs
      <4> QED BY <1>1, <4>2 DEF Runs
    <3>2. CASE j # 1
      <4>1. queue # <<>> /\ queue' = Tail(queue)
        BY <2>3 DEF Resolve
      <4>2. j - 1 \in DOMAIN queue' /\ queue'[j - 1] = queue[j]
        BY <2>0, <3>2, <4>1, TailKeeps
      <4> QED BY <2>1, <4>2 DEF Opened
    <3> QED BY <3>1, <3>2
  <2>4. ASSUME NEW q \in DOMAIN proc, NEW g \in File, Open(q, g)
        PROVE  Opened(p, f)'
    <3>1. [pid |-> q, file |-> g] \in Event
      BY <1>1 DEF Event, ScannerInv, TypeOK, ProcTypeOK
    <3>2. queue' = Append(queue, [pid |-> q, file |-> g])
      BY <2>4 DEF Open
    <3>3. j \in DOMAIN queue' /\ queue'[j] = queue[j]
      BY <2>0, <3>1, <3>2, AppendKeeps
    <3> QED BY <2>1, <3>3 DEF Opened
  <2>5. CASE Insert
    BY <2>2, <2>5 DEF Insert
  <2>6. ~ReaderEnds /\ ~ReaderFails
    BY <1>1 DEF ReaderEnds, ReaderFails
  <2>7. CASE UNCHANGED fan_vars \/ EndScan \/ Drop
    BY <2>2, <2>7 DEF fan_vars, EndScan, Drop
  <2>8. UNCHANGED vars => UNCHANGED fan_vars
    BY DEF vars, fan_vars
  <2> QED BY <1>1, <2>3, <2>4, <2>5, <2>6, <2>7, <2>8 DEF Next, Reader, ScannerOnly
<1>2. ASSUME ScannerInv, [Next]_vars, NEW m \in Path \X File, InHand(m)
      PROVE  InHand(m)' \/ m \in maps_seen'
  <2>1. m # <<>>
    OBVIOUS
  <2>2. CASE Reader /\ ReaderOnly
    <3>1. drained' = drained
      BY <2>2 DEF ReaderOnly, scan_vars
    <3>2. CASE Insert
      BY <1>2, <2>1, <3>1, <3>2 DEF Insert, InHand
    <3>3. CASE Resolve \/ ReaderEnds \/ ReaderFails
      BY <1>2, <2>1, <3>1, <3>3 DEF Resolve, ReaderEnds, ReaderFails, Idle, Stopped, InHand
    <3>. QED  BY <2>2, <3>2, <3>3 DEF Reader
  <2>3. CASE EndScan
    <3>1. drained = {}
      BY <1>2, <2>3 DEF EndScan, ScannerInv, ExesComeFirst
    <3>. QED  BY <1>2, <2>3, <3>1 DEF EndScan, Drained, InHand
  <2>4. ASSUME UNCHANGED <<held, map_buffer, drained>> PROVE InHand(m)'
    BY <1>2, <2>4 DEF InHand
  <2>5. CASE Scan /\ ScannerOnly
    <3>1. held' = held /\ map_buffer' = map_buffer
      BY <2>5 DEF ScannerOnly, fan_vars
    <3>2. CASE EmitDrained
      BY <1>2, <3>1, <3>2 DEF EmitDrained, InHand
    <3>3. ~EmitDrained => drained' = drained
      BY <2>5 DEF Scan, BeginScan, Revisit, FirstVisit, PassOver, EmitCached,
                  ScanMaps, ScanMapsFails, Scanned, Leave
    <3>. QED  BY <2>4, <3>1, <3>2, <3>3
  <2>6. ASSUME NEW p \in DOMAIN proc, NEW f \in File, Open(p, f) /\ ReaderOnly
        PROVE  InHand(m)'
    BY <2>4, <2>6 DEF Open, ReaderOnly, scan_vars
  <2>7. CASE Drop
    BY <2>4, <2>7 DEF Drop
  <2>8. CASE UNCHANGED <<fan_vars, scan_vars>>
    BY <2>4, <2>8 DEF fan_vars, scan_vars
  <2> QED
    BY <1>2, <2>2, <2>3, <2>5, <2>6, <2>7, <2>8 DEF Next, vars
<1>3. ScannerInv /\ [Next]_vars => [OpensSurvive]_vars
  BY <1>1, <1>2 DEF OpensSurvive
<1> QED BY <1>3, Invariance, PTL DEF Spec
=============================================================================
