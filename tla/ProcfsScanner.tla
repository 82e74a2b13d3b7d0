---------------------------- MODULE ProcfsScanner ----------------------------
(***************************************************************************)
(* ProcfsScanner::scan with its cache of processes, and the drain of the   *)
(* watcher at its end.  A scan reads one process after another while they  *)
(* start, call execve and exit, so it is many steps here; the engine runs  *)
(* one scan after another.                                                 *)
(*                                                                         *)
(* What a scan reports is kept as two sets, which it only adds to: that an *)
(* event comes before another can be seen in the states between.  The      *)
(* memory statistic is left out.                                           *)
(***************************************************************************)
EXTENDS FanotifyWatcher, FiniteSets, FiniteSetsExt

CONSTANT MapRescanInterval      \* DEFAULT_MAP_RESCAN_INTERVAL

ASSUME IntervalAssumption == MapRescanInterval \in Nat \ {0}

VARIABLES
    scan,       \* "idle", "scanning", "draining", or "dropped" with the engine
    todo,       \* the pids that all_processes has not come to
    visit,      \* [pid, starttime, exe_path] whose maps come next, or None
    cache,      \* by pid: CachedProcess
    seen_pids,  \* the cache to be
    drained,    \* taken from the buffer: the maps that are still to be reported
    exes_seen,  \* ExeSeen: the paths
    maps_seen   \* MapSeen: <<exe_path, path>>

scan_vars == <<scan, todo, visit, cache, seen_pids, drained, exes_seen, maps_seen>>
vars == <<proc_vars, fan_vars, scan_vars>>

None == [pid |-> 0]

Empty == [p \in {} |-> {}]

(***************************************************************************)
(* age is self.scan_count - last_map_scan: how many scans ago the maps     *)
(* were read.                                                              *)
(***************************************************************************)
CachedProcess == [starttime : StartTime, exe_path : Exe, maps : SUBSET File,
                  age : 0 .. MapRescanInterval - 1]

Visit == [pid : Pid, starttime : StartTime, exe_path : Exe]

\* procfs lists the pids in their order
Current == Min(todo)

With(f, p, c) == [q \in DOMAIN f \cup {p} |-> IF q = p THEN c ELSE f[q]]

-----------------------------------------------------------------------------
BeginScan ==
    /\ scan = "idle"
    /\ scan' = "scanning" /\ todo' = Pid
    /\ seen_pids' = Empty /\ exes_seen' = {} /\ maps_seen' = {}
    /\ UNCHANGED <<visit, cache, drained>>

AtProcess == scan = "scanning" /\ visit = None /\ todo # {}

WrongIsSameProcess == Current \in DOMAIN cache    \* mutant: the pid alone

IsSameProcess ==
    /\ Current \in DOMAIN cache
    /\ cache[Current].starttime = proc[Current].starttime

RescanDue(cached) == cached.age + 1 >= MapRescanInterval

WrongKept(cached) ==    \* mutant: as if its maps had been read now
    [cached EXCEPT !.age = 0]

Kept(cached) == [cached EXCEPT !.age = @ + 1]

\* a process of the cache: its executable is the one that was read first
Revisit ==
    /\ AtProcess /\ Current \in DOMAIN proc /\ IsSameProcess
    /\ LET p == Current
       IN  /\ exes_seen' = exes_seen \cup {cache[p].exe_path}
           /\ visit' = [pid |-> p, starttime |-> proc[p].starttime,
                        exe_path |-> cache[p].exe_path]
           /\ todo' = todo \ {p}
    /\ UNCHANGED <<scan, cache, seen_pids, drained, maps_seen>>

(***************************************************************************)
(* A new process, or a pid used again: its exe link is read.  Its start    *)
(* time is read before: nothing can come between but its exit.             *)
(***************************************************************************)
FirstVisit ==
    /\ AtProcess /\ Current \in DOMAIN proc /\ ~IsSameProcess
    /\ LET p == Current
       IN  /\ ~proc[p].deleted         \* sanitize_path
           /\ exes_seen' = exes_seen \cup {proc[p].exe}
           /\ visit' = [pid |-> p, starttime |-> proc[p].starttime,
                        exe_path |-> proc[p].exe]
           /\ todo' = todo \ {p}
    /\ UNCHANGED <<scan, cache, seen_pids, drained, maps_seen>>

\* it has ended, its entry, stat or link cannot be read, or the link is no path
\* to report: a process of the cache is forgotten with it
PassOver ==
    /\ AtProcess
    /\ todo' = todo \ {Current}
    /\ UNCHANGED <<scan, visit, cache, seen_pids, drained, exes_seen, maps_seen>>

\* the directory of the process that is visited is not that of a later one
Visited == visit.pid \in DOMAIN proc /\ proc[visit.pid].starttime = visit.starttime

\* its maps are reported, and c is cached of it
Leave(c) ==
    /\ maps_seen' = maps_seen \cup ({visit.exe_path} \X c.maps)
    /\ seen_pids' = With(seen_pids, visit.pid, c)
    /\ visit' = None
    /\ UNCHANGED <<scan, todo, cache, drained, exes_seen>>

MapsCached ==
    /\ visit.pid \in DOMAIN cache
    /\ cache[visit.pid].starttime = visit.starttime
    /\ ~RescanDue(cache[visit.pid])

\* emit_cached_maps
EmitCached == visit # None /\ MapsCached /\ Leave(Kept(cache[visit.pid]))

Scanned(maps) ==
    /\ ~MapsCached
    /\ Leave([starttime |-> visit.starttime, exe_path |-> visit.exe_path,
              maps |-> maps, age |-> 0])

\* scan_maps
ScanMaps == visit # None /\ Visited /\ Scanned(proc[visit.pid].maps)

\* a warning: the process is cached as one without maps
ScanMapsFails == visit # None /\ Scanned({})

WrongDrained == \* mutant: the opens of executables that the scan missed are lost
    {m \in map_buffer : \E p \in DOMAIN seen_pids : seen_pids[p].exe_path = m[1]}

Drained == map_buffer

\* the end of scan: the cache is replaced, the watcher drained, first of its
\* executables
EndScan ==
    /\ scan = "scanning" /\ todo = {} /\ visit = None
    /\ cache' = seen_pids /\ seen_pids' = Empty
    /\ exes_seen' = exes_seen \cup exe_buffer
    /\ drained' = Drained
    /\ Taken
    /\ scan' = "draining"
    /\ UNCHANGED <<todo, visit, maps_seen, queue, held, stop, reader>>

\* then of its maps
EmitDrained ==
    /\ scan = "draining"
    /\ maps_seen' = maps_seen \cup drained
    /\ drained' = {}
    /\ scan' = "idle"
    /\ UNCHANGED <<todo, visit, cache, seen_pids, exes_seen>>

\* the engine ends, maybe since all_processes failed; drop waits for the thread
Drop ==
    /\ scan = "idle"
    /\ scan' = "dropped" /\ stop' = TRUE
    /\ cache' = Empty /\ exes_seen' = {} /\ maps_seen' = {}
    /\ UNCHANGED <<todo, visit, seen_pids, drained, queue, held, exe_buffer,
                   map_buffer, reader>>

-----------------------------------------------------------------------------
Scan == BeginScan \/ Revisit \/ FirstVisit \/ PassOver
        \/ EmitCached \/ ScanMaps \/ ScanMapsFails \/ EmitDrained

Init ==
    /\ ProcInit /\ FanInit
    /\ scan = "idle" /\ todo = {} /\ visit = None
    /\ cache = Empty /\ seen_pids = Empty /\ drained = {}
    /\ exes_seen = {} /\ maps_seen = {}

\* after this nobody observes the processes
Ended == scan = "dropped"

ScannerOnly == UNCHANGED <<proc_vars, fan_vars>>
ReaderOnly  == UNCHANGED <<proc_vars, scan_vars>>

Next ==
    \/ ~Ended /\ ProcNext /\ UNCHANGED <<fan_vars, scan_vars>>
    \/ Reader /\ ReaderOnly
    \/ \E p \in DOMAIN proc, f \in File : Open(p, f) /\ ReaderOnly
    \/ Scan /\ ScannerOnly
    \/ (EndScan \/ Drop) /\ UNCHANGED proc_vars

(***************************************************************************)
(* The engine scans again and again and the thread is scheduled.  Reading  *)
(* a process that is there does not fail for ever.                         *)
(***************************************************************************)
Fairness ==
    /\ WF_vars(/\ \/ BeginScan \/ Revisit \/ PassOver
                  \/ EmitCached \/ ScanMapsFails \/ EmitDrained
               /\ ScannerOnly)
    /\ WF_vars(EndScan /\ UNCHANGED proc_vars)
    /\ \A p \in Pid :
          /\ SF_vars(FirstVisit /\ Current = p /\ ScannerOnly)
          /\ SF_vars(ScanMaps /\ visit.pid = p /\ ScannerOnly)
    /\ WF_vars((Resolve \/ Insert \/ ReaderEnds) /\ ReaderOnly)

Spec == Init /\ [][Next]_vars /\ Fairness

-----------------------------------------------------------------------------
TypeOK ==
    /\ ProcTypeOK /\ FanTypeOK
    /\ scan \in {"idle", "scanning", "draining", "dropped"}
    /\ todo \subseteq Pid
    /\ visit \in {None} \cup Visit
    /\ \A c \in {cache, seen_pids} :
          DOMAIN c \subseteq Pid /\ c \in [DOMAIN c -> CachedProcess]
    /\ exes_seen \subseteq Path
    /\ drained \subseteq Path \X File /\ maps_seen \subseteq Path \X File

\* what is said of p does not belong to another process
TrueOf(p, starttime, exe_path, maps) ==
    p \in DOMAIN proc /\ proc[p].starttime = starttime
      => exe_path \in proc[p].ran /\ maps \subseteq proc[p].mapped

(***************************************************************************)
(* What is cached of a process is its own: the executable is one that this *)
(* process ran and the files are ones that it mapped, never those of an    *)
(* earlier process with its pid, whatever exits, starts and calls execve   *)
(* between two reads of a scan (scan, is_same_process).  After execve it   *)
(* may be the earlier executable with the files of the later: that the     *)
(* cache knows a process by its start time allows no more.                 *)
(***************************************************************************)
IdentityKept ==
    /\ visit # None => TrueOf(visit.pid, visit.starttime, visit.exe_path, {})
    /\ \A c \in {cache, seen_pids} : \A p \in DOMAIN c :
          TrueOf(p, c[p].starttime, c[p].exe_path, c[p].maps)

(***************************************************************************)
(* "ExeSeen occurs before MapSeen for that exe within a scan" (ADR.md),    *)
(* also for what the watcher's thread inserts while a scan drains it.      *)
(***************************************************************************)
ExeBeforeMap == \A m \in maps_seen : m[1] \in exes_seen

(***************************************************************************)
(* An executable that no living process has run, neither now nor before an *)
(* execve, is in the end no longer reported as running: not from the cache *)
(* and not from opens of files that were still queued or buffered when its *)
(* last process ended (scan, self.cache = seen_pids; drain, mem::take).    *)
(***************************************************************************)
GhostsFade ==
    \A e \in Exe :
        <>[](\A p \in DOMAIN proc : e \notin proc[p].ran)
          => <>[](Ended \/ {e, Deleted(e)} \cap exes_seen = {})

(***************************************************************************)
(* A file that a process keeps mapped is reported again and again with an  *)
(* executable of that process, although known processes are not read on    *)
(* every scan and a failed read caches an empty list (scan, scan_maps).    *)
(***************************************************************************)
Reported(p, f) ==
    \E e \in proc[p].ran : <<e, f>> \in maps_seen

MapsCatchUp ==
    \A p \in Pid, f \in File :
        <>[](p \in DOMAIN proc /\ ~proc[p].deleted /\ f \in proc[p].maps)
          => []<>(Ended \/ (p \in DOMAIN proc /\ Reported(p, f)))

Opened(p, f) == \E i \in DOMAIN queue : queue[i] = [pid |-> p, file |-> f]

Runs(p, exe_path) == p \in DOMAIN proc /\ ExeLink(p) = exe_path

(***************************************************************************)
(* A file whose open is queued is reported with the executable that opened *)
(* it, however the reader and the drain interleave, unless the process     *)
(* ends or calls execve before the reader looks or the thread has ended    *)
(* (reader_loop, drain).                                                   *)
(***************************************************************************)
OpensReported ==
    \A p \in Pid, e \in Exe, f \in File :
        Opened(p, f) /\ Runs(p, e)
          ~> (<<e, f>> \in maps_seen \/ ~Runs(p, e) \/ reader = "ended" \/ Ended)

(***************************************************************************)
(* Dropping the watcher, which waits for its thread, returns: with no file *)
(* opened or with files opened all the time (Drop, reader_loop).           *)
(***************************************************************************)
DropReturns == []<>(stop => reader = "ended")

(***************************************************************************)
(* "Paths are sanitized (no deleted/prelink noise)" (ADR.md), as far as    *)
(* executables are concerned: the scanner sees to it, the watcher does not.*)
(***************************************************************************)
PathsSanitized == exes_seen \subseteq Exe

-----------------------------------------------------------------------------
(* The inductive invariant                                                 *)

\* the history of a process begins with what it is, and goes on with it
ProcessesOwn ==
    \A p \in DOMAIN proc :
        /\ proc[p].starttime <= started
        /\ proc[p].exe \in proc[p].ran /\ proc[p].maps \subseteq proc[p].mapped

\* no start time is known before a process has it
TimesPast ==
    /\ visit # None => visit.starttime <= started
    /\ \A c \in {cache, seen_pids} : \A p \in DOMAIN c : c[p].starttime <= started

\* what will be reported as the opener of a file is, or will be, reported before
ExesComeFirst ==
    /\ visit # None => scan = "scanning" /\ visit.exe_path \in exes_seen
    /\ \A m \in map_buffer : m[1] \in exe_buffer
    /\ drained # {} => scan = "draining"
    /\ \A m \in drained : m[1] \in exes_seen

ScannerInv ==
    /\ TypeOK /\ ProcessesOwn /\ TimesPast /\ IdentityKept
    /\ ExesComeFirst /\ ExeBeforeMap
=============================================================================
