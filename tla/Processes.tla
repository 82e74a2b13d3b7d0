------------------------------ MODULE Processes ------------------------------
(***************************************************************************)
(* The processes of the system as procfs and fanotify show them: what the  *)
(* scanner and the watcher observe while it changes.  External to the      *)
(* program, and modelled from how these two use it.                        *)
(***************************************************************************)
EXTENDS Naturals

CONSTANTS
    Pid, Exe, File,
    Upgraded,   \* the executables whose file may be replaced
    MaxStarts   \* bound on the processes that are started

ASSUME PidAssumption == Pid \subseteq Nat
ASSUME UpgradedAssumption == Upgraded \subseteq Exe
ASSUME MaxStartsAssumption == MaxStarts \in Nat

VARIABLES
    proc,       \* the living processes, by pid
    started     \* how many there have been: the start time of the last one

proc_vars == <<proc, started>>

StartTime == 1 .. MaxStarts

(***************************************************************************)
(* A pid is used again, a start time is not: pids are handed out in turn,  *)
(* and do not come round within one clock tick.  execve keeps both.  ran   *)
(* and mapped are history: the executables and files of all its life.      *)
(***************************************************************************)
Process == [starttime : StartTime, exe : Exe, deleted : BOOLEAN, maps : SUBSET File,
            ran : SUBSET Exe, mapped : SUBSET File]

Deleted(e) == <<e, "(deleted)">>

Path == Exe \cup {Deleted(e) : e \in Exe}

\* where /proc/PID/exe links to
ExeLink(p) == IF proc[p].deleted THEN Deleted(proc[p].exe) ELSE proc[p].exe

Start(p, e) ==
    /\ p \notin DOMAIN proc /\ started < MaxStarts
    /\ started' = started + 1
    /\ proc' = [q \in DOMAIN proc \cup {p} |->
                  IF q = p THEN [starttime |-> started', exe |-> e, deleted |-> FALSE,
                                 maps |-> {}, ran |-> {e}, mapped |-> {}]
                           ELSE proc[q]]

\* execve; a bound: a process does not go back to an earlier executable
Exec(p, e) ==
    /\ e \notin proc[p].ran
    /\ proc' = [proc EXCEPT ![p].exe = e, ![p].deleted = FALSE, ![p].maps = {},
                            ![p].ran = @ \cup {e}]
    /\ UNCHANGED started

Mmap(p, f) ==
    /\ proc' = [proc EXCEPT ![p].maps = @ \cup {f}, ![p].mapped = @ \cup {f}]
    /\ UNCHANGED started

\* the file of e is replaced: processes that run it run a deleted file
Upgrade(e) ==
    /\ proc' = [p \in DOMAIN proc |->
                  [proc[p] EXCEPT !.deleted = @ \/ proc[p].exe = e]]
    /\ UNCHANGED started

Exit(p) ==
    /\ proc' = [q \in DOMAIN proc \ {p} |-> proc[q]]
    /\ UNCHANGED started

ProcInit == proc = [p \in {} |-> {}] /\ started = 0

ProcNext ==
    \/ \E p \in Pid, e \in Exe : Start(p, e)
    \/ \E p \in DOMAIN proc, e \in Exe : Exec(p, e)
    \/ \E p \in DOMAIN proc, f \in File : Mmap(p, f)
    \/ \E e \in Upgraded : Upgrade(e)
    \/ \E p \in DOMAIN proc : Exit(p)

ProcTypeOK ==
    /\ started \in 0 .. MaxStarts
    /\ DOMAIN proc \subseteq Pid
    /\ proc \in [DOMAIN proc -> Process]
=============================================================================
