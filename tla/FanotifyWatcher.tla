--------------------------- MODULE FanotifyWatcher ---------------------------
(***************************************************************************)
(* FanotifyWatcher: the thread that reads FAN_OPEN events and the buffer   *)
(* that a scan drains.  The kernel names the process that opened a file by *)
(* its pid; which executable that is, the thread asks /proc later.         *)
(*                                                                         *)
(* File stands for the files that the thread does not skip: regular, not   *)
(* empty, still there and outside SKIP_PREFIXES.  Size, device and inode   *)
(* are left out, and so is the pid of a buffered executable, which nobody  *)
(* reads.                                                                  *)
(***************************************************************************)
EXTENDS Processes, Sequences

CONSTANT MaxQueue   \* places in the kernel's queue of events

ASSUME MaxQueueAssumption == MaxQueue \in Nat

VARIABLES
    queue,      \* the kernel's queue: [pid, file]
    held,       \* <<exe_path, file_path>> about to be inserted, or <<>>
    exe_buffer, \* EventBuffer.exes
    map_buffer, \* EventBuffer.maps
    stop,       \* the watcher is being dropped
    reader      \* the thread is "running" or has "ended"

fan_vars == <<queue, held, exe_buffer, map_buffer, stop, reader>>

Event == [pid : Pid, file : File]

\* a full queue drops the event; the thread owns the queue
Open(p, f) ==
    /\ Len(queue) < MaxQueue /\ reader = "running"
    /\ queue' = Append(queue, [pid |-> p, file |-> f])
    /\ UNCHANGED <<held, exe_buffer, map_buffer, stop, reader>>

Idle == reader = "running" /\ held = <<>>

(***************************************************************************)
(* One event of a batch, up to the lock: continue if nothing has the pid   *)
(* any more.  The flag is looked at between batches only, but what the     *)
(* thread inserts after stop is never drained.  EAGAIN and EINTR only make *)
(* another turn of the loop.                                               *)
(***************************************************************************)
Resolve ==
    /\ Idle /\ ~stop /\ queue # <<>>
    /\ LET event == Head(queue)
       IN  held' = IF event.pid \in DOMAIN proc
                   THEN <<ExeLink(event.pid), event.file>> ELSE <<>>
    /\ queue' = Tail(queue)
    /\ UNCHANGED <<exe_buffer, map_buffer, stop, reader>>

WrongInsert ==      \* mutant: the buffer is locked for each of its two maps
    /\ held # <<>>
    /\ IF held \in map_buffer
       THEN exe_buffer' = exe_buffer \cup {held[1]} /\ held' = <<>>
            /\ UNCHANGED map_buffer
       ELSE map_buffer' = map_buffer \cup {held} /\ UNCHANGED <<held, exe_buffer>>
    /\ UNCHANGED <<queue, stop, reader>>

\* under the lock
Insert ==
    /\ held # <<>>
    /\ exe_buffer' = exe_buffer \cup {held[1]}
    /\ map_buffer' = map_buffer \cup {held}
    /\ held' = <<>>
    /\ UNCHANGED <<queue, stop, reader>>

WrongStopped == Idle /\ stop /\ queue # <<>>    \* mutant: poll has no timeout

\* the flag is seen after the timeout of poll at the latest
Stopped == Idle /\ stop

ReaderEnds ==
    /\ Stopped
    /\ reader' = "ended" /\ queue' = <<>>
    /\ UNCHANGED <<held, exe_buffer, map_buffer, stop>>

\* an error of read_events ends the thread for good
ReaderFails ==
    /\ Idle /\ ~stop
    /\ reader' = "ended" /\ queue' = <<>>
    /\ UNCHANGED <<held, exe_buffer, map_buffer, stop>>

WrongTaken == UNCHANGED <<exe_buffer, map_buffer>>  \* mutant: a copy is drained

\* mem::take, in drain
Taken == exe_buffer' = {} /\ map_buffer' = {}

\* try_new; without a watcher it is as if the thread had failed at once
FanInit ==
    /\ queue = <<>> /\ held = <<>>
    /\ exe_buffer = {} /\ map_buffer = {}
    /\ stop = FALSE
    /\ reader = "running"

Reader == Resolve \/ Insert \/ ReaderEnds \/ ReaderFails

FanTypeOK ==
    /\ queue \in Seq(Event)
    /\ held \in {<<>>} \cup (Path \X File)
    /\ exe_buffer \subseteq Path /\ map_buffer \subseteq Path \X File
    /\ stop \in BOOLEAN
    /\ reader \in {"running", "ended"}
=============================================================================
