----------------------------- MODULE SnapshotStore -----------------------------
(***************************************************************************)
(* What a process and its repository promise each other: a save takes the  *)
(* memory as a whole or not at all, and a start gives back all of what was *)
(* last saved that it should restore.  A loss of power may undo the latest *)
(* saves, again as a whole and in their order, to the last checkpoint.     *)
(***************************************************************************)
EXTENDS Naturals, Sequences

CONSTANT Restores(_, _)     \* what a snapshot may be restored to

VARIABLES
    up,         \* the process has loaded and lives
    memory,     \* what a snapshot of its stores would be
    stored      \* the saved snapshots since the last checkpoint, with that one

Newest == stored[Len(stored)]

\* the stores change
Change == up /\ UNCHANGED <<up, stored>>

Save ==
    /\ up
    /\ stored' = Append(stored, memory)
    /\ UNCHANGED <<up, memory>>

Checkpoint ==
    /\ stored' = <<Newest>>
    /\ UNCHANGED <<up, memory>>

Crash ==
    /\ up' = FALSE
    /\ UNCHANGED <<memory, stored>>

PowerLoss ==
    /\ up' = FALSE
    /\ \E i \in DOMAIN stored : stored' = SubSeq(stored, 1, i)
    /\ UNCHANGED memory

Load ==
    /\ ~up /\ up' = TRUE
    /\ Restores(Newest, memory')
    /\ UNCHANGED stored

Next == Change \/ Save \/ Checkpoint \/ Crash \/ PowerLoss \/ Load
=============================================================================
