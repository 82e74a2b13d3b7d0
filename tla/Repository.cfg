CONSTANTS
    Exe = {e1, e2}
    Map = {m1, m2}
    MaxTime = 1
    MaxUnsynced = 1
SPECIFICATION Spec
SYMMETRY Symmetry
INVARIANTS
    Mirrored
    RestoredSound
PROPERTIES
    ImplementsSnapshotStore
