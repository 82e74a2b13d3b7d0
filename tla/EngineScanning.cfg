CONSTANTS
    Exe = {e1, e2}
    Map = {m1}
    Configs <- MCScanning
    MaxTime = 1
    MaxQueued = 1
    MaxStarts = 1
VIEW CurrentSnapshotOnly
SYMMETRY Symmetry
SPECIFICATION Spec
PROPERTIES
    ImplementsStores
    LearnsOnlyObserved
CHECK_DEADLOCK FALSE
