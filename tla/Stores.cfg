CONSTANTS
    Exe = {e1, e2}
    Map = {m1}
    Configs <- MCConfigs
    MaxTime = 2
SYMMETRY Symmetry
VIEW StoresAndCurrentSnapshot
SPECIFICATION Spec
INVARIANTS
    TypeOK
    NoOvercredit
    CoRunningBounded
    EdgeStateTracksRunning
    EdgesAmongActive
    SnapshotLoads
PROPERTIES
    LearntSurvivesLoad
    DeniedMapsNeverEnter
