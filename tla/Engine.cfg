CONSTANTS
    Exe = {e1}
    Map = {m1}
    Configs <- MCSwitching
    MaxTime = 1
    MaxQueued = 2
    MaxStarts = 0
SPECIFICATION Spec
PROPERTIES
    CancelEnds
    ControlHandled
    TicksGoOn
INVARIANTS
    ShutdownSaves
CHECK_DEADLOCK FALSE
