CONSTANTS
    Pid = {1}
    Exe = {e1, e2}
    Upgraded = {e1}
    File = {f1}
    MaxStarts = 2
    MaxQueue = 1
    MapRescanInterval = 2
SPECIFICATION Spec
INVARIANTS
    IdentityKept
    ExeBeforeMap
PROPERTIES
    GhostsFade
    MapsCatchUp
    OpensReported
    DropReturns
CHECK_DEADLOCK FALSE
