CONSTANTS
    Map = {m1, m2, m3}
    Exe = {x, y}
    x = x
    y = y
    Scores = {0, 1, 2, 3, 4}
    One = 4
    Lengths <- MCLengths
    Keys = {0, 1}
    None = None
    Policies <- MCPolicies
    MemStats <- MCMemStats
    SortStrategy = {"None", "Key"}
    PageSize = 3
    ChunkSize = 4
    Offsets = {0, 1, 2, 3}
    Sizes = {0, 1, 2, 3, 4, 5, 6, 7, 8}
    FilePages = {0, 1, 2, 3}
SPECIFICATION PipelineSpec
SYMMETRY MCSymmetry
INVARIANTS
    PlanFits
    LeftOutDidNotFit
    TieBreakOnly
    PlansUseful
    RequestsExactly
CHECK_DEADLOCK FALSE
