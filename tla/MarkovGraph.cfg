CONSTANTS
    Id = {1, 2, 3, 4}
    Edge <- MCEdge
    MaxEdges = 4
SPECIFICATION Spec
INVARIANTS
    TypeOK
    IndexSound
PROPERTIES
    ImplementsEdgeMap
    PruneEnds
