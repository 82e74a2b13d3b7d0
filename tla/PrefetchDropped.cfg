CONSTANTS
    Map = {m1, m2}
    Concurrencies = {1}
    MaxControls = 1
    MaxDetached = 1
SPECIFICATION Spec
INVARIANTS
    WorkersBounded
