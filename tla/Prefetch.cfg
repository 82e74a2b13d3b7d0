CONSTANTS
    Map = {m1, m2, m3}
    Concurrencies = {0, 1, 2}
    MaxControls = 1
    MaxDetached = 1
SPECIFICATION Spec
INVARIANTS
    OneWorker
    ReportHonest
PROPERTIES
    OnePurgesStaleMaps
    PrefetchEnds
