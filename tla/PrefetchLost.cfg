CONSTANTS
    Map = {m1, m2}
    Concurrencies = {2}
    MaxControls = 0
    MaxDetached = 1
SPECIFICATION Spec
PROPERTIES
    StaleMapsPurged
