SPECIFICATION FullFairSpec
CONSTANTS
    Procs = {p1, p2, p3}
    Files = {f1}
    None = None
    MaxFaults = 0
    MaxErrors = 0
PROPERTIES
    ServedThenDone
    WorkersEnd
CHECK_DEADLOCK FALSE
