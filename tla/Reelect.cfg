SPECIFICATION FullFairSpec
CONSTANTS
    Procs = {p1, p2, p3}
    Files = {}
    None = None
    MaxFaults = 2
    MaxErrors = 0
PROPERTIES
    MonitorReturns
CHECK_DEADLOCK FALSE
