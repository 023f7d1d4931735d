SPECIFICATION Spec
CONSTANTS
    Procs = {p1, p2}
    Files = {f1, f2}
    None = None
    MaxFaults = 2
    MaxErrors = 2
SYMMETRY Symmetry
INVARIANTS
    TypeOK
    MonitorStaysNotified
    NoTaskDropped
PROPERTIES
    LeaseSpec
    StopOnlyWhenAllAssigned
CHECK_DEADLOCK FALSE
