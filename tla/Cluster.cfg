SPECIFICATION FullSpec
CONSTANTS
    Procs = {p1, p2, p3}
    Files = {f1}
    None = None
    MaxFaults = 1
    MaxErrors = 0
SYMMETRY Symmetry
INVARIANTS
    OldestCoordinates
    ListedNodesExist
    LiveWorkerListed
PROPERTIES
    AssignmentKept
CHECK_DEADLOCK FALSE
