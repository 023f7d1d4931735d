SPECIFICATION FairSpec
CONSTANTS
    NumNodes = 3
    Tasks = {1, 3}
    Blocks <- SpreadBlocks
    LoopNum = 3
    MaxCrashes = 1
    MaxFailedSets = 1
    MaxFailedGets = 1
INVARIANT BarrierComplete
PROPERTY UsedNodesStart
