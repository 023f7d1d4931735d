SPECIFICATION FairSpec
CONSTANTS
    a1 = a1
    a2 = a2
    None = None
    Leaked = Leaked
    Addrs = {a1, a2}
    Slots <- AllSlots
    Owners <- OneOrTwo
    Running <- AllOneNone
    Commands <- OneOrBoth
    max_redirect_count = 2
    Careful = TRUE
    MaxCalls = 2
    MaxFaults = 1
    MaxRefusals = 1
    MaxMoves = 1
INVARIANTS ReplyMatches AtMostOnce NothingOutstanding
PROPERTIES CallReturns
CHECK_DEADLOCK FALSE
