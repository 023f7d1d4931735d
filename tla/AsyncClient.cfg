SPECIFICATION FairSpec
CONSTANTS
    hash <- MChash
    DICT_HT_INITIAL_SIZE = 1
    Contexts = {c1}
    Channels = {"a", "b"}
    Patterns = {"p"}
    Calls <- MCCalls
    MaxCommands = 3
    MaxSpent = 1
INVARIANTS CallbacksRight NoUseAfterFree OtherAssertionsHold TablesTrue
PROPERTY AskedThenFreed
