SPECIFICATION FairSpec
CONSTANTS
    hash <- MChash
    DICT_HT_INITIAL_SIZE = 1
    Contexts = {c1, c2, c3}
    Channels = {}
    Patterns = {}
    Servers = {"A", "B"}
    Slots = {"s1"}
    FirstOwner <- MCFirstOwner
    Begins <- MCBegins
    max_redirect_count = 1
    MaxCommands = 2
    MaxMoves = 1
    MaxSpent = 1
INVARIANTS AnsweredOnce ExecutedOnce MemorySafe
PROPERTY CalledBack
