SPECIFICATION Spec
CONSTANTS
    NODE_NUM = 2
    MaxLines = 3
    MaxLine = 2
    Inputs <- Files
    LinePerInsert = 2
    LongLines = {3}
    MaxLost = 1
    MaxErrors = 1
INVARIANTS FileSorted NoLineLost NothingInvented
