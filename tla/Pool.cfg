SPECIFICATION FairSpec
CONSTANTS
    Workers = {w1, w2, w3}
    Jobs = {j1, j2, j3}
    User = user
    Free = free
INVARIANTS QueuedIsServed OnceOnly JoinedMeansDone
PROPERTY PoolCloses
