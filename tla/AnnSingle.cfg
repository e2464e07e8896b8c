\* One C stack: annotations of all sizes, end() methods, resets, both kinds of
\* callback.
CONSTANTS
    N = 1
    Lang <- OneCStack
    MaxBatch = 2
    BlockCap = 3
    PoolCap = 2
    Blocks = {b1, b2, b3, b4, b5}
    NULL = NULL
    Strings <- SomeStrings
    MaxPuts = 5
    MaxFails = 0
    MaxCallbacks = 1
    ConcurrentAbort = FALSE
SYMMETRY BlockSymmetry
SPECIFICATION Spec
INVARIANTS BlocksFit PoolBounded Drained
