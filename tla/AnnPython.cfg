\* Two Python stacks, puts that fail half-way, terminate_reset during a send.
CONSTANTS
    N = 2
    Lang <- TwoPythonStacks
    MaxBatch = 2
    BlockCap = 3
    PoolCap = 2
    Blocks = {b1, b2, b3, b4, b5}
    NULL = NULL
    Strings <- FewStrings
    MaxPuts = 4
    MaxFails = 1
    MaxCallbacks = 0
    ConcurrentAbort = TRUE
SYMMETRY BlockSymmetry
SPECIFICATION Spec
INVARIANTS DeliversNext TextsLive
PROPERTY LeavesNothing
