CONSTANTS
    Kinds = {"c", "python"}
    MaxSample = 4
    MaxChunk = 2
    MaxResets = 1
    InclusiveEnd = FALSE
    ConcurrentAbort = FALSE
SPECIFICATION Spec
INVARIANTS TypeOK Accounting PointersValid ScansLentBuffer ChunkHandled ConsecutiveAccepted QuietReset
PROPERTIES FirstFailureReported SendReturns TerminateReturns ImplementsService
