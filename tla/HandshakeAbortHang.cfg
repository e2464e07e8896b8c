CONSTANTS
    Kinds = {"c"}
    MaxSample = 2
    MaxChunk = 1
    MaxResets = 1
    InclusiveEnd = FALSE
    ConcurrentAbort = TRUE
SPECIFICATION Spec
PROPERTY SendReturns
