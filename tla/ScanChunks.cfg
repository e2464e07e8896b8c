\* Chunks of one and of three samples, every term type, two channels; chunks in
\* which channels that do not change may be passed as constants.
CONSTANTS
    Channels = {0, 1}
    Length = 4
    Waits <- WaitsOf
    InitialPins = {1, 2}
    Languages = {"c", "python"}
    SendsConst = {FALSE, TRUE}
    ChunkSizes = {1, 3}
SPECIFICATION Spec
INVARIANT NothingMissedInside
PROPERTY MatchIsFirstInside
