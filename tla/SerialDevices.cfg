CONSTANTS
    Uppers <- AllUppers
    LinesOf <- InUse
    BytesOf <- Bytes
    NoiseOf <- NoiseBytes
    MaxFrames = 2
    FramesOf <- Frames
    FaultsOf <- Stops
SPECIFICATION Spec
INVARIANTS
    Quoted
    FrameShown
    InBounds
CHECK_DEADLOCK FALSE
