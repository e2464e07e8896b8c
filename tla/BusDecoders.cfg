SPECIFICATION Spec
CONSTANTS
    Decoders <- AllDecoders
    ResetOf <- Reset
    StepOf <- Step
    AtRestIn <- AtRest
    CaseOf <- CaseFor
    NoiseOf <- NoiseEvents
    FramesPerRun <- FrameCount
    FsiLimit = 14
INVARIANTS FrameReported Resynchronized
CHECK_DEADLOCK FALSE
