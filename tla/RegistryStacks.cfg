\* Decoders are unloaded only while there are no instances.
CONSTANTS
    PyDecoders = {"p", "q"}
    Invalid = {"q"}
    CDecoders = {"c", "b"}
    Broken = {"b"}
    Sessions = {s1, s2}
    MaxInsts = 3
    UnloadsInUse = FALSE
    Stacks = TRUE
    StacksAnywhere = FALSE
    GivenIds <- MCGivenIds
SYMMETRY SessionSymmetry
SPECIFICATION Spec
INVARIANTS SafeMemory StacksUsable OneFeed UniqueFound UnstackedReleased
