CONSTANTS
    Uppers <- AllUppers
    AddrOf <- Addresses
    DataOf <- Values
    PointerBytes <- Pointers
    MaxPartsOf <- Parts
    MaxDataOf <- Longest
    MaxCounter = 1
SPECIFICATION Spec
INVARIANTS
    AtRest
    OnlyItsOwn
    BytesOfPart
    Relayed
PROPERTIES
    RegisterIsDevices
