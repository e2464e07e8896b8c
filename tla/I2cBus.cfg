SPECIFICATION Spec
CONSTANTS
    Bytes <- SmallBytes
    Options <- SmallOptions
    DataStr = 11
    PacketStr = 12
    MaxData = 2
    MaxParts = 2
    MaxKept = 1
PROPERTIES ImplementsEvents Transcript PacketIsTransfer
CHECK_DEADLOCK FALSE
