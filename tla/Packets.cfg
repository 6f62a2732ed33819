CONSTANTS
    BaseDelay = 125
    MaxDelay = 7500
    MaxShift = 30
    Modulus <- Word32
    BufferSize = 24
    MaxHello = 12
    Hellos <- SomeHellos
    ServerPackets <- SomePackets
    Name <- OneLetter
    Screen <- SomeScreen
    MaxSent = 2
SPECIFICATION Spec
INVARIANTS TypeOK ReadsOnlyWhatCame InStep RepliesWhole BackoffAsDocumented
CHECK_DEADLOCK FALSE
