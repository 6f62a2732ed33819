CONSTANTS
    BaseDelay = 125
    MaxDelay = 7500
    MaxShift = 1
    Modulus <- Word32
    Faults = {"full", "nomem", "web"}
    MaxSaves = 1
    MaxUploads = 2
    NoTls = NoTls
    NoInfo = NoInfo
SPECIFICATION FairSpec
INVARIANTS TypeOK EnteredAgrees StaleSessionDoomed
PROPERTIES KeepsProtocol ScreenFixedInSession StaleSessionEnds SessionReturns
