CONSTANTS
    BaseDelay = 125
    MaxDelay = 7500
    MaxShift = 1
    Modulus <- Word32
    Faults = {}
    MaxSaves = 1
    MaxUploads = 0
    NoTls = NoTls
    NoInfo = NoInfo
SPECIFICATION Spec
INVARIANTS ChainIsOneToOne
