CONSTANTS
    MaxInserts = 2
    MaxDevices = 2
    QueueDepth = 2
    Fields = {f1, f2}
    Faults = {"create", "install", "mount"}
SPECIFICATION FairSpec
INVARIANTS TypeOK SlotsSound ConfigFollowsStick
PROPERTIES StartReturns
