CONSTANTS
    MaxInserts = 1
    MaxDevices = 1
    QueueDepth = 2
    Fields = {f1, f2}
    Faults = {}
SPECIFICATION FairSpec
PROPERTIES InsertedStickIsLoaded
