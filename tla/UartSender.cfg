CONSTANTS
    Fds = {1, 2}
    NoFd = 0
    MaxSenders = 2
    EventDepth = 2
    BufferSize = 2
    MaxBytes = 3
    MaxOddities = 1
    MaxWork = 1
    Faults = {"task", "memory"}
SPECIFICATION FairSpec
INVARIANTS TypeOK NothingStranded DeliveredInOrder ConnectionServed
PROPERTIES SendersEnd BytesAreRead
