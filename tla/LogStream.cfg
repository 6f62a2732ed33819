CONSTANTS
    RingSize = 3
    Tasks = {monitor, httpd}
    Monitor = monitor
    Httpd = httpd
    Fds = {1, 2}
    NoFd = 0
    Lengths = {1, 2}
    MaxLines = 2
    MaxOpens = 2
SPECIFICATION FairSpec
INVARIANTS TypeOK QueueHeld SendsTheQueue NothingStale
PROPERTIES RingDrains
CHECK_DEADLOCK FALSE
