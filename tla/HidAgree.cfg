CONSTANTS
    Keys = {a, b, shift}
    ModifierKeys = {shift}
    UnmappedKeys = {}
    NoKey = NoKey
    MaxKeys = 2
    NoReport = NoReport
    NoPos = NoPos
    NoCmd = NoCmd
    Faults = {}
    WakeupModes = {TRUE}
    QueueDepth = 2
    Commands <- AllInput
    Moves <- NoMoves
    Screen0 <- Size32
    MaxCalls = 7
SPECIFICATION Spec
INVARIANTS TypeOK TrackerWellFormed HostAgrees NoStuckKey
