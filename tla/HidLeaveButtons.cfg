CONSTANTS
    Keys = {a}
    ModifierKeys = {}
    UnmappedKeys = {}
    NoKey = NoKey
    MaxKeys = 2
    NoReport = NoReport
    NoPos = NoPos
    NoCmd = NoCmd
    Faults = {}
    WakeupModes = {TRUE}
    QueueDepth = 2
    Commands <- ButtonAndLeave
    Moves <- NoMoves
    Screen0 <- Size32
    MaxCalls = 6
SPECIFICATION Spec
INVARIANTS ButtonsReleasedOnLeave
