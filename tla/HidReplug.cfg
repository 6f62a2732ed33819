CONSTANTS
    Keys = {a}
    ModifierKeys = {}
    UnmappedKeys = {}
    NoKey = NoKey
    MaxKeys = 2
    NoReport = NoReport
    NoPos = NoPos
    NoCmd = NoCmd
    Faults = {"unplug"}
    WakeupModes = {TRUE}
    QueueDepth = 2
    Commands <- OneKey
    Moves <- NoMoves
    Screen0 <- Size32
    MaxCalls = 4
SPECIFICATION FairSpec
PROPERTIES SendCompletesOncePlugged
