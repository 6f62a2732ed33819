CONSTANTS
    Keys = {a}
    ModifierKeys = {}
    UnmappedKeys = {}
    NoKey = NoKey
    MaxKeys = 1
    NoReport = NoReport
    NoPos = NoPos
    NoCmd = NoCmd
    Faults = {"unplug", "suspend", "disconnect", "full"}
    WakeupModes = {TRUE, FALSE}
    QueueDepth = 1
    Commands <- AllKinds
    Moves <- SomeMoves
    Screen0 <- Size32
    MaxCalls = 4
SPECIFICATION Spec
INVARIANTS NoLostWakeup MoveNotLost NoDoubleScroll FlushedOnDisconnect NoMissedWakeup
