CONSTANTS
    Keys = {a}
    ModifierKeys = {}
    UnmappedKeys = {}
    NoKey = NoKey
    MaxKeys = 2
    NoReport = NoReport
    NoPos = NoPos
    NoCmd = NoCmd
    Faults = {"suspend"}
    WakeupModes = {TRUE}
    QueueDepth = 2
    Commands <- OneKeyOneButton
    Moves <- OneMove
    Screen0 <- Size32
    MaxCalls = 4
SPECIFICATION FairSpec
INVARIANTS BlockedSendWoken LastSentFaithful
PROPERTIES SendCompletes InputServed
