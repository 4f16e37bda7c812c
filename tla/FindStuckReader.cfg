CONSTANTS
    Connects = {c1}
    Invalid = {}
    TLSCalls = {c1}
    ScriptEvents = {"data"}
    Script = "careful"
    DeadlineMayFail = FALSE
    VuMayStop = FALSE
    MaxReads = 1
    MaxTimeouts = 0
    None = None
SPECIFICATION FairSpec
CHECK_DEADLOCK FALSE
PROPERTY GoroutinesEnd
