CONSTANTS
    Connects = {c1}
    Invalid = {}
    TLSCalls = {c1}
    ScriptEvents = {}
    Script = "any"
    DeadlineMayFail = FALSE
    VuMayStop = FALSE
    MaxReads = 0
    MaxTimeouts = 0
    None = None
SPECIFICATION Spec
CHECK_DEADLOCK FALSE
PROPERTY DestroyedIsFinal
