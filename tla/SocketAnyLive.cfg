CONSTANTS
    Connects = {c1}
    Invalid = {i1}
    TLSCalls = {c1}
    ScriptEvents = {"close", "error"}
    Script = "any"
    DeadlineMayFail = FALSE
    VuMayStop = TRUE
    MaxReads = 0
    MaxTimeouts = 0
    None = None
SPECIFICATION FairSpec
CHECK_DEADLOCK FALSE
PROPERTIES DestroyCompletes ScriptReturns CloseHandled VuReleasesSenders
