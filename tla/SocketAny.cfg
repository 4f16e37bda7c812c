CONSTANTS
    Connects = {c1, c2}
    Invalid = {}
    TLSCalls = {c1, c2}
    ScriptEvents = {"close", "unknown"}
    Script = "any"
    DeadlineMayFail = TRUE
    VuMayStop = FALSE
    MaxReads = 1
    MaxTimeouts = 1
    None = None
SPECIFICATION Spec
SYMMETRY ConnectSymmetry
CHECK_DEADLOCK FALSE
INVARIANTS TypeOK HoldsLiveConn CloseOnce CloseAfterRelease
