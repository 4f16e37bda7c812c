CONSTANTS
    Connects = {c1, c2}
    Invalid = {}
    TLSCalls = {c1, c2}
    ScriptEvents = {"connect", "data", "error", "close"}
    Script = "careful"
    DeadlineMayFail = FALSE
    VuMayStop = FALSE
    MaxReads = 1
    MaxTimeouts = 0
    None = None
    VuTags <- MCVuTags
    OwnTags <- MCOwnTags
    CallTags <- MCCallTags
    WriteTags <- MCWriteTags
SPECIFICATION TagFairSpec
CHECK_DEADLOCK FALSE
INVARIANTS ConnectBeforeReads NoLeak DialTarget EndpointsMatch OneReader
    ConnectBeforeClose FewAfterClose SocketAccounting ConnectionTags
PROPERTIES FairContract ConnectSettles
