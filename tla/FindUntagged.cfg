CONSTANTS
    Connects = {c1}
    Invalid = {}
    TLSCalls = {c1}
    ScriptEvents = {}
    Script = "careful"
    DeadlineMayFail = FALSE
    VuMayStop = FALSE
    MaxReads = 1
    MaxTimeouts = 0
    None = None
    VuTags <- MCVuTags
    OwnTags <- MCOwnTags
    CallTags <- MCCallTags
    WriteTags <- MCWriteTags
SPECIFICATION TagSpec
CHECK_DEADLOCK FALSE
INVARIANT OwnTagsEverywhere
