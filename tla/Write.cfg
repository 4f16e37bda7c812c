CONSTANTS
    w1 = w1
    w2 = w2
    MaxConns = 2
    Writes = {w1, w2}
    Arguments <- MCArguments
    VuMayStop = TRUE
    None = None
SPECIFICATION FairSpec
CHECK_DEADLOCK FALSE
INVARIANTS TypeOK Contiguous WritesCounted ResolvedIsWhole CountsOnlySent
PROPERTIES SettledIsSilent DestroyEndsWrites
