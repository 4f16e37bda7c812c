CONSTANTS
    Requests <- MCRequests
    Millisecond = 2
    Half = 8
    MaxRequests = 3
SPECIFICATION FairSpec
CHECK_DEADLOCK FALSE
PROPERTY DisabledGoesQuiet
