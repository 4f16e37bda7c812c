CONSTANTS
    Requests <- MCRequests
    Millisecond = 2
    Half = 8
    MaxRequests = 3
SPECIFICATION FairSpec
CHECK_DEADLOCK FALSE
INVARIANTS TypeOK StoredAsAsked
PROPERTIES NotEarly IdleTimesOut
