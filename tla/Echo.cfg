CONSTANTS
    Conns = {k1, k2}
    Variables = 5
    MaxSignals = 2
SPECIFICATION FairSpec
CHECK_DEADLOCK FALSE
INVARIANTS TypeOK StopWaits CommandIsServed NoOrphan
PROPERTIES StopReturns SignalsForwarded
