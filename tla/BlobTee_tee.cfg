CONSTANTS
    q1 = q1
    q2 = q2
    Request <- MCRequest
    N = 2
    WriterFaults = {"error", "wedge"}
    UpstreamFaults = {"error", "slow"}
    Leaving = {q1}
SPECIFICATION FairSpec
CHECK_DEADLOCK FALSE
INVARIANT TypeOK
INVARIANT BodyWhole
INVARIANT CleanPullCached
PROPERTY HandlerReturns
