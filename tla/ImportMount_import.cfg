CONSTANTS
    NULL = NULL
    Call = {"first", "next"}
    Blob = {"base", "a", "b"}
    Single = {"old", "new", "bare"}
    Index = {"list"}
    BlobsOf <- MCBlobsOf
    Cases <- MCCases
SPECIFICATION FairSpec
CHECK_DEADLOCK FALSE
INVARIANT TypeOK
INVARIANT RefusedOnlyAfterSweep
PROPERTY Converges
