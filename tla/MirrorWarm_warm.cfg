CONSTANTS
    NULL = NULL
    Request = {"multi", "plain", "byDigest"}
    Blob = {"base", "a"}
    Single = {"amd64", "arm64", "next"}
    Index = {"list", "nextList"}
    BlobsOf <- MCBlobsOf
    ChildrenOf <- MCChildrenOf
    Tag = "latest"
    RefOf <- MCRefOf
    WantsIndex = {"multi"}
    Contents <- MCContents
    FanOut = 1
    MaxFaults = 1
    MaxEvictions = 1
SPECIFICATION FairSpec
CHECK_DEADLOCK FALSE
INVARIANT TypeOK
INVARIANT PutAfterBlobs
INVARIANT WarmedWhenServed
INVARIANT ServesWhatUpstreamHad
PROPERTY WarmEnds
PROPERTY IndexWarmed
