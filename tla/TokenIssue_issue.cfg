CONSTANTS
    Token = {"tAnn", "tBob", "static", "old", "twin", "three", "wrap", "empty"}
    NoToken = "empty"
    Wrapped = {"wrap"}
    ClusterId = {"c1", "c2", "c3"}
    User = {"ann", "bob"}
    NoUser = "nobody"
    Known <- MCKnown
    NamesOf <- MCNamesOf
    NoName = "noname"
    Request <- MCRequest
    Asked <- MCAsked
    ConfigOf <- MCConfigOf
    MaxScopes = 4
    PoolMax = 2
    WrappedTtl = 900
    TokenTtl = 3600
    Together <- MCTogether
    MaxFaults = 2
SPECIFICATION Spec
CHECK_DEADLOCK FALSE
INVARIANT TypeOK
INVARIANT OwnSecretsStay
INVARIANT ClustersStayHome
INVARIANT ImpostorsGetNothing
INVARIANT NothingLeaks
PROPERTY ImplementsLedger
PROPERTY EverybodyIsAnswered
