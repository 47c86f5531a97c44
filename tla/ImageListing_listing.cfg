CONSTANTS
    Image <- MCImage
    RepoOf <- MCRepoOf
    Repository = {"app", "lib"}
    User = {"ann", "bob"}
    Nobody = "nobody"
    Caller <- MCCaller
    StrategyOf <- MCStrategyOf
    UserOf <- MCUserOf
    Asks <- MCAsks
    NaN = NaN
    MinLimit = 1
    MaxLimit = 3
    DefaultLimit = 2
    Lag = 1
    MaxTime = 3
    MaxChanges = 1
    Start <- MCStart
SPECIFICATION Spec
CHECK_DEADLOCK FALSE
INVARIANT NothingStableIsMissed
INVARIANT RestingListIsExact
PROPERTY WalkEnds
