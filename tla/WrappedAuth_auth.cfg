CONSTANTS
    Validation <- MCValidation
    Identity = {"alice", "bob", "carol"}
    Repo = {"a", "b"}
    CredOf <- MCCredOf
    Wants <- MCWants
    Misrouted = {"astray"}
    WrappedAt <- MCWrappedAt
    MaxAge = 2
    Ttl = 2
    MaxEntries = 2
    Together <- MCTogether
    MaxTime = 3
SPECIFICATION Spec
CHECK_DEADLOCK FALSE
INVARIANT TypeOK
INVARIANT GrantsAreProved
PROPERTY HitsAreFresh
PROPERTY LeastUsedGoes
