CONSTANTS
    r1 = r1
    r2 = r2
    r3 = r3
    Registered = {"docker", "ghcr", "gcr", "quay", "k8s"}
    Request <- MCRequest
    Asks <- MCAsks
    Workloads <- MCWorkloads
    Digest = {"sha256:1"}
    Ttl = 2
    Patience = 1
    Life = 3
    NoToken = NoToken
    MaxTime = 3
    MaxFaults = 1
SPECIFICATION Spec
SYMMETRY Alike
CHECK_DEADLOCK FALSE
INVARIANT ServedAsMeant
INVARIANT AskedAsMeant
INVARIANT TokensFit
INVARIANT TokensAgeOut
INVARIANT ProofsAreOfTheGoal
