CONSTANTS
    Key = {"old", "new", "typo"}
    Garbled = {"typo"}
    NoKey = NoKey
    NoBlob = NoBlob
    Node = {"n1", "n2"}
    Pull = {"early", "damaged", "astray"}
    NodeOf <- MCNodeOf
    Mangled = {"damaged"}
    Unrouted = {"astray"}
    MaxBlobAge = 1
    Skew = 1
    Overlap = 2
    MaxListed = 3
    LastTime = 3
SPECIFICATION RotationSpec
CHECK_DEADLOCK FALSE
PROPERTY RotationIsSeamless
