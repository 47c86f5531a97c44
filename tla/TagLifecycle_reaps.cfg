CONSTANTS
    NULL = NULL
    Image = {"app:v1", "app:v2", "app:odd", "alpine:v1", "snap:v1", "python:3.11", "python:3.12",
             "stdlib:v1", "app:idle", "kube:v1"}
    Repo = {"app", "alpine", "snap", "python", "stdlib", "kube"}
    RepoOf <- MCRepoOf
    PathOf <- MCPathOf
    LabelSegment = {"prod"}
    UuidSegment = {}
    SuffixOf <- MCSuffixOf
    SuffixSeconds <- MCSuffixSeconds
    TagRank <- MCTagRank
    Digest = {0, 1}
    Debounce = 1
    Limit = 500
    Handler = {"h1", "h2"}
    Cron = {cron}
    Frontend = {"main", "writer"}
    Main = "main"
    FrontendOf <- MCFrontendOf
    EnvOf <- MCEnvOf
    CronScope = {}
    RedisUp = TRUE
    ReaperAuthorized = TRUE
    SharedContent = TRUE
    Legacy = {"app:odd"}
    Bounds <- MCReaps
SPECIFICATION Spec
INVARIANT TypeOK
PROPERTY UnselectedRowSurvives
PROPERTY ProtectedTagsStay
