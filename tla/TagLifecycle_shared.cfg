CONSTANTS
    NULL = NULL
    Image = {"app:v1", "app:v2", "app:ttl"}
    Repo = {"app"}
    RepoOf <- MCRepoOf
    PathOf <- MCPathOf
    LabelSegment = {"prod"}
    UuidSegment = {}
    SuffixOf <- MCSuffixOf
    SuffixSeconds <- MCSuffixSeconds
    TagRank <- MCTagRank
    Digest = {0, 1, 2}
    Debounce = 1
    Limit = 500
    Handler = {"h1"}
    Cron = {cron}
    Frontend = {"main"}
    Main = "main"
    FrontendOf <- MCFrontendOf
    EnvOf <- MCEnvOf
    CronScope = {}
    RedisUp = FALSE
    ReaperAuthorized = TRUE
    SharedContent = TRUE
    Legacy = {}
    Bounds <- MCPushes
SPECIFICATION Spec
PROPERTY PullableUntilExpiry
