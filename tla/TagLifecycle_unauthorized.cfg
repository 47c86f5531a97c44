CONSTANTS
    NULL = NULL
    Image = {"app:v1", "app:v2"}
    Repo = {"app"}
    RepoOf <- MCRepoOf
    PathOf <- MCPathOf
    LabelSegment = {"prod"}
    UuidSegment = {}
    SuffixOf <- MCSuffixOf
    SuffixSeconds <- MCSuffixSeconds
    TagRank <- MCTagRank
    Digest = {0, 1}
    Debounce = 1
    Limit = 500
    Handler = {"h1"}
    Cron = {cron}
    Frontend = {"main"}
    Main = "main"
    FrontendOf <- MCFrontendOf
    EnvOf <- MCEnvOf
    CronScope = {}
    RedisUp = FALSE
    ReaperAuthorized = FALSE
    SharedContent = TRUE
    Legacy = {}
    Bounds <- MCPushes
SPECIFICATION FairSpec
PROPERTY StaleEventuallyReaped
