CONSTANTS
    NULL = NULL
    Image = {"app:v1", "app:v2", "app:ttl"}
    Repo = {"app"}
    RepoOf <- MCRepoOf
    PathOf <- MCPathOf
    LabelSegment = {"prod"}
    UuidSegment = {}
    SuffixOf <- MCSuffixOf
    SuffixSeconds <- MCSuffixSeconds
    TagRank <- MCTagRank
    Digest = {0, 1, 2}
    Debounce = 1
    Limit = 1
    Handler = {"h1", "h2"}
    Cron = {cron}
    Frontend = {"main"}
    Main = "main"
    FrontendOf <- MCFrontendOf
    EnvOf <- MCEnvOf
    CronScope = {}
    RedisUp = FALSE
    ReaperAuthorized = TRUE
    SharedContent = FALSE
    Legacy = {}
    Bounds <- MCWindows
SPECIFICATION FairSpec
PROPERTY PullableUntilExpiry
PROPERTY StaleEventuallyReaped
PROPERTY NotificationsDrain
