\* Three billing requests, four catalogue requests, two attempts of an
\* analysis, two deliveries of its embeddings, each on its own.
CONSTANTS
    Requests = {1, 2, 3, 4}
    PlanRequests = {1, 2, 3}
    Attempts = {t1, t2}
    None = None
    Users = {u1}
    Plans = {free, pro, team}
    Free = free
    ProjectNames = {n1, n2}
    IGNORED_DIRS = {"node_modules"}
    SecretNames = {".env"}
    MaxFiles = 4
    MaxTokens = 4
    TokenOverlap = 1
    MaxEmbedded = 2
    MaxDeliveries = 2
    Urls <- UrlsOf
    Slug <- SlugOf
    Checkouts <- CheckoutsOf
    LANG_EXT <- LangOf
    HasWord <- Same
    EntryPoints <- EntryPointsOf
    Paths <- PathsOf
    EntryTokens <- TokensOf
SPECIFICATION MCSpec
INVARIANTS
    TypeOK
    PlansAgree
    NameHasOneRow
    TogglesCount
    TreeIsWhole
    OneSnapshot
    EntriesAreCovered
\* Requests, attempts and deliveries are used up.
CHECK_DEADLOCK FALSE
