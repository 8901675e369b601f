SPECIFICATION AccountSpec
CONSTANTS
    Devices = {d1, d2}
    MaxTokens = 3
    MaxEpochs = 2
    Numbers = {n1, n2}
    NoNumber = NoNumber
    MaxVerifyAttempts = 2
    MaxConfirmAttempts = 2
    MaxCodes = 3
    MaxCalls = 2
    Window = 3
    Horizon = 9
    Tables = {1, 2, 3, 4}
    Imports <- MCImports
    Inner <- MCInner
    TooLong = {"too long"}
    Within <- MCWithin
    Applications <- MCApplications
    Scrapes <- MCScrapes
    NetworkScans <- MCNetworkScans
    Slug <- MCSlug
    FirstLast <- MCFirstLast
    Syncs <- MCSyncs
    Thread <- MCThread
    Talks <- MCTalks
    Postings = {"p1"}
    Cleaners = {c1, c2}
    MaxThreads = 4
    Company <- MCCompany
    NamePrefix <- MCNamePrefix
    Regions <- MCRegions
    Queries <- MCQueries
    Found <- MCFound
    HasSearch = TRUE
    Askers = {a1, a2}
    MaxIntros = 2
INVARIANTS SessionAfterLogout VerifiedGotTheCode WindowLimitsAdmitted
    ThreadLostNeedsOverlap DuplicateIntroNeedsOverlap FirstDegreeLeads
PROPERTY WipeIsAllOrNothing
SYMMETRY AccountSymmetry
CHECK_DEADLOCK FALSE
