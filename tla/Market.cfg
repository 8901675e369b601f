SPECIFICATION MarketSpec
CONSTANTS
    Labels = {"funding", "leadership", "pain", "velocity", "crunchbase", "live_openings"}
    MaxFound = 2
    HitLists <- MCHitLists
    ProviderLists <- MCProviderLists
    ClaudeAnswers <- MCClaudeAnswers
    Norm <- MCNorm
    Prefix <- MCPrefix
    WholeTitle <- MCWholeTitle
    Overlap <- MCOverlap
    Scanners = {r1, daily}
    Daily = daily
    AlertTasks = {t1, t2}
    Jobs = {j1}
    Scans <- MCScans
    MaxRows = 2
    CacheTtl = 1
    Throttle = 2
    Pages <- MCPages
    q1 = q1
    Markets = {q1, q2}
    Answers <- MCAnswers
    PlainText <- MCPlain
    Vacancy <- MCVacancy
    Headline <- MCHeadline
    Publishers <- MCPublishers
    Captures <- MCCaptures
    MarketCooldown = 1
    MaxSignals = 2
    Words <- MCWords
    Tokens <- MCTokens
    Inside <- MCInside
    CompanyKey <- MCCompanyKey
    RoleKey <- MCRoleKey
    ProviderData <- MCProviderData
    Ages = {0, 60}
    Requested <- MCRequested
    Messages = {m1}
    Ignored = {}
    MailHits <- MCMailHits
    c1 = c1
    Edits = {c1, c2}
    Syncs = {s1}
    DeepScans = {e1, e2}
    MaxMailTries = 2
    Entries = {a1, a2}
    Forms = {f1}
    Meetings = {m1}
    Interviews = {m1}
    Timed = {}
    AllDay = {m1}
    TrailNotes = {k1}
    Clerks = {b1, b2}
    Unlinked = Unlinked
    LastDay = 1
INVARIANTS StrongestIsKept RoleOutranksNoise RescanNeedsARace
    CorroborationCostsLittle LiveTokensNeedARace ScanningIsAttended
    SecondApplicationNeedsOverlapOrDeletion
PROPERTY AlertsAreSpaced
CHECK_DEADLOCK FALSE
