SPECIFICATION BackSpec
CONSTANTS
    Callers = {c1, c2}
    Tasks = {"classification", "deep_analysis"}
    Prompts = {p1, p2}
    MaxRetries = 1
    MaxOutages = 1
    MaxText = 9
    Shadows = {h1}
    MaxShadowFaults = 1
    Quicks = {q1, q2}
    Details = {d1, d2}
    KeyConfigured = TRUE
    MaxReportCrashes = 1
    ProfileRequests = {r1, r2}
    MaxVersion = 2
    DemoMode = FALSE
    HasClaudeKey = TRUE
INVARIANTS BracketsAreFollowed PackDeliveredOnce PhaseIsSettled
    SecondActiveNeedsImportOrOverlap
PROPERTY GenerationEnds
CHECK_DEADLOCK FALSE
