SPECIFICATION Spec
CONSTANTS
    Requests = {q1, q2, q3}
    Costs = {1, 2, 3}
    Grants = {}
    DemoMode = FALSE
    Overlap = TRUE
    FreeCredits = 3
INVARIANT TotalsAgree
CHECK_DEADLOCK FALSE
