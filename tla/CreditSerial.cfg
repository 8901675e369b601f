SPECIFICATION Spec
CONSTANTS
    Requests = {q1, q2, q3}
    Costs = {1, 2, 3}
    Grants = {1, 4}
    DemoMode = TRUE
    Overlap = FALSE
    FreeCredits = 3
PROPERTY ImplementsAccount
CHECK_DEADLOCK FALSE
