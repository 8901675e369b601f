SPECIFICATION CareerSpec
CONSTANTS
    s1 = s1
    s2 = s2
    s3 = s3
    u1 = u1
    u2 = u2
    t1 = t1
    t2 = t2
    l1 = l1
    l2 = l2
    Apps = {x1}
    Editors = {e1, e2}
    Actions = {a1, a2}
    Requests = {r1, r2}
    MaxEdits = 1
    Generators = {g1, g2}
    Cap = 5
    Opportunities <- MCOpportunities
    Users = {u1, u2}
    Signals = {s1, s2, s3}
    SignalTypes = {t1, t2}
    UserOf <- MCUserOf
    TypeOf <- MCTypeOf
    Learners = {l1, l2}
    Stages = {"applied", "interview"}
    UserBatch = 2
    PerUser = 1
    MemorySize = 1
SYMMETRY LearnersSymmetry
INVARIANTS StageStamped SentIsSettled OverrunIsBounded
    LearningCoversOutcomes
CHECK_DEADLOCK FALSE
