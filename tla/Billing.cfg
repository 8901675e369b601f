SPECIFICATION MCSpec
CONSTANTS
    Checkouts = {k1, k2}
    NoSub = NoSub
    Hooks = {h1}
    PaidTiers = {"starter"}
    Prices = {"starter", "legacy"}
    Period = 1
    MaxTime = 3
    MaxLive = 1
    MaxChanges = 2
    MaxLate = 0
    MaxRepeats = 1
    MaxLost = 0
    PacksPerMonth <- MCPacksPerMonth
    Unlimited = Unlimited
    Month = 2
    Packs = {p1, p2, p3}
    MaxOpen = 2
SYMMETRY MCSymmetry
INVARIANTS
    MirrorsStripe
    FreeOverrunIsBounded
PROPERTY PaidLimitWhenSettled
CHECK_DEADLOCK FALSE
