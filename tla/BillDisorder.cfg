SPECIFICATION Spec
CONSTANTS
    Checkouts = {k1, k2}
    NoSub = NoSub
    Hooks = {h1, h2}
    PaidTiers = {"starter"}
    Prices = {"starter", "legacy"}
    Period = 1
    MaxTime = 2
    MaxLive = 2
    MaxChanges = 1
    MaxLate = 1
    MaxRepeats = 0
    MaxLost = 1
SYMMETRY CheckoutAndHookSymmetry
INVARIANT TierWasBought
CHECK_DEADLOCK FALSE
