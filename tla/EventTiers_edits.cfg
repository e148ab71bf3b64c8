CONSTANTS
    t1 = t1
    t2 = t2
    t3 = t3
    h1 = h1
    h2 = h2
    Tiers = {t1, t2}
    FirstTiers = {t1}
    Handlers = {h1, h2}
    Sizes = {1, 2}
    MaxOps = 4
SPECIFICATION Spec
INVARIANTS OnlyRacesLoseCounts DroppedIsEmpty GoneStaysGone
SYMMETRY HandlerSymmetry
CHECK_DEADLOCK FALSE
