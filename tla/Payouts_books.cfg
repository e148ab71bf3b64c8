CONSTANTS
    s1 = s1
    s2 = s2
    r1 = r1
    r2 = r2
    none = none
    None = none
    h1 = h1
    h2 = h2
    Sales = {s1, s2}
    Requests = {r1, r2}
    Periods <- TwoPeriods
    Channels = {"cash", "momo", "door"}
    Handlers = {h1, h2}
    MaxTime = 1
    MaxOps = 4
SPECIFICATION Spec
INVARIANTS CommissionPaidOnce StampedIsPaid ClosedPeriodsAddUp
SYMMETRY Anyone
CHECK_DEADLOCK FALSE
