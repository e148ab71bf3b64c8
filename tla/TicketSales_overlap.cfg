CONSTANTS
    s1 = s1
    s2 = s2
    s3 = s3
    h1 = h1
    h2 = h2
    NoSale = NoSale
    Sales = {s1, s2}
    Qty <- QtyOne
    Capacity = 1
    Rails = {"PEACH_CARD"}
    Handlers = {h1, h2}
    Overlap = TRUE
    MaxFaults = 0
    MaxRefunds = 0
SPECIFICATION Spec
INVARIANT NoOversell
CHECK_DEADLOCK FALSE
