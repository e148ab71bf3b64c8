CONSTANTS
    s1 = s1
    s2 = s2
    s3 = s3
    h1 = h1
    h2 = h2
    NoSale = NoSale
    Sales = {s1, s2, s3}
    Qty <- QtyMixed
    Capacity = 3
    Rails = {"PEACH_CARD", "CASH"}
    Handlers = {h1}
    Overlap = FALSE
    MaxFaults = 0
    MaxRefunds = 1
SPECIFICATION Spec
INVARIANTS CountersExact NoOversell
CHECK_DEADLOCK FALSE
