CONSTANTS
    s1 = s1
    s2 = s2
    s3 = s3
    h1 = h1
    h2 = h2
    NoSale = NoSale
    Sales = {s1}
    Qty <- QtyTwo
    Capacity = 2
    Rails = {"MTN_MOMO", "PEACH_CARD", "YOCO", "YEBOPAY", "CASH"}
    Handlers = {h1, h2}
    Overlap = TRUE
    MaxFaults = 1
    MaxRefunds = 0
SPECIFICATION RaceSpec
INVARIANTS MintsAreEarned QuietSalesAreWhole YocoFailsOnEvidence
PROPERTIES SettledIsFinal PromiseIsKept LapsedHoldReleased PaidIsSettled
CHECK_DEADLOCK FALSE
