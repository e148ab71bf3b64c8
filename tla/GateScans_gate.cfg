CONSTANTS
    t1 = t1
    t2 = t2
    t3 = t3
    s1 = s1
    s2 = s2
    h1 = h1
    h2 = h2
    None = None
    Tickets = {t1, t2, t3}
    Sales = {s1, s2}
    SaleOf <- SharedSale
    Handlers = {h1, h2}
    MaxOps = 5
    MaxFaults = 1
SPECIFICATION GateSpec
INVARIANTS AdmittedOnce GateBooksAddUp
PROPERTY FateIsSettledOnce
SYMMETRY HandlerSymmetry
CHECK_DEADLOCK FALSE
