CONSTANTS
    u1 = u1
    u2 = u2
    w1 = w1
    w2 = w2
    w3 = w3
    t1 = t1
    t2 = t2
    h1 = h1
    h2 = h2
    none = none
    None = none
    Tags = {u1, u2}
    Wallets = {w1, w2}
    Tickets = {t1, t2}
    Handlers = {h1, h2}
    MaxOps = 4
    MaxFaults = 1
SPECIFICATION Spec
INVARIANTS RetiredIsDead TrailTellsTheBand
PROPERTIES TicketKeepsWallet
SYMMETRY Anyone
CHECK_DEADLOCK FALSE
