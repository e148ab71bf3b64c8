CONSTANTS
    x1 = x1
    x2 = x2
    s1 = s1
    s2 = s2
    l1 = l1
    l2 = l2
    l3 = l3
    w1 = w1
    w2 = w2
    u1 = u1
    u2 = u2
    i1 = i1
    i2 = i2
    h1 = h1
    h2 = h2
    None = None
    Tables = {x1, x2}
    Stalls = {s1, s2}
    Lines = {l1, l2}
    Wallets = {w1, w2}
    Tags = {u1, u2}
    Requests <- Floor
    Prices = {2}
    Pct <- HalfAndNothing
    Funds = 4
    Shelf = 1
    Handlers = {h1, h2}
    MaxAsks = 2
    MaxEdits = 3
    MaxMoves = 1
SPECIFICATION Spec
INVARIANTS BooksAddUp ShelfAddsUp PaidIsThisTap RefusedIsUncharged
SYMMETRY HandlerSymmetry
CHECK_DEADLOCK FALSE
