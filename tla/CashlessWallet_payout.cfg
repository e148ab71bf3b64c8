CONSTANTS
    w1 = w1
    w2 = w2
    m1 = m1
    m2 = m2
    i1 = i1
    i2 = i2
    h1 = h1
    h2 = h2
    NoReq = NoReq
    Wallets = {w1}
    Merchants = {m1}
    Ids = {i1, i2}
    Requests <- DeskRequests
    Pct = 50
    Handlers = {h1, h2}
    MaxStock = 1
SPECIFICATION Spec
INVARIANTS CommittedWithdrawalConfirmed
