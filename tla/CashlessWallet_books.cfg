CONSTANTS
    w1 = w1
    w2 = w2
    m1 = m1
    m2 = m2
    i1 = i1
    i2 = i2
    h1 = h1
    h2 = h2
    NoReq = NoReq
    Wallets = {w1, w2}
    Merchants = {m1, m2}
    Ids = {i1, i2}
    Requests <- TillRequests
    Pct = 50
    Handlers = {h1, h2}
    MaxStock = 1
SPECIFICATION Spec
INVARIANTS NoOverdraft JournalMatchesWallets FloatCoversEverything HistoryExplainsState
PROPERTIES AnsweredOnce
SYMMETRY HandlerSymmetry
