CONSTANTS
    o1 = o1
    o2 = o2
    h1 = h1
    h2 = h2
    Reconciler = Reconciler
    NoOrder = NoOrder
    Orders = {o1, o2}
    Handlers = {h1, h2}
    Rails = {"KESHLESS_WALLET", "MTN_MOMO"}
    MaxFaults = 1
SPECIFICATION CounterSpec
INVARIANTS MoneyMeetsOrder StagesInOrder
PROPERTIES PaidIsSettled
CHECK_DEADLOCK FALSE
