SPECIFICATION ConsoleSpec
CONSTANTS
    Orders = {o1}
    Workers = {w1, w2}
    Tabs = {t1, t2}
    AmazonNos = {n1, n2}
    MaxFaults = 1
    LossyLink = TRUE
    NULL = NULL
SYMMETRY Symmetry
INVARIANTS
    MoneyTrail
    LedgerBacksOrders
