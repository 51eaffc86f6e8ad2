SPECIFICATION ConsoleSpec
CONSTANTS
    Orders = {o1}
    Workers = {w1}
    Tabs = {t1, t2}
    AmazonNos = {n1, n2}
    MaxFaults = 0
    LossyLink = FALSE
    NULL = NULL
INVARIANTS
    PaidOnce
