SPECIFICATION FairConsoleSpec
CONSTANTS
    Orders = {o1, o2}
    Workers = {w1, w2}
    Tabs = {t1}
    AmazonNos = {n1, n2}
    MaxFaults = 2
    LossyLink = FALSE
    NULL = NULL
INVARIANTS
    ConsoleTypeOK
    PaidOnce
    NoPurchaseLost
PROPERTIES
    ConfirmIsRecorded
