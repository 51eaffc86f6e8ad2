SPECIFICATION DeskSpec
CONSTANTS
    Orders = {o1, o2}
    Workers = {w1}
    AmazonNos = {n1, n2}
    NULL = NULL
INVARIANTS
    TypeOK
    OrdersFollowLedger
PROPERTIES
    BookSpec
