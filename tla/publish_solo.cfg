SPECIFICATION PublishSpec
CONSTANTS
    i1 = i1
    i2 = i2
    naver = naver
    coupang = coupang
    Items <- TwoItems
    Sellable = {i1}
    Channels <- TwoChannels
    Primary = naver
    Samples = {coupang}
    Workers = {w1}
    MaxProducts = 3
    MaxFaults = 2
    Restarts = TRUE
    NULL = NULL
INVARIANTS
    TypeOK
    KeyedByPrimary
    ApprovalHasDraft
