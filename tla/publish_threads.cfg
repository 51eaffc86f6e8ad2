SPECIFICATION PublishSpec
CONSTANTS
    i1 = i1
    i2 = i2
    naver = naver
    coupang = coupang
    Items <- TwoItems
    Sellable = {i1, i2}
    Channels <- TwoChannels
    Primary = naver
    Samples = {coupang}
    Workers = {w1, w2}
    MaxProducts = 2
    MaxFaults = 1
    Restarts = TRUE
    NULL = NULL
SYMMETRY Symmetry
INVARIANTS
    NumbersAreReal
