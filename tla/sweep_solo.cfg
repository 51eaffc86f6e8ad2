SPECIFICATION FairSweepSpec
CONSTANTS
    Listings = {l1, l2}
    Scheduler = tick
    Routes = {}
    Prices <- ThreePrices
    Baseline = 29
    Quote <- ThreeQuotes
    ThinMargin = {}
    ListedAt = 829
    MaxFaults = 0
    NULL = NULL
INVARIANTS
    TypeOK
    RowsTellTheShop
PROPERTIES
    OfferFollowsSource
    StableSourceNoChange
