SPECIFICATION FairSweepSpec
CONSTANTS
    Listings = {l1}
    Scheduler = tick
    Routes = {r1}
    Prices <- ThreePrices
    Baseline = 29
    Quote <- ThreeQuotes
    ThinMargin = {}
    ListedAt = 829
    MaxFaults = 1
    NULL = NULL
INVARIANTS
    NoAutomaticRaise
PROPERTIES
    RowsFollowSource
