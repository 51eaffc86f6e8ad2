SPECIFICATION SalesSpec
CONSTANTS
    NULL = NULL
    Junk = Junk
    NoCode = "none"
    i1 = i1
    Items = {i1}
    Goods <- SampleGoods
    Prices <- SamplePrices
    Category = "Best"
    Demand <- SampleDemand
    ModelScores <- SampleScores
    MinMargin = 2600
    MinOrderMargin = 300
    CostsFx = 14
    DefaultFx = 14
    FxChoices <- SampleFx
    ChannelLists <- SampleChannels
    ProhibitedCategories = {"Drugs", "Weapons", "Tobacco"}
    ProhibitedWords = {"taser"}
    BannedWords = {"fda"}
    RiskyBrands = {"Nike"}
    KcBlock = {"Chargers"}
    KcReview = {"Power Banks"}
    ListLimit = 15
    HsMap <- SampleHsMap
    D = 20
    Scale = 1
    FxBuffer = 21
    IntlShipping = 80
    DomesticShipping = 30
    ReturnReserve = 1
    TargetMargin = 5
    ImportVat = 2
    DefaultDuty = 2
    DutyRates <- SampleDuty
    PriceRounding = 10
    ChannelFees <- SampleFees
INVARIANTS
    SalesTypeOK
    OnlyCleanIsDrafted
    PricesCover
    AdviserOnlyDemotes
    FreshOrderPasses
PROPERTIES
    NoSilentMock
    NoLossOrdered
    ReprocessKeepsLedger
