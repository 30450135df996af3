CONSTANTS
    NoOrder = NoOrder
    NoBar = NoBar
    Capital = 100
    Multiplier = 10
    Leverage = 1
    FeeRate = 1
    Slip = 1
    RiskPct = 20
    MinSize = 1
    MaxSize = 2
    LossPct = 30
    Trail = 2
    Ttl = 1
    Cutoff = 4
    AllowLate = FALSE
    WarmupBars = 0
    Datasets <- Days
    Shapes <- AllShapes
    Signals <- Answers
SPECIFICATION BSpec
INVARIANTS PendingOnlyFlat CashIsPnl FlatIntoAuction AuctionEndsDay
PROPERTIES LossStopsDay
CHECK_DEADLOCK FALSE
