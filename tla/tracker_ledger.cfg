CONSTANTS
    Prices = {2, 4}
    Multiplier = 1
    Rate = 1
    Capital = 100
    NoTrade = NoTrade
    MaxPos = 3
    MaxFills = 4
    Levels <- SomeLevels
    Trail = 2
    MaxLoss = 2
SPECIFICATION PrSpec
INVARIANTS CashExplained TradeHoldsPosition DailyRight StopIsItsOwn
