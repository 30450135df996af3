CONSTANTS
    Prices = {1, 2}
    Freq = 3
    Buckets = 3
    Stale = 1
    MinUpdates = 2
    Preclose = 1
    Warmup = 2
    Older = {0, 9}
    Closed = {5}
    MaxTrades = 3
SPECIFICATION BarSpec
INVARIANTS TicksInside WellFormed HistoryInOrder
PROPERTIES OncePerBucket NoBarDropped BucketsClose
