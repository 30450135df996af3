SPECIFICATION Spec
CONSTANTS
    LastDay = 4
    ResearchDay = 3
    Closed = {}
    MaxTicks = 2
    Jobs = {j1}
    MonthOf <- TwoDayMonths
    FirstDay <- FirstOfTwo
    FinalDay <- LastOfTwo
    Requests <- FewRequests
    Window = 4
    Stamp <- TogetherOnDayOne
INVARIANTS
    CompleteMonthsAreWhole
    LoadIsTheDatabase
    DayFilesAreWhole
    WarmupIsTheWindow
