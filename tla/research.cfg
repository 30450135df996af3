SPECIFICATION Spec
CONSTANTS
    Spaces = {"core", "full"}
    Targets = {2, 5}
    Interval = 2
    TrialScores <- SomeScores
    MaxStored = 5
    Grids <- SomeGrids
    ChunkSize = 3
    TrialMetrics <- SomeMetrics
    Gates <- FinalGates
    Plans <- SomePlans
    Capitals = {1, 2}
    Bases <- SomeBases
    Splits <- SomeSplits
    Radius = 50
    BranchSeeds = {0, 2}
    SeedCap = 3
    Scorers <- ThreeScorers
    Reports <- HybridReports
    Equities <- SomeEquities
    Longest = 5
    Threshold = 50
INVARIANTS
    ResumesExactly
    EachTriedOnce
    OutOfSample
    SearchedAroundSeeds
    ScansAreRight
CHECK_DEADLOCK FALSE
