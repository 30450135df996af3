CONSTANTS
    Orders = {o1, o2}
    NoOrder = NoOrder
    MaxQty = 2
    Threaded = FALSE
    MaxCrashes = 2
    MayFail = {"orders", "position"}
SPECIFICATION RSpec
SYMMETRY Symmetry
INVARIANTS WorkingKnown OneExitAcrossRestarts CountedOnce
CHECK_DEADLOCK FALSE
