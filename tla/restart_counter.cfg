CONSTANTS
    Orders = {o1, o2}
    NoOrder = NoOrder
    MaxQty = 2
    Threaded = FALSE
    MaxCrashes = 1
    MayFail = {}
SPECIFICATION RSpec
SYMMETRY Symmetry
INVARIANTS NoDoubleCount
