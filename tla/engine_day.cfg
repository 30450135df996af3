CONSTANTS
    Orders = {o1, o2}
    MaxQty = 2
    Settings <- EverySetting
SPECIFICATION PFairSpec
INVARIANTS NoStaleDeferral
PROPERTIES FlatOvernight ExitKeepsComing
CHECK_DEADLOCK FALSE
