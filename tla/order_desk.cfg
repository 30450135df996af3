CONSTANTS
    Orders = {o1, o2}
    NoOrder = NoOrder
    MaxQty = 2
    Threaded = FALSE
SPECIFICATION FairSpec
INVARIANTS TypeOK
PROPERTIES ImplementsDesk FinishedForgotten
