CONSTANTS
    Orders = {o1, o2, o3}
    NoOrder = NoOrder
    MaxQty = 2
    Threaded = TRUE
SPECIFICATION Spec
SYMMETRY Symmetry
INVARIANTS OneExitWorking NoDoubleCount
PROPERTIES NoReversal
