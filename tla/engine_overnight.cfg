CONSTANTS
    Orders = {o1, o2}
    MaxQty = 2
    Settings <- ShippedOnly
SPECIFICATION PSpec
PROPERTIES ForceFlatEnsures
CHECK_DEADLOCK FALSE
