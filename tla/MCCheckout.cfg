SPECIFICATION Spec
CONSTANTS
    Devices = {d1}
    Products = {p1, p2}
    Orders = {o1, o2}
    MaxQty = 1
    InitialCarts <- MCFullCart
    MaxLines = 2
    SecuredCart = FALSE
    SecuredOrders = TRUE
    MaxPuts = 4
    MaxDisruptions = 2
INVARIANTS
    OrderFirst
    OrderExact
PROPERTIES
    ImplementsLedger
SYMMETRY MCSymmetry
CHECK_DEADLOCK FALSE
