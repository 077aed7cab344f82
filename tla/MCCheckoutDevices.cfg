SPECIFICATION FairSpec
CONSTANTS
    Devices = {d1, d2}
    Products = {p1}
    Orders = {o1, o2}
    MaxQty = 1
    InitialCarts <- MCFullCart
    MaxLines = 1
    SecuredCart = FALSE
    SecuredOrders = TRUE
    MaxPuts = 2
    MaxDisruptions = 1
INVARIANTS
    CartConverges
PROPERTIES
    OrderArrives
CHECK_DEADLOCK FALSE
