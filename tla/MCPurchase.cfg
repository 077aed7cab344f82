SPECIFICATION Spec
CONSTANTS
    p1 = p1
    p2 = p2
    Users = {u1}
    Products = {p1, p2}
    NoUser = NoUser
    MaxCount = 2
    MaxObservers = 2
    MaxQueue = 1
    MaxChanges = 2
    Price <- MCPrice
INVARIANTS
    HandsOverWhatIsShown
    PurchaseExact
    QuantitiesInRange
