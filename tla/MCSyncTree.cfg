SPECIFICATION Spec
CONSTANTS
    Device = d
    Ref = cart
    Paths = {x, y}
    Values = {v}
    None = None
    Public = {y}
    MaxPuts = 2
    MaxDisruptions = 1
    MaxObservers = 1
    MaxQueue = 0
    MaxForeign = 0
INVARIANTS
    WritesAccounted
    VisibleWritesExact
    EventSnapExact
PROPERTIES
    ImplementsListener
CHECK_DEADLOCK FALSE
