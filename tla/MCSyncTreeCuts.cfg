SPECIFICATION FairSpec
CONSTANTS
    Device = d
    Ref = cart
    Paths = {x}
    Values = {v}
    None = None
    Public = {}
    MaxPuts = 2
    MaxDisruptions = 2
    MaxObservers = 1
    MaxQueue = 0
    MaxForeign = 1
INVARIANTS
    TypeOK
    OwnWritesStay
    AtRestExact
    NoneStranded
PROPERTIES
    ViewConverges
CHECK_DEADLOCK FALSE
