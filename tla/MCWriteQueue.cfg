SPECIFICATION FairSpec
CONSTANTS
    Devices = {d1}
    Paths = {x, y}
    Values = {v}
    None = None
    Public = {y}
    MaxPuts = 4
    MaxDisruptions = 2
    Batches <- MCBatches
INVARIANTS
    InOrder
    Converged
CHECK_DEADLOCK FALSE
PROPERTIES
    AllAnswered
