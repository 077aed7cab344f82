SPECIFICATION Spec
CONSTANTS
    Users = {u1, u2}
    Products = {p1, p2}
    SubTotals = {2}
    NoUser = NoUser
    Prompt = FALSE
    MaxObservers = 2
    MaxQueue = 1
    MaxChanges = 3
INVARIANTS
    TypeOK
    SubtotalMatches
    ShownOrCleared
    CleanListExact
SYMMETRY MCSymmetry
