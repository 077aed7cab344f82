SPECIFICATION FairSpec
CONSTANTS
    Users = {u1, u2}
    Products = {p1, p2}
    Vals = {v}
    Absent = Absent
    NoUser = NoUser
    Prompt = TRUE
    MaxObservers = 2
    MaxQueue = 1
    MaxChanges = 3
PROPERTIES
    ListRecovers
    ScreenRecovers
