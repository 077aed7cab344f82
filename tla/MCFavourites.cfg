SPECIFICATION FairSpec
CONSTANTS
    Users = {u1, u2}
    Products = {p1, p2}
    DefaultProduct = p1
    NoUser = NoUser
    MaxObservers = 2
    MaxQueue = 1
    MaxChanges = 2
INVARIANTS
    TypeOK
    NoneMissed
    FavouritesExact
    HeartNeverOverstates
    FilledMeansStored
PROPERTIES
    FavouriteArrives
