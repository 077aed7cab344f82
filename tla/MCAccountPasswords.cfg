SPECIFICATION FairSpec
CONSTANTS
    Users = {u1}
    Emails = {e1}
    Passwords = {p1, p2}
    Nothing = Nothing
    MaxCalls = 1
    MaxSessions = 1
    MaxPuts = 3
    MaxDisruptions = 1
INVARIANTS
    ProfileMatchesAccount
PROPERTIES
    ProfileArrives
