SPECIFICATION Spec
CONSTANTS
    Users = {u1, u2}
    Emails = {e1, e2}
    Passwords = {p1}
    Nothing = Nothing
    MaxCalls = 1
    MaxSessions = 1
    MaxPuts = 2
    MaxDisruptions = 2
INVARIANTS
    ProfileMatchesAccount
    MailFresh
SYMMETRY MCSymmetry
