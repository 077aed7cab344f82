SPECIFICATION Spec
CONSTANTS
    r1 = r1
    r2 = r2
    r3 = r3
    Records = {r1, r2, r3}
    Id <- MCId
    Prices = {1, 2}
    Absent = Absent
    MaxQueue = 0
    MaxChanges = 4
INVARIANTS
    RowsExact
    FirstHeartHonest
    PricesWereReal
CHECK_DEADLOCK FALSE
