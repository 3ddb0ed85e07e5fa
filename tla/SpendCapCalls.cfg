SPECIFICATION CapSpec
CONSTANTS
    r1 = r1  r2 = r2  r3 = r3
    Requests = {r1, r2}
    MaxCount <- MCMaxCount
    Unit <- MCUnit
    UsdCap = 3
    LastDay = 0
    MaxRounds = 1
INVARIANT
    CallsWithinCaps
CHECK_DEADLOCK FALSE
