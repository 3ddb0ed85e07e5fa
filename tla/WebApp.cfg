SPECIFICATION WebSpec
CONSTANTS
    u1 = u1  u2 = u2  c1 = c1  c2 = c2
    r1 = r1  r2 = r2  r3 = r3
    Runs = {u1, u2}
    Readers = {c1, c2}
    MaxEvents = 1
    Requests = {r1, r2}
    MaxCount <- MCMaxCount
    Unit <- MCUnit
    UsdCap = 3
    LastDay = 1
    MaxRounds = 1
INVARIANTS
    WebTypeOK
    CancelObeyed
    FinishedIsFinal
    StreamsInOrder
    GrantsWithinCaps
    GrantIsDurable
PROPERTIES
    OwnStreamCloses
    RefusalIsHonest
    EveryChargeReturns
CHECK_DEADLOCK FALSE
