CONSTANTS
    auth = auth
    ingest = ingest
    Keys = {auth, ingest}
    Limit <- TwoRates
    Window <- TwoWindows
    MaxClock = 5
    MaxHits = 4
SPECIFICATION Spec
INVARIANTS TypeOK LimitHolds RefusedOnlyWhenFull RefusedOnlyAfterHit
CHECK_DEADLOCK FALSE
