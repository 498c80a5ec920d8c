CONSTANTS
    p = p
    q = q
    r = r
    h = h
    x = x
    w1 = w1
    w2 = w2
    client = client
    odd = odd
    Requests = {p, q, r, h, x}
    Workers = {w1, w2}
    WorkerOf <- Places
    Reads <- ReadersOf
    KeyOf <- Clients
    NoKey = NoKey
    SizeLimit = 1
    MaxChunk = 2
    Absent = Absent
    Malformed = Malformed
    CountedBy <- Owners
    Unparsed <- OddUnits
    Keys <- Counters
    Limit <- OneEach
    Window <- OneEach
    MaxClock = 2
    MaxHits = 3
SPECIFICATION DoorSpec
INVARIANTS RoutesAreLimited BodiesAreBounded EventsAreRefusals
CHECK_DEADLOCK FALSE
