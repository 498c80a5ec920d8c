CONSTANTS
    l = l
    r1 = r1
    r2 = r2
    o = o
    d = d
    u = u
    Requests = {l, r1, r2, o, d}
    Users = {u}
    OpOf <- RaceOps
    UserOf <- OneUser
    NoRequest = NoRequest
    MaxExpired = 2
SYMMETRY SameOps
SPECIFICATION Spec
INVARIANTS TypeOK OneLivePerFamily LogoutEndsFamily VoidIsRefused
PROPERTY PhasesSpec
CHECK_DEADLOCK FALSE
