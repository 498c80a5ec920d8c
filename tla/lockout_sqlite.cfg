CONSTANTS
    a = a
    b = b
    Slots = {a, b}
    MaxFailed = 3
    LockFor = 2
    MaxClock = 4
    NaiveDates = TRUE
SYMMETRY SameSlots
SPECIFICATION Spec
INVARIANT LockIsTemporary
CHECK_DEADLOCK FALSE
