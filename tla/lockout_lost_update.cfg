CONSTANTS
    a = a
    b = b
    Slots = {a, b}
    MaxFailed = 3
    LockFor = 2
    MaxClock = 3
    NaiveDates = FALSE
SYMMETRY SameSlots
SPECIFICATION Spec
INVARIANT LockedAfterMaxFailed
CHECK_DEADLOCK FALSE
