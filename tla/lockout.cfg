CONSTANTS
    a = a
    b = b
    Slots = {a, b}
    MaxFailed = 3
    LockFor = 2
    MaxClock = 4
    NaiveDates = FALSE
SYMMETRY SameSlots
SPECIFICATION Spec
INVARIANTS TypeOK FailuresAreCounted NoLockWithoutFailures LockIsTemporary
PROPERTY LockHolds
CHECK_DEADLOCK FALSE
