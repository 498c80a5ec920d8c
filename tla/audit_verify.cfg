CONSTANTS
    a = a
    b = b
    t0 = t0
    t1 = t1
    Bodies = {a, b}
    Stamps = {t0, t1}
    MaxRows = 2
    MaxId = 4
    MaxEdits = 3
SPECIFICATION Spec
SYMMETRY Symmetry
INVARIANTS LoopFindsFirstBroken SingleChangeShows HeadPinsHistory
CHECK_DEADLOCK FALSE
