CONSTANTS
    c1 = c1
    c2 = c2
    boot = boot
    w1 = w1
    job = job
    Creators = {c1, c2, boot}
    Scripts = {boot}
    Processes = {w1, job}
    ProcessOf <- Places
    Kinds = {"salt", "key"}
    Down = Down
    MaxEdits = 1
    MaxBoots = 2
SYMMETRY SameCreators
SPECIFICATION Spec
INVARIANTS TypeOK OneAccount AnswersAreTrue TrailFollowsUsers OneSecret AccountsAreReachable
CHECK_DEADLOCK FALSE
