CONSTANTS
    t1 = t1
    t2 = t2
    t3 = t3
    w1 = w1
    w2 = w2
    Requests = {t1, t2, t3}
    Bodies = {t1, t2, t3}
    Workers = {w1, w2}
    WorkerOf <- TwoWorkers
    BodyOf <- OwnBody
    NoRequest = NoRequest
SPECIFICATION FairSpec
INVARIANTS TypeOK LockMatchesHolder LinksPointBack AnsweredIsAudited
PROPERTIES BreaksOnlyByStaleRead HangsOnlyByCollision ForestSpec
CHECK_DEADLOCK FALSE
