CONSTANTS
    t1 = t1
    t2 = t2
    t3 = t3
    w1 = w1
    w2 = w2
    Requests = {t1, t2}
    Bodies = {t1, t2}
    Workers = {w1}
    WorkerOf <- OneWorker
    BodyOf <- OwnBody
    NoRequest = NoRequest
SPECIFICATION Spec
INVARIANT NoSharedPrev
CHECK_DEADLOCK FALSE
