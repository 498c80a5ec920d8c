CONSTANTS
    d1 = d1
    d2 = d2
    e1 = e1
    s = s
    t = t
    w1 = w1
    w2 = w2
    Deliveries = {d1, d2, e1}
    Sheets = {s, t}
    SheetOf <- TwoSheets
    RowsOf <- SharedRow
    Workers = {w1, w2}
    WorkerOf <- TwoWorkers
    NoRequest = NoRequest
SPECIFICATION FairHookSpec
INVARIANTS TypeOK StoredOnce AnswersAreTrue TrailTellsSheets
PROPERTIES SheetsArriveWhole HangsSpreadBySheet
CHECK_DEADLOCK FALSE
