SPECIFICATION MCSpec
CONSTANTS
    Scenarios = {"calls", "batch", "managers", "status", "rows", "kafka",
                 "grafana", "webhook", "retry", "health"}
    c1 = c1  c2 = c2
    Calls = {c1, c2}
    KindOf <- MCKindOf
    Cap = 1
    BatchMax = 3
    Scale = 10
    Names = {n1, n2}
    Solo = n1
    Jobs = {j1, j2}
    Seekers = {j1}
    Askers = {a1, a2}
    ShortTTL = 1
    LongTTL = 2
    PingTime = 2
    Horizon = 4
    Queries = {q1, q2, q3, q4}
    Introspecting = {q3}
    Documents = {q4}
    Buffers = {b1, b2}
    RowCount = 2
    Partitions = {p1, p2}
    LogEnd = 2
    MaxSessions = 3
    Requests = {r1, r2}
    RetryMax = 1
    Hooks = {h1, h2}
    SlotCap = 1
    HookRetries = 1
    MaxTriggers = 2
    MaxTries = 3
    InitialDelay = 2
    MaxDelay = 5
    BackoffFactor = 2
    DefaultAttempts = 3
    Checks = {k1, k2}
CHECK_DEADLOCK FALSE
INVARIANTS
    OperationsAccounted
    ClientsOpenWhenUsed
    RowsAreTheQuerys
    NoMessageSkipped
    NothingUndelivered
    VerdictIsOfItsAttempt
    ReportIsTrue
PROPERTIES
    CancelledEnds
    ResultsArePromises
    CloseAllReturns
    StatusAgesOut
    CancelFreesClose
    RetriesHold
    TriggersReturn
