SPECIFICATION FairSpec
CONSTANTS
    a = a  b = b  c = c  d = d  e = e
    NoJob = NoJob
    Workers = {w1}
    Stoppers = {s1, s2}
    Jobs <- NestedJobs
    Child <- NestedChild
CHECK_DEADLOCK FALSE
INVARIANTS
    AcceptedJobsKept
PROPERTIES
    WaitsEnd
    PromiseKept
