SPECIFICATION FairSpec
CONSTANTS
    a = a  b = b  c = c  d = d
    Names = {async, sync}
    AsyncNames = {async}
    MaxId = 2
    Nothing = Nothing
    NoRun = NoRun
    Workers = {w1}
    Closers = {s1}
    Runs <- SmallRuns
    Child <- SmallChild
CHECK_DEADLOCK FALSE
PROPERTIES
    RunJobNowRuns
