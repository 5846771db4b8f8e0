SPECIFICATION MCSpec
CONSTANTS
    Scenarios = {"limiter", "cache", "pages", "handlers", "cipher", "chain",
                 "logfile", "pane", "sidebar"}
    t1 = t1  i1 = i1  i2 = i2
    Visits = {v1, v2}
    Rate = 2
    Window = 2
    MaxMoment = 3
    MaxMembers = 1
    Getters = {g1, g2}
    Setters = {s1, s2}
    MaxTTL = 1
    CacheEnd = 3
    StartEntries = 3
    MaxEntries = 4
    DefaultPerPage = 1
    MaxPerPage = 3
    GrafanaPerPage = 2
    WordMax = 9
    Clients = {r1, r2}
    Tenants = {t1, t2}
    Rows = {i1, i2}
    HomeOf <- MCHomeOf
    Users = {u1, u2}
    Keys = {k1, k2}
    NoKey = NoKey
    Hits = {h1, h2}
    Registered = {"logger", "gzip", "permission_check"}
    Failing = {"gzip"}
    Nobody = Nobody
    Lines = {l1, l2, l3}
    LastDay = 2
    NoFile = NoFile
    Messages = {m1, m2}
    Matching = {m1}
    Long = {m1}
    MaxLogs = 4
    PaneHeight <- MCPaneHeight
    ScreenHeight <- MCScreenHeight
    SidebarSizes = {5, 9}
    Reports = 1
CHECK_DEADLOCK FALSE
SYMMETRY MCVisitsAlike
INVARIANTS
    AllowanceHolds
    WalkCoversList
    AnswersAreTrue
    RoundTripUnlessRotated
    AnswersKept
    NoLineLost
PROPERTIES
    FreshItemsStay
    ScreenIsTrue
